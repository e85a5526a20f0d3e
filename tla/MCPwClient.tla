----------------------------- MODULE MCPwClient ------------------------------
(* What a client of PipeWire does on a connection that stays, one of the two *)
(* at a time. Subscriptions: two share a list that the worker dispatches,    *)
(* the third is in a list that the owner dispatches. Ports: an output and an *)
(* input, and messages of three sizes, the last one too large for a buffer,  *)
(* an empty one and a reset.                                                 *)
EXTENDS PwSubscription

CONSTANTS g, h, st, Sends, Header, BufferSize, Buffers, MaxSends, MaxOpens

ASSUME SendsAssumption == Sends \subseteq [size : Nat, reset : BOOLEAN]
ASSUME NumbersAssumption == Header \in Nat /\ MaxSends \in Nat

VARIABLES port_open, call, port, opens, removed, linked, m_queue, sent, process, buffer, free, delivered, gone
portvars == <<port_open, call, port, opens, removed, linked, m_queue, sent, process, buffer, free, delivered, gone>>

Ports == INSTANCE PwPorts

MCSubs == {g, h, st}
MCKind == [s \in MCSubs |-> CASE s \in {g, h} -> "port_added" [] OTHER -> "state"]

\* Two subscriptions to the graph events only.
MCGraphSubs == {g, h}
MCGraphKind == [s \in MCGraphSubs |-> "port_added"]

Plain(n) == [size |-> n, reset |-> FALSE]
MCSends == {Plain(0), Plain(1), Plain(2), Plain(4), [size |-> 1, reset |-> TRUE]}

MCInit == Init /\ Ports!Init
MCNext == \/ Ports!Init /\ Next /\ UNCHANGED portvars
          \/ Init /\ Ports!Next /\ UNCHANGED vars
MCSpec == MCInit /\ [][MCNext]_<<vars, portvars>> /\ Fairness /\ Ports!Fairness

\* What was sent is heard once and in order (PwPorts, OnceInOrder).
PortsOnceInOrder == Ports!OnceInOrder

\* ... and in the end (PwPorts, Arrives).
PortsArrive == Ports!Arrives

\* One message does not cost another (PwPorts, TriedAgain).
PortsTriedAgain == Ports!TriedAgain

\* process() has a port (PwPorts, HasPort).
PortsHavePort == Ports!HasPort
=============================================================================

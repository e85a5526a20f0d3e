------------------------------- MODULE PwPorts -------------------------------
(***************************************************************************)
(* The ports of PipeWire: midi_out_pipewire and midi_in_pipewire over        *)
(* pipewire_helpers and filter, and their forms for UMP. The filter of an    *)
(* object is started by its constructor; open_port() adds a port to it and   *)
(* links it. PipeWire calls process() on its data thread, for the output and *)
(* then for the input: the output puts what send_message() queued into one   *)
(* buffer, the input hands on what is in it and gives the buffer back.       *)
(*                                                                          *)
(* External: PipeWire, with buffers of one size that the two ends share, and *)
(* spa_pod_builder, which goes on counting beyond the end of its buffer and  *)
(* leaves a sequence that nobody can read.                                   *)
(***************************************************************************)
EXTENDS Naturals, SequencesExt

CONSTANTS
  Sends,       \* what may be sent: records of a size and of being a reset
  Header,      \* the size of a sequence without events
  BufferSize,
  Buffers,     \* how many the two ends share
  MaxSends,    \* bound: calls of send_message()
  MaxOpens     \* bound: calls of open_port()

VARIABLES
  port_open,   \* the flag of midi_out
  call,        \* where the call of the application is
  port,        \* port of the output: 0, or the opening it was added in
  opens,
  removed,     \* PipeWire has freed that port
  linked,
  m_queue,
  sent,        \* history: messages that send_message() took
  process,     \* process() of the output
  buffer,      \* what the output queued and the input has not looked at
  free,        \* buffers that nobody holds
  delivered,   \* history: messages that reached the state machine of the input
  gone         \* history: messages that were in a buffer nobody could read

object_vars == <<port_open, call, port, opens, removed, linked>>
queue_vars == <<m_queue, sent>>
portvars == <<object_vars, queue_vars, process, buffer, free, delivered, gone>>

Empty == [full |-> FALSE, taken |-> <<>>]
Idle == [at |-> "idle", port |-> 0, offset |-> 0, taken |-> <<>>]
Init ==
  /\ port_open = FALSE /\ call = "none" /\ port = 0 /\ opens = 0 /\ removed = FALSE /\ linked = FALSE
  /\ m_queue = <<>> /\ sent = <<>>
  /\ process = Idle /\ buffer = Empty /\ free = Buffers
  /\ delivered = <<>> /\ gone = {}

-----------------------------------------------------------------------------
(* Calls of midi_out.                                                       *)

\* create_local_port(): a port that a failed opening left is used again.
OpenPort ==
  /\ call = "none" /\ ~port_open /\ opens < MaxOpens
  /\ opens' = opens + 1
  /\ port' = IF port = 0 THEN opens' ELSE port
  /\ call' = "link" /\ removed' = FALSE
  /\ UNCHANGED <<port_open, linked, queue_vars, process, buffer, free, delivered, gone>>

\* link_ports(), which gives up when our port does not show in the snapshot.
Link ==
  /\ call = "link" /\ call' = "none"
  /\ \/ linked' = TRUE /\ port_open' = TRUE
     \/ UNCHANGED <<linked, port_open>>
  /\ UNCHANGED <<port, opens, removed, queue_vars, process, buffer, free, delivered, gone>>

\* open_virtual_port(): others link to it, or do not.
OpenVirtualPort ==
  /\ call = "none" /\ ~port_open /\ opens < MaxOpens
  /\ opens' = opens + 1
  /\ port' = IF port = 0 THEN opens' ELSE port
  /\ port_open' = TRUE /\ removed' = FALSE
  /\ UNCHANGED <<call, linked, queue_vars, process, buffer, free, delivered, gone>>

PeerLinks ==
  /\ port_open /\ ~linked /\ call = "none"
  /\ linked' = TRUE
  /\ UNCHANGED <<port_open, call, port, opens, removed, queue_vars, process, buffer, free, delivered, gone>>

SendMessage(m) ==
  LET next == [id |-> Len(sent) + 1, size |-> m.size, reset |-> m.reset]
  IN /\ call = "none" /\ port_open /\ Len(sent) < MaxSends
     /\ sent' = Append(sent, next) /\ m_queue' = Append(m_queue, next)
     /\ UNCHANGED <<object_vars, process, buffer, free, delivered, gone>>

ClosePort ==
  /\ call = "none" /\ port_open
  /\ call' = "unlink"
  /\ UNCHANGED <<port_open, port, opens, removed, linked, queue_vars, process, buffer, free, delivered, gone>>

\* A link that goes takes its buffers along.
Unlinked ==
  /\ linked' = FALSE
  /\ gone' = gone \cup ToSet(buffer.taken) \cup ToSet(process.taken)
  /\ buffer' = Empty /\ free' = Buffers
  /\ process' = [process EXCEPT !.taken = <<>>]

Unlink ==
  /\ call = "unlink" /\ call' = "remove"
  /\ IF linked THEN Unlinked ELSE UNCHANGED <<linked, gone, buffer, free, process>>
  /\ UNCHANGED <<port_open, port, opens, removed, queue_vars, delivered>>

RemovePort ==
  /\ call = "remove" /\ call' = "clear"
  /\ removed' = TRUE
  /\ UNCHANGED <<port_open, port, opens, linked, queue_vars, process, buffer, free, delivered, gone>>

ClearPort ==
  /\ call = "clear" /\ call' = "none"
  /\ port' = 0 /\ port_open' = FALSE
  /\ UNCHANGED <<opens, removed, linked, queue_vars, process, buffer, free, delivered, gone>>

\* The other end goes away, or another program unlinks us.
PeerUnlinks ==
  /\ linked /\ call = "none" /\ Unlinked
  /\ UNCHANGED <<port_open, call, port, opens, removed, queue_vars, delivered>>

-----------------------------------------------------------------------------
(* The data thread. It shares no lock with close_port().                    *)

\* What process() does without a port, or with one that was freed, is
\* undefined: the model ends there.
Undefined ==
  /\ process' = [process EXCEPT !.at = "undefined"]
  /\ UNCHANGED <<object_vars, queue_vars, buffer, free, delivered, gone>>

Usable == port # 0 /\ ~removed

ProcessNoPort == process.at = "idle" /\ ~Usable /\ Undefined

\* filter_dequeue_buffer()
Dequeue ==
  /\ process.at = "idle" /\ Usable
  /\ linked /\ buffer = Empty /\ free > 0
  /\ free' = free - 1
  /\ process' = [at |-> "fill", port |-> port, offset |-> Header, taken |-> <<>>]
  /\ UNCHANGED <<object_vars, queue_vars, buffer, delivered, gone>>

\* An empty message and a system reset are taken out and not sent.
Skip ==
  /\ process.at = "fill" /\ m_queue # <<>>
  /\ Head(m_queue).reset \/ Head(m_queue).size = 0
  /\ m_queue' = Tail(m_queue)
  /\ UNCHANGED <<object_vars, sent, process, buffer, free, delivered, gone>>

\* Mutated form of Take: a message leaves the queue whether it fits or not.
TakeAlways ==
  /\ process.at = "fill" /\ m_queue # <<>> /\ ~Head(m_queue).reset /\ Head(m_queue).size > 0
  /\ LET m == Head(m_queue)
         offset == process.offset + m.size
     IN /\ process' = IF offset > BufferSize THEN [process EXCEPT !.at = "finish", !.offset = offset]
                      ELSE [process EXCEPT !.offset = offset, !.taken = Append(@, m)]
        /\ m_queue' = Tail(m_queue)
  /\ UNCHANGED <<object_vars, sent, buffer, free, delivered, gone>>

\* -ENOSPC ends the loop; the builder has counted the message.
Take ==
  /\ process.at = "fill" /\ m_queue # <<>> /\ ~Head(m_queue).reset /\ Head(m_queue).size > 0
  /\ LET m == Head(m_queue)
         offset == process.offset + m.size
     IN IF offset > BufferSize
        THEN process' = [process EXCEPT !.at = "finish", !.offset = offset] /\ UNCHANGED m_queue
        ELSE process' = [process EXCEPT !.offset = offset, !.taken = Append(@, m)] /\ m_queue' = Tail(m_queue)
  /\ UNCHANGED <<object_vars, sent, buffer, free, delivered, gone>>

\* filter_queue_buffer(), with the port that the object has now.
Queue ==
  /\ process.at = "finish" \/ (process.at = "fill" /\ m_queue = <<>>)
  /\ Usable /\ process.port = port
  /\ IF linked
     THEN buffer' = [full |-> TRUE, offset |-> process.offset, taken |-> process.taken] /\ UNCHANGED gone
     ELSE gone' = gone \cup ToSet(process.taken) /\ UNCHANGED buffer
  /\ process' = Idle
  /\ UNCHANGED <<object_vars, queue_vars, free, delivered>>

QueueNoPort ==
  /\ process.at = "finish" \/ (process.at = "fill" /\ m_queue = <<>>)
  /\ ~(Usable /\ process.port = port) /\ Undefined

\* Mutated form of Read: the buffer is not given back.
ReadKeeps ==
  /\ buffer.full /\ buffer.offset <= BufferSize
  /\ delivered' = delivered \o buffer.taken
  /\ buffer' = Empty /\ UNCHANGED free
  /\ UNCHANGED <<object_vars, queue_vars, process, gone>>

\* process() of the input.
Read ==
  /\ buffer.full /\ buffer.offset <= BufferSize
  /\ delivered' = delivered \o buffer.taken
  /\ buffer' = Empty /\ free' = free + 1
  /\ UNCHANGED <<object_vars, queue_vars, process, gone>>

\* ... finds nothing that it can read, and returns before it gives the buffer
\* back; or PipeWire has made an empty sequence of it.
ReadNothing ==
  /\ buffer.full /\ buffer.offset > BufferSize
  /\ gone' = gone \cup ToSet(buffer.taken)
  /\ buffer' = Empty /\ free' \in {free, free + 1}
  /\ UNCHANGED <<object_vars, queue_vars, process, delivered>>

-----------------------------------------------------------------------------

Application == OpenPort \/ Link \/ OpenVirtualPort \/ (\E m \in Sends : SendMessage(m)) \/ ClosePort \/ Unlink \/ RemovePort \/ ClearPort
Data == Dequeue \/ Skip \/ Take \/ Queue \/ Read \/ ReadNothing

Next == Application \/ PeerLinks \/ PeerUnlinks \/ Data \/ ProcessNoPort \/ QueueNoPort

Spec == Init /\ [][Next]_portvars

\* PipeWire goes on to call process(), and what it called goes on.
Fairness == WF_portvars(Data \/ QueueNoPort)

FairSpec == Spec /\ Fairness

-----------------------------------------------------------------------------
(* Properties.                                                              *)

Messages == [id : 1..MaxSends, size : Nat, reset : BOOLEAN]
Audible == {m \in Messages : ~m.reset /\ m.size > 0}

\* The messages of s that are in P, in their order.
Kept(s, P) ==
  LET f[i \in 0..Len(s)] ==
        IF i = 0 THEN <<>> ELSE IF s[i] \in P THEN Append(f[i - 1], s[i]) ELSE f[i - 1]
  IN f[Len(s)]

\* Every message is heard once and in the order of the calls, over both
\* threads and any number of openings, but what is still on its way and what
\* was in a buffer that was lost; and a buffer is lost only with its link, or
\* when the queue had more than it could hold.
OnceInOrder ==
  delivered \o buffer.taken \o process.taken \o Kept(m_queue, Audible) = Kept(sent, Audible \ gone)

\* All of it fits in one buffer.
Fits == FoldLeft(LAMBDA n, m : n + m.size, Header, Kept(sent, Audible)) <= BufferSize

\* As long as all of it would fit in a buffer, what is sent to a port that
\* stays linked arrives, however often process() runs and calls interleave.
Arrives ==
  <>[](linked /\ process.at # "undefined") /\ [](Fits) => []<>(m_queue = <<>> /\ process.taken = <<>> /\ ~buffer.full)

\* "Try again next buffer" (backends/pipewire/midi_out.hpp:130): a message that
\* does not fit costs none of the others, which can be read.
TriedAgain == buffer.taken # <<>> => buffer.offset <= BufferSize

\* process() has a port (the assertion at backends/pipewire/midi_in.hpp:95).
HasPort == process.at # "undefined"
=============================================================================

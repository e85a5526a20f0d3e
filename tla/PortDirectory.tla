---------------------------- MODULE PortDirectory ----------------------------
(* What an observer promises its user (observer_configuration.hpp,          *)
(* book/src/hotplug.md): the callbacks for a port alternate, added first,   *)
(* whatever the backend sees of the system behind it.                       *)
EXTENDS Naturals

CONSTANT Ports

VARIABLE count  \* count[p]: added callbacks for p less the removed ones

Init == count = [p \in Ports |-> 0]

\* The ports of S are announced.
Added(S) ==
  /\ \A p \in S : count[p] = 0
  /\ count' = [p \in Ports |-> IF p \in S THEN 1 ELSE count[p]]

Removed(p) ==
  /\ count[p] = 1
  /\ count' = [count EXCEPT ![p] = 0]

\* The observer is destroyed.
Closed == count' = [p \in Ports |-> 0]

Next == (\E S \in SUBSET Ports : Added(S)) \/ (\E p \in Ports : Removed(p)) \/ Closed

Spec == Init /\ [][Next]_count
=============================================================================

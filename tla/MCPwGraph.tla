------------------------------ MODULE MCPwGraph ------------------------------
(* A node with two ports, one of which the observer does not track, and a   *)
(* node without a name.                                                     *)
EXTENDS PwGraph

CONSTANTS m, n, p, q

MCNodes == {m, n}
MCPorts == {p, q}
MCNodeOf == [x \in MCPorts |-> IF x = p THEN m ELSE n]
MCNamed == {m}
MCTracked == {p}
=============================================================================

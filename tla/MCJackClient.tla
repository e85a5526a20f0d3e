---------------------------- MODULE MCJackClient ----------------------------
(* An output with a client of its own, or two inputs on a shared handler     *)
(* whose queue holds three events.                                           *)
EXTENDS JackClient

CONSTANTS p, q, r

MCObjs == {p, q, r}
MCSetups == {<<{p}, {}>>, <<{q, r}, {q, r}>>}
MCOutputs == {p}
MCOpens == [o \in MCObjs |-> IF o = p THEN 2 ELSE IF o = q THEN 1 ELSE 0]
MCSizes == {1, 2}
=============================================================================

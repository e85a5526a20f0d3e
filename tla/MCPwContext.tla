----------------------------- MODULE MCPwContext -----------------------------
(* Two holders of one context, or one that may reconnect it. Fresh sync      *)
(* numbers: one per client, one stored, the others on the wire.              *)
EXTENDS PwContext

CONSTANTS a, b

MCTwo == {a, b}
MCOne == {a}
MCSeqs == 1..6
MCNotRecoverable == {"fatal", "object"}
MCFatal == {"fatal"}
=============================================================================

---------------------------- MODULE MCScriptHost ----------------------------
(* Instances of ScriptHost small enough for TLC. *)
EXTENDS ScriptHost

CONSTANTS r1, r2

OneRequest  == {r1}
TwoRequests == {r1, r2}
=============================================================================

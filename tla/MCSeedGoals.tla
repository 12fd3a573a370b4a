----------------------------- MODULE MCSeedGoals -----------------------------
(* Small instances of SeedGoals. *)
EXTENDS SeedGoals
=============================================================================

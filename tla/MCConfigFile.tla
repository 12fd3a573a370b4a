---------------------------- MODULE MCConfigFile ----------------------------
(* An instance of ConfigFile small enough for TLC. *)
EXTENDS ConfigFile

CONSTANTS v1, v2

TwoVersions == {v1, v2}
=============================================================================

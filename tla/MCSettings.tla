----------------------------- MODULE MCSettings -----------------------------
(* An instance of Settings small enough for TLC. *)
EXTENDS Settings, TLC

CONSTANTS v1, v2, v3, v4

FourVersions == {v1, v2, v3, v4}

\* No definition tells one version from another.
Symmetry == Permutations(FourVersions)
=============================================================================

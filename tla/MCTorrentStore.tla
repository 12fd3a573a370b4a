--------------------------- MODULE MCTorrentStore ---------------------------
(* Instances of TorrentStore small enough for TLC. *)
EXTENDS TorrentStore

CONSTANTS h1, h2, o1

OneHash   == {h1}
TwoHashes == {h1, h2}
OneOption == {o1}

\* No definition tells one info hash from another.
Symmetry == Permutations(TwoHashes)
=============================================================================

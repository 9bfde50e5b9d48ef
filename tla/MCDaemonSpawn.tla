--------------------------- MODULE MCDaemonSpawn ---------------------------
(* Small instances of DaemonSpawn. *)
EXTENDS DaemonSpawn, TLC

CONSTANTS c1, c2, c3, e1, e2, e3

Symmetry == Permutations({c1, c2, c3}) \cup Permutations({e1, e2, e3})

=============================================================================

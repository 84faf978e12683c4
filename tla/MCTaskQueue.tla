----------------------------- MODULE MCTaskQueue -----------------------------
(* Small instances of TaskQueue for TLC. *)
EXTENDS TaskQueue, TLC

CONSTANTS n1, n2, h1, h2

Symmetry == Permutations({n1, n2}) \cup Permutations({h1, h2})
=============================================================================

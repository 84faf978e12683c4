------------------------------ MODULE MCNetGuard ------------------------------
(* Instances of NetGuard. *)
EXTENDS NetGuard, TLC

CONSTANTS r1, r2, d1, d2, h1, h2

Symmetry == Permutations({h1, h2})
===============================================================================

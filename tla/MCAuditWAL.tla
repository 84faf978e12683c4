----------------------------- MODULE MCAuditWAL -----------------------------
(* Instances of AuditWAL for TLC.  Bodies are interchangeable.             *)
EXTENDS AuditWAL, TLC

BodySymmetry == Permutations(Bodies)

=============================================================================

----------------------------- MODULE MCAuditLog -----------------------------
(* Instances of AuditLog for TLC: requests are interchangeable.            *)
EXTENDS AuditLog, TLC

Symmetry == Permutations(Requests)
=============================================================================

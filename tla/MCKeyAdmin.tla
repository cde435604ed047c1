----------------------------- MODULE MCKeyAdmin -----------------------------
(* Instances of KeyAdmin for TLC.  Handlers, callers, roles and
   addresses are alike. *)
EXTENDS KeyAdmin, TLC

Symmetry == Permutations(Handlers) \cup Permutations(Callers)
            \cup Permutations(Roles) \cup Permutations(Addrs)

\* The state without the accounting of the audit trail: rows, flagged,
\* handed, unread and applied are written only.  No guard and no other
\* variable depends on them, nor do AuthnCoherent and PurgeHarmless, so
\* that states that differ in them alone have the same successors up to this
\* difference.
AuthnView == <<clock, crashes, keys, ids, secrets, calls, pc, job, cleaner,
               before, reqVars, good>>
=============================================================================

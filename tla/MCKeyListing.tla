---------------------------- MODULE MCKeyListing ----------------------------
(* KeyListing on a small instance.  The strings are all those of up to two
   characters the codec tells apart, and some longer ones. *)
EXTENDS KeyListing

Task(h) == <<pc[h], job[h].op, job[h].id, job[h].secret, job[h].val>>

\* The state up to two differences that no guard, no other variable and no
\* invariant depends on: which handler has which task, and which replies
\* arrived.
AuditView ==
  <<clock, crashes, keys, ids, secrets, calls,
    [t \in {Task(h) : h \in Handlers} |-> Cardinality({h \in Handlers : Task(h) = t})],
    rows, flagged, handed \cup unread, applied, cleaner, before, reqVars, good, listVars>>

MCStrings ==
  UNION {[1..n -> {"a", "{", "}", ",", "\"", "\\", " ", "CR"}] : n \in 0..2}
  \cup {<<"N", "U", "L", "L">>, <<"CR", "n", "u", "l", "L">>, <<"N", "U", "L", "L", " ">>,
        <<"N", "U", "L">>, <<"\"", ",", "\\">>}
=============================================================================

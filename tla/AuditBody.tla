----------------------------- MODULE AuditBody ------------------------------
(***************************************************************************)
(* The request body as the audit log keeps it (internal/audit/body.go).    *)
(*                                                                         *)
(* A JSON body is the sequence of its leaves, each with the path that      *)
(* leads to it: the names of the fields, and for an element of an array    *)
(* its position, which no field is called.  Fields are distinct and in the *)
(* order json.Marshal writes them.  A leaf has its text, and the text that *)
(* decoding it into an `any` and encoding it again makes of it: a number   *)
(* goes through float64, and one out of its range cannot be decoded.  Text *)
(* that is not JSON has leaves without a path.  A name is a word and       *)
(* whether it is written in capitals.  The length of a body is the number  *)
(* of its leaves.                                                          *)
(***************************************************************************)
EXTENDS Integers, Sequences, FiniteSetsExt

Names == [word : STRING, caps : BOOLEAN]
Leaves == [path : Seq(Names), val : STRING, again : STRING]

Redacted == "[REDACTED]"
OutOfRange == "no float64"

\* json.Unmarshal takes the body; json.Marshal writes what was decoded.
Decodes(leaves) == \A i \in DOMAIN leaves : leaves[i].again # OutOfRange
Marshal(leaves) == [i \in DOMAIN leaves |-> [leaves[i] EXCEPT !.val = leaves[i].again]]

ToLower(name) == [name EXCEPT !.caps = FALSE]

\* The positions of leaf's path that name a field to redact.
Sensitive(leaf, redact) ==
  {i \in DOMAIN leaf.path : ToLower(leaf.path[i]) \in redact}

\* Mutant: only the fields of the outermost object are looked at.
redactLeaf_shallow(leaf, redact) ==
  IF 1 \in Sensitive(leaf, redact)
  THEN [path |-> SubSeq(leaf.path, 1, 1), val |-> Redacted, again |-> Redacted] ELSE leaf

\* The outermost redacted field above the leaf takes everything below it.
redactLeaf(leaf, redact) ==
  IF Sensitive(leaf, redact) = {} THEN leaf
  ELSE [path |-> SubSeq(leaf.path, 1, Min(Sensitive(leaf, redact))),
        val |-> Redacted, again |-> Redacted]

\* The k-th smallest element of a set of numbers.
Nth(S, k) == CHOOSE i \in S : Cardinality({j \in S : j <= i}) = k

\* Leaves of one redacted value become one marker.
redactValue(leaves, redact) ==
  LET marked == [i \in DOMAIN leaves |-> redactLeaf(leaves[i], redact)]
      first == {i \in DOMAIN leaves : \A j \in 1..i-1 : marked[j] # marked[i]}
  IN  [k \in 1..Cardinality(first) |-> marked[Nth(first, k)]]

(***************************************************************************)
(* What is logged: nothing for an empty body; JSON that fits as it is; the *)
(* rest as a JSON string, cut at maxBytes (0: unlimited).  Redaction comes *)
(* before the cut, and reaches JSON that can be decoded only.              *)
(***************************************************************************)
sanitizeBody(body, maxBytes, redact) ==
  LET out == IF body.json /\ redact # {} /\ Decodes(body.leaves)
             THEN Marshal(redactValue(body.leaves, redact)) ELSE body.leaves
      cut == maxBytes > 0 /\ Len(out) > maxBytes
  IN  [inline |-> body.json /\ ~cut,
       leaves |-> IF cut THEN SubSeq(out, 1, maxBytes) ELSE out]

(***************************************************************************)
(* What audit_redact_fields does to a JSON body, told without the          *)
(* recursion: no leaf that lies under a redacted field, at any depth and   *)
(* in any case, is in what is logged, and every other leaf is as it was,   *)
(* or, where there are fields to redact, encoded again.  The exception: a  *)
(* body with a number out of range is logged as it was sent.               *)
(***************************************************************************)
Discreet(logged, body, redact) ==
  body.json => \A leaf \in Range(logged.leaves) :
    IF ~Decodes(body.leaves) THEN leaf \in Range(body.leaves)
    ELSE \/ leaf.val = Redacted
         \/ \E l \in Range(body.leaves) :
              /\ leaf.path = l.path /\ leaf.val = IF redact = {} THEN l.val ELSE l.again
              /\ \A i \in DOMAIN l.path : ToLower(l.path[i]) \notin redact
=============================================================================

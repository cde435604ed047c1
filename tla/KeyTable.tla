------------------------------ MODULE KeyTable ------------------------------
(***************************************************************************)
(* The api_keys table as the store's methods read and change it            *)
(* (internal/store).  Each operator maps a table to a table; a table is a  *)
(* function from the ids of the present keys to their records.  A record   *)
(* keeps what authentication looks at:                                     *)
(*   secret   the secret whose HMAC is stored (Hash is injective)          *)
(*   enabled  0 or 1                                                       *)
(*   expires  a time, 0 for a key that does not expire                     *)
(*   roles    a set of roles                                               *)
(*   cidrs    the client addresses the allowlist covers, {} for no list    *)
(***************************************************************************)
EXTENDS Integers, Functions

Present(t, id) == id \in DOMAIN t

\* The caller has checked that the id is not in use.
Create(t, id, rec) == [i \in DOMAIN t \cup {id} |-> IF i = id THEN rec ELSE t[i]]

SetEnabled(t, id, enabled) == [t EXCEPT ![id].enabled = enabled]

SetRoles(t, id, roles) == [t EXCEPT ![id].roles = roles]

SetAllowedCIDRs(t, id, cidrs) == [t EXCEPT ![id].cidrs = cidrs]

SetExpiresAt(t, id, expires) == [t EXCEPT ![id].expires = expires]

UpdateHash(t, id, secret) == [t EXCEPT ![id].secret = secret]

Delete(t, id) == Restrict(t, DOMAIN t \ {id})

\* Mutant: a key without expiry is not told from one that expired long ago.
DeleteExpired_null(t, before) ==
  Restrict(t, {id \in DOMAIN t : t[id].expires >= before})

DeleteExpired(t, before) ==
  Restrict(t, {id \in DOMAIN t : t[id].expires = 0 \/ t[id].expires >= before})

=============================================================================

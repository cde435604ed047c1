----------------------------- MODULE KeyListing -----------------------------
(***************************************************************************)
(* Walking the list of keys while it changes: GET /admin/keys returns one  *)
(* page (listKeys, ListFiltered) of the keys in the order of created_at,   *)
(* and a client asks for page after page until it gets an empty one.  The  *)
(* handlers of KeyAdmin and the pdag command change the table between the  *)
(* pages.                                                                  *)
(***************************************************************************)
EXTENDS KeyAdmin, PgArray

CONSTANTS
  Limit,     \* the page size a client asks for
  MaxLimit,  \* maxLimit (1000 in the code)
  Strings,   \* elements of text[] columns
  MaxArray   \* bound on the length of such arrays

ASSUME ListingAssumption ==
  /\ Limit \in Nat \ {0} /\ MaxLimit \in Nat \ {0} /\ MaxArray \in Nat
  /\ Strings \subseteq Seq(STRING)

VARIABLES
  createdAt,  \* created_at of every key; until it is inserted, when it was asked for
  pager       \* the client that walks the list (NoPager)

listVars == <<createdAt, pager>>

(* role is the filter of the client and got what it has got; of the keys that *)
(* match, stay have matched since it began, gone and fresh no longer or since *)
(* later.                                                                     *)
NoRole == "none"
NoPager == [loc |-> "idle", role |-> NoRole, got |-> <<>>, stay |-> {}, gone |-> {}, fresh |-> {}]

ListInit == Init /\ createdAt = [id \in Ids |-> 0] /\ pager = NoPager

Matches(t, role) == {id \in DOMAIN t : role = NoRole \/ role \in t[id].roles}

\* Mutant: the keys come in the order of the map.
Orders_unsorted(S) == Bijection(1..Cardinality(S), S)

\* ORDER BY created_at, sort.Slice by CreatedAt: ties come in any order.
Orders(S) ==
  {s \in Bijection(1..Cardinality(S), S) :
     \A i, j \in DOMAIN s : i < j => createdAt[s[i]] <= createdAt[s[j]]}

\* The pages that limit and offset may cut from the matching keys.
ListFiltered(limit, offset, role) ==
  {SubSeq(s, offset + 1, Min({offset + limit, Len(s)})) : s \in Orders(Matches(keys, role))}

\* One GET /admin/keys of the client at the offset of what pager p has got.
listKeys(p) ==
  \E page \in ListFiltered(Min({Limit, MaxLimit}), Len(p.got), p.role) :
    pager' = [p EXCEPT !.loc = IF page = <<>> THEN "over" ELSE "walk", !.got = @ \o page]

FirstPage(role) ==
  /\ pager.loc = "idle"
  /\ listKeys([NoPager EXCEPT !.role = role, !.stay = Matches(keys, role)])
  /\ UNCHANGED <<vars, createdAt>>

NextPage ==
  /\ pager.loc = "walk"
  /\ listKeys(pager)
  /\ UNCHANGED <<vars, createdAt>>

Done ==
  /\ pager.loc = "over"
  /\ pager' = NoPager
  /\ UNCHANGED <<vars, createdAt>>

\* A step of KeyAdmin.  created_at is the time of the insert, or that of the
\* request where the store takes the record's CreatedAt.
KeyStep ==
  LET joined == Matches(keys', pager.role) \ Matches(keys, pager.role)
      left == Matches(keys, pager.role) \ Matches(keys', pager.role)
  IN
  /\ Next
  /\ \E late \in BOOLEAN :
       createdAt' = [id \in Ids |->
         IF id \in (ids + 1)..ids' \/ (late /\ id \in DOMAIN keys' \ DOMAIN keys)
         THEN clock ELSE createdAt[id]]
  /\ pager' = IF pager.loc # "walk" THEN pager
              ELSE [pager EXCEPT !.stay = @ \ left, !.gone = @ \cup left, !.fresh = @ \cup joined]

ListNext == KeyStep \/ (\E role \in Roles \cup {NoRole} : FirstPage(role)) \/ NextPage \/ Done

ListSpec == ListInit /\ [][ListNext]_<<vars, listVars>>

-----------------------------------------------------------------------------
(* Properties.                                                             *)

\* What "paginated" promises the client of GET /admin/keys: a key that was
\* there all the time is listed once.  It is missed only if a key before it
\* went, and repeated only if one came, while the client walked, or if another
\* key has the very same created_at.
ListingComplete ==
  pager.loc = "over" =>
    \A id \in pager.stay :
      LET times == Cardinality({i \in DOMAIN pager.got : pager.got[i] = id})
          Earlier(S) == \E k \in S : createdAt[k] < createdAt[id]
          tied == \E k \in (pager.stay \cup pager.gone \cup pager.fresh) \ {id} :
                    createdAt[k] = createdAt[id]
      IN /\ times = 0 => Earlier(pager.gone) \/ tied
         /\ times > 1 => Earlier(pager.fresh) \/ tied

\* Every array of the strings in question survives its text[] column.
ColumnsFaithful == \A n \in 0..MaxArray : \A a \in [1..n -> Strings] : RoundTrip(a)

\* Whatever the strings are that a key has as its roles and its allowlist, a
\* page that lists the key has them as they were stored, each where it was
\* (with the exceptions of RoundTrip).
ArrayRoundTrip == pager.got # <<>> => ColumnsFaithful
=============================================================================

-------------------------- MODULE KeyListingProofs --------------------------
(***************************************************************************)
(* Proofs about KeyListing: that it adds nothing to what KeyAdmin does to  *)
(* the keys, and what a client gets that walks the list while it changes.  *)
(***************************************************************************)
EXTENDS KeyListing, KeyAdminProofs

-----------------------------------------------------------------------------
(* The pages of an ordered listing.                                        *)

\* The length of a page, and of all that came with the pages before it.
LEMMA PageLengths ==
  ASSUME NEW S, NEW got \in Seq(S), NEW page \in Seq(S)
  PROVE  /\ page = <<>> <=> Len(page) = 0
         /\ got \o page \in Seq(S) /\ Len(got \o page) = Len(got) + Len(page)
<1>1. page = <<>> <=> Len(page) = 0
  OBVIOUS
<1>2. got \o page \in Seq(S)
  OBVIOUS
<1>3. Len(got \o page) = Len(got) + Len(page)
  OBVIOUS
<1> QED BY <1>1, <1>2, <1>3, Zenon

\* Min of two numbers.
LEMMA MinOfTwo ==
  ASSUME NEW a \in Nat, NEW b \in Nat
  PROVE  Min({a, b}) = IF a <= b THEN a ELSE b
<1> DEFINE m == IF a <= b THEN a ELSE b
<1>1. m \in {a, b} /\ \A y \in {a, b} : m =< y
  OBVIOUS
<1>2. \A x \in {a, b} : (\A y \in {a, b} : x =< y) => x = m
  OBVIOUS
<1> HIDE DEF m
<1>3. Min({a, b}) = m
  BY <1>1, <1>2, Zenon DEF Min
<1> QED BY <1>3, Zenon DEF m

IsListing(s, S, n) ==
  /\ n \in Nat /\ s \in [1..n -> S] /\ s \in Seq(S) /\ Len(s) = n
  /\ \A i, j \in 1..n : s[i] = s[j] => i = j
  /\ \A i, j \in 1..n : i < j => createdAt[s[i]] <= createdAt[s[j]]
  /\ \A k \in S : \E i \in 1..n : s[i] = k

\* A listing has every key once, in the order of created_at.
LEMMA OrderFacts ==
  ASSUME NEW S, IsFiniteSet(S), NEW s \in Orders(S)
  PROVE  IsListing(s, S, Cardinality(S))
<1> DEFINE n == Cardinality(S)
<1>1. n \in Nat
  BY FS_CardinalityType, Zenon
<1>2. s \in Bijection(1..n, S) /\ \A i, j \in DOMAIN s : i < j => createdAt[s[i]] <= createdAt[s[j]]
  BY Zenon DEF Orders
<1> HIDE DEF n
<1>3. /\ s \in [1..n -> S] /\ \A i, j \in 1..n : s[i] = s[j] => i = j
      /\ \A k \in S : \E i \in 1..n : s[i] = k
  BY <1>2, Zenon DEF Bijection, Injection, IsInjective, Surjection
<1>4. s \in Seq(S) /\ Len(s) = n
  BY <1>1, <1>3
<1>5. \A i, j \in 1..n : i < j => createdAt[s[i]] <= createdAt[s[j]]
  BY <1>2, <1>3, Zenon
<1>6. IsListing(s, S, n)
  BY <1>1, <1>3, <1>4, <1>5, Zenon DEF IsListing
<1> QED BY <1>6, Zenon DEF n

IsPlace(s, id, r) == r \in Nat /\ r + 1 \in 1..Len(s) /\ \A i \in 1..Len(s) : s[i] = id <=> i = r + 1

\* A key that shares its created_at with no other key of the listing has as
\* many keys before it as are older.
LEMMA PlaceInOrder ==
  ASSUME NEW S, IsFiniteSet(S), NEW s \in Orders(S), NEW id \in S,
         \A k \in S : createdAt[k] \in Nat,
         \A k \in S \ {id} : createdAt[k] # createdAt[id]
  PROVE  IsPlace(s, id, Cardinality({k \in S : createdAt[k] < createdAt[id]}))
<1> DEFINE n == Cardinality(S)  B == {k \in S : createdAt[k] < createdAt[id]}
<1>0. IsListing(s, S, n)
  BY OrderFacts, Zenon
<1> HIDE DEF n
<1>1. /\ n \in Nat /\ s \in [1..n -> S] /\ Len(s) = n
      /\ \A i, j \in 1..n : s[i] = s[j] => i = j
      /\ \A i, j \in 1..n : i < j => createdAt[s[i]] <= createdAt[s[j]]
      /\ \A k \in S : \E i \in 1..n : s[i] = k
  BY <1>0, Zenon DEF IsListing
<1>2. PICK j \in 1..n : s[j] = id
  BY <1>1, Zenon
<1>3. ASSUME NEW i \in 1..n PROVE createdAt[s[i]] < createdAt[id] <=> i < j
  <2>1. s[i] \in S /\ createdAt[s[i]] \in Nat /\ createdAt[id] \in Nat
    BY <1>1, Zenon
  <2>2. i < j => createdAt[s[i]] <= createdAt[id]
    BY <1>1, <1>2, Zenon
  <2>3. j < i => createdAt[id] <= createdAt[s[i]]
    BY <1>1, <1>2, Zenon
  <2>4. i # j => createdAt[s[i]] # createdAt[id]
    BY <1>1, <1>2, <2>1
  <2> QED BY <1>1, <1>2, <2>1, <2>2, <2>3, <2>4
<1> DEFINE f == [i \in 1..(j-1) |-> s[i]]
<1>4. f \in Bijection(1..(j-1), B)
  <2>1. \A i \in 1..(j-1) : i \in 1..n /\ i < j
    BY <1>1
  <2>2. \A i \in 1..(j-1) : s[i] \in B
    BY <1>1, <1>3, <2>1, Zenon
  <2>3. f \in [1..(j-1) -> B]
    BY <2>2, Zenon
  <2>4. \A a, b \in 1..(j-1) : f[a] = f[b] => a = b
    BY <1>1, <2>1, Zenon
  <2>5. \A k \in B : \E i \in 1..(j-1) : f[i] = k
    <3> SUFFICES ASSUME NEW k \in B PROVE \E i \in 1..(j-1) : f[i] = k
      BY Zenon
    <3>1. PICK i \in 1..n : s[i] = k
      BY <1>1, Zenon
    <3>2. i \in 1..(j-1)
      BY <1>1, <1>3, <3>1
    <3> QED BY <3>1, <3>2, Zenon
  <2> HIDE DEF f, B
  <2> QED BY <2>3, <2>4, <2>5, Zenon DEF Bijection, Injection, Surjection, IsInjective
<1>5. IsFiniteSet(1..(j-1)) /\ Cardinality(1..(j-1)) = j - 1
  <2> DEFINE b == j - 1
  <2>1. b \in Int /\ 1 \in Int /\ (IF 1 > b THEN 0 ELSE b - 1 + 1) = b
    BY <1>1
  <2> HIDE DEF b
  <2>2. IsFiniteSet(1..b) /\ Cardinality(1..b) = IF 1 > b THEN 0 ELSE b - 1 + 1
    BY <2>1, FS_Interval, Zenon
  <2> QED BY <2>1, <2>2 DEF b
<1> HIDE DEF B, f
<1>6. ExistsBijection(1..(j-1), B)
  BY <1>4, Zenon DEF ExistsBijection
<1>7. Cardinality(B) = j - 1
  BY <1>5, <1>6, FS_Bijection, Zenon
<1>8. \A i \in 1..n : s[i] = id <=> i = j
  BY <1>1, <1>2, Zenon
<1>9. Cardinality(B) \in Nat /\ Cardinality(B) + 1 = j
  BY <1>1, <1>7
<1>10. IsPlace(s, id, Cardinality(B))
  BY <1>1, <1>2, <1>8, <1>9, Zenon DEF IsPlace
<1> QED BY <1>10, Zenon DEF B

IsPage(page, s, o, l, S) ==
  /\ page \in Seq(S)
  /\ page = <<>> <=> o >= Len(s)
  /\ Len(page) = IF o >= Len(s) THEN 0 ELSE IF o + l <= Len(s) THEN l ELSE Len(s) - o
  /\ \A i \in 1..Len(page) : o + i \in 1..Len(s) /\ page[i] = s[o + i]

\* The page of limit l at offset o has the keys from the place o + 1 on.
LEMMA PageFacts ==
  ASSUME NEW S, NEW s \in Seq(S), NEW o \in Nat, NEW l \in Nat \ {0},
         NEW page, page = SubSeq(s, o + 1, Min({o + l, Len(s)}))
  PROVE  IsPage(page, s, o, l, S)
<1>1. Len(s) \in Nat /\ o + l \in Nat /\ \A i \in 1..Len(s) : s[i] \in S
  OBVIOUS
<1> DEFINE m == Min({o + l, Len(s)})
<1>2. m = IF o + l <= Len(s) THEN o + l ELSE Len(s)
  BY <1>1, MinOfTwo, Zenon
<1>3. m \in Nat /\ m <= Len(s)
  BY <1>1, <1>2
<1>4. page = SubSeq(s, o + 1, m)
  BY Zenon
<1> HIDE DEF m
<1>5. /\ page \in Seq(S)
      /\ Len(page) = IF o + 1 <= m THEN m - (o + 1) + 1 ELSE 0
      /\ \A i \in 1..(m - (o + 1) + 1) : page[i] = s[(o + 1) + i - 1]
  <2>1. o + 1 \in Int /\ m \in Int /\ \A i \in (o + 1)..m : s[i] \in S
    BY <1>1, <1>3
  <2>2. /\ SubSeq(s, o + 1, m) \in Seq(S)
        /\ Len(SubSeq(s, o + 1, m)) = IF o + 1 <= m THEN m - (o + 1) + 1 ELSE 0
        /\ \A i \in 1..(m - (o + 1) + 1) : SubSeq(s, o + 1, m)[i] = s[(o + 1) + i - 1]
    BY <2>1
  <2> QED BY <1>4, <2>2, Zenon
<1>6. Len(page) = IF o >= Len(s) THEN 0 ELSE IF o + l <= Len(s) THEN l ELSE Len(s) - o
  BY <1>1, <1>2, <1>5
<1>7. page = <<>> <=> Len(page) = 0
  BY <1>5, PageLengths, ZenonT(30)
<1>8. \A i \in 1..Len(page) : o + i \in 1..Len(s) /\ page[i] = s[o + i]
  <2> SUFFICES ASSUME NEW i \in 1..Len(page) PROVE o + i \in 1..Len(s) /\ page[i] = s[o + i]
    BY Zenon
  <2>1. i \in 1..(m - (o + 1) + 1) /\ (o + 1) + i - 1 = o + i
    BY <1>1, <1>3, <1>5
  <2> QED BY <1>1, <1>3, <1>5, <2>1
<1>9. Len(page) = 0 <=> o >= Len(s)
  <2>1. \A n \in Nat : (IF o >= n THEN 0 ELSE IF o + l <= n THEN l ELSE n - o) = 0 <=> o >= n
    OBVIOUS
  <2> QED BY <1>1, <1>6, <2>1, Zenon
<1> QED BY <1>5, <1>6, <1>7, <1>8, <1>9, Zenon DEF IsPage

Places(got, id) == {i \in DOMAIN got : got[i] = id}

IsPlaced(got, page, id, r, S) ==
  /\ got \o page \in Seq(S) /\ Len(page) \in Nat
  /\ Len(got \o page) = Len(got) + Len(page)
  /\ Places(got, id) \subseteq 1..Len(got)
  /\ Places(got \o page, id) =
       Places(got, id) \cup (IF Len(got) <= r /\ r < Len(got) + Len(page) THEN {r + 1} ELSE {})
  /\ page = <<>> => r < Len(got)

\* A page adds a key with r keys before it to what the client has got exactly
\* if its place is on the page; an empty page comes after that place.
LEMMA PagePlaces ==
  ASSUME NEW S, NEW s \in Seq(S), NEW got \in Seq(S), NEW l \in Nat \ {0}, NEW id, NEW r,
         IsPlace(s, id, r),
         NEW page, page = SubSeq(s, Len(got) + 1, Min({Len(got) + l, Len(s)}))
  PROVE  IsPlaced(got, page, id, r, S)
<1>0. r \in Nat /\ r + 1 \in 1..Len(s) /\ \A i \in 1..Len(s) : s[i] = id <=> i = r + 1
  BY Zenon DEF IsPlace
<1> DEFINE o == Len(got)  n == Len(page)
<1>1. o \in Nat /\ Len(s) \in Nat
  OBVIOUS
<1>2. /\ page \in Seq(S)
      /\ page = <<>> => o >= Len(s)
      /\ \A i \in 1..n : o + i \in 1..Len(s) /\ page[i] = s[o + i]
  <2>1. IsPage(page, s, o, l, S)
    BY <1>1, PageFacts, Zenon
  <2> QED BY <2>1, Zenon DEF IsPage
<1>3. n \in Nat /\ DOMAIN got = 1..o
  BY <1>2
<1>4. /\ got \o page \in Seq(S) /\ Len(got \o page) = o + n /\ DOMAIN (got \o page) = 1..(o + n)
      /\ \A i \in 1..o : (got \o page)[i] = got[i]
      /\ \A i \in 1..n : (got \o page)[o + i] = page[i]
  <2>1. got \o page \in Seq(S) /\ Len(got \o page) = o + n
    BY <1>2, PageLengths, Zenon
  <2>2. DOMAIN (got \o page) = 1..(o + n)
    BY <2>1
  <2>3. \A i \in 1..o : (got \o page)[i] = got[i]
    BY <1>2
  <2>4. \A i \in 1..n : (got \o page)[o + i] = page[i]
    BY <1>2
  <2> QED BY <2>1, <2>2, <2>3, <2>4, Zenon
<1> DEFINE all == got \o page  new == IF o <= r /\ r < o + n THEN {r + 1} ELSE {}
<1>5. Places(got, id) \subseteq 1..o
  BY <1>3, Zenon DEF Places
<1>6. page = <<>> => r < o
  <2>1. \A m \in Nat : o >= m /\ r + 1 \in 1..m => r < o
    BY <1>0, <1>1
  <2> QED BY <1>0, <1>1, <1>2, <2>1, Zenon
<1> HIDE DEF o, n, all
<1>7. ASSUME NEW i \in 1..(o + n) PROVE all[i] = id <=> i \in Places(got, id) \/ i \in new
  <2>1. CASE i <= o
    <3>1. i \in 1..o /\ i \notin new
      BY <1>0, <1>1, <1>3, <2>1
    <3>2. all[i] = got[i]
      BY <1>4, <3>1, Zenon DEF all
    <3> QED BY <1>3, <3>1, <3>2, Zenon DEF Places
  <2>2. CASE ~(i <= o)
    <3>1. PICK k \in 1..n : i = o + k
      <4>1. i - o \in 1..n /\ i = o + (i - o)
        BY <1>1, <1>3, <2>2
      <4> QED BY <4>1, Zenon
    <3>2. all[i] = page[k]
      BY <1>4, <3>1, Zenon DEF all
    <3>3. i \in 1..Len(s) /\ page[k] = s[i]
      BY <1>2, <3>1, Zenon DEF n
    <3>4. all[i] = id <=> i = r + 1
      BY <1>0, <3>2, <3>3, Zenon
    <3>5. i = r + 1 <=> i \in new
      BY <1>0, <1>1, <1>3, <2>2, <3>1
    <3>6. i \notin Places(got, id)
      BY <1>1, <1>5, <2>2
    <3> QED BY <3>4, <3>5, <3>6, Zenon
  <2> QED BY <2>1, <2>2, Zenon
<1>8. new \subseteq 1..(o + n) /\ 1..o \subseteq 1..(o + n)
  BY <1>0, <1>1, <1>3
<1> HIDE DEF new
<1>9. Places(all, id) = Places(got, id) \cup new
  <2>1. DOMAIN all = 1..(o + n)
    BY <1>4, Zenon DEF all
  <2>2. \A i \in 1..(o + n) : all[i] = id <=> i \in Places(got, id) \/ i \in new
    BY <1>7, Zenon
  <2>3. Places(all, id) = {i \in 1..(o + n) : all[i] = id}
    BY <2>1, Zenon DEF Places
  <2> QED BY <1>5, <1>8, <2>2, <2>3, Zenon
<1> QED BY <1>3, <1>4, <1>5, <1>6, <1>9, Zenon DEF o, n, all, new, IsPlaced

-----------------------------------------------------------------------------
(* The walk over the list.                                                 *)

Pagers == [loc : {"idle", "walk", "over"}, role : Roles \cup {NoRole}, got : Seq(Ids),
           stay : SUBSET Ids, gone : SUBSET Ids, fresh : SUBSET Ids]

\* The keys a client has to do with.
Tracked(p) == p.stay \cup p.gone \cup p.fresh

\* The number of matching keys that come before key id, and whether that fixes
\* its place.
Rank(p, id) == Cardinality({k \in Matches(keys, p.role) : createdAt[k] < createdAt[id]})
Tied(p, id) == \E k \in Tracked(p) \ {id} : createdAt[k] = createdAt[id]
Earlier(S, id) == \E k \in S : createdAt[k] < createdAt[id]

Once(got, id) == \E i \in DOMAIN got : Places(got, id) = {i}

\* A key that is not yet listed is ahead of the client unless one before it
\* went; one that is listed is behind the client unless one before it came.
PlaceInv(p, id) ==
  ~Tied(p, id) =>
    /\ Places(p.got, id) = {} /\ ~Earlier(p.gone, id) => Len(p.got) <= Rank(p, id)
    /\ ~Earlier(p.fresh, id) =>
         Places(p.got, id) = {} \/ (Once(p.got, id) /\ Rank(p, id) < Len(p.got))

\* The keys that match are those that have stayed and some that came.
WalkInv(p) ==
  /\ p.stay \subseteq Matches(keys, p.role)
  /\ Matches(keys, p.role) \subseteq p.stay \cup p.fresh
  /\ \A id \in p.stay : PlaceInv(p, id)

\* What the client has got in the end.
Listed(p) ==
  \A id \in p.stay : ~Tied(p, id) =>
    /\ Places(p.got, id) = {} => Earlier(p.gone, id)
    /\ Places(p.got, id) = {} \/ Once(p.got, id) \/ Earlier(p.fresh, id)

\* One page, and one key that has stayed.
LEMMA PlaceOnPage ==
  ASSUME createdAt \in [Ids -> Nat], NEW p \in Pagers, NEW q \in Pagers,
         IsFiniteSet(Matches(keys, p.role)), Matches(keys, p.role) \subseteq Ids,
         WalkInv(p), NEW l \in Nat \ {0}, NEW page \in ListFiltered(l, Len(p.got), p.role),
         q.got = p.got \o page, q.role = p.role,
         q.stay = p.stay, q.gone = p.gone, q.fresh = p.fresh,
         NEW id \in p.stay, ~Tied(p, id)
  PROVE  /\ PlaceInv(q, id)
         /\ page = <<>> => (Places(q.got, id) = {} => Earlier(q.gone, id))
         /\ page = <<>> => Places(q.got, id) = {} \/ Once(q.got, id) \/ Earlier(q.fresh, id)
<1> DEFINE S == Matches(keys, p.role)  r == Rank(p, id)  o == Len(p.got)  n == Len(page)
           P == Places(p.got, id)  Q == Places(q.got, id)
<1>1. PICK s \in Orders(S) : page = SubSeq(s, Len(p.got) + 1, Min({Len(p.got) + l, Len(s)}))
  BY Zenon DEF ListFiltered
<1>2. id \in S /\ S \subseteq Ids /\ IsFiniteSet(S) /\ S \subseteq Tracked(p)
  BY Zenon DEF WalkInv, Tracked
<1>3. IsPlace(s, id, r)
  <2>1. \A k \in S : createdAt[k] \in Nat
    BY <1>2, Zenon
  <2>2. \A k \in S \ {id} : createdAt[k] # createdAt[id]
    BY <1>2, Zenon DEF Tied
  <2> HIDE DEF S
  <2>3. IsPlace(s, id, Cardinality({k \in S : createdAt[k] < createdAt[id]}))
    BY <1>2, <2>1, <2>2, PlaceInOrder, Zenon
  <2> QED BY <2>3, Zenon DEF Rank, S
<1>4. s \in Seq(Ids) /\ p.got \in Seq(Ids)
  <2>1. s \in Seq(S)
    BY <1>2, OrderFacts, Zenon DEF IsListing
  <2> HIDE DEF S
  <2> QED BY <1>2, <2>1 DEF Pagers
<1> HIDE DEF S
<1>5. IsPlaced(p.got, page, id, r, Ids)
  <2> HIDE DEF r
  <2> QED BY <1>1, <1>3, <1>4, PagePlaces, Zenon
<1>6. /\ o \in Nat /\ n \in Nat /\ r \in Nat /\ Len(q.got) = o + n /\ P \subseteq 1..o
      /\ Q = P \cup (IF o <= r /\ r < o + n THEN {r + 1} ELSE {})
      /\ page = <<>> => r < o
  <2>1. o \in Nat
    BY <1>4
  <2> QED BY <1>3, <1>5, <2>1, Zenon DEF IsPlace, IsPlaced
<1>7. /\ P = {} /\ ~Earlier(p.gone, id) => o <= r
      /\ ~Earlier(p.fresh, id) => P = {} \/ (Once(p.got, id) /\ r < o)
  BY Zenon DEF WalkInv, PlaceInv
<1>8. Tied(q, id) = Tied(p, id) /\ Rank(q, id) = r
  BY Zenon DEF Tied, Tracked, Rank
<1>9. Once(p.got, id) => \E i \in 1..o : P = {i}
  <2>1. DOMAIN p.got = 1..o
    BY <1>4
  <2> QED BY <2>1, Zenon DEF Once
<1>10. Q = {} \/ (\E i \in 1..(o + n) : Q = {i}) => Q = {} \/ Once(q.got, id)
  <2>1. DOMAIN q.got = 1..(o + n)
    BY <1>6 DEF Pagers
  <2> QED BY <2>1, Zenon DEF Once
<1> HIDE DEF P, Q, r, o, n
<1>11. Q = {} /\ ~Earlier(p.gone, id) => o + n <= r
  <2> SUFFICES ASSUME Q = {}, ~Earlier(p.gone, id) PROVE o + n <= r
    BY Zenon
  <2>1. P = {} /\ o <= r
    BY <1>6, <1>7, Zenon
  <2>2. ~(o <= r /\ r < o + n)
    BY <1>6, Zenon
  <2> QED BY <1>6, <2>1, <2>2
<1>12. ~Earlier(p.fresh, id) => Q = {} \/ ((\E i \in 1..(o + n) : Q = {i}) /\ r < o + n)
  <2> SUFFICES ASSUME ~Earlier(p.fresh, id)
               PROVE  Q = {} \/ ((\E i \in 1..(o + n) : Q = {i}) /\ r < o + n)
    BY Zenon
  <2>1. CASE P = {}
    <3>1. CASE o <= r /\ r < o + n
      <4>1. Q = {r + 1} /\ r + 1 \in 1..(o + n)
        BY <1>6, <2>1, <3>1
      <4> QED BY <3>1, <4>1, Zenon
    <3>2. CASE ~(o <= r /\ r < o + n)
      BY <1>6, <2>1, <3>2, Zenon
    <3> QED BY <3>1, <3>2, Zenon
  <2>2. CASE P # {}
    <3>1. r < o /\ \E i \in 1..o : P = {i}
      BY <1>7, <1>9, <2>2, Zenon
    <3>2. ~(o <= r) /\ r < o + n /\ 1..o \subseteq 1..(o + n)
      BY <1>6, <3>1
    <3>3. Q = P
      BY <1>6, <3>2, Zenon
    <3> QED BY <3>1, <3>2, <3>3, Zenon
  <2> QED BY <2>1, <2>2, Zenon
<1>13. PlaceInv(q, id)
  <2>1. Q = {} /\ ~Earlier(q.gone, id) => Len(q.got) <= Rank(q, id)
    BY <1>6, <1>8, <1>11, Zenon
  <2>2. ~Earlier(q.fresh, id) => Q = {} \/ (Once(q.got, id) /\ Rank(q, id) < Len(q.got))
    BY <1>6, <1>8, <1>10, <1>12, Zenon
  <2> QED BY <2>1, <2>2, Zenon DEF PlaceInv, Q
<1>14. page = <<>> => (Q = {} => Earlier(q.gone, id))
  <2>1. r < o => ~(o + n <= r)
    BY <1>6
  <2> QED BY <1>6, <1>11, <2>1, Zenon
<1>15. Q = {} \/ Once(q.got, id) \/ Earlier(q.fresh, id)
  BY <1>10, <1>12, Zenon
<1> QED BY <1>13, <1>14, <1>15, Zenon DEF Q

\* The client q has what p had, and one more page.
Follows(q, p) ==
  /\ q \in Pagers /\ q.stay = p.stay /\ q.gone = p.gone /\ q.fresh = p.fresh
  /\ q.loc \in {"walk", "over"} /\ WalkInv(q) /\ (q.loc = "over" => Listed(q))

\* A page keeps the client's account of its walk; with the last, empty one the
\* account is settled.
LEMMA PageStep ==
  ASSUME createdAt \in [Ids -> Nat], NEW p \in Pagers,
         IsFiniteSet(Matches(keys, p.role)), Matches(keys, p.role) \subseteq Ids,
         WalkInv(p), NEW page \in ListFiltered(Min({Limit, MaxLimit}), Len(p.got), p.role),
         NEW q, q = [p EXCEPT !.loc = IF page = <<>> THEN "over" ELSE "walk", !.got = @ \o page]
  PROVE  Follows(q, p)
<1> DEFINE l == Min({Limit, MaxLimit})
<1>1. l \in Nat \ {0}
  <2>1. Limit \in Nat /\ MaxLimit \in Nat /\ Limit # 0 /\ MaxLimit # 0
    BY ListingAssumption, Zenon
  <2> QED BY <2>1, MinOfTwo, Zenon
<1>2. page \in Seq(Ids)
  <2>1. PICK s \in Orders(Matches(keys, p.role)) :
          page = SubSeq(s, Len(p.got) + 1, Min({Len(p.got) + l, Len(s)}))
    BY Zenon DEF ListFiltered
  <2>2. s \in Seq(Matches(keys, p.role))
    BY OrderFacts, Zenon DEF IsListing
  <2>3. s \in Seq(Ids) /\ Len(p.got) \in Nat
    BY <2>2 DEF Pagers
  <2> HIDE DEF l
  <2>4. IsPage(page, s, Len(p.got), l, Ids)
    BY <1>1, <2>1, <2>3, PageFacts, Zenon
  <2> QED BY <2>4, Zenon DEF IsPage
<1> HIDE DEF l
<1>3. p.got \o page \in Seq(Ids)
  BY <1>2 DEF Pagers
<1> DEFINE loc == IF page = <<>> THEN "over" ELSE "walk"  got == p.got \o page
<1>4. /\ loc \in {"walk", "over"} /\ got \in Seq(Ids)
      /\ q = [p EXCEPT !.loc = loc, !.got = got]
  BY <1>3, Zenon
<1>5. loc = "over" <=> page = <<>>
  BY Zenon
<1> HIDE DEF loc, got
<1>6. /\ q \in Pagers /\ q.loc = loc /\ q.got = got /\ q.role = p.role
      /\ q.stay = p.stay /\ q.gone = p.gone /\ q.fresh = p.fresh
  BY <1>4, Zenon DEF Pagers
<1>7. ASSUME NEW id \in p.stay, ~Tied(p, id)
      PROVE  /\ PlaceInv(q, id)
             /\ page = <<>> => (Places(q.got, id) = {} => Earlier(q.gone, id))
             /\ page = <<>> => Places(q.got, id) = {} \/ Once(q.got, id) \/ Earlier(q.fresh, id)
  BY <1>1, <1>6, <1>7, PlaceOnPage, Zenon DEF l, got
<1>8. \A id : Tied(q, id) <=> Tied(p, id)
  BY <1>6, Zenon DEF Tied, Tracked
<1>9. \A id \in q.stay : PlaceInv(q, id)
  BY <1>6, <1>7, <1>8, Zenon DEF PlaceInv
<1>10. WalkInv(q)
  BY <1>6, <1>9, Zenon DEF WalkInv
<1>11. q.loc = "over" => Listed(q)
  BY <1>5, <1>6, <1>7, <1>8, Zenon DEF Listed
<1> QED BY <1>4, <1>6, <1>10, <1>11, Zenon DEF Follows

-----------------------------------------------------------------------------
(* The steps of the client.                                                *)

\* A handler that is about to insert a key.
Creating(h) == pc[h] = "change" /\ job[h].op = "create"

PagerInv ==
  /\ createdAt \in [Ids -> Nat] /\ pager \in Pagers
  /\ pager.loc = "idle" => pager = NoPager
  /\ pager.loc = "walk" => WalkInv(pager)
  /\ pager.loc = "over" => Listed(pager)

\* An id that is yet to be inserted is nobody else's and was never in the
\* table while the client walked.
InsertInv ==
  /\ Tracked(pager) \subseteq 1..ids
  /\ \A h \in Handlers : Creating(h) =>
       /\ job[h].id \notin DOMAIN keys \cup Tracked(pager)
       /\ \A g \in Handlers \ {h} : Creating(g) => job[g].id # job[h].id

ListInv == PagerInv /\ InsertInv

\* The keys that match are finitely many, and their ids were issued.
LEMMA MatchesFinite ==
  ASSUME TypeInv, NEW role
  PROVE  /\ IsFiniteSet(Matches(keys, role)) /\ Matches(keys, role) \subseteq Ids
         /\ Matches(keys, role) \subseteq DOMAIN keys /\ DOMAIN keys \subseteq 1..ids
<1>1. ids \in 0..MaxIds /\ DOMAIN keys \subseteq 1..ids /\ MaxIds \in Nat
  BY KeyAssumption, Zenon DEF TypeInv, TableInv, TableOK
<1>2. Matches(keys, role) \subseteq DOMAIN keys
  BY Zenon DEF Matches
<1>3. 1..ids \subseteq Ids
  BY <1>1 DEF Ids
<1>4. IsFiniteSet(Ids)
  BY <1>1, FS_Interval DEF Ids
<1>5. Matches(keys, role) \subseteq Ids
  BY <1>1, <1>2, <1>3, Zenon
<1>6. IsFiniteSet(Matches(keys, role))
  BY <1>4, <1>5, FS_Subset, Zenon
<1> QED BY <1>1, <1>2, <1>5, <1>6, Zenon

\* The client asks for a page.
LEMMA ListStep ==
  ASSUME TypeInv, ListInv, NEW p \in Pagers, WalkInv(p), Tracked(p) \subseteq Tracked(pager) \cup DOMAIN keys,
         listKeys(p), UNCHANGED <<vars, createdAt>>
  PROVE  ListInv'
<1>1. PICK page \in ListFiltered(Min({Limit, MaxLimit}), Len(p.got), p.role) :
        pager' = [p EXCEPT !.loc = IF page = <<>> THEN "over" ELSE "walk", !.got = @ \o page]
  BY Zenon DEF listKeys
<1>2. createdAt \in [Ids -> Nat] /\ createdAt' = createdAt /\ UNCHANGED <<keys, ids, pc, job>>
  BY Zenon DEF ListInv, PagerInv, vars, adminVars
<1>3. /\ pager' \in Pagers /\ pager'.stay = p.stay /\ pager'.gone = p.gone /\ pager'.fresh = p.fresh
      /\ pager'.loc \in {"walk", "over"} /\ WalkInv(pager') /\ (pager'.loc = "over" => Listed(pager'))
  <2>1. Follows(pager', p)
    BY <1>1, <1>2, MatchesFinite, PageStep, Zenon
  <2> QED BY <2>1, Zenon DEF Follows
<1>4. pager'.loc # "idle"
  BY <1>3, Zenon
<1>5. WalkInv(pager)' /\ (pager'.loc = "over" => Listed(pager)')
  <2>1. WalkInv(pager)' <=> WalkInv(pager')
    BY <1>2, ZenonT(30) DEF WalkInv, PlaceInv, Rank, Tied, Earlier, Once, Places, Matches, Tracked
  <2>2. Listed(pager)' <=> Listed(pager')
    BY <1>2, Zenon DEF Listed, Tied, Earlier, Once, Places, Tracked
  <2> QED BY <1>3, <2>1, <2>2, Zenon
<1>6. PagerInv'
  BY <1>2, <1>3, <1>4, <1>5, Zenon DEF PagerInv
<1>7. Tracked(pager)' \subseteq Tracked(pager) \cup DOMAIN keys
  BY <1>3, Zenon DEF Tracked
<1>8. InsertInv'
  <2>1. DOMAIN keys \subseteq 1..ids
    BY MatchesFinite, Zenon
  <2>2. \A h : Creating(h)' <=> Creating(h)
    BY <1>2, Zenon DEF Creating
  <2>3. InsertInv
    BY Zenon DEF ListInv
  <2> QED BY <1>2, <1>7, <2>1, <2>2, <2>3, Zenon DEF InsertInv
<1> QED BY <1>6, <1>8, Zenon DEF ListInv

\* The client begins, goes on, and begins anew.
LEMMA ClientSteps ==
  ASSUME TypeInv, ListInv,
         (\E role \in Roles \cup {NoRole} : FirstPage(role)) \/ NextPage \/ Done
  PROVE  ListInv'
<1>1. ASSUME NEW role \in Roles \cup {NoRole}, FirstPage(role) PROVE ListInv'
  <2> DEFINE p == [NoPager EXCEPT !.role = role, !.stay = Matches(keys, role)]
  <2>1. Matches(keys, role) \subseteq Ids /\ Matches(keys, role) \subseteq DOMAIN keys
    BY MatchesFinite, Zenon
  <2>2. /\ p \in Pagers /\ p.role = role /\ p.got = <<>> /\ p.stay = Matches(keys, role)
        /\ p.gone = {} /\ p.fresh = {}
    <3>1. NoPager \in Pagers /\ NoPager.got = <<>> /\ NoPager.gone = {} /\ NoPager.fresh = {}
      BY DEF NoPager, Pagers
    <3> QED BY <2>1, <3>1, Zenon DEF Pagers
  <2> HIDE DEF p
  <2>3. Len(p.got) = 0 /\ DOMAIN p.got = {}
    BY <2>2
  <2>4. \A id : Places(p.got, id) = {}
    BY <2>3, Zenon DEF Places
  <2>5. \A id : Rank(p, id) \in Nat
    <3> SUFFICES ASSUME NEW id PROVE Rank(p, id) \in Nat
      BY Zenon
    <3>1. {k \in Matches(keys, p.role) : createdAt[k] < createdAt[id]} \subseteq Matches(keys, p.role)
      BY Zenon
    <3>2. IsFiniteSet({k \in Matches(keys, p.role) : createdAt[k] < createdAt[id]})
      BY <3>1, MatchesFinite, FS_Subset, Zenon
    <3> QED BY <3>2, FS_CardinalityType, Zenon DEF Rank
  <2>6. \A id : Len(p.got) <= Rank(p, id)
    BY <2>3, <2>5
  <2>7. WalkInv(p)
    BY <2>2, <2>4, <2>6, Zenon DEF WalkInv, PlaceInv
  <2>8. Tracked(p) \subseteq Tracked(pager) \cup DOMAIN keys
    BY <2>1, <2>2, Zenon DEF Tracked
  <2>9. listKeys(p) /\ UNCHANGED <<vars, createdAt>>
    BY <1>1, Zenon DEF FirstPage, p
  <2> QED BY <2>2, <2>7, <2>8, <2>9, ListStep, Zenon
<1>2. ASSUME NextPage PROVE ListInv'
  <2>1. pager \in Pagers /\ WalkInv(pager) /\ listKeys(pager) /\ UNCHANGED <<vars, createdAt>>
    BY <1>2, Zenon DEF NextPage, ListInv, PagerInv
  <2> QED BY <2>1, ListStep, Zenon
<1>3. ASSUME Done PROVE ListInv'
  <2>1. pager' = NoPager /\ createdAt' = createdAt /\ UNCHANGED <<keys, ids, pc, job>>
    BY <1>3, Zenon DEF Done, vars, adminVars
  <2>2. /\ pager'.loc = "idle" /\ NoPager \in Pagers
        /\ NoPager.stay = {} /\ NoPager.gone = {} /\ NoPager.fresh = {}
    BY <2>1 DEF NoPager, Pagers
  <2>3. Tracked(pager)' = {}
    BY <2>1, <2>2, Zenon DEF Tracked
  <2>4. PagerInv'
    BY <2>1, <2>2, Zenon DEF ListInv, PagerInv
  <2>5. \A h : Creating(h)' <=> Creating(h)
    BY <2>1, Zenon DEF Creating
  <2>6. InsertInv
    BY Zenon DEF ListInv
  <2>7. InsertInv'
    BY <2>1, <2>3, <2>5, <2>6, Zenon DEF InsertInv
  <2> QED BY <2>4, <2>7, Zenon DEF ListInv
<1> QED BY <1>1, <1>2, <1>3, Zenon

-----------------------------------------------------------------------------
(* The steps of everybody else.                                            *)

\* The number of ids issued never goes down.  A key that is inserted has an id
\* issued in the same step, or the id of a handler that was to insert it.
\* A handler that is to insert a key keeps its id, or gets one just issued.
TableMove ==
  /\ ids \in Nat /\ ids' \in Nat /\ ids <= ids'
  /\ \A id \in DOMAIN keys' \ DOMAIN keys :
       id \in (ids + 1)..ids' \/ \E h \in Handlers : Creating(h) /\ ~Creating(h)' /\ job[h].id = id
  /\ \A h \in Handlers : Creating(h)' =>
       \/ Creating(h) /\ job'[h].id = job[h].id
       \/ /\ job'[h].id \in (ids + 1)..ids' /\ DOMAIN keys' \subseteq DOMAIN keys
          /\ \A g \in Handlers \ {h} : Creating(g)' => Creating(g) /\ job'[g].id = job[g].id

\* The steps of a handler move the table in this way.
LEMMA AdminMoves ==
  ASSUME TypeInv, NEW h \in Handlers, AdminStep(h)
  PROVE  TableMove
<1>0. ids \in Nat /\ DOMAIN keys \subseteq 1..ids
  BY IssuedIds, Zenon
<1>1. ASSUME NEW j, BeginStep(h, j) PROVE TableMove
  <2>1. /\ pc' = [pc EXCEPT ![h] = "change"] /\ job' = [job EXCEPT ![h] = j] /\ keys' = keys
        /\ IF j.op = "create" THEN j.id = ids + 1 /\ ids' = ids + 1 ELSE ids' = ids
    BY <1>1, Zenon DEF BeginStep, Begin
  <2>2. /\ job'[h] = j
        /\ \A g \in Handlers \ {h} : pc'[g] = pc[g] /\ job'[g] = job[g]
    BY <2>1, Zenon DEF TypeInv, HandlerInv
  <2>3. ids' \in Nat /\ ids <= ids' /\ (j.op = "create" => j.id \in (ids + 1)..ids')
    BY <1>0, <2>1
  <2>4. Creating(h)' => j.op = "create"
    BY <2>2, Zenon DEF Creating
  <2>5. \A g \in Handlers \ {h} : Creating(g)' => Creating(g) /\ job'[g].id = job[g].id
    BY <2>2, Zenon DEF Creating
  <2> QED BY <1>0, <2>1, <2>2, <2>3, <2>4, <2>5, Zenon DEF TableMove
<1>2. ASSUME Statement(h) PROVE TableMove
  <2>1. /\ ids' = ids /\ pc'[h] # "change"
        /\ \A g \in Handlers \ {h} : pc'[g] = pc[g] /\ job'[g] = job[g]
        /\ \/ keys' = keys
           \/ keys' = Delete(keys, job[h].id)
           \/ pc[h] = "change" /\ keys' = Changed(job[h])
    <3>1. CASE Change(h)
      BY <3>1, Zenon DEF Change, Goto, Finish, TypeInv, HandlerInv
    <3>2. CASE ChangeFails(h)
      BY <3>2, Zenon DEF ChangeFails, Finish, TypeInv, HandlerInv
    <3>3. CASE Audit(h)
      BY <3>3, Zenon DEF Audit, Finish, Goto, TypeInv, HandlerInv
    <3>4. CASE AuditFails(h)
      BY <3>4, Zenon DEF AuditFails, Goto, Finish, TypeInv, HandlerInv
    <3>5. CASE Compensate(h)
      BY <3>5, Zenon DEF Compensate, Finish, TypeInv, HandlerInv
    <3>6. CASE Reply(h)
      BY <3>6, Zenon DEF Reply, Finish, TypeInv, HandlerInv
    <3> QED BY <1>2, <3>1, <3>2, <3>3, <3>4, <3>5, <3>6, Zenon DEF Statement
  <2>2. \A g \in Handlers : Creating(g)' => Creating(g) /\ job'[g].id = job[g].id
    BY <2>1, Zenon DEF Creating
  <2>3. \A id \in DOMAIN keys' \ DOMAIN keys : Creating(h) /\ ~Creating(h)' /\ job[h].id = id
    <3>1. CASE keys' = keys
      BY <3>1, Zenon
    <3>2. CASE keys' = Delete(keys, job[h].id)
      BY <3>2, Zenon DEF Delete, Restrict
    <3>3. CASE pc[h] = "change" /\ keys' = Changed(job[h])
      <4>1. job[h].op \in AdminOps
        BY <3>3, Zenon DEF TypeInv, HandlerInv, Typed
      <4>2. CASE job[h].op = "create"
        <5>1. DOMAIN keys' = DOMAIN keys \cup {job[h].id}
          <6>1. keys' = Create(keys, job[h].id, job[h].val)
            BY <3>3, <4>2, Zenon DEF Changed
          <6> QED BY <6>1, Zenon DEF Create
        <5> QED BY <2>1, <3>3, <4>2, <5>1, Zenon DEF Creating
      <4>3. CASE job[h].op = "rotate"
        <5>1. keys' = UpdateHash(keys, job[h].id, job[h].secret)
          BY <3>3, <4>3, Zenon DEF Changed
        <5>2. DOMAIN keys' = DOMAIN keys
          BY <5>1, Zenon DEF UpdateHash
        <5> QED BY <5>2, Zenon
      <4>4. CASE job[h].op \in AdminOps \ {"create", "rotate"}
        BY <3>3, <4>4, SecretsStay, Zenon
      <4> QED BY <4>1, <4>2, <4>3, <4>4, Zenon
    <3> QED BY <2>1, <3>1, <3>2, <3>3, Zenon
  <2>4. ids' \in Nat /\ ids <= ids'
    BY <1>0, <2>1
  <2> QED BY <1>0, <2>2, <2>3, <2>4, Zenon DEF TableMove
<1> QED BY <1>1, <1>2, AdminCases, Zenon

\* So do the command, the cleanup, a crash and the rest.
LEMMA TableMoves ==
  ASSUME TypeInv, Next
  PROVE  TableMove
<1>0. ids \in Nat /\ ids <= ids
  BY IssuedIds
<1>1. CASE \E h \in Handlers : AdminStep(h)
  BY <1>1, AdminMoves, Zenon
<1>2. CASE \E R \in (SUBSET Roles) \ {{}} : runKeyCreate(R)
  <2>1. /\ UNCHANGED <<pc, job>> /\ ids' = ids + 1
        /\ \E rec : keys' = Create(keys, ids', rec)
    BY <1>2, Zenon DEF runKeyCreate
  <2>2. DOMAIN keys' = DOMAIN keys \cup {ids'}
    <3>1. PICK rec : keys' = Create(keys, ids', rec)
      BY <2>1, Zenon
    <3> QED BY <3>1, Zenon DEF Create
  <2>3. ids' \in Nat /\ ids <= ids' /\ ids' \in (ids + 1)..ids'
    BY <1>0, <2>1
  <2> QED BY <1>0, <2>1, <2>2, <2>3, Zenon DEF TableMove, Creating
<1>3. CASE /\ UNCHANGED <<pc, job, ids>> /\ DOMAIN keys' \subseteq DOMAIN keys
  BY <1>0, <1>3, Zenon DEF TableMove, Creating
<1>4. CASE \E id \in Ids : runKeyDelete(id) \/ \E e \in {0, 1} : runKeySetEnabled(id, e)
  <2>1. PICK id \in Ids : runKeyDelete(id) \/ \E e \in {0, 1} : runKeySetEnabled(id, e)
    BY <1>4, Zenon
  <2>2. /\ UNCHANGED <<pc, job, ids>>
        /\ keys' = Delete(keys, id) \/ \E e \in {0, 1} : keys' = SetEnabled(keys, id, e)
    BY <2>1, Zenon DEF runKeyDelete, runKeySetEnabled, Command
  <2>3. DOMAIN keys' \subseteq DOMAIN keys
    <3>1. CASE keys' = Delete(keys, id)
      BY <3>1, Zenon DEF Delete, Restrict
    <3>2. ASSUME NEW e, keys' = SetEnabled(keys, id, e) PROVE DOMAIN keys' = DOMAIN keys
      BY <3>2, Zenon DEF SetEnabled
    <3> QED BY <2>2, <3>1, <3>2, Zenon
  <2> QED BY <1>3, <2>2, <2>3, Zenon
<1>5. CASE CleanupStep
  <2>1. UNCHANGED <<pc, job, ids>> /\ (keys' = keys \/ keys' = DeleteExpired(keys, before))
    BY <1>5, Zenon DEF CleanupStep, CleanupTick, CleanupDelete, CleanupFails, CleanupAudit,
                       CleanerTo, adminVars
  <2>2. DOMAIN keys' \subseteq DOMAIN keys
    BY <2>1, Zenon DEF DeleteExpired, Restrict
  <2> QED BY <1>3, <2>1, <2>2, Zenon
<1>6. CASE Tick \/ \E r \in Callers : AuthnStep(r)
  <2>1. UNCHANGED <<keys, ids, pc, job>>
    BY <1>6, Zenon DEF Tick, AuthnStep, Arrive, Lookup, LookupFails, Check, Leave, OnlyReq, adminVars
  <2> QED BY <1>3, <2>1, Zenon
<1>7. CASE \E S \in SUBSET Handlers : Crash(S)
  <2>1. UNCHANGED <<keys, ids>> /\ \A h \in Handlers : pc'[h] = "idle"
    BY <1>7, Zenon DEF Crash
  <2>2. \A h \in Handlers : ~Creating(h)'
    BY <2>1, Zenon DEF Creating
  <2> QED BY <1>0, <2>1, <2>2, Zenon DEF TableMove
<1> QED BY <1>1, <1>2, <1>4, <1>5, <1>6, <1>7, Zenon DEF Next, CLIStep

\* A handler that is to insert a key has an id that was issued.
LEMMA CreatingIds ==
  ASSUME TypeInv
  PROVE  \A h \in Handlers : Creating(h) => job[h].id \in 1..ids
<1>1. ids \in 0..MaxIds /\ MaxIds \in Nat
  BY KeyAssumption, Zenon DEF TypeInv, TableInv
<1>2. \A h \in Handlers : Creating(h) => job[h].id \in Ids /\ job[h].id <= ids
  BY Zenon DEF TypeInv, HandlerInv, Typed, Creating
<1> QED BY <1>1, <1>2 DEF Ids

\* created_at of a key is settled when the key is inserted, or before.
LEMMA TimesStay ==
  ASSUME TypeInv, TypeInv', ListInv, KeyStep
  PROVE  /\ createdAt' \in [Ids -> Nat]
         /\ \A id \in Tracked(pager) \cup DOMAIN keys : createdAt'[id] = createdAt[id]
<1>1. PICK late \in BOOLEAN :
        createdAt' = [id \in Ids |->
          IF id \in (ids + 1)..ids' \/ (late /\ id \in DOMAIN keys' \ DOMAIN keys)
          THEN clock ELSE createdAt[id]]
  BY Zenon DEF KeyStep
<1>2. clock \in Nat /\ createdAt \in [Ids -> Nat]
  BY Zenon DEF TypeInv, ClockInv, ListInv, PagerInv
<1>3. TableMove
  BY TableMoves, Zenon DEF KeyStep
<1>4. DOMAIN keys \subseteq 1..ids /\ Tracked(pager) \subseteq 1..ids
  BY MatchesFinite, Zenon DEF ListInv, InsertInv
<1>5. ids \in Nat /\ ids' \in Nat /\ 1..ids \subseteq Ids /\ \A id \in 1..ids : id \notin (ids + 1)..ids'
  <2>1. ids \in 0..MaxIds /\ MaxIds \in Nat /\ ids' \in Nat
    BY <1>3, KeyAssumption, Zenon DEF TypeInv, TableInv, TableMove
  <2> QED BY <2>1 DEF Ids
<1>6. \A id \in Tracked(pager) \cup DOMAIN keys : id \notin DOMAIN keys' \ DOMAIN keys
  <2> SUFFICES ASSUME NEW id \in Tracked(pager), id \in DOMAIN keys' \ DOMAIN keys PROVE FALSE
    BY Zenon
  <2>1. PICK h \in Handlers : Creating(h) /\ job[h].id = id
    BY <1>3, <1>4, <1>5, Zenon DEF TableMove
  <2> QED BY <2>1, Zenon DEF ListInv, InsertInv
<1>7. createdAt' \in [Ids -> Nat]
  BY <1>1, <1>2, Zenon
<1>8. \A id \in Tracked(pager) \cup DOMAIN keys : createdAt'[id] = createdAt[id]
  BY <1>1, <1>4, <1>5, <1>6, Zenon
<1> QED BY <1>7, <1>8, Zenon

\* The ids to be inserted stay apart from each other, from the table and from
\* the keys of the client.
LEMMA InsertStays ==
  ASSUME TypeInv, TypeInv', InsertInv, TableMove,
         Tracked(pager)' \subseteq Tracked(pager) \cup DOMAIN keys \cup DOMAIN keys'
  PROVE  InsertInv'
<1> DEFINE old(h) == Creating(h) /\ job'[h].id = job[h].id
           new(h) == /\ job'[h].id \in (ids + 1)..ids' /\ DOMAIN keys' \subseteq DOMAIN keys
                     /\ \A g \in Handlers \ {h} : Creating(g)' => Creating(g) /\ job'[g].id = job[g].id
<1>1. ids \in Nat /\ ids' \in Nat /\ ids <= ids'
  BY Zenon DEF TableMove
<1>2. DOMAIN keys \subseteq 1..ids /\ DOMAIN keys' \subseteq 1..ids'
  BY IssuedIds, Zenon DEF TypeInv, TableInv, TableOK
<1>3. 1..ids \subseteq 1..ids' /\ \A i \in (ids + 1)..ids' : i \notin 1..ids
  BY <1>1
<1>4. Tracked(pager)' \subseteq 1..ids'
  BY <1>2, <1>3, Zenon DEF InsertInv
<1>5. \A h \in Handlers : Creating(h) => job[h].id \in 1..ids
  BY CreatingIds, Zenon
<1>6. \A h \in Handlers : Creating(h)' => old(h) \/ new(h)
  BY Zenon DEF TableMove
<1>7. ASSUME NEW h \in Handlers, Creating(h)', old(h)
      PROVE  /\ job'[h].id \notin DOMAIN keys' \cup Tracked(pager)'
             /\ \A g \in Handlers \ {h} : Creating(g)' => job'[g].id # job'[h].id
  <2>1. job'[h].id \in 1..ids /\ job'[h].id \notin DOMAIN keys \cup Tracked(pager)
    BY <1>5, <1>7, Zenon DEF InsertInv
  <2>2. job'[h].id \notin DOMAIN keys'
    <3> SUFFICES ASSUME job'[h].id \in DOMAIN keys' PROVE FALSE
      BY Zenon
    <3>1. PICK g \in Handlers : Creating(g) /\ ~Creating(g)' /\ job[g].id = job'[h].id
      BY <1>3, <2>1, Zenon DEF TableMove
    <3>2. g # h
      BY <1>7, <3>1, Zenon
    <3> QED BY <1>7, <3>1, <3>2, Zenon DEF InsertInv
  <2>3. ASSUME NEW g \in Handlers \ {h}, Creating(g)' PROVE job'[g].id # job'[h].id
    <3>1. CASE old(g)
      BY <1>7, <3>1, Zenon DEF InsertInv
    <3>2. CASE new(g)
      BY <1>3, <2>1, <3>2, Zenon
    <3> QED BY <1>6, <2>3, <3>1, <3>2, Zenon
  <2> QED BY <2>1, <2>2, <2>3, Zenon
<1>8. ASSUME NEW h \in Handlers, Creating(h)', new(h)
      PROVE  /\ job'[h].id \notin DOMAIN keys' \cup Tracked(pager)'
             /\ \A g \in Handlers \ {h} : Creating(g)' => job'[g].id # job'[h].id
  <2>1. job'[h].id \notin 1..ids
    BY <1>3, <1>8, Zenon
  <2>2. DOMAIN keys' \subseteq 1..ids /\ Tracked(pager)' \subseteq 1..ids
    BY <1>2, <1>8, Zenon DEF InsertInv
  <2>3. \A g \in Handlers \ {h} : Creating(g)' => job'[g].id \in 1..ids
    BY <1>5, <1>8, Zenon
  <2> QED BY <2>1, <2>2, <2>3, Zenon
<1> HIDE DEF old, new
<1> QED BY <1>4, <1>6, <1>7, <1>8, Zenon DEF InsertInv

\* Keys that come and go leave every key that stays where the client's account
\* has it: those that go before it are in gone, those that come in fresh.
LEMMA PlaceStays ==
  ASSUME createdAt \in [Ids -> Nat], NEW p \in Pagers, NEW q \in Pagers, NEW M, NEW N,
         M = Matches(keys, p.role), N = Matches(keys, q.role)', IsFiniteSet(M), IsFiniteSet(N),
         M \subseteq Tracked(p), \A k \in Tracked(p) : createdAt'[k] = createdAt[k],
         q.got = p.got, q.stay = p.stay \ (M \ N),
         q.gone = p.gone \cup (M \ N), q.fresh = p.fresh \cup (N \ M),
         NEW id \in q.stay, PlaceInv(p, id)
  PROVE  PlaceInv(q, id)'
<1> DEFINE B == {k \in M : createdAt[k] < createdAt[id]}
           C == {k \in N : createdAt'[k] < createdAt'[id]}
<1>1. Rank(p, id) = Cardinality(B) /\ Rank(q, id)' = Cardinality(C)
  BY Zenon DEF Rank
<1>2. IsFiniteSet(B) /\ IsFiniteSet(C)
  BY FS_Subset, Zenon
<1>3. Cardinality(B) \in Nat /\ Cardinality(C) \in Nat
  BY <1>2, FS_CardinalityType, Zenon
<1>4. id \in Tracked(p) /\ createdAt'[id] = createdAt[id] /\ Tracked(p) \subseteq Tracked(q)
  BY Zenon DEF Tracked
<1>5. \A k \in M : createdAt'[k] = createdAt[k]
  BY Zenon
<1>6. Tied(q, id)' \/ ~Tied(p, id)
  BY <1>4, Zenon DEF Tied
<1>7. Earlier(p.gone, id) => Earlier(q.gone, id)'
  BY <1>4, Zenon DEF Earlier, Tracked
<1>8. Earlier(p.fresh, id) => Earlier(q.fresh, id)'
  BY <1>4, Zenon DEF Earlier, Tracked
<1>9. ~Earlier(q.gone, id)' => B \subseteq C
  BY <1>4, <1>5, Zenon DEF Earlier
<1>10. ~Earlier(q.fresh, id)' => C \subseteq B
  BY <1>4, <1>5, Zenon DEF Earlier
<1> HIDE DEF B, C
<1>11. B \subseteq C => Cardinality(B) <= Cardinality(C)
  BY <1>2, FS_Subset, Zenon
<1>12. C \subseteq B => Cardinality(C) <= Cardinality(B)
  BY <1>2, FS_Subset, Zenon
<1>13. Len(p.got) \in Nat
  BY DEF Pagers
<1>14. Places(q.got, id)' = Places(p.got, id) /\ Once(q.got, id)' = Once(p.got, id)
  BY Zenon DEF Places, Once
<1>15. ASSUME ~Tied(q, id)', Places(p.got, id) = {}, ~Earlier(q.gone, id)'
       PROVE  Len(q.got) <= Rank(q, id)'
  <2>1. Len(p.got) <= Cardinality(B)
    BY <1>1, <1>6, <1>7, <1>15, Zenon DEF PlaceInv
  <2>2. Cardinality(B) <= Cardinality(C)
    BY <1>9, <1>11, <1>15, Zenon
  <2>3. Len(p.got) <= Cardinality(C)
    BY <1>3, <1>13, <2>1, <2>2
  <2> QED BY <1>1, <2>3, Zenon
<1>16. ASSUME ~Tied(q, id)', Places(p.got, id) # {}, ~Earlier(q.fresh, id)'
       PROVE  Once(p.got, id) /\ Rank(q, id)' < Len(q.got)
  <2>1. Once(p.got, id) /\ Cardinality(B) < Len(p.got)
    BY <1>1, <1>6, <1>8, <1>16, Zenon DEF PlaceInv
  <2>2. Cardinality(C) <= Cardinality(B)
    BY <1>10, <1>12, <1>16, Zenon
  <2>3. Cardinality(C) < Len(p.got)
    BY <1>3, <1>13, <2>1, <2>2
  <2> QED BY <1>1, <2>1, <2>3, Zenon
<1> QED BY <1>14, <1>15, <1>16, Zenon DEF PlaceInv

\* A step of KeyAdmin.
LEMMA KeySteps ==
  ASSUME TypeInv, TypeInv', ListInv, KeyStep
  PROVE  ListInv'
<1> DEFINE M == Matches(keys, pager.role)  N == Matches(keys', pager.role)
<1>1. /\ pager \in Pagers /\ createdAt \in [Ids -> Nat] /\ InsertInv /\ TableMove
      /\ pager.loc = "idle" => pager = NoPager
      /\ pager.loc = "walk" => WalkInv(pager)
      /\ pager.loc = "over" => Listed(pager)
  BY TableMoves, Zenon DEF ListInv, PagerInv, KeyStep
<1>2. /\ createdAt' \in [Ids -> Nat]
      /\ \A id \in Tracked(pager) \cup DOMAIN keys : createdAt'[id] = createdAt[id]
  BY TimesStay, Zenon
<1>3. pager' = IF pager.loc # "walk" THEN pager
               ELSE [pager EXCEPT !.stay = @ \ (M \ N), !.gone = @ \cup (M \ N),
                                  !.fresh = @ \cup (N \ M)]
  BY Zenon DEF KeyStep
<1>4. M \subseteq DOMAIN keys /\ N \subseteq DOMAIN keys'
  BY Zenon DEF Matches
<1>5. M \subseteq Ids /\ IsFiniteSet(M) /\ N \subseteq Ids /\ IsFiniteSet(N)
  <2>1. M \subseteq Ids /\ IsFiniteSet(M)
    BY MatchesFinite, Zenon
  <2>2. DOMAIN keys' \subseteq Ids
    <3>1. ids' \in 0..MaxIds /\ DOMAIN keys' \subseteq 1..ids' /\ MaxIds \in Nat
      BY KeyAssumption, Zenon DEF TypeInv, TableInv, TableOK
    <3> QED BY <3>1 DEF Ids
  <2>3. IsFiniteSet(Ids)
    BY KeyAssumption, FS_Interval DEF Ids
  <2> QED BY <1>4, <2>1, <2>2, <2>3, FS_Subset, Zenon
<1> HIDE DEF M, N
<1>6. CASE pager.loc # "walk"
  <2>1. pager' = pager
    BY <1>3, <1>6, Zenon
  <2>2. Listed(pager) => Listed(pager)'
    <3>1. \A id \in Tracked(pager) : createdAt'[id] = createdAt[id]
      BY <1>2, Zenon
    <3>2. \A id \in pager.stay : Tied(pager, id)' <=> Tied(pager, id)
      BY <2>1, <3>1, Zenon DEF Tied, Tracked
    <3>0. \A id \in pager.stay \cup pager.gone \cup pager.fresh : createdAt'[id] = createdAt[id]
      BY <3>1, Zenon DEF Tracked
    <3>3. \A id \in pager.stay : Earlier(pager.gone, id)' <=> Earlier(pager.gone, id)
      <4> SUFFICES ASSUME NEW id \in pager.stay PROVE Earlier(pager.gone, id)' <=> Earlier(pager.gone, id)
        BY Zenon
      <4>1. \A k \in pager.gone : createdAt'[k] < createdAt'[id] <=> createdAt[k] < createdAt[id]
        BY <3>0
      <4> QED BY <2>1, <4>1, Zenon DEF Earlier
    <3>4. \A id \in pager.stay : Earlier(pager.fresh, id)' <=> Earlier(pager.fresh, id)
      <4> SUFFICES ASSUME NEW id \in pager.stay PROVE Earlier(pager.fresh, id)' <=> Earlier(pager.fresh, id)
        BY Zenon
      <4>1. \A k \in pager.fresh : createdAt'[k] < createdAt'[id] <=> createdAt[k] < createdAt[id]
        BY <3>0
      <4> QED BY <2>1, <4>1, Zenon DEF Earlier
    <3> QED BY <2>1, <3>2, <3>3, <3>4, ZenonT(30) DEF Listed, Once, Places
  <2>3. PagerInv'
    BY <1>1, <1>2, <1>6, <2>1, <2>2, Zenon DEF PagerInv
  <2>4. Tracked(pager)' = Tracked(pager)
    BY <2>1, Zenon DEF Tracked
  <2> QED BY <1>1, <2>3, <2>4, InsertStays, Zenon DEF ListInv
<1>7. CASE pager.loc = "walk"
  <2>1. pager' = [pager EXCEPT !.stay = @ \ (M \ N), !.gone = @ \cup (M \ N), !.fresh = @ \cup (N \ M)]
    BY <1>3, <1>7, Zenon
  <2>2. /\ pager' \in Pagers /\ pager'.loc = "walk" /\ pager'.role = pager.role /\ pager'.got = pager.got
        /\ pager'.stay = pager.stay \ (M \ N) /\ pager'.gone = pager.gone \cup (M \ N)
        /\ pager'.fresh = pager.fresh \cup (N \ M)
    BY <1>1, <1>5, <1>7, <2>1, Zenon DEF Pagers
  <2>3. M \subseteq Tracked(pager) /\ pager.stay \subseteq M /\ M \subseteq pager.stay \cup pager.fresh
    BY <1>1, <1>7, Zenon DEF WalkInv, Tracked, M
  <2>4. N = Matches(keys, pager.role)'
    BY <2>2, Zenon DEF N, Matches
  <2>5. \A id \in pager'.stay : PlaceInv(pager, id)'
    <3>1. PICK p, q : p = pager /\ q = pager'
      BY Zenon
    <3> SUFFICES ASSUME NEW id \in q.stay PROVE PlaceInv(q, id)'
      <4>1. \A id : Rank(pager, id)' = Rank(q, id)' /\ (Tied(pager, id)' <=> Tied(q, id)')
        BY <3>1, Zenon DEF Rank, Matches, Tied, Tracked
      <4>2. \A id : /\ Earlier(pager.gone, id)' <=> Earlier(q.gone, id)'
                    /\ Earlier(pager.fresh, id)' <=> Earlier(q.fresh, id)'
                    /\ Places(pager.got, id)' = Places(q.got, id)'
                    /\ Once(pager.got, id)' <=> Once(q.got, id)'
        BY <3>1, Zenon DEF Earlier, Places, Once
      <4>3. \A id : PlaceInv(pager, id)' <=> PlaceInv(q, id)'
        BY <3>1, <4>1, <4>2, Zenon DEF PlaceInv
      <4> QED BY <3>1, <4>3, Zenon
    <3>2. id \in p.stay /\ PlaceInv(p, id)
      BY <1>1, <1>7, <2>2, <3>1, Zenon DEF WalkInv
    <3>3. M = Matches(keys, p.role) /\ N = Matches(keys, q.role)'
      BY <2>4, <3>1, Zenon DEF M, Matches
    <3>4. \A k \in Tracked(p) : createdAt'[k] = createdAt[k]
      BY <1>2, <3>1, Zenon
    <3> QED BY <1>1, <1>5, <2>2, <2>3, <3>1, <3>2, <3>3, <3>4, PlaceStays, Zenon
  <2>6. WalkInv(pager)'
    BY <2>2, <2>3, <2>4, <2>5, Zenon DEF WalkInv
  <2>7. PagerInv'
    BY <1>2, <2>2, <2>6, Zenon DEF PagerInv
  <2>8. Tracked(pager)' \subseteq Tracked(pager) \cup DOMAIN keys \cup DOMAIN keys'
    BY <1>4, <2>2, Zenon DEF Tracked
  <2> QED BY <1>1, <2>7, <2>8, InsertStays, Zenon DEF ListInv
<1> QED BY <1>6, <1>7, Zenon

-----------------------------------------------------------------------------
(* Theorems.                                                               *)

\* A client changes nothing: whatever holds of the handlers, the command and
\* the cleanup of KeyAdmin holds of them while their keys are listed.
THEOREM ListingIsReadOnly == ListSpec => Spec
<1>1. ListInit => Init
  BY Zenon DEF ListInit
<1>2. ASSUME ListNext PROVE Next \/ UNCHANGED vars
  BY <1>2, Zenon DEF ListNext, KeyStep, FirstPage, NextPage, Done
<1>3. ASSUME [ListNext]_<<vars, listVars>> PROVE [Next]_vars
  BY <1>2, <1>3, Zenon
<1> QED BY <1>1, <1>3, PTL DEF ListSpec, Spec

\* What ListingComplete says of a client whose account is settled.
LEMMA ListedIsComplete ==
  ASSUME PagerInv
  PROVE  ListingComplete
<1> SUFFICES ASSUME pager.loc = "over", NEW id \in pager.stay,
                    ~\E k \in (pager.stay \cup pager.gone \cup pager.fresh) \ {id} :
                       createdAt[k] = createdAt[id]
             PROVE  LET times == Cardinality({i \in DOMAIN pager.got : pager.got[i] = id})
                    IN  /\ times = 0 => \E k \in pager.gone : createdAt[k] < createdAt[id]
                        /\ times > 1 => \E k \in pager.fresh : createdAt[k] < createdAt[id]
  BY Zenon DEF ListingComplete
<1> DEFINE P == {i \in DOMAIN pager.got : pager.got[i] = id}
<1>1. /\ P = {} => \E k \in pager.gone : createdAt[k] < createdAt[id]
      /\ P = {} \/ (\E i \in DOMAIN pager.got : P = {i}) \/ \E k \in pager.fresh : createdAt[k] < createdAt[id]
  BY Zenon DEF PagerInv, Listed, Tied, Tracked, Once, Places, Earlier
<1>2. IsFiniteSet(P)
  <2>1. Len(pager.got) \in Nat /\ DOMAIN pager.got = 1..Len(pager.got)
    BY DEF PagerInv, Pagers
  <2>2. IsFiniteSet(1..Len(pager.got))
    BY <2>1, FS_Interval
  <2> QED BY <2>1, <2>2, FS_Subset, Zenon
<1> HIDE DEF P
<1>3. Cardinality(P) = 0 => P = {}
  BY <1>2, FS_EmptySet, Zenon
<1>4. P = {} => ~(Cardinality(P) > 1)
  BY FS_EmptySet
<1>5. ASSUME NEW i, P = {i} PROVE ~(Cardinality(P) > 1)
  <2>1. Cardinality(P) = 1
    BY <1>5, FS_Singleton, Zenon
  <2> QED BY <2>1
<1> QED BY <1>1, <1>3, <1>4, <1>5, Zenon DEF P

\* A client that walks the pages of GET /admin/keys gets each key that stayed
\* once, unless one before it went or came, or has the same created_at.
THEOREM PagesAreComplete == ListSpec => []ListingComplete
<1>1. ASSUME ListInit PROVE ListInv
  <2>1. /\ createdAt = [id \in Ids |-> 0] /\ pager = NoPager
        /\ pc = [h \in Handlers |-> "idle"]
    BY <1>1, Zenon DEF ListInit, Init
  <2>2. createdAt \in [Ids -> Nat]
    BY <2>1, Zenon
  <2>3. /\ pager \in Pagers /\ pager.loc = "idle"
        /\ pager.stay = {} /\ pager.gone = {} /\ pager.fresh = {}
    BY <2>1 DEF NoPager, Pagers
  <2>4. Tracked(pager) = {}
    BY <2>3, Zenon DEF Tracked
  <2>5. \A h \in Handlers : ~Creating(h)
    BY <2>1, Zenon DEF Creating
  <2>6. PagerInv
    BY <2>1, <2>2, <2>3 DEF PagerInv
  <2> QED BY <2>4, <2>5, <2>6, Zenon DEF ListInv, InsertInv
<1>2. ASSUME TypeInv, TypeInv', ListInv, [ListNext]_<<vars, listVars>> PROVE ListInv'
  <2>1. CASE ListNext
    BY <1>2, <2>1, KeySteps, ClientSteps, Zenon DEF ListNext
  <2>2. CASE UNCHANGED <<vars, listVars>>
    <3>1. UNCHANGED <<keys, ids, pc, job, createdAt, pager>>
      BY <2>2, Zenon DEF vars, listVars, adminVars
    <3>2. PagerInv'
      <4>1. WalkInv(pager)' <=> WalkInv(pager)
        BY <3>1 DEF WalkInv, PlaceInv, Rank, Tied, Earlier, Once, Places, Matches, Tracked
      <4>2. Listed(pager)' <=> Listed(pager)
        BY <3>1 DEF Listed, Tied, Earlier, Once, Places, Tracked
      <4> QED BY <1>2, <3>1, <4>1, <4>2, Zenon DEF ListInv, PagerInv
    <3>3. InsertInv'
      BY <1>2, <3>1, Zenon DEF ListInv, InsertInv, Tracked, Creating
    <3> QED BY <3>2, <3>3, Zenon DEF ListInv
  <2> QED BY <1>2, <2>1, <2>2, Zenon
<1>3. ListInv => ListingComplete
  BY ListedIsComplete, Zenon DEF ListInv
<1> QED BY <1>1, <1>2, <1>3, ListingIsReadOnly, KeyTypes, PTL DEF ListSpec

=============================================================================

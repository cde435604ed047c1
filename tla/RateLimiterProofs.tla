------------------------- MODULE RateLimiterProofs --------------------------
(***************************************************************************)
(* The properties of RateLimiter, for any number of concurrent Allows, any *)
(* rate and burst, and any length of time.                                 *)
(*                                                                         *)
(* GrantsBounded is not inductive: a bucket's future grants depend on its  *)
(* tokens.  BucketInv adds the balance of the bucket, what was granted and *)
(* what is left against what was put in, and the floor of the tokens at    *)
(* the latest time seen; lastCheck cancels out of their sum.               *)
(***************************************************************************)
EXTENDS RateLimiter, TLAPS

BucketInv(b) ==
  /\ spent[b] + tokens[b] <= Burst + (last[b] - born[b])
  /\ tokens[b] <= Burst
  /\ tokens[b] + (high[b] - last[b]) >= 0
  /\ last[b] <= high[b] /\ born[b] <= high[b]

MapInv ==
  /\ map \in {0, allocated}
  /\ \A c \in Callers : pc[c] = "lock" => ptr[c] <= allocated
  /\ OneBucketPerEviction

IInv ==
  /\ TypeOK
  /\ MapInv
  /\ \A b \in Buckets : b <= allocated => BucketInv(b)
  /\ \A b \in Buckets : b > allocated => spent[b] = 0 /\ high[b] = born[b]

\* Every step of Allow and cleanup keeps the types.
LEMMA TypeStep ==
  ASSUME TypeOK, [Next]_vars
  PROVE  TypeOK'
<1> USE LimiterAssumption DEF LimiterAssumption, mapVars, sweepVars
<1>1. CASE Tick
  <2>1. UNCHANGED <<bucketVars, callVars>>
    BY <1>1 DEF Tick
  <2>2. TypeBuckets' /\ TypeCalls'
    BY <2>1 DEF TypeOK, TypeBuckets, TypeCalls, bucketVars, callVars
  <2> QED
    BY <1>1, <2>2 DEF Tick, TypeOK
<1>2. ASSUME NEW c \in Callers, Allow(c) \/ Load(c) PROVE TypeOK'
  <2>1. TypeBuckets'
    BY <1>2 DEF Allow, Load, TypeOK, TypeBuckets, bucketVars
  <2>2. TypeCalls'
    <3>1. map # 0 => map \in Buckets
      BY DEF TypeOK, Buckets
    <3> QED
      BY <1>2, <3>1 DEF Allow, Load, Goto, TypeOK, TypeCalls
  <2> QED
    BY <1>2, <2>1, <2>2 DEF Allow, Load, TypeOK
<1>3. ASSUME NEW c \in Callers, LoadOrStore(c) PROVE TypeOK'
  <2>1. CASE map # 0
    <3>1. map \in Buckets
      BY <2>1 DEF TypeOK, Buckets
    <3>2. TypeBuckets'
      BY <1>3, <2>1 DEF LoadOrStore, TypeOK, TypeBuckets, bucketVars
    <3>3. TypeCalls'
      BY <1>3, <2>1, <3>1 DEF LoadOrStore, Goto, TypeOK, TypeCalls
    <3> QED
      BY <1>3, <2>1, <3>2, <3>3 DEF LoadOrStore, TypeOK
  <2>2. CASE map = 0
    <3>1. /\ allocated + 1 \in Buckets /\ allocated + 1 \in 0..MaxBuckets
          /\ NewBucket(allocated + 1, now[c]) /\ now[c] \in Nat
      BY <1>3, <2>2 DEF LoadOrStore, TypeOK, TypeCalls, Buckets
    <3>2. TypeBuckets'
      BY <3>1 DEF NewBucket, TypeOK, TypeBuckets
    <3>3. TypeCalls'
      BY <1>3, <2>2, <3>1 DEF LoadOrStore, Goto, TypeOK, TypeCalls
    <3> QED
      BY <1>3, <2>2, <3>1, <3>2, <3>3 DEF LoadOrStore, TypeOK
  <2> QED
    BY <2>1, <2>2
<1>4. ASSUME NEW c \in Callers, Take(c) PROVE TypeOK'
  <2>1. ptr[c] \in Buckets /\ now[c] \in Nat
    BY <1>4 DEF Take, TypeOK, TypeCalls
  <2>2. Refilled(ptr[c], now[c]) \in Int
    BY <2>1 DEF Refilled, TypeOK, TypeBuckets
  <2>3. TypeBuckets'
    BY <1>4, <2>1, <2>2 DEF Take, TypeOK, TypeBuckets
  <2>4. TypeCalls'
    BY <1>4 DEF Take, Goto, TypeOK, TypeCalls
  <2> QED
    BY <1>4, <2>3, <2>4 DEF Take, TypeOK
<1>5. CASE cleanup \/ CheckStale \/ CompareAndDelete \/ UNCHANGED vars
  <2>1. UNCHANGED <<bucketVars, callVars>>
    BY <1>5 DEF cleanup, CheckStale, CompareAndDelete, vars
  <2>2. TypeBuckets' /\ TypeCalls'
    BY <2>1 DEF TypeOK, TypeBuckets, TypeCalls, bucketVars, callVars
  <2>3. map # 0 => map \in Buckets
    BY DEF TypeOK, Buckets
  <2> QED
    BY <1>5, <2>2, <2>3 DEF cleanup, CheckStale, CompareAndDelete, vars, TypeOK
<1> QED
  BY <1>1, <1>2, <1>3, <1>4, <1>5 DEF Next

\* The map holds the newest bucket or none, and an Allow that waits for a
\* bucket's lock has one that exists.
LEMMA MapStep ==
  ASSUME TypeOK, MapInv, [Next]_vars
  PROVE  MapInv'
<1> USE DEF MapInv, OneBucketPerEviction
<1>1. CASE Tick \/ cleanup \/ CheckStale \/ UNCHANGED vars
  BY <1>1 DEF Tick, cleanup, CheckStale, vars, mapVars, callVars
<1>2. ASSUME NEW c \in Callers, Allow(c) \/ Load(c) \/ Take(c) PROVE MapInv'
  <2>1. map # 0 => map <= allocated
    BY DEF TypeOK
  <2>2. UNCHANGED mapVars /\ \A d \in Callers : pc'[d] = "lock" => ptr'[d] \in {ptr[d], map} /\ (pc[d] = "lock" => ptr'[d] = ptr[d]) /\ (pc[d] # "lock" => ptr'[d] = map /\ map # 0)
    BY <1>2 DEF Allow, Load, Take, Goto, TypeOK, TypeCalls
  <2> QED
    BY <2>1, <2>2 DEF mapVars
<1>3. ASSUME NEW c \in Callers, LoadOrStore(c) PROVE MapInv'
  <2>1. /\ map' = allocated' /\ map' # 0 /\ allocated' >= allocated /\ allocated' \in Nat
        /\ allocated' = evictions' + 1
    BY <1>3 DEF LoadOrStore, TypeOK
  <2>2. \A d \in Callers : pc'[d] = "lock" => ptr'[d] = map' \/ (pc[d] = "lock" /\ ptr'[d] = ptr[d])
    BY <1>3 DEF LoadOrStore, Goto, TypeOK, TypeCalls
  <2>3. \A d \in Callers : ptr[d] \in Nat
    BY DEF TypeOK, TypeCalls
  <2> QED
    BY <2>1, <2>2, <2>3 DEF TypeOK
<1>4. CASE CompareAndDelete
  <2>1. map = sweeping => map # 0
    BY <1>4, LimiterAssumption DEF LimiterAssumption, CompareAndDelete, TypeOK, Buckets
  <2>2. map' \in {0, allocated'} /\ OneBucketPerEviction'
    BY <1>4, <2>1 DEF CompareAndDelete, TypeOK
  <2> QED
    BY <1>4, <2>2 DEF CompareAndDelete, callVars
<1> QED
  BY <1>1, <1>2, <1>3, <1>4 DEF Next

\* The steps that leave the buckets and their number alone.
LEMMA BucketsUntouched ==
  ASSUME IInv, UNCHANGED <<allocated, bucketVars>>
  PROVE  /\ \A b \in Buckets : b <= allocated' => BucketInv(b)'
         /\ \A b \in Buckets : b > allocated' => spent'[b] = 0 /\ high'[b] = born'[b]
BY DEF IInv, BucketInv, bucketVars

\* LoadOrStore and the locked part of Allow keep every bucket's balance.
LEMMA BucketStep ==
  ASSUME IInv, [Next]_vars
  PROVE  /\ \A b \in Buckets : b <= allocated' => BucketInv(b)'
         /\ \A b \in Buckets : b > allocated' => spent'[b] = 0 /\ high'[b] = born'[b]
<1> USE LimiterAssumption DEF LimiterAssumption
<1>1. TypeOK /\ MapInv /\ TypeBuckets /\ TypeCalls
  BY DEF IInv, TypeOK
<1>2. ASSUME NEW c \in Callers, Take(c)
      PROVE  /\ \A b \in Buckets : b <= allocated' => BucketInv(b)'
             /\ \A b \in Buckets : b > allocated' => spent'[b] = 0 /\ high'[b] = born'[b]
  <2>1. PICK p \in Buckets, t \in Nat : p = ptr[c] /\ t = now[c] /\ p <= allocated
    BY <1>1, <1>2 DEF Take, TypeCalls, MapInv
  <2>2. allocated' = allocated /\ born' = born
    BY <1>2 DEF Take, mapVars
  <2>3. BucketInv(p)
    BY <2>1 DEF IInv
  <2>4. /\ tokens[p] \in Int /\ last[p] \in Nat /\ spent[p] \in Nat
        /\ born[p] \in Nat /\ high[p] \in Nat
    BY <1>1, <2>1 DEF TypeBuckets
  <2>5. PICK f \in Int : /\ f = Refilled(p, t) /\ f <= Burst /\ f <= tokens[p] + (t - last[p])
                         /\ f = Burst \/ f = tokens[p] + (t - last[p])
    BY <2>1, <2>4 DEF Refilled
  <2>6. last'[p] = t /\ high'[p] = (IF t > high[p] THEN t ELSE high[p]) /\ born'[p] = born[p]
    BY <1>1, <1>2, <2>1, <2>2 DEF Take, TypeBuckets
  <2>7. \/ tokens'[p] = f /\ spent'[p] = spent[p]
        \/ f >= Cost /\ tokens'[p] = f - Cost /\ spent'[p] = spent[p] + Cost
    BY <1>1, <1>2, <2>1, <2>5, SMTT(30) DEF Take, TypeBuckets
  <2>8. BucketInv(p)'
    BY <2>1, <2>3, <2>4, <2>5, <2>6, <2>7 DEF BucketInv
  <2>9. \A b \in Buckets : b # p =>
          /\ tokens'[b] = tokens[b] /\ last'[b] = last[b]
          /\ spent'[b] = spent[b] /\ high'[b] = high[b]
    BY <1>1, <1>2, <2>1 DEF Take, TypeBuckets
  <2>10. \A b \in Buckets : b <= allocated' => BucketInv(b)'
    BY <2>2, <2>8, <2>9 DEF IInv, BucketInv
  <2>11. \A b \in Buckets : b > allocated' => spent'[b] = 0 /\ high'[b] = born'[b]
    <3>1. \A b \in Buckets : b > allocated => b # p
      BY <1>1, <2>1 DEF TypeOK, Buckets
    <3> QED
      BY <2>2, <2>9, <3>1 DEF IInv
  <2> QED
    BY <2>10, <2>11
<1>3. ASSUME NEW c \in Callers, LoadOrStore(c)
      PROVE  /\ \A b \in Buckets : b <= allocated' => BucketInv(b)'
             /\ \A b \in Buckets : b > allocated' => spent'[b] = 0 /\ high'[b] = born'[b]
  <2>1. CASE map # 0
    BY <1>3, <2>1, BucketsUntouched DEF LoadOrStore
  <2>2. CASE map = 0
    <3>1. PICK n \in Buckets, t \in Nat :
            /\ n = allocated + 1 /\ allocated' = n /\ allocated \in Nat
            /\ t = now[c] /\ NewBucket(n, t)
      BY <1>1, <1>3, <2>2 DEF LoadOrStore, TypeOK, TypeCalls, Buckets
    <3>2. /\ tokens'[n] = Burst /\ last'[n] = t /\ born'[n] = t /\ high'[n] = t
          /\ spent' = spent /\ spent[n] = 0
      <4>1. spent[n] = 0
        BY <3>1 DEF IInv
      <4> QED
        BY <1>1, <3>1, <4>1 DEF NewBucket, TypeBuckets
    <3>3. BucketInv(n)'
      BY <3>1, <3>2 DEF BucketInv
    <3>4. \A b \in Buckets : b # n =>
            /\ tokens'[b] = tokens[b] /\ last'[b] = last[b]
            /\ born'[b] = born[b] /\ high'[b] = high[b]
      BY <1>1, <3>1 DEF NewBucket, TypeBuckets
    <3>5. \A b \in Buckets : (b <= n => b <= allocated \/ b = n) /\ (b > n => b > allocated /\ b # n)
      BY <3>1 DEF Buckets
    <3>6. \A b \in Buckets : b <= allocated' => BucketInv(b)'
      BY <3>1, <3>2, <3>3, <3>4, <3>5 DEF IInv, BucketInv
    <3>7. \A b \in Buckets : b > allocated' => spent'[b] = 0 /\ high'[b] = born'[b]
      BY <3>1, <3>2, <3>4, <3>5 DEF IInv
    <3> QED
      BY <3>6, <3>7
  <2> QED
    BY <2>1, <2>2
<1>4. ASSUME NEW c \in Callers, Allow(c) \/ Load(c)
      PROVE  UNCHANGED <<allocated, bucketVars>>
  BY <1>4 DEF Allow, Load, mapVars
<1>5. CASE Tick \/ cleanup \/ CheckStale \/ CompareAndDelete \/ UNCHANGED vars
  <2>1. UNCHANGED <<allocated, bucketVars>>
    BY <1>5 DEF Tick, cleanup, CheckStale, CompareAndDelete, vars, mapVars
  <2> QED
    BY <2>1, BucketsUntouched
<1> QED
  BY <1>2, <1>3, <1>4, <1>5, BucketsUntouched DEF Next

\* IInv holds in every reachable state.
LEMMA Invariance == Spec => []IInv
<1>1. Init => IInv
  <2> SUFFICES ASSUME Init PROVE IInv
    OBVIOUS
  <2>1. TypeOK
    BY LimiterAssumption DEF LimiterAssumption, Init, TypeOK, TypeBuckets, TypeCalls
  <2>2. MapInv
    BY DEF Init, MapInv, OneBucketPerEviction
  <2>3. \A b \in Buckets : spent[b] = 0 /\ high[b] = born[b] /\ ~(b <= allocated)
    BY DEF Init, Buckets
  <2> QED
    BY <2>1, <2>2, <2>3 DEF IInv
<1>2. IInv /\ [Next]_vars => IInv'
  BY TypeStep, MapStep, BucketStep DEF IInv
<1> QED
  BY <1>1, <1>2, PTL DEF Spec

-----------------------------------------------------------------------------
\* The limiter's variables keep their types.
THEOREM TypeCorrect == Spec => []TypeOK
BY Invariance, PTL DEF IInv

\* Allow grants from a bucket at most its burst and what the rate has added,
\* whatever the order in which concurrent Allows get its lock.
THEOREM RateBound == Spec => []GrantsBounded
<1>1. IInv => GrantsBounded
  <2> SUFFICES ASSUME IInv, NEW b \in Buckets
               PROVE  spent[b] <= Burst + (high[b] - born[b])
    BY DEF GrantsBounded
  <2>1. /\ tokens[b] \in Int /\ last[b] \in Nat /\ spent[b] \in Nat
        /\ born[b] \in Nat /\ high[b] \in Nat
    BY DEF IInv, TypeOK, TypeBuckets
  <2>2. b <= allocated \/ b > allocated
    BY DEF IInv, TypeOK, Buckets
  <2>3. BucketInv(b) \/ (spent[b] = 0 /\ high[b] = born[b])
    BY <2>2 DEF IInv
  <2> QED
    BY <2>1, <2>3, LimiterAssumption DEF LimiterAssumption, BucketInv
<1> QED
  BY <1>1, Invariance, PTL

\* Out-of-order Allows never leave a bucket in debt at the latest time seen.
THEOREM Solvent == Spec => []NoDebt
<1>1. IInv => NoDebt
  BY DEF IInv, NoDebt, BucketInv
<1> QED
  BY <1>1, Invariance, PTL

\* Allows that race past Load never create two buckets.
THEOREM SharedBucket == Spec => []OneBucketPerEviction
BY Invariance, PTL DEF IInv, MapInv

=============================================================================

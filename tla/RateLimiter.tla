---------------------------- MODULE RateLimiter -----------------------------
(***************************************************************************)
(* The token-bucket rate limiter (internal/ratelimit/token/limiter.go), as *)
(* seen by one principal: buckets of different principals share nothing.   *)
(*                                                                         *)
(* Processes: the goroutines that call Allow and the cleanup goroutine.    *)
(*                                                                         *)
(* Time and tokens are integers.  A tick of the clock is the time in which *)
(* a bucket gains one unit, and a token is Cost units, so that a fraction  *)
(* of a token is a number of units and the rate needs no multiplication.   *)
(***************************************************************************)
EXTENDS Integers, FiniteSets

CONSTANTS
  Callers,         \* goroutines that call Allow for this principal
  Cost,            \* units in a token
  Burst,           \* l.burst, in units
  staleThreshold,  \* idle time after which a bucket may be evicted
  MaxTime,         \* bound on the clock
  MaxBuckets       \* bound on the buckets ever allocated for the principal

ASSUME LimiterAssumption ==
  /\ IsFiniteSet(Callers)
  /\ Cost \in Nat \ {0} /\ Burst \in Nat
  /\ staleThreshold \in Nat /\ MaxTime \in Nat /\ MaxBuckets \in Nat

Buckets == 1..MaxBuckets

VARIABLES
  clock,
  map,        \* the principal's entry in l.buckets: a bucket, or 0
  allocated,  \* buckets allocated so far
  evictions,  \* buckets deleted by cleanup so far
  tokens,     \* tokens of each bucket, in units
  last,       \* lastCheck of each bucket
  pc,         \* where each Allow is
  now,        \* the now of each Allow
  ptr,        \* the bucket each Allow has found
  cleaner,    \* where cleanup is
  sweepNow,   \* cleanup's now
  sweeping,   \* the bucket Range gave it
  spent,      \* units granted from each bucket
  born,       \* lastCheck each bucket was created with
  high        \* latest now that has used each bucket

bucketVars == <<tokens, last, spent, born, high>>
mapVars == <<map, allocated, evictions>>
callVars == <<pc, now, ptr>>
sweepVars == <<cleaner, sweepNow, sweeping>>
vars == <<clock, mapVars, bucketVars, callVars, sweepVars>>

Init ==
  /\ clock = 0
  /\ map = 0 /\ allocated = 0 /\ evictions = 0
  /\ tokens = [b \in Buckets |-> 0] /\ last = [b \in Buckets |-> 0]
  /\ spent = [b \in Buckets |-> 0] /\ born = [b \in Buckets |-> 0]
  /\ high = [b \in Buckets |-> 0]
  /\ pc = [c \in Callers |-> "idle"]
  /\ now = [c \in Callers |-> 0] /\ ptr = [c \in Callers |-> 0]
  /\ cleaner = "idle" /\ sweepNow = 0 /\ sweeping = 0

Tick ==
  /\ clock < MaxTime
  /\ clock' = clock + 1
  /\ UNCHANGED <<mapVars, bucketVars, callVars, sweepVars>>

-----------------------------------------------------------------------------
(* Allow.                                                                  *)

Goto(c, loc) == pc' = [pc EXCEPT ![c] = loc]

\* now := time.Now()
Allow(c) ==
  /\ pc[c] = "idle"
  /\ now' = [now EXCEPT ![c] = clock]
  /\ Goto(c, "load")
  /\ UNCHANGED <<clock, mapVars, bucketVars, ptr, sweepVars>>

Load(c) ==
  /\ pc[c] = "load"
  /\ ptr' = [ptr EXCEPT ![c] = map]
  /\ Goto(c, IF map = 0 THEN "store" ELSE "lock")
  /\ UNCHANGED <<clock, mapVars, bucketVars, now, sweepVars>>

\* A new bucket b, full and checked at time t.
NewBucket(b, t) ==
  /\ tokens' = [tokens EXCEPT ![b] = Burst]
  /\ last' = [last EXCEPT ![b] = t]
  /\ born' = [born EXCEPT ![b] = t] /\ high' = [high EXCEPT ![b] = t]
  /\ UNCHANGED spent

\* Mutant: Store instead of LoadOrStore.
LoadOrStore_store(c) ==
  /\ pc[c] = "store"
  /\ /\ allocated < MaxBuckets
     /\ NewBucket(allocated + 1, now[c])
     /\ ptr' = [ptr EXCEPT ![c] = allocated + 1]
     /\ map' = allocated + 1 /\ allocated' = allocated + 1
  /\ Goto(c, "lock")
  /\ UNCHANGED <<clock, evictions, now, sweepVars>>

\* Another Allow may have stored a bucket since Load.
LoadOrStore(c) ==
  /\ pc[c] = "store"
  /\ \/ /\ map # 0
        /\ ptr' = [ptr EXCEPT ![c] = map]
        /\ UNCHANGED <<map, allocated, bucketVars>>
     \/ /\ map = 0 /\ allocated < MaxBuckets
        /\ NewBucket(allocated + 1, now[c])
        /\ ptr' = [ptr EXCEPT ![c] = allocated + 1]
        /\ map' = allocated + 1 /\ allocated' = allocated + 1
  /\ Goto(c, "lock")
  /\ UNCHANGED <<clock, evictions, now, sweepVars>>

\* The elapsed time is negative when Allows take the lock out of order.
Refilled(b, t) ==
  IF tokens[b] + (t - last[b]) > Burst THEN Burst ELSE tokens[b] + (t - last[b])

\* Mutant: lastCheck is only set when a request is granted.
Take_lazy(c) ==
  LET b == ptr[c] full == Refilled(b, now[c]) IN
  /\ pc[c] = "lock"
  /\ IF full < Cost
     THEN /\ tokens' = [tokens EXCEPT ![b] = full]
          /\ UNCHANGED <<spent, last>>
     ELSE /\ tokens' = [tokens EXCEPT ![b] = full - Cost]
          /\ spent' = [spent EXCEPT ![b] = @ + Cost]
          /\ last' = [last EXCEPT ![b] = now[c]]
  /\ high' = [high EXCEPT ![b] = IF now[c] > @ THEN now[c] ELSE @]
  /\ Goto(c, "idle")
  /\ UNCHANGED <<clock, mapVars, born, now, ptr, sweepVars>>

\* Mutant: a bucket with any tokens grants the request.
Take_early(c) ==
  LET b == ptr[c] full == Refilled(b, now[c]) IN
  /\ pc[c] = "lock"
  /\ last' = [last EXCEPT ![b] = now[c]]
  /\ high' = [high EXCEPT ![b] = IF now[c] > @ THEN now[c] ELSE @]
  /\ IF full <= 0
     THEN /\ tokens' = [tokens EXCEPT ![b] = full]
          /\ UNCHANGED spent
     ELSE /\ tokens' = [tokens EXCEPT ![b] = full - Cost]
          /\ spent' = [spent EXCEPT ![b] = @ + Cost]
  /\ Goto(c, "idle")
  /\ UNCHANGED <<clock, mapVars, born, now, ptr, sweepVars>>

\* The rest of Allow, under b.mu.
Take(c) ==
  LET b == ptr[c] full == Refilled(b, now[c]) IN
  /\ pc[c] = "lock"
  /\ last' = [last EXCEPT ![b] = now[c]]
  /\ high' = [high EXCEPT ![b] = IF now[c] > @ THEN now[c] ELSE @]
  /\ IF full < Cost
     THEN /\ tokens' = [tokens EXCEPT ![b] = full]
          /\ UNCHANGED spent
     ELSE /\ tokens' = [tokens EXCEPT ![b] = full - Cost]
          /\ spent' = [spent EXCEPT ![b] = @ + Cost]
  /\ Goto(c, "idle")
  /\ UNCHANGED <<clock, mapVars, born, now, ptr, sweepVars>>

-----------------------------------------------------------------------------
(* cleanup, started by the ticker.                                         *)

\* Range reaches the principal's entry.  The last bucket is left: a bound.
cleanup ==
  /\ cleaner = "idle" /\ map # 0 /\ allocated < MaxBuckets
  /\ sweepNow' = clock /\ sweeping' = map
  /\ cleaner' = "check"
  /\ UNCHANGED <<clock, mapVars, bucketVars, callVars>>

\* Staleness is read under the bucket's lock, which is then released.
CheckStale ==
  /\ cleaner = "check"
  /\ cleaner' = IF sweepNow - last[sweeping] > staleThreshold THEN "delete" ELSE "idle"
  /\ UNCHANGED <<clock, mapVars, bucketVars, callVars, sweepNow, sweeping>>

\* The entry goes if it still points to the same bucket.
CompareAndDelete ==
  /\ cleaner = "delete"
  /\ IF map = sweeping
     THEN map' = 0 /\ evictions' = evictions + 1
     ELSE UNCHANGED <<map, evictions>>
  /\ cleaner' = "idle"
  /\ UNCHANGED <<clock, allocated, bucketVars, callVars, sweepNow, sweeping>>

-----------------------------------------------------------------------------
Next ==
  \/ Tick
  \/ \E c \in Callers : Allow(c) \/ Load(c) \/ LoadOrStore(c) \/ Take(c)
  \/ cleanup \/ CheckStale \/ CompareAndDelete

Spec == Init /\ [][Next]_vars

-----------------------------------------------------------------------------
(* Properties.                                                             *)

TypeBuckets ==
  /\ tokens \in [Buckets -> Int] /\ last \in [Buckets -> Nat]
  /\ spent \in [Buckets -> Nat] /\ born \in [Buckets -> Nat] /\ high \in [Buckets -> Nat]

TypeCalls ==
  /\ pc \in [Callers -> {"idle", "load", "store", "lock"}]
  /\ now \in [Callers -> Nat] /\ ptr \in [Callers -> 0..MaxBuckets]
  /\ \A c \in Callers : pc[c] = "lock" => ptr[c] \in Buckets

\* Every variable has its type; an Allow that waits for a lock has a bucket.
TypeOK ==
  /\ TypeBuckets /\ TypeCalls
  /\ clock \in Nat
  /\ map \in 0..MaxBuckets /\ allocated \in 0..MaxBuckets /\ evictions \in Nat
  /\ cleaner \in {"idle", "check", "delete"}
  /\ sweepNow \in Nat /\ sweeping \in 0..MaxBuckets
  /\ cleaner # "idle" => sweeping \in Buckets

\* A bucket grants no more than the burst and what the rate has added since
\* it was created, in whatever order the Allows that read the clock get the
\* lock: a negative elapsed time takes back what it would add again later.
GrantsBounded ==
  \A b \in Buckets : spent[b] <= Burst + (high[b] - born[b])

\* Out-of-order Allows leave no lasting debt: at the latest time seen, the
\* bucket is not below zero, so the principal is granted again within the
\* time of one token.
NoDebt ==
  \A b \in Buckets : b <= allocated =>
    tokens[b] <= Burst /\ tokens[b] + (high[b] - last[b]) >= 0

\* Every bucket beyond the first replaces an evicted one: Allows that race
\* past Load share one bucket, and so one burst.
OneBucketPerEviction ==
  allocated = evictions + (IF map = 0 THEN 0 ELSE 1)

=============================================================================

--------------------------- MODULE KeyAdminProofs ---------------------------
(***************************************************************************)
(* Proofs about KeyAdmin: the types, authentication and the purges first,  *)
(* then what the audit rows and the secrets handed out add up to.  The     *)
(* last two hold where no statement's reply is lost; with one lost, the    *)
(* handler cannot know that there is a change to account for.              *)
(***************************************************************************)
EXTENDS KeyAdmin, FiniteSetTheorems, TLAPS

KeyRecords ==
  [secret : Nat, enabled : {0, 1}, expires : Nat, roles : SUBSET Roles, cidrs : SUBSET Addrs]

AdminOps == {"create", "rotate", "delete", "enable", "disable", "expiry", "roles", "cidrs", "purge"}

\* What a handler carries from its validation to its statement; now and n
\* are the time and the number of ids issued.
Typed(j, now, n) ==
  /\ j.op \in AdminOps
  /\ j.op = "purge" => j.id = 0 /\ j.val \in Nat /\ j.val <= now
  /\ j.op # "purge" => j.id \in Ids
  /\ j.op \in {"create", "rotate"} => j.secret \in Nat
  /\ j.op = "create" => j.id <= n /\ j.val \in KeyRecords /\ j.val.secret = j.secret
  /\ j.op \in {"enable", "disable"} => j.val \in {0, 1}
  /\ j.op = "expiry" => j.val \in Nat
  /\ j.op = "roles" => j.val \in SUBSET Roles
  /\ j.op = "cidrs" => j.val \in SUBSET Addrs

TableOK(t, n) ==
  DOMAIN t \subseteq 1..n /\ \A id \in DOMAIN t : t[id] \in KeyRecords

TableInv == ids \in 0..MaxIds /\ TableOK(keys, ids)

HandlerInv ==
  /\ pc \in [Handlers -> {"idle", "change", "audit", "compensate", "reply"}]
  /\ DOMAIN job = Handlers
  /\ \A h \in Handlers :
       /\ pc[h] = "idle" => job[h] = NoJob
       /\ pc[h] # "idle" => Typed(job[h], clock, ids)
       /\ pc[h] = "compensate" => job[h].op = "create"

ClockInv ==
  clock \in Nat /\ secrets \in Nat /\ before \in Nat /\ before <= clock

TypeInv == TableInv /\ HandlerInv /\ ClockInv

-----------------------------------------------------------------------------
(* Each statement keeps the table well-typed and its ids issued.           *)

\* The keys in the table have ids that were issued.
LEMMA IssuedIds ==
  ASSUME TypeInv
  PROVE  ids \in Nat /\ DOMAIN keys \subseteq 1..ids
BY KeyAssumption DEF TypeInv, TableInv, TableOK

\* Every store method maps a well-typed table to a well-typed table.
LEMMA TableOps ==
  ASSUME NEW t, NEW n \in Nat, TableOK(t, n), NEW id
  PROVE  /\ \A rec \in KeyRecords : id \in 1..n => TableOK(Create(t, id, rec), n)
         /\ \A s \in Nat : TableOK(UpdateHash(t, id, s), n)
         /\ TableOK(Delete(t, id), n)
         /\ \A e \in {0, 1} : TableOK(SetEnabled(t, id, e), n)
         /\ \A e \in Nat : TableOK(SetExpiresAt(t, id, e), n)
         /\ \A R \in SUBSET Roles : TableOK(SetRoles(t, id, R), n)
         /\ \A A \in SUBSET Addrs : TableOK(SetAllowedCIDRs(t, id, A), n)
         /\ \A b : TableOK(DeleteExpired(t, b), n)
<1> USE DEF TableOK
<1>1. \A rec \in KeyRecords : id \in 1..n => TableOK(Create(t, id, rec), n)
  BY Zenon DEF Create
<1>2. \A s \in Nat : TableOK(UpdateHash(t, id, s), n)
  BY Zenon DEF UpdateHash, KeyRecords
<1>3. TableOK(Delete(t, id), n)
  BY Zenon DEF Delete, Restrict
<1>4. \A e \in {0, 1} : TableOK(SetEnabled(t, id, e), n)
  BY Zenon DEF SetEnabled, KeyRecords
<1>5. \A e \in Nat : TableOK(SetExpiresAt(t, id, e), n)
  BY DEF SetExpiresAt, KeyRecords
<1>6. \A R \in SUBSET Roles : TableOK(SetRoles(t, id, R), n)
  BY DEF SetRoles, KeyRecords
<1>7. \A A \in SUBSET Addrs : TableOK(SetAllowedCIDRs(t, id, A), n)
  BY DEF SetAllowedCIDRs, KeyRecords
<1>8. \A b : TableOK(DeleteExpired(t, b), n)
  BY Zenon DEF DeleteExpired, Restrict
<1> QED BY <1>1, <1>2, <1>3, <1>4, <1>5, <1>6, <1>7, <1>8, Zenon

-----------------------------------------------------------------------------
(* The steps of an admin handler.                                          *)

\* Handler h validates a request and takes on job j.
BeginStep(h, j) ==
  /\ Begin(h, j) /\ Typed(j, clock, ids')
  /\ secrets' \in Nat /\ ids' \in 0..MaxIds
  /\ IF j.op = "create" THEN j.id = ids + 1 /\ ids' = ids + 1 ELSE ids' = ids

\* The statement, its failure, the audit row, the reply and the compensation.
Statement(h) ==
  \/ Change(h) \/ ChangeFails(h) \/ Audit(h) \/ Reply(h) \/ AuditFails(h) \/ Compensate(h)

\* Whatever the admin API is asked for, what the handler takes on is typed,
\* and a new key has an id that was never issued.
LEMMA AdminCases ==
  ASSUME TypeInv, NEW h \in Handlers, AdminStep(h)
  PROVE  (\E j : BeginStep(h, j)) \/ Statement(h)
<1> USE KeyAssumption DEF Ids, AdminOps
<1>1. ASSUME NEW R \in (SUBSET Roles) \ {{}}, NEW t \in FutureOrNever, createKey(h, R, t)
      PROVE  \E j : BeginStep(h, j)
  <2> DEFINE v == NewRecord(secrets + 1, t, R)
             j == [op |-> "create", id |-> ids + 1, secret |-> secrets + 1, val |-> v]
  <2>1. v \in KeyRecords /\ v.secret = secrets + 1
    <3>1. t \in Nat /\ R \in SUBSET Roles /\ secrets + 1 \in Nat
      BY <1>1 DEF FutureOrNever, TypeInv, ClockInv
    <3> QED BY <3>1, Zenon DEF KeyRecords, NewRecord
  <2>2. Begin(h, j) /\ ids' = ids + 1 /\ secrets' = secrets + 1 /\ ids < MaxIds
    BY <1>1, Zenon DEF createKey
  <2> HIDE DEF v
  <2>3. Typed(j, clock, ids') /\ secrets' \in Nat /\ ids' \in 0..MaxIds
    BY <2>1, <2>2 DEF Typed, TypeInv, ClockInv, TableInv
  <2>4. j.op = "create" /\ j.id = ids + 1
    BY Zenon
  <2> HIDE DEF j
  <2> QED BY <2>2, <2>3, <2>4, Zenon DEF BeginStep
<1>2. ASSUME NEW id \in Ids, rotateKey(h, id)
      PROVE  \E j : BeginStep(h, j)
  <2> DEFINE j == [op |-> "rotate", id |-> id, val |-> 0, secret |-> secrets + 1]
  <2>1. Begin(h, j) /\ secrets' = secrets + 1 /\ ids' = ids
    BY <1>2, Zenon DEF rotateKey
  <2>2. Typed(j, clock, ids') /\ secrets' \in Nat /\ ids' \in 0..MaxIds /\ j.op # "create"
    BY <2>1 DEF Typed, TypeInv, ClockInv, TableInv
  <2> HIDE DEF j
  <2> QED BY <2>1, <2>2, Zenon DEF BeginStep
<1>3. ASSUME NEW op, NEW id, NEW val, updateKey(h, op, id, val), op \notin {"create", "rotate"},
             Typed([op |-> op, id |-> id, val |-> val, secret |-> 0], clock, ids)
      PROVE  \E j : BeginStep(h, j)
  <2> DEFINE j == [op |-> op, id |-> id, val |-> val, secret |-> 0]
  <2>1. Begin(h, j) /\ ids' = ids /\ secrets' = secrets
    BY <1>3, Zenon DEF updateKey
  <2>2. secrets' \in Nat /\ ids' \in 0..MaxIds /\ j.op # "create" /\ Typed(j, clock, ids')
    BY <2>1, <1>3, Zenon DEF TypeInv, ClockInv, TableInv
  <2> HIDE DEF j
  <2> QED BY <2>1, <2>2, Zenon DEF BeginStep
<1>4. ASSUME NEW id \in Ids,
             \/ deleteKey(h, id) \/ setEnabled(h, id) \/ setExpiry(h, id)
             \/ updateRoles(h, id) \/ updateAllowedCIDRs(h, id)
      PROVE  \E j : BeginStep(h, j)
  <2>1. CASE deleteKey(h, id)
    <3>1. Typed([op |-> "delete", id |-> id, val |-> 0, secret |-> 0], clock, ids)
      BY Zenon DEF Typed
    <3> QED BY <2>1, <3>1, <1>3, Zenon DEF deleteKey
  <2>2. CASE setEnabled(h, id)
    <3>1. /\ Typed([op |-> "enable", id |-> id, val |-> 1, secret |-> 0], clock, ids)
          /\ Typed([op |-> "disable", id |-> id, val |-> 0, secret |-> 0], clock, ids)
      BY Zenon DEF Typed
    <3> QED BY <2>2, <3>1, <1>3 DEF setEnabled
  <2>3. CASE setExpiry(h, id)
    <3>1. \A t \in FutureOrNever :
            Typed([op |-> "expiry", id |-> id, val |-> t, secret |-> 0], clock, ids)
      BY DEF Typed, FutureOrNever, TypeInv, ClockInv
    <3> QED BY <2>3, <3>1, <1>3, Zenon DEF setExpiry
  <2>4. CASE updateRoles(h, id)
    <3>1. \A R \in (SUBSET Roles) \ {{}} :
            Typed([op |-> "roles", id |-> id, val |-> R, secret |-> 0], clock, ids)
      BY Zenon DEF Typed
    <3> QED BY <2>4, <3>1, <1>3, Zenon DEF updateRoles
  <2>5. CASE updateAllowedCIDRs(h, id)
    <3>1. \A A \in SUBSET Addrs :
            Typed([op |-> "cidrs", id |-> id, val |-> A, secret |-> 0], clock, ids)
      BY Zenon DEF Typed
    <3> QED BY <2>5, <3>1, <1>3, Zenon DEF updateAllowedCIDRs
  <2> QED BY <1>4, <2>1, <2>2, <2>3, <2>4, <2>5, Zenon
<1>5. ASSUME purgeExpired(h) PROVE \E j : BeginStep(h, j)
  <2>1. Typed([op |-> "purge", id |-> 0, val |-> clock, secret |-> 0], clock, ids)
    BY DEF Typed, TypeInv, ClockInv
  <2> QED BY <1>5, <2>1, <1>3, Zenon DEF purgeExpired
<1> QED BY <1>1, <1>2, <1>4, <1>5, Zenon DEF AdminStep, Statement
-----------------------------------------------------------------------------
(* The type invariant.                                                     *)

\* What is typed stays so as time goes on and ids are issued.
LEMMA TypedStays ==
  ASSUME NEW j, NEW now \in Nat, NEW later \in Nat, NEW n \in Nat, NEW m \in Nat,
         now <= later, n <= m, Typed(j, now, n), MaxIds \in Nat
  PROVE  Typed(j, later, m)
BY DEF Typed, Ids

\* One handler moves on, the others stay.
LEMMA HandlerMoves ==
  ASSUME HandlerInv, NEW h \in Handlers, NEW loc \in {"idle", "change", "audit", "compensate", "reply"},
         pc' = [pc EXCEPT ![h] = loc], DOMAIN job' = Handlers,
         \A g \in Handlers \ {h} : job'[g] = job[g],
         loc = "idle" => job'[h] = NoJob,
         loc # "idle" => Typed(job'[h], clock', ids'),
         loc = "compensate" => job'[h].op = "create",
         clock \in Nat, clock' = clock, ids \in Nat, ids' \in Nat, ids <= ids'
  PROVE  HandlerInv'
<1>1. \A g \in Handlers : Typed(job[g], clock, ids) => Typed(job[g], clock', ids')
  BY TypedStays, KeyAssumption
<1>2. \A g \in Handlers \ {h} :
        /\ pc'[g] = "idle" => job'[g] = NoJob
        /\ pc'[g] # "idle" => Typed(job'[g], clock', ids')
        /\ pc'[g] = "compensate" => job'[g].op = "create"
  BY <1>1, Zenon DEF HandlerInv
<1>3. pc'[h] = loc /\ pc' \in [Handlers -> {"idle", "change", "audit", "compensate", "reply"}]
  BY Zenon DEF HandlerInv
<1> QED BY <1>2, <1>3, Zenon DEF HandlerInv

\* No handler moves.
LEMMA HandlersStay ==
  ASSUME HandlerInv, UNCHANGED <<pc, job>>, clock \in Nat, clock' \in Nat, clock <= clock',
         ids \in Nat, ids' \in Nat, ids <= ids'
  PROVE  HandlerInv'
<1>1. \A g \in Handlers : Typed(job[g], clock, ids) => Typed(job[g], clock', ids')
  BY TypedStays, KeyAssumption, Zenon
<1> QED BY <1>1, Zenon DEF HandlerInv

\* The statement a handler runs keeps the table typed.
LEMMA ChangedTyped ==
  ASSUME TypeInv, NEW h \in Handlers, pc[h] = "change"
  PROVE  TableOK(Changed(job[h]), ids)
<1> DEFINE j == job[h]
<1>1. Typed(j, clock, ids) /\ ids \in Nat /\ TableOK(keys, ids)
  BY KeyAssumption DEF TypeInv, HandlerInv, TableInv
<1> HIDE DEF j
<1>2. CASE j.op = "create"
  <2>1. j.id \in 1..ids /\ j.val \in KeyRecords
    BY <1>1, <1>2, KeyAssumption DEF Typed, Ids
  <2> QED BY <1>1, <1>2, <2>1, TableOps, Zenon DEF Changed, j
<1>3. CASE j.op # "create"
  <2>1. /\ j.op = "rotate" => j.secret \in Nat
        /\ j.op \in {"enable", "disable"} => j.val \in {0, 1}
        /\ j.op = "expiry" => j.val \in Nat
        /\ j.op = "roles" => j.val \in SUBSET Roles
        /\ j.op = "cidrs" => j.val \in SUBSET Addrs
        /\ j.op \in AdminOps
    BY <1>1, Zenon DEF Typed
  <2>2. /\ \A s \in Nat : TableOK(UpdateHash(keys, j.id, s), ids)
        /\ TableOK(Delete(keys, j.id), ids)
        /\ \A e \in {0, 1} : TableOK(SetEnabled(keys, j.id, e), ids)
        /\ \A e \in Nat : TableOK(SetExpiresAt(keys, j.id, e), ids)
        /\ \A R \in SUBSET Roles : TableOK(SetRoles(keys, j.id, R), ids)
        /\ \A A \in SUBSET Addrs : TableOK(SetAllowedCIDRs(keys, j.id, A), ids)
        /\ \A b : TableOK(DeleteExpired(keys, b), ids)
    BY <1>1, TableOps, Zenon
  <2> QED BY <1>3, <2>1, <2>2, Zenon DEF Changed, AdminOps, j
<1> QED BY <1>2, <1>3, Zenon

\* A handler's steps keep the type invariant.
LEMMA AdminTypes ==
  ASSUME TypeInv, NEW h \in Handlers, AdminStep(h)
  PROVE  TypeInv'
<1>0. /\ HandlerInv /\ clock \in Nat /\ secrets \in Nat /\ before \in Nat /\ before <= clock
      /\ ids \in Nat /\ ids \in 0..MaxIds /\ TableOK(keys, ids)
  BY KeyAssumption DEF TypeInv, ClockInv, TableInv
<1>1. ASSUME NEW j, BeginStep(h, j) PROVE TypeInv'
  <2>1. /\ pc' = [pc EXCEPT ![h] = "change"] /\ job' = [job EXCEPT ![h] = j]
        /\ UNCHANGED <<clock, keys, before>>
        /\ Typed(j, clock, ids') /\ secrets' \in Nat /\ ids' \in 0..MaxIds
    BY <1>1, Zenon DEF BeginStep, Begin
  <2>2. ids <= ids' /\ ids' \in Nat
    BY <1>0, <1>1, KeyAssumption DEF BeginStep
  <2>3. DOMAIN job' = Handlers /\ job'[h] = j /\ \A g \in Handlers \ {h} : job'[g] = job[g]
    BY <2>1, <1>0, Zenon DEF HandlerInv
  <2>4. HandlerInv'
    BY <1>0, <2>1, <2>2, <2>3, HandlerMoves, Zenon
  <2>5. TableInv' /\ ClockInv'
    BY <1>0, <2>1, <2>2 DEF TableInv, TableOK, ClockInv
  <2> QED BY <2>4, <2>5, Zenon DEF TypeInv
<1>2. ASSUME Statement(h) PROVE TypeInv'
  <2>1. UNCHANGED <<clock, ids, secrets, before>>
    BY <1>2, Zenon DEF Statement, Change, ChangeFails, Audit, Reply, AuditFails, Compensate
  <2>a. clock' = clock /\ ids' \in Nat /\ ids <= ids'
    BY <2>1, <1>0
  <2>2. ASSUME Finish(h) PROVE HandlerInv'
    <3>1. /\ pc' = [pc EXCEPT ![h] = "idle"] /\ DOMAIN job' = Handlers /\ job'[h] = NoJob
          /\ \A g \in Handlers \ {h} : job'[g] = job[g]
      BY <2>2, <1>0, Zenon DEF Finish, HandlerInv
    <3> QED BY <1>0, <2>a, <3>1, HandlerMoves, Zenon
  <2>3. ASSUME NEW loc \in {"audit", "compensate", "reply"}, Goto(h, loc), pc[h] # "idle",
               loc = "compensate" => job[h].op = "create"
        PROVE  HandlerInv'
    <3>1. /\ pc' = [pc EXCEPT ![h] = loc] /\ DOMAIN job' = Handlers /\ job' = job
          /\ Typed(job'[h], clock', ids')
      BY <2>1, <2>3, <1>0, Zenon DEF Goto, HandlerInv
    <3> QED BY <1>0, <2>a, <2>3, <3>1, HandlerMoves, Zenon
  <2>4. HandlerInv'
    <3>1. CASE Change(h)
      BY <3>1, <2>2, <2>3, Zenon DEF Change
    <3>2. CASE AuditFails(h)
      BY <3>2, <2>2, <2>3, Zenon DEF AuditFails
    <3>3. CASE Audit(h)
      BY <3>3, <2>2, <2>3, Zenon DEF Audit
    <3>4. CASE ChangeFails(h) \/ Reply(h) \/ Compensate(h)
      BY <3>4, <2>2, Zenon DEF ChangeFails, Reply, Compensate
    <3> QED BY <1>2, <3>1, <3>2, <3>3, <3>4, Zenon DEF Statement
  <2>5. TableOK(keys', ids)
    <3>1. CASE Change(h)
      BY <3>1, ChangedTyped, Zenon DEF Change
    <3>2. CASE Compensate(h)
      <4>1. keys' = keys \/ keys' = Delete(keys, job[h].id)
        BY <3>2, Zenon DEF Compensate
      <4> QED BY <4>1, <1>0, TableOps
    <3>3. CASE ChangeFails(h) \/ Audit(h) \/ Reply(h) \/ AuditFails(h)
      <4>1. keys' = keys
        BY <3>3, Zenon DEF ChangeFails, Audit, Reply, AuditFails
      <4> QED BY <4>1, <1>0, Zenon
    <3> QED BY <1>2, <3>1, <3>2, <3>3, Zenon DEF Statement
  <2>6. TableInv' /\ ClockInv'
    BY <2>1, <2>5, <1>0, Zenon DEF TableInv, ClockInv
  <2> QED BY <2>4, <2>6, Zenon DEF TypeInv
<1> QED BY AdminCases, <1>1, <1>2, Zenon
\* The command, the cleanup, the clock, a crash and the proxied requests keep
\* it too.
LEMMA OtherTypes ==
  ASSUME TypeInv,
         \/ CLIStep \/ CleanupStep \/ Tick
         \/ \E S \in SUBSET Handlers : Crash(S)
         \/ \E r \in Callers : AuthnStep(r)
         \/ UNCHANGED vars
  PROVE  TypeInv'
<1>0. /\ HandlerInv /\ clock \in Nat /\ secrets \in Nat /\ before \in Nat /\ before <= clock
      /\ ids \in Nat /\ ids \in 0..MaxIds /\ TableOK(keys, ids) /\ MaxIds \in Nat
  BY KeyAssumption DEF TypeInv, ClockInv, TableInv
<1>1. CASE \E R \in (SUBSET Roles) \ {{}} : runKeyCreate(R)
  <2>1. PICK R \in (SUBSET Roles) \ {{}} : runKeyCreate(R)
    BY <1>1, Zenon
  <2>2. /\ UNCHANGED <<clock, pc, job, before>> /\ ids < MaxIds
        /\ ids' = ids + 1 /\ secrets' = secrets + 1
        /\ keys' = Create(keys, ids', NewRecord(secrets', 0, R))
    BY <2>1, Zenon DEF runKeyCreate
  <2>3. NewRecord(secrets', 0, R) \in KeyRecords
    BY <1>0, <2>2 DEF NewRecord, KeyRecords
  <2>4. ids' \in Nat /\ ids' \in 1..ids' /\ ids' \in 0..MaxIds /\ ids <= ids' /\ TableOK(keys, ids')
    BY <1>0, <2>2 DEF TableOK
  <2>5. TableOK(keys', ids')
    BY <2>2, <2>3, <2>4, TableOps, Zenon
  <2>6. HandlerInv'
    BY <1>0, <2>2, <2>4, HandlersStay
  <2>7. ClockInv'
    BY <1>0, <2>2 DEF ClockInv
  <2> QED BY <2>4, <2>5, <2>6, <2>7, Zenon DEF TypeInv, TableInv
<1>2. CASE \E id \in Ids : runKeyDelete(id) \/ \E e \in {0, 1} : runKeySetEnabled(id, e)
  <2>1. PICK id \in Ids : runKeyDelete(id) \/ \E e \in {0, 1} : runKeySetEnabled(id, e)
    BY <1>2, Zenon
  <2>2. /\ UNCHANGED <<clock, pc, job, before, ids, secrets>>
        /\ keys' = Delete(keys, id) \/ \E e \in {0, 1} : keys' = SetEnabled(keys, id, e)
    BY <2>1, Zenon DEF runKeyDelete, runKeySetEnabled, Command
  <2>3. TableOK(keys', ids')
    BY <1>0, <2>2, TableOps
  <2>4. HandlerInv'
    BY <1>0, <2>2, HandlersStay
  <2> QED BY <1>0, <2>2, <2>3, <2>4, Zenon DEF TypeInv, TableInv, ClockInv
<1>3. CASE CleanupStep
  <2>1. /\ UNCHANGED <<clock, pc, job, ids, secrets>> /\ before' \in {before, clock}
        /\ keys' = keys \/ keys' = DeleteExpired(keys, before)
    BY <1>3, Zenon DEF CleanupStep, CleanupTick, CleanupDelete, CleanupFails, CleanupAudit,
                       CleanerTo, adminVars
  <2>2. TableOK(keys', ids')
    BY <1>0, <2>1, TableOps
  <2>3. HandlerInv'
    BY <1>0, <2>1, HandlersStay
  <2> QED BY <1>0, <2>1, <2>2, <2>3 DEF TypeInv, TableInv, ClockInv
<1>4. CASE Tick
  <2>1. /\ UNCHANGED <<keys, pc, job, ids, secrets, before>> /\ clock' = clock + 1
    BY <1>4, Zenon DEF Tick, adminVars
  <2>2. HandlerInv'
    BY <1>0, <2>1, HandlersStay
  <2> QED BY <1>0, <2>1, <2>2 DEF TypeInv, TableInv, ClockInv
<1>5. CASE \E S \in SUBSET Handlers : Crash(S)
  <2>1. /\ UNCHANGED <<clock, keys, ids, secrets, before>>
        /\ pc' = [h \in Handlers |-> "idle"] /\ job' = [h \in Handlers |-> NoJob]
    BY <1>5, Zenon DEF Crash
  <2> QED BY <1>0, <2>1, Zenon DEF TypeInv, TableInv, ClockInv, HandlerInv
<1>6. CASE (\E r \in Callers : AuthnStep(r)) \/ UNCHANGED vars
  <2>1. UNCHANGED <<clock, keys, ids, secrets, pc, job, before>>
    BY <1>6, Zenon DEF AuthnStep, Arrive, Lookup, LookupFails, Check, Leave, OnlyReq, adminVars, vars
  <2>2. HandlerInv'
    BY <1>0, <2>1, HandlersStay
  <2> QED BY <1>0, <2>1, <2>2, Zenon DEF TypeInv, TableInv, ClockInv
<1> QED BY <1>1, <1>2, <1>3, <1>4, <1>5, <1>6, Zenon DEF CLIStep

\* The table, the handlers and the clock readings are typed throughout: a job
\* carries what its statement needs, and purge times are past.
THEOREM KeyTypes == Spec => []TypeInv
<1>1. Init => TypeInv
  BY KeyAssumption DEF Init, TypeInv, TableInv, TableOK, HandlerInv, ClockInv
<1>2. TypeInv /\ [Next]_vars => TypeInv'
  BY AdminTypes, OtherTypes, Zenon DEF Next
<1> QED BY <1>1, <1>2, PTL DEF Spec

-----------------------------------------------------------------------------
(* Authentication.                                                         *)

\* What the record a request has read says, and what was due to the request:
\* the record may be stale, but if it passes the checks now, by a clock that
\* only goes forward, it passed them when it was read.
ReadInv ==
  /\ req \in [Callers -> {"idle", "lookup", "check", "ok", "deny", "error"}]
  /\ DOMAIN cred = Callers /\ DOMAIN snap = Callers
  /\ \A r \in Callers :
       /\ snap[r].expires \in Nat
       /\ req[r] = "check" /\ Authenticates(cred[r], snap[r], clock) => snap[r].roles \in good[r]

\* What nobody else changes of a proxied request.
LEMMA ReqFrame ==
  ASSUME TypeInv,
         \/ \E h \in Handlers : AdminStep(h)
         \/ CLIStep \/ CleanupStep \/ Tick
  PROVE  UNCHANGED <<req, cred, snap>> /\ clock' \in Nat /\ clock <= clock'
<1>1. UNCHANGED reqVars /\ (clock' = clock \/ clock' = clock + 1)
  <2>1. ASSUME NEW h \in Handlers, AdminStep(h) PROVE UNCHANGED reqVars /\ clock' = clock
    <3>1. (\E j : Begin(h, j)) \/ Statement(h)
      BY <2>1, AdminCases, Zenon DEF BeginStep
    <3> QED BY <3>1, Zenon DEF Begin, Statement, Change, ChangeFails, Audit, Reply, AuditFails, Compensate
  <2>2. CASE CLIStep
    BY <2>2, Zenon DEF CLIStep, runKeyCreate, runKeyDelete, runKeySetEnabled, Command
  <2>3. CASE CleanupStep
    BY <2>3, Zenon DEF CleanupStep, CleanupTick, CleanupDelete, CleanupFails, CleanupAudit, CleanerTo
  <2>4. CASE Tick
    BY <2>4, Zenon DEF Tick
  <2> QED BY <2>1, <2>2, <2>3, <2>4, Zenon
<1> QED BY <1>1 DEF reqVars, TypeInv, ClockInv

\* What was due to a request in service stays due to it.
LEMMA GoodGrows ==
  ASSUME Observe, NEW r \in Callers, req[r] # "idle"
  PROVE  good[r] \subseteq good'[r] /\ Due(r)' \subseteq good'[r]
BY Zenon DEF Observe

\* Every step keeps ReadInv and AuthnCoherent.
LEMMA ReadStep ==
  ASSUME TypeInv, ReadInv, AuthnCoherent, Next
  PROVE  ReadInv' /\ AuthnCoherent'
<1>0. Observe
  BY Zenon DEF Next
<1>1. CASE (\E h \in Handlers : AdminStep(h)) \/ CLIStep \/ CleanupStep \/ Tick
  <2>1. UNCHANGED <<req, cred, snap>> /\ clock' \in Nat /\ clock <= clock' /\ clock \in Nat
    BY <1>1, ReqFrame, Zenon DEF TypeInv, ClockInv
  <2>2. ASSUME NEW r \in Callers, Authenticates(cred[r], snap[r], clock')
        PROVE  Authenticates(cred[r], snap[r], clock)
    BY <2>1, <2>2 DEF Authenticates, ReadInv
  <2>3. \A r \in Callers : req[r] # "idle" => good[r] \subseteq good'[r]
    BY <1>0, GoodGrows, Zenon
  <2> QED BY <2>1, <2>2, <2>3, Zenon DEF ReadInv, AuthnCoherent
<1>2. CASE \E S \in SUBSET Handlers : Crash(S)
  <2>1. /\ req' = [r \in Callers |-> "idle"]
        /\ cred' = [r \in Callers |-> NoCred] /\ snap' = [r \in Callers |-> NoRecord]
    BY <1>2, Zenon DEF Crash
  <2> QED BY <2>1, Zenon DEF ReadInv, AuthnCoherent, NoRecord
<1>3. ASSUME NEW r \in Callers, AuthnStep(r) PROVE ReadInv' /\ AuthnCoherent'
  <2>0. UNCHANGED <<clock, keys>>
    BY <1>3, Zenon DEF AuthnStep, Arrive, Lookup, LookupFails, Check, Leave, OnlyReq
  <2>1. \A q \in Callers : req[q] # "idle" => good[q] \subseteq good'[q]
    BY <1>0, GoodGrows, Zenon
  <2>2. ASSUME NEW loc \in {"idle", "lookup", "check", "ok", "deny", "error"}, ReqTo(r, loc),
               DOMAIN cred' = Callers, DOMAIN snap' = Callers,
               \A q \in Callers \ {r} : cred'[q] = cred[q] /\ snap'[q] = snap[q],
               snap'[r].expires \in Nat,
               loc = "check" /\ Authenticates(cred'[r], snap'[r], clock) => snap'[r].roles \in good'[r],
               loc = "ok" => snap'[r].roles \in good'[r]
        PROVE  ReadInv' /\ AuthnCoherent'
    BY <2>0, <2>1, <2>2, Zenon DEF ReadInv, AuthnCoherent, ReqTo
  <2>3. CASE \E c \in Creds : Arrive(r, c)
    BY <2>2, <2>3, Zenon DEF Arrive, ReadInv
  <2>4. CASE Lookup(r)
    <3>1. CASE Present(keys, cred[r].id)
      <4>1. /\ ReqTo(r, "check") /\ cred' = cred /\ req[r] = "lookup"
            /\ snap' = [snap EXCEPT ![r] = keys[cred[r].id]]
        BY <2>4, <3>1, Zenon DEF Lookup
      <4>2. snap'[r] = keys[cred[r].id] /\ keys[cred[r].id] \in KeyRecords
        BY <3>1, <4>1, Zenon DEF ReadInv, TypeInv, TableInv, TableOK, Present
      <4>3. ASSUME Authenticates(cred'[r], snap'[r], clock) PROVE snap'[r].roles \in Due(r)'
        <5>1. Valid(cred[r])'
          BY <4>1, <4>2, <4>3, <3>1, <2>0 DEF Valid, Authenticates, verify, Present, KeyRecords,
                                          TypeInv, ClockInv
        <5>2. req'[r] # "idle"
          BY <4>1, Zenon DEF ReqTo, ReadInv
        <5> QED BY <5>1, <5>2, <4>1, <4>2, <2>0 DEF Due
      <4>4. Due(r)' \subseteq good'[r]
        BY <4>1, <1>0, GoodGrows, Zenon
      <4> QED BY <2>2, <4>1, <4>2, <4>3, <4>4, Zenon DEF ReadInv, KeyRecords
    <3>2. CASE ~Present(keys, cred[r].id)
      BY <2>2, <2>4, <3>2, Zenon DEF Lookup, ReadInv
    <3> QED BY <3>1, <3>2, Zenon
  <2>5. CASE LookupFails(r)
    BY <2>2, <2>5, Zenon DEF LookupFails, ReadInv
  <2>6. CASE Check(r)
    BY <2>1, <2>2, <2>6, Zenon DEF Check, ReadInv
  <2>7. CASE Leave(r)
    BY <2>2, <2>7, Zenon DEF Leave, ReadInv, NoRecord
  <2> QED BY <1>3, <2>3, <2>4, <2>5, <2>6, <2>7, Zenon DEF AuthnStep
<1> QED BY <1>1, <1>2, <1>3, Zenon DEF Next

\* A request is authenticated only on a record that was wholly true at one
\* moment of its service.
THEOREM AuthnIsCoherent == Spec => []AuthnCoherent
<1>1. Init => ReadInv /\ AuthnCoherent
  BY DEF Init, ReadInv, AuthnCoherent, NoRecord
<1>2. TypeInv /\ (ReadInv /\ AuthnCoherent) /\ [Next]_vars => (ReadInv /\ AuthnCoherent)'
  <2>1. ASSUME ReadInv, AuthnCoherent, UNCHANGED vars PROVE ReadInv' /\ AuthnCoherent'
    BY <2>1, Zenon DEF ReadInv, AuthnCoherent, vars, reqVars
  <2> QED BY <2>1, ReadStep, Zenon
<1> QED BY <1>1, <1>2, KeyTypes, PTL DEF Spec
-----------------------------------------------------------------------------
(* The purges.                                                             *)

\* Deleting the keys that expired before a past moment changes the worth of
\* no credentials.
LEMMA PurgeKeepsValid ==
  ASSUME TypeInv, NEW b \in Nat, b <= clock, clock' = clock,
         keys' = keys \/ keys' = DeleteExpired(keys, b)
  PROVE  \A c : Valid(c)' <=> Valid(c)
<1>1. CASE keys' = keys
  BY <1>1, Zenon DEF Valid
<1>2. CASE keys' = DeleteExpired(keys, b)
  <2> DEFINE kept == {id \in DOMAIN keys : keys[id].expires = 0 \/ keys[id].expires >= b}
  <2>1. DOMAIN keys' = kept /\ \A id \in kept : keys'[id] = keys[id]
    BY <1>2, Zenon DEF DeleteExpired, Restrict
  <2>2. \A id \in DOMAIN keys : keys[id].expires \in Nat
    BY Zenon DEF TypeInv, TableInv, TableOK, KeyRecords
  <2>3. \A id \in DOMAIN keys : keys[id].expires = 0 \/ keys[id].expires >= clock => id \in kept
    BY <2>2 DEF TypeInv, ClockInv
  <2> HIDE DEF kept
  <2>4. kept \subseteq DOMAIN keys
    BY Zenon DEF kept
  <2> QED BY <2>1, <2>3, <2>4 DEF Valid
<1> QED BY <1>1, <1>2, Zenon

\* A step that ends a purge leaves the table alone or deletes what expired.
LEMMA PurgeSteps ==
  ASSUME TypeInv, Next, PurgeStep
  PROVE  /\ clock' = clock
         /\ keys' = keys \/ \E b \in Nat : b <= clock /\ keys' = DeleteExpired(keys, b)
<1>1. ASSUME NEW h \in Handlers, AdminStep(h), PurgeStep
      PROVE  /\ clock' = clock
             /\ keys' = keys \/ \E b \in Nat : b <= clock /\ keys' = DeleteExpired(keys, b)
  <2>1. (\E j : Begin(h, j)) \/ Statement(h)
    BY <1>1, AdminCases, Zenon DEF BeginStep
  <2>2. clock' = clock /\ cleaner' = cleaner
    BY <2>1, Zenon DEF Begin, Statement, Change, ChangeFails, Audit, Reply, AuditFails, Compensate
  <2>3. \E loc : pc' = [pc EXCEPT ![h] = loc]
    BY <2>1, Zenon DEF Begin, Statement, Change, ChangeFails, Audit, Reply, AuditFails, Compensate, Goto, Finish
  <2>4. pc[h] = "change" /\ job[h].op = "purge"
    BY <1>1, <2>2, <2>3, Zenon DEF PurgeStep, TypeInv, HandlerInv
  <2>5. keys' = keys \/ keys' = Changed(job[h])
    BY <2>1, <2>4, Zenon DEF Begin, Statement, Change, ChangeFails, Audit, Reply, AuditFails, Compensate
  <2>6. job[h].val \in Nat /\ job[h].val <= clock
    BY <2>4, Zenon DEF TypeInv, HandlerInv, Typed
  <2>7. Changed(job[h]) = DeleteExpired(keys, job[h].val)
    BY <2>4, Zenon DEF Changed
  <2> QED BY <2>2, <2>5, <2>6, <2>7, Zenon
<1>2. CASE CLIStep \/ Tick \/ \E r \in Callers : AuthnStep(r)
  <2>1. UNCHANGED <<cleaner, pc>>
    <3>1. CASE CLIStep
      BY <3>1, Zenon DEF CLIStep, runKeyCreate, runKeyDelete, runKeySetEnabled, Command
    <3>2. CASE Tick
      BY <3>2, Zenon DEF Tick, adminVars
    <3>3. CASE \E r \in Callers : AuthnStep(r)
      BY <3>3, Zenon DEF AuthnStep, Arrive, Lookup, LookupFails, Check, Leave, OnlyReq, adminVars
    <3> QED BY <1>2, <3>1, <3>2, <3>3, Zenon
  <2> QED BY <2>1, Zenon DEF PurgeStep
<1>3. CASE CleanupStep
  <2>1. clock' = clock /\ (keys' = keys \/ keys' = DeleteExpired(keys, before))
    BY <1>3, Zenon DEF CleanupStep, CleanupTick, CleanupDelete, CleanupFails, CleanupAudit, CleanerTo
  <2> QED BY <2>1, Zenon DEF TypeInv, ClockInv
<1>4. CASE \E S \in SUBSET Handlers : Crash(S)
  BY <1>4, Zenon DEF Crash
<1> QED BY <1>1, <1>2, <1>3, <1>4, Zenon DEF Next

\* Purges, by the admin API and by the cleanup goroutine, are harmless.
THEOREM PurgesAreHarmless == Spec => PurgeHarmless
<1>1. TypeInv /\ [Next]_vars => [PurgeStep => \A c \in Creds : Valid(c)' <=> Valid(c)]_vars
  <2>1. ASSUME TypeInv, Next, PurgeStep PROVE \A c \in Creds : Valid(c)' <=> Valid(c)
    BY <2>1, PurgeSteps, PurgeKeepsValid, Zenon DEF TypeInv, ClockInv
  <2> QED BY <2>1, Zenon
<1> QED BY <1>1, KeyTypes, PTL DEF Spec, PurgeHarmless


-----------------------------------------------------------------------------
(* Counting.                                                               *)

\* A function takes at most as many values as it has arguments.
LEMMA ImageBound ==
  ASSUME NEW S, IsFiniteSet(S), NEW f, DOMAIN f = S
  PROVE  /\ IsFiniteSet({f[x] : x \in S})
         /\ Cardinality({f[x] : x \in S}) <= Cardinality(S)
<1> DEFINE T == {f[x] : x \in S}
           g == [x \in S |-> f[x]]
<1>1. g \in Surjection(S, T)
  BY Zenon DEF Surjection
<1> HIDE DEF T, g
<1>2. IsFiniteSet(T) /\ Cardinality(T) <= Cardinality(S)
  BY <1>1, FS_Surjection, Zenon
<1> QED BY <1>2, Zenon DEF T

\* A union has at most as many elements as its parts together.
LEMMA UnionBound ==
  ASSUME NEW S, NEW T, NEW U, IsFiniteSet(S), IsFiniteSet(T), U \subseteq S \cup T
  PROVE  IsFiniteSet(U) /\ Cardinality(U) <= Cardinality(S) + Cardinality(T)
<1>1. /\ IsFiniteSet(S \cup T) /\ IsFiniteSet(S \cap T)
      /\ Cardinality(S \cup T) = Cardinality(S) + Cardinality(T) - Cardinality(S \cap T)
  BY FS_Union, FS_Intersection, Zenon
<1>2. Cardinality(S) \in Nat /\ Cardinality(T) \in Nat /\ Cardinality(S \cap T) \in Nat
  BY <1>1, FS_CardinalityType, Zenon
<1>3. IsFiniteSet(U) /\ Cardinality(U) <= Cardinality(S \cup T)
  BY <1>1, FS_Subset, Zenon
<1>4. Cardinality(U) \in Nat
  BY <1>3, FS_CardinalityType, Zenon
<1> QED BY <1>1, <1>2, <1>3, <1>4

\* The busy handlers of a key are finitely many.
LEMMA BusyFinite ==
  ASSUME NEW id
  PROVE  IsFiniteSet(Busy(id)) /\ Cardinality(Busy(id)) \in Nat
<1>1. IsFiniteSet(Busy(id))
  BY KeyAssumption, FS_Subset, Zenon DEF Busy
<1> QED BY <1>1, FS_CardinalityType, Zenon

Auditing == {"audit", "compensate"}

\* A handler that starts to audit its change is busy with that key.
LEMMA BusyJoins ==
  ASSUME NEW h \in Handlers, pc[h] \notin Auditing, pc'[h] \in Auditing,
         \A g \in Handlers \ {h} : pc'[g] = pc[g] /\ job'[g].id = job[g].id, NEW id
  PROVE  Cardinality(Busy(id)') = Cardinality(Busy(id)) + (IF id = job'[h].id THEN 1 ELSE 0)
<1>1. Busy(id)' = IF id = job'[h].id THEN Busy(id) \cup {h} ELSE Busy(id)
  BY Zenon DEF Busy, Auditing
<1>2. h \notin Busy(id)
  BY Zenon DEF Busy, Auditing
<1>3. IsFiniteSet(Busy(id)) /\ Cardinality(Busy(id)) \in Nat
  BY BusyFinite, Zenon
<1>4. Cardinality(Busy(id) \cup {h}) = Cardinality(Busy(id)) + 1
  BY <1>2, <1>3, FS_AddElement, Zenon
<1> QED BY <1>1, <1>3, <1>4

\* A handler that is done with its change is no longer busy with that key.
LEMMA BusyLeaves ==
  ASSUME NEW h \in Handlers, pc[h] \in Auditing, pc'[h] \notin Auditing,
         \A g \in Handlers \ {h} : pc'[g] = pc[g] /\ job'[g].id = job[g].id, NEW id
  PROVE  Cardinality(Busy(id)') = Cardinality(Busy(id)) - (IF id = job[h].id THEN 1 ELSE 0)
<1>1. Busy(id)' = IF id = job[h].id THEN Busy(id) \ {h} ELSE Busy(id)
  BY Zenon DEF Busy, Auditing
<1>2. id = job[h].id => h \in Busy(id)
  BY Zenon DEF Busy, Auditing
<1>3. IsFiniteSet(Busy(id)) /\ Cardinality(Busy(id)) \in Nat
  BY BusyFinite, Zenon
<1>4. id = job[h].id => Cardinality(Busy(id) \ {h}) = Cardinality(Busy(id)) - 1
  BY <1>2, <1>3, FS_RemoveElement, Zenon
<1> QED BY <1>1, <1>3, <1>4

\* Other steps leave it as it is.
LEMMA BusyStays ==
  ASSUME \A g \in Handlers : pc'[g] \in Auditing <=> pc[g] \in Auditing,
         \A g \in Handlers : pc[g] \in Auditing => job'[g].id = job[g].id, NEW id
  PROVE  Cardinality(Busy(id)') = Cardinality(Busy(id))
<1>1. Busy(id)' = Busy(id)
  BY Zenon DEF Busy, Auditing
<1> QED BY <1>1, Zenon

-----------------------------------------------------------------------------
(* InconsistencyCounted.                                                   *)

CountInv ==
  /\ rows \in [0..MaxIds -> Nat] /\ flagged \in [0..MaxIds -> Nat]
  /\ applied \in [0..MaxIds -> Int] /\ crashes \in Nat

\* The steps that are neither a handler's nor a crash touch no account.
LEMMA OtherCounts ==
  ASSUME CLIStep \/ CleanupStep \/ Tick \/ \E r \in Callers : AuthnStep(r)
  PROVE  UNCHANGED <<pc, job, rows, flagged, applied, crashes>>
<1>1. CASE CLIStep
  BY <1>1, Zenon DEF CLIStep, runKeyCreate, runKeyDelete, runKeySetEnabled, Command
<1>2. CASE CleanupStep
  BY <1>2, Zenon DEF CleanupStep, CleanupTick, CleanupDelete, CleanupFails, CleanupAudit,
                     CleanerTo, adminVars
<1>3. CASE Tick
  BY <1>3, Zenon DEF Tick, adminVars
<1>4. CASE \E r \in Callers : AuthnStep(r)
  BY <1>4, Zenon DEF AuthnStep, Arrive, Lookup, LookupFails, Check, Leave, OnlyReq, adminVars
<1> QED BY <1>1, <1>2, <1>3, <1>4, Zenon

\* Bookkeeping stays within the integers, and only a crash is counted as one.
LEMMA CountTypes ==
  ASSUME TypeInv, CountInv, Next
  PROVE  CountInv'
<1>1. ASSUME NEW h \in Handlers, AdminStep(h) PROVE CountInv'
  <2>1. (\E j : Begin(h, j)) \/ Statement(h)
    BY <1>1, AdminCases, Zenon DEF BeginStep
  <2>2. /\ crashes' = crashes
        /\ rows' = rows \/ rows' = [rows EXCEPT ![job[h].id] = @ + 1]
        /\ flagged' = flagged \/ flagged' = [flagged EXCEPT ![job[h].id] = @ + 1]
        /\ \/ applied' = applied \/ applied' = [applied EXCEPT ![job[h].id] = @ + 1]
           \/ applied' = [applied EXCEPT ![job[h].id] = @ - 1]
    BY <2>1, Zenon DEF Begin, Statement, Change, ChangeFails, Audit, Reply, AuditFails, Compensate
  <2>3. CountInv
    OBVIOUS
  <2>4. rows' \in [0..MaxIds -> Nat]
    BY ONLY <2>2, <2>3 DEF CountInv
  <2>5. flagged' \in [0..MaxIds -> Nat]
    BY ONLY <2>2, <2>3 DEF CountInv
  <2>6. applied' \in [0..MaxIds -> Int]
    BY ONLY <2>2, <2>3 DEF CountInv
  <2> QED BY <2>2, <2>3, <2>4, <2>5, <2>6, Zenon DEF CountInv
<1>2. CASE \/ CLIStep \/ CleanupStep \/ Tick \/ \E r \in Callers : AuthnStep(r)
  <2>1. UNCHANGED <<rows, flagged, applied, crashes>>
    BY <1>2, OtherCounts, Zenon
  <2> QED BY <2>1, Zenon DEF CountInv
<1>3. ASSUME NEW S \in SUBSET Handlers, Crash(S) PROVE CountInv'
  <2> DEFINE n(id) == Cardinality({h \in S : job[h].id = id})
  <2>1. \A id : n(id) \in Nat
    BY KeyAssumption, FS_Subset, FS_CardinalityType, Zenon
  <2>2. /\ crashes' = crashes + 1 /\ UNCHANGED <<flagged, applied>>
        /\ rows' = [id \in DOMAIN rows |-> rows[id] + n(id)]
    BY <1>3, Zenon DEF Crash
  <2> HIDE DEF n
  <2> QED BY <2>1, <2>2 DEF CountInv
<1> QED BY <1>1, <1>2, <1>3, Zenon DEF Next
\* Each step of a handler moves a change from one account to another.
LEMMA AdminCounts ==
  ASSUME ~MayLoseReply, TypeInv, CountInv, NEW h \in Handlers, AdminStep(h), NEW id \in Ids
  PROVE  Unaccounted(id)' = Unaccounted(id)
<1> DEFINE k == job[h].id
           a == applied[id]
           w == rows[id]
           f == flagged[id]
           c == Cardinality(Busy(id))
<1>0. /\ pc \in [Handlers -> {"idle", "change", "audit", "compensate", "reply"}] /\ DOMAIN job = Handlers
      /\ pc[h] # "idle" => Typed(job[h], clock, ids)
      /\ pc[h] = "compensate" => job[h].op = "create"
  BY Zenon DEF TypeInv, HandlerInv
<1>1. a \in Int /\ w \in Nat /\ f \in Nat /\ c \in Nat /\ id \in 0..MaxIds
  BY BusyFinite, KeyAssumption DEF CountInv, Ids
<1>2. Unaccounted(id) = a - w - f - c
  BY Zenon DEF Unaccounted
<1>3. ASSUME NEW a1, NEW w1, NEW f1, NEW c1,
             applied'[id] = a1, rows'[id] = w1, flagged'[id] = f1, Cardinality(Busy(id)') = c1
      PROVE  Unaccounted(id)' = a1 - w1 - f1 - c1
  BY <1>3, Zenon DEF Unaccounted
<1>4. ASSUME NEW loc, Goto(h, loc)
      PROVE  /\ pc'[h] = loc /\ job'[h].id = k
             /\ \A g \in Handlers \ {h} : pc'[g] = pc[g] /\ job'[g].id = job[g].id
  BY <1>0, <1>4, Zenon DEF Goto
<1>5. ASSUME Finish(h)
      PROVE  /\ pc'[h] = "idle"
             /\ \A g \in Handlers \ {h} : pc'[g] = pc[g] /\ job'[g].id = job[g].id
  BY <1>0, <1>5, Zenon DEF Finish
<1>6. CASE \E j : Begin(h, j)
  <2>1. PICK j : Begin(h, j)
    BY <1>6, Zenon
  <2>2. /\ UNCHANGED <<applied, rows, flagged>> /\ pc[h] = "idle"
        /\ pc' = [pc EXCEPT ![h] = "change"] /\ job' = [job EXCEPT ![h] = j]
    BY <2>1, Zenon DEF Begin
  <2>3. Cardinality(Busy(id)') = c
    BY <1>0, <2>2, BusyStays, Zenon DEF Auditing
  <2> QED BY <1>2, <1>3, <2>2, <2>3
<1>7. CASE Change(h)
  <2>1. /\ UNCHANGED <<rows, flagged>> /\ pc[h] = "change" /\ Goto(h, "audit")
        /\ applied' = [applied EXCEPT ![k] = @ + 1]
    BY <1>7, Zenon DEF Change
  <2>2. Cardinality(Busy(id)') = c + (IF id = k THEN 1 ELSE 0)
    BY <1>4, <2>1, BusyJoins DEF Auditing
  <2>3. applied'[id] = a + (IF id = k THEN 1 ELSE 0)
    BY <1>1, <2>1 DEF CountInv
  <2>4. Unaccounted(id)' = (a + (IF id = k THEN 1 ELSE 0)) - w - f - (c + (IF id = k THEN 1 ELSE 0))
    BY <1>3, <2>1, <2>2, <2>3
  <2> HIDE DEF k, a, w, f, c
  <2> QED BY <1>1, <1>2, <2>4
<1>8. CASE ChangeFails(h)
  <2>1. UNCHANGED <<applied, rows, flagged>> /\ pc[h] = "change" /\ Finish(h)
    BY <1>8, Zenon DEF ChangeFails
  <2>2. Cardinality(Busy(id)') = c
    BY <1>5, <2>1, BusyStays, Zenon DEF Auditing
  <2> QED BY <1>2, <1>3, <2>1, <2>2
<1>9. CASE Audit(h)
  <2>1. /\ UNCHANGED <<applied, flagged>> /\ pc[h] = "audit" /\ (Finish(h) \/ Goto(h, "reply"))
        /\ rows' = [rows EXCEPT ![k] = @ + 1]
    BY <1>9, Zenon DEF Audit
  <2>a. /\ pc'[h] \in {"idle", "reply"}
        /\ \A g \in Handlers \ {h} : pc'[g] = pc[g] /\ job'[g].id = job[g].id
    BY <1>4, <1>5, <2>1, Zenon
  <2>2. Cardinality(Busy(id)') = c - (IF id = k THEN 1 ELSE 0)
    BY <2>1, <2>a, BusyLeaves, Zenon DEF Auditing
  <2>3. rows'[id] = w + (IF id = k THEN 1 ELSE 0)
    BY <1>1, <2>1 DEF CountInv
  <2>4. Unaccounted(id)' = a - (w + (IF id = k THEN 1 ELSE 0)) - f - (c - (IF id = k THEN 1 ELSE 0))
    BY <1>3, <2>1, <2>2, <2>3
  <2> HIDE DEF k, a, w, f, c
  <2> QED BY <1>1, <1>2, <2>4
<1>10. CASE AuditFails(h)
  <2>1. CASE job[h].op = "create"
    <3>1. UNCHANGED <<applied, rows, flagged>> /\ pc[h] = "audit" /\ Goto(h, "compensate")
      BY <1>10, <2>1, Zenon DEF AuditFails
    <3>2. Cardinality(Busy(id)') = c
      BY <1>4, <3>1, BusyStays, Zenon DEF Auditing
    <3> QED BY <1>2, <1>3, <3>1, <3>2
  <2>2. CASE job[h].op # "create"
    <3>1. UNCHANGED <<applied, rows>> /\ pc[h] = "audit" /\ Finish(h)
      BY <1>10, <2>2, Zenon DEF AuditFails
    <3>2. Cardinality(Busy(id)') = c - (IF id = k THEN 1 ELSE 0)
      BY <1>5, <3>1, BusyLeaves, Zenon DEF Auditing
    <3>3. job[h].op = "purge" => k = 0
      BY <1>0, <3>1, Zenon DEF Typed
    <3>4. id # 0
      BY KeyAssumption DEF Ids
    <3>5. flagged'[id] = f + (IF id = k THEN 1 ELSE 0)
      <4>1. flagged' = IF job[h].op = "purge" THEN flagged ELSE [flagged EXCEPT ![k] = @ + 1]
        BY <1>10, <2>2, Zenon DEF AuditFails
      <4>2. flagged \in [0..MaxIds -> Nat] /\ id \in 0..MaxIds
        BY <1>1, Zenon DEF CountInv
      <4>3. flagged'[id] = IF id = k THEN f + 1 ELSE f
        <5>1. CASE job[h].op = "purge"
          BY <3>3, <3>4, <4>1, <5>1, Zenon
        <5>2. CASE job[h].op # "purge"
          BY <4>1, <4>2, <5>2, Zenon
        <5> QED BY <5>1, <5>2, Zenon
      <4> HIDE DEF k, f
      <4> QED BY <1>1, <4>3
    <3>6. Unaccounted(id)' = a - w - (f + (IF id = k THEN 1 ELSE 0)) - (c - (IF id = k THEN 1 ELSE 0))
      BY <1>3, <3>1, <3>2, <3>5
    <3> HIDE DEF k, a, w, f, c
    <3> QED BY <1>1, <1>2, <3>6
  <2> QED BY <2>1, <2>2, Zenon
<1>11. CASE Compensate(h)
  <2>1. /\ UNCHANGED rows /\ pc[h] = "compensate" /\ Finish(h)
        /\ \/ applied' = [applied EXCEPT ![k] = @ - 1] /\ UNCHANGED flagged
           \/ flagged' = [flagged EXCEPT ![k] = @ + 1] /\ UNCHANGED applied
    BY <1>11, Zenon DEF Compensate
  <2>2. Cardinality(Busy(id)') = c - (IF id = k THEN 1 ELSE 0)
    BY <1>5, <2>1, BusyLeaves, Zenon DEF Auditing
  <2>3. \/ applied'[id] = a - (IF id = k THEN 1 ELSE 0) /\ flagged'[id] = f
        \/ flagged'[id] = f + (IF id = k THEN 1 ELSE 0) /\ applied'[id] = a
    <3>1. ASSUME applied' = [applied EXCEPT ![k] = @ - 1]
          PROVE  applied'[id] = a - (IF id = k THEN 1 ELSE 0)
      BY <1>1, <3>1 DEF CountInv
    <3>2. ASSUME flagged' = [flagged EXCEPT ![k] = @ + 1]
          PROVE  flagged'[id] = f + (IF id = k THEN 1 ELSE 0)
      BY <1>1, <3>2 DEF CountInv
    <3> HIDE DEF k
    <3> QED BY <2>1, <3>1, <3>2, Zenon
  <2>4. \/ Unaccounted(id)' = (a - (IF id = k THEN 1 ELSE 0)) - w - f - (c - (IF id = k THEN 1 ELSE 0))
        \/ Unaccounted(id)' = a - w - (f + (IF id = k THEN 1 ELSE 0)) - (c - (IF id = k THEN 1 ELSE 0))
    <3>1. rows'[id] = w
      BY <2>1, Zenon
    <3> HIDE DEF k, a, w, f, c
    <3> QED BY <1>3, <2>2, <2>3, <3>1
  <2> HIDE DEF k, a, w, f, c
  <2> QED BY <1>1, <1>2, <2>4
<1>12. CASE Reply(h)
  <2>1. UNCHANGED <<applied, rows, flagged>> /\ pc[h] = "reply" /\ Finish(h)
    BY <1>12, Zenon DEF Reply
  <2>2. Cardinality(Busy(id)') = c
    BY <1>5, <2>1, BusyStays, Zenon DEF Auditing
  <2> QED BY <1>2, <1>3, <2>1, <2>2
<1>13. (\E j : Begin(h, j)) \/ Statement(h)
  BY AdminCases, Zenon DEF BeginStep
<1> QED BY <1>6, <1>7, <1>8, <1>9, <1>10, <1>11, <1>12, <1>13, Zenon DEF Statement
\* A crash loses at most the changes the handlers were about to audit.
LEMMA CrashCounts ==
  ASSUME TypeInv, CountInv, NEW S \in SUBSET Handlers, Crash(S), NEW id \in Ids
  PROVE  /\ Unaccounted(id) \in Int /\ Unaccounted(id)' \in Int
         /\ Unaccounted(id) <= Unaccounted(id)'
         /\ Unaccounted(id)' <= Unaccounted(id) + Cardinality(Busy(id))
<1> DEFINE a == applied[id]
           w == rows[id]
           f == flagged[id]
           c == Cardinality(Busy(id))
           T == {h \in S : job[h].id = id}
           n == Cardinality(T)
<1>1. a \in Int /\ w \in Nat /\ f \in Nat /\ c \in Nat /\ id \in DOMAIN rows
  BY BusyFinite, KeyAssumption DEF CountInv, Ids
<1>2. Unaccounted(id) = a - w - f - c
  BY Zenon DEF Unaccounted
<1>3. T \subseteq Busy(id)
  BY Zenon DEF Crash, Busy
<1>4. n \in Nat /\ n <= c
  <2> HIDE DEF T
  <2> QED BY <1>3, BusyFinite, FS_Subset, FS_CardinalityType, Zenon
<1>5. /\ UNCHANGED <<flagged, applied>> /\ pc' = [h \in Handlers |-> "idle"]
      /\ rows' = [i \in DOMAIN rows |-> rows[i] + Cardinality({h \in S : job[h].id = i})]
  BY Zenon DEF Crash
<1>6. rows'[id] = w + n
  BY <1>1, <1>5, Zenon
<1>7. Cardinality(Busy(id)') = 0
  <2>1. Busy(id)' = {}
    BY <1>5, Zenon DEF Busy
  <2> QED BY <2>1, FS_EmptySet, Zenon
<1>8. Unaccounted(id)' = a - (w + n) - f - 0
  BY <1>5, <1>6, <1>7, Zenon DEF Unaccounted
<1> HIDE DEF a, w, f, c, n
<1> QED
  <2>1. Cardinality(Busy(id)) = c
    BY Zenon DEF c
  <2> QED BY <1>1, <1>2, <1>4, <1>8, <2>1

\* ... and these are no more than there are handlers.
LEMMA CrashLoses ==
  ASSUME TypeInv, CountInv, NEW S \in SUBSET Handlers, Crash(S), IsFiniteSet(Lost)
  PROVE  /\ IsFiniteSet(Lost')
         /\ Cardinality(Lost') <= Cardinality(Lost) + Cardinality(Handlers)
<1> DEFINE order == [id \in Ids |-> CHOOSE f \in Bijection(1..Cardinality(Busy(id)), Busy(id)) : TRUE]
           place == [h \in Handlers |->
                       <<job[h].id,
                         Unaccounted(job[h].id)
                           + CHOOSE i \in 1..Cardinality(Busy(job[h].id)) : order[job[h].id][i] = h>>]
           New == {place[h] : h \in Handlers}
<1>1. \A id \in Ids : order[id] \in Bijection(1..Cardinality(Busy(id)), Busy(id))
  <2>1. \A id \in Ids : Bijection(1..Cardinality(Busy(id)), Busy(id)) # {}
    BY BusyFinite, FS_CardinalityType, Zenon DEF ExistsBijection
  <2> QED BY <2>1, Zenon
<1>2. IsFiniteSet(New) /\ Cardinality(New) <= Cardinality(Handlers)
  <2>1. DOMAIN place = Handlers
    BY Zenon
  <2> HIDE DEF place
  <2> QED BY <2>1, KeyAssumption, ImageBound, Zenon
<1>3. ASSUME NEW id \in Ids, NEW m \in 1..Unaccounted(id)', <<id, m>> \notin Lost
      PROVE  <<id, m>> \in New
  <2>1. /\ Unaccounted(id) \in Int /\ Unaccounted(id)' \in Int
        /\ Unaccounted(id)' <= Unaccounted(id) + Cardinality(Busy(id))
        /\ Cardinality(Busy(id)) \in Nat
    BY CrashCounts, BusyFinite, Zenon
  <2>2. ~(m \in 1..Unaccounted(id))
    BY <1>3 DEF Lost
  <2>3. PICK i \in 1..Cardinality(Busy(id)) : m = Unaccounted(id) + i
    <3> DEFINE i == m - Unaccounted(id)
    <3>1. i \in 1..Cardinality(Busy(id)) /\ m = Unaccounted(id) + i
      BY <2>1, <2>2
    <3> QED BY <3>1, Zenon
  <2> DEFINE h == order[id][i]
  <2> HIDE DEF order
  <2>4. /\ h \in Busy(id)
        /\ \A j \in 1..Cardinality(Busy(id)) : order[id][j] = h => j = i
    BY <1>1, Zenon DEF Bijection, Injection, IsInjective
  <2>5. h \in Handlers /\ job[h].id = id
    BY <2>4, Zenon DEF Busy
  <2>6. (CHOOSE j \in 1..Cardinality(Busy(id)) : order[id][j] = h) = i
    <3> HIDE DEF h
    <3>1. order[id][i] = h
      BY Zenon DEF h
    <3> QED BY <2>4, <3>1, Zenon
  <2>7. place[h] = <<id, m>>
    <3> HIDE DEF h
    <3> QED BY <2>3, <2>5, <2>6, Zenon
  <2> QED BY <2>5, <2>7, Zenon
<1>4. Lost' \subseteq Lost \cup New
  <2> SUFFICES ASSUME NEW p \in Lost', p \notin Lost PROVE p \in New
    BY Zenon
  <2>1. \E id \in Ids : p \in {id} \X (1..Unaccounted(id)')
    BY Zenon DEF Lost
  <2>2. PICK id \in Ids : p \in {id} \X (1..Unaccounted(id)')
    BY <2>1, Zenon
  <2>3. \E m \in 1..Unaccounted(id)' : p = <<id, m>>
    BY <2>2
  <2> HIDE DEF New
  <2> QED BY <2>3, <1>3, Zenon
<1>5. /\ IsFiniteSet(Lost') /\ Cardinality(Lost') <= Cardinality(Lost) + Cardinality(New)
  <2> HIDE DEF New
  <2> QED BY <1>2, <1>4, UnionBound, Zenon
<1>6. /\ Cardinality(Lost) \in Nat /\ Cardinality(New) \in Nat /\ Cardinality(Lost') \in Nat
      /\ Cardinality(Handlers) \in Nat
  <2> HIDE DEF New
  <2> QED BY <1>2, <1>5, KeyAssumption, FS_CardinalityType, Zenon
<1> HIDE DEF New
<1> QED BY <1>2, <1>5, <1>6
\* Every step keeps the accounts balanced.
LEMMA CountStep ==
  ASSUME ~MayLoseReply, TypeInv, CountInv, IsFiniteSet(Lost), InconsistencyCounted, Next
  PROVE  IsFiniteSet(Lost') /\ InconsistencyCounted'
<1>1. ASSUME \A id \in Ids : Unaccounted(id)' = Unaccounted(id), crashes' = crashes
      PROVE  IsFiniteSet(Lost') /\ InconsistencyCounted'
  <2>1. Lost' = Lost
    BY <1>1, Zenon DEF Lost
  <2> QED BY <1>1, <2>1, Zenon DEF InconsistencyCounted, CutByCrashes
<1>2. ASSUME NEW h \in Handlers, AdminStep(h)
      PROVE  IsFiniteSet(Lost') /\ InconsistencyCounted'
  <2>1. (\E j : Begin(h, j)) \/ Statement(h)
    BY <1>2, AdminCases, Zenon DEF BeginStep
  <2>2. crashes' = crashes
    BY <2>1, Zenon DEF Begin, Statement, Change, ChangeFails, Audit, Reply, AuditFails, Compensate
  <2> QED BY <1>1, <1>2, <2>2, AdminCounts, Zenon
<1>3. CASE CLIStep \/ CleanupStep \/ Tick \/ \E r \in Callers : AuthnStep(r)
  <2>1. UNCHANGED <<pc, job, rows, flagged, applied, crashes>>
    BY <1>3, OtherCounts, Zenon
  <2>2. \A id \in Ids : Unaccounted(id)' = Unaccounted(id)
    BY <2>1, Zenon DEF Unaccounted, Busy
  <2> QED BY <1>1, <2>1, <2>2, Zenon
<1>4. ASSUME NEW S \in SUBSET Handlers, Crash(S)
      PROVE  IsFiniteSet(Lost') /\ InconsistencyCounted'
  <2>1. \A id \in Ids : Unaccounted(id)' >= 0
    BY <1>4, CrashCounts DEF InconsistencyCounted
  <2>2. IsFiniteSet(Lost') /\ Cardinality(Lost') <= Cardinality(Lost) + Cardinality(Handlers)
    BY <1>4, CrashLoses, Zenon
  <2>3. /\ Cardinality(Lost) \in Nat /\ Cardinality(Lost') \in Nat /\ Cardinality(Handlers) \in Nat
    BY <2>2, KeyAssumption, FS_CardinalityType, Zenon
  <2>4. crashes \in Nat /\ crashes' = crashes + 1
    BY <1>4, Zenon DEF Crash, CountInv
  <2>5. CutByCrashes' = CutByCrashes + Cardinality(Handlers) /\ CutByCrashes \in Nat
    BY <2>3, <2>4 DEF CutByCrashes
  <2>6. Cardinality(Lost) <= CutByCrashes
    BY Zenon DEF InconsistencyCounted
  <2>7. Cardinality(Lost') <= CutByCrashes'
    BY <2>2, <2>3, <2>5, <2>6
  <2> QED BY <2>1, <2>2, <2>7, Zenon DEF InconsistencyCounted
<1> QED BY <1>2, <1>3, <1>4, Zenon DEF Next

\* No change of a key goes unaccounted for, but for what crashes cut off: the
\* audit rows, audit_inconsistency_total and the compensation of createKey
\* cover every path through the handlers.
THEOREM ChangesAccounted ==
  ASSUME ~MayLoseReply
  PROVE  Spec => []InconsistencyCounted
<1> DEFINE Inv == CountInv /\ IsFiniteSet(Lost) /\ InconsistencyCounted
<1>1. Init => Inv
  <2> SUFFICES ASSUME Init PROVE Inv
    BY Zenon
  <2>1. CountInv
    BY DEF Init, CountInv
  <2>2. \A id \in Ids : Unaccounted(id) = 0
    <3>1. \A id \in Ids : Busy(id) = {}
      BY Zenon DEF Init, Busy
    <3>2. \A id \in Ids : Cardinality(Busy(id)) = 0
      BY <3>1, FS_EmptySet, Zenon
    <3>3. \A id \in Ids : applied[id] = 0 /\ rows[id] = 0 /\ flagged[id] = 0
      BY KeyAssumption DEF Init, Ids
    <3> QED BY <3>2, <3>3 DEF Unaccounted
  <2>3. Lost = {}
    BY <2>2 DEF Lost
  <2>4. CutByCrashes = 0
    BY KeyAssumption, FS_CardinalityType DEF CutByCrashes, Init
  <2> QED BY <2>1, <2>2, <2>3, <2>4, FS_EmptySet DEF InconsistencyCounted
<1>2. TypeInv /\ Inv /\ [Next]_vars => Inv'
  <2>1. ASSUME CountInv, IsFiniteSet(Lost), InconsistencyCounted, UNCHANGED vars
        PROVE  CountInv' /\ IsFiniteSet(Lost') /\ InconsistencyCounted'
    <3>1. UNCHANGED <<pc, job, rows, flagged, applied, crashes>>
      BY <2>1, Zenon DEF vars, adminVars
    <3>2. \A id : Unaccounted(id)' = Unaccounted(id)
      BY ONLY <3>1, Zenon DEF Unaccounted, Busy
    <3>3. Lost' = Lost /\ CutByCrashes' = CutByCrashes
      BY ONLY <3>1, <3>2, Zenon DEF Lost, CutByCrashes
    <3> QED BY <2>1, <3>1, <3>2, <3>3, Zenon DEF CountInv, InconsistencyCounted
  <2> QED BY <2>1, CountTypes, CountStep, Zenon
<1>3. Inv => InconsistencyCounted
  BY Zenon
<1> QED BY <1>1, <1>2, <1>3, KeyTypes, PTL DEF Spec

-----------------------------------------------------------------------------
(* NoSilentLockout.                                                        *)

\* The secrets that were shown, whether they arrived or not.
Answered == handed \cup unread

Pending == {"audit", "compensate", "reply"}

\* Handler h made the secret key id has, and is still to send it or to report
\* that it cannot.
Owns(h, id) ==
  /\ pc[h] \in Pending /\ job[h].op \in {"create", "rotate"}
  /\ job[h].id = id /\ job[h].secret = keys[id].secret

Safe(id) ==
  \/ <<id, keys[id].secret>> \in Answered
  \/ flagged[id] # 0
  \/ \E h \in Handlers : Owns(h, id)

Orphans == {id \in DOMAIN keys : ~Safe(id)}

\* A key that is being created has an id of its own, not yet in the table.
FreshInv ==
  \A h \in Handlers : pc[h] = "change" /\ job[h].op = "create" =>
    /\ job[h].id \notin DOMAIN keys
    /\ \A g \in Handlers \ {h} :
         pc[g] = "change" /\ job[g].op = "create" => job[g].id # job[h].id

LockInv == FreshInv /\ Cardinality(Orphans) <= CutByCrashes

\* A statement other than create and rotate leaves every secret as it is.
LEMMA SecretsStay ==
  ASSUME NEW j, j.op \in AdminOps \ {"create", "rotate"}
  PROVE  /\ DOMAIN Changed(j) \subseteq DOMAIN keys
         /\ \A id \in DOMAIN Changed(j) : Changed(j)[id].secret = keys[id].secret
<1> USE DEF AdminOps
<1>1. CASE j.op = "delete"
  BY <1>1, Zenon DEF Changed, Delete, Restrict
<1>2. CASE j.op \in {"enable", "disable"}
  BY <1>2 DEF Changed, SetEnabled
<1>3. CASE j.op = "expiry"
  BY <1>3 DEF Changed, SetExpiresAt
<1>4. CASE j.op = "roles"
  BY <1>4 DEF Changed, SetRoles
<1>5. CASE j.op = "cidrs"
  BY <1>5 DEF Changed, SetAllowedCIDRs
<1>6. CASE j.op = "purge"
  BY <1>6, Zenon DEF Changed, DeleteExpired, Restrict
<1> QED BY <1>1, <1>2, <1>3, <1>4, <1>5, <1>6, Zenon
\* The orphans are among the ids issued.
LEMMA OrphansFinite ==
  ASSUME TypeInv
  PROVE  IsFiniteSet(Orphans) /\ Cardinality(Orphans) \in Nat
<1>1. IsFiniteSet(1..ids) /\ Orphans \subseteq 1..ids
  BY FS_Interval, KeyAssumption DEF TypeInv, TableInv, TableOK, Orphans
<1>2. IsFiniteSet(Orphans)
  BY <1>1, FS_Subset, Zenon
<1> QED BY <1>2, FS_CardinalityType, Zenon

\* A step that keeps each key safe, and adds safe ones only, adds no orphan.
LEMMA NoNewOrphan ==
  ASSUME TypeInv, Cardinality(Orphans) <= CutByCrashes, crashes \in Nat, crashes' = crashes,
         \A id \in DOMAIN keys' : (id \in DOMAIN keys => Safe(id)) => Safe(id)'
  PROVE  Cardinality(Orphans') <= CutByCrashes'
<1>1. Orphans' \subseteq Orphans
  <2>1. \A id \in Orphans' : id \in DOMAIN keys' /\ ~Safe(id)'
    BY Zenon DEF Orphans
  <2>2. \A id \in Orphans' : id \in DOMAIN keys /\ ~Safe(id)
    BY <2>1, Zenon
  <2> QED BY <2>2, Zenon DEF Orphans
<1>2. IsFiniteSet(Orphans) /\ Cardinality(Orphans) \in Nat
  BY OrphansFinite, Zenon
<1>3. IsFiniteSet(Orphans') /\ Cardinality(Orphans') <= Cardinality(Orphans)
  BY <1>1, <1>2, FS_Subset, Zenon
<1>4. Cardinality(Orphans') \in Nat /\ Cardinality(Handlers) \in Nat
  BY <1>3, KeyAssumption, FS_CardinalityType, Zenon
<1>5. CutByCrashes' = CutByCrashes
  BY Zenon DEF CutByCrashes
<1>6. CutByCrashes \in Nat
  BY <1>4 DEF CutByCrashes
<1> QED BY <1>2, <1>3, <1>4, <1>5, <1>6

\* A key whose secret stays is safe as long as its owner, if it needs one,
\* does not just walk away.
LEMMA SafeStays ==
  ASSUME NEW id, Safe(id), keys'[id].secret = keys[id].secret, Answered \subseteq Answered',
         flagged[id] # 0 => flagged'[id] # 0,
         \A h \in Handlers : Owns(h, id) =>
           \/ pc'[h] \in Pending /\ job'[h] = job[h]
           \/ <<id, job[h].secret>> \in Answered'
           \/ flagged'[id] # 0
  PROVE  Safe(id)'
<1>1. CASE <<id, keys[id].secret>> \in Answered
  BY <1>1, Zenon DEF Safe
<1>2. CASE flagged[id] # 0
  BY <1>2, Zenon DEF Safe
<1>3. ASSUME NEW h \in Handlers, Owns(h, id) PROVE Safe(id)'
  <2>1. job[h].secret = keys'[id].secret /\ job[h].id = id /\ job[h].op \in {"create", "rotate"}
    BY <1>3, Zenon DEF Owns
  <2>2. CASE pc'[h] \in Pending /\ job'[h] = job[h]
    <3>1. Owns(h, id)'
      BY <2>1, <2>2, Zenon DEF Owns
    <3> QED BY <3>1, Zenon DEF Safe
  <2>3. CASE <<id, job[h].secret>> \in Answered'
    BY <2>1, <2>3, Zenon DEF Safe
  <2>4. CASE flagged'[id] # 0
    BY <2>4, Zenon DEF Safe
  <2> QED BY <1>3, <2>2, <2>3, <2>4, Zenon
<1> QED BY <1>1, <1>2, <1>3, Zenon DEF Safe

\* Where no key is added and no creation begins, the ids stay fresh.
LEMMA FreshStays ==
  ASSUME FreshInv, DOMAIN keys' \subseteq DOMAIN keys,
         \A h \in Handlers : pc'[h] = "change" /\ job'[h].op = "create" =>
           pc[h] = "change" /\ job'[h] = job[h]
  PROVE  FreshInv'
BY DEF FreshInv
-----------------------------------------------------------------------------
(* The steps.                                                              *)

\* A handler takes on a job: a new key's id is past all that were issued.
LEMMA BeginLock ==
  ASSUME TypeInv, CountInv, LockInv, NEW h \in Handlers, NEW j, BeginStep(h, j)
  PROVE  LockInv'
<1>1. /\ pc[h] = "idle" /\ pc' = [pc EXCEPT ![h] = "change"] /\ job' = [job EXCEPT ![h] = j]
      /\ UNCHANGED <<crashes, keys, flagged, handed, unread>>
  BY Zenon DEF BeginStep, Begin
<1>2. /\ pc'[h] = "change" /\ job'[h] = j
      /\ \A g \in Handlers \ {h} : pc'[g] = pc[g] /\ job'[g] = job[g]
  BY <1>1, Zenon DEF TypeInv, HandlerInv
<1>3. FreshInv'
  <2>1. ids \in Nat /\ DOMAIN keys \subseteq 1..ids
    BY IssuedIds, Zenon
  <2>2. \A g \in Handlers : pc[g] = "change" /\ job[g].op = "create" => job[g].id \in 1..ids
    BY <2>1, KeyAssumption DEF TypeInv, HandlerInv, Typed, Ids
  <2>3. j.op = "create" => j.id = ids + 1
    BY Zenon DEF BeginStep
  <2>4. j.op = "create" => j.id \notin 1..ids
    BY <2>1, <2>3
  <2> QED BY <1>1, <1>2, <2>1, <2>2, <2>4 DEF FreshInv, LockInv
<1>4. ASSUME NEW id, Safe(id) PROVE Safe(id)'
  <2>1. \A g \in Handlers : Owns(g, id) => pc'[g] \in Pending /\ job'[g] = job[g]
    BY <1>1, <1>2, Zenon DEF Owns, Pending
  <2>2. keys'[id].secret = keys[id].secret /\ Answered \subseteq Answered' /\ flagged'[id] = flagged[id]
    BY <1>1, Zenon DEF Answered
  <2> QED BY <1>4, <2>1, <2>2, SafeStays, Zenon
<1> QED BY <1>1, <1>3, <1>4, NoNewOrphan, Zenon DEF LockInv, CountInv

\* The statement of a create or a rotate makes its handler the owner of the
\* key; the others leave every secret alone.
LEMMA ChangeLock ==
  ASSUME ~MayLoseReply, TypeInv, CountInv, LockInv, NEW h \in Handlers, Change(h)
  PROVE  LockInv'
<1> DEFINE k == job[h].id
<1>1. /\ pc[h] = "change" /\ ~NotFound(job[h]) /\ keys' = Changed(job[h])
      /\ pc' = [pc EXCEPT ![h] = "audit"] /\ job' = job
      /\ UNCHANGED <<crashes, flagged, handed, unread>>
  BY Zenon DEF Change, Goto
<1>2. /\ pc'[h] = "audit" /\ \A g \in Handlers \ {h} : pc'[g] = pc[g]
      /\ Typed(job[h], clock, ids)
  BY <1>1, Zenon DEF TypeInv, HandlerInv
<1>3. ASSUME NEW id, Safe(id), keys'[id].secret = keys[id].secret PROVE Safe(id)'
  <2>1. \A g \in Handlers : Owns(g, id) => pc'[g] \in Pending /\ job'[g] = job[g]
    BY <1>1, <1>2, Zenon DEF Owns, Pending
  <2>2. Answered \subseteq Answered' /\ flagged'[id] = flagged[id]
    BY <1>1, Zenon DEF Answered
  <2> QED BY <1>3, <2>1, <2>2, SafeStays, Zenon
<1>4. ASSUME NEW id, id = k, keys'[id].secret = job[h].secret, job[h].op \in {"create", "rotate"}
      PROVE  Safe(id)'
  BY <1>1, <1>2, <1>4, Zenon DEF Safe, Owns, Pending
<1>5. ASSUME \A id \in DOMAIN keys' :
               \/ id \in DOMAIN keys /\ keys'[id].secret = keys[id].secret
               \/ id = k /\ keys'[id].secret = job[h].secret /\ job[h].op \in {"create", "rotate"},
             FreshInv'
      PROVE  LockInv'
  <2>1. ASSUME NEW id \in DOMAIN keys', id \in DOMAIN keys => Safe(id) PROVE Safe(id)'
    <3>1. CASE id \in DOMAIN keys /\ keys'[id].secret = keys[id].secret
      BY <1>3, <2>1, <3>1, Zenon
    <3>2. CASE id = k /\ keys'[id].secret = job[h].secret /\ job[h].op \in {"create", "rotate"}
      BY <1>4, <3>2, Zenon
    <3> QED BY <1>5, <3>1, <3>2, Zenon
  <2> QED BY <1>1, <1>5, <2>1, NoNewOrphan, Zenon DEF LockInv, CountInv
<1>6. CASE job[h].op = "create"
  <2>1. keys' = Create(keys, k, job[h].val) /\ job[h].val.secret = job[h].secret
    BY <1>1, <1>2, <1>6, Zenon DEF Changed, Typed
  <2>2. /\ DOMAIN keys' = DOMAIN keys \cup {k} /\ keys'[k].secret = job[h].secret
        /\ \A id \in DOMAIN keys \ {k} : keys'[id] = keys[id]
    BY <2>1, Zenon DEF Create
  <2>3. FreshInv'
    <3>1. ASSUME NEW g \in Handlers, pc'[g] = "change", job'[g].op = "create"
          PROVE  g # h /\ pc[g] = "change" /\ job'[g] = job[g] /\ job[g].id # k
      BY <1>1, <1>2, <1>6, <3>1, Zenon DEF LockInv, FreshInv
    <3> HIDE DEF k
    <3>2. FreshInv
      BY Zenon DEF LockInv
    <3>3. ASSUME NEW g \in Handlers, pc'[g] = "change", job'[g].op = "create"
          PROVE  job'[g].id \notin DOMAIN keys'
      BY <2>2, <3>1, <3>2, <3>3, Zenon DEF FreshInv
    <3>4. ASSUME NEW g \in Handlers, pc'[g] = "change", job'[g].op = "create",
                 NEW i \in Handlers \ {g}, pc'[i] = "change", job'[i].op = "create"
          PROVE  job'[i].id # job'[g].id
      BY <3>1, <3>2, <3>4, Zenon DEF FreshInv
    <3> QED BY <3>3, <3>4, Zenon DEF FreshInv
  <2> QED BY <1>5, <1>6, <2>2, <2>3, Zenon
<1>7. CASE job[h].op # "create"
  <2>1. /\ DOMAIN keys' \subseteq DOMAIN keys
        /\ \A id \in DOMAIN keys' :
             \/ keys'[id].secret = keys[id].secret
             \/ id = k /\ keys'[id].secret = job[h].secret /\ job[h].op = "rotate"
    <3>1. CASE job[h].op = "rotate"
      <4>1. keys' = UpdateHash(keys, k, job[h].secret) /\ k \in DOMAIN keys
        BY <1>1, <3>1, Zenon DEF Changed, NotFound, Present
      <4>2. keys[k] \in KeyRecords
        BY <4>1, Zenon DEF TypeInv, TableInv, TableOK
      <4> HIDE DEF k
      <4> QED BY <3>1, <4>1, <4>2, Zenon DEF UpdateHash, KeyRecords
    <3>2. CASE job[h].op # "rotate"
      <4>1. job[h].op \in AdminOps \ {"create", "rotate"}
        BY <1>2, <1>7, <3>2, Zenon DEF Typed
      <4> QED BY <4>1, <1>1, SecretsStay, Zenon
    <3> QED BY <3>1, <3>2, Zenon
  <2>2. FreshInv'
    <3>1. FreshInv
      BY Zenon DEF LockInv
    <3> QED BY <1>1, <1>2, <2>1, <3>1, FreshStays, Zenon
  <2> QED BY <1>5, <2>1, <2>2, Zenon
<1> QED BY <1>6, <1>7, Zenon
\* A handler that ends its call has sent the secret, reports the loss, or has
\* deleted the key.
LEMMA ReplyLock ==
  ASSUME TypeInv, CountInv, LockInv, NEW h \in Handlers,
         ChangeFails(h) \/ Audit(h) \/ Reply(h) \/ AuditFails(h) \/ Compensate(h)
  PROVE  LockInv'
<1> DEFINE k == job[h].id
<1>0. /\ \A id \in DOMAIN keys : id \in 0..MaxIds /\ flagged[id] \in Nat
      /\ pc \in [Handlers -> {"idle", "change", "audit", "compensate", "reply"}] /\ DOMAIN job = Handlers
      /\ pc[h] = "compensate" => job[h].op = "create"
  <2>1. /\ ids \in 0..MaxIds /\ DOMAIN keys \subseteq 1..ids /\ flagged \in [0..MaxIds -> Nat]
        /\ MaxIds \in Nat
    BY KeyAssumption, Zenon DEF KeyAssumption, TypeInv, TableInv, TableOK, CountInv
  <2>2. \A id \in DOMAIN keys : id \in 0..MaxIds /\ flagged[id] \in Nat
    BY ONLY <2>1
  <2> QED BY <2>2, Zenon DEF TypeInv, HandlerInv
<1>1. Finish(h) \/ Goto(h, "compensate") \/ Goto(h, "reply")
  BY Zenon DEF ChangeFails, Audit, Reply, AuditFails, Compensate
<1>2. /\ \A g \in Handlers \ {h} : pc'[g] = pc[g] /\ job'[g] = job[g]
      /\ pc'[h] # "change"
  BY <1>0, <1>1, Zenon DEF Finish, Goto
<1>3. /\ crashes' = crashes /\ Answered \subseteq Answered'
      /\ keys' = keys \/ (keys' = Delete(keys, k) /\ Compensate(h))
      /\ flagged' = flagged \/ flagged' = [flagged EXCEPT ![k] = @ + 1]
  BY Zenon DEF ChangeFails, Audit, Reply, Tell, AuditFails, Compensate, Answered
<1>4. /\ DOMAIN keys' \subseteq DOMAIN keys
      /\ \A id \in DOMAIN keys' : keys'[id] = keys[id]
      /\ keys' # keys => k \notin DOMAIN keys'
  BY <1>3, Zenon DEF Delete, Restrict
<1>5. FreshInv'
  <2>1. FreshInv
    BY Zenon DEF LockInv
  <2> QED BY <1>2, <1>4, <2>1, FreshStays, Zenon
<1>6. \A id \in DOMAIN keys : flagged[id] # 0 => flagged'[id] # 0
  <2>1. ASSUME NEW id \in DOMAIN keys, flagged' = [flagged EXCEPT ![k] = @ + 1]
        PROVE  flagged[id] # 0 => flagged'[id] # 0
    <3>1. flagged'[id] = IF id = k THEN flagged[id] + 1 ELSE flagged[id]
      BY <1>0, <2>1, Zenon DEF CountInv
    <3> HIDE DEF k
    <3> QED BY <1>0, <3>1
  <2> QED BY <1>3, <2>1, Zenon
<1>7. ASSUME NEW id \in DOMAIN keys', Owns(h, id)
      PROVE  \/ pc'[h] \in Pending /\ job'[h] = job[h]
             \/ <<id, job[h].secret>> \in Answered'
             \/ flagged'[id] # 0
  <2>1. pc[h] \in Pending /\ job[h].op \in {"create", "rotate"} /\ k = id
    BY <1>7, Zenon DEF Owns
  <2>2. id \in DOMAIN keys
    BY <1>4, Zenon
  <2>3. CASE ChangeFails(h)
    BY <2>1, <2>3, Zenon DEF ChangeFails, Pending
  <2>4. CASE Audit(h)
    <3>1. pc'[h] = "reply" /\ job'[h] = job[h]
      BY <1>0, <2>1, <2>4, Zenon DEF Audit, Goto
    <3> QED BY <3>1, Zenon DEF Pending
  <2>a. CASE Reply(h)
    BY <2>1, <2>a, Zenon DEF Reply, Tell, Answered
  <2>5. ASSUME flagged' = [flagged EXCEPT ![k] = @ + 1] PROVE flagged'[id] # 0
    BY <1>0, <2>1, <2>2, <2>5 DEF CountInv
  <2>6. CASE AuditFails(h)
    <3>1. CASE job[h].op = "create"
      <4>1. Goto(h, "compensate")
        BY <2>6, <3>1, Zenon DEF AuditFails
      <4>2. pc'[h] = "compensate" /\ job'[h] = job[h]
        BY <1>0, <4>1, Zenon DEF Goto
      <4> QED BY <4>2, Zenon DEF Pending
    <3>2. CASE job[h].op = "rotate"
      BY <2>5, <2>6, <3>2, Zenon DEF AuditFails
    <3> QED BY <2>1, <3>1, <3>2, Zenon
  <2>7. CASE Compensate(h)
    <3>1. k \in DOMAIN keys'
      BY <2>1, Zenon
    <3>2. keys' # Delete(keys, k)
      BY <3>1, Zenon DEF Delete, Restrict
    <3> QED BY <2>5, <2>7, <3>2, Zenon DEF Compensate
  <2> QED BY <2>3, <2>4, <2>a, <2>6, <2>7, Zenon
<1>8. ASSUME NEW id \in DOMAIN keys', id \in DOMAIN keys => Safe(id) PROVE Safe(id)'
  <2>1. id \in DOMAIN keys /\ Safe(id) /\ keys'[id].secret = keys[id].secret
    BY <1>4, <1>8, Zenon
  <2>2. \A g \in Handlers : Owns(g, id) =>
           \/ pc'[g] \in Pending /\ job'[g] = job[g]
           \/ <<id, job[g].secret>> \in Answered'
           \/ flagged'[id] # 0
    <3>1. \A g \in Handlers \ {h} : Owns(g, id) => pc'[g] \in Pending /\ job'[g] = job[g]
      BY <1>2, Zenon DEF Owns
    <3> QED BY <1>7, <3>1, Zenon
  <2> QED BY <1>3, <1>6, <2>1, <2>2, SafeStays, Zenon
<1> QED BY <1>3, <1>5, <1>8, NoNewOrphan, Zenon DEF LockInv, CountInv

\* The command hands its secret out at once; the rest changes no secret.
LEMMA OtherLock ==
  ASSUME TypeInv, CountInv, LockInv,
         CLIStep \/ CleanupStep \/ Tick \/ \E r \in Callers : AuthnStep(r)
  PROVE  LockInv'
<1>1. UNCHANGED <<pc, job, flagged, crashes>>
  BY OtherCounts, Zenon
<1>2. ASSUME NEW id, Safe(id), keys'[id].secret = keys[id].secret, Answered \subseteq Answered'
      PROVE  Safe(id)'
  <2>1. \A g \in Handlers : Owns(g, id) => pc'[g] \in Pending /\ job'[g] = job[g]
    BY <1>1, Zenon DEF Owns
  <2>2. flagged'[id] = flagged[id]
    BY <1>1, Zenon
  <2> QED BY <1>2, <2>1, <2>2, SafeStays, Zenon
<1>3. ASSUME DOMAIN keys' \subseteq DOMAIN keys, UNCHANGED <<handed, unread>>,
             \A id \in DOMAIN keys' : keys'[id].secret = keys[id].secret
      PROVE  LockInv'
  <2>1. FreshInv
    BY Zenon DEF LockInv
  <2>2. FreshInv'
    BY <1>1, <1>3, <2>1, FreshStays, Zenon
  <2>3. ASSUME NEW id \in DOMAIN keys', id \in DOMAIN keys => Safe(id) PROVE Safe(id)'
    BY <1>2, <1>3, <2>3, Zenon DEF Answered
  <2> QED BY <1>1, <2>2, <2>3, NoNewOrphan, Zenon DEF LockInv, CountInv
<1>4. CASE \E R \in (SUBSET Roles) \ {{}} : runKeyCreate(R)
  <2>1. PICK R \in (SUBSET Roles) \ {{}} : runKeyCreate(R)
    BY <1>4, Zenon
  <2>2. /\ ids' = ids + 1 /\ <<ids', secrets'>> \in Answered' /\ Answered \subseteq Answered'
        /\ keys' = Create(keys, ids', NewRecord(secrets', 0, R))
    BY <2>1, Zenon DEF runKeyCreate, Tell, Answered
  <2>3. /\ DOMAIN keys' = DOMAIN keys \cup {ids'} /\ keys'[ids'].secret = secrets'
        /\ \A id \in DOMAIN keys \ {ids'} : keys'[id] = keys[id]
    BY <2>2, Zenon DEF Create, NewRecord
  <2>4. ids \in Nat /\ DOMAIN keys \subseteq 1..ids
    BY IssuedIds, Zenon
  <2>5. FreshInv'
    <3>1. \A g \in Handlers : pc[g] = "change" /\ job[g].op = "create" => job[g].id \in 1..ids
      BY <2>4, KeyAssumption DEF TypeInv, HandlerInv, Typed, Ids
    <3>2. ids' \notin 1..ids
      BY <2>2, <2>4
    <3>3. \A g \in Handlers : pc[g] = "change" /\ job[g].op = "create" => job[g].id # ids'
      BY <3>1, <3>2, Zenon
    <3>4. DOMAIN keys' = DOMAIN keys \cup {ids'} /\ pc' = pc /\ job' = job /\ FreshInv
      BY <1>1, <2>3, Zenon DEF LockInv
    <3> QED BY <3>3, <3>4, Zenon DEF FreshInv
  <2>6. ASSUME NEW id \in DOMAIN keys', id \in DOMAIN keys => Safe(id) PROVE Safe(id)'
    <3>1. CASE id = ids'
      BY <2>2, <2>3, <3>1, Zenon DEF Safe
    <3>2. CASE id # ids'
      BY <1>2, <2>2, <2>3, <2>6, <3>2, Zenon
    <3> QED BY <3>1, <3>2, Zenon
  <2> QED BY <1>1, <2>5, <2>6, NoNewOrphan, Zenon DEF LockInv, CountInv
<1>5. CASE \E id \in Ids : runKeyDelete(id) \/ \E e \in {0, 1} : runKeySetEnabled(id, e)
  <2>1. PICK id \in Ids : runKeyDelete(id) \/ \E e \in {0, 1} : runKeySetEnabled(id, e)
    BY <1>5, Zenon
  <2>2. /\ UNCHANGED <<handed, unread>>
        /\ keys' = Delete(keys, id) \/ \E e \in {0, 1} : keys' = SetEnabled(keys, id, e)
    BY <2>1, Zenon DEF runKeyDelete, runKeySetEnabled, Command
  <2>3. /\ DOMAIN keys' \subseteq DOMAIN keys
        /\ \A i \in DOMAIN keys' : keys'[i].secret = keys[i].secret
    <3>1. CASE keys' = Delete(keys, id)
      BY <3>1, Zenon DEF Delete, Restrict
    <3>2. ASSUME NEW e \in {0, 1}, keys' = SetEnabled(keys, id, e)
          PROVE  DOMAIN keys' = DOMAIN keys /\ \A i \in DOMAIN keys : keys'[i].secret = keys[i].secret
      BY <3>2 DEF SetEnabled
    <3> QED BY <2>2, <3>1, <3>2, Zenon
  <2> QED BY <1>3, <2>2, <2>3, Zenon
<1>6. CASE CleanupStep
  <2>1. UNCHANGED <<handed, unread>> /\ (keys' = keys \/ keys' = DeleteExpired(keys, before))
    BY <1>6, Zenon DEF CleanupStep, CleanupTick, CleanupDelete, CleanupFails, CleanupAudit,
                       CleanerTo, adminVars
  <2> QED BY <1>3, <2>1, Zenon DEF DeleteExpired, Restrict
<1>7. CASE Tick \/ \E r \in Callers : AuthnStep(r)
  <2>1. UNCHANGED <<keys, handed, unread>>
    BY <1>7, Zenon DEF Tick, AuthnStep, Arrive, Lookup, LookupFails, Check, Leave, OnlyReq, adminVars
  <2> QED BY <1>3, <2>1, Zenon
<1> QED BY <1>4, <1>5, <1>6, <1>7, Zenon DEF CLIStep
\* A crash orphans at most the keys its handlers were busy with.
LEMMA CrashLock ==
  ASSUME TypeInv, CountInv, LockInv, NEW S \in SUBSET Handlers, Crash(S)
  PROVE  LockInv'
<1> DEFINE f == [h \in Handlers |-> job[h].id]
           Held == {f[h] : h \in Handlers}
<1>1. /\ pc' = [h \in Handlers |-> "idle"] /\ crashes' = crashes + 1
      /\ UNCHANGED <<keys, flagged, handed, unread>>
  BY Zenon DEF Crash
<1>2. FreshInv'
  BY <1>1, Zenon DEF FreshInv
<1>3. IsFiniteSet(Held) /\ Cardinality(Held) <= Cardinality(Handlers)
  <2>1. DOMAIN f = Handlers
    BY Zenon
  <2> HIDE DEF f
  <2> QED BY <2>1, KeyAssumption, ImageBound, Zenon
<1>4. Orphans' \subseteq Orphans \cup Held
  <2> SUFFICES ASSUME NEW id \in Orphans', id \notin Orphans PROVE id \in Held
    BY Zenon
  <2>1. id \in DOMAIN keys /\ ~Safe(id)' /\ Safe(id)
    BY <1>1, Zenon DEF Orphans
  <2>2. <<id, keys[id].secret>> \notin Answered /\ flagged[id] = 0
    BY <1>1, <2>1, Zenon DEF Safe, Answered
  <2>3. PICK h \in Handlers : Owns(h, id)
    BY <2>1, <2>2, Zenon DEF Safe
  <2> QED BY <2>3, Zenon DEF Owns
<1> HIDE DEF Held
<1>5. IsFiniteSet(Orphans) /\ Cardinality(Orphans) \in Nat
  BY OrphansFinite, Zenon
<1>6. IsFiniteSet(Orphans') /\ Cardinality(Orphans') <= Cardinality(Orphans) + Cardinality(Held)
  BY <1>3, <1>4, <1>5, UnionBound, Zenon
<1>7. /\ Cardinality(Orphans') \in Nat /\ Cardinality(Held) \in Nat /\ Cardinality(Handlers) \in Nat
  BY <1>3, <1>6, KeyAssumption, FS_CardinalityType, Zenon
<1>8. CutByCrashes' = CutByCrashes + Cardinality(Handlers) /\ CutByCrashes \in Nat
  BY <1>1, <1>7 DEF CutByCrashes, CountInv
<1>9. Cardinality(Orphans) <= CutByCrashes
  BY Zenon DEF LockInv
<1>10. Cardinality(Orphans') <= CutByCrashes'
  BY <1>3, <1>5, <1>6, <1>7, <1>8, <1>9
<1> QED BY <1>2, <1>10, Zenon DEF LockInv

\* Unless a reply of the database is lost, every key's current secret was sent
\* to an operator (in a reply that may be lost on its way), its loss is counted
\* and logged, or a handler is still at it; whatever rotations and failed
\* creates race on the key.
THEOREM NoLockoutIsSilent ==
  ASSUME ~MayLoseReply
  PROVE  Spec => []NoSilentLockout
<1> DEFINE Inv == CountInv /\ LockInv
<1>1. Init => Inv
  <2> SUFFICES ASSUME Init PROVE CountInv /\ FreshInv /\ Cardinality(Orphans) <= CutByCrashes
    BY Zenon DEF LockInv
  <2>1. CountInv /\ FreshInv
    BY DEF Init, CountInv, FreshInv
  <2>2. Orphans = {}
    BY Zenon DEF Init, Orphans
  <2>3. CutByCrashes = 0
    BY KeyAssumption, FS_CardinalityType DEF CutByCrashes, Init
  <2> QED BY <2>1, <2>2, <2>3, FS_EmptySet
<1>2. TypeInv /\ Inv /\ [Next]_vars => Inv'
  <2>1. ASSUME CountInv, LockInv, UNCHANGED vars PROVE CountInv' /\ LockInv'
    BY <2>1, Zenon DEF CountInv, LockInv, FreshInv, Orphans, Safe, Answered, Owns, CutByCrashes,
                     vars, adminVars
  <2>2. ASSUME TypeInv, CountInv, LockInv, Next PROVE LockInv'
    <3>1. ASSUME NEW h \in Handlers, AdminStep(h) PROVE LockInv'
      <4>1. (\E j : BeginStep(h, j)) \/ Statement(h)
        BY <2>2, <3>1, AdminCases, Zenon
      <4> QED BY <2>2, <4>1, BeginLock, ChangeLock, ReplyLock, Zenon DEF Statement
    <3> QED BY <2>2, <3>1, OtherLock, CrashLock, Zenon DEF Next
  <2> QED BY <2>1, <2>2, CountTypes, Zenon
<1>3. TypeInv /\ Inv => NoSilentLockout
  <2> SUFFICES ASSUME TypeInv, Inv PROVE NoSilentLockout
    BY Zenon
  <2> DEFINE N == {id \in DOMAIN keys :
                     /\ <<id, keys[id].secret>> \notin handed \cup unread
                     /\ flagged[id] = 0
                     /\ \A h \in Handlers : ~Attending(h, id)}
  <2>1. ASSUME NEW id \in N PROVE id \in Orphans
    <3>1. \A h \in Handlers : ~Owns(h, id)
      BY <2>1, Zenon DEF Owns, Attending, Pending
    <3> QED BY <2>1, <3>1, Zenon DEF Orphans, Safe, Answered
  <2>2. N \subseteq Orphans
    <3> HIDE DEF N
    <3> QED BY <2>1, Zenon
  <2> HIDE DEF N
  <2>3. IsFiniteSet(Orphans) /\ Cardinality(Orphans) \in Nat
    BY OrphansFinite, Zenon
  <2>4. IsFiniteSet(N) /\ Cardinality(N) <= Cardinality(Orphans)
    BY <2>2, <2>3, FS_Subset, Zenon
  <2>5. Cardinality(N) \in Nat /\ Cardinality(Handlers) \in Nat
    BY <2>4, KeyAssumption, FS_CardinalityType, Zenon
  <2>6. CutByCrashes \in Nat /\ Cardinality(Orphans) <= CutByCrashes
    BY <2>5 DEF CutByCrashes, CountInv, LockInv
  <2>7. Cardinality(N) <= CutByCrashes
    BY <2>3, <2>4, <2>5, <2>6
  <2> QED BY <2>7, Zenon DEF NoSilentLockout, N
<1> HIDE DEF Inv
<1> QED BY <1>1, <1>2, <1>3, KeyTypes, PTL DEF Spec
=============================================================================

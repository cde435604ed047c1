------------------------------ MODULE KeyAdmin ------------------------------
(***************************************************************************)
(* API keys from both ends: the admin API, the `pdag key` command and the  *)
(* cleanup goroutine change the key table, and the authentication          *)
(* middleware reads it.                                                    *)
(*                                                                         *)
(* Processes: one goroutine per admin request, which runs its statements   *)
(* one by one (there is no transaction around a change and its audit row), *)
(* one goroutine per proxied request, the cleanup goroutine, and the       *)
(* command-line process.  Each statement is atomic and may fail; a client  *)
(* that goes away is a failure of the handler's remaining statements.      *)
(***************************************************************************)
EXTENDS KeyTable, FiniteSetsExt

CONSTANTS
  Handlers,      \* admin API request slots
  Callers,       \* proxied request slots
  Ops,           \* admin operations in use; the command, the cleanup
  Roles, Addrs,  \* roles, client addresses
  MaxIds,        \* bound on the keys ever created
  MaxSecrets,    \* bound on the secrets ever generated
  MaxClock,      \* bound on the time
  MaxExpiry,     \* bound on the expiry times
  MaxCalls,      \* bound on the admin API calls and commands
  MaxCrashes,    \* bound on the crashes of the server process
  MayFail,       \* a statement of an admin handler may fail
  MayLoseReply   \* a change may be applied and still report an error

ASSUME KeyAssumption ==
  /\ IsFiniteSet(Handlers) /\ IsFiniteSet(Callers)
  /\ Ops \subseteq {"create", "rotate", "delete", "enable", "disable", "expiry",
                    "roles", "cidrs", "purge", "cli", "cleanup"}
  /\ MaxIds \in Nat /\ MaxSecrets \in Nat /\ MaxClock \in Nat /\ MaxExpiry \in 0..MaxClock /\ MaxCalls \in Nat
  /\ MaxCrashes \in Nat
  /\ MayFail \in BOOLEAN /\ MayLoseReply \in BOOLEAN

VARIABLES
  clock,    \* time.Now()
  keys,     \* the api_keys table
  ids,      \* ids generated so far
  secrets,  \* secrets generated so far
  calls,    \* admin calls begun so far
  pc, job,  \* where each admin handler is, and what it was asked to do
  cleaner, before,  \* the cleanup goroutine, and its time argument
  rows,     \* rows of api_keys_audit for each key; 0 stands for no key
  flagged,  \* inconsistencies counted in audit_inconsistency_total and logged, by key
  handed,   \* <<id, secret>> pairs that were given to an operator
  unread,   \* <<id, secret>> pairs whose reply went out and never arrived
  applied,  \* changes the admin API made to each key and did not take back
  crashes,  \* crashes of the server process so far
  req, cred, snap,  \* each proxied request: state, credentials, record read
  good      \* roles that were due to its credentials since it came

adminVars == <<ids, secrets, calls, pc, job, rows, flagged, handed, unread, applied>>
reqVars == <<req, cred, snap>>
vars == <<clock, crashes, keys, adminVars, cleaner, before, reqVars, good>>

Ids == 1..MaxIds
Secrets == 1..MaxSecrets
Times == 0..MaxClock
NoJob == [op |-> "none", id |-> 0, val |-> 0, secret |-> 0]
NoCred == [id |-> 0, secret |-> 0, addr |-> 0]
NoRecord == [secret |-> 0, enabled |-> 0, expires |-> 0, roles |-> {}, cidrs |-> {}]
Creds == [id : Ids, secret : Secrets, addr : Addrs]

Init ==
  /\ clock = 1 /\ keys = [id \in {} |-> NoRecord]
  /\ ids = 0 /\ secrets = 0 /\ calls = 0
  /\ pc = [h \in Handlers |-> "idle"] /\ job = [h \in Handlers |-> NoJob]
  /\ cleaner = "waiting" /\ before = 0
  /\ rows = [id \in 0..MaxIds |-> 0]
  /\ flagged = [id \in 0..MaxIds |-> 0] /\ handed = {} /\ unread = {}
  /\ applied = [id \in 0..MaxIds |-> 0] /\ crashes = 0
  /\ req = [r \in Callers |-> "idle"]
  /\ cred = [r \in Callers |-> NoCred] /\ snap = [r \in Callers |-> NoRecord]
  /\ good = [r \in Callers |-> {}]

-----------------------------------------------------------------------------
(* Admin handlers: validation, the change, its audit row, the reply.       *)

\* Handler h has validated its request and is about to change the table.
Begin(h, j) ==
  /\ pc[h] = "idle" /\ calls < MaxCalls /\ j.op \in Ops
  /\ pc' = [pc EXCEPT ![h] = "change"]
  /\ job' = [job EXCEPT ![h] = j]
  /\ calls' = calls + 1
  /\ UNCHANGED <<clock, crashes, keys, rows, flagged, handed, unread, applied,
                 cleaner, before, reqVars>>

\* expires_at is absent or in the future; the id and the secret are random.
FutureOrNever == {0} \cup (clock + 1)..MaxExpiry

NewRecord(secret, expires, roles) ==
  [secret |-> secret, enabled |-> 1, expires |-> expires, roles |-> roles, cidrs |-> {}]

createKey(h, roles, expires) ==
  /\ ids < MaxIds /\ secrets < MaxSecrets
  /\ Begin(h, [op |-> "create", id |-> ids + 1, secret |-> secrets + 1,
               val |-> NewRecord(secrets + 1, expires, roles)])
  /\ ids' = ids + 1 /\ secrets' = secrets + 1

\* GetByID finds the key; a lookup that fails or finds none ends the call.
rotateKey(h, id) ==
  /\ Present(keys, id) /\ secrets < MaxSecrets
  /\ Begin(h, [op |-> "rotate", id |-> id, val |-> 0, secret |-> secrets + 1])
  /\ secrets' = secrets + 1
  /\ UNCHANGED ids

\* deleteKey, setEnabled, setExpiry, updateRoles, updateAllowedCIDRs.
updateKey(h, op, id, val) ==
  /\ Begin(h, [op |-> op, id |-> id, val |-> val, secret |-> 0])
  /\ UNCHANGED <<ids, secrets>>

deleteKey(h, id) == updateKey(h, "delete", id, 0)
setEnabled(h, id) == updateKey(h, "enable", id, 1) \/ updateKey(h, "disable", id, 0)
setExpiry(h, id) == \E t \in FutureOrNever : updateKey(h, "expiry", id, t)
updateRoles(h, id) == \E R \in (SUBSET Roles) \ {{}} : updateKey(h, "roles", id, R)
updateAllowedCIDRs(h, id) == \E A \in SUBSET Addrs : updateKey(h, "cidrs", id, A)

\* DeleteExpired(ctx, time.Now()); the event has no key id.
purgeExpired(h) == updateKey(h, "purge", 0, clock)

\* The table after the statement of job j.
Changed(j) ==
  CASE j.op = "create" -> Create(keys, j.id, j.val)
    [] j.op = "rotate" -> UpdateHash(keys, j.id, j.secret)
    [] j.op = "delete" -> Delete(keys, j.id)
    [] j.op \in {"enable", "disable"} -> SetEnabled(keys, j.id, j.val)
    [] j.op = "expiry" -> SetExpiresAt(keys, j.id, j.val)
    [] j.op = "roles" -> SetRoles(keys, j.id, j.val)
    [] j.op = "cidrs" -> SetAllowedCIDRs(keys, j.id, j.val)
    [] j.op = "purge" -> DeleteExpired(keys, j.val)

NotFound(j) == j.op \notin {"create", "purge"} /\ ~Present(keys, j.id)

Finish(h) == pc' = [pc EXCEPT ![h] = "idle"] /\ job' = [job EXCEPT ![h] = NoJob]
Goto(h, loc) == pc' = [pc EXCEPT ![h] = loc] /\ UNCHANGED job

\* The change is made.  If its reply is lost, the handler answers 500.
Change(h) ==
  /\ pc[h] = "change" /\ ~NotFound(job[h])
  /\ keys' = Changed(job[h])
  /\ applied' = [applied EXCEPT ![job[h].id] = @ + 1]
  /\ \/ Goto(h, "audit")
     \/ MayLoseReply /\ Finish(h)
  /\ UNCHANGED <<clock, crashes, ids, secrets, calls, rows, flagged, handed, unread,
                 cleaner, before, reqVars>>

\* 404 for a key that is gone, 500 for a failed statement.
ChangeFails(h) ==
  /\ pc[h] = "change"
  /\ MayFail \/ NotFound(job[h])
  /\ Finish(h)
  /\ UNCHANGED <<clock, crashes, keys, ids, secrets, calls, rows, flagged, handed, unread,
                 applied, cleaner, before, reqVars>>

\* AuditKeyEvent inserts the row; createKey and rotateKey go on to reply.
Audit(h) ==
  /\ pc[h] = "audit"
  /\ rows' = [rows EXCEPT ![job[h].id] = @ + 1]
  /\ IF job[h].op \in {"create", "rotate"} THEN Goto(h, "reply") ELSE Finish(h)
  /\ UNCHANGED <<clock, crashes, keys, ids, secrets, calls, flagged, handed, unread, applied,
                 cleaner, before, reqVars>>

\* A secret is shown once: it arrives, or it is lost on the way.
Tell(id, secret) ==
  \/ handed' = handed \cup {<<id, secret>>} /\ UNCHANGED unread
  \/ unread' = unread \cup {<<id, secret>>} /\ UNCHANGED handed

\* The reply with the secret; an error in sending it is ignored.
Reply(h) ==
  /\ pc[h] = "reply"
  /\ Tell(job[h].id, job[h].secret)
  /\ Finish(h)
  /\ UNCHANGED <<clock, crashes, keys, ids, secrets, calls, rows, flagged, applied,
                 cleaner, before, reqVars>>

\* Mutant: the split-brain is not reported.
AuditFails_silent(h) ==
  /\ pc[h] = "audit" /\ MayFail
  /\ IF job[h].op = "create" THEN Goto(h, "compensate") ELSE Finish(h)
  /\ UNCHANGED <<clock, crashes, keys, ids, secrets, calls, rows, flagged, handed, unread, applied,
                 cleaner, before, reqVars>>

\* The row is not inserted: createKey compensates, purgeExpired answers 500,
\* the others (auditMutation) also count the inconsistency.
AuditFails(h) ==
  /\ pc[h] = "audit" /\ MayFail
  /\ flagged' = IF job[h].op \in {"create", "purge"} THEN flagged
                ELSE [flagged EXCEPT ![job[h].id] = @ + 1]
  /\ IF job[h].op = "create" THEN Goto(h, "compensate") ELSE Finish(h)
  /\ UNCHANGED <<clock, crashes, keys, ids, secrets, calls, rows, handed, unread, applied,
                 cleaner, before, reqVars>>

\* createKey deletes the key it made and could not audit; a failed delete, or
\* one that finds no key, counts as an inconsistency.
Compensate(h) ==
  LET id == job[h].id IN
  /\ pc[h] = "compensate"
  /\ \/ /\ Present(keys, id)
        /\ keys' = Delete(keys, id)
        /\ applied' = [applied EXCEPT ![id] = @ - 1]
        /\ UNCHANGED flagged
     \/ /\ MayFail \/ ~Present(keys, id)
        /\ flagged' = [flagged EXCEPT ![id] = @ + 1]
        /\ UNCHANGED <<keys, applied>>
  /\ Finish(h)
  /\ UNCHANGED <<clock, crashes, ids, secrets, calls, rows, handed, unread,
                 cleaner, before, reqVars>>

-----------------------------------------------------------------------------
(* The pdag key command: the change, and no audit row.                     *)

runKeyCreate(roles) ==
  /\ "cli" \in Ops /\ calls < MaxCalls /\ ids < MaxIds /\ secrets < MaxSecrets
  /\ ids' = ids + 1 /\ secrets' = secrets + 1 /\ calls' = calls + 1
  /\ keys' = Create(keys, ids', NewRecord(secrets', 0, roles))
  /\ Tell(ids', secrets')
  /\ UNCHANGED <<clock, crashes, pc, job, rows, flagged, applied, cleaner, before, reqVars>>

Command(t) ==
  /\ "cli" \in Ops /\ calls < MaxCalls
  /\ calls' = calls + 1
  /\ keys' = t
  /\ UNCHANGED <<clock, crashes, ids, secrets, pc, job, rows, flagged, handed, unread, applied,
                 cleaner, before, reqVars>>

runKeySetEnabled(id, enabled) == Present(keys, id) /\ Command(SetEnabled(keys, id, enabled))
runKeyDelete(id) == Present(keys, id) /\ Command(Delete(keys, id))

-----------------------------------------------------------------------------
(* runKeyCleanup, until shutdown; it runs unless its interval is zero.     *)

CleanerTo(loc) == cleaner' = loc /\ UNCHANGED <<clock, crashes, adminVars, reqVars>>

\* <-ticker.C, time.Now()
CleanupTick ==
  /\ "cleanup" \in Ops /\ cleaner = "waiting"
  /\ CleanerTo("deleting")
  /\ before' = clock
  /\ UNCHANGED keys

CleanupDelete ==
  /\ cleaner = "deleting"
  /\ keys' = DeleteExpired(keys, before)
  /\ CleanerTo(IF keys' # keys THEN "auditing" ELSE "waiting")
  /\ UNCHANGED before

CleanupFails ==
  /\ cleaner = "deleting"
  /\ CleanerTo("waiting")
  /\ UNCHANGED <<keys, before>>

\* The row is inserted, or its failure logged; either way the loop goes on.
CleanupAudit ==
  /\ cleaner = "auditing"
  /\ CleanerTo("waiting")
  /\ UNCHANGED <<keys, before>>

-----------------------------------------------------------------------------
(* Authentication.                                                         *)

ReqTo(r, loc) == req' = [req EXCEPT ![r] = loc]
OnlyReq == UNCHANGED <<clock, crashes, keys, adminVars, cleaner, before>>

\* A request with a well-formed X-API-Key header.
Arrive(r, c) ==
  /\ req[r] = "idle"
  /\ ReqTo(r, "lookup")
  /\ cred' = [cred EXCEPT ![r] = c]
  /\ UNCHANGED snap /\ OnlyReq

\* GetByID: a record, or unknown_key.
Lookup(r) ==
  /\ req[r] = "lookup"
  /\ IF Present(keys, cred[r].id)
     THEN ReqTo(r, "check") /\ snap' = [snap EXCEPT ![r] = keys[cred[r].id]]
     ELSE ReqTo(r, "deny") /\ UNCHANGED snap
  /\ UNCHANGED cred /\ OnlyReq

\* GetByID fails: 500.
LookupFails(r) ==
  /\ req[r] = "lookup"
  /\ ReqTo(r, "error")
  /\ UNCHANGED <<cred, snap>> /\ OnlyReq

\* HmacService: the HMAC of the secret sent is the one stored.
verify(c, rec) == rec.secret = c.secret

\* The checks on the record read, in the middleware's order, at the time now.
Authenticates(c, rec, now) ==
  /\ verify(c, rec)
  /\ rec.enabled = 1
  /\ ~(rec.expires # 0 /\ rec.expires < now)
  /\ rec.cidrs # {} => c.addr \in rec.cidrs

\* Mutant: the roles are read again once the checks have passed.
Check_reread(r) ==
  /\ req[r] = "check"
  /\ ReqTo(r, IF Authenticates(cred[r], snap[r], clock) THEN "ok" ELSE "deny")
  /\ snap' = [snap EXCEPT ![r] = IF Present(keys, cred[r].id) THEN keys[cred[r].id] ELSE @]
  /\ UNCHANGED cred /\ OnlyReq

Check(r) ==
  /\ req[r] = "check"
  /\ ReqTo(r, IF Authenticates(cred[r], snap[r], clock) THEN "ok" ELSE "deny")
  /\ UNCHANGED <<cred, snap>> /\ OnlyReq

\* The request is answered; the slot takes another one.
Leave(r) ==
  /\ req[r] \in {"ok", "deny", "error"}
  /\ ReqTo(r, "idle")
  /\ cred' = [cred EXCEPT ![r] = NoCred] /\ snap' = [snap EXCEPT ![r] = NoRecord]
  /\ OnlyReq

Tick ==
  /\ clock < MaxClock
  /\ clock' = clock + 1
  /\ UNCHANGED <<crashes, keys, adminVars, cleaner, before, reqVars>>

\* The server process dies and is started again.  Of the rows being inserted
\* those of the handlers in S are in the table.  (A change that made it into
\* the table is a Change before the crash.)
Crash(S) ==
  /\ crashes < MaxCrashes
  /\ S \subseteq {h \in Handlers : pc[h] = "audit"}
  /\ crashes' = crashes + 1
  /\ rows' = [id \in DOMAIN rows |-> rows[id] + Cardinality({h \in S : job[h].id = id})]
  /\ pc' = [h \in Handlers |-> "idle"] /\ job' = [h \in Handlers |-> NoJob]
  /\ cleaner' = "waiting"
  /\ req' = [r \in Callers |-> "idle"]
  /\ cred' = [r \in Callers |-> NoCred] /\ snap' = [r \in Callers |-> NoRecord]
  /\ UNCHANGED <<clock, keys, ids, secrets, calls, flagged, handed, unread, applied, before>>

-----------------------------------------------------------------------------
\* What credentials c give right now, by the table itself.
Valid(c) ==
  \E id \in DOMAIN keys :
    /\ c.id = id /\ keys[id].secret = c.secret /\ keys[id].enabled = 1
    /\ keys[id].expires = 0 \/ keys[id].expires >= clock
    /\ keys[id].cidrs = {} \/ c.addr \in keys[id].cidrs

Due(r) == IF req[r] # "idle" /\ Valid(cred[r]) THEN {keys[cred[r].id].roles} ELSE {}

\* good collects what is due to each request while it is served.
Observe == good' = [r \in Callers |-> Due(r)' \cup (IF req[r] = "idle" THEN {} ELSE good[r])]

AdminStep(h) ==
  \/ \E R \in (SUBSET Roles) \ {{}}, t \in FutureOrNever : createKey(h, R, t)
  \/ \E id \in Ids :
       \/ rotateKey(h, id) \/ deleteKey(h, id) \/ setEnabled(h, id) \/ setExpiry(h, id)
       \/ updateRoles(h, id) \/ updateAllowedCIDRs(h, id)
  \/ purgeExpired(h)
  \/ Change(h) \/ ChangeFails(h) \/ Audit(h) \/ Reply(h)
  \/ AuditFails(h) \/ Compensate(h)

CLIStep ==
  \/ \E R \in (SUBSET Roles) \ {{}} : runKeyCreate(R)
  \/ \E id \in Ids : runKeyDelete(id) \/ \E e \in {0, 1} : runKeySetEnabled(id, e)

CleanupStep == CleanupTick \/ CleanupDelete \/ CleanupFails \/ CleanupAudit

AuthnStep(r) ==
  \/ \E c \in Creds : Arrive(r, c)
  \/ Lookup(r) \/ LookupFails(r) \/ Check(r) \/ Leave(r)

Next ==
  /\ \/ \E h \in Handlers : AdminStep(h)
     \/ CLIStep \/ CleanupStep \/ Tick
     \/ \E S \in SUBSET Handlers : Crash(S)
     \/ \E r \in Callers : AuthnStep(r)
  /\ Observe

Spec == Init /\ [][Next]_vars

-----------------------------------------------------------------------------
(* Properties.                                                             *)

\* A request is authenticated only if at one single moment while it was
\* served its key existed with that secret, enabled, unexpired, open to its
\* address, and with the roles the request goes on with; although the record
\* is read once and checked later, against another clock reading, while the
\* admin API, the command and the cleanup change the key.
AuthnCoherent ==
  \A r \in Callers : req[r] = "ok" => snap[r].roles \in good[r]

PurgeStep ==
  \/ cleaner = "deleting" /\ cleaner' # "deleting"
  \/ \E h \in Handlers : pc[h] = "change" /\ pc'[h] # "change" /\ job[h].op = "purge"

\* A purge, by the admin API or by the cleanup goroutine, removes only keys
\* that authentication already refuses: no credentials change their worth,
\* however late the statement runs after its time argument was taken and
\* whatever setExpiry did in between.
PurgeHarmless ==
  [][PurgeStep => \A c \in Creds : Valid(c)' <=> Valid(c)]_vars

Busy(id) == {h \in Handlers : pc[h] \in {"audit", "compensate"} /\ job[h].id = id}

\* Changes of a key that have no audit row, were not counted as an
\* inconsistency or taken back, and are not being audited either.
Unaccounted(id) == applied[id] - rows[id] - flagged[id] - Cardinality(Busy(id))

\* A crash cuts one step of each handler at most.
CutByCrashes == crashes * Cardinality(Handlers)

\* The changes that are nowhere accounted for, those of a key numbered from 1.
Lost == UNION {{id} \X (1..Unaccounted(id)) : id \in Ids}

\* What metrics.md says of audit_inconsistency_total: every change the admin
\* API applied to a key has its audit row, is counted as an inconsistency, was
\* taken back, or is still being audited.  A crash between a change and its
\* row is remembered nowhere, and costs one change per handler at most.
InconsistencyCounted ==
  /\ \A id \in Ids : Unaccounted(id) >= 0
  /\ Cardinality(Lost) <= CutByCrashes

\* Handler h works on key id, and is still to reply.
Attending(h, id) == pc[h] \in {"audit", "compensate", "reply"} /\ job[h].id = id

\* A key's current secret was sent to an operator, or its loss was counted and
\* logged: rotations and a failed create that race on a key never leave it
\* with a secret that went to nobody and that nothing tells of; and a crash
\* leaves one such key per handler at most.  The server cannot know whether a
\* reply arrives (it ignores the error of sending it): a key whose reply was
\* lost on the way, in unread, has a secret nobody knows, and is counted
\* nowhere.
NoSilentLockout ==
  Cardinality({id \in DOMAIN keys :
    /\ <<id, keys[id].secret>> \notin handed \cup unread
    /\ flagged[id] = 0
    /\ \A h \in Handlers : ~Attending(h, id)}) <= CutByCrashes

=============================================================================

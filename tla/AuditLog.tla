------------------------------ MODULE AuditLog ------------------------------
(***************************************************************************)
(* The audit trail of the gateway: the HTTP audit middleware               *)
(* (internal/audit/middleware.go) and the buffered file logger it writes   *)
(* to (internal/audit/file/logger.go).                                     *)
(*                                                                         *)
(* Processes: one goroutine per request, the logger's flushLoop goroutine, *)
(* the goroutine that calls Close at shutdown, and SIGHUPs.  A request is  *)
(* identified with the audit entry it produces; what the entry says is     *)
(* left out.                                                               *)
(***************************************************************************)
EXTENDS Integers, Sequences, FiniteSets

CONSTANTS
  Requests,       \* request goroutines, each producing at most one entry
  Cap,            \* bufSize: capacity of the channels ch and sem
  FailClosed,     \* audit_fail_closed: Reserve before the upstream call
  EnqueueWaits,   \* enqueueTimeout > 0: Publish and Reserve wait for room
  MaxSighup,      \* bound on the number of SIGHUPs
  WritesMayFail,  \* Encode may fail (disk full, unencodable entry)
  MayAbort,       \* the handlers below the middleware may panic
  DrainTimesOut   \* Close may be called while requests are in flight

ASSUME AuditAssumption ==
  /\ IsFiniteSet(Requests)
  /\ Cap \in Nat \ {0}
  /\ MaxSighup \in Nat
  /\ FailClosed \in BOOLEAN /\ EnqueueWaits \in BOOLEAN
  /\ WritesMayFail \in BOOLEAN /\ MayAbort \in BOOLEAN
  /\ DrainTimesOut \in BOOLEAN

VARIABLES
  pc,         \* where each request goroutine is
  forwarded,  \* requests whose action reached the upstream
  ch,         \* entries buffered in l.ch
  sem,        \* len(l.sem): permits held
  reopen,     \* len(l.reopen), a channel of capacity 1
  sighups,    \* SIGHUPs received so far
  flusher,    \* where flushLoop is
  cur,        \* the entries flushLoop has received and not yet written
  enc,        \* l.enc: "ok", or "failed" once a write to its file failed
  log,        \* entries on disk, oldest first
  dropped,    \* metric audit_dropped_total
  writeErrs,  \* metric audit_write_errors_total
  closer      \* where the goroutine that calls Close is

reqVars == <<pc, forwarded>>
bufVars == <<ch, sem>>
fileVars == <<enc, log, reopen, sighups>>
counters == <<dropped, writeErrs>>
flushVars == <<flusher, cur>>
vars == <<reqVars, bufVars, fileVars, counters, flushVars, closer>>

(***************************************************************************)
(* "start"      the middleware has the request                             *)
(* "acquiring"  inside Reserve, pubMu read-locked, selecting on sem        *)
(* "serving"    inside next.ServeHTTP                                      *)
(* "commit"     next has returned or panicked, commit not yet called       *)
(* "publish"    next has returned, Publish not yet called                  *)
(* "enqueuing"  inside Publish, pubMu read-locked, selecting on ch         *)
(* "done"       the handler has returned                                   *)
(* "rejected"   the request was answered 503 without calling next          *)
(***************************************************************************)
ReqStates == {"start", "acquiring", "serving", "commit", "publish",
              "enqueuing", "done", "rejected"}

\* flushLoop is in its main select, writing an entry, in the drain loop,
\* writing an entry of the drain loop, or has returned.
FlushStates == {"select", "write", "drain", "drainWrite", "exited"}

\* Close has not been called, waits for pubMu, has set closed, has closed
\* l.stop and waits for flushLoop, or has closed the file.
CloseStates == {"idle", "locking", "marked", "waiting", "closed"}

\* l.closed
closed == closer \in {"marked", "waiting", "closed"}

Finished == {"done", "rejected"}

At(S) == {r \in Requests : pc[r] \in S}
Entries == {log[i] : i \in DOMAIN log}
Buffered == {ch[i] : i \in DOMAIN ch}

Init ==
  /\ pc = [r \in Requests |-> "start"]
  /\ forwarded = {}
  /\ ch = <<>> /\ sem = 0
  /\ reopen = 0 /\ sighups = 0
  /\ flusher = "select" /\ cur = {}
  /\ enc = "ok" /\ log = <<>>
  /\ dropped = 0 /\ writeErrs = 0
  /\ closer = "idle"

-----------------------------------------------------------------------------
(* pubMu, a sync.RWMutex: read-locked throughout Publish and Reserve, and  *)
(* write-locked by Close.  A waiting writer keeps new readers out.         *)

Readers == At({"acquiring", "enqueuing"})
RLock == closer # "locking"

\* Mutant: Close does not wait for the readers.
WLock_free == TRUE

WLock == Readers = {}

Goto(r, loc) == pc' = [pc EXCEPT ![r] = loc]

-----------------------------------------------------------------------------
(* The middleware in fail-closed mode: Reserve, next, commit.              *)

\* The middleware calls Reserve; a closed logger refuses at once.  Both
\* Reserve and the middleware count the refusal.
Reserve(r) ==
  /\ FailClosed /\ pc[r] = "start" /\ RLock
  /\ IF closed
     THEN Goto(r, "rejected") /\ dropped' = dropped + 2
     ELSE Goto(r, "acquiring") /\ UNCHANGED dropped
  /\ UNCHANGED <<forwarded, bufVars, fileVars, writeErrs, flushVars, closer>>

\* sem <- struct{}{} succeeds.
Acquire(r) ==
  /\ pc[r] = "acquiring"
  /\ sem < Cap
  /\ sem' = sem + 1
  /\ Goto(r, "serving")
  /\ UNCHANGED <<forwarded, ch, fileVars, counters, flushVars, closer>>

\* Mutant: the middleware ignores ok = false.
AcquireFails_ignored(r) ==
  /\ pc[r] = "acquiring"
  /\ EnqueueWaits \/ sem = Cap
  /\ Goto(r, "serving")
  /\ dropped' = dropped + 2
  /\ UNCHANGED <<forwarded, bufVars, fileVars, writeErrs, flushVars, closer>>

\* sem is full, or the timer or the request's context fires first: 503.
AcquireFails(r) ==
  /\ pc[r] = "acquiring"
  /\ EnqueueWaits \/ sem = Cap
  /\ Goto(r, "rejected")
  /\ dropped' = dropped + 2
  /\ UNCHANGED <<forwarded, bufVars, fileVars, writeErrs, flushVars, closer>>

\* Mutant: commit waits for a logger that is still open.
Commit_closed(r) ==
  /\ pc[r] = "commit" /\ ~closed
  /\ Len(ch) < Cap
  /\ ch' = Append(ch, r)
  /\ Goto(r, "done")
  /\ UNCHANGED <<forwarded, sem, fileVars, counters, flushVars, closer>>

\* The deferred commit: a plain, blocking send, outside pubMu.
Commit(r) ==
  /\ pc[r] = "commit"
  /\ Len(ch) < Cap
  /\ ch' = Append(ch, r)
  /\ Goto(r, "done")
  /\ UNCHANGED <<forwarded, sem, fileVars, counters, flushVars, closer>>

-----------------------------------------------------------------------------
(* The middleware in fail-open mode: next, Publish.                        *)

\* The request goes straight to next.
Serve(r) ==
  /\ ~FailClosed /\ pc[r] = "start"
  /\ Goto(r, "serving")
  /\ UNCHANGED <<forwarded, bufVars, fileVars, counters, flushVars, closer>>

\* Mutant: a closed logger drops entries without counting them.
Publish_uncounted(r) ==
  /\ pc[r] = "publish" /\ RLock
  /\ IF closed
     THEN /\ Goto(r, "done")
          /\ UNCHANGED counters
     ELSE Goto(r, "enqueuing") /\ UNCHANGED counters
  /\ UNCHANGED <<forwarded, bufVars, fileVars, flushVars, closer>>

\* Publish on a closed logger drops the entry.
Publish(r) ==
  /\ pc[r] = "publish" /\ RLock
  /\ IF closed
     THEN /\ Goto(r, "done")
          /\ dropped' = dropped + 1 /\ writeErrs' = writeErrs + 1
     ELSE Goto(r, "enqueuing") /\ UNCHANGED counters
  /\ UNCHANGED <<forwarded, bufVars, fileVars, flushVars, closer>>

\* l.ch <- e succeeds.
Enqueue(r) ==
  /\ pc[r] = "enqueuing"
  /\ Len(ch) < Cap
  /\ ch' = Append(ch, r)
  /\ Goto(r, "done")
  /\ UNCHANGED <<forwarded, sem, fileVars, counters, flushVars, closer>>

\* ch is full, or the timer fires first.
dropFull(r) ==
  /\ pc[r] = "enqueuing"
  /\ EnqueueWaits \/ Len(ch) = Cap
  /\ Goto(r, "done")
  /\ dropped' = dropped + 1 /\ writeErrs' = writeErrs + 1
  /\ UNCHANGED <<forwarded, bufVars, fileVars, flushVars, closer>>

-----------------------------------------------------------------------------
(* next.ServeHTTP: the rest of the chain, ending in the upstream call.     *)

\* The chain forwards the action (it need not: authn or authz may refuse).
Forward(r) ==
  /\ pc[r] = "serving" /\ r \notin forwarded
  /\ forwarded' = forwarded \cup {r}
  /\ UNCHANGED <<pc, bufVars, fileVars, counters, flushVars, closer>>

\* next returns.
Return(r) ==
  /\ pc[r] = "serving"
  /\ Goto(r, IF FailClosed THEN "commit" ELSE "publish")
  /\ UNCHANGED <<forwarded, bufVars, fileVars, counters, flushVars, closer>>

\* next panics: the deferred commit still runs, the Publish call does not.
Panic(r) ==
  /\ MayAbort
  /\ pc[r] = "serving"
  /\ Goto(r, IF FailClosed THEN "commit" ELSE "done")
  /\ UNCHANGED <<forwarded, bufVars, fileVars, counters, flushVars, closer>>

-----------------------------------------------------------------------------
(* flushLoop.                                                              *)

\* case e := <-l.ch, in the main select or in the drain loop.
Receive ==
  /\ flusher \in {"select", "drain"}
  /\ ch # <<>>
  /\ cur' = {Head(ch)}
  /\ ch' = Tail(ch)
  /\ flusher' = IF flusher = "select" THEN "write" ELSE "drainWrite"
  /\ UNCHANGED <<reqVars, sem, fileVars, counters, closer>>

\* json.Encoder.Encode: a failed write sticks to the encoder, an entry that
\* cannot be encoded does not.
Encode(e) ==
  \/ /\ enc = "ok"
     /\ log' = Append(log, e)
     /\ UNCHANGED <<enc, writeErrs>>
  \/ /\ enc = "failed" \/ WritesMayFail
     /\ writeErrs' = writeErrs + 1
     /\ enc' \in {enc, "failed"}
     /\ UNCHANGED log

\* Mutant: two permits are released.
Release_twice == sem' = IF sem > 1 THEN sem - 2 ELSE 0

\* The permit is released whatever became of the entry; with no permit held
\* (fail-open) the non-blocking receive does nothing.
Release == sem' = IF sem > 0 THEN sem - 1 ELSE sem

writeAndRelease ==
  /\ flusher \in {"write", "drainWrite"}
  /\ \E e \in cur : Encode(e)
  /\ Release
  /\ cur' = {}
  /\ flusher' = IF flusher = "write" THEN "select" ELSE "drain"
  /\ UNCHANGED <<reqVars, ch, reopen, sighups, dropped, closer>>

\* Mutant: the pending signal is looked at but not received.
ReopenFile_unreceived ==
  /\ flusher = "select" /\ reopen = 1
  /\ UNCHANGED reopen
  /\ enc' \in {"ok", enc}
  /\ UNCHANGED <<reqVars, bufVars, log, sighups, counters, flushVars, closer>>

\* case <-l.reopen: the new file is opened first; a failed open keeps the
\* old file and its encoder.
ReopenFile ==
  /\ flusher = "select" /\ reopen = 1
  /\ reopen' = 0
  /\ enc' \in {"ok", enc}
  /\ UNCHANGED <<reqVars, bufVars, log, sighups, counters, flushVars, closer>>

\* case <-l.stop.
Stop ==
  /\ flusher = "select" /\ closer = "waiting"
  /\ flusher' = "drain"
  /\ UNCHANGED <<reqVars, bufVars, fileVars, counters, cur, closer>>

\* Mutant: a break leaves the select and not the drain loop.
DrainDone_break ==
  /\ flusher = "drain" /\ ch = <<>>
  /\ UNCHANGED vars

\* The drain loop finds ch empty: flushLoop returns and closes l.done.
DrainDone ==
  /\ flusher = "drain" /\ ch = <<>>
  /\ flusher' = "exited"
  /\ UNCHANGED <<reqVars, bufVars, fileVars, counters, cur, closer>>

-----------------------------------------------------------------------------
(* SIGHUP and shutdown.                                                    *)

\* handleSIGHUP calls Reopen, which signals flushLoop unless a signal is
\* already pending.
Reopen ==
  /\ sighups < MaxSighup
  /\ sighups' = sighups + 1
  /\ reopen' = 1
  /\ UNCHANGED <<reqVars, bufVars, enc, log, counters, flushVars, closer>>

\* Close is called once the proxy server has drained, or its drain timed out.
Close ==
  /\ closer = "idle"
  /\ DrainTimesOut \/ \A r \in Requests : pc[r] \in Finished
  /\ closer' = "locking"
  /\ UNCHANGED <<reqVars, bufVars, fileVars, counters, flushVars>>

CloseMark ==
  /\ closer = "locking" /\ WLock
  /\ closer' = "marked"
  /\ UNCHANGED <<reqVars, bufVars, fileVars, counters, flushVars>>

CloseStop ==
  /\ closer = "marked"
  /\ closer' = "waiting"
  /\ UNCHANGED <<reqVars, bufVars, fileVars, counters, flushVars>>

CloseFile ==
  /\ closer = "waiting" /\ flusher = "exited"
  /\ closer' = "closed"
  /\ UNCHANGED <<reqVars, bufVars, fileVars, counters, flushVars>>

-----------------------------------------------------------------------------
RequestStep(r) ==
  \/ Reserve(r) \/ Acquire(r) \/ AcquireFails(r) \/ Commit(r)
  \/ Serve(r) \/ Publish(r) \/ Enqueue(r) \/ dropFull(r) \/ Return(r)

FlushStep == Receive \/ writeAndRelease \/ Stop \/ DrainDone

CloseStep == CloseMark \/ CloseStop \/ CloseFile

\* The process may end once Close has returned.
Terminated == closer = "closed" /\ UNCHANGED vars

Next ==
  \/ \E r \in Requests : RequestStep(r) \/ Forward(r) \/ Panic(r)
  \/ FlushStep \/ ReopenFile
  \/ Reopen
  \/ Close \/ CloseStep
  \/ Terminated

Spec == Init /\ [][Next]_vars

(* Goroutines keep running, timers fire, handlers return (the servers and  *)
(* the upstream transport bound them), and Go's select does not starve the *)
(* reopen case.  Nothing obliges a SIGHUP or a shutdown to arrive.         *)
Fairness ==
  /\ \A r \in Requests : WF_vars(RequestStep(r))
  /\ WF_vars(FlushStep)
  /\ SF_vars(ReopenFile)
  /\ WF_vars(CloseStep)

FairSpec == Spec /\ Fairness

-----------------------------------------------------------------------------
(* Properties.                                                             *)

\* Every variable has its type; the permits held never exceed the semaphore's
\* capacity.
TypeOK ==
  /\ pc \in [Requests -> ReqStates]
  /\ forwarded \subseteq Requests
  /\ ch \in Seq(Requests) /\ sem \in 0..Cap
  /\ reopen \in 0..1 /\ sighups \in 0..MaxSighup
  /\ flusher \in FlushStates /\ cur \subseteq Requests
  /\ enc \in {"ok", "failed"} /\ log \in Seq(Requests)
  /\ dropped \in Nat /\ writeErrs \in Nat
  /\ closer \in CloseStates

Holders == At({"serving", "commit"})

\* Every permit held is a request between Reserve and commit, a buffered
\* entry or the entry flushLoop is writing: no path of Reserve, commit and
\* writeAndRelease leaks or double-releases a permit.
PermitAccounting ==
  FailClosed => sem = Cardinality(Holders) + Len(ch) + Cardinality(cur)

\* The comment on Reserve's commit closure: a request that holds a permit
\* finds room in ch, so the send of commit never blocks, whatever the other
\* requests, flushLoop and Close have done since.
CommitNeverBlocks ==
  \A r \in Requests : pc[r] = "commit" => Len(ch) < Cap

\* Requests whose action went upstream and whose entry is neither on disk
\* nor given up on: what a crash of the process would lose.
Unrecorded ==
  {r \in forwarded : pc[r] \in {"serving", "commit"} \/ r \in Buffered \cup cur}

\* In fail-closed mode at most audit_buffer_size forwarded actions are
\* without a record at any moment, so a crash loses no more than that.
UnrecordedWindow == FailClosed => Cardinality(Unrecorded) <= Cap

\* Every finished request is one line on disk, one entry in the buffer or in
\* flushLoop's hands, or one count of audit_write_errors_total: no entry
\* vanishes silently and none is written twice.
EntriesAccounted ==
  Cardinality(At({"done"}))
    = Len(log) + Len(ch) + Cardinality(cur) + writeErrs

\* Close drains: once flushLoop has returned no entry is left in the buffer,
\* although Publish may still have been selecting on ch when Close was called.
CloseDrains == flusher = "exited" => ch = <<>> /\ cur = {}

\* The refinement mapping to AuditTrail.
trail ==
  [r \in Requests |->
     CASE pc[r] \in {"start", "acquiring"} -> "waiting"
       [] pc[r] = "rejected" -> "refused"
       [] pc[r] \in {"serving", "commit"} \/ (pc[r] = "done" /\ r \in Buffered \cup cur)
            -> IF r \in forwarded THEN "forwarded" ELSE "admitted"
       [] OTHER -> "settled"]

Trail == INSTANCE AuditTrail WITH Window <- Cap, status <- trail

\* In fail-closed mode the middleware and the logger together implement
\* AuditTrail: Reserve, commit, flushLoop and Close admit at most
\* audit_buffer_size open requests, and forward none that was not admitted.
ImplementsTrail == Trail!Spec

\* What design_decisions.md promises of fail-closed mode: an action that was
\* forwarded and answered has a durable record, or will get one.
RecordedOrPending ==
  \A r \in forwarded :
     pc[r] = "done" =>
       \/ r \in Entries
       \/ flusher # "exited" /\ r \in Buffered \cup cur

\* A request is never stuck: neither on pubMu behind Close, nor in Publish or
\* Reserve, nor in the blocking send of commit after flushLoop has gone.
RequestsFinish == \A r \in Requests : pc[r] = "start" ~> pc[r] \in Finished

\* Close returns although Publish and Reserve may hold pubMu while waiting
\* for room and commits keep arriving while flushLoop drains.
CloseReturns == closer = "locking" ~> closer = "closed"

\* A SIGHUP is acted on, unless the logger is shutting down: it is not lost
\* behind a busy entry channel.
ReopenServed == reopen = 1 ~> (reopen = 0 \/ flusher \in {"drain", "drainWrite", "exited"})

=============================================================================

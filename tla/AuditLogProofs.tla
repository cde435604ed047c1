--------------------------- MODULE AuditLogProofs ---------------------------
(***************************************************************************)
(* Proofs about AuditLog, for every set of requests and every capacity:    *)
(* its invariants, and that in fail-closed mode it implements AuditTrail.  *)
(***************************************************************************)
EXTENDS AuditLog, FiniteSetTheorems, SequenceTheorems, TLAPS

\* Moving one goroutine changes the number of goroutines at the locations S
\* by what the move adds and removes.
LEMMA MoveCount ==
  ASSUME NEW f \in [Requests -> ReqStates], NEW r \in Requests, NEW a, NEW S,
         NEW g, g = [f EXCEPT ![r] = a]
  PROVE  /\ Cardinality({x \in Requests : f[x] \in S}) \in Nat
         /\ Cardinality({x \in Requests : g[x] \in S})
              = Cardinality({x \in Requests : f[x] \in S})
                + (IF a \in S THEN 1 ELSE 0) - (IF f[r] \in S THEN 1 ELSE 0)
<1> DEFINE A == {x \in Requests : f[x] \in S}
           B == {x \in Requests : g[x] \in S}
<1>1. IsFiniteSet(A) /\ Cardinality(A) \in Nat
  BY AuditAssumption, FS_Subset, FS_CardinalityType, Zenon DEF AuditAssumption
<1>2. CASE a \in S
  <2>1. B = A \cup {r}
    BY <1>2, Zenon
  <2>2. Cardinality(B) = IF r \in A THEN Cardinality(A) ELSE Cardinality(A) + 1
    BY <1>1, <2>1, FS_AddElement, Zenon
  <2> QED
    BY <1>1, <1>2, <2>2
<1>3. CASE a \notin S
  <2>1. B = A \ {r}
    BY <1>3, Zenon
  <2>2. Cardinality(B) = IF r \in A THEN Cardinality(A) - 1 ELSE Cardinality(A)
    BY <1>1, <2>1, FS_RemoveElement, Zenon
  <2> QED
    BY <1>1, <1>3, <2>2
<1> QED
  BY <1>2, <1>3, Zenon

-----------------------------------------------------------------------------
(* Type correctness.                                                       *)

\* A step of a request goroutine keeps the types.
LEMMA TypeRequest ==
  ASSUME TypeOK, NEW r \in Requests, RequestStep(r) \/ Forward(r) \/ Panic(r)
  PROVE  TypeOK'
<1> USE AuditAssumption DEF AuditAssumption, TypeOK, ReqStates, Goto, bufVars, fileVars,
      counters, flushVars
<1>1. CASE Reserve(r)
  BY <1>1 DEF Reserve, closed
<1>2. CASE Acquire(r)
  BY <1>2 DEF Acquire
<1>3. CASE AcquireFails(r)
  BY <1>3 DEF AcquireFails
<1>4. CASE Commit(r) \/ Enqueue(r)
  <2>1. Append(ch, r) \in Seq(Requests)
    BY ONLY TypeOK, r \in Requests DEF TypeOK
  <2> QED
    BY <1>4, <2>1, Zenon DEF Commit, Enqueue
<1>5. CASE Serve(r) \/ Forward(r)
  BY <1>5, Zenon DEF Serve, Forward
<1>6. CASE Return(r) \/ Panic(r)
  BY <1>6, Zenon DEF Return, Panic
<1>7. CASE Publish(r)
  BY <1>7 DEF Publish
<1>8. CASE dropFull(r)
  BY <1>8 DEF dropFull
<1> QED
  BY <1>1, <1>2, <1>3, <1>4, <1>5, <1>6, <1>7, <1>8, SMTT(30) DEF RequestStep

\* A step of flushLoop keeps the types.
LEMMA TypeFlush ==
  ASSUME TypeOK, FlushStep \/ ReopenFile
  PROVE  TypeOK'
<1> USE AuditAssumption DEF AuditAssumption, TypeOK, FlushStates, reqVars, bufVars, fileVars,
      counters, flushVars
<1>1. CASE Receive
  BY <1>1, HeadTailProperties, Zenon DEF Receive
<1>2. CASE writeAndRelease
  <2>1. PICK e \in cur : Encode(e)
    BY <1>2, Zenon DEF writeAndRelease
  <2>2. Append(log, e) \in Seq(Requests)
    BY ONLY TypeOK, e \in cur DEF TypeOK
  <2>3. /\ log' \in {log, Append(log, e)} /\ enc' \in {enc, "failed"}
        /\ writeErrs' \in {writeErrs, writeErrs + 1}
    BY ONLY <2>1, Zenon DEF Encode
  <2>4. log' \in Seq(Requests) /\ enc' \in {"ok", "failed"} /\ writeErrs' \in Nat
    <3>1. log' \in Seq(Requests)
      BY ONLY TypeOK, <2>2, <2>3, SMTT(30) DEF TypeOK
    <3>2. enc' \in {"ok", "failed"}
      BY ONLY TypeOK, <2>3, Zenon DEF TypeOK
    <3>3. writeErrs' \in Nat
      BY ONLY TypeOK, <2>3 DEF TypeOK
    <3> QED
      BY <3>1, <3>2, <3>3, Zenon
  <2>5. sem' \in 0..Cap
    BY <1>2 DEF writeAndRelease, Release
  <2> QED
    BY <1>2, <2>4, <2>5, Zenon DEF writeAndRelease
<1>3. CASE Stop \/ DrainDone \/ ReopenFile
  BY <1>3 DEF Stop, DrainDone, ReopenFile
<1> QED
  BY <1>1, <1>2, <1>3, SMTT(30) DEF FlushStep

\* A SIGHUP or a step of Close keeps the types.
LEMMA TypeOther ==
  ASSUME TypeOK, Reopen \/ Close \/ CloseStep
  PROVE  TypeOK'
BY AuditAssumption DEF AuditAssumption, TypeOK, CloseStates, reqVars, bufVars, fileVars,
   counters, flushVars, Reopen, Close, CloseStep, CloseMark, CloseStop, CloseFile

\* The variables keep their types: in particular the number of permits held
\* stays between 0 and the capacity of the semaphore.
THEOREM TypeCorrect == Spec => []TypeOK
<1>1. Init => TypeOK
  BY AuditAssumption DEF AuditAssumption, Init, TypeOK, ReqStates, FlushStates, CloseStates
<1>2. TypeOK /\ [Next]_vars => TypeOK'
  <2> SUFFICES ASSUME TypeOK, [Next]_vars PROVE TypeOK'
    BY Zenon
  <2>1. CASE UNCHANGED vars
    BY <2>1, Zenon DEF TypeOK, vars, reqVars, bufVars, fileVars, counters, flushVars
  <2> QED
    BY <2>1, TypeRequest, TypeFlush, TypeOther, Zenon DEF Next, Terminated
<1> QED
  BY <1>1, <1>2, PTL DEF Spec

-----------------------------------------------------------------------------
(* The inductive invariant: which locations each mode uses, what flushLoop *)
(* holds, what Close has achieved, and the two counting identities.        *)

Writing == flusher \in {"write", "drainWrite"}

Structure ==
  /\ ~FailClosed => sem = 0 /\ At({"acquiring", "commit", "rejected"}) = {}
  /\ FailClosed => At({"publish", "enqueuing"}) = {}
  /\ Writing => \E e \in Requests : cur = {e}
  /\ ~Writing => cur = {}
  /\ flusher \in {"drain", "drainWrite", "exited"} => closer \in {"waiting", "closed"}
  /\ closed => Readers = {}
  /\ ~DrainTimesOut /\ closer # "idle" => \A r \in Requests : pc[r] \in Finished
  /\ (~FailClosed \/ ~DrainTimesOut) /\ flusher = "exited" => ch = <<>>

\* The number of entries in flushLoop's hands.
LEMMA CurCount ==
  ASSUME Structure
  PROVE  Cardinality(cur) = IF Writing THEN 1 ELSE 0
BY FS_EmptySet, FS_Singleton, Zenon DEF Structure

\* The two counts that the identities mention, across a move of one request.
LEMMA Counts ==
  ASSUME TypeOK, NEW r \in Requests, NEW a, Goto(r, a)
  PROVE  /\ Cardinality(Holders) \in Nat /\ Cardinality(At({"done"})) \in Nat
         /\ Cardinality(Holders') = Cardinality(Holders)
              + (IF a \in {"serving", "commit"} THEN 1 ELSE 0)
              - (IF pc[r] \in {"serving", "commit"} THEN 1 ELSE 0)
         /\ Cardinality(At({"done"})') = Cardinality(At({"done"}))
              + (IF a \in {"done"} THEN 1 ELSE 0)
              - (IF pc[r] \in {"done"} THEN 1 ELSE 0)
<1>1. pc \in [Requests -> ReqStates] /\ pc' = [pc EXCEPT ![r] = a]
  BY Zenon DEF TypeOK, Goto
<1>2. /\ Holders = {x \in Requests : pc[x] \in {"serving", "commit"}}
      /\ Holders' = {x \in Requests : pc'[x] \in {"serving", "commit"}}
      /\ At({"done"}) = {x \in Requests : pc[x] \in {"done"}}
      /\ At({"done"})' = {x \in Requests : pc'[x] \in {"done"}}
  BY Zenon DEF Holders, At
<1>3. ASSUME NEW S
      PROVE  /\ Cardinality({x \in Requests : pc[x] \in S}) \in Nat
             /\ Cardinality({x \in Requests : pc'[x] \in S})
                  = Cardinality({x \in Requests : pc[x] \in S})
                    + (IF a \in S THEN 1 ELSE 0) - (IF pc[r] \in S THEN 1 ELSE 0)
  BY ONLY <1>1, r \in Requests, MoveCount, SMTT(30)
<1> QED
  BY ONLY <1>2, <1>3, Zenon

\* A request's step keeps the structure.
LEMMA StructureRequest ==
  ASSUME TypeOK, Structure, NEW r \in Requests, RequestStep(r) \/ Forward(r) \/ Panic(r)
  PROVE  Structure'
<1> USE DEF TypeOK, Structure, At, Goto, Readers, Writing, closed, bufVars, flushVars, Finished
<1>1. CASE Reserve(r)
  BY <1>1, Zenon DEF Reserve
<1>2. CASE Acquire(r) \/ AcquireFails(r)
  BY <1>2, Zenon DEF Acquire, AcquireFails
<1>3. CASE Commit(r) \/ Enqueue(r)
  BY <1>3, Zenon DEF Commit, Enqueue
<1>4. CASE Serve(r) \/ Return(r) \/ Forward(r) \/ Panic(r)
  BY <1>4, Zenon DEF Serve, Return, Forward, Panic
<1>5. CASE Publish(r) \/ dropFull(r)
  BY <1>5, Zenon DEF Publish, dropFull, RLock
<1> QED
  BY <1>1, <1>2, <1>3, <1>4, <1>5, SMTT(30) DEF RequestStep

\* A step of flushLoop, of Close or of SIGHUP keeps the structure.
LEMMA StructureOther ==
  ASSUME TypeOK, Structure, FlushStep \/ ReopenFile \/ Reopen \/ Close \/ CloseStep
  PROVE  Structure'
<1> USE DEF TypeOK, Structure, At, Readers, Writing, closed, reqVars, bufVars, flushVars, Finished
<1>1. CASE Receive
  BY <1>1, HeadTailProperties, SMTT(30) DEF Receive, FlushStates
<1>2. CASE writeAndRelease
  BY <1>2 DEF writeAndRelease, Release
<1>3. CASE Stop \/ DrainDone \/ ReopenFile
  BY <1>3, Zenon DEF Stop, DrainDone, ReopenFile
<1>4. CASE Reopen \/ Close \/ CloseStep
  BY <1>4, Zenon DEF Reopen, Close, CloseStep, CloseMark, CloseStop, CloseFile, WLock
<1> QED
  BY <1>1, <1>2, <1>3, <1>4, Zenon DEF FlushStep

Accounts ==
  /\ PermitAccounting
  /\ FailClosed \/ ~MayAbort => EntriesAccounted

IInv == TypeOK /\ Structure /\ Accounts

\* A request's step keeps both identities.
LEMMA AccountsRequest ==
  ASSUME IInv, NEW r \in Requests, RequestStep(r) \/ Forward(r) \/ Panic(r), Structure'
  PROVE  Accounts'
<1> DEFINE H == Cardinality(Holders)
           D == Cardinality(At({"done"}))
           C == Cardinality(cur)
<1>1. /\ TypeOK /\ Structure
      /\ FailClosed => sem = H + Len(ch) + C
      /\ FailClosed \/ ~MayAbort => D = Len(log) + Len(ch) + C + writeErrs
      /\ Len(ch) \in Nat /\ Len(log) \in Nat /\ C \in Nat
  BY CurCount DEF IInv, Accounts, PermitAccounting, EntriesAccounted, TypeOK
<1>2. SUFFICES /\ FailClosed => sem' = H' + Len(ch') + C'
               /\ FailClosed \/ ~MayAbort => D' = Len(log') + Len(ch') + C' + writeErrs'
  BY Zenon DEF Accounts, PermitAccounting, EntriesAccounted
<1>3. C' = C /\ log' = log
  BY Zenon DEF RequestStep, Reserve, Acquire, AcquireFails, Commit, Serve, Publish, Enqueue,
         dropFull, Return, Forward, Panic, fileVars, flushVars
<1>4. ASSUME NEW a, Goto(r, a)
      PROVE  /\ H \in Nat /\ D \in Nat
             /\ H' = H + (IF a \in {"serving", "commit"} THEN 1 ELSE 0)
                       - (IF pc[r] \in {"serving", "commit"} THEN 1 ELSE 0)
             /\ D' = D + (IF a \in {"done"} THEN 1 ELSE 0)
                       - (IF pc[r] \in {"done"} THEN 1 ELSE 0)
  BY ONLY <1>1, <1>4, r \in Requests, Counts, Zenon
<1> HIDE DEF H, D, C
<1>5. CASE Reserve(r)
  <2>1. \E a \in {"rejected", "acquiring"} : Goto(r, a)
    BY <1>5, Zenon DEF Reserve
  <2>2. /\ pc[r] = "start" /\ ch' = ch /\ sem' = sem /\ writeErrs' = writeErrs
    BY <1>5, Zenon DEF Reserve, bufVars
  <2> QED
    BY <1>1, <1>3, <1>4, <2>1, <2>2
<1>6. CASE Acquire(r)
  <2>1. H' = H + 1 /\ D' = D /\ H \in Nat /\ D \in Nat
    BY <1>4, <1>6 DEF Acquire
  <2>2. sem' = sem + 1 /\ ch' = ch /\ writeErrs' = writeErrs
    BY <1>6, Zenon DEF Acquire, counters
  <2> QED
    BY <1>1, <1>3, <2>1, <2>2
<1>7. CASE AcquireFails(r)
  BY <1>1, <1>3, <1>4, <1>7 DEF AcquireFails, bufVars
<1>8. CASE Commit(r) \/ Enqueue(r)
  <2>1. Len(ch') = Len(ch) + 1
    BY <1>1, <1>8, AppendProperties, SMTT(30) DEF Commit, Enqueue, TypeOK
  <2>2. FailClosed => pc[r] = "commit"
    BY <1>1, <1>8, Zenon DEF Structure, At, Commit, Enqueue
  <2>3. /\ Goto(r, "done") /\ pc[r] \in {"commit", "enqueuing"} /\ sem' = sem
        /\ writeErrs' = writeErrs
    BY <1>8, Zenon DEF Commit, Enqueue, counters
  <2>4. D' = D + 1 /\ (FailClosed => H' = H - 1) /\ H \in Nat /\ D \in Nat
    BY <1>4, <2>2, <2>3
  <2> QED
    BY <1>1, <1>3, <2>1, <2>3, <2>4, SMTT(30) DEF TypeOK
<1>9. CASE Serve(r)
  BY <1>1, <1>3, <1>4, <1>9, SMTT(30) DEF Serve, bufVars, counters
<1>10. CASE Return(r)
  BY <1>1, <1>3, <1>4, <1>10 DEF Return, bufVars, counters
<1>11. CASE Panic(r)
  BY <1>1, <1>3, <1>4, <1>11 DEF Panic, bufVars, counters
<1>12. CASE Forward(r)
  <2>1. H' = H /\ D' = D
    BY <1>12, Zenon DEF Forward, H, D, Holders, At
  <2> QED
    BY <1>1, <1>3, <1>12, <2>1, Zenon DEF Forward, bufVars, counters
<1>13. CASE Publish(r)
  <2>1. /\ pc[r] = "publish" /\ ch' = ch
        /\ \/ Goto(r, "done") /\ writeErrs' = writeErrs + 1
           \/ Goto(r, "enqueuing") /\ writeErrs' = writeErrs
    BY <1>13, Zenon DEF Publish, bufVars, counters
  <2>2. ~FailClosed
    BY <1>1, <2>1, Zenon DEF Structure, At
  <2> QED
    BY <1>1, <1>3, <1>4, <2>1, <2>2, SMTT(30) DEF TypeOK
<1>14. CASE dropFull(r)
  <2>1. ~FailClosed
    BY <1>1, <1>14, Zenon DEF Structure, At, dropFull
  <2> QED
    BY <1>1, <1>3, <1>4, <1>14, <2>1, SMTT(30) DEF dropFull, bufVars, TypeOK
<1> QED
  BY <1>5, <1>6, <1>7, <1>8, <1>9, <1>10, <1>11, <1>12, <1>13, <1>14, SMTT(30) DEF RequestStep

\* A step of flushLoop, of Close or of SIGHUP keeps both identities.
LEMMA AccountsOther ==
  ASSUME IInv, FlushStep \/ ReopenFile \/ Reopen \/ Close \/ CloseStep, Structure'
  PROVE  Accounts'
<1> DEFINE H == Cardinality(Holders)
           D == Cardinality(At({"done"}))
           C == Cardinality(cur)
<1>1. /\ TypeOK /\ Structure
      /\ FailClosed => sem = H + Len(ch) + C
      /\ FailClosed \/ ~MayAbort => D = Len(log) + Len(ch) + C + writeErrs
      /\ Len(ch) \in Nat /\ Len(log) \in Nat
      /\ C = IF Writing THEN 1 ELSE 0
  BY CurCount DEF IInv, Accounts, PermitAccounting, EntriesAccounted, TypeOK
<1>2. SUFFICES /\ FailClosed => sem' = H' + Len(ch') + C'
               /\ FailClosed \/ ~MayAbort => D' = Len(log') + Len(ch') + C' + writeErrs'
  BY Zenon DEF Accounts, PermitAccounting, EntriesAccounted
<1>3. C' = IF Writing' THEN 1 ELSE 0
  BY FS_EmptySet, FS_Singleton, Zenon DEF Structure
<1>4. H' = H /\ D' = D /\ H \in Nat /\ D \in Nat
  <2>1. pc' = pc
    BY Zenon DEF FlushStep, Receive, writeAndRelease, Stop, DrainDone, ReopenFile, Reopen, Close,
           CloseStep, CloseMark, CloseStop, CloseFile, reqVars
  <2>2. IsFiniteSet(Holders) /\ IsFiniteSet(At({"done"}))
    BY FS_Subset, AuditAssumption, Zenon DEF AuditAssumption, Holders, At
  <2> QED
    BY <2>1, <2>2, FS_CardinalityType, Zenon DEF Holders, At
<1> HIDE DEF H, D, C
<1>5. CASE Receive
  <2>1. Len(ch') = Len(ch) - 1 /\ ~Writing /\ Writing'
    BY <1>1, <1>5, HeadTailProperties, Zenon DEF Receive, Writing, TypeOK
  <2>2. sem' = sem /\ log' = log /\ writeErrs' = writeErrs
    BY <1>5, Zenon DEF Receive, fileVars, counters
  <2> QED
    BY <1>1, <1>3, <1>4, <2>1, <2>2, SMTT(30) DEF TypeOK
<1>6. CASE writeAndRelease
  <2>1. Writing /\ ~Writing' /\ ch' = ch
    BY <1>6, Zenon DEF writeAndRelease, Writing
  <2>2. PICK e \in cur : Encode(e)
    BY <1>6, Zenon DEF writeAndRelease
  <2>3. Len(Append(log, e)) = Len(log) + 1
    BY <1>1, <2>2, AppendProperties DEF TypeOK
  <2>4. \/ log' = Append(log, e) /\ writeErrs' = writeErrs
        \/ log' = log /\ writeErrs' = writeErrs + 1
    BY ONLY <2>2, Zenon DEF Encode
  <2>5. \/ Len(log') = Len(log) + 1 /\ writeErrs' = writeErrs
        \/ Len(log') = Len(log) /\ writeErrs' = writeErrs + 1
    BY ONLY <2>3, <2>4, SMTT(30)
  <2>6. FailClosed => sem' = sem - 1
    BY <1>1, <1>4, <1>6, <2>1, SMTT(30) DEF writeAndRelease, Release, TypeOK
  <2>7. C = 1 /\ C' = 0 /\ Len(ch') = Len(ch)
    BY <1>1, <1>3, <2>1, SMTT(30)
  <2>8. Len(log) \in Nat /\ writeErrs \in Nat /\ sem \in Nat /\ Len(ch) \in Nat
    BY <1>1, AuditAssumption DEF TypeOK, AuditAssumption
  <2> QED
    BY <1>1, <1>4, <2>5, <2>6, <2>7, <2>8, SMTT(30)
<1>7. CASE Stop \/ DrainDone \/ ReopenFile \/ Reopen \/ Close \/ CloseStep
  <2>1. /\ sem' = sem /\ ch' = ch /\ log' = log /\ writeErrs' = writeErrs
        /\ Writing' = Writing
    BY <1>7 DEF Stop, DrainDone, ReopenFile, Reopen, Close, CloseStep, CloseMark, CloseStop,
                CloseFile, bufVars, fileVars, counters, flushVars, Writing
  <2> QED
    BY <1>1, <1>3, <1>4, <2>1, SMTT(30)
<1> QED
  BY <1>5, <1>6, <1>7, Zenon DEF FlushStep

-----------------------------------------------------------------------------
(* The theorems.                                                           *)

\* IInv holds in every reachable state.
LEMMA Invariance == Spec => []IInv
<1>1. Init => IInv
  <2>1. ASSUME Init PROVE TypeOK /\ Structure
    BY <2>1, AuditAssumption DEF AuditAssumption, Init, TypeOK, ReqStates, FlushStates,
       CloseStates, Structure, At, Writing, closed, Readers, Finished
  <2>2. ASSUME Init
        PROVE  /\ Cardinality(Holders) = 0 /\ Cardinality(At({"done"})) = 0
               /\ Cardinality(cur) = 0
    <3>1. Holders = {} /\ At({"done"}) = {} /\ cur = {}
      BY <2>2, Zenon DEF Init, Holders, At
    <3> QED
      BY <3>1, FS_EmptySet, Zenon
  <2>3. ASSUME Init PROVE Accounts
    <3>1. Len(ch) = 0 /\ Len(log) = 0 /\ sem = 0 /\ writeErrs = 0
      BY <2>3, Zenon DEF Init
    <3> QED
      BY <2>2, <2>3, <3>1 DEF Accounts, PermitAccounting, EntriesAccounted
  <2> QED
    BY <2>1, <2>3, Zenon DEF IInv
<1>2. IInv /\ [Next]_vars => IInv'
  <2> SUFFICES ASSUME IInv, [Next]_vars PROVE IInv'
    BY Zenon
  <2>1. CASE UNCHANGED vars
    <3>1. TypeOK' /\ Structure'
      BY <2>1, Zenon DEF vars, reqVars, bufVars, fileVars, counters, flushVars, IInv, TypeOK,
         Structure, At, Writing, closed, Readers
    <3>2. Accounts'
      BY <2>1, Zenon DEF vars, reqVars, bufVars, fileVars, counters, flushVars, IInv, Accounts,
         PermitAccounting, EntriesAccounted, Holders, At
    <3> QED
      BY <3>1, <3>2, SMTT(30) DEF IInv
  <2>2. ASSUME NEW r \in Requests, RequestStep(r) \/ Forward(r) \/ Panic(r)
        PROVE  IInv'
    BY <2>2, TypeRequest, StructureRequest, AccountsRequest, Zenon DEF IInv
  <2>3. ASSUME FlushStep \/ ReopenFile \/ Reopen \/ Close \/ CloseStep
        PROVE  IInv'
    BY <2>3, TypeFlush, TypeOther, StructureOther, AccountsOther, Zenon DEF IInv
  <2> QED
    BY <2>1, <2>2, <2>3, Zenon DEF Next, Terminated
<1> QED
  BY <1>1, <1>2, PTL DEF Spec

\* Fail-closed mode never leaks or double-releases a reservation permit,
\* whatever requests, flushLoop, SIGHUP and Close do.
THEOREM PermitsAccounted == Spec => []PermitAccounting
<1>1. IInv => PermitAccounting
  BY Zenon DEF IInv, Accounts
<1> QED
  BY <1>1, Invariance, PTL

\* The claim on which fail-closed mode rests: commit's send never blocks.
THEOREM CommitCannotBlock == Spec => []CommitNeverBlocks
<1>1. IInv => CommitNeverBlocks
  <2> SUFFICES ASSUME IInv, NEW r \in Requests, pc[r] = "commit"
               PROVE  Len(ch) < Cap
    BY Zenon DEF CommitNeverBlocks
  <2>1. FailClosed /\ r \in Holders
    BY Zenon DEF IInv, Structure, At, Holders
  <2>2. IsFiniteSet(Holders)
    BY FS_Subset, AuditAssumption, Zenon DEF AuditAssumption, Holders, At
  <2>3. Cardinality(Holders) \in Nat /\ Cardinality(Holders) # 0
    BY <2>1, <2>2, FS_EmptySet, FS_CardinalityType, Zenon
  <2>4. Cardinality(cur) \in Nat
    BY CurCount DEF IInv
  <2>5. sem = Cardinality(Holders) + Len(ch) + Cardinality(cur)
    BY <2>1, Zenon DEF IInv, Accounts, PermitAccounting
  <2> QED
    BY <2>3, <2>4, <2>5, AuditAssumption DEF IInv, TypeOK, AuditAssumption
<1> QED
  BY <1>1, Invariance, PTL

\* No entry vanishes uncounted and none is written twice, in fail-closed mode
\* or when no handler panics.
THEOREM LossesCounted ==
  ASSUME FailClosed \/ ~MayAbort
  PROVE  Spec => []EntriesAccounted
<1>1. IInv => EntriesAccounted
  BY Zenon DEF IInv, Accounts
<1> QED
  BY <1>1, Invariance, PTL

\* Close leaves nothing in the buffer, in fail-open mode or when the servers
\* drained before Close.
THEOREM ShutdownDrains ==
  ASSUME ~FailClosed \/ ~DrainTimesOut
  PROVE  Spec => []CloseDrains
<1>1. IInv => CloseDrains
  BY Zenon DEF IInv, Structure, CloseDrains, Writing
<1> QED
  BY <1>1, Invariance, PTL

\* A union has no more elements than its parts together.
LEMMA UnionBound ==
  ASSUME NEW S, NEW T, IsFiniteSet(S), IsFiniteSet(T)
  PROVE  IsFiniteSet(S \cup T) /\ Cardinality(S \cup T) <= Cardinality(S) + Cardinality(T)
<1>1. IsFiniteSet(S \cap T)
  BY FS_Intersection, Zenon
<1>2. Cardinality(S) \in Nat /\ Cardinality(T) \in Nat /\ Cardinality(S \cap T) \in Nat
  BY <1>1, FS_CardinalityType, Zenon
<1>3. /\ IsFiniteSet(S \cup T)
      /\ Cardinality(S \cup T) = Cardinality(S) + Cardinality(T) - Cardinality(S \cap T)
  BY FS_Union, SMTT(30)
<1> QED
  BY <1>2, <1>3

\* At most audit_buffer_size forwarded actions are without a record.
THEOREM WindowBounded == Spec => []UnrecordedWindow
<1>1. IInv => UnrecordedWindow
  <2> SUFFICES ASSUME IInv, FailClosed PROVE Cardinality(Unrecorded) <= Cap
    BY Zenon DEF UnrecordedWindow
  <2>1. IsFiniteSet(Holders) /\ IsFiniteSet(cur)
    BY FS_Subset, AuditAssumption, Zenon DEF AuditAssumption, Holders, At, IInv, TypeOK
  <2>2. ch \in Surjection(1..Len(ch), Buffered) /\ Len(ch) \in Nat
    BY DEF IInv, TypeOK, Buffered, Surjection
  <2>3. IsFiniteSet(1..Len(ch)) /\ Cardinality(1..Len(ch)) = Len(ch)
    BY <2>2, FS_Interval, SMTT(30)
  <2>4. IsFiniteSet(Buffered) /\ Cardinality(Buffered) <= Len(ch)
    BY <2>2, <2>3, FS_Surjection
  <2>5. /\ IsFiniteSet(Holders \cup Buffered)
        /\ Cardinality(Holders \cup Buffered) <= Cardinality(Holders) + Cardinality(Buffered)
    BY <2>1, <2>4, UnionBound, Zenon
  <2>6. /\ IsFiniteSet((Holders \cup Buffered) \cup cur)
        /\ Cardinality((Holders \cup Buffered) \cup cur)
             <= Cardinality(Holders \cup Buffered) + Cardinality(cur)
    BY <2>1, <2>5, UnionBound, Zenon
  <2>7. Unrecorded \subseteq (Holders \cup Buffered) \cup cur
    BY Zenon DEF Unrecorded, Holders, At, IInv, TypeOK
  <2>8. Cardinality(Unrecorded) <= Cardinality((Holders \cup Buffered) \cup cur)
    BY <2>6, <2>7, FS_Subset, Zenon
  <2>9. sem = Cardinality(Holders) + Len(ch) + Cardinality(cur) /\ sem \in 0..Cap
    BY Zenon DEF IInv, Accounts, PermitAccounting, TypeOK
  <2>10. /\ Cardinality(Unrecorded) \in Nat
         /\ Cardinality((Holders \cup Buffered) \cup cur) \in Nat
    BY <2>6, <2>7, FS_Subset, FS_CardinalityType, Zenon
  <2>11. /\ Cardinality(Holders) \in Nat /\ Cardinality(Buffered) \in Nat
         /\ Cardinality(Holders \cup Buffered) \in Nat /\ Cardinality(cur) \in Nat
    BY <2>1, <2>4, <2>5, FS_CardinalityType, Zenon
  <2> QED
    BY <2>2, <2>4, <2>5, <2>6, <2>8, <2>9, <2>10, <2>11, AuditAssumption, SMTT(30)
       DEF AuditAssumption
<1> QED
  BY <1>1, Invariance, PTL

-----------------------------------------------------------------------------
(* The refinement of AuditTrail.                                           *)

Pending == Buffered \cup cur

\* What the refinement needs beyond IInv: an entry is in the buffer or in
\* flushLoop's hands once, only after its request is done, and no request is
\* forwarded before its permit is acquired.
Unique ==
  /\ \A i, j \in 1..Len(ch) : ch[i] = ch[j] => i = j
  /\ Buffered \cap cur = {}
  /\ \A r \in Pending : pc[r] = "done"
  /\ \A r \in forwarded : pc[r] \notin {"start", "acquiring", "rejected"}

\* Appending an entry adds it to the buffered set.
LEMMA AppendBuffered ==
  ASSUME TypeOK, NEW r \in Requests, ch' = Append(ch, r)
  PROVE  Buffered' = Buffered \cup {r}
<1>1. /\ Len(ch') = Len(ch) + 1 /\ Len(ch) \in Nat
      /\ DOMAIN ch = 1..Len(ch) /\ DOMAIN ch' = 1..Len(ch')
      /\ \A i \in 1..Len(ch) : ch'[i] = ch[i]
      /\ ch'[Len(ch) + 1] = r
  BY AppendProperties, LenProperties DEF TypeOK
<1>2. Buffered' = {ch'[i] : i \in 1..(Len(ch) + 1)} /\ Buffered = {ch[i] : i \in 1..Len(ch)}
  BY <1>1, Zenon DEF Buffered
<1>3. 1..(Len(ch) + 1) = (1..Len(ch)) \cup {Len(ch) + 1}
  BY <1>1
<1> QED
  BY <1>1, <1>2, <1>3

\* Receiving moves the oldest entry from the buffer to flushLoop.
LEMMA ReceiveBuffered ==
  ASSUME TypeOK, Unique, ch # <<>>, ch' = Tail(ch)
  PROVE  /\ Head(ch) \in Requests /\ Head(ch) \in Buffered
         /\ Buffered' = Buffered \ {Head(ch)}
         /\ \A i, j \in 1..Len(ch') : ch'[i] = ch'[j] => i = j
<1>1. /\ Len(ch) \in Nat \ {0} /\ Len(ch') = Len(ch) - 1 /\ Head(ch) = ch[1]
      /\ DOMAIN ch = 1..Len(ch) /\ DOMAIN ch' = 1..Len(ch')
      /\ \A i \in 1..Len(ch') : ch'[i] = ch[i + 1]
      /\ Head(ch) \in Requests
  BY HeadTailProperties, LenProperties, EmptySeq DEF TypeOK
<1>2. Buffered' = {ch[i + 1] : i \in 1..(Len(ch) - 1)} /\ Buffered = {ch[i] : i \in 1..Len(ch)}
  BY <1>1, Zenon DEF Buffered
<1>3. \A i, j \in 1..Len(ch') : ch'[i] = ch'[j] => i = j
  BY <1>1 DEF Unique
<1>4. Buffered \subseteq Buffered' \cup {Head(ch)}
  <2> SUFFICES ASSUME NEW i \in 1..Len(ch), i # 1 PROVE ch[i] \in Buffered'
    BY <1>1, <1>2
  <2>1. i - 1 \in 1..(Len(ch) - 1) /\ (i - 1) + 1 = i
    BY <1>1
  <2> QED
    BY <1>2, <2>1, Zenon
<1>5. Buffered' \subseteq Buffered \ {Head(ch)}
  <2> SUFFICES ASSUME NEW i \in 1..(Len(ch) - 1)
               PROVE  ch[i + 1] \in Buffered /\ ch[i + 1] # ch[1]
    BY <1>1, <1>2
  <2>1. i + 1 \in 1..Len(ch) /\ 1 \in 1..Len(ch) /\ i + 1 # 1
    BY <1>1
  <2> QED
    BY <1>2, <2>1, Zenon DEF Unique
<1> QED
  BY <1>1, <1>2, <1>3, <1>4, <1>5

-----------------------------------------------------------------------------
\* Every step of the middleware and the logger preserves Unique.
LEMMA UniqueStep ==
  ASSUME FailClosed, IInv, Unique, [Next]_vars
  PROVE  Unique'
<1> USE DEF Unique, Pending
<1>1. TypeOK /\ Structure
  BY Zenon DEF IInv
<1>2. ASSUME NEW r \in Requests, Commit(r)
      PROVE  Unique'
  <2>1. Buffered' = Buffered \cup {r} /\ r \notin Pending
    BY <1>1, <1>2, AppendBuffered, Zenon DEF Commit
  <2>2. \A k, j \in 1..Len(ch') : ch'[k] = ch'[j] => k = j
    <3>1. /\ Len(ch') = Len(ch) + 1 /\ Len(ch) \in Nat
          /\ \A k \in 1..Len(ch) : ch'[k] = ch[k] /\ ch[k] \in Buffered
          /\ ch'[Len(ch) + 1] = r
      BY <1>1, <1>2, AppendProperties, LenProperties, SMTT(30) DEF TypeOK, Commit, Buffered
    <3>2. \A k \in 1..Len(ch') : k \in 1..Len(ch) \/ k = Len(ch) + 1
      BY <3>1
    <3> QED
      BY <2>1, <3>1, <3>2, Zenon
  <2>3. pc' = [pc EXCEPT ![r] = "done"] /\ cur' = cur /\ forwarded' = forwarded
    BY <1>2, Zenon DEF Commit, Goto, flushVars
  <2> QED
    BY <1>1, <2>1, <2>2, <2>3 DEF TypeOK
<1>3. ASSUME NEW r \in Requests, (RequestStep(r) \/ Panic(r)) /\ ~Commit(r)
      PROVE  Unique'
  <2>1. /\ UNCHANGED <<ch, cur, forwarded>>
        /\ \E a : Goto(r, a) /\ (a \in {"acquiring", "rejected"} => pc[r] \in {"start", "acquiring"})
                  /\ a # "start"
        /\ pc[r] # "done"
    BY <1>1, <1>3, Zenon DEF RequestStep, Panic, Reserve, Acquire, AcquireFails, Serve, Publish,
       Enqueue, dropFull, Return, bufVars, flushVars, Structure, At
  <2> QED
    BY <1>1, <2>1, SMTT(30) DEF TypeOK, Goto, Buffered
<1>4. ASSUME NEW r \in Requests, Forward(r)
      PROVE  Unique'
  BY <1>4 DEF Forward, bufVars, flushVars, Buffered
<1>5. CASE Receive
  <2>1. /\ Head(ch) \in Buffered /\ Buffered' = Buffered \ {Head(ch)}
        /\ \A k, j \in 1..Len(ch') : ch'[k] = ch'[j] => k = j
        /\ cur = {} /\ cur' = {Head(ch)} /\ pc' = pc /\ forwarded' = forwarded
    BY <1>1, <1>5, ReceiveBuffered, Zenon DEF Receive, Structure, Writing, reqVars
  <2> QED
    BY <2>1, Zenon
<1>6. CASE writeAndRelease
  BY <1>6 DEF writeAndRelease, reqVars, Buffered
<1>7. CASE Stop \/ DrainDone \/ ReopenFile \/ Reopen \/ Close \/ CloseStep \/ UNCHANGED vars
  <2>1. UNCHANGED <<ch, cur, pc, forwarded>>
    BY <1>7, Zenon DEF Stop, DrainDone, ReopenFile, Reopen, Close, CloseStep, CloseMark, CloseStop,
       CloseFile, vars, reqVars, bufVars, flushVars
  <2> QED
    BY <2>1 DEF Buffered
<1> QED
  BY <1>2, <1>3, <1>4, <1>5, <1>6, <1>7, Zenon DEF Next, FlushStep, Terminated

-----------------------------------------------------------------------------
(* The simulation.                                                         *)

\* No more requests are open in AuditTrail than permits are held.
LEMMA OpenBound ==
  ASSUME FailClosed, IInv, Unique
  PROVE  IsFiniteSet(Trail!Open) /\ Cardinality(Trail!Open) <= sem
<1>1. Trail!Open \subseteq (Holders \cup Buffered) \cup cur
  BY Zenon DEF Trail!Open, trail, Holders, At
<1>2. IsFiniteSet(Holders) /\ IsFiniteSet(cur)
  BY FS_Subset, AuditAssumption, Zenon DEF AuditAssumption, Holders, At, IInv, TypeOK
<1>3. ch \in Surjection(1..Len(ch), Buffered) /\ Len(ch) \in Nat
  BY DEF IInv, TypeOK, Buffered, Surjection
<1>4. IsFiniteSet(1..Len(ch)) /\ Cardinality(1..Len(ch)) = Len(ch)
  BY <1>3, FS_Interval, SMTT(30)
<1>5. IsFiniteSet(Buffered) /\ Cardinality(Buffered) <= Len(ch)
  BY <1>3, <1>4, FS_Surjection
<1>6. /\ IsFiniteSet(Holders \cup Buffered)
      /\ Cardinality(Holders \cup Buffered) <= Cardinality(Holders) + Cardinality(Buffered)
  BY <1>2, <1>5, UnionBound, Zenon
<1>7. /\ IsFiniteSet((Holders \cup Buffered) \cup cur)
      /\ Cardinality((Holders \cup Buffered) \cup cur)
           <= Cardinality(Holders \cup Buffered) + Cardinality(cur)
  BY <1>2, <1>6, UnionBound, Zenon
<1>8. /\ IsFiniteSet(Trail!Open)
      /\ Cardinality(Trail!Open) <= Cardinality((Holders \cup Buffered) \cup cur)
  BY <1>1, <1>7, FS_Subset, Zenon
<1>9. /\ Cardinality(Holders) \in Nat /\ Cardinality(Buffered) \in Nat
      /\ Cardinality(Holders \cup Buffered) \in Nat /\ Cardinality(cur) \in Nat
      /\ Cardinality((Holders \cup Buffered) \cup cur) \in Nat
      /\ Cardinality(Trail!Open) \in Nat
  BY <1>2, <1>5, <1>6, <1>7, <1>8, FS_CardinalityType, SMTT(30)
<1>10. sem = Cardinality(Holders) + Len(ch) + Cardinality(cur)
  BY Zenon DEF IInv, Accounts, PermitAccounting
<1> QED
  BY <1>3, <1>5, <1>6, <1>7, <1>8, <1>9, <1>10, SMTT(30)

\* AuditTrail's Cardinality is the one of FiniteSets.
LEMMA SameCardinality ==
  ASSUME NEW S PROVE Trail!Cardinality(S) = Cardinality(S)
BY Zenon DEF Trail!Cardinality, Cardinality

\* A step that changes the status of one request only.
LEMMA OneStatus ==
  ASSUME NEW r \in Requests, NEW st, trail'[r] = st,
         \A q \in Requests \ {r} : trail'[q] = trail[q]
  PROVE  trail' = [trail EXCEPT ![r] = st]
<1>1. trail = [q \in Requests |-> trail[q]]
  BY Zenon DEF trail
<1>2. trail' = [q \in Requests |-> trail'[q]]
  BY Zenon DEF trail
<1> QED
  BY <1>1, <1>2, Zenon

\* A request's step is a step of AuditTrail or leaves its state alone.
LEMMA SimulateRequest ==
  ASSUME FailClosed, IInv, Unique, NEW r \in Requests,
         RequestStep(r) \/ Forward(r) \/ Panic(r)
  PROVE  Trail!Next \/ trail' = trail
<1>1. TypeOK /\ Structure
  BY Zenon DEF IInv
<1> USE DEF Unique, Pending
<1>2. CASE Reserve(r) \/ AcquireFails(r)
  <2>1. /\ pc[r] \in {"start", "acquiring"} /\ UNCHANGED <<ch, cur, forwarded>>
        /\ Goto(r, "rejected") \/ Goto(r, "acquiring")
    BY <1>2, Zenon DEF Reserve, AcquireFails, bufVars, flushVars
  <2>2. CASE Goto(r, "rejected")
    <3>1. trail[r] = "waiting" /\ trail' = [trail EXCEPT ![r] = "refused"]
      <4>1. Buffered' = Buffered /\ pc'[r] = "rejected" /\ \A q \in Requests \ {r} : pc'[q] = pc[q]
        BY <1>1, <2>1, <2>2, SMTT(30) DEF Goto, Buffered, TypeOK
      <4>2. trail[r] = "waiting"
        BY <2>1, Zenon DEF trail
      <4>3. trail'[r] = "refused"
        BY <4>1, Zenon DEF trail
      <4>4. \A q \in Requests \ {r} : trail'[q] = trail[q]
        BY <2>1, <4>1, Zenon DEF trail
      <4> QED
        BY ONLY <4>2, <4>3, <4>4, r \in Requests, OneStatus, Zenon
    <3> QED
      BY ONLY <3>1, r \in Requests, Zenon DEF Trail!Next, Trail!Refuse, Trail!Set
  <2>3. CASE Goto(r, "acquiring")
    BY <1>1, <2>1, <2>3 DEF trail, Goto, Buffered, TypeOK
  <2> QED
    BY <2>1, <2>2, <2>3, Zenon
<1>3. CASE Acquire(r)
  <2>1. trail[r] = "waiting" /\ trail' = [trail EXCEPT ![r] = "admitted"]
    <3>1. /\ pc[r] = "acquiring" /\ UNCHANGED <<ch, cur, forwarded>> /\ Buffered' = Buffered
          /\ pc'[r] = "serving" /\ \A q \in Requests \ {r} : pc'[q] = pc[q]
      BY <1>1, <1>3 DEF Acquire, Goto, Buffered, TypeOK, flushVars
    <3>2. trail[r] = "waiting"
      BY <3>1, Zenon DEF trail
    <3>3. trail'[r] = "admitted"
      BY <3>1, Zenon DEF trail
    <3>4. \A q \in Requests \ {r} : trail'[q] = trail[q]
      BY <3>1, Zenon DEF trail
    <3> QED
      BY ONLY <3>2, <3>3, <3>4, r \in Requests, OneStatus, Zenon
  <2>2. Cardinality(Trail!Open) < Cap
    <3>1. Cardinality(Trail!Open) <= sem /\ Cardinality(Trail!Open) \in Nat
      BY OpenBound, FS_CardinalityType, Zenon
    <3> QED
      BY <1>1, <1>3, <3>1, AuditAssumption, SMTT(30) DEF Acquire, TypeOK, AuditAssumption
  <2> QED
    BY ONLY <2>1, <2>2, r \in Requests, SameCardinality, Zenon DEF Trail!Next, Trail!Admit, Trail!Set
<1>4. CASE Commit(r)
  <2>1. Buffered' = Buffered \cup {r}
    BY <1>1, <1>4, AppendBuffered, SMTT(30) DEF Commit
  <2> QED
    BY <1>1, <1>4, <2>1, Zenon DEF Commit, trail, Goto, TypeOK, flushVars
<1>5. CASE Return(r) \/ Panic(r)
  BY <1>1, <1>5 DEF Return, Panic, trail, Goto, Buffered, TypeOK, bufVars, flushVars
<1>6. CASE Forward(r)
  <2>1. trail[r] = "admitted" /\ trail' = [trail EXCEPT ![r] = "forwarded"]
    <3>1. /\ pc[r] = "serving" /\ UNCHANGED <<pc, ch, cur>> /\ Buffered' = Buffered
          /\ r \notin forwarded /\ forwarded' = forwarded \cup {r}
      BY <1>6, Zenon DEF Forward, Buffered, bufVars, flushVars
    <3>2. trail[r] = "admitted"
      BY <3>1, Zenon DEF trail
    <3>3. trail'[r] = "forwarded"
      BY <3>1, Zenon DEF trail
    <3>4. \A q \in Requests \ {r} : trail'[q] = trail[q]
      BY <3>1, Zenon DEF trail
    <3> QED
      BY ONLY <3>2, <3>3, <3>4, r \in Requests, OneStatus, Zenon
  <2> QED
    BY ONLY <2>1, r \in Requests, Zenon DEF Trail!Next, Trail!Forward, Trail!Set
<1>7. ~(Serve(r) \/ Publish(r) \/ Enqueue(r) \/ dropFull(r))
  BY <1>1, Zenon DEF Serve, Publish, Enqueue, dropFull, Structure, At
<1> QED
  BY <1>2, <1>3, <1>4, <1>5, <1>6, <1>7, SMTT(30) DEF RequestStep

\* Every other step settles one request or leaves AuditTrail's state alone.
LEMMA SimulateOther ==
  ASSUME FailClosed, IInv, Unique,
         FlushStep \/ ReopenFile \/ Reopen \/ Close \/ CloseStep \/ UNCHANGED vars
  PROVE  Trail!Next \/ trail' = trail
<1>1. TypeOK /\ Structure
  BY Zenon DEF IInv
<1> USE DEF Unique, Pending
<1>2. CASE Receive
  <2>1. /\ Head(ch) \in Buffered /\ Buffered' = Buffered \ {Head(ch)}
        /\ cur = {} /\ cur' = {Head(ch)} /\ pc' = pc /\ forwarded' = forwarded
    BY <1>1, <1>2, ReceiveBuffered, Zenon DEF Receive, Structure, Writing, reqVars
  <2> QED
    BY <2>1, SMTT(30) DEF trail
<1>3. CASE writeAndRelease
  <2>1. PICK e \in Requests : cur = {e}
    BY <1>1, <1>3, SMTT(30) DEF writeAndRelease, Structure, Writing
  <2>2. /\ e \notin Buffered /\ pc[e] = "done" /\ cur' = {}
        /\ Buffered' = Buffered /\ pc' = pc /\ forwarded' = forwarded
    BY <1>3, <2>1 DEF writeAndRelease, reqVars, Buffered
  <2>3. e \in Trail!Open /\ trail' = [trail EXCEPT ![e] = "settled"]
    BY <2>1, <2>2, Zenon DEF trail, Trail!Open
  <2> QED
    BY ONLY <2>3, e \in Requests, Zenon DEF Trail!Next, Trail!Settle, Trail!Set
<1>4. CASE Stop \/ DrainDone \/ ReopenFile \/ Reopen \/ Close \/ CloseStep \/ UNCHANGED vars
  <2>1. UNCHANGED <<ch, cur, pc, forwarded>>
    BY <1>4, Zenon DEF Stop, DrainDone, ReopenFile, Reopen, Close, CloseStep, CloseMark, CloseStop,
       CloseFile, vars, reqVars, bufVars, flushVars
  <2> QED
    BY <2>1 DEF trail, Buffered
<1> QED
  BY <1>2, <1>3, <1>4, Zenon DEF FlushStep

\* In fail-closed mode the middleware and the logger implement AuditTrail.
THEOREM Refinement ==
  ASSUME FailClosed
  PROVE  Spec => ImplementsTrail
<1>1. Init => Unique /\ Trail!Init
  BY DEF Init, Unique, Pending, Buffered, Trail!Init, trail
<1>2. IInv /\ Unique /\ [Next]_vars => Unique'
  BY UniqueStep, Zenon
<1>3. IInv /\ Unique /\ [Next]_vars => [Trail!Next]_trail
  BY SimulateRequest, SimulateOther, Zenon DEF Next, Terminated
<1> QED
  BY <1>1, <1>2, <1>3, Invariance, PTL DEF Spec, ImplementsTrail, Trail!Spec
=============================================================================

--------------------------- MODULE BalancerProofs ---------------------------
(***************************************************************************)
(* Proofs about the load balancer, for any number of backends and of       *)
(* concurrent requests.                                                    *)
(***************************************************************************)
EXTENDS Balancer, SequenceTheorems, TLAPS

-----------------------------------------------------------------------------
(* Updates of a request's record.                                          *)

\* What ServeHTTP keeps of a request.
Record == [loc : Locs, idem : {0, 1}, start : 0..(Wrap - 1), i : 0..N,
           tried : Seq(Backends), skipped : SUBSET Backends]

\* r is q but for its loc, i, tried and skipped.
Became(r, q, loc, i, tried, skipped) ==
  /\ r \in Record
  /\ r.idem = q.idem /\ r.start = q.start
  /\ r.loc = loc /\ r.i = i /\ r.tried = tried /\ r.skipped = skipped

\* Changing the loc alone.
LEMMA EditLoc ==
  ASSUME NEW q \in Record, NEW l \in Locs
  PROVE  Became([q EXCEPT !.loc = l], q, l, q.i, q.tried, q.skipped)
BY Zenon DEF Became, Record

\* Pick's edit when the backend is healthy.
LEMMA EditSent ==
  ASSUME NEW q \in Record, NEW b \in Backends
  PROVE  Became([q EXCEPT !.loc = "sent", !.tried = Append(@, b)], q,
                "sent", q.i, Append(q.tried, b), q.skipped)
<1>1. Append(q.tried, b) \in Seq(Backends) /\ "sent" \in Locs
  BY AppendProperties, Zenon DEF Record, Locs
<1> DEFINE t == Append(q.tried, b)
<1> HIDE DEF t
<1>2. Became([q EXCEPT !.loc = "sent", !.tried = t], q, "sent", q.i, t, q.skipped)
  BY <1>1, Zenon DEF Became, Record, t
<1> QED BY <1>2, Zenon DEF t

\* Pick's edit when it is not.
LEMMA EditSkip ==
  ASSUME NEW q \in Record, NEW b \in Backends, q.i < N
  PROVE  Became([q EXCEPT !.i = @ + 1, !.skipped = @ \cup {b}], q,
                q.loc, q.i + 1, q.tried, q.skipped \cup {b})
<1> DEFINE n == q.i + 1
           s == q.skipped \cup {b}
<1>1. n \in 0..N /\ s \in SUBSET Backends
  BY BalancerAssumption DEF BalancerAssumption, Record
<1> HIDE DEF n, s
<1>2. Became([q EXCEPT !.i = n, !.skipped = s], q, q.loc, n, q.tried, s)
  BY <1>1, Zenon DEF Became, Record
<1> QED BY <1>2, Zenon DEF n, s

\* ErrorHandler's edit when the request goes on.
LEMMA EditRetry ==
  ASSUME NEW q \in Record, q.i < N
  PROVE  Became([q EXCEPT !.loc = "scan", !.i = @ + 1], q,
                "scan", q.i + 1, q.tried, q.skipped)
<1> DEFINE n == q.i + 1
<1>1. n \in 0..N /\ "scan" \in Locs
  BY BalancerAssumption DEF BalancerAssumption, Record, Locs
<1> HIDE DEF n
<1>2. Became([q EXCEPT !.loc = "scan", !.i = n], q, "scan", n, q.tried, q.skipped)
  BY <1>1, Zenon DEF Became, Record
<1> QED BY <1>2, Zenon DEF n

\* The record of a slot without a request.
LEMMA IdleRecord ==
  /\ Idle \in Record
  /\ Idle.loc = "idle" /\ Idle.i = 0 /\ Idle.tried = <<>> /\ Idle.skipped = {}
<1>1. <<>> \in Seq(Backends) /\ 0 \in 0..(Wrap - 1) /\ 0 \in 0..N
  BY BalancerAssumption, EmptySeq DEF BalancerAssumption
<1> QED BY <1>1, Zenon DEF Record, Idle, Locs

\* What an Update of one request does to the others.
LEMMA UpdateOne ==
  ASSUME TypeOK, NEW c \in Requests, NEW q, Update(c, q)
  PROVE  /\ req'[c] = q
         /\ \A d \in Requests \ {c} : req'[d] = req[d]
         /\ q \in Record => req' \in [Requests -> Record]
BY Zenon DEF TypeOK, Update, Record

\* The index of the loop is that of a backend.
LEMMA IdxType == ASSUME NEW q \in Record PROVE idx(q) \in Backends
<1>1. q.start \in Nat /\ q.i \in Nat
  BY BalancerAssumption DEF Record, BalancerAssumption
<1>2. (q.start + q.i) % Wrap \in Nat
  BY <1>1, BalancerAssumption DEF BalancerAssumption
<1> QED BY <1>2, BalancerAssumption DEF BalancerAssumption, idx, Backends

-----------------------------------------------------------------------------
(* The inductive invariant.                                                *)

\* The backend that last had the request.
LastTried(q) == q.tried[Len(q.tried)]

\* While a backend has the request, the loop stands at that backend; and a
\* request that must not be replayed is back at the head of the loop only
\* before its first attempt.
ReqInv(q) ==
  /\ q.loc \in {"sent", "error"} => q.i < N /\ q.tried # <<>> /\ LastTried(q) = idx(q)
  /\ q.idem = 0 => Len(q.tried) <= 1 /\ (q.loc = "scan" => q.tried = <<>>)

\* An error that is not the client's doing is already held against the backend.
Blame(c) == req[c].loc = "error" => c \in canceled \/ LastTried(req[c]) \in blamed

\* Types, every request in its place, and no backend out without a cause.
IInv ==
  /\ TypeOK
  /\ \A c \in Requests : ReqInv(req[c]) /\ Blame(c)
  /\ UnhealthyHasCause

\* One request goes on as q, and nothing is taken from the others' blame.
LEMMA OneRequest ==
  ASSUME IInv, NEW c \in Requests, NEW q \in Record, Update(c, q),
         ReqInv(q), q.loc = "error" => c \in canceled' \/ LastTried(q) \in blamed',
         blamed \subseteq blamed', canceled \ {c} \subseteq canceled'
  PROVE  /\ req' \in [Requests -> Record]
         /\ \A d \in Requests : (ReqInv(req[d]) /\ Blame(d))'
<1>1. req'[c] = q /\ req' \in [Requests -> Record]
  BY UpdateOne, Zenon DEF IInv
<1>2. ASSUME NEW d \in Requests PROVE (ReqInv(req[d]) /\ Blame(d))'
  <2>1. CASE d = c
    BY <1>1, <2>1, Zenon DEF Blame, ReqInv, LastTried, idx
  <2>2. CASE d # c
    <3>1. req'[d] = req[d]
      BY <2>2, UpdateOne, Zenon DEF IInv
    <3> QED BY <2>2, <3>1, Zenon DEF IInv, Blame, ReqInv, LastTried, idx
  <2> QED BY <2>1, <2>2, Zenon
<1> QED BY <1>1, <1>2, Zenon

\* A request's own steps keep the invariant.
LEMMA StepRequest ==
  ASSUME IInv, NEW c \in Requests,
         \/ RequestStep(c) \/ NextRequest(c)
         \/ \E idem \in {0, 1} : ServeHTTP(c, idem)
  PROVE  IInv'
<1>1. PICK q \in Record : q = req[c]
  BY Zenon DEF IInv, TypeOK, Record
<1>2. ReqInv(q) /\ Len(q.tried) \in Nat /\ idx(q) \in Backends
  BY <1>1, IdxType, LenProperties, Zenon DEF IInv, Record
<1>3. ASSUME NEW idem \in {0, 1}, ServeHTTP(c, idem) PROVE IInv'
  <2>1. PICK r : r = [Idle EXCEPT !.loc = "scan", !.idem = idem, !.start = counter]
    BY Zenon
  <2>2. r \in Record /\ r.loc = "scan" /\ r.tried = <<>>
    <3>1. counter \in 0..(Wrap - 1)
      BY Zenon DEF IInv, TypeOK
    <3>2. PICK z \in Record : z = Idle /\ z.tried = <<>>
      BY IdleRecord, Zenon
    <3>3. r = [z EXCEPT !.loc = "scan", !.idem = idem, !.start = counter]
      BY <2>1, <3>2, Zenon
    <3> QED BY ONLY <3>1, <3>2, <3>3, idem \in {0, 1}, z \in Record, ZenonT(30) DEF Record, Locs
  <2>3. ReqInv(r)
    BY <2>2 DEF ReqInv
  <2>4. counter' \in 0..(Wrap - 1)
    BY <1>3, BalancerAssumption DEF BalancerAssumption, ServeHTTP, IInv, TypeOK
  <2>5. UNCHANGED <<healthVars, envVars, canceled, loopVars>> /\ Update(c, r)
    BY <1>3, <2>1, Zenon DEF ServeHTTP
  <2>6. /\ req' \in [Requests -> Record]
        /\ \A d \in Requests : (ReqInv(req[d]) /\ Blame(d))'
    BY <2>2, <2>3, <2>5, OneRequest, Zenon DEF healthVars
  <2> QED BY <2>4, <2>5, <2>6, Zenon DEF IInv, TypeOK, Record, UnhealthyHasCause, healthVars, envVars, loopVars
<1>4. ASSUME Pick(c) PROVE IInv'
  <2>1. /\ q.loc = "scan" /\ q.i < N
        /\ UNCHANGED <<counter, healthVars, envVars, canceled, loopVars>>
    BY <1>1, <1>4, Zenon DEF Pick
  <2>2. PICK r : /\ Update(c, r)
                 /\ \/ Became(r, q, "sent", q.i, Append(q.tried, idx(q)), q.skipped)
                    \/ Became(r, q, q.loc, q.i + 1, q.tried, q.skipped \cup {idx(q)})
    <3>1. CASE idx(q) \in healthy
      BY <1>1, <1>2, <1>4, <3>1, EditSent, Zenon DEF Pick
    <3>2. CASE idx(q) \notin healthy
      BY <1>1, <1>2, <1>4, <2>1, <3>2, EditSkip, Zenon DEF Pick
    <3> QED BY <3>1, <3>2, SMTT(30)
  <2>3. r \in Record /\ r.loc # "error"
    BY <2>1, <2>2, Zenon DEF Became
  <2>4. ReqInv(r)
    <3>1. CASE r.loc = "sent"
      <4>1. r.tried = Append(q.tried, idx(q)) /\ r.i = q.i /\ r.start = q.start /\ r.idem = q.idem
        BY <2>1, <2>2, <3>1, Zenon DEF Became
      <4>2. /\ Len(r.tried) = Len(q.tried) + 1 /\ r.tried # <<>>
            /\ r.tried[Len(q.tried) + 1] = idx(q)
        BY <1>2, <4>1, AppendProperties DEF Record
      <4>3. idx(r) = idx(q)
        BY <4>1, Zenon DEF idx
      <4>4. q.idem = 0 => Len(q.tried) = 0
        BY <1>2, <2>1, Zenon DEF ReqInv
      <4> QED BY <1>2, <2>1, <3>1, <4>1, <4>2, <4>3, <4>4 DEF ReqInv, LastTried
    <3>2. CASE r.loc # "sent"
      <4>1. r.tried = q.tried /\ r.loc = "scan" /\ r.idem = q.idem
        BY <2>1, <2>2, <3>2, Zenon DEF Became
      <4> QED BY <1>2, <2>1, <4>1, Zenon DEF ReqInv
    <3> QED BY <3>1, <3>2, Zenon
  <2>5. /\ req' \in [Requests -> Record]
        /\ \A d \in Requests : (ReqInv(req[d]) /\ Blame(d))'
    BY <2>1, <2>2, <2>3, <2>4, OneRequest, Zenon DEF healthVars
  <2> QED BY <2>1, <2>5, Zenon DEF IInv, TypeOK, Record, UnhealthyHasCause, healthVars, envVars, loopVars
<1>5. ASSUME GiveUp(c) \/ Respond(c) PROVE IInv'
  <2>1. UNCHANGED <<counter, healthVars, envVars, canceled, loopVars>>
    BY <1>5, Zenon DEF GiveUp, Respond
  <2>2. PICK l \in {"none", "bad", "answered"} : Update(c, [q EXCEPT !.loc = l])
    BY <1>1, <1>5, Zenon DEF GiveUp, Respond
  <2>3. PICK r : r = [q EXCEPT !.loc = l]
    BY Zenon
  <2>4. Became(r, q, l, q.i, q.tried, q.skipped)
    BY <2>3, EditLoc, Zenon DEF Locs
  <2>5. r \in Record /\ r.loc # "error" /\ ReqInv(r)
    BY <1>2, <2>4, Zenon DEF Became, ReqInv
  <2>6. /\ req' \in [Requests -> Record]
        /\ \A d \in Requests : (ReqInv(req[d]) /\ Blame(d))'
    BY <2>1, <2>2, <2>3, <2>5, OneRequest, Zenon DEF healthVars
  <2> QED BY <2>1, <2>6, Zenon DEF IInv, TypeOK, Record, UnhealthyHasCause, healthVars, envVars, loopVars
<1>6. ASSUME TransportError(c) PROVE IInv'
  <2>1. /\ q.loc = "sent"
        /\ UNCHANGED <<counter, healthy, envVars, canceled, loopVars>>
        /\ blamed' = IF c \in canceled THEN blamed ELSE blamed \cup {LastTried(q)}
    BY <1>1, <1>6, Zenon DEF TransportError, LastTried
  <2>2. PICK r : r = [q EXCEPT !.loc = "error"]
    BY Zenon
  <2>3. Update(c, r) /\ Became(r, q, "error", q.i, q.tried, q.skipped)
    BY <1>1, <1>6, <2>2, EditLoc, Zenon DEF TransportError, Locs
  <2>4. r \in Record /\ ReqInv(r) /\ LastTried(r) = LastTried(q) /\ LastTried(q) \in Backends
    BY <1>2, <2>1, <2>3, Zenon DEF Became, ReqInv, LastTried, idx
  <2>5. /\ req' \in [Requests -> Record]
        /\ \A d \in Requests : (ReqInv(req[d]) /\ Blame(d))'
    BY <2>1, <2>3, <2>4, OneRequest, Zenon
  <2> QED BY <2>1, <2>4, <2>5, SMTT(30) DEF IInv, TypeOK, Record, UnhealthyHasCause, envVars, loopVars
<1>7. ASSUME ErrorHandler(c) PROVE IInv'
  <2>1. /\ q.loc = "error" /\ q.i < N /\ LastTried(q) \in Backends
        /\ UNCHANGED <<counter, blamed, envVars, canceled, loopVars>>
        /\ healthy' \in {healthy, healthy \ {LastTried(q)}}
        /\ c \in canceled => healthy' = healthy
    BY <1>1, <1>2, <1>7, Zenon DEF ErrorHandler, LastTried, ReqInv
  <2>2. c \in canceled \/ LastTried(q) \in blamed
    BY <1>1, <2>1, Zenon DEF IInv, Blame
  <2>3. PICK r : /\ Update(c, r)
                 /\ \/ Became(r, q, "gone", q.i, q.tried, q.skipped)
                    \/ Became(r, q, "bad", q.i, q.tried, q.skipped)
                    \/ q.idem # 0 /\ Became(r, q, "scan", q.i + 1, q.tried, q.skipped)
    <3>1. /\ Became([q EXCEPT !.loc = "gone"], q, "gone", q.i, q.tried, q.skipped)
          /\ Became([q EXCEPT !.loc = "bad"], q, "bad", q.i, q.tried, q.skipped)
          /\ Became([q EXCEPT !.loc = "scan", !.i = @ + 1], q, "scan", q.i + 1, q.tried, q.skipped)
      BY <2>1, EditLoc, EditRetry, Zenon DEF Locs
    <3> QED BY <1>1, <1>7, <3>1, SMTT(30) DEF ErrorHandler
  <2>4. r \in Record /\ r.loc # "error" /\ ReqInv(r)
    BY <1>2, <2>3, Zenon DEF Became, ReqInv
  <2>5. /\ req' \in [Requests -> Record]
        /\ \A d \in Requests : (ReqInv(req[d]) /\ Blame(d))'
    BY <2>1, <2>3, <2>4, OneRequest, Zenon
  <2> QED BY <2>1, <2>2, <2>5, Zenon DEF IInv, TypeOK, Record, UnhealthyHasCause, envVars, loopVars
<1>8. ASSUME NextRequest(c) PROVE IInv'
  <2>1. /\ UNCHANGED <<counter, healthVars, envVars, loopVars>>
        /\ canceled' = canceled \ {c} /\ Update(c, Idle)
    BY <1>8, Zenon DEF NextRequest
  <2>2. ReqInv(Idle)
    BY IdleRecord DEF ReqInv
  <2>3. /\ req' \in [Requests -> Record]
        /\ \A d \in Requests : (ReqInv(req[d]) /\ Blame(d))'
    BY <2>1, <2>2, IdleRecord, OneRequest, Zenon DEF healthVars
  <2> QED BY <2>1, <2>3, Zenon DEF IInv, TypeOK, Record, UnhealthyHasCause, healthVars, envVars, loopVars
<1> QED BY <1>3, <1>4, <1>5, <1>6, <1>7, <1>8, Zenon DEF RequestStep

\* The health loop, Close and the environment leave the requests alone.
LEMMA StepOther ==
  ASSUME IInv,
         \/ checkAll \/ CheckStep \/ checkAllDone \/ Close \/ LoopExits \/ CloseReturns
         \/ \E b \in Backends : BackendDown(b) \/ BackendUp(b)
         \/ \E c \in Requests : ClientGone(c)
         \/ UNCHANGED vars
  PROVE  IInv'
<1>1. UNCHANGED req /\ blamed \subseteq blamed' /\ canceled \subseteq canceled'
  BY Zenon DEF CheckStep, checkAll, Probe, checkOneFails, checkOne, checkAllDone, Close, LoopExits,
         CloseReturns, BackendDown, BackendUp, ClientGone, vars, healthVars
<1>2. \A c \in Requests : (ReqInv(req[c]) /\ Blame(c))'
  BY <1>1, Zenon DEF IInv, Blame, ReqInv, LastTried, idx
<1>3. TypeOK'
  <2>1. CASE \E b \in Backends : BackendDown(b) \/ BackendUp(b)
    <3>1. PICK b \in Backends : BackendDown(b) \/ BackendUp(b)
      BY <2>1, Zenon
    <3>2. CASE BackendDown(b)
      BY <3>2, BalancerAssumption, SMTT(30)
         DEF BalancerAssumption, IInv, TypeOK, BackendDown, healthVars, loopVars
    <3>3. CASE BackendUp(b)
      BY <3>3, SMTT(30) DEF IInv, TypeOK, BackendUp, healthVars, loopVars
    <3> QED BY <3>1, <3>2, <3>3, Zenon
  <2>2. CASE (\E c \in Requests : ClientGone(c)) \/ UNCHANGED vars
    BY <2>2, Zenon DEF IInv, TypeOK, ClientGone, vars, healthVars, envVars, loopVars
  <2>3. CASE checkAll \/ checkAllDone \/ Close \/ LoopExits \/ CloseReturns
    <3>1. CASE checkAll \/ checkAllDone
      BY <3>1, SMTT(30) DEF IInv, TypeOK, checkAll, checkAllDone, healthVars, envVars
    <3>2. CASE Close \/ LoopExits \/ CloseReturns
      BY <3>2, SMTT(30) DEF IInv, TypeOK, Close, LoopExits, CloseReturns, healthVars, envVars
    <3> QED BY <2>3, <3>1, <3>2, Zenon
  <2>4. CASE CheckStep
    <3>1. PICK b \in Backends : Probe(b) \/ checkOneFails(b) \/ checkOne(b)
      BY <2>4, Zenon DEF CheckStep
    <3>2. check' \in [Backends -> {"none", "asking", "good", "poor"}]
      BY <3>1, Zenon DEF IInv, TypeOK, Probe, checkOneFails, checkOne
    <3>3. healthy' \subseteq Backends /\ blamed' \subseteq Backends
      BY <3>1 DEF IInv, TypeOK, Probe, checkOneFails, checkOne, healthVars
    <3> QED BY <3>1, <3>2, <3>3, Zenon DEF IInv, TypeOK, Probe, checkOneFails, checkOne, envVars
  <2> QED BY <2>1, <2>2, <2>3, <2>4, Zenon
<1>4. UnhealthyHasCause'
  BY Zenon DEF IInv, TypeOK, UnhealthyHasCause, CheckStep, checkAll, Probe, checkOneFails,
         checkOne, checkAllDone, Close, LoopExits, CloseReturns, BackendDown,
         BackendUp, ClientGone, vars, healthVars, loopVars
<1> QED BY <1>2, <1>3, <1>4, Zenon DEF IInv

\* It holds initially.
LEMMA InitInv == Init => IInv
<1> SUFFICES ASSUME Init PROVE IInv
  BY Zenon
<1>1. req \in [Requests -> Record] /\ \A c \in Requests : req[c] = Idle
  BY IdleRecord, Zenon DEF Init
<1>2. \A c \in Requests : ReqInv(req[c]) /\ Blame(c)
  BY <1>1, IdleRecord DEF ReqInv, Blame
<1>3. TypeOK
  BY <1>1, BalancerAssumption DEF BalancerAssumption, Init, TypeOK, Record
<1> QED BY <1>2, <1>3, Zenon DEF Init, IInv, UnhealthyHasCause

\* Every step keeps it.
LEMMA NextInv == IInv /\ [Next]_vars => IInv'
BY StepRequest, StepOther, Zenon DEF Next, Terminated

\* So it always holds.
LEMMA Invariance == Spec => []IInv
BY InitInv, NextInv, PTL DEF Spec

\* The balancer is type correct: in particular the loop of ServeHTTP stays
\* within the backends, and its counter below the wrap-around.
THEOREM TypeCorrect == Spec => []TypeOK
BY Invariance, PTL DEF IInv

\* NotReplayed for any number of requests and backends.
THEOREM NoReplay == Spec => []NotReplayed
<1>1. IInv => NotReplayed
  BY Zenon DEF IInv, NotReplayed, ReqInv
<1> QED BY <1>1, Invariance, PTL

\* UnhealthyHasCause for any number of requests and backends.
THEOREM CausesKnown == Spec => []UnhealthyHasCause
BY Invariance, PTL DEF IInv

-----------------------------------------------------------------------------
(* The order in which a request meets the backends.                        *)

\* next never wraps around while a request runs through the backends, or
\* does so without a jump.
Divides == \E m \in Nat : Wrap = N * m
NoWrap == MaxServed + N <= Wrap
Seamless == NoWrap \/ Divides
Fits(s) == s + N <= Wrap \/ Divides

\* Euclid: the quotient and the remainder are determined.
LEMMA ModUnique ==
  ASSUME NEW x \in Nat, NEW q \in Nat, NEW b \in Backends, x = N * q + b
  PROVE  x % N = b
<1> N \in Nat /\ N > 0 /\ b \in 0..(N - 1)
  BY BalancerAssumption DEF BalancerAssumption, Backends
<1>1. /\ x = N * (x \div N) + (x % N)
      /\ x \div N \in Nat /\ x % N \in 0..(N - 1)
  OBVIOUS
<1>2. PICK p \in Nat, r \in 0..(N - 1) : p = x \div N /\ r = x % N
  BY <1>1, Zenon
<1>3. N * q + b = N * p + r
  BY <1>1, <1>2, Zenon
<1>4. ~(q < p)
  <2> SUFFICES ASSUME q < p PROVE FALSE
    BY Zenon
  <2>1. PICK k \in Nat : p = q + 1 + k
    <3>1. p - q - 1 \in Nat
      OBVIOUS
    <3> QED BY <3>1
  <2>2. N * p = N * q + N + N * k /\ N * k \in Nat
    BY <2>1
  <2> QED BY <1>3, <2>2
<1>5. ~(p < q)
  <2> SUFFICES ASSUME p < q PROVE FALSE
    BY Zenon
  <2>1. PICK k \in Nat : q = p + 1 + k
    <3>1. q - p - 1 \in Nat
      OBVIOUS
    <3> QED BY <3>1
  <2>2. N * q = N * p + N + N * k /\ N * k \in Nat
    BY <2>1
  <2> QED BY <1>3, <2>2
<1>6. p = q
  BY <1>4, <1>5
<1> QED BY <1>2, <1>3, <1>6

\* N consecutive numbers have different remainders ...
LEMMA ModInjective ==
  ASSUME NEW s \in Nat, NEW j \in Backends, NEW k \in Backends,
         (s + j) % N = (s + k) % N
  PROVE  j = k
<1> N \in Nat /\ N > 0 /\ j \in 0..(N - 1) /\ k \in 0..(N - 1)
  BY BalancerAssumption DEF BalancerAssumption, Backends
<1>1. PICK b \in 0..(N - 1), p \in Nat, q \in Nat : s + j = N * p + b /\ s + k = N * q + b
  <2>1. /\ s + j = N * ((s + j) \div N) + ((s + j) % N) /\ (s + j) \div N \in Nat
        /\ s + k = N * ((s + k) \div N) + ((s + k) % N) /\ (s + k) \div N \in Nat
        /\ (s + j) % N \in 0..(N - 1)
    OBVIOUS
  <2> QED BY <2>1, Zenon
<1>2. j - k = N * p - N * q
  BY <1>1
<1>3. ~(p < q)
  <2> SUFFICES ASSUME p < q PROVE FALSE
    BY Zenon
  <2>1. PICK d \in Nat : q = p + 1 + d
    <3>1. q - p - 1 \in Nat
      OBVIOUS
    <3> QED BY <3>1
  <2>2. N * q = N * p + N + N * d /\ N * d \in Nat /\ N * p \in Nat
    BY <2>1
  <2> QED BY <1>2, <2>2
<1>4. ~(q < p)
  <2> SUFFICES ASSUME q < p PROVE FALSE
    BY Zenon
  <2>1. PICK d \in Nat : p = q + 1 + d
    <3>1. p - q - 1 \in Nat
      OBVIOUS
    <3> QED BY <3>1
  <2>2. N * p = N * q + N + N * d /\ N * d \in Nat /\ N * q \in Nat
    BY <2>1
  <2> QED BY <1>2, <2>2
<1>5. p = q
  BY <1>3, <1>4
<1> QED BY <1>1, <1>5

\* ... and so meet every one of them.
LEMMA ModSurjective ==
  ASSUME NEW s \in Nat, NEW b \in Backends
  PROVE  \E j \in Backends : (s + j) % N = b
<1> N \in Nat /\ N > 0 /\ b \in 0..(N - 1)
  BY BalancerAssumption DEF BalancerAssumption, Backends
<1>1. PICK q \in Nat, r \in 0..(N - 1) : s = N * q + r
  <2>1. s = N * (s \div N) + (s % N) /\ s \div N \in Nat /\ s % N \in 0..(N - 1)
    OBVIOUS
  <2> QED BY <2>1, Zenon
<1>2. CASE r <= b
  <2>1. b - r \in Backends /\ s + (b - r) = N * q + b
    BY <1>1, <1>2 DEF Backends
  <2>2. PICK j \in Backends : j = b - r
    BY <2>1, Zenon
  <2>3. s + j \in Nat /\ s + j = N * q + b
    BY <2>1, <2>2 DEF Backends
  <2>4. (s + j) % N = b
    BY ONLY <2>3, ModUnique, b \in Backends, q \in Nat, Zenon
  <2> QED BY <2>4, Zenon
<1>3. CASE b < r
  <2>1. b + N - r \in Backends /\ N * (q + 1) = N * q + N /\ q + 1 \in Nat
    BY <1>1, <1>3 DEF Backends
  <2>2. PICK j \in Backends, p \in Nat : j = b + N - r /\ p = q + 1
    BY <2>1, Zenon
  <2>3. s + j \in Nat /\ s + j = N * p + b
    BY <1>1, <2>1, <2>2 DEF Backends
  <2>4. (s + j) % N = b
    BY ONLY <2>3, ModUnique, b \in Backends, p \in Nat, Zenon
  <2> QED BY <2>4, Zenon
<1> QED BY <1>2, <1>3

\* The backends the request has been sent to, and those that the first n
\* iterations of its loop look at.
Ran(q) == {q.tried[k] : k \in 1..Len(q.tried)}
Met(q, n) == {b \in Backends : \E j \in Backends : j < n /\ b = (q.start + j) % N}

\* No backend occurs twice.
Distinct(t) == \A j, k \in 1..Len(t) : t[j] = t[k] => j = k

\* The reasons for which ServeHTTP answers 502: its attempts are used up, the
\* request may not be replayed, or every backend was tried or unhealthy.
Justified(q) ==
  q.loc \in {"none", "bad"} =>
    \/ Len(q.tried) = maxAttempts
    \/ q.idem = 0 /\ Len(q.tried) = 1
    \/ Backends = q.skipped \cup Ran(q)

\* The loop has dealt with exactly the backends its index has passed: a
\* backend it has yet to look at has not been tried.
Order(q) ==
  /\ Fits(q.start)
  /\ Len(q.tried) <= maxAttempts /\ Distinct(q.tried)
  /\ q.loc = "scan" => Ran(q) \subseteq Met(q, q.i)
  /\ q.loc \in {"sent", "error"} => Ran(q) \subseteq Met(q, q.i + 1)
  /\ q.loc \in {"scan", "sent", "error"} => Met(q, q.i) \subseteq q.skipped \cup Ran(q)
  /\ Justified(q)

\* The inductive invariant of this module.
OInv == IInv /\ \A c \in Requests : Order(req[c])

\* A wrap-around changes no index when N divides Wrap.
LEMMA WrappedIndex ==
  ASSUME NEW s \in 0..(Wrap - 1), NEW i \in Backends, Divides
  PROVE  ((s + i) % Wrap) % N = (s + i) % N
<1> N \in Nat /\ N > 0 /\ Wrap \in Nat /\ Wrap > 0 /\ i \in 0..(N - 1)
  BY BalancerAssumption DEF BalancerAssumption, Backends
<1>1. PICK m \in Nat : Wrap = N * m
  BY Zenon DEF Divides
<1>2. CASE s + i < Wrap
  <2>1. (s + i) % Wrap = s + i
    BY <1>2
  <2> QED BY <2>1, Zenon
<1>3. CASE s + i >= Wrap
  <2>1. N <= Wrap
    <3>1. m # 0
      BY <1>1
    <3>2. PICK k \in Nat : m = k + 1
      <4>1. m - 1 \in Nat /\ m = (m - 1) + 1
        BY <3>1
      <4> QED BY <4>1, Zenon
    <3>3. N * m = N * k + N /\ N * k \in Nat
      BY <3>2
    <3> QED BY <1>1, <3>3
  <2>2. PICK x \in Nat : x = s + i - Wrap /\ x < Wrap
    <3>1. s + i - Wrap \in Nat /\ s + i - Wrap < Wrap
      BY <1>3, <2>1
    <3> QED BY <3>1, Zenon
  <2>3. (s + i) % Wrap = x
    BY <2>2
  <2>4. PICK b \in Backends, k \in Nat : x = N * k + b /\ x % N = b
    <3>1. x = N * (x \div N) + (x % N) /\ x \div N \in Nat /\ x % N \in 0..(N - 1)
      BY ONLY x \in Nat, N \in Nat, N > 0
    <3> QED BY <3>1, Zenon DEF Backends
  <2>5. PICK p \in Nat : p = m + k
    BY <2>4
  <2>6. s + i \in Nat /\ s + i = N * p + b
    <3>1. N * p = N * m + N * k
      BY <2>5
    <3> QED BY <1>1, <2>2, <2>4, <3>1 DEF Backends
  <2>7. (s + i) % N = b
    BY ONLY <2>6, ModUnique, b \in Backends, p \in Nat, Zenon
  <2> QED BY <2>3, <2>4, <2>7, Zenon
<1> QED BY <1>2, <1>3

\* The loop's index is that of its iteration.
LEMMA IdxAt ==
  ASSUME NEW q \in Record, Fits(q.start), q.i < N
  PROVE  /\ idx(q) = (q.start + q.i) % N
         /\ idx(q) \notin Met(q, q.i)
         /\ Met(q, q.i + 1) = Met(q, q.i) \cup {idx(q)}
<1>1. q.start \in Nat /\ q.i \in Backends
  BY BalancerAssumption DEF BalancerAssumption, Record, Backends
<1>2. q.start + q.i \in Nat /\ q.start \in 0..(Wrap - 1) /\ Wrap \in Nat /\ N \in Nat
  BY <1>1, BalancerAssumption DEF BalancerAssumption, Backends, Record
<1>3. ((q.start + q.i) % Wrap) % N = (q.start + q.i) % N
  <2>1. CASE q.start + N <= Wrap
    <3>1. q.start + q.i < Wrap
      BY <1>1, <1>2, <2>1 DEF Backends
    <3>2. (q.start + q.i) % Wrap = q.start + q.i
      BY <1>2, <3>1
    <3> QED BY <3>2, Zenon
  <2>2. CASE Divides
    BY <1>1, <1>2, <2>2, WrappedIndex, Zenon
  <2> QED BY <2>1, <2>2, Zenon DEF Fits
<1>4. idx(q) = (q.start + q.i) % N
  BY <1>3, Zenon DEF idx
<1>5. idx(q) \notin Met(q, q.i)
  <2> SUFFICES ASSUME NEW j \in Backends, j < q.i, (q.start + j) % N = (q.start + q.i) % N
               PROVE  FALSE
    BY <1>4, Zenon DEF Met
  <2>1. j = q.i
    BY ONLY <1>1, ModInjective, j \in Backends, (q.start + j) % N = (q.start + q.i) % N, Zenon
  <2> QED BY <1>1, <1>2, <2>1 DEF Backends
<1>6. \A j \in Backends : j < q.i + 1 <=> (j < q.i \/ j = q.i)
  BY <1>1, <1>2 DEF Backends
<1>7. idx(q) \in Backends
  BY IdxType, Zenon
<1>8. Met(q, q.i + 1) = Met(q, q.i) \cup {idx(q)}
  BY ONLY <1>1, <1>4, <1>6, <1>7, Zenon DEF Met
<1> QED BY <1>4, <1>5, <1>8, Zenon

\* After N iterations the loop has looked at every backend.
LEMMA MetAll == ASSUME NEW q \in Record PROVE Backends \subseteq Met(q, N)
<1>1. q.start \in Nat
  BY BalancerAssumption DEF BalancerAssumption, Record
<1>2. ASSUME NEW b \in Backends PROVE b \in Met(q, N)
  <2>1. PICK j \in Backends : (q.start + j) % N = b
    BY <1>1, ModSurjective, Zenon
  <2>2. j < N
    BY BalancerAssumption DEF BalancerAssumption, Backends
  <2> QED BY <2>1, <2>2, Zenon DEF Met
<1> QED BY <1>2, Zenon

\* A request is sent to backends only.
LEMMA RanType == ASSUME NEW q \in Record PROVE Ran(q) \subseteq Backends /\ Len(q.tried) \in Nat
BY ElementOfSeq, LenProperties DEF Ran, Record

\* The request is sent to a backend that is not among those it was sent to.
LEMMA OrderSent ==
  ASSUME NEW q \in Record, NEW r, Order(q), q.loc = "scan", q.i < N, Len(q.tried) < maxAttempts,
         Became(r, q, "sent", q.i, Append(q.tried, idx(q)), q.skipped)
  PROVE  Order(r)
<1>1. PICK b \in Backends : b = idx(q)
  BY IdxType, Zenon
<1>2. PICK t \in Seq(Backends) : t = q.tried
  BY Zenon DEF Record
<1>3. r.tried = Append(t, b) /\ r.start = q.start /\ r.i = q.i /\ r.loc = "sent" /\ r.skipped = q.skipped
  BY <1>1, <1>2, Zenon DEF Became
<1>4. b \notin Met(q, q.i) /\ Met(q, q.i + 1) = Met(q, q.i) \cup {b}
  BY <1>1, IdxAt, Zenon DEF Order
<1>5. Met(r, r.i + 1) = Met(q, q.i + 1) /\ Met(r, r.i) = Met(q, q.i)
  BY <1>3, Zenon DEF Met
<1>6. PICK n \in Nat, u \in Seq(Backends) :
        /\ n = Len(t) /\ u = r.tried
        /\ Len(u) = n + 1 /\ u[n + 1] = b /\ \A k \in 1..n : u[k] = t[k]
  <2>1. PICK n \in Nat : n = Len(t)
    BY LenProperties, Zenon
  <2>2. PICK u \in Seq(Backends) : u = Append(t, b)
    BY ONLY AppendProperties, t \in Seq(Backends), b \in Backends, Zenon
  <2>3. Len(u) = n + 1 /\ u[n + 1] = b /\ \A k \in 1..n : u[k] = t[k]
    BY ONLY <2>1, <2>2, AppendProperties, t \in Seq(Backends), b \in Backends
  <2> QED BY ONLY <1>3, <2>1, <2>2, <2>3, Zenon
<1>7. 1..(n + 1) = 1..n \cup {n + 1} /\ n + 1 \notin 1..n
  OBVIOUS
<1>8. \A k \in 1..n : u[k] \in Met(q, q.i)
  BY <1>2, <1>6, Zenon DEF Order, Ran
<1>9. Ran(r) = Ran(q) \cup {b}
  <2>1. Ran(r) = {u[k] : k \in 1..(n + 1)} /\ Ran(q) = {u[k] : k \in 1..n}
    BY <1>2, <1>6, SMTT(30) DEF Ran
  <2> QED BY ONLY <1>6, <1>7, <2>1
<1>10. Distinct(r.tried)
  <2>1. \A j, k \in 1..n : u[j] = u[k] => j = k
    BY <1>2, <1>6 DEF Distinct, Order
  <2>2. \A j \in 1..n : u[j] # u[n + 1]
    BY <1>4, <1>6, <1>8, Zenon
  <2>3. \A j, k \in 1..(n + 1) : u[j] = u[k] => j = k
    BY ONLY <1>7, <2>1, <2>2, Zenon
  <2> QED BY <1>6, <2>3, Zenon DEF Distinct
<1>11. Len(r.tried) <= maxAttempts
  BY <1>2, <1>6 DEF maxAttempts
<1> QED BY <1>3, <1>4, <1>5, <1>9, <1>10, <1>11, Zenon DEF Order, Justified

\* The loop moves past a backend it has skipped or sent the request to.
LEMMA OrderNext ==
  ASSUME NEW q \in Record, NEW r, Order(q), q.i < N, r \in Record,
         r.loc = "scan", r.start = q.start, r.i = q.i + 1, r.tried = q.tried,
         \/ q.loc = "scan" /\ r.skipped = q.skipped \cup {idx(q)}
         \/ /\ q.loc = "error" /\ r.skipped = q.skipped
            /\ q.tried # <<>> /\ LastTried(q) = idx(q)
  PROVE  Order(r)
<1>1. Ran(r) = Ran(q) /\ Met(r, r.i) = Met(q, q.i + 1)
  BY Zenon DEF Ran, Met
<1>2. Met(q, q.i + 1) = Met(q, q.i) \cup {idx(q)}
  BY IdxAt, Zenon DEF Order
<1>3. q.tried # <<>> => LastTried(q) \in Ran(q)
  <2> SUFFICES ASSUME q.tried # <<>> PROVE Len(q.tried) \in 1..Len(q.tried)
    BY Zenon DEF LastTried, Ran
  <2> QED BY EmptySeq, LenProperties DEF Record
<1>4. Ran(r) \subseteq Met(r, r.i)
  BY <1>1, <1>2, Zenon DEF Order
<1>5. Met(r, r.i) \subseteq r.skipped \cup Ran(r)
  BY <1>1, <1>2, <1>3, Zenon DEF Order
<1> QED BY <1>4, <1>5, Zenon DEF Order, Justified

\* The request ends or changes hands.
LEMMA OrderLoc ==
  ASSUME NEW q \in Record, NEW r, NEW l, Order(q), Became(r, q, l, q.i, q.tried, q.skipped),
         Justified(r), l # "scan", l \in {"sent", "error"} => q.loc \in {"sent", "error"}
  PROVE  Order(r)
<1>1. Ran(r) = Ran(q) /\ \A n \in Int : Met(r, n) = Met(q, n)
  BY Zenon DEF Became, Ran, Met
<1>2. q.i \in Int /\ q.i + 1 \in Int
  BY DEF Record
<1> QED BY <1>1, <1>2, Zenon DEF Order, Became

\* A request that has not been sent yet.
LEMMA OrderIdle ==
  ASSUME NEW r \in Record, r.i = 0, r.tried = <<>>, r.loc \in {"idle", "scan"}, Fits(r.start)
  PROVE  Order(r)
<1>1. Ran(r) = {}
  BY DEF Ran
<1>2. Met(r, r.i) = {}
  BY BalancerAssumption DEF BalancerAssumption, Met, Backends
<1> QED BY <1>1, <1>2 DEF Order, Justified, Distinct, maxAttempts

\* The order holds initially.
LEMMA InitOrder == ASSUME Seamless, Init PROVE OInv
<1>1. Idle \in Record /\ Fits(Idle.start)
  BY IdleRecord, BalancerAssumption DEF Idle, Fits, Seamless, NoWrap, BalancerAssumption
<1>2. Order(Idle)
  BY <1>1, IdleRecord, OrderIdle, Zenon
<1> QED BY <1>2, InitInv, Zenon DEF Init, OInv

\* One step of one request.
LEMMA StepOrder ==
  ASSUME Seamless, OInv, NEW c \in Requests,
         \/ RequestStep(c) \/ NextRequest(c)
         \/ \E idem \in {0, 1} : ServeHTTP(c, idem)
  PROVE  \A d \in Requests : Order(req[d])'
<1> SUFFICES \E r : Update(c, r) /\ Order(r)
  <2> SUFFICES ASSUME NEW r, Update(c, r), Order(r), NEW d \in Requests PROVE Order(req'[d])
    BY Zenon DEF Order, Fits, Divides, Ran, Met, Justified, Distinct
  <2>1. req'[c] = r /\ (d # c => req'[d] = req[d])
    BY UpdateOne, Zenon DEF OInv, IInv
  <2> QED BY <2>1, SMTT(30) DEF OInv
<1>1. PICK q \in Record : q = req[c]
  BY Zenon DEF OInv, IInv, TypeOK, Record
<1>2. ReqInv(q) /\ Order(q) /\ Len(q.tried) \in Nat /\ idx(q) \in Backends
  BY <1>1, IdxType, RanType, Zenon DEF OInv, IInv
<1>3. ASSUME NEW idem \in {0, 1}, ServeHTTP(c, idem) PROVE \E r : Update(c, r) /\ Order(r)
  <2>1. PICK z \in Record : z = Idle /\ z.i = 0 /\ z.tried = <<>>
    BY IdleRecord, Zenon
  <2>2. PICK r : r = [z EXCEPT !.loc = "scan", !.idem = idem, !.start = counter]
    BY Zenon
  <2>3. counter \in 0..(Wrap - 1) /\ counter < MaxServed
    BY <1>3, Zenon DEF OInv, IInv, TypeOK, ServeHTTP
  <2>4. r \in Record /\ r.loc = "scan" /\ r.i = 0 /\ r.tried = <<>> /\ r.start = counter
    BY ONLY <2>1, <2>2, <2>3, idem \in {0, 1}, z \in Record, ZenonT(30) DEF Record, Locs
  <2>5. Fits(r.start)
    BY <2>3, <2>4, BalancerAssumption DEF Fits, Seamless, NoWrap, BalancerAssumption
  <2>6. Order(r)
    BY <2>4, <2>5, OrderIdle, Zenon
  <2> QED BY <1>3, <2>1, <2>2, <2>6, Zenon DEF ServeHTTP
<1>4. ASSUME Pick(c) PROVE \E r : Update(c, r) /\ Order(r)
  <2>1. q.loc = "scan" /\ q.i < N /\ Len(q.tried) < maxAttempts
    BY <1>1, <1>4, Zenon DEF Pick
  <2>2. CASE idx(q) \in healthy
    <3>1. PICK r : r = [q EXCEPT !.loc = "sent", !.tried = Append(@, idx(q))]
      BY Zenon
    <3>2. Update(c, r)
      BY <1>1, <1>4, <2>2, <3>1, SMTT(30) DEF Pick
    <3>3. Became(r, q, "sent", q.i, Append(q.tried, idx(q)), q.skipped)
      BY <1>2, <3>1, EditSent, Zenon
    <3> QED BY <1>2, <2>1, <3>2, <3>3, OrderSent, Zenon
  <2>3. CASE idx(q) \notin healthy
    <3>1. PICK r : r = [q EXCEPT !.i = @ + 1, !.skipped = @ \cup {idx(q)}]
      BY Zenon
    <3>2. Update(c, r)
      BY <1>1, <1>4, <2>3, <3>1, SMTT(30) DEF Pick
    <3>3. Became(r, q, q.loc, q.i + 1, q.tried, q.skipped \cup {idx(q)})
      BY <1>2, <2>1, <3>1, EditSkip, Zenon
    <3> QED BY <1>2, <2>1, <3>2, <3>3, OrderNext, Zenon DEF Became
  <2> QED BY <2>2, <2>3, Zenon
<1>5. ASSUME GiveUp(c) PROVE \E r : Update(c, r) /\ Order(r)
  <2>1. q.loc = "scan" /\ (q.i = N \/ Len(q.tried) = maxAttempts)
    BY <1>1, <1>5, Zenon DEF GiveUp
  <2>2. PICK l \in {"none", "bad"} : Update(c, [q EXCEPT !.loc = l])
    BY <1>1, <1>5, Zenon DEF GiveUp
  <2>3. PICK r : r = [q EXCEPT !.loc = l]
    BY Zenon
  <2>4. Became(r, q, l, q.i, q.tried, q.skipped)
    BY <2>3, EditLoc, Zenon DEF Locs
  <2>5. q.i = N => Backends = q.skipped \cup Ran(q)
    BY <1>2, <2>1, MetAll, RanType, Zenon DEF Order, Record
  <2>6. Justified(r)
    BY <2>1, <2>4, <2>5, Zenon DEF Justified, Became, Ran
  <2>7. Order(r)
    BY <1>2, <2>4, <2>6, OrderLoc, Zenon
  <2> QED BY <2>2, <2>3, <2>7, Zenon
<1>6. ASSUME Respond(c) \/ TransportError(c) PROVE \E r : Update(c, r) /\ Order(r)
  <2>1. PICK l \in {"answered", "error"} : q.loc = "sent" /\ Update(c, [q EXCEPT !.loc = l])
    BY <1>1, <1>6, Zenon DEF Respond, TransportError
  <2>2. PICK r : r = [q EXCEPT !.loc = l]
    BY Zenon
  <2>3. Became(r, q, l, q.i, q.tried, q.skipped)
    BY <2>2, EditLoc, Zenon DEF Locs
  <2>4. Order(r)
    BY <1>2, <2>1, <2>3, OrderLoc, Zenon DEF Justified, Became
  <2> QED BY <2>1, <2>2, <2>4, Zenon
<1>7. ASSUME ErrorHandler(c) PROVE \E r : Update(c, r) /\ Order(r)
  <2>1. q.loc = "error" /\ q.i < N /\ q.tried # <<>> /\ LastTried(q) = idx(q)
    BY <1>1, <1>2, <1>7, Zenon DEF ErrorHandler, ReqInv
  <2>2. CASE c \in canceled \/ q.idem # 1
    <3>1. PICK l \in {"gone", "bad"} : /\ Update(c, [q EXCEPT !.loc = l])
                                       /\ l = "bad" => q.idem # 1
      BY <1>1, <1>7, <2>2, Zenon DEF ErrorHandler
    <3>2. PICK r : r = [q EXCEPT !.loc = l]
      BY Zenon
    <3>3. Became(r, q, l, q.i, q.tried, q.skipped)
      BY <3>2, EditLoc, Zenon DEF Locs
    <3>4. l = "bad" => q.idem = 0 /\ Len(q.tried) = 1
      <4>1. Len(q.tried) # 0
        BY <2>1, EmptySeq, LenProperties, Zenon DEF Record
      <4>2. q.idem \in {0, 1}
        BY Zenon DEF Record
      <4>3. q.idem = 0 => Len(q.tried) <= 1
        BY <1>2, Zenon DEF ReqInv
      <4>4. PICK n \in Nat : n = Len(q.tried)
        BY <1>2, Zenon
      <4>5. n # 0 /\ (q.idem = 0 => n <= 1)
        BY <4>1, <4>3, <4>4, Zenon
      <4>6. n <= 1 => n = 1
        BY <4>5
      <4> QED BY ONLY <3>1, <4>2, <4>4, <4>5, <4>6, Zenon
    <3>5. Order(r)
      BY <1>2, <3>3, <3>4, OrderLoc, Zenon DEF Justified, Became
    <3> QED BY <3>1, <3>2, <3>5, Zenon
  <2>3. CASE c \notin canceled /\ q.idem = 1
    <3>1. PICK r : r = [q EXCEPT !.loc = "scan", !.i = @ + 1]
      BY Zenon
    <3>2. Update(c, r)
      BY <1>1, <1>7, <2>3, <3>1, SMTT(30) DEF ErrorHandler
    <3>3. Became(r, q, "scan", q.i + 1, q.tried, q.skipped)
      BY <2>1, <3>1, EditRetry, Zenon
    <3> QED BY <1>2, <2>1, <3>2, <3>3, OrderNext, Zenon DEF Became
  <2> QED BY <2>2, <2>3, Zenon
<1>8. ASSUME NextRequest(c) PROVE \E r : Update(c, r) /\ Order(r)
  <2>1. Idle \in Record /\ Fits(Idle.start)
    BY IdleRecord, BalancerAssumption DEF Idle, Fits, Seamless, NoWrap, BalancerAssumption
  <2> QED BY <1>8, <2>1, IdleRecord, OrderIdle, Zenon DEF NextRequest
<1> QED BY <1>3, <1>4, <1>5, <1>6, <1>7, <1>8, Zenon DEF RequestStep

\* Every step keeps it.
LEMMA NextOrder == ASSUME Seamless, OInv, [Next]_vars PROVE OInv'
<1>1. IInv'
  BY NextInv, Zenon DEF OInv
<1>2. CASE UNCHANGED req
  <2>1. ASSUME NEW c \in Requests PROVE Order(req[c])'
    <3>1. PICK q : q = req[c] /\ q = req'[c] /\ Order(q)
      BY <1>2, Zenon DEF OInv
    <3>2. Order(req'[c])
      BY ONLY <3>1, Zenon
    <3> QED BY <3>2, Zenon DEF Order, Fits, Divides, Ran, Met, Justified, Distinct
  <2> QED BY <1>1, <2>1, SMTT(30) DEF OInv
<1>3. ASSUME NEW c \in Requests,
             \/ RequestStep(c) \/ NextRequest(c)
             \/ \E idem \in {0, 1} : ServeHTTP(c, idem)
      PROVE  OInv'
  BY <1>1, <1>3, StepOrder, Zenon DEF OInv
<1> QED BY <1>2, <1>3, Zenon DEF Next, Terminated, CheckStep, checkAll, Probe, checkOneFails, checkOne,
      checkAllDone, Close, LoopExits, CloseReturns, BackendDown, BackendUp, ClientGone, vars

\* OtherBackend, for any number of backends, requests and outages, as long as
\* ServeHTTP's counter does not wrap around, and past that when the number of
\* backends divides 2 ^ 64: each attempt of ServeHTTP goes to a backend the
\* request has not been sent to.
THEOREM AlwaysOther == ASSUME Seamless PROVE Spec => []OtherBackend
<1>1. Init => OInv
  BY InitOrder, Zenon
<1>2. OInv /\ [Next]_vars => OInv'
  BY NextOrder, Zenon
<1>3. OInv => OtherBackend
  BY Zenon DEF OInv, Order, Distinct, OtherBackend
<1> QED BY <1>1, <1>2, <1>3, PTL DEF Spec

\* GiveUpJustified, likewise: a 502 of ServeHTTP's loop leaves no backend out
\* that the request could still have been sent to.
THEOREM LastResort == ASSUME Seamless PROVE Spec => []GiveUpJustified
<1>1. Init => OInv
  BY InitOrder, Zenon
<1>2. OInv /\ [Next]_vars => OInv'
  BY NextOrder, Zenon
<1>3. OInv => GiveUpJustified
  BY Zenon DEF OInv, Order, Justified, Ran, GiveUpJustified
<1> QED BY <1>1, <1>2, <1>3, PTL DEF Spec
=============================================================================

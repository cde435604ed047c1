------------------------------ MODULE Balancer ------------------------------
(***************************************************************************)
(* The round-robin load balancer in front of the PowerDNS backends         *)
(* (internal/proxy/balancer): request-level failover, passive marking by   *)
(* the ReverseProxy's ErrorHandler, and the active health loop.            *)
(*                                                                         *)
(* Processes: one goroutine per request, one per running health check, the *)
(* health loop and the goroutine that calls Close.  A slot in Requests     *)
(* stands for one request after another.                                   *)
(***************************************************************************)
EXTENDS Integers, Sequences, FiniteSets

CONSTANTS
  Requests,   \* request slots
  N,          \* len(lb.backends)
  Wrap,       \* where lb.counter wraps around (2 ^ 64 in the code)
  MaxServed,  \* bound on lb.counter; from Wrap on requests are unlimited
  MayCancel,  \* clients may go away before they are answered
  MayClose,   \* Close may be called
  MaxOutages, \* bound on the number of times backends go down
  Unaskable   \* the backends whose health URL (URL and path) does not parse

ASSUME BalancerAssumption ==
  /\ IsFiniteSet(Requests)
  /\ N \in Nat \ {0} /\ Wrap \in Nat \ {0} /\ MaxServed \in Nat /\ MaxOutages \in Nat
  /\ MayCancel \in BOOLEAN /\ MayClose \in BOOLEAN
  /\ Unaskable \subseteq 0..(N - 1)

maxAttempts == 2
Backends == 0..(N - 1)

VARIABLES
  counter,   \* lb.counter
  healthy,   \* the backends whose healthy flag is set
  up,        \* the backends that answer
  outages,   \* outages so far
  req,       \* each request's local state
  canceled,  \* requests whose client has gone
  check,     \* the running check of each backend
  loop,      \* where healthLoop and Close are
  blamed     \* backends that have failed a request or a check

healthVars == <<healthy, blamed>>
envVars == <<up, outages>>
loopVars == <<check, loop>>
vars == <<counter, healthVars, envVars, req, canceled, loopVars>>

(***************************************************************************)
(* A request's loc is "idle"; "scan" at the head of the loop; "sent" inside*)
(* rp.ServeHTTP; "error" when the transport has failed and ErrorHandler has*)
(* not run; or its answer: "answered", "gone" (nothing written), "none"    *)
(* (502, no healthy backends) or "bad" (502, bad gateway).  start, i and   *)
(* tried are ServeHTTP's variables (attempts is Len(tried)); skipped holds *)
(* the backends it found unhealthy.                                        *)
(***************************************************************************)
Locs == {"idle", "scan", "sent", "error", "answered", "gone", "none", "bad"}
Answers == {"answered", "gone", "none", "bad"}
Idle == [loc |-> "idle", idem |-> 1, start |-> 0, i |-> 0, tried |-> <<>>, skipped |-> {}]

Init ==
  /\ counter = 0
  /\ healthy = Backends /\ blamed = {}
  /\ up = Backends /\ outages = 0
  /\ req = [c \in Requests |-> Idle]
  /\ canceled = {}
  /\ check = [b \in Backends |-> "none"]
  /\ loop = "waiting"

-----------------------------------------------------------------------------
(* ServeHTTP.                                                              *)

Update(c, q) == req' = [req EXCEPT ![c] = q]

\* idem is 1 for GET, HEAD, PUT and DELETE, 0 for the other methods.
ServeHTTP(c, idem) ==
  /\ req[c].loc = "idle" /\ counter < MaxServed
  /\ Update(c, [Idle EXCEPT !.loc = "scan", !.idem = idem, !.start = counter])
  /\ counter' = (counter + 1) % Wrap
  /\ UNCHANGED <<healthVars, envVars, canceled, loopVars>>

idx(q) == ((q.start + q.i) % Wrap) % N

\* One iteration of the loop, up to the call of the backend's ReverseProxy.
Pick(c) ==
  LET q == req[c] b == idx(q) IN
  /\ q.loc = "scan" /\ q.i < N /\ Len(q.tried) < maxAttempts
  /\ Update(c, IF b \in healthy
               THEN [q EXCEPT !.loc = "sent", !.tried = Append(@, b)]
               ELSE [q EXCEPT !.i = @ + 1, !.skipped = @ \cup {b}])
  /\ UNCHANGED <<counter, healthVars, envVars, canceled, loopVars>>

\* Mutant: the loop stops one backend early.
GiveUp_early(c) ==
  LET q == req[c] IN
  /\ q.loc = "scan" /\ (q.i >= N - 1 \/ Len(q.tried) = maxAttempts)
  /\ Update(c, [q EXCEPT !.loc = IF q.tried = <<>> THEN "none" ELSE "bad"])
  /\ UNCHANGED <<counter, healthVars, envVars, canceled, loopVars>>

\* The loop is over: 502.
GiveUp(c) ==
  LET q == req[c] IN
  /\ q.loc = "scan" /\ (q.i = N \/ Len(q.tried) = maxAttempts)
  /\ Update(c, [q EXCEPT !.loc = IF q.tried = <<>> THEN "none" ELSE "bad"])
  /\ UNCHANGED <<counter, healthVars, envVars, canceled, loopVars>>

\* The backend answers: the response is committed.
Respond(c) ==
  LET q == req[c] IN
  /\ q.loc = "sent" /\ q.tried[Len(q.tried)] \in up
  /\ Update(c, [q EXCEPT !.loc = "answered"])
  /\ UNCHANGED <<counter, healthVars, envVars, canceled, loopVars>>

\* The transport fails before a response: the connection, or the context of
\* a client that has gone.
TransportError(c) ==
  /\ req[c].loc = "sent"
  /\ Update(c, [req[c] EXCEPT !.loc = "error"])
  /\ blamed' = IF c \in canceled THEN blamed ELSE blamed \cup {req[c].tried[Len(req[c].tried)]}
  /\ UNCHANGED <<counter, healthy, envVars, canceled, loopVars>>

\* Mutant: a client that has gone counts as a failure of the backend.
ErrorHandler_blind(c) ==
  LET q == req[c] IN
  /\ q.loc = "error"
  /\ healthy' = healthy \ {q.tried[Len(q.tried)]}
  /\ Update(c, IF q.idem = 1 THEN [q EXCEPT !.loc = "scan", !.i = @ + 1]
                             ELSE [q EXCEPT !.loc = "bad"])
  /\ UNCHANGED <<counter, blamed, envVars, canceled, loopVars>>

\* Mutant: every method is replayed.
ErrorHandler_replay(c) ==
  LET q == req[c] IN
  /\ q.loc = "error"
  /\ IF c \in canceled
     THEN /\ Update(c, [q EXCEPT !.loc = "gone"])
          /\ UNCHANGED healthy
     ELSE /\ healthy' = healthy \ {q.tried[Len(q.tried)]}
          /\ Update(c, [q EXCEPT !.loc = "scan", !.i = @ + 1])
  /\ UNCHANGED <<counter, blamed, envVars, canceled, loopVars>>

\* Mutant: the retry starts over instead of moving on.
ErrorHandler_restart(c) ==
  LET q == req[c] IN
  /\ q.loc = "error"
  /\ IF c \in canceled
     THEN /\ Update(c, [q EXCEPT !.loc = "gone"])
          /\ UNCHANGED healthy
     ELSE /\ healthy' = healthy \ {q.tried[Len(q.tried)]}
          /\ Update(c, IF q.idem = 1 THEN [q EXCEPT !.loc = "scan", !.i = 0]
                                     ELSE [q EXCEPT !.loc = "bad"])
  /\ UNCHANGED <<counter, blamed, envVars, canceled, loopVars>>

\* ErrorHandler and what ServeHTTP makes of the attempt: a client that has
\* gone ends the request; otherwise the backend is marked unhealthy, and only
\* an idempotent request goes on to the next one.
ErrorHandler(c) ==
  LET q == req[c] IN
  /\ q.loc = "error"
  /\ IF c \in canceled
     THEN /\ Update(c, [q EXCEPT !.loc = "gone"])
          /\ UNCHANGED healthy
     ELSE /\ healthy' = healthy \ {q.tried[Len(q.tried)]}
          /\ Update(c, IF q.idem = 1 THEN [q EXCEPT !.loc = "scan", !.i = @ + 1]
                                     ELSE [q EXCEPT !.loc = "bad"])
  /\ UNCHANGED <<counter, blamed, envVars, canceled, loopVars>>

\* The handler has returned: the slot takes another request.
NextRequest(c) ==
  /\ req[c].loc \in Answers
  /\ Update(c, Idle)
  /\ canceled' = canceled \ {c}
  /\ UNCHANGED <<counter, healthVars, envVars, loopVars>>

-----------------------------------------------------------------------------
(* The health loop.  It is "waiting" in its select or "checking" inside    *)
(* checkAll; Close has canceled its context in "waitingC" and "checkingC", *)
(* and it has returned in "exited", Close in "closed".                     *)

\* ticker.C: checkAll starts one check per backend.
checkAll ==
  /\ loop \in {"waiting", "waitingC"}
  /\ check' = [b \in Backends |-> "asking"]
  /\ loop' = IF loop = "waiting" THEN "checking" ELSE "checkingC"
  /\ UNCHANGED <<counter, healthVars, envVars, req, canceled>>

\* The health endpoint answers 2xx or not, times out or is canceled; the
\* result is not stored yet.
Probe(b) ==
  /\ check[b] = "asking" /\ b \notin Unaskable
  /\ check' = [check EXCEPT ![b] = IF b \in up /\ loop = "checking" THEN "good" ELSE "poor"]
  /\ UNCHANGED <<counter, healthVars, envVars, req, canceled, loop>>

\* No request can be made of the health URL: the check ends and stores nothing.
checkOneFails(b) ==
  /\ check[b] = "asking" /\ b \in Unaskable
  /\ check' = [check EXCEPT ![b] = "none"]
  /\ UNCHANGED <<counter, healthVars, envVars, req, canceled, loop>>

\* Mutant: a good check does not bring a backend back.
checkOne_sticky(b) ==
  /\ check[b] \in {"good", "poor"}
  /\ IF check[b] = "good"
     THEN UNCHANGED healthy /\ UNCHANGED blamed
     ELSE healthy' = healthy \ {b} /\ blamed' = blamed \cup {b}
  /\ check' = [check EXCEPT ![b] = "none"]
  /\ UNCHANGED <<counter, envVars, req, canceled, loop>>

\* checkOne stores its result.
checkOne(b) ==
  /\ check[b] \in {"good", "poor"}
  /\ IF check[b] = "good"
     THEN healthy' = healthy \cup {b} /\ UNCHANGED blamed
     ELSE healthy' = healthy \ {b} /\ blamed' = blamed \cup {b}
  /\ check' = [check EXCEPT ![b] = "none"]
  /\ UNCHANGED <<counter, envVars, req, canceled, loop>>

\* Mutant: checkAll starts over until every backend is healthy.
checkAllDone_strict ==
  /\ loop \in {"checking", "checkingC"} /\ \A b \in Backends : check[b] = "none"
  /\ IF healthy = Backends
     THEN loop' = (IF loop = "checking" THEN "waiting" ELSE "waitingC") /\ UNCHANGED check
     ELSE check' = [b \in Backends |-> "asking"] /\ UNCHANGED loop
  /\ UNCHANGED <<counter, healthVars, envVars, req, canceled>>

\* wg.Wait in checkAll.
checkAllDone ==
  /\ loop \in {"checking", "checkingC"} /\ \A b \in Backends : check[b] = "none"
  /\ loop' = IF loop = "checking" THEN "waiting" ELSE "waitingC"
  /\ UNCHANGED <<counter, healthVars, envVars, req, canceled, check>>

\* Close cancels the loop's context ...
Close ==
  /\ MayClose /\ loop \in {"waiting", "checking"}
  /\ loop' = IF loop = "waiting" THEN "waitingC" ELSE "checkingC"
  /\ UNCHANGED <<counter, healthVars, envVars, req, canceled, check>>

\* ... the loop sees it in its select and returns ...
LoopExits ==
  /\ loop = "waitingC"
  /\ loop' = "exited"
  /\ UNCHANGED <<counter, healthVars, envVars, req, canceled, check>>

\* ... and Close returns from wg.Wait.
CloseReturns ==
  /\ loop = "exited"
  /\ loop' = "closed"
  /\ UNCHANGED <<counter, healthVars, envVars, req, canceled, check>>

-----------------------------------------------------------------------------
(* The environment.                                                        *)

BackendDown(b) ==
  /\ b \in up /\ outages < MaxOutages
  /\ up' = up \ {b} /\ outages' = outages + 1
  /\ UNCHANGED <<counter, healthVars, req, canceled, loopVars>>

BackendUp(b) ==
  /\ b \notin up
  /\ up' = up \cup {b}
  /\ UNCHANGED <<counter, healthVars, outages, req, canceled, loopVars>>

ClientGone(c) ==
  /\ MayCancel /\ req[c].loc \notin Answers \cup {"idle"} /\ c \notin canceled
  /\ canceled' = canceled \cup {c}
  /\ UNCHANGED <<counter, healthVars, envVars, req, loopVars>>

\* After the close only the backends and the requests still served go on.
Terminated == loop = "closed" /\ UNCHANGED vars

-----------------------------------------------------------------------------
RequestStep(c) == Pick(c) \/ GiveUp(c) \/ Respond(c) \/ TransportError(c) \/ ErrorHandler(c)

CheckStep == \E b \in Backends : Probe(b) \/ checkOneFails(b) \/ checkOne(b)

Next ==
  \/ \E c \in Requests :
       \/ \E idem \in {0, 1} : ServeHTTP(c, idem)
       \/ RequestStep(c) \/ NextRequest(c) \/ ClientGone(c)
  \/ checkAll \/ CheckStep \/ checkAllDone
  \/ Close \/ LoopExits \/ CloseReturns
  \/ \E b \in Backends : BackendDown(b) \/ BackendUp(b)
  \/ Terminated

Spec == Init /\ [][Next]_vars

(* Goroutines keep running, an upstream call ends in a response or an      *)
(* error, checks end by their timeout, the ticker keeps ticking, and Go's  *)
(* select does not prefer the ticker to a canceled context for ever.       *)
Fairness ==
  /\ \A c \in Requests : WF_vars(RequestStep(c))
  /\ WF_vars(checkAll) /\ WF_vars(CheckStep) /\ WF_vars(checkAllDone)
  /\ SF_vars(LoopExits) /\ WF_vars(CloseReturns)

FairSpec == Spec /\ Fairness

-----------------------------------------------------------------------------
(* Properties.                                                             *)

\* Every variable has its type; no index of ServeHTTP leaves the backends.
TypeOK ==
  /\ counter \in 0..(Wrap - 1)
  /\ healthy \subseteq Backends /\ blamed \subseteq Backends
  /\ up \subseteq Backends /\ outages \in 0..MaxOutages
  /\ req \in [Requests -> [loc : Locs, idem : {0, 1}, start : 0..(Wrap - 1), i : 0..N,
                           tried : Seq(Backends), skipped : SUBSET Backends]]
  /\ canceled \subseteq Requests
  /\ check \in [Backends -> {"none", "asking", "good", "poor"}]
  /\ loop \in {"waiting", "checking", "waitingC", "checkingC", "exited", "closed"}

\* A request is tried against at most maxAttempts backends, all different,
\* although a health check may bring the failed backend back in between.
\* (Short of the wrap-around of the counter, where the indexes of N backends
\* repeat unless N divides Wrap.)
OtherBackend ==
  \A c \in Requests :
    LET t == req[c].tried IN
    Len(t) <= maxAttempts /\ \A j, k \in 1..Len(t) : t[j] = t[k] => j = k

\* A request that must not be replayed is sent to one backend at most.
NotReplayed == \A c \in Requests : req[c].idem = 0 => Len(req[c].tried) <= 1

\* A 502 is the last resort: ServeHTTP answers it only when it has tried
\* maxAttempts backends, has tried a request that must not be replayed, or
\* has found every backend it did not try unhealthy.
GiveUpJustified ==
  \A c \in Requests :
    LET q == req[c] IN
    q.loc \in {"none", "bad"} =>
      \/ Len(q.tried) = maxAttempts
      \/ q.idem = 0 /\ Len(q.tried) = 1
      \/ Backends = q.skipped \cup {q.tried[k] : k \in 1..Len(q.tried)}

\* While the health loop runs, a backend is out of rotation only for a
\* failure of its own, of a request or of a check: a client that goes away
\* never takes a backend out.
UnhealthyHasCause ==
  loop \in {"waiting", "checking"} => Backends \ healthy \subseteq blamed

\* A backend that is up for good is back in rotation again and again, however
\* often late errors of one request after another take it out; unless its
\* health URL does not parse, for then nothing ever marks it healthy.
Readmitted ==
  \A b \in Backends \ Unaskable :
    <>[](b \in up) => []<>(b \in healthy \/ loop \notin {"waiting", "checking"})

\* Close returns, although a round of checks may be running or start.
CloseCompletes == loop \in {"waitingC", "checkingC"} ~> loop = "closed"

=============================================================================

------------------------ MODULE PluginManagerProofs -------------------------
(***************************************************************************)
(* Proofs about the plugin manager, for any number of plugins, of          *)
(* concurrent requests and of restarts: the inductive invariant, the steps *)
(* that keep it (requests and their plugin calls, restart goroutines, the  *)
(* manager and its environment), and the breakers' probes.                 *)
(***************************************************************************)
EXTENDS PluginManager, TLAPS

-----------------------------------------------------------------------------
(* The inductive invariants.                                               *)

\* The calls of request c: which of them got an ALLOW, and what is left of
\* them once Authorize has returned.
CallInv(c) ==
  /\ \A p \in Plugins : <<c, p>> \in vouched <=> call[c][p] \in {"gotAllow", "sentAllow"}
  /\ decision[c] = "none" => \A p \in Plugins : call[c][p] = "off"
  /\ decision[c] = "allow" => \E p \in Plugins : call[c][p] = "sentAllow"
  /\ decision[c] = "deny" => \A p \in Plugins : call[c][p] \in {"off", "sentDeny"}
  /\ \A p \in Plugins : call[c][p] \notin {"off", "sentDeny"} => snap[c][p] # 0

\* Where Close leaves the map alone, where a restart goroutine is at work,
\* and where it has a new process that is not in the map yet.
Up == {"serving", "signalled", "marked"}
Active == {"waiting", "starting", "started", "exhausted"}
Spawned == {"starting", "started"}

\* The map of the manager: full from NewManager to Close, empty before and
\* after, and no request has loaded a newer one.
MapInv(p) ==
  /\ mgr \in Up <=> plugins[p] # 0
  /\ mgr # "closed" => \A c \in Callers : snap[c][p] <= plugins[p]
  /\ mgr \in {"starting", "aborted"} => \A c \in Callers : call[c][p] = "off"

\* Instance n of plugin p has been restarted if it is older than the one in
\* the map, and has neither been restarted nor, except by the goroutine that
\* restarts the one in the map, been started if it is newer.
InstInv(p, n) ==
  LET i == <<p, n>> r == restart[i] s == proc[i] m == plugins[p] IN
  /\ r \in Active => n < MaxInst
  /\ r \in {"none", "waiting", "starting"} => attempts[i] < MaxAttempts
  /\ mgr \in {"starting", "aborted"} => r = "none" /\ (n > 1 => s = "none")
  /\ mgr = "starting" => s # "killed"
  /\ mgr = "aborted" => s # "alive"
  /\ mgr \in Up =>
       /\ n < m => r = "done" /\ s # "alive"
       /\ n = m => s \in {"alive", "exited"}
       /\ n > m => /\ r = "none"
                   /\ s \in {"alive", "exited"} => n = m + 1 /\ restart[<<p, m>>] \in Spawned
       /\ n = m /\ r \in Spawned => proc[<<p, n + 1>>] \in {"alive", "exited"}
  /\ mgr = "closed" => (s = "alive" => n > 1 /\ restart[<<p, n - 1>>] \in Spawned)

\* Every request, every entry of the map and every instance is in order.
PInv ==
  /\ TypeOK
  /\ \A c \in Callers : CallInv(c)
  /\ \A p \in Plugins : MapInv(p) /\ \A n \in 1..MaxInst : InstInv(p, n)

-----------------------------------------------------------------------------
(* Facts about the data.                                                   *)

\* The breaker's methods keep its fields in their ranges.
LEMMA BreakerOps ==
  ASSUME NEW cb \in Breaker
  PROVE  AfterAllow(cb) \in Breaker /\ RecordSuccess(cb) \in Breaker /\ RecordFailure(cb) \in Breaker
<1>1. \A x \in Breaker : \A to \in {"closed", "half-open", "open"} : transition(x, to) \in Breaker
  BY DEF Breaker, transition
<1>2. AfterAllow(cb) \in Breaker
  <2>1. PICK x \in Breaker : x = transition(cb, "half-open")
    BY <1>1, Zenon
  <2>2. [x EXCEPT !.allowed = 0] \in Breaker /\ [cb EXCEPT !.allowed = 0] \in Breaker
    BY DEF Breaker
  <2> QED BY <2>1, <2>2, Zenon DEF AfterAllow
<1>3. RecordSuccess(cb) \in Breaker
  <2>1. PICK ok \in Breaker : ok = [cb EXCEPT !.fails = 0]
    BY Zenon DEF Breaker
  <2>2. PICK counted \in Breaker : counted = [ok EXCEPT !.succs = @ + 1]
    <3>1. PICK n \in Nat : n = ok.succs + 1
      BY DEF Breaker
    <3>2. [ok EXCEPT !.succs = n] \in Breaker
      BY Zenon DEF Breaker
    <3> QED BY <3>1, <3>2, Zenon
  <2>3. [counted EXCEPT !.allowed = 1] \in Breaker /\ transition(counted, "closed") \in Breaker
    BY <1>1 DEF Breaker
  <2> QED BY <2>1, <2>2, <2>3, Zenon DEF RecordSuccess
<1>4. RecordFailure(cb) \in Breaker
  <2>1. PICK bad \in Breaker : bad = [cb EXCEPT !.succs = 0, !.fails = @ + 1, !.cooled = 0]
    <3>1. PICK n \in Nat : n = cb.fails + 1
      BY DEF Breaker
    <3>2. PICK x \in Breaker : x = [cb EXCEPT !.succs = 0]
      BY Zenon DEF Breaker
    <3>3. PICK y \in Breaker : y = [x EXCEPT !.fails = n]
      BY Zenon DEF Breaker
    <3>4. [y EXCEPT !.cooled = 0] \in Breaker
      BY DEF Breaker
    <3>5. [y EXCEPT !.cooled = 0] = [cb EXCEPT !.succs = 0, !.fails = @ + 1, !.cooled = 0]
      BY ONLY <3>1, <3>2, <3>3, cb \in Breaker, Zenon DEF Breaker
    <3> QED BY <3>4, <3>5, Zenon
  <2>2. transition(bad, "open") \in Breaker
    BY <1>1, Zenon
  <2> QED BY <2>1, <2>2, Zenon DEF RecordFailure
<1> QED BY <1>2, <1>3, <1>4, Zenon

\* A new breaker's fields are in their ranges.
LEMMA NewBreaker == NewCircuitBreaker \in Breaker
BY DEF NewCircuitBreaker, Breaker

\* An instance is a plugin and a number.
LEMMA Pair ==
  ASSUME NEW i \in Instances
  PROVE  /\ i[1] \in Plugins /\ i[2] \in 1..MaxInst /\ i = <<i[1], i[2]>>
BY DEF Instances

\* A plugin and a number are an instance.
LEMMA Paired ==
  ASSUME NEW p, NEW n
  PROVE  /\ <<p, n>> \in Instances <=> p \in Plugins /\ n \in 1..MaxInst
         /\ <<p, n>>[1] = p /\ <<p, n>>[2] = n
BY Zenon DEF Instances

\* A breaker set for an instance that exists stays a breaker.
LEMMA SetType ==
  ASSUME TypeOK, NEW i, NEW cb, i \in Instances => cb \in Breaker, SetBreaker(i, cb)
  PROVE  breaker' \in [Instances -> Breaker]
BY Zenon DEF TypeOK, SetBreaker

\* Updates at one instance.
LEMMA SetRestart ==
  ASSUME TypeOK, NEW p \in Plugins, NEW n \in 1..MaxInst, NEW v \in RestartStates, restart' = [restart EXCEPT ![<<p, n>>] = v]
  PROVE  /\ restart' \in [Instances -> RestartStates] /\ restart'[<<p, n>>] = v
         /\ \A q \in Plugins, k \in Int : q # p \/ k # n => restart'[<<q, k>>] = restart[<<q, k>>]
<1>1. restart \in [Instances -> RestartStates] /\ <<p, n>> \in Instances
  BY Paired, Zenon DEF TypeOK
<1>2. restart' \in [Instances -> RestartStates] /\ restart'[<<p, n>>] = v
  BY <1>1, Zenon
<1>3. ASSUME NEW i, i # <<p, n>> PROVE restart'[i] = restart[i]
  BY <1>1, <1>3
<1>4. \A q \in Plugins, k \in Int : q # p \/ k # n => <<q, k>> # <<p, n>>
  BY Zenon
<1> QED BY <1>2, <1>3, <1>4, Zenon

\* The same for its process ...
LEMMA SetProc ==
  ASSUME TypeOK, NEW p \in Plugins, NEW n \in 1..MaxInst, NEW v \in ProcStates, proc' = [proc EXCEPT ![<<p, n>>] = v]
  PROVE  /\ proc' \in [Instances -> ProcStates] /\ proc'[<<p, n>>] = v
         /\ \A q \in Plugins, k \in Int : q # p \/ k # n => proc'[<<q, k>>] = proc[<<q, k>>]
<1>1. proc \in [Instances -> ProcStates] /\ <<p, n>> \in Instances
  BY Paired, Zenon DEF TypeOK
<1>2. proc' \in [Instances -> ProcStates] /\ proc'[<<p, n>>] = v
  BY <1>1, Zenon
<1>3. ASSUME NEW i, i # <<p, n>> PROVE proc'[i] = proc[i]
  BY <1>1, <1>3
<1>4. \A q \in Plugins, k \in Int : q # p \/ k # n => <<q, k>> # <<p, n>>
  BY Zenon
<1> QED BY <1>2, <1>3, <1>4, Zenon

\* ... and for the attempts to restart it.
LEMMA SetAttempts ==
  ASSUME TypeOK, NEW p \in Plugins, NEW n \in 1..MaxInst, NEW v \in 0..MaxAttempts, attempts' = [attempts EXCEPT ![<<p, n>>] = v]
  PROVE  /\ attempts' \in [Instances -> 0..MaxAttempts] /\ attempts'[<<p, n>>] = v
         /\ \A q \in Plugins, k \in Int : q # p \/ k # n => attempts'[<<q, k>>] = attempts[<<q, k>>]
<1>1. attempts \in [Instances -> 0..MaxAttempts] /\ <<p, n>> \in Instances
  BY Paired, Zenon DEF TypeOK
<1>2. attempts' \in [Instances -> 0..MaxAttempts] /\ attempts'[<<p, n>>] = v
  BY <1>1, Zenon
<1>3. ASSUME NEW i, i # <<p, n>> PROVE attempts'[i] = attempts[i]
  BY <1>1, <1>3
<1>4. \A q \in Plugins, k \in Int : q # p \/ k # n => <<q, k>> # <<p, n>>
  BY Zenon
<1> QED BY <1>2, <1>3, <1>4, Zenon

-----------------------------------------------------------------------------
(* The restart goroutine.                                                  *)

\* Nothing changes for the instances of a plugin.
SamePlugin(q) ==
  /\ plugins'[q] = plugins[q]
  /\ \A k \in Int : /\ restart'[<<q, k>>] = restart[<<q, k>>] /\ proc'[<<q, k>>] = proc[<<q, k>>]
                     /\ attempts'[<<q, k>>] = attempts[<<q, k>>]

\* What restartPlugin does for one plugin leaves the instances of another
\* as they were.
LEMMA Frame ==
  ASSUME NEW q \in Plugins, NEW n \in 1..MaxInst, InstInv(q, n), SamePlugin(q), UNCHANGED mgr,
         plugins[q] \in Int
  PROVE  InstInv(q, n)'
<1>1. n \in Int /\ n + 1 \in Int /\ n - 1 \in Int
  OBVIOUS
<1> QED BY <1>1, Zenon DEF InstInv, SamePlugin

\* Nor does a step that leaves what is said of one instance alone.
LEMMA LocalFrame ==
  ASSUME NEW q \in Plugins, NEW k \in 1..MaxInst, InstInv(q, k), UNCHANGED <<mgr, attempts>>,
         restart'[<<q, k>>] = restart[<<q, k>>], proc'[<<q, k>>] = proc[<<q, k>>],
         restart'[<<q, k - 1>>] = restart[<<q, k - 1>>], plugins'[q] = plugins[q],
         restart'[<<q, plugins[q]>>] = restart[<<q, plugins[q]>>],
         restart[<<q, k>>] \in Active => proc'[<<q, k + 1>>] = proc[<<q, k + 1>>]
  PROVE  InstInv(q, k)'
BY ZenonT(30) DEF InstInv, Spawned, Active

\* The requests do not see the steps of the others.
LEMMA SameCalls ==
  ASSUME PInv, UNCHANGED reqVars
  PROVE  \A c \in Callers : CallInv(c)'
<1> SUFFICES ASSUME NEW c \in Callers PROVE CallInv(c)'
  BY Zenon
<1>1. CallInv(c)
  BY Zenon DEF PInv
<1> QED BY <1>1, Zenon DEF CallInv, reqVars

\* What Kill does to the processes.
LEMMA Killed ==
  ASSUME TypeOK, NEW I, Kill(I)
  PROVE  /\ proc' \in [Instances -> ProcStates]
         /\ \A i \in Instances :
              proc'[i] = IF i \in I /\ proc[i] # "none" THEN "killed" ELSE proc[i]
BY Zenon DEF TypeOK, Kill, ProcStates

\* The goroutine that restarts an instance may only be at work for the one
\* in the map, or after Close.
LEMMA ActiveIsCurrent ==
  ASSUME PInv, NEW p \in Plugins, NEW n \in 1..MaxInst, restart[<<p, n>>] \in Active
  PROVE  /\ n < MaxInst /\ n + 1 \in 1..MaxInst /\ plugins[p] \in Int
         /\ mgr \in Up \cup {"closed"} /\ (mgr \in Up => plugins[p] = n)
<1>1. InstInv(p, n) /\ plugins[p] \in Int /\ mgr \in MgrStates
  BY DEF PInv, TypeOK
<1>2. n < MaxInst /\ n + 1 \in 1..MaxInst
  BY <1>1, PluginAssumption DEF InstInv, PluginAssumption
<1>3. mgr \in Up => ~(n < plugins[p]) /\ ~(n > plugins[p])
  BY <1>1, Zenon DEF InstInv, Active
<1>4. mgr \in Up \cup {"closed"}
  BY <1>1, Zenon DEF InstInv, Active, Up, MgrStates
<1> QED BY <1>1, <1>2, <1>3, <1>4

\* The steps that leave the map alone.
LEMMA RestartLocal ==
  ASSUME PInv, NEW p \in Plugins, NEW n \in 1..MaxInst,
         \/ RestartCanceled(<<p, n>>) \/ RestartBegins(<<p, n>>) \/ AttemptFails(<<p, n>>)
         \/ AttemptSucceeds(<<p, n>>) \/ GiveUp(<<p, n>>)
  PROVE  PInv'
<1> DEFINE i == <<p, n>>
           j == <<p, n + 1>>
<1>1. UNCHANGED <<mgr, plugins, reqVars>> /\ Successor(i) = j
  BY Zenon DEF RestartCanceled, RestartBegins, AttemptFails, AttemptSucceeds, GiveUp, Successor, instVars
<1>2. i \in Instances /\ restart[i] \in Active
  BY Paired, Zenon DEF RestartCanceled, RestartBegins, AttemptFails, AttemptSucceeds, GiveUp, Active
<1>3. /\ n < MaxInst /\ n + 1 \in 1..MaxInst /\ plugins[p] \in Int
      /\ mgr \in Up \cup {"closed"} /\ (mgr \in Up => plugins[p] = n)
  BY <1>2, ActiveIsCurrent, Zenon
<1>4. InstInv(p, n) /\ InstInv(p, n + 1) /\ attempts[i] \in 0..MaxAttempts /\ MaxAttempts \in Nat
  BY <1>2, <1>3, PluginAssumption, Zenon DEF PInv, TypeOK, PluginAssumption
\* Where the goroutine goes, and what becomes of the process it has started.
<1>5. PICK r \in RestartStates, s \in ProcStates, a \in 0..MaxAttempts :
        /\ restart' = [restart EXCEPT ![i] = r] /\ r # "none"
        /\ proc' = [proc EXCEPT ![j] = s] /\ attempts' = [attempts EXCEPT ![i] = a]
        /\ \/ r = "done" /\ s = proc[j] /\ restart[i] \in {"waiting", "exhausted"}
           \/ r = "starting" /\ s = "alive" /\ mgr = "serving" /\ a < MaxAttempts
           \/ r \in {"waiting", "exhausted"} /\ s = "none" /\ (r = "waiting" => a < MaxAttempts)
           \/ r = "started" /\ s = proc[j] /\ restart[i] = "starting"
  <2>1. /\ proc = [proc EXCEPT ![j] = proc[j]] /\ proc[j] \in ProcStates
        /\ attempts = [attempts EXCEPT ![i] = attempts[i]]
    <3>1. j \in Instances
      BY <1>3, Paired, Zenon
    <3> QED BY <1>2, <3>1, Zenon DEF PInv, TypeOK
  <2>2. CASE RestartCanceled(i) \/ GiveUp(i)
    BY <1>4, <2>1, <2>2, Zenon DEF RestartCanceled, GiveUp, RestartTo, RestartStates, instVars
  <2>3. CASE RestartBegins(i)
    <3>1. attempts[i] < MaxAttempts
      BY <1>4, <2>3, Zenon DEF InstInv, RestartBegins
    <3> QED BY <1>1, <1>4, <2>1, <2>3, <3>1, Zenon DEF RestartBegins, RestartTo, RestartStates, ProcStates
  <2>4. CASE AttemptFails(i)
    <3>1. attempts[i] < MaxAttempts
      BY <1>4, <2>4, Zenon DEF InstInv, AttemptFails
    <3>2. PICK a \in 0..MaxAttempts : a = attempts[i] + 1 /\ (a # MaxAttempts => a < MaxAttempts)
      BY <1>4, <3>1
    <3>3. PICK r \in {"waiting", "exhausted"} :
            /\ restart' = [restart EXCEPT ![i] = r]
            /\ r = "waiting" => a < MaxAttempts
      BY <2>4, <3>2, Zenon DEF AttemptFails, RestartTo
    <3> QED BY <1>1, <2>4, <3>2, <3>3, Zenon DEF AttemptFails, RestartStates, ProcStates
  <2>5. CASE AttemptSucceeds(i)
    BY <1>4, <2>1, <2>5, Zenon DEF AttemptSucceeds, RestartTo, RestartStates, instVars
  <2> QED BY <2>2, <2>3, <2>4, <2>5, Zenon
<1>6. /\ restart' \in [Instances -> RestartStates] /\ restart'[i] = r
      /\ \A q \in Plugins, k \in Int : q # p \/ k # n => restart'[<<q, k>>] = restart[<<q, k>>]
  BY <1>5, SetRestart, Zenon DEF PInv
<1>7. /\ attempts' \in [Instances -> 0..MaxAttempts] /\ attempts'[i] = a
      /\ \A q \in Plugins, k \in Int : q # p \/ k # n => attempts'[<<q, k>>] = attempts[<<q, k>>]
  BY <1>5, SetAttempts, Zenon DEF PInv
<1>8. /\ proc' \in [Instances -> ProcStates] /\ proc'[j] = s
      /\ \A q \in Plugins, k \in Int : q # p \/ k # n + 1 => proc'[<<q, k>>] = proc[<<q, k>>]
  BY <1>3, <1>5, SetProc, ZenonT(30) DEF PInv
<1>9. breaker' \in [Instances -> Breaker] /\ failed' \subseteq Instances
  <2>1. breaker' \in [Instances -> Breaker]
    <3>1. CASE UNCHANGED breaker
      BY <3>1, Zenon DEF PInv, TypeOK
    <3>2. CASE SetBreaker(Successor(i), NewCircuitBreaker)
      BY <3>2, SetType, NewBreaker, Zenon DEF PInv
    <3> QED BY <3>1, <3>2, Zenon DEF RestartCanceled, RestartBegins, AttemptFails, AttemptSucceeds, GiveUp
  <2> QED BY <2>1, Zenon DEF PInv, TypeOK, RestartCanceled, RestartBegins, AttemptFails, AttemptSucceeds,
                      GiveUp, instVars
<1>10. TypeOK'
  BY <1>1, <1>6, <1>7, <1>8, <1>9, Zenon DEF PInv, TypeOK, reqVars
<1>11. ASSUME NEW q \in Plugins, NEW k \in 1..MaxInst PROVE InstInv(q, k)'
  <2>1. InstInv(q, k) /\ plugins[q] \in Int
    BY DEF PInv, TypeOK
  <2>2. CASE q # p
    <3>1. SamePlugin(q)
      BY <1>1, <1>6, <1>7, <1>8, <2>2, Zenon DEF SamePlugin
    <3> QED BY <1>1, <2>1, <3>1, Frame, Zenon
  <2>3. CASE q = p
    <3>1. /\ \A l \in Int : l # n => restart'[<<p, l>>] = restart[<<p, l>>]
          /\ \A l \in Int : l # n => attempts'[<<p, l>>] = attempts[<<p, l>>]
          /\ \A l \in Int : l # n + 1 => proc'[<<p, l>>] = proc[<<p, l>>]
      BY <1>6, <1>7, <1>8, Zenon
    <3>2. k \in Int /\ k - 1 \in Int /\ k + 1 \in Int /\ n \in Int /\ n # n + 1
      BY SMTT(30)
    <3>3. /\ restart'[<<p, n>>] = r /\ attempts'[<<p, n>>] = a /\ proc'[<<p, n + 1>>] = s
          /\ mgr' = mgr /\ plugins'[p] = plugins[p]
      BY <1>1, <1>6, <1>7, <1>8, Zenon
    <3>4. /\ r # "none"
          /\ \/ r = "done" /\ s = proc[j] /\ restart[i] \in {"waiting", "exhausted"}
             \/ r = "starting" /\ s = "alive" /\ mgr = "serving" /\ a < MaxAttempts
             \/ r \in {"waiting", "exhausted"} /\ s = "none" /\ (r = "waiting" => a < MaxAttempts)
             \/ r = "started" /\ s = proc[j] /\ restart[i] = "starting"
      BY <1>5, Zenon
    <3>5. CASE k = n
      <4>1. restart'[<<p, k>>] \in {"none", "waiting", "starting"} => attempts'[<<p, k>>] < MaxAttempts
        BY <3>3, <3>4, <3>5, Zenon
      <4>2. mgr \in Up /\ r \in Spawned => s \in {"alive", "exited"}
        BY <1>3, <1>4, <3>4, Zenon DEF InstInv, Spawned
      <4>3. /\ proc'[<<p, k>>] = proc[<<p, k>>] /\ restart'[<<p, k - 1>>] = restart[<<p, k - 1>>]
            /\ InstInv(p, k) /\ restart'[<<p, k>>] = r /\ proc'[<<p, k + 1>>] = s
        <5>1. k - 1 # n /\ n # n + 1
          BY <3>5
        <5> QED BY <2>1, <2>3, <3>1, <3>2, <3>3, <3>5, <5>1, Zenon
      <4> QED BY <1>3, <2>3, <3>3, <3>5, <4>1, <4>2, <4>3, Zenon DEF InstInv, Up
    <3>6. CASE k = n + 1
      <4>1. InstInv(p, k) /\ k > n /\ k > 1 /\ k - 1 = n
        BY <2>1, <2>3, <3>6
      <4>2. /\ mgr \in Up /\ s \in {"alive", "exited"} => r \in Spawned
            /\ mgr = "closed" /\ s = "alive" => r \in Spawned
        BY <1>3, <3>4, <3>6, <4>1, Zenon DEF InstInv, Up, Spawned
      <4>3. /\ proc'[<<p, k>>] = s /\ restart'[<<p, k - 1>>] = r
            /\ restart'[<<p, k>>] = restart[<<p, k>>] /\ attempts'[<<p, k>>] = attempts[<<p, k>>]
        BY <3>1, <3>2, <3>3, <3>6, <4>1, Zenon
      <4> QED BY <1>3, <2>3, <3>3, <3>6, <4>1, <4>2, <4>3, Zenon DEF InstInv, Up, Active
    <3>7. CASE k # n /\ k # n + 1
      <4>1. /\ proc'[<<p, k>>] = proc[<<p, k>>] /\ restart'[<<p, k - 1>>] = restart[<<p, k - 1>>]
            /\ restart'[<<p, k>>] = restart[<<p, k>>] /\ attempts'[<<p, k>>] = attempts[<<p, k>>]
        <5>1. k - 1 # n
          BY <3>7
        <5> QED BY <3>1, <3>2, <3>7, <5>1, Zenon
      <4> QED BY <1>3, <2>1, <2>3, <3>2, <3>3, <3>7, <4>1, Zenon DEF InstInv, Up
    <3> QED BY <3>5, <3>6, <3>7, Zenon
  <2> QED BY <2>2, <2>3, Zenon
<1>12. ASSUME NEW q \in Plugins PROVE MapInv(q)'
  BY <1>1, Zenon DEF PInv, MapInv, reqVars
<1> QED BY <1>1, <1>10, <1>11, <1>12, SameCalls, Zenon DEF PInv

\* swapPlugin: the instance in the map is replaced by its successor, or the
\* successor killed.
LEMMA SwapInv ==
  ASSUME PInv, NEW p \in Plugins, NEW n \in 1..MaxInst, swapPlugin(<<p, n>>)
  PROVE  PInv'
<1> DEFINE i == <<p, n>>
           j == <<p, n + 1>>
<1>1. /\ restart[i] = "started" /\ restart' = [restart EXCEPT ![i] = "done"]
      /\ UNCHANGED <<mgr, failed, breaker, attempts, reqVars>> /\ Successor(i) = j
      /\ i[1] = p /\ i[2] = n
  BY Zenon DEF swapPlugin, RestartTo, Successor
<1>2. /\ n < MaxInst /\ n + 1 \in 1..MaxInst /\ plugins[p] \in Int
      /\ mgr \in Up \cup {"closed"} /\ (mgr \in Up => plugins[p] = n)
  BY <1>1, ActiveIsCurrent, Zenon DEF Active
<1>3. /\ restart' \in [Instances -> RestartStates] /\ restart'[i] = "done"
      /\ \A q \in Plugins, k \in Int : q # p \/ k # n => restart'[<<q, k>>] = restart[<<q, k>>]
  BY <1>1, SetRestart, Zenon DEF PInv, RestartStates
<1>4. /\ InstInv(p, n) /\ InstInv(p, n + 1) /\ TypeOK /\ UNCHANGED attempts
      /\ \A q \in Plugins : MapInv(q) /\ plugins[q] \in Int
  BY <1>1, <1>2 DEF PInv, TypeOK
<1>5. CASE mgr \in {"marked", "closed"}
  <2>1. Kill({j}) /\ UNCHANGED plugins
    BY <1>1, <1>5, Zenon DEF swapPlugin
  <2>2. /\ proc' \in [Instances -> ProcStates]
        /\ \A q \in Plugins, k \in 1..MaxInst :
             proc'[<<q, k>>] = IF q = p /\ k = n + 1 /\ proc[j] # "none" THEN "killed" ELSE proc[<<q, k>>]
    <3>1. \A q \in Plugins, k \in 1..MaxInst : <<q, k>> = j <=> q = p /\ k = n + 1
      BY Zenon
    <3>2. \A q \in Plugins, k \in 1..MaxInst : <<q, k>> \in Instances
      BY Paired, Zenon
    <3> QED BY <1>4, <2>1, <3>1, <3>2, Killed
  <2>3. TypeOK'
    BY <1>1, <1>3, <2>1, <2>2, Zenon DEF PInv, TypeOK, reqVars
  <2>4. ASSUME NEW q \in Plugins, NEW k \in 1..MaxInst PROVE InstInv(q, k)'
    <3>1. InstInv(q, k) /\ plugins[q] \in Int /\ k \in Int /\ k - 1 \in Int
      BY <1>4 DEF PInv
    <3>2. q = p /\ mgr \in Up /\ k = plugins[p] => restart'[<<q, k>>] = "done"
      BY <1>2, <1>3, Zenon
    <3>3. proc'[<<q, k>>] \in {proc[<<q, k>>], "killed"} /\ (proc'[<<q, k>>] # proc[<<q, k>>] => q = p /\ k = n + 1)
      BY <2>2, Zenon
    <3>4. CASE q = p
      <4>1. /\ k # n => restart'[<<q, k>>] = restart[<<q, k>>]
            /\ k = n => restart'[<<q, k>>] = "done"
            /\ k = n + 1 => proc'[<<q, k>>] \in {"none", "killed"}
        BY <1>3, <2>2, <3>1, <3>4, SMTT(30)
      <4>2. CASE mgr = "closed"
        <5>1. k # n + 1 => restart'[<<q, k - 1>>] = restart[<<q, k - 1>>]
          <6>1. k # n + 1 => k - 1 # n
            OBVIOUS
          <6> QED BY <1>3, <3>1, <3>4, <6>1, Zenon
        <5>2. UNCHANGED <<mgr, attempts, plugins>>
          BY <1>1, <2>1, Zenon
        <5> QED BY <3>1, <3>3, <4>1, <4>2, <5>1, <5>2, ZenonT(30) DEF InstInv, Up, Active, Spawned
      <4>3. CASE mgr = "marked"
        BY <1>1, <1>2, <1>3, <1>4, <2>1, <3>1, <3>3, <3>4, <4>1, <4>3, SMTT(30) DEF InstInv, Up, Active, Spawned
      <4> QED BY <1>5, <4>2, <4>3, Zenon
    <3>5. CASE q # p
      <4>1. /\ restart'[<<q, k>>] = restart[<<q, k>>] /\ proc'[<<q, k>>] = proc[<<q, k>>]
            /\ restart'[<<q, k - 1>>] = restart[<<q, k - 1>>]
            /\ restart'[<<q, plugins[q]>>] = restart[<<q, plugins[q]>>]
        BY <1>3, <2>2, <3>1, <3>5, Zenon
      <4>2. restart[<<q, k>>] \in Active => proc'[<<q, k + 1>>] = proc[<<q, k + 1>>]
        <5> SUFFICES ASSUME restart[<<q, k>>] \in Active PROVE k + 1 \in 1..MaxInst
          BY <2>2, <3>5, Zenon
        <5> QED BY ActiveIsCurrent, Zenon
      <4>3. UNCHANGED <<mgr, attempts>> /\ plugins'[q] = plugins[q]
        BY <1>1, <2>1, Zenon
      <4> QED BY <3>1, <4>1, <4>2, <4>3, LocalFrame, Zenon
    <3> QED BY <3>4, <3>5, Zenon
  <2>5. ASSUME NEW q \in Plugins PROVE MapInv(q)'
    BY <1>1, <1>4, <2>1, Zenon DEF MapInv, reqVars
  <2> QED BY <1>1, <2>3, <2>4, <2>5, SameCalls, Zenon DEF PInv
<1>6. CASE mgr \notin {"marked", "closed"}
  <2>1. /\ Kill({Current(p)} \cap Instances) /\ plugins' = [plugins EXCEPT ![p] = n + 1]
        /\ mgr \in Up /\ plugins[p] = n
    BY <1>1, <1>2, <1>6, Zenon DEF swapPlugin
  <2>2. /\ proc' \in [Instances -> ProcStates]
        /\ \A q \in Plugins, k \in 1..MaxInst :
             proc'[<<q, k>>] = IF q = p /\ k = n /\ proc[i] # "none" THEN "killed" ELSE proc[<<q, k>>]
    <3>1. \A q \in Plugins, k \in 1..MaxInst : <<q, k>> = i <=> q = p /\ k = n
      BY Zenon
    <3>2. \A q \in Plugins, k \in 1..MaxInst : <<q, k>> \in Instances
      BY Paired, Zenon
    <3>3. Current(p) = i
      BY <2>1, Zenon DEF Current
    <3> QED BY <1>4, <2>1, <3>1, <3>2, <3>3, Killed
  <2>3. /\ plugins' \in [Plugins -> 0..MaxInst] /\ plugins'[p] = n + 1
        /\ \A q \in Plugins \ {p} : plugins'[q] = plugins[q]
    BY <1>2, <1>4, <2>1 DEF TypeOK
  <2>4. TypeOK'
    BY <1>1, <1>3, <2>2, <2>3, Zenon DEF PInv, TypeOK, reqVars
  <2>5. ASSUME NEW q \in Plugins, NEW k \in 1..MaxInst PROVE InstInv(q, k)'
    <3>1. InstInv(q, k) /\ plugins[q] \in Int /\ k \in Int /\ k - 1 \in Int
      BY <1>4 DEF PInv
    <3>2. CASE q = p
      <4>1. /\ k # n => restart'[<<q, k>>] = restart[<<q, k>>] /\ proc'[<<q, k>>] = proc[<<q, k>>]
            /\ k = n => restart'[<<q, k>>] = "done" /\ proc'[<<q, k>>] \in {"none", "killed"}
        BY <1>3, <2>2, <3>1, <3>2, Zenon
      <4>2. k = n + 1 => proc[<<q, k>>] \in {"alive", "exited"} /\ restart[<<q, k>>] = "none"
        BY <1>1, <1>4, <2>1, <3>1, <3>2 DEF InstInv, Spawned
      <4>3. mgr' = mgr /\ plugins'[q] = n + 1 /\ mgr \in Up /\ attempts' = attempts
        BY <1>1, <1>4, <2>1, <2>3, <3>2, Zenon
      <4>4. /\ k < n => restart[<<q, k>>] = "done" /\ proc[<<q, k>>] # "alive"
            /\ k > n + 1 => restart[<<q, k>>] = "none" /\ proc[<<q, k>>] \notin {"alive", "exited"}
        BY <2>1, <3>1, <3>2, SMTT(30) DEF InstInv
      <4>5. restart[<<q, k>>] \in {"none", "waiting", "starting"} => attempts[<<q, k>>] < MaxAttempts
        BY <3>1, Zenon DEF InstInv
      <4> QED BY <3>1, <4>1, <4>2, <4>3, <4>4, <4>5, SMTT(30) DEF InstInv, Up, Active, Spawned
    <3>3. CASE q # p
      <4>1. /\ restart'[<<q, k>>] = restart[<<q, k>>] /\ proc'[<<q, k>>] = proc[<<q, k>>]
            /\ restart'[<<q, k - 1>>] = restart[<<q, k - 1>>]
            /\ restart'[<<q, plugins[q]>>] = restart[<<q, plugins[q]>>] /\ plugins'[q] = plugins[q]
        BY <1>3, <2>2, <2>3, <3>1, <3>3, Zenon
      <4>2. restart[<<q, k>>] \in Active => proc'[<<q, k + 1>>] = proc[<<q, k + 1>>]
        <5> SUFFICES ASSUME restart[<<q, k>>] \in Active PROVE k + 1 \in 1..MaxInst
          BY <2>2, <3>3, Zenon
        <5> QED BY ActiveIsCurrent, Zenon
      <4>3. UNCHANGED <<mgr, attempts>>
        BY <1>1, Zenon
      <4> QED BY <3>1, <4>1, <4>2, <4>3, LocalFrame, Zenon
    <3> QED BY <3>2, <3>3, Zenon
  <2>6. ASSUME NEW q \in Plugins PROVE MapInv(q)'
    <3>1. /\ plugins'[q] # 0 /\ plugins'[q] \in Int /\ plugins[q] <= plugins'[q]
          /\ \A c \in Callers : snap[c][q] \in Int
      <4>1. CASE q = p
        BY <1>4, <2>1, <2>3, <4>1 DEF TypeOK
      <4>2. CASE q # p
        BY <1>4, <2>1, <2>3, <4>2 DEF TypeOK, MapInv
      <4> QED BY <4>1, <4>2, Zenon
    <3>2. MapInv(q) /\ plugins[q] \in Int
      BY <1>4, Zenon
    <3>3. \A c \in Callers : snap[c][q] <= plugins'[q]
      BY <2>1, <3>1, <3>2 DEF MapInv, Up
    <3> QED BY <1>1, <2>1, <3>1, <3>2, <3>3, Zenon DEF MapInv, reqVars
  <2> QED BY <1>1, <2>4, <2>5, <2>6, SameCalls, Zenon DEF PInv
<1> QED BY <1>5, <1>6, Zenon

-----------------------------------------------------------------------------
(* The calls of a request.                                                 *)

\* What a step of one call does to it: the answer ALLOW, and nothing else,
\* makes it a call that was allowed.
CallEffect(c, p, was, loc) ==
  /\ was = call[c][p] /\ was \in {"ready", "calling", "gotAllow", "gotDeny"}
  /\ Step(c, p, loc) /\ loc \in CallStates \ {"off"}
  /\ \/ vouched' = vouched \cup {<<c, p>>} /\ loc = "gotAllow"
     \/ vouched' = vouched /\ (loc \in {"gotAllow", "sentAllow"} <=> was \in {"gotAllow", "sentAllow"})

\* A call that holds the instance's admission: between Allow and the record.
Flying == {"calling", "gotAllow", "gotDeny"}

\* What a step of a call to instance i does to the breakers and the probes: the
\* call is refused, admitted, answered, recorded, or ends without a record.
CallKind(c, p, i, was, loc) ==
  \/ /\ was = "ready" /\ loc = "sentDeny"
     /\ UNCHANGED <<breaker, probes, lost>>
  \/ /\ was = "ready" /\ loc = "calling"
     /\ Allows(breaker[i]) /\ SetBreaker(i, AfterAllow(breaker[i]))
     /\ probes' = IF breaker[i].state = "closed" THEN probes ELSE probes \cup {<<c, p>>}
     /\ UNCHANGED lost
  \/ /\ was \in Flying /\ loc \in Flying
     /\ UNCHANGED <<breaker, probes, lost>>
  \/ /\ was \in Flying /\ loc \in Sent
     /\ SetBreaker(i, RecordSuccess(breaker[i])) \/ SetBreaker(i, RecordFailure(breaker[i]))
     /\ probes' = probes \ {<<c, p>>}
     /\ UNCHANGED lost
  \/ /\ was \in Flying /\ loc \in Sent
     /\ probes' = probes \ {<<c, p>>}
     /\ lost' = IF <<c, p>> \in probes THEN lost \cup {i} ELSE lost
     /\ UNCHANGED breaker

\* Every step of a plugin call is of these kinds and touches no process; only
\* a call that fails starts a restart.
LEMMA CallEffects ==
  ASSUME NEW c \in Callers, NEW p \in Plugins, CallStep(c, p)
  PROVE  /\ \E was, loc : CallEffect(c, p, was, loc) /\ CallKind(c, p, InstOf(c, p), was, loc)
         /\ UNCHANGED <<mgr, instVars, attempts, decision, snap, canceled>>
         /\ UNCHANGED restart \/ CallFails(c, p)
<1>1. CASE CallPlugin(c, p)
  BY <1>1, Zenon DEF CallPlugin, CallEffect, CallKind, CallStates, restartVars
<1>2. CASE Answer(c, p)
  BY <1>2, Zenon DEF Answer, CallEffect, CallKind, CallStates, Flying, restartVars
<1>3. CASE CallSucceeds(c, p)
  BY <1>3, Zenon DEF CallSucceeds, CallEffect, CallKind, CallStates, Flying, Sent, restartVars
<1>4. CASE CallTimesOut(c, p) \/ NilResponse(c, p)
  BY <1>4, Zenon DEF CallTimesOut, NilResponse, CallEffect, CallKind, CallStates, Flying, Sent, restartVars
<1>5. CASE CallFails(c, p)
  BY <1>5, Zenon DEF CallFails, CallEffect, CallKind, CallStates, Flying, Sent
<1>6. CASE CallCanceled(c, p) \/ CallPanics(c, p)
  BY <1>6, Zenon DEF CallCanceled, CallPanics, EndUnrecorded, CallEffect, CallKind, CallStates, Flying, Sent,
                     restartVars
<1> QED BY <1>1, <1>2, <1>3, <1>4, <1>5, <1>6, Zenon DEF CallStep

\* The calls of every request, after a step of one of them.
LEMMA CallStepCalls ==
  ASSUME PInv, NEW c \in Callers, NEW p \in Plugins, CallStep(c, p)
  PROVE  /\ call' \in [Callers -> [Plugins -> CallStates]] /\ vouched' \subseteq Callers \X Plugins
         /\ \A d \in Callers : CallInv(d)'
         /\ decision[c] \notin {"none", "deny"} /\ mgr \notin {"starting", "aborted"} /\ snap[c][p] # 0
<1>1. PICK was, loc : CallEffect(c, p, was, loc)
  BY CallEffects, Zenon
<1>2. UNCHANGED <<decision, snap>>
  BY CallEffects, Zenon
<1>3. /\ call'[c][p] = loc
      /\ \A d \in Callers, q \in Plugins : d # c \/ q # p => call'[d][q] = call[d][q]
      /\ call' \in [Callers -> [Plugins -> CallStates]]
  BY <1>1, Zenon DEF PInv, TypeOK, CallEffect, Step
<1>4. /\ \A d \in Callers, q \in Plugins :
           d # c \/ q # p => (<<d, q>> \in vouched' <=> <<d, q>> \in vouched)
      /\ vouched' \subseteq Callers \X Plugins
  BY <1>1 DEF CallEffect, PInv, TypeOK
<1>5. CallInv(c)
  BY Zenon DEF PInv
<1>6. /\ decision[c] \notin {"none", "deny"} /\ snap[c][p] # 0
      /\ <<c, p>> \in vouched <=> was \in {"gotAllow", "sentAllow"}
  BY <1>1, <1>5, Zenon DEF CallInv, CallEffect
<1>7. <<c, p>> \in vouched' <=> loc \in {"gotAllow", "sentAllow"}
  BY <1>1, <1>6, Zenon DEF CallEffect
<1>8. CallInv(c)'
  <2>1. decision[c] = "allow" => \E q \in Plugins : call'[c][q] = "sentAllow"
    <3> SUFFICES ASSUME decision[c] = "allow" PROVE \E q \in Plugins : call'[c][q] = "sentAllow"
      BY Zenon
    <3>1. PICK q \in Plugins : call[c][q] = "sentAllow"
      BY <1>5, Zenon DEF CallInv
    <3> QED BY <1>1, <1>3, <3>1, Zenon DEF CallEffect
  <2>2. \A q \in Plugins : <<c, q>> \in vouched' <=> call'[c][q] \in {"gotAllow", "sentAllow"}
    BY <1>3, <1>4, <1>5, <1>7, Zenon DEF CallInv
  <2>3. \A q \in Plugins : call'[c][q] \notin {"off", "sentDeny"} => snap[c][q] # 0
    BY <1>3, <1>5, <1>6, Zenon DEF CallInv
  <2> QED BY <1>2, <1>6, <2>1, <2>2, <2>3, Zenon DEF CallInv
<1>9. ASSUME NEW d \in Callers, d # c PROVE CallInv(d)'
  <2>1. CallInv(d)
    BY Zenon DEF PInv
  <2> QED BY <1>2, <1>3, <1>4, <1>9, <2>1, Zenon DEF CallInv
<1>10. mgr \notin {"starting", "aborted"}
  BY <1>1, Zenon DEF PInv, MapInv, CallEffect
<1> QED BY <1>3, <1>4, <1>6, <1>8, <1>9, <1>10, Zenon

\* A call's step that does not start a restart leaves the instances alone;
\* one that does starts it for the instance in the map, or after Close.
LEMMA CallStepInsts ==
  ASSUME PInv, NEW c \in Callers, NEW p \in Plugins, CallStep(c, p)
  PROVE  /\ restart' \in [Instances -> RestartStates]
         /\ \A q \in Plugins : MapInv(q)' /\ \A n \in 1..MaxInst : InstInv(q, n)'
<1>1. UNCHANGED <<mgr, instVars, attempts, snap>> /\ mgr \notin {"starting", "aborted"} /\ snap[c][p] # 0
  BY CallEffects, CallStepCalls, Zenon
<1>2. ASSUME NEW q \in Plugins PROVE MapInv(q)'
  BY <1>1, Zenon DEF PInv, MapInv, instVars, Up
<1>3. CASE UNCHANGED restart
  <2>1. ASSUME NEW q \in Plugins, NEW n \in 1..MaxInst PROVE InstInv(q, n)'
    <3>1. InstInv(q, n)
      BY Zenon DEF PInv
    <3> QED BY <1>1, <1>3, <3>1, Zenon DEF InstInv, instVars
  <2> QED BY <1>2, <1>3, <2>1, Zenon DEF PInv, TypeOK
<1>4. CASE restart' # restart
  <2>1. CallFails(c, p)
    BY <1>4, CallEffects, Zenon
  <2>2. PICK k \in 1..MaxInst : k = snap[c][p]
    BY <1>1, PluginAssumption, SMTT(30) DEF PInv, TypeOK, PluginAssumption
  <2>3. /\ restart[<<p, k>>] = "none" /\ k < MaxInst
        /\ restart' = [restart EXCEPT ![<<p, k>>] = "waiting"]
    <3>1. PICK i : i = <<p, k>>
      BY Zenon
    <3>2. i = InstOf(c, p)
      BY <2>2, <3>1, Zenon DEF InstOf
    <3>3. i[2] = k
      BY <3>1, Zenon
    <3>4. restart[i] = "none" /\ i[2] < MaxInst /\ restart' = [restart EXCEPT ![i] = "waiting"]
      BY <1>4, <2>1, <3>2, Zenon DEF CallFails
    <3> QED BY <3>1, <3>3, <3>4, Zenon
  <2>4. /\ restart' \in [Instances -> RestartStates]
        /\ restart'[<<p, k>>] = "waiting"
        /\ \A q \in Plugins, n \in Int : q # p \/ n # k => restart'[<<q, n>>] = restart[<<q, n>>]
    BY <2>3, SetRestart, Zenon DEF PInv, RestartStates
  <2>5. mgr \in Up => k = plugins[p]
    <3>1. InstInv(p, k) /\ MapInv(p)
      BY Zenon DEF PInv
    <3>2. plugins[p] \in Int /\ k \in Int
      BY SMTT(30) DEF PInv, TypeOK
    <3>3. mgr \in Up => k <= plugins[p] /\ ~(k < plugins[p])
      BY <2>2, <2>3, <3>1, Zenon DEF InstInv, MapInv, Up
    <3> QED BY <3>2, <3>3
  <2>6. ASSUME NEW q \in Plugins, NEW n \in 1..MaxInst PROVE InstInv(q, n)'
    <3>1. InstInv(q, n) /\ plugins[q] \in Int /\ n \in Int /\ n - 1 \in Int
      BY DEF PInv, TypeOK
    <3> QED BY <1>1, <2>3, <2>4, <2>5, <3>1, ZenonT(30) DEF InstInv, instVars, Active, Spawned, Up
  <2> QED BY <1>2, <2>4, <2>6, Zenon
<1> QED BY <1>3, <1>4, Zenon

\* The steps of a plugin call keep the invariant.
LEMMA CallStepInv ==
  ASSUME PInv, NEW c \in Callers, NEW p \in Plugins, CallStep(c, p)
  PROVE  PInv'
<1>1. /\ \E was, loc : CallKind(c, p, InstOf(c, p), was, loc)
      /\ UNCHANGED <<mgr, instVars, attempts, decision, snap, canceled>>
  BY CallEffects, Zenon
<1>2. breaker' \in [Instances -> Breaker]
  <2>1. CASE UNCHANGED breaker
    BY <2>1, Zenon DEF PInv, TypeOK
  <2>2. PICK i : i = InstOf(c, p)
    BY Zenon
  <2>3. CASE \/ SetBreaker(i, AfterAllow(breaker[i])) \/ SetBreaker(i, RecordSuccess(breaker[i]))
             \/ SetBreaker(i, RecordFailure(breaker[i]))
    <3>1. i \in Instances => breaker[i] \in Breaker
      BY Zenon DEF PInv, TypeOK
    <3> QED BY <2>3, <3>1, BreakerOps, SetType, Zenon DEF PInv
  <2> QED BY <1>1, <2>1, <2>2, <2>3, Zenon DEF CallKind
<1>3. probes' \subseteq Callers \X Plugins /\ lost' \subseteq Instances
  <2>1. InstOf(c, p) \in Instances
    BY CallStepCalls, Paired, PluginAssumption, SMTT(30) DEF InstOf, PInv, TypeOK, PluginAssumption
  <2>2. /\ probes' \in {probes, probes \cup {<<c, p>>}, probes \ {<<c, p>>}}
        /\ lost' \in {lost, lost \cup {InstOf(c, p)}}
    BY <1>1, Zenon DEF CallKind
  <2> QED BY <2>1, <2>2 DEF PInv, TypeOK
<1>4. TypeOK'
  BY <1>1, <1>2, <1>3, CallStepCalls, CallStepInsts, Zenon DEF PInv, TypeOK, instVars
<1> QED BY <1>4, CallStepCalls, CallStepInsts, Zenon DEF PInv

-----------------------------------------------------------------------------
(* Authorize and its client.                                               *)

\* The steps of a request other than its calls touch that request alone.
LEMMA RequestInv ==
  ASSUME PInv, NEW c \in Callers,
         \/ \E R \in SUBSET Plugins : Authorize(c, R)
         \/ Collect(c) \/ Disconnect(c) \/ NextRequest(c)
  PROVE  PInv'
<1>1. UNCHANGED <<mgr, instVars, breaker, restartVars>>
  BY Zenon DEF Authorize, Collect, Disconnect, NextRequest
<1>2. \A p \in Plugins : \A n \in 1..MaxInst : InstInv(p, n)'
  <2> SUFFICES ASSUME NEW p \in Plugins, NEW n \in 1..MaxInst PROVE InstInv(p, n)'
    BY Zenon
  <2>1. InstInv(p, n)
    BY Zenon DEF PInv
  <2> QED BY <1>1, <2>1, Zenon DEF InstInv, instVars, restartVars
<1> SUFFICES /\ TypeOK' /\ (\A d \in Callers : CallInv(d)') /\ (\A p \in Plugins : MapInv(p)')
  BY <1>2, Zenon DEF PInv
<1>3. CallInv(c) /\ \A p \in Plugins : MapInv(p)
  BY Zenon DEF PInv
<1>4. ASSUME NEW R \in SUBSET Plugins, Authorize(c, R)
      PROVE  /\ TypeOK' /\ (\A d \in Callers : CallInv(d)') /\ (\A p \in Plugins : MapInv(p)')
  <2>1. PICK f \in [Plugins -> {"off", "sentDeny", "ready"}] :
          /\ call' = [call EXCEPT ![c] = f] /\ \A p \in Plugins : f[p] = "ready" => plugins[p] # 0
          /\ R = {} => \A p \in Plugins : f[p] = "off"
    <3>1. PICK f : f = [p \in Plugins |-> IF p \notin R THEN "off"
                                         ELSE IF plugins[p] = 0 THEN "sentDeny" ELSE "ready"]
      BY Zenon
    <3>2. call' = [call EXCEPT ![c] = f]
      BY <1>4, <3>1, Zenon DEF Authorize
    <3>3. f \in [Plugins -> {"off", "sentDeny", "ready"}]
      BY <3>1, Zenon
    <3>4. /\ \A p \in Plugins : f[p] = "ready" => plugins[p] # 0
          /\ R = {} => \A p \in Plugins : f[p] = "off"
      BY <3>1, Zenon
    <3> QED BY <3>2, <3>3, <3>4, Zenon
  <2>2. /\ snap' = [snap EXCEPT ![c] = plugins] /\ decision[c] = "none" /\ mgr \notin {"starting", "aborted"}
        /\ decision' = [decision EXCEPT ![c] = IF R = {} THEN "deny" ELSE "running"]
        /\ UNCHANGED <<canceled, vouched, probes, lost>>
    BY <1>4, Zenon DEF Authorize
  <2>3. /\ call'[c] = f /\ snap'[c] = plugins /\ decision'[c] \in {"deny", "running"}
        /\ decision'[c] = "deny" => R = {}
        /\ \A d \in Callers \ {c} : call'[d] = call[d] /\ snap'[d] = snap[d] /\ decision'[d] = decision[d]
    BY <2>1, <2>2, Zenon DEF PInv, TypeOK
  <2>4. TypeOK'
    <3>1. call' \in [Callers -> [Plugins -> CallStates]]
      BY <2>1, Zenon DEF PInv, TypeOK, CallStates
    <3> QED BY <1>1, <2>2, <3>1, Zenon DEF PInv, TypeOK, instVars, restartVars
  <2>5. CallInv(c)'
    BY <1>3, <2>1, <2>2, <2>3 DEF CallInv
  <2>6. ASSUME NEW d \in Callers, d # c PROVE CallInv(d)'
    <3>1. CallInv(d)
      BY Zenon DEF PInv
    <3>2. /\ call'[d] = call[d] /\ snap'[d] = snap[d] /\ decision'[d] = decision[d]
          /\ vouched' = vouched
      BY <2>2, <2>3, <2>6, Zenon
    <3> QED BY <3>1, <3>2, Zenon DEF CallInv
  <2>7. ASSUME NEW p \in Plugins PROVE MapInv(p)'
    <3>1. plugins[p] \in Int
      BY DEF PInv, TypeOK
    <3> QED BY <1>1, <1>3, <2>2, <2>3, <3>1 DEF MapInv, instVars, Up
  <2> QED BY <2>4, <2>5, <2>6, <2>7, Zenon
<1>5. ASSUME Collect(c) \/ Disconnect(c)
      PROVE  /\ TypeOK' /\ (\A d \in Callers : CallInv(d)') /\ (\A p \in Plugins : MapInv(p)')
  <2>1. UNCHANGED <<snap, call, vouched, probes, lost>> /\ canceled' \subseteq Callers
    BY <1>5, Zenon DEF Collect, Disconnect, PInv, TypeOK
  <2>2. /\ decision' \in [Callers -> {"none", "running", "allow", "deny"}]
        /\ \A d \in Callers \ {c} : decision'[d] = decision[d]
        /\ \/ decision'[c] = decision[c]
           \/ decision'[c] = "allow" /\ \E p \in Plugins : call[c][p] = "sentAllow"
           \/ decision'[c] = "deny" /\ \A p \in Plugins : call[c][p] \in {"off", "sentDeny"}
    <3>1. CASE UNCHANGED decision
      BY <3>1, Zenon DEF PInv, TypeOK
    <3>2. CASE /\ decision' = [decision EXCEPT ![c] = "allow"]
               /\ \E p \in Plugins : call[c][p] = "sentAllow"
      BY <3>2, Zenon DEF PInv, TypeOK
    <3>3. CASE /\ decision' = [decision EXCEPT ![c] = "deny"]
               /\ \A p \in Plugins : call[c][p] \in {"off", "sentDeny"}
      BY <3>3, Zenon DEF PInv, TypeOK
    <3> QED BY <1>5, <3>1, <3>2, <3>3, Zenon DEF Collect, Disconnect
  <2>3. TypeOK'
    BY <1>1, <2>1, <2>2, Zenon DEF PInv, TypeOK, instVars, restartVars
  <2>4. ASSUME NEW d \in Callers PROVE CallInv(d)'
    <3>1. CallInv(d)
      BY Zenon DEF PInv
    <3> QED BY <2>1, <2>2, <3>1, Zenon DEF CallInv
  <2>5. ASSUME NEW p \in Plugins PROVE MapInv(p)'
    BY <1>1, <1>3, <2>1, Zenon DEF MapInv, instVars
  <2> QED BY <2>3, <2>4, <2>5, Zenon
<1>6. ASSUME NextRequest(c)
      PROVE  /\ TypeOK' /\ (\A d \in Callers : CallInv(d)') /\ (\A p \in Plugins : MapInv(p)')
  <2>1. /\ decision' = [decision EXCEPT ![c] = "none"] /\ snap' = [snap EXCEPT ![c] = NoPlugin]
        /\ call' = [call EXCEPT ![c] = NoCall] /\ canceled' = canceled \ {c}
        /\ vouched' = {v \in vouched : v[1] # c} /\ UNCHANGED <<probes, lost>>
    BY <1>6, Zenon DEF NextRequest
  <2>2. /\ decision'[c] = "none" /\ \A p \in Plugins : snap'[c][p] = 0 /\ call'[c][p] = "off"
        /\ \A d \in Callers \ {c} : call'[d] = call[d] /\ snap'[d] = snap[d] /\ decision'[d] = decision[d]
        /\ \A d \in Callers, p \in Plugins : <<d, p>> \in vouched' <=> <<d, p>> \in vouched /\ d # c
    BY <2>1, Zenon DEF PInv, TypeOK, NoPlugin, NoCall
  <2>3. TypeOK'
    <3>1. NoPlugin \in [Plugins -> 0..MaxInst] /\ NoCall \in [Plugins -> CallStates]
      BY PluginAssumption DEF NoPlugin, NoCall, CallStates, PluginAssumption
    <3>2. vouched' \subseteq vouched
      BY <2>1, Zenon
    <3> QED BY <1>1, <2>1, <3>1, <3>2, Zenon DEF PInv, TypeOK, instVars, restartVars
  <2>4. ASSUME NEW d \in Callers PROVE CallInv(d)'
    <3>1. CallInv(d)
      BY Zenon DEF PInv
    <3>2. CASE d = c
      BY <2>2, <3>2, Zenon DEF CallInv
    <3>3. CASE d # c
      <4>1. /\ call'[d] = call[d] /\ snap'[d] = snap[d] /\ decision'[d] = decision[d]
            /\ \A p \in Plugins : <<d, p>> \in vouched' <=> <<d, p>> \in vouched
        BY <2>2, <3>3, Zenon
      <4> QED BY <3>1, <4>1, Zenon DEF CallInv
    <3> QED BY <3>2, <3>3, Zenon
  <2>5. ASSUME NEW p \in Plugins PROVE MapInv(p)'
    <3>1. plugins[p] \in Nat
      BY DEF PInv, TypeOK
    <3>2. \A d \in Callers : d = c \/ (call'[d][p] = call[d][p] /\ snap'[d][p] = snap[d][p])
      BY <2>2, Zenon
    <3>3. mgr # "closed" => \A d \in Callers : snap'[d][p] <= plugins[p]
      <4>1. 0 <= plugins[p]
        BY <3>1
      <4> QED BY <1>3, <2>2, <3>2, <4>1, Zenon DEF MapInv
    <3> QED BY <1>1, <1>3, <2>2, <3>2, <3>3, Zenon DEF MapInv, instVars
  <2> QED BY <2>3, <2>4, <2>5, Zenon
<1> QED BY <1>4, <1>5, <1>6, Zenon

-----------------------------------------------------------------------------
(* NewManager, Close and the environment.                                  *)

\* The manager starts and closes.
LEMMA ManagerInv ==
  ASSUME PInv,
         \/ NewManager \/ CloseSignal \/ CloseMark \/ CloseKill
         \/ \E p \in Plugins : StartFails(p)
  PROVE  PInv'
<1>1. UNCHANGED <<failed, breaker, restart, attempts, reqVars>>
  BY Zenon DEF NewManager, CloseSignal, CloseMark, CloseKill, StartFails, restartVars, instVars
<1>2. /\ TypeOK /\ UNCHANGED <<snap, call>>
      /\ \A p \in Plugins : MapInv(p) /\ plugins[p] \in Nat
      /\ \A p \in Plugins, c \in Callers : snap[c][p] \in Nat
      /\ \A p \in Plugins, n \in 1..MaxInst :
           InstInv(p, n) /\ <<p, n>> \in Instances /\ proc[<<p, n>>] \in ProcStates
  <2>1. TypeOK /\ UNCHANGED <<snap, call>>
    BY <1>1, Zenon DEF PInv, reqVars
  <2>2. ASSUME NEW p \in Plugins PROVE MapInv(p) /\ plugins[p] \in Nat
    BY DEF PInv, TypeOK
  <2>3. ASSUME NEW p \in Plugins, NEW c \in Callers PROVE snap[c][p] \in Nat
    BY DEF PInv, TypeOK
  <2>4. ASSUME NEW p \in Plugins, NEW n \in 1..MaxInst
        PROVE  InstInv(p, n) /\ <<p, n>> \in Instances /\ proc[<<p, n>>] \in ProcStates
    BY Paired, Zenon DEF PInv, TypeOK
  <2> QED BY <2>1, <2>2, <2>3, <2>4, Zenon
<1>3. MaxInst \in Nat \ {0} /\ 1 \in 1..MaxInst
  BY PluginAssumption DEF PluginAssumption
<1>4. CASE NewManager
  <2>1. /\ mgr = "starting" /\ mgr' = "serving" /\ UNCHANGED proc
        /\ \A p \in Plugins : proc[<<p, 1>>] # "none" /\ plugins'[p] = 1
        /\ plugins' \in [Plugins -> 0..MaxInst]
    BY <1>3, <1>4 DEF NewManager
  <2>2. TypeOK'
    BY <1>1, <1>2, <2>1, Zenon DEF TypeOK, MgrStates, reqVars
  <2>3. ASSUME NEW p \in Plugins, NEW n \in 1..MaxInst PROVE InstInv(p, n)'
    <3>1. InstInv(p, n) /\ proc[<<p, n>>] \in ProcStates
      BY <1>2, Zenon
    <3>2. n = 1 \/ n > 1
      OBVIOUS
    <3>3. CASE n = 1
      BY <1>1, <2>1, <3>1, <3>3, Zenon DEF InstInv, Up, Active, Spawned, ProcStates
    <3>4. CASE n > 1
      <4>1. restart[<<p, n>>] = "none" /\ proc[<<p, n>>] = "none" /\ attempts[<<p, n>>] < MaxAttempts
        BY <2>1, <3>1, <3>4, Zenon DEF InstInv
      <4>2. /\ restart'[<<p, n>>] = "none" /\ proc'[<<p, n>>] = "none" /\ attempts'[<<p, n>>] < MaxAttempts
            /\ mgr' = "serving" /\ plugins'[p] = 1
        BY <1>1, <2>1, <4>1, Zenon
      <4>3. ~(n < 1) /\ n # 1
        BY <3>4
      <4> QED BY ONLY <4>2, <4>3, Zenon DEF InstInv, Up, Active
    <3> QED BY <3>2, <3>3, <3>4, Zenon
  <2>4. ASSUME NEW p \in Plugins PROVE MapInv(p)'
    <3>1. MapInv(p) /\ plugins[p] = 0
      BY <1>2, <2>1, Zenon DEF MapInv, Up
    <3>2. \A c \in Callers : snap[c][p] <= 1
      BY <1>2, <2>1, <3>1, SMTT(30) DEF MapInv
    <3>3. mgr' = "serving" /\ plugins'[p] = 1 /\ UNCHANGED <<snap, call>>
      BY <1>2, <2>1, Zenon
    <3> QED BY ONLY <3>2, <3>3, SMTT(30) DEF MapInv, Up
  <2> QED BY <1>1, <2>2, <2>3, <2>4, SameCalls, Zenon DEF PInv
<1>5. CASE CloseSignal \/ CloseMark
  <2>1. mgr \in Up /\ mgr' \in {"signalled", "marked"} /\ UNCHANGED <<plugins, proc>>
    BY <1>5, Zenon DEF CloseSignal, CloseMark, Up, instVars
  <2>2. TypeOK'
    BY <1>1, <1>2, <2>1, Zenon DEF TypeOK, MgrStates, reqVars
  <2>3. ASSUME NEW p \in Plugins, NEW n \in 1..MaxInst PROVE InstInv(p, n)'
    <3>1. InstInv(p, n)
      BY <1>2, Zenon
    <3> QED BY <1>1, <2>1, <3>1, Zenon DEF InstInv, Up
  <2>4. ASSUME NEW p \in Plugins PROVE MapInv(p)'
    BY <1>2, <2>1, Zenon DEF MapInv, Up
  <2> QED BY <1>1, <2>2, <2>3, <2>4, SameCalls, Zenon DEF PInv
<1>6. CASE CloseKill
  <2>1. /\ mgr = "marked" /\ mgr' = "closed" /\ Kill({Current(p) : p \in Plugins})
        /\ \A p \in Plugins : plugins'[p] = 0
        /\ plugins' \in [Plugins -> 0..MaxInst]
    BY <1>3, <1>6, SMTT(30) DEF CloseKill, NoPlugin
  <2>2. /\ proc' \in [Instances -> ProcStates]
        /\ \A p \in Plugins, n \in 1..MaxInst :
             proc'[<<p, n>>] = IF n = plugins[p] /\ proc[<<p, n>>] # "none" THEN "killed" ELSE proc[<<p, n>>]
    <3>1. \A p \in Plugins, n \in 1..MaxInst : <<p, n>> \in {Current(q) : q \in Plugins} <=> n = plugins[p]
      BY Zenon DEF Current
    <3> QED BY <1>2, <2>1, <3>1, Killed, Zenon
  <2>3. TypeOK'
    BY <1>1, <1>2, <2>1, <2>2, Zenon DEF TypeOK, MgrStates, reqVars
  <2>4. ASSUME NEW p \in Plugins, NEW n \in 1..MaxInst PROVE InstInv(p, n)'
    <3>1. InstInv(p, n) /\ plugins[p] \in Nat /\ plugins[p] # 0
      BY <1>2, <2>1, Zenon DEF MapInv, Up
    <3>2. /\ proc'[<<p, n>>] = "alive" => proc[<<p, n>>] = "alive" /\ n # plugins[p]
      BY <2>2, Zenon
    <3>3. proc'[<<p, n>>] = "alive" => n > plugins[p] /\ n = plugins[p] + 1 /\ restart[<<p, plugins[p]>>] \in Spawned
      BY <2>1, <3>1, <3>2, SMTT(30) DEF InstInv, Up
    <3>4. proc'[<<p, n>>] = "alive" => n > 1 /\ restart[<<p, n - 1>>] \in Spawned
      BY <3>1, <3>3
    <3> QED BY <1>1, <2>1, <3>1, <3>4, Zenon DEF InstInv, Up
  <2>5. ASSUME NEW p \in Plugins PROVE MapInv(p)'
    BY <1>2, <2>1, Zenon DEF MapInv, Up
  <2> QED BY <1>1, <2>3, <2>4, <2>5, SameCalls, Zenon DEF PInv
<1>7. CASE \E p \in Plugins : StartFails(p)
  <2>1. mgr = "starting" /\ mgr' = "aborted" /\ Kill(Instances) /\ UNCHANGED plugins
    BY <1>7, Zenon DEF StartFails
  <2>2. /\ proc' \in [Instances -> ProcStates]
        /\ \A i \in Instances : proc'[i] = IF proc[i] # "none" THEN "killed" ELSE "none"
    BY <1>2, <2>1, Killed, Zenon
  <2>3. TypeOK'
    BY <1>1, <1>2, <2>1, <2>2, Zenon DEF TypeOK, MgrStates, reqVars
  <2>4. ASSUME NEW p \in Plugins, NEW n \in 1..MaxInst PROVE InstInv(p, n)'
    <3>1. InstInv(p, n) /\ <<p, n>> \in Instances
      BY <1>2, Zenon
    <3> QED BY <1>1, <2>1, <2>2, <3>1, Zenon DEF InstInv, Up
  <2>5. ASSUME NEW p \in Plugins PROVE MapInv(p)'
    BY <1>2, <2>1, Zenon DEF MapInv, Up
  <2> QED BY <1>1, <2>3, <2>4, <2>5, SameCalls, Zenon DEF PInv
<1> QED BY <1>4, <1>5, <1>6, <1>7, Zenon

\* A process starts in NewManager or exits, a breaker cools down, or nothing
\* happens.
LEMMA EnvInv ==
  ASSUME PInv,
         \/ \E p \in Plugins : StartPlugin(p)
         \/ \E i \in Instances : Exit(i) \/ CoolDown(i)
         \/ UNCHANGED vars
  PROVE  PInv'
<1>1. UNCHANGED <<mgr, plugins, failed, restart, attempts, reqVars>>
  BY Zenon DEF StartPlugin, Exit, CoolDown, vars, restartVars, instVars
<1>2. \A p \in Plugins : MapInv(p)'
  <2> SUFFICES ASSUME NEW p \in Plugins PROVE MapInv(p)'
    BY Zenon
  <2>1. MapInv(p)
    BY Zenon DEF PInv
  <2> QED BY <1>1, <2>1, Zenon DEF MapInv, reqVars
<1>3. \A c \in Callers : CallInv(c)'
  BY <1>1, SameCalls, Zenon
<1>4. CASE UNCHANGED proc
  <2>1. breaker' \in [Instances -> Breaker]
    <3>1. CASE UNCHANGED breaker
      BY <3>1, Zenon DEF PInv, TypeOK
    <3>2. ASSUME NEW i \in Instances, CoolDown(i) PROVE breaker' \in [Instances -> Breaker]
      <4>1. PICK b \in Breaker : b = breaker[i]
        BY Zenon DEF PInv, TypeOK
      <4>2. [b EXCEPT !.cooled = 1] \in Breaker
        BY DEF Breaker
      <4>3. breaker' = [breaker EXCEPT ![i] = [b EXCEPT !.cooled = 1]]
        BY <3>2, <4>1, Zenon DEF CoolDown
      <4> QED BY <4>2, <4>3, Zenon DEF PInv, TypeOK
    <3> QED BY <3>1, <3>2, Zenon DEF StartPlugin, Exit, vars
  <2>2. TypeOK'
    BY <1>1, <1>4, <2>1, Zenon DEF PInv, TypeOK, reqVars
  <2>3. ASSUME NEW p \in Plugins, NEW n \in 1..MaxInst PROVE InstInv(p, n)'
    <3>1. InstInv(p, n)
      BY Zenon DEF PInv
    <3> QED BY <1>1, <1>4, <3>1, Zenon DEF InstInv
  <2> QED BY <1>2, <1>3, <2>2, <2>3, Zenon DEF PInv
<1>5. CASE proc' # proc
  <2>1. PICK p \in Plugins, n \in 1..MaxInst, s \in {"alive", "exited"} :
          /\ proc' = [proc EXCEPT ![<<p, n>>] = s]
          /\ \/ s = "alive" /\ n = 1 /\ mgr = "starting"
             \/ s = "exited" /\ proc[<<p, n>>] = "alive"
    <3>1. ASSUME NEW p \in Plugins, StartPlugin(p)
          PROVE  proc' = [proc EXCEPT ![<<p, 1>>] = "alive"] /\ mgr = "starting" /\ 1 \in 1..MaxInst
      BY <3>1, PluginAssumption DEF StartPlugin, PluginAssumption
    <3>2. ASSUME NEW i \in Instances, Exit(i)
          PROVE  \E p \in Plugins, n \in 1..MaxInst :
                   proc' = [proc EXCEPT ![<<p, n>>] = "exited"] /\ proc[<<p, n>>] = "alive"
      <4>1. PICK p \in Plugins, n \in 1..MaxInst : i = <<p, n>>
        BY Pair, Zenon
      <4> QED BY <3>2, <4>1, Zenon DEF Exit
    <3> QED BY <1>5, <3>1, <3>2, Zenon DEF CoolDown, vars, instVars
  <2>2. /\ proc' \in [Instances -> ProcStates] /\ proc'[<<p, n>>] = s
        /\ \A q \in Plugins, k \in Int : q # p \/ k # n => proc'[<<q, k>>] = proc[<<q, k>>]
    BY <2>1, SetProc, Zenon DEF PInv, ProcStates
  <2>3. UNCHANGED breaker
    BY <1>5, Zenon DEF StartPlugin, Exit, CoolDown, vars, instVars
  <2>4. TypeOK'
    BY <1>1, <2>2, <2>3, Zenon DEF PInv, TypeOK, reqVars
  <2>5. ASSUME NEW q \in Plugins, NEW k \in 1..MaxInst PROVE InstInv(q, k)'
    <3>1. InstInv(q, k) /\ InstInv(p, n) /\ plugins[q] \in Int /\ k \in Int /\ k + 1 \in Int
      BY DEF PInv, TypeOK
    <3>2. CASE mgr = "starting"
      <4>1. InstInv(p, n) /\ (n > 1 => proc[<<p, n>>] = "none")
        BY <3>1, <3>2, Zenon DEF InstInv
      <4>2. ~(n > 1)
        BY <2>1, <4>1
      <4>3. /\ restart[<<q, k>>] = "none" /\ proc[<<q, k>>] # "killed"
            /\ (k > 1 => proc[<<q, k>>] = "none") /\ attempts[<<q, k>>] < MaxAttempts
        BY <3>1, <3>2, Zenon DEF InstInv
      <4>4. proc'[<<q, k>>] # "killed" /\ (k > 1 => proc'[<<q, k>>] = "none")
        <5>1. CASE q = p /\ k = n
          BY <2>2, <4>2, <5>1, Zenon
        <5>2. CASE q # p \/ k # n
          BY <2>2, <3>1, <4>3, <5>2, Zenon
        <5> QED BY <5>1, <5>2, Zenon
      <4>5. /\ mgr' = "starting" /\ restart'[<<q, k>>] = "none"
            /\ attempts'[<<q, k>>] < MaxAttempts
        BY <1>1, <3>2, <4>3, ZenonT(30)
      <4> QED BY <4>4, <4>5, Zenon DEF InstInv, Up, Active, Spawned
    <3>3. CASE mgr # "starting"
      <4>1. proc[<<p, n>>] = "alive" /\ s = "exited"
        BY <2>1, <3>3, Zenon
      <4>2. \A l \in Int : \/ proc'[<<q, l>>] = proc[<<q, l>>]
                           \/ proc'[<<q, l>>] = "exited" /\ proc[<<q, l>>] = "alive"
        BY <2>2, <4>1, Zenon
      <4> QED BY <1>1, <3>1, <3>3, <4>2, ZenonT(30) DEF InstInv
    <3> QED BY <3>2, <3>3, Zenon
  <2> QED BY <1>2, <1>3, <2>4, <2>5, Zenon DEF PInv
<1> QED BY <1>4, <1>5, Zenon

-----------------------------------------------------------------------------
(* The theorems.                                                           *)

\* The invariant holds initially.
LEMMA InitInv == Init => PInv
<1> SUFFICES ASSUME Init PROVE PInv
  BY Zenon
<1>1. MaxInst \in Nat \ {0} /\ MaxAttempts \in Nat \ {0}
  BY PluginAssumption, Zenon DEF PluginAssumption
<1>2. TypeOK
  BY <1>1, NewBreaker DEF Init, TypeOK, NoPlugin, NoCall, MgrStates, ProcStates, RestartStates, CallStates
<1>3. ASSUME NEW c \in Callers PROVE CallInv(c)
  BY Zenon DEF Init, CallInv, NoCall
<1>4. ASSUME NEW p \in Plugins PROVE MapInv(p)
  BY DEF Init, MapInv, NoPlugin, NoCall, Up
<1>5. ASSUME NEW p \in Plugins, NEW n \in 1..MaxInst PROVE InstInv(p, n)
  <2>1. <<p, n>> \in Instances
    BY Paired, Zenon
  <2>2. restart[<<p, n>>] = "none" /\ proc[<<p, n>>] = "none" /\ attempts[<<p, n>>] = 0 /\ mgr = "starting"
    BY <2>1, Zenon DEF Init
  <2> QED BY <1>1, <2>2 DEF InstInv, Up, Active
<1> QED BY <1>2, <1>3, <1>4, <1>5, Zenon DEF PInv

\* Every step keeps it.
LEMMA NextInv == PInv /\ [Next]_vars => PInv'
<1> SUFFICES ASSUME PInv, [Next]_vars PROVE PInv'
  BY Zenon
<1>1. ASSUME NEW i \in Instances, RestartStep(i) PROVE PInv'
  <2>1. PICK p \in Plugins, n \in 1..MaxInst : i = <<p, n>>
    BY Pair, Zenon
  <2> QED BY <1>1, <2>1, RestartLocal, SwapInv, Zenon DEF RestartStep
<1>2. ASSUME NEW c \in Callers, NEW p \in Plugins, CallStep(c, p) PROVE PInv'
  BY <1>2, CallStepInv, Zenon
<1>3. ASSUME NEW c \in Callers,
             \/ \E R \in SUBSET Plugins : Authorize(c, R)
             \/ Collect(c) \/ Disconnect(c) \/ NextRequest(c)
      PROVE  PInv'
  BY <1>3, RequestInv, Zenon
<1> QED BY <1>1, <1>2, <1>3, ManagerInv, EnvInv, Zenon DEF Next, Terminated

\* So it always holds.
LEMMA Invariance == Spec => []PInv
BY InitInv, NextInv, PTL DEF Spec

\* The manager is type correct: in particular no restart goroutine of
\* restartPlugin makes more attempts than the backoff has delays.
THEOREM TypeCorrect == Spec => []TypeOK
BY Invariance, PTL DEF PInv

\* Authorize's decision is sound, whatever fails, however many plugins and
\* requests there are: DecisionSound always holds.
THEOREM Soundness == Spec => []DecisionSound
<1>1. PInv => DecisionSound
  <2> SUFFICES ASSUME PInv, NEW c \in Callers
               PROVE  /\ decision[c] = "allow" => \E p \in Plugins : <<c, p>> \in vouched
                      /\ decision[c] = "deny" => \A p \in Plugins : <<c, p>> \notin vouched
    BY Zenon DEF DecisionSound
  <2>1. CallInv(c)
    BY Zenon DEF PInv
  <2> QED BY <2>1, Zenon DEF CallInv
<1> QED BY <1>1, Invariance, PTL

\* A restart goroutine at work is that of the instance in the map of
\* restartPlugin's manager: RestarterIsCurrent always holds.
THEOREM OneRestarter == Spec => []RestarterIsCurrent
<1>1. PInv => RestarterIsCurrent
  <2> SUFFICES ASSUME PInv, NEW i \in Instances, restart[i] \in Active, mgr # "closed"
               PROVE  plugins[i[1]] = i[2]
    BY Zenon DEF RestarterIsCurrent, Active
  <2>1. PICK p \in Plugins, n \in 1..MaxInst : i = <<p, n>>
    BY Pair, Zenon
  <2>2. plugins[p] = n
    BY <2>1, ActiveIsCurrent, Zenon
  <2> QED BY <2>1, <2>2, Zenon
<1> QED BY <1>1, Invariance, PTL

\* No plugin process escapes Close, although restarts race with it, and the
\* map never holds a killed one: ProcessesOwned always holds.
THEOREM NoOrphanProcess == Spec => []ProcessesOwned
<1>1. PInv => ProcessesOwned
  <2> SUFFICES ASSUME PInv, NEW i \in Instances
               PROVE  /\ proc[i] = "alive" =>
                           \/ mgr = "starting"
                           \/ mgr # "closed" /\ plugins[i[1]] = i[2]
                           \/ i[2] > 1 /\ restart[<<i[1], i[2] - 1>>] \in {"starting", "started"}
                      /\ plugins[i[1]] = i[2] => proc[i] # "killed"
    BY Zenon DEF ProcessesOwned
  <2>1. PICK p \in Plugins, n \in 1..MaxInst : i = <<p, n>> /\ i[1] = p /\ i[2] = n
    BY Pair, Zenon
  <2>2. InstInv(p, n) /\ MapInv(p) /\ plugins[p] \in Nat /\ mgr \in MgrStates
    BY DEF PInv, TypeOK
  <2>3. CASE mgr \in Up
    <3>1. plugins[p] # 0
      BY <2>2, <2>3, Zenon DEF MapInv
    <3>2. n = plugins[p] => proc[i] # "killed"
      BY <2>1, <2>2, <2>3, Zenon DEF InstInv
    <3>3. proc[i] = "alive" => n = plugins[p] \/ (n = plugins[p] + 1 /\ restart[<<p, plugins[p]>>] \in Spawned)
      <4>1. n < plugins[p] \/ n = plugins[p] \/ n > plugins[p]
        BY <2>2
      <4>2. InstInv(p, n) /\ mgr \in Up
        BY <2>2, <2>3, Zenon
      <4>3. proc[<<p, n>>] = "alive" =>
              n = plugins[p] \/ (n = plugins[p] + 1 /\ restart[<<p, plugins[p]>>] \in Spawned)
        BY <2>2, <4>1, <4>2, Zenon DEF InstInv, Up, Spawned
      <4> QED BY <2>1, <4>3, Zenon
    <3>4. n = plugins[p] + 1 => n - 1 = plugins[p] /\ n > 1
      BY <2>2, <3>1
    <3> QED BY <2>1, <2>3, <3>2, <3>3, <3>4, Zenon DEF Spawned, Up
  <2>4. CASE mgr \notin Up
    <3>1. plugins[p] = 0 /\ n # 0
      BY <2>2, <2>4 DEF MapInv
    <3> QED BY <2>1, <2>2, <2>4, <3>1, Zenon DEF InstInv, Spawned, Up, MgrStates
  <2> QED BY <2>3, <2>4, Zenon
<1> QED BY <1>1, Invariance, PTL

-----------------------------------------------------------------------------
(* The probes of a half-open breaker.                                      *)

\* Request c has a call in flight to instance n of plugin p; that call was
\* admitted by a breaker that was not closed.
Flies(c, p, n) == snap[c][p] = n /\ call[c][p] \in Flying
Probes(c, p, n) == Flies(c, p, n) /\ <<c, p>> \in probes

\* A half-open breaker that admits no call has a probe in flight or has lost
\* one, and nobody calls an instance that is being started.
OutstandingInv(p, n) ==
  LET b == breaker[<<p, n>>] IN
  /\ b.state = "half-open" /\ b.allowed = 0
       => <<p, n>> \in lost \/ \E c \in Callers : Probes(c, p, n)
  /\ restart[<<p, n>>] = "starting" => \A c \in Callers : snap[c][p] # n + 1

\* Unless calls outlast the cooldown, a half-open breaker has one call in
\* flight, a probe, and none while it may admit one; so has no other breaker.
LoneInv(p, n) ==
  LET b == breaker[<<p, n>>] IN
  /\ b.state # "half-open" => \A c \in Callers : ~Probes(c, p, n)
  /\ b.state = "open" /\ b.cooled = 1 => \A c \in Callers : ~Flies(c, p, n)
  /\ b.state = "half-open" /\ b.allowed = 1 => \A c \in Callers : ~Flies(c, p, n)
  /\ b.state = "half-open" => \A c, d \in Callers : Flies(c, p, n) /\ Flies(d, p, n) => c = d

\* Only a call in flight is a probe, and every breaker is in order.
ProbeInv ==
  /\ PInv
  /\ \A c \in Callers, p \in Plugins : <<c, p>> \in probes => call[c][p] \in Flying
  /\ \A p \in Plugins, n \in 1..MaxInst : OutstandingInv(p, n)

AllLone == \A p \in Plugins, n \in 1..MaxInst : LoneInv(p, n)

\* What Allow leaves of a breaker that admits a call: a closed one as it is,
\* any other half-open and with no probe to give.
LEMMA AllowFacts ==
  ASSUME NEW cb \in Breaker, Allows(cb)
  PROVE  /\ cb.state = "closed" => AfterAllow(cb) = cb
         /\ cb.state # "closed" => AfterAllow(cb).state = "half-open" /\ AfterAllow(cb).allowed = 0
<1>1. cb.state \in {"closed", "half-open", "open"}
  BY Zenon DEF Breaker
<1>2. CASE cb.state = "closed"
  BY <1>2, Zenon DEF AfterAllow
<1>3. CASE cb.state = "half-open"
  <2>1. AfterAllow(cb) = [cb EXCEPT !.allowed = 0]
    BY <1>3, Zenon DEF AfterAllow
  <2> QED BY <1>3, <2>1, Zenon DEF Breaker
<1>4. CASE cb.state = "open"
  <2>1. AfterAllow(cb) = [transition(cb, "half-open") EXCEPT !.allowed = 0]
    BY <1>4, Zenon DEF AfterAllow
  <2> QED BY <1>4, <2>1, Zenon DEF transition
<1> QED BY <1>1, <1>2, <1>3, <1>4, Zenon

\* RecordSuccess leaves a half-open breaker closed or with a probe to give,
\* and any other in its state.
LEMMA SuccessFacts ==
  ASSUME NEW cb \in Breaker
  PROVE  LET rs == RecordSuccess(cb) IN
         /\ cb.state = "half-open" => rs.state = "closed" \/ (rs.state = "half-open" /\ rs.allowed = 1)
         /\ cb.state # "half-open" => rs.state = cb.state /\ rs.cooled = cb.cooled
<1>1. PICK ok \in Breaker : ok = [cb EXCEPT !.fails = 0]
  BY Zenon DEF Breaker
<1>2. PICK counted \in Breaker : counted = [ok EXCEPT !.succs = @ + 1]
  <2>1. PICK n \in Nat : n = ok.succs + 1
    BY DEF Breaker
  <2>2. [ok EXCEPT !.succs = n] \in Breaker
    BY Zenon DEF Breaker
  <2> QED BY <2>1, <2>2, Zenon
<1>3. ok.state = cb.state /\ ok.cooled = cb.cooled /\ counted.state = cb.state
  BY <1>1, <1>2, Zenon DEF Breaker
<1>4. RecordSuccess(cb) =
        IF cb.state # "half-open" THEN ok
        ELSE IF counted.succs >= SuccessThreshold THEN transition(counted, "closed")
        ELSE [counted EXCEPT !.allowed = 1]
  BY <1>1, <1>2 DEF RecordSuccess
<1>5. transition(counted, "closed").state = "closed"
  BY Zenon DEF transition
<1>6. [counted EXCEPT !.allowed = 1].state = counted.state /\ [counted EXCEPT !.allowed = 1].allowed = 1
  BY Zenon DEF Breaker
<1> QED BY <1>3, <1>4, <1>5, <1>6, Zenon

\* RecordFailure never leaves a breaker half-open, and restarts the cooldown
\* of an open one.
LEMMA FailureFacts ==
  ASSUME NEW cb \in Breaker
  PROVE  LET rf == RecordFailure(cb) IN rf.state # "half-open" /\ rf.cooled = 0
<1>1. PICK n \in Nat : n = cb.fails + 1
  BY DEF Breaker
<1>2. PICK bad : bad = [cb EXCEPT !.succs = 0, !.fails = @ + 1, !.cooled = 0]
  BY Zenon
<1>3. bad.state = cb.state /\ bad.cooled = 0
  BY <1>2, Zenon DEF Breaker
<1>4. RecordFailure(cb) =
        IF bad.state = "half-open" \/ (bad.state = "closed" /\ bad.fails >= FailureThreshold)
        THEN transition(bad, "open") ELSE bad
  BY <1>2, Zenon DEF RecordFailure
<1>5. transition(bad, "open").state = "open" /\ transition(bad, "open").cooled = 0
  BY <1>3, Zenon DEF transition
<1> QED BY <1>3, <1>4, <1>5, Zenon

\* A breaker that is set is the only one to change.
LEMMA SetOne ==
  ASSUME PInv, NEW p \in Plugins, NEW n \in 1..MaxInst, NEW cb, SetBreaker(<<p, n>>, cb)
  PROVE  /\ breaker'[<<p, n>>] = cb
         /\ \A q \in Plugins, k \in 1..MaxInst : q # p \/ k # n => breaker'[<<q, k>>] = breaker[<<q, k>>]
<1>1. breaker \in [Instances -> Breaker] /\ <<p, n>> \in Instances
  BY Paired, Zenon DEF PInv, TypeOK
<1>2. breaker'[<<p, n>>] = cb
  BY <1>1, Zenon DEF SetBreaker
<1>3. ASSUME NEW q \in Plugins, NEW k \in 1..MaxInst, q # p \/ k # n
      PROVE  breaker'[<<q, k>>] = breaker[<<q, k>>]
  <2>1. <<q, k>> # <<p, n>> /\ <<q, k>> \in Instances
    BY <1>3, Paired, Zenon
  <2> QED BY <1>1, <2>1, Zenon DEF SetBreaker
<1> QED BY <1>2, <1>3, Zenon

\* Every step of a plugin call is of one of these kinds.
LEMMA CallKinds ==
  ASSUME PInv, NEW c \in Callers, NEW p \in Plugins, CallStep(c, p)
  PROVE  /\ snap[c][p] \in 1..MaxInst
         /\ CallKind(c, p, <<p, snap[c][p]>>, call[c][p], call'[c][p])
         /\ \A d \in Callers, q \in Plugins : d # c \/ q # p => call'[d][q] = call[d][q]
         /\ UNCHANGED snap
         /\ \A q \in Plugins, k \in 1..MaxInst : restart'[<<q, k>>] = "starting" => restart[<<q, k>>] = "starting"
<1>1. snap[c][p] \in 1..MaxInst
  BY CallStepCalls, PluginAssumption, SMTT(30) DEF PInv, TypeOK, PluginAssumption
<1>2. PICK was, loc : CallEffect(c, p, was, loc) /\ CallKind(c, p, InstOf(c, p), was, loc)
  BY CallEffects, Zenon
<1>3. /\ call'[c][p] = loc
      /\ \A d \in Callers, q \in Plugins : d # c \/ q # p => call'[d][q] = call[d][q]
  BY <1>2, Zenon DEF PInv, TypeOK, CallEffect, Step
<1>4. was = call[c][p]
  BY <1>2, Zenon DEF CallEffect
<1>5. UNCHANGED snap
  BY CallEffects, Zenon
<1>6. CallKind(c, p, <<p, snap[c][p]>>, call[c][p], call'[c][p])
  BY <1>2, <1>3, <1>4, Zenon DEF InstOf
<1>7. ASSUME NEW q \in Plugins, NEW k \in 1..MaxInst, restart'[<<q, k>>] = "starting"
      PROVE  restart[<<q, k>>] = "starting"
  <2>1. restart' = restart \/ restart' = [restart EXCEPT ![InstOf(c, p)] = "waiting"]
    BY CallEffects, Zenon DEF CallFails
  <2>2. restart \in [Instances -> RestartStates] /\ <<q, k>> \in Instances
    BY Paired, Zenon DEF PInv, TypeOK
  <2> QED BY <1>7, <2>1, <2>2, Zenon
<1> QED BY <1>1, <1>3, <1>5, <1>6, <1>7, Zenon

\* A plugin call's step and the calls in flight: only the call itself and,
\* of the breakers, only that of its instance change.
LEMMA CallFlight ==
  ASSUME ProbeInv, NEW c \in Callers, NEW p \in Plugins, CallStep(c, p),
         NEW n \in 1..MaxInst, n = snap[c][p]
  PROVE  /\ \A d \in Callers, q \in Plugins, k \in 1..MaxInst :
              d # c \/ q # p \/ k # n =>
                /\ Flies(d, q, k)' <=> Flies(d, q, k)
                /\ Probes(d, q, k)' <=> Probes(d, q, k)
         /\ \A q \in Plugins, k \in 1..MaxInst : q # p \/ k # n =>
              /\ breaker'[<<q, k>>] = breaker[<<q, k>>]
              /\ <<q, k>> \in lost' <=> <<q, k>> \in lost
         /\ Flies(c, p, n)' <=> call'[c][p] \in Flying
         /\ Flies(c, p, n) <=> call[c][p] \in Flying
         /\ \A d \in Callers, q \in Plugins : <<d, q>> \in probes' => call'[d][q] \in Flying
<1>1. /\ CallKind(c, p, <<p, n>>, call[c][p], call'[c][p]) /\ UNCHANGED snap
      /\ \A d \in Callers, q \in Plugins : d # c \/ q # p => call'[d][q] = call[d][q]
  BY CallKinds, ZenonT(30) DEF ProbeInv
<1>2. /\ probes' \in {probes, probes \cup {<<c, p>>}, probes \ {<<c, p>>}}
      /\ lost' \in {lost, lost \cup {<<p, n>>}}
      /\ breaker' = breaker \/ \E cb : SetBreaker(<<p, n>>, cb)
      /\ <<c, p>> \in probes' => <<c, p>> \in probes \/ call'[c][p] \in Flying
  BY <1>1, ZenonT(30) DEF CallKind, Flying
<1>3. ASSUME NEW d \in Callers, NEW q \in Plugins, d # c \/ q # p
      PROVE  <<d, q>> \in probes' <=> <<d, q>> \in probes
  <2>1. <<d, q>> # <<c, p>>
    BY <1>3, Zenon
  <2> QED BY <1>2, <2>1, Zenon
<1>4. ASSUME NEW q \in Plugins, NEW k \in 1..MaxInst, q # p \/ k # n
      PROVE  /\ breaker'[<<q, k>>] = breaker[<<q, k>>]
             /\ <<q, k>> \in lost' <=> <<q, k>> \in lost
  <2>1. <<q, k>> # <<p, n>>
    BY <1>4, Zenon
  <2>2. breaker'[<<q, k>>] = breaker[<<q, k>>]
    <3>1. breaker \in [Instances -> Breaker] /\ <<q, k>> \in Instances
      BY Paired, Zenon DEF ProbeInv, PInv, TypeOK
    <3> QED BY <1>2, <2>1, <3>1, Zenon DEF SetBreaker
  <2> QED BY <1>2, <2>1, <2>2, Zenon
<1>5. ASSUME NEW d \in Callers, NEW q \in Plugins, NEW k \in 1..MaxInst, d # c \/ q # p \/ k # n
      PROVE  /\ Flies(d, q, k)' <=> Flies(d, q, k)
             /\ Probes(d, q, k)' <=> Probes(d, q, k)
  <2>1. CASE d # c \/ q # p
    BY <1>1, <1>3, <2>1, Zenon DEF Flies, Probes
  <2>2. CASE d = c /\ q = p
    BY <1>1, <1>5, <2>2, Zenon DEF Flies, Probes
  <2> QED BY <2>1, <2>2, Zenon
<1>6. /\ Flies(c, p, n)' <=> call'[c][p] \in Flying
      /\ Flies(c, p, n) <=> call[c][p] \in Flying
  BY <1>1, Zenon DEF Flies
<1>7. ASSUME NEW d \in Callers, NEW q \in Plugins, <<d, q>> \in probes'
      PROVE  call'[d][q] \in Flying
  <2>1. CASE d # c \/ q # p
    BY <1>1, <1>3, <1>7, <2>1, Zenon DEF ProbeInv
  <2>2. <<c, p>> \in probes' => call'[c][p] \in Flying
    <3>1. <<c, p>> \in probes => call[c][p] \in Flying
      BY Zenon DEF ProbeInv
    <3> QED BY <1>1, <3>1, Zenon DEF CallKind, Flying
  <2> QED BY <1>7, <2>1, <2>2, Zenon
<1> QED BY <1>4, <1>5, <1>6, <1>7, Zenon

\* A plugin call's step keeps both invariants of the probes.
LEMMA CallProbes ==
  ASSUME ProbeInv, NEW c \in Callers, NEW p \in Plugins, CallStep(c, p)
  PROVE  ProbeInv' /\ (AllLone => AllLone')
<1> HIDE DEF Flies, Probes
<1>1. PICK n \in 1..MaxInst : n = snap[c][p]
  BY CallKinds, Zenon DEF ProbeInv
<1>2. /\ CallKind(c, p, <<p, n>>, call[c][p], call'[c][p]) /\ UNCHANGED snap
      /\ \A q \in Plugins, k \in 1..MaxInst : restart'[<<q, k>>] = "starting" => restart[<<q, k>>] = "starting"
  BY <1>1, CallKinds, ZenonT(30) DEF ProbeInv
<1>3. /\ \A d \in Callers : d # c => (Flies(d, p, n)' <=> Flies(d, p, n)) /\ (Probes(d, p, n)' <=> Probes(d, p, n))
      /\ Flies(c, p, n)' <=> call'[c][p] \in Flying
      /\ Flies(c, p, n) <=> call[c][p] \in Flying
  BY <1>1, CallFlight, ZenonT(30)
<1>4. ASSUME NEW q \in Plugins, NEW k \in 1..MaxInst, q # p \/ k # n
      PROVE  OutstandingInv(q, k)' /\ (LoneInv(q, k) => LoneInv(q, k)')
  <2>1. \A d \in Callers : (Flies(d, q, k)' <=> Flies(d, q, k)) /\ (Probes(d, q, k)' <=> Probes(d, q, k))
    BY <1>1, <1>4, CallFlight, Zenon
  <2>2. breaker'[<<q, k>>] = breaker[<<q, k>>] /\ (<<q, k>> \in lost' <=> <<q, k>> \in lost)
    BY <1>1, <1>4, CallFlight, Zenon
  <2>3. OutstandingInv(q, k)
    BY Zenon DEF ProbeInv
  <2>4. OutstandingInv(q, k)'
    BY <1>2, <2>1, <2>2, <2>3, Zenon DEF OutstandingInv
  <2>5. LoneInv(q, k) => LoneInv(q, k)'
    BY <2>1, <2>2, Zenon DEF LoneInv
  <2> QED BY <2>4, <2>5, Zenon
<1>5. PICK b, e : b \in Breaker /\ b = breaker[<<p, n>>] /\ e = breaker'[<<p, n>>]
  BY Paired, Zenon DEF ProbeInv, PInv, TypeOK
<1>6. /\ Probes(c, p, n)' <=> call'[c][p] \in Flying /\ <<c, p>> \in probes'
      /\ Probes(c, p, n) <=> call[c][p] \in Flying /\ <<c, p>> \in probes
  BY <1>3, Zenon DEF Probes
<1>7. OutstandingInv(p, n)
  BY Zenon DEF ProbeInv
<1>8. restart'[<<p, n>>] = "starting" => \A d \in Callers : snap'[d][p] # n + 1
  BY <1>2, <1>7, Zenon DEF OutstandingInv
<1>8a. breaker \in [Instances -> Breaker] /\ <<p, n>> \in Instances
  BY Paired, Zenon DEF ProbeInv, PInv, TypeOK
<1>9. OutstandingInv(p, n)' /\ (LoneInv(p, n) => LoneInv(p, n)')
  <2>1. CASE /\ call[c][p] = "ready" /\ call'[c][p] = "sentDeny"
             /\ UNCHANGED <<breaker, probes, lost>>
    <3>1. \A d \in Callers : (Flies(d, p, n)' <=> Flies(d, p, n)) /\ (Probes(d, p, n)' <=> Probes(d, p, n))
      BY <1>3, <1>6, <2>1, Zenon DEF Flying
    <3> QED BY <1>7, <1>8, <2>1, <3>1, Zenon DEF OutstandingInv, LoneInv
  <2>2. CASE /\ call[c][p] = "ready" /\ call'[c][p] = "calling"
             /\ Allows(b) /\ SetBreaker(<<p, n>>, AfterAllow(b))
             /\ probes' = IF b.state = "closed" THEN probes ELSE probes \cup {<<c, p>>}
             /\ UNCHANGED lost
    <3>1. e = AfterAllow(b)
      BY <1>5, <1>8a, <2>2, Zenon DEF SetBreaker
    <3>2. /\ b.state = "closed" => e = b
          /\ b.state # "closed" => e.state = "half-open" /\ e.allowed = 0
      BY <1>5, <2>2, <3>1, AllowFacts, Zenon
    <3>3. <<c, p>> \notin probes /\ Flies(c, p, n)' /\ (Probes(c, p, n)' <=> b.state # "closed")
      <4>1. <<c, p>> \notin probes
        BY <2>2, Zenon DEF ProbeInv, Flying
      <4> QED BY <1>3, <1>6, <2>2, <4>1, Zenon DEF Flying
    <3>4. OutstandingInv(p, n)'
      BY <1>5, <1>8, <3>2, <3>3, Zenon DEF OutstandingInv
    <3>5. ASSUME LoneInv(p, n) PROVE LoneInv(p, n)'
      <4>1. CASE b.state = "closed"
        BY <1>3, <1>5, <3>2, <3>3, <3>5, <4>1, Zenon DEF LoneInv
      <4>2. CASE b.state # "closed"
        <5>1. \A d \in Callers : ~Flies(d, p, n)
          BY <1>5, <2>2, <3>5, <4>2, Zenon DEF LoneInv, Allows
        <5> QED BY <1>3, <1>5, <3>2, <4>2, <5>1 DEF LoneInv
      <4> QED BY <4>1, <4>2, Zenon
    <3> QED BY <3>4, <3>5, Zenon
  <2>3. CASE /\ call[c][p] \in Flying /\ call'[c][p] \in Flying
             /\ UNCHANGED <<breaker, probes, lost>>
    <3>1. \A d \in Callers : (Flies(d, p, n)' <=> Flies(d, p, n)) /\ (Probes(d, p, n)' <=> Probes(d, p, n))
      BY <1>3, <1>6, <2>3, ZenonT(30)
    <3> QED BY <1>7, <1>8, <2>3, <3>1, Zenon DEF OutstandingInv, LoneInv
  <2>4. CASE /\ call[c][p] \in Flying /\ call'[c][p] \in Sent
             /\ SetBreaker(<<p, n>>, RecordSuccess(b)) \/ SetBreaker(<<p, n>>, RecordFailure(b))
    <3>1. e = RecordSuccess(b) \/ e = RecordFailure(b)
      BY <1>5, <1>8a, <2>4, Zenon DEF SetBreaker
    <3>2. \/ b.state = "half-open" /\ (e.state = "closed" \/ (e.state = "half-open" /\ e.allowed = 1))
          \/ b.state # "half-open" /\ e.state = b.state /\ e.cooled = b.cooled
          \/ e.state # "half-open" /\ e.cooled = 0
      BY <1>5, <3>1, SuccessFacts, FailureFacts, Zenon
    <3>3. Flies(c, p, n) /\ ~Flies(c, p, n)' /\ ~Probes(c, p, n)'
      BY <1>3, <1>6, <2>4, Zenon DEF Flying, Sent
    <3>4. ~(e.state = "half-open" /\ e.allowed = 0)
      BY <3>2
    <3>5. OutstandingInv(p, n)'
      BY <1>5, <1>8, <3>4, Zenon DEF OutstandingInv
    <3>6. ASSUME LoneInv(p, n) PROVE LoneInv(p, n)'
      <4>1. CASE b.state = "half-open"
        <5>1. \A d \in Callers : ~Flies(d, p, n)'
          BY <1>3, <1>5, <3>3, <3>6, <4>1, Zenon DEF LoneInv
        <5> QED BY <5>1, Zenon DEF LoneInv, Probes
      <4>2. CASE b.state # "half-open"
        <5>1. \A d \in Callers : ~Probes(d, p, n)'
          BY <1>3, <1>5, <3>3, <3>6, <4>2, ZenonT(30) DEF LoneInv
        <5>2. ~(b.state = "open" /\ b.cooled = 1)
          BY <1>5, <3>3, <3>6, Zenon DEF LoneInv
        <5>3. e.state # "half-open" /\ ~(e.state = "open" /\ e.cooled = 1)
          BY <3>2, <4>2, <5>2
        <5> QED BY <1>5, <5>1, <5>3, Zenon DEF LoneInv
      <4> QED BY <4>1, <4>2, Zenon
    <3> QED BY <3>5, <3>6, Zenon
  <2>5. CASE /\ call[c][p] \in Flying /\ call'[c][p] \in Sent
             /\ lost' = IF <<c, p>> \in probes THEN lost \cup {<<p, n>>} ELSE lost
             /\ UNCHANGED breaker
    <3>1. ~Flies(c, p, n)' /\ ~Probes(c, p, n)'
      BY <1>3, <1>6, <2>5, Zenon DEF Flying, Sent
    <3>2. <<p, n>> \in lost \/ Probes(c, p, n) => <<p, n>> \in lost'
      BY <1>6, <2>5, Zenon
    <3>3. OutstandingInv(p, n)'
      BY <1>3, <1>7, <1>8, <2>5, <3>2, ZenonT(30) DEF OutstandingInv
    <3>4. LoneInv(p, n) => LoneInv(p, n)'
      BY <1>3, <2>5, <3>1, Zenon DEF LoneInv
    <3> QED BY <3>3, <3>4, Zenon
  <2> QED BY <1>2, <1>5, <2>1, <2>2, <2>3, <2>4, <2>5, Zenon DEF CallKind
<1>10. ASSUME NEW q \in Plugins, NEW k \in 1..MaxInst
       PROVE  OutstandingInv(q, k)' /\ (LoneInv(q, k) => LoneInv(q, k)')
  BY <1>4, <1>9, Zenon
<1>11. PInv'
  BY CallStepInv, Zenon DEF ProbeInv
<1>12. \A d \in Callers, q \in Plugins : <<d, q>> \in probes' => call'[d][q] \in Flying
  BY <1>1, CallFlight, Zenon
<1> QED BY <1>10, <1>11, <1>12, Zenon DEF ProbeInv, AllLone

\* A step that concerns neither calls nor breakers, and starts no instance,
\* keeps both invariants.
LEMMA ProbeFrame ==
  ASSUME ProbeInv, PInv', UNCHANGED <<breaker, snap, call, probes, lost>>,
         \A p \in Plugins, n \in 1..MaxInst : restart'[<<p, n>>] = "starting" => restart[<<p, n>>] = "starting"
  PROVE  ProbeInv' /\ (AllLone => AllLone')
<1>1. ASSUME NEW p \in Plugins, NEW n \in 1..MaxInst
      PROVE  OutstandingInv(p, n)' /\ (LoneInv(p, n) => LoneInv(p, n)')
  <2>1. OutstandingInv(p, n)
    BY Zenon DEF ProbeInv
  <2>2. \A c \in Callers : (Flies(c, p, n)' <=> Flies(c, p, n)) /\ (Probes(c, p, n)' <=> Probes(c, p, n))
    BY Zenon DEF Flies, Probes
  <2> QED BY <2>1, <2>2 DEF OutstandingInv, LoneInv
<1>2. \A c \in Callers, p \in Plugins : <<c, p>> \in probes' => call'[c][p] \in Flying
  BY ZenonT(30) DEF ProbeInv
<1> QED BY <1>1, <1>2, Zenon DEF ProbeInv, AllLone

\* Authorize and its client leave the calls in flight alone, and a request
\* loads no instance that is being started.
LEMMA RequestProbes ==
  ASSUME ProbeInv, NEW c \in Callers, (\E R \in SUBSET Plugins : Authorize(c, R)) \/ NextRequest(c)
  PROVE  ProbeInv' /\ (AllLone => AllLone')
<1>1. PInv'
  BY RequestInv, Zenon DEF ProbeInv
<1>2. UNCHANGED <<breaker, restart, probes, lost>>
  BY ZenonT(30) DEF Authorize, NextRequest, restartVars
<1>3. /\ \A d \in Callers : d # c => call'[d] = call[d] /\ snap'[d] = snap[d]
      /\ snap'[c] = plugins \/ snap'[c] = NoPlugin
      /\ \A p \in Plugins : call'[c][p] \notin Flying
  <2>1. call \in [Callers -> [Plugins -> CallStates]] /\ snap \in [Callers -> [Plugins -> 0..MaxInst]]
    BY Zenon DEF ProbeInv, PInv, TypeOK
  <2>2. ASSUME NEW f, NEW g, call' = [call EXCEPT ![c] = f], snap' = [snap EXCEPT ![c] = g]
        PROVE  /\ \A d \in Callers : d # c => call'[d] = call[d] /\ snap'[d] = snap[d]
               /\ call'[c] = f /\ snap'[c] = g
    BY <2>1, <2>2, Zenon
  <2>3. CASE NextRequest(c)
    <3>1. call' = [call EXCEPT ![c] = NoCall] /\ snap' = [snap EXCEPT ![c] = NoPlugin]
      BY <2>3 DEF NextRequest
    <3>2. \A p \in Plugins : NoCall[p] \notin Flying
      BY Zenon DEF NoCall, Flying
    <3> QED BY <2>2, <3>1, <3>2, Zenon
  <2>4. ASSUME NEW R, Authorize(c, R)
        PROVE  /\ \A d \in Callers : d # c => call'[d] = call[d] /\ snap'[d] = snap[d]
               /\ snap'[c] = plugins
               /\ \A p \in Plugins : call'[c][p] \notin Flying
    <3>1. PICK f : f = [p \in Plugins |-> IF p \notin R THEN "off"
                                          ELSE IF plugins[p] = 0 THEN "sentDeny" ELSE "ready"]
      BY Zenon
    <3>2. call' = [call EXCEPT ![c] = f] /\ snap' = [snap EXCEPT ![c] = plugins]
      BY <2>4, <3>1, Zenon DEF Authorize
    <3>3. \A p \in Plugins : f[p] \notin Flying
      BY <3>1, Zenon DEF Flying
    <3> QED BY <2>2, <3>2, <3>3, Zenon
  <2> QED BY <2>3, <2>4, Zenon
<1>4. \A p \in Plugins : call[c][p] \notin Flying
  <2>1. CallInv(c)
    BY ZenonT(30) DEF ProbeInv, PInv
  <2> QED BY <2>1, Zenon DEF Authorize, NextRequest, CallInv, Sent, Flying
<1>5. ASSUME NEW p \in Plugins, NEW n \in 1..MaxInst
      PROVE  OutstandingInv(p, n)' /\ (LoneInv(p, n) => LoneInv(p, n)')
  <2>1. OutstandingInv(p, n)
    BY ZenonT(30) DEF ProbeInv
  <2>2. \A d \in Callers : (Flies(d, p, n)' <=> Flies(d, p, n)) /\ (Probes(d, p, n)' <=> Probes(d, p, n))
    BY <1>2, <1>3, <1>4, Zenon DEF Flies, Probes
  <2>3. ASSUME restart[<<p, n>>] = "starting", NEW d \in Callers PROVE snap'[d][p] # n + 1
    <3>1. CASE d # c
      BY <1>3, <2>1, <2>3, <3>1, Zenon DEF OutstandingInv
    <3>2. plugins[p] \in {0, n}
      <4>1. mgr # "closed" => plugins[p] = n
        BY <2>3, ActiveIsCurrent, Zenon DEF ProbeInv, Active
      <4>2. MapInv(p)
        BY Zenon DEF ProbeInv, PInv
      <4> QED BY <4>1, <4>2, Zenon DEF MapInv, Up
    <3>3. CASE d = c
      BY <1>3, <3>2, <3>3 DEF NoPlugin
    <3> QED BY <3>1, <3>3, Zenon
  <2> QED BY <1>2, <2>1, <2>2, <2>3, Zenon DEF OutstandingInv, LoneInv
<1>6. \A d \in Callers, p \in Plugins : <<d, p>> \in probes' => call'[d][p] \in Flying
  BY <1>2, <1>3, <1>4, Zenon DEF ProbeInv
<1> QED BY <1>1, <1>5, <1>6, Zenon DEF ProbeInv, AllLone

\* restartPlugin starts an instance that nobody has loaded and gives it a
\* new breaker.
LEMMA RestartProbes ==
  ASSUME ProbeInv, NEW p \in Plugins, NEW n \in 1..MaxInst, RestartStep(<<p, n>>), PInv'
  PROVE  ProbeInv' /\ (AllLone => AllLone')
<1> DEFINE i == <<p, n>>
<1>1. UNCHANGED <<snap, call, probes, lost>>
  BY Zenon DEF RestartStep, RestartCanceled, RestartBegins, AttemptFails, AttemptSucceeds, swapPlugin, GiveUp, reqVars
<1>2. ASSUME NEW v \in RestartStates, RestartTo(i, v)
      PROVE  /\ restart'[i] = v
             /\ \A q \in Plugins, k \in Int : q # p \/ k # n => restart'[<<q, k>>] = restart[<<q, k>>]
  <2>1. restart' = [restart EXCEPT ![<<p, n>>] = v] /\ TypeOK
    BY <1>2, Zenon DEF RestartTo, ProbeInv, PInv
  <2>2. restart'[<<p, n>>] = v
    BY <2>1, Paired, Zenon DEF TypeOK
  <2>3. ASSUME NEW q \in Plugins, NEW k \in Int, q # p \/ k # n PROVE restart'[<<q, k>>] = restart[<<q, k>>]
    BY <2>1, <2>3, SetRestart
  <2> QED BY <2>2, <2>3, Zenon
<1>3. CASE RestartCanceled(i) \/ AttemptFails(i) \/ swapPlugin(i) \/ GiveUp(i)
  <2>1. PICK v \in RestartStates \ {"starting"} : RestartTo(i, v)
    BY <1>3, Zenon DEF RestartCanceled, AttemptFails, swapPlugin, GiveUp, RestartStates
  <2>2. UNCHANGED breaker
    BY <1>3, Zenon DEF RestartCanceled, AttemptFails, swapPlugin, GiveUp
  <2>3. \A q \in Plugins, k \in 1..MaxInst : restart'[<<q, k>>] = "starting" => restart[<<q, k>>] = "starting"
    BY <1>2, <2>1
  <2> QED BY <1>1, <2>2, <2>3, ProbeFrame, Zenon
<1>4. \A c \in Callers, q \in Plugins : <<c, q>> \in probes' => call'[c][q] \in Flying
  BY <1>1, Zenon DEF ProbeInv
<1>5. \A c \in Callers, q \in Plugins, k \in 1..MaxInst :
        (Flies(c, q, k)' <=> Flies(c, q, k)) /\ (Probes(c, q, k)' <=> Probes(c, q, k))
  BY <1>1, Zenon DEF Flies, Probes
<1>6. CASE RestartBegins(i)
  <2>1. UNCHANGED breaker /\ RestartTo(i, "starting")
    BY <1>6, Zenon DEF RestartBegins
  <2>2. \A c \in Callers : snap[c][p] # n + 1
    <3>1. plugins[p] = n /\ mgr # "closed"
      BY <1>6, ActiveIsCurrent, Zenon DEF RestartBegins, ProbeInv, Active
    <3>2. \A c \in Callers : snap[c][p] <= n /\ snap[c][p] \in Int
      BY <3>1 DEF ProbeInv, PInv, MapInv, TypeOK
    <3> QED BY <3>2
  <2>3. ASSUME NEW q \in Plugins, NEW k \in 1..MaxInst
        PROVE  OutstandingInv(q, k)' /\ (LoneInv(q, k) => LoneInv(q, k)')
    <3>1. OutstandingInv(q, k)
      BY Zenon DEF ProbeInv
    <3>2. restart'[<<q, k>>] = "starting" => \A c \in Callers : snap'[c][q] # k + 1
      <4>1. CASE q = p /\ k = n
        BY <1>1, <2>2, <4>1, Zenon
      <4>2. CASE q # p \/ k # n
        <5>1. "starting" \in RestartStates /\ k \in Int
          BY DEF RestartStates
        <5>2. restart'[<<q, k>>] = restart[<<q, k>>]
          BY <1>2, <2>1, <4>2, <5>1, Zenon
        <5> QED BY <1>1, <3>1, <5>2, Zenon DEF OutstandingInv
      <4> QED BY <4>1, <4>2, Zenon
    <3> QED BY <1>1, <1>5, <2>1, <3>1, <3>2, Zenon DEF OutstandingInv, LoneInv
  <2> QED BY <1>4, <2>3, Zenon DEF ProbeInv, AllLone
<1>7. CASE AttemptSucceeds(i)
  <2>1. PICK m : m = n + 1
    BY Zenon
  <2>2. /\ restart[i] = "starting" /\ RestartTo(i, "started")
        /\ SetBreaker(<<p, m>>, NewCircuitBreaker)
    BY <1>7, <2>1, Paired, Zenon DEF AttemptSucceeds, Successor
  <2>3. m \in 1..MaxInst
    <3>1. InstInv(p, n)
      BY Zenon DEF ProbeInv, PInv
    <3>2. n < MaxInst
      BY <2>2, <3>1, ZenonT(30) DEF InstInv, Active
    <3> QED BY <2>1, <3>2, PluginAssumption DEF PluginAssumption
  <2>4. /\ breaker'[<<p, m>>].state = "closed"
        /\ \A q \in Plugins, k \in 1..MaxInst : q # p \/ k # m => breaker'[<<q, k>>] = breaker[<<q, k>>]
    <3>1. breaker \in [Instances -> Breaker] /\ <<p, m>> \in Instances
      BY <2>3, Paired, Zenon DEF ProbeInv, PInv, TypeOK
    <3>2. breaker'[<<p, m>>] = NewCircuitBreaker
      BY <2>2, <3>1, Zenon DEF SetBreaker
    <3>3. NewCircuitBreaker.state = "closed"
      BY DEF NewCircuitBreaker
    <3>4. ASSUME NEW q \in Plugins, NEW k \in 1..MaxInst, q # p \/ k # m
          PROVE  breaker'[<<q, k>>] = breaker[<<q, k>>]
      <4>1. <<q, k>> # <<p, m>> /\ <<q, k>> \in Instances
        BY <3>4, Paired, Zenon
      <4> QED BY <2>2, <3>1, <4>1, Zenon DEF SetBreaker
    <3> QED BY <3>2, <3>3, <3>4, Zenon
  <2>5. \A c \in Callers : ~Flies(c, p, m)
    <3>1. OutstandingInv(p, n)
      BY Zenon DEF ProbeInv
    <3> QED BY <2>1, <2>2, <3>1, Zenon DEF OutstandingInv, Flies
  <2>6. \A q \in Plugins, k \in 1..MaxInst : restart'[<<q, k>>] = "starting" => restart[<<q, k>>] = "starting"
    BY <1>2, <2>2 DEF RestartStates
  <2>7. ASSUME NEW q \in Plugins, NEW k \in 1..MaxInst
        PROVE  OutstandingInv(q, k)' /\ (LoneInv(q, k) => LoneInv(q, k)')
    <3>1. OutstandingInv(q, k)
      BY Zenon DEF ProbeInv
    <3>2. restart'[<<q, k>>] = "starting" => \A c \in Callers : snap'[c][q] # k + 1
      BY <1>1, <2>6, <3>1, Zenon DEF OutstandingInv
    <3>3. CASE q # p \/ k # m
      <4>1. breaker'[<<q, k>>] = breaker[<<q, k>>]
        BY <2>4, <3>3, Zenon
      <4> QED BY <1>1, <1>5, <3>1, <3>2, <4>1, Zenon DEF OutstandingInv, LoneInv
    <3>4. CASE q = p /\ k = m
      <4>1. breaker'[<<q, k>>].state = "closed" /\ \A c \in Callers : ~Flies(c, q, k)'
        BY <1>5, <2>3, <2>4, <2>5, <3>4, Zenon
      <4> QED BY <3>2, <4>1, Zenon DEF OutstandingInv, LoneInv, Probes
    <3> QED BY <3>3, <3>4, Zenon
  <2> QED BY <1>4, <2>7, Zenon DEF ProbeInv, AllLone
<1> QED BY <1>3, <1>6, <1>7, ZenonT(30) DEF RestartStep

\* The end of a cooldown: unless calls may outlast it, none is in flight.
LEMMA CoolDownProbes ==
  ASSUME ProbeInv, NEW p \in Plugins, NEW n \in 1..MaxInst, CoolDown(<<p, n>>), PInv'
  PROVE  ProbeInv' /\ (AllLone /\ ~SlowCalls => AllLone')
<1> DEFINE i == <<p, n>>
<1>1. UNCHANGED <<restart, snap, call, probes, lost>>
  BY Zenon DEF CoolDown, restartVars, reqVars
<1>2. breaker \in [Instances -> Breaker] /\ i \in Instances
  BY Paired, Zenon DEF ProbeInv, PInv, TypeOK
<1>3. breaker' = [breaker EXCEPT ![i] = [breaker[i] EXCEPT !.cooled = 1]]
  BY <1>2, Zenon DEF CoolDown
<1>4. SetBreaker(i, [breaker[i] EXCEPT !.cooled = 1])
  BY <1>3, Zenon DEF SetBreaker
<1>5. breaker'[i] = [breaker[i] EXCEPT !.cooled = 1]
  BY <1>2, <1>4, Zenon DEF SetBreaker
<1>6. breaker'[i].state = "open"
  BY <1>2, <1>5, ZenonT(30) DEF CoolDown, Breaker
<1>7. \A q \in Plugins, k \in 1..MaxInst : q # p \/ k # n => breaker'[<<q, k>>] = breaker[<<q, k>>]
  BY <1>4, SetOne, Zenon DEF ProbeInv
<1>8. \A c \in Callers, q \in Plugins, k \in 1..MaxInst :
        (Flies(c, q, k)' <=> Flies(c, q, k)) /\ (Probes(c, q, k)' <=> Probes(c, q, k))
  BY <1>1, Zenon DEF Flies, Probes
<1>9. ASSUME NEW q \in Plugins, NEW k \in 1..MaxInst
      PROVE  OutstandingInv(q, k)' /\ (LoneInv(q, k) /\ ~SlowCalls => LoneInv(q, k)')
  <2>1. OutstandingInv(q, k)
    BY Zenon DEF ProbeInv
  <2>2. CASE q # p \/ k # n
    <3>1. breaker'[<<q, k>>] = breaker[<<q, k>>]
      BY <1>7, <2>2, Zenon
    <3> QED BY <1>1, <1>8, <2>1, <3>1, Zenon DEF OutstandingInv, LoneInv
  <2>3. CASE q = p /\ k = n
    <3>1. OutstandingInv(p, n)'
      BY <1>1, <1>6, <2>1, <2>3, Zenon DEF OutstandingInv
    <3>2. ~SlowCalls => \A c \in Callers : ~Flies(c, p, n)
      <4>1. i[1] = p /\ i[2] = n
        BY Paired, Zenon
      <4>2. ~SlowCalls => InFlight(i) = {}
        BY Zenon DEF CoolDown
      <4> QED BY <4>1, <4>2, Zenon DEF InFlight, Flies, Flying
    <3>3. ~SlowCalls => LoneInv(p, n)'
      BY <1>6, <1>8, <3>2, Zenon DEF LoneInv, Probes
    <3> QED BY <2>3, <3>1, <3>3, Zenon
  <2> QED BY <2>2, <2>3, Zenon
<1>10. \A c \in Callers, q \in Plugins : <<c, q>> \in probes' => call'[c][q] \in Flying
  BY <1>1, Zenon DEF ProbeInv
<1> QED BY <1>9, <1>10, Zenon DEF ProbeInv, AllLone

\* The invariant of the probes holds initially and is kept by every step;
\* so is the one about slow calls, when there are none.
LEMMA ProbeInit == Init => ProbeInv /\ AllLone
<1> SUFFICES ASSUME Init PROVE ProbeInv /\ AllLone
  BY Zenon
<1>1. \A p \in Plugins, n \in 1..MaxInst : breaker[<<p, n>>].state = "closed" /\ restart[<<p, n>>] = "none"
  BY Paired, Zenon DEF Init, NewCircuitBreaker
<1>2. probes = {}
  BY Zenon DEF Init
<1>3. PInv
  BY InitInv, Zenon
<1> QED BY <1>1, <1>2, <1>3, Zenon DEF ProbeInv, AllLone, OutstandingInv, LoneInv, Probes

\* See above.
LEMMA ProbeStep ==
  ASSUME ProbeInv, [Next]_vars
  PROVE  ProbeInv' /\ (AllLone /\ ~SlowCalls => AllLone')
<1>1. PInv'
  BY NextInv, Zenon DEF ProbeInv
<1>2. ASSUME NEW i \in Instances, RestartStep(i) \/ CoolDown(i)
      PROVE  ProbeInv' /\ (AllLone /\ ~SlowCalls => AllLone')
  <2>1. PICK p \in Plugins, n \in 1..MaxInst : i = <<p, n>>
    BY Pair, Zenon
  <2> QED BY <1>1, <1>2, <2>1, RestartProbes, CoolDownProbes, Zenon
<1>3. ASSUME NEW c \in Callers, \/ \E p \in Plugins : CallStep(c, p)
                                \/ \E R \in SUBSET Plugins : Authorize(c, R)
                                \/ NextRequest(c)
      PROVE  ProbeInv' /\ (AllLone => AllLone')
  BY <1>3, CallProbes, RequestProbes, Zenon
<1>4. CASE \/ NewManager \/ \E p \in Plugins : StartPlugin(p) \/ StartFails(p)
           \/ \E c \in Callers : Collect(c) \/ Disconnect(c)
           \/ \E i \in Instances : Exit(i)
           \/ CloseSignal \/ CloseMark \/ CloseKill \/ UNCHANGED vars
  <2>1. UNCHANGED <<breaker, snap, call, probes, lost, restart>>
    BY <1>4, Zenon DEF NewManager, StartPlugin, StartFails, Collect, Disconnect, Exit, CloseSignal, CloseMark,
                CloseKill, vars, restartVars, reqVars
  <2> QED BY <1>1, <2>1, ProbeFrame, Zenon
<1> QED BY <1>2, <1>3, <1>4, Zenon DEF Next, Terminated

\* A half-open breaker whose probe has been taken has a call in flight that
\* will tell it what is next, unless callPlugin lost the probe:
\* ProbeOutstanding always holds.
THEOREM NotDeniedForGood == Spec => []ProbeOutstanding
<1>1. ProbeInv => ProbeOutstanding
  <2> SUFFICES ASSUME ProbeInv, NEW i \in Instances, breaker[i].state = "half-open", breaker[i].allowed = 0
               PROVE  InFlight(i) # {} \/ i \in lost
    BY Zenon DEF ProbeOutstanding
  <2>1. PICK p \in Plugins, n \in 1..MaxInst : i = <<p, n>> /\ i[1] = p /\ i[2] = n
    BY Pair, Zenon
  <2>2. i \in lost \/ \E c \in Callers : Flies(c, p, n)
    BY <2>1, Zenon DEF ProbeInv, OutstandingInv, Probes
  <2> QED BY <2>1, <2>2, Zenon DEF InFlight, Flies, Flying
<1>2. ProbeInv /\ [Next]_vars => ProbeInv'
  BY ProbeStep, Zenon
<1> QED BY <1>1, <1>2, ProbeInit, PTL DEF Spec

\* When no call outlasts the cooldown, a breaker's half-open state admits one
\* probe at a time, whatever was in flight when it opened: OneProbe always
\* holds.
THEOREM OneProbeAtATime ==
  ASSUME ~SlowCalls
  PROVE  Spec => []OneProbe
<1>1. ProbeInv /\ AllLone => OneProbe
  <2> SUFFICES ASSUME ProbeInv, AllLone, NEW i \in Instances, NEW c \in InFlight(i), NEW d \in InFlight(i),
                      <<c, i[1]>> \in probes, <<d, i[1]>> \in probes
               PROVE  c = d
    BY Zenon DEF OneProbe
  <2>1. PICK p \in Plugins, n \in 1..MaxInst : i = <<p, n>> /\ i[1] = p /\ i[2] = n
    BY Pair, Zenon
  <2>2. c \in Callers /\ d \in Callers /\ Flies(c, p, n) /\ Flies(d, p, n) /\ Probes(c, p, n)
    BY <2>1, Zenon DEF InFlight, Probes, Flies, Flying
  <2>3. LoneInv(p, n)
    BY Zenon DEF AllLone
  <2> QED BY <2>2, <2>3, Zenon DEF LoneInv
<1>2. ProbeInv /\ AllLone /\ [Next]_vars => ProbeInv' /\ AllLone'
  BY ProbeStep, Zenon
<1> QED BY <1>1, <1>2, ProbeInit, PTL DEF Spec

=============================================================================

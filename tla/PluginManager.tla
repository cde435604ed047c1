--------------------------- MODULE PluginManager ----------------------------
(***************************************************************************)
(* The authorization plugins (internal/authz/plugin/manager.go) behind the *)
(* authorization middleware: the fan-out of one request to the plugins of  *)
(* its roles, the plugins' circuit breakers, the restart of crashed plugin *)
(* processes and the shutdown of the manager.                              *)
(*                                                                         *)
(* Processes: one goroutine per request and one per plugin call, at most   *)
(* one restart goroutine per plugin instance, the plugin processes and the *)
(* goroutine that calls NewManager and Close.  A slot in Callers stands    *)
(* for one request after another.                                          *)
(***************************************************************************)
EXTENDS CircuitBreaker, FiniteSets

CONSTANTS
  Plugins,        \* configured plugins, which are also the roles
  Callers,        \* request slots
  MaxInst,        \* bound on the instances of a plugin, the first included
  MaxAttempts,    \* len(backoff): restart attempts before giving up
  MayDisconnect,  \* a client may go away while its request is authorized
  MayPanic,       \* a plugin call may panic
  SlowCalls       \* a call may outlast the cooldown (timeout > cooldown)

ASSUME PluginAssumption ==
  /\ IsFiniteSet(Plugins) /\ IsFiniteSet(Callers)
  /\ MaxInst \in Nat \ {0} /\ MaxAttempts \in Nat \ {0}
  /\ MayDisconnect \in BOOLEAN /\ MayPanic \in BOOLEAN /\ SlowCalls \in BOOLEAN

\* Instance <<p, n>> is the n-th pluginInstance started for p; its restart
\* goroutine starts <<p, n + 1>>.
Instances == Plugins \X (1..MaxInst)

VARIABLES
  mgr,        \* where NewManager and Close are
  plugins,    \* m.plugins: the number of the instance in the map, 0 if none
  proc,       \* the process of each instance
  failed,     \* instances whose failed flag is set
  breaker,    \* circuit breaker of each instance
  restart,    \* restart goroutine of each instance
  attempts,   \* failed attempts of each restart goroutine
  decision,   \* what Authorize has returned for each request
  snap,       \* the map each request loaded
  call,       \* where each plugin call of each request is
  canceled,   \* requests whose context is canceled
  vouched,    \* <<c, p>>: plugin p answered ALLOW to request c
  probes,     \* <<c, p>>: the call in flight was admitted by a half-open breaker
  lost        \* instances one of whose probes ended without telling the breaker

reqVars == <<decision, snap, call, canceled, vouched, probes, lost>>
instVars == <<plugins, proc, failed>>
restartVars == <<restart, attempts>>
vars == <<mgr, instVars, breaker, restartVars, reqVars>>

MgrStates == {"starting", "aborted", "serving", "signalled", "marked", "closed"}

\* Killed: the manager has called client.Kill.
ProcStates == {"none", "alive", "exited", "killed"}

\* Not running; in the backoff wait; in startPlugin; with a new instance to
\* swap in; out of attempts; returned.  The instance's restarting flag is
\* set in all but the first.
RestartStates == {"none", "waiting", "starting", "started", "exhausted", "done"}

\* The request lacks the role; the goroutine has not called Allow; it is in
\* the plugin's Authorize; it has an answer to record; its result is sent.
CallStates == {"off", "ready", "calling", "gotAllow", "gotDeny", "sentAllow", "sentDeny"}

Sent == {"sentAllow", "sentDeny"}
InFlight(i) == {c \in Callers : snap[c][i[1]] = i[2] /\ call[c][i[1]] \in {"calling", "gotAllow", "gotDeny"}}
InstOf(c, p) == <<p, snap[c][p]>>
Exited(i) == proc[i] \in {"exited", "killed"}
Current(p) == <<p, plugins[p]>>
NoPlugin == [p \in Plugins |-> 0]
NoCall == [p \in Plugins |-> "off"]

Init ==
  /\ mgr = "starting"
  /\ plugins = NoPlugin
  /\ proc = [i \in Instances |-> "none"]
  /\ failed = {}
  /\ breaker = [i \in Instances |-> NewCircuitBreaker]
  /\ restart = [i \in Instances |-> "none"]
  /\ attempts = [i \in Instances |-> 0]
  /\ decision = [c \in Callers |-> "none"]
  /\ snap = [c \in Callers |-> NoPlugin]
  /\ call = [c \in Callers |-> NoCall]
  /\ canceled = {} /\ vouched = {} /\ probes = {} /\ lost = {}

-----------------------------------------------------------------------------
(* NewManager: all plugins start, or none is left running.                 *)

Kill(I) == proc' = [i \in Instances |-> IF i \in I /\ proc[i] # "none" THEN "killed" ELSE proc[i]]

StartPlugin(p) ==
  /\ mgr = "starting" /\ proc[<<p, 1>>] = "none"
  /\ proc' = [proc EXCEPT ![<<p, 1>>] = "alive"]
  /\ UNCHANGED <<mgr, plugins, failed, breaker, restartVars, reqVars>>

StartFails(p) ==
  /\ mgr = "starting" /\ proc[<<p, 1>>] = "none"
  /\ Kill(Instances)
  /\ mgr' = "aborted"
  /\ UNCHANGED <<plugins, failed, breaker, restartVars, reqVars>>

NewManager ==
  /\ mgr = "starting" /\ \A p \in Plugins : proc[<<p, 1>>] # "none"
  /\ plugins' = [p \in Plugins |-> 1]
  /\ mgr' = "serving"
  /\ UNCHANGED <<proc, failed, breaker, restartVars, reqVars>>

-----------------------------------------------------------------------------
(* Authorize.                                                              *)

Step(c, p, loc) == call' = [call EXCEPT ![c][p] = loc]

\* A request with roles R loads the map and fans out; a role that is not in
\* the map is a deny at once.
Authorize(c, R) ==
  /\ mgr \notin {"starting", "aborted"} /\ decision[c] = "none"
  /\ snap' = [snap EXCEPT ![c] = plugins]
  /\ call' = [call EXCEPT ![c] =
       [p \in Plugins |-> IF p \notin R THEN "off"
                          ELSE IF plugins[p] = 0 THEN "sentDeny" ELSE "ready"]]
  /\ decision' = [decision EXCEPT ![c] = IF R = {} THEN "deny" ELSE "running"]
  /\ UNCHANGED <<mgr, instVars, breaker, restartVars, canceled, vouched, probes, lost>>

SetBreaker(i, cb) == breaker' = [breaker EXCEPT ![i] = cb]

\* callPlugin up to the gRPC call.
CallPlugin(c, p) ==
  LET i == InstOf(c, p) IN
  /\ call[c][p] = "ready"
  /\ IF i \notin failed /\ Allows(breaker[i])
     THEN /\ SetBreaker(i, AfterAllow(breaker[i]))
          /\ probes' = IF breaker[i].state = "closed" THEN probes ELSE probes \cup {<<c, p>>}
          /\ Step(c, p, "calling")
     ELSE /\ Step(c, p, "sentDeny")
          /\ UNCHANGED <<breaker, probes>>
  /\ UNCHANGED <<mgr, instVars, restartVars, decision, snap, canceled, vouched, lost>>

\* The plugin answers; the answer is not recorded yet.
Answer(c, p) ==
  /\ call[c][p] = "calling" /\ ~Exited(InstOf(c, p))
  /\ \/ Step(c, p, "gotAllow") /\ vouched' = vouched \cup {<<c, p>>}
     \/ Step(c, p, "gotDeny") /\ UNCHANGED vouched
  /\ UNCHANGED <<mgr, instVars, breaker, restartVars, decision, snap, canceled, probes, lost>>

CallSucceeds(c, p) ==
  LET i == InstOf(c, p) IN
  /\ call[c][p] \in {"gotAllow", "gotDeny"}
  /\ SetBreaker(i, RecordSuccess(breaker[i]))
  /\ Step(c, p, IF call[c][p] = "gotAllow" THEN "sentAllow" ELSE "sentDeny")
  /\ probes' = probes \ {<<c, p>>}
  /\ UNCHANGED <<mgr, instVars, restartVars, decision, snap, canceled, vouched, lost>>

\* The per-plugin timeout fires.
CallTimesOut(c, p) ==
  LET i == InstOf(c, p) IN
  /\ call[c][p] = "calling" /\ c \notin canceled
  /\ SetBreaker(i, RecordFailure(breaker[i]))
  /\ Step(c, p, "sentDeny")
  /\ probes' = probes \ {<<c, p>>}
  /\ UNCHANGED <<mgr, instVars, restartVars, decision, snap, canceled, vouched, lost>>

\* A nil response without an error is a failure, of a canceled call too.
NilResponse(c, p) ==
  LET i == InstOf(c, p) IN
  /\ call[c][p] = "calling" /\ ~Exited(i)
  /\ SetBreaker(i, RecordFailure(breaker[i]))
  /\ Step(c, p, "sentDeny")
  /\ probes' = probes \ {<<c, p>>}
  /\ UNCHANGED <<mgr, instVars, restartVars, decision, snap, canceled, vouched, lost>>

\* Mutant: restarting is cleared when the restart goroutine returns.
CallFails_again(c, p) ==
  LET i == InstOf(c, p) IN
  /\ call[c][p] = "calling" /\ c \notin canceled
  /\ SetBreaker(i, RecordFailure(breaker[i]))
  /\ IF Exited(i) /\ i \notin failed /\ restart[i] \in {"none", "done"} /\ i[2] < MaxInst
     THEN restart' = [restart EXCEPT ![i] = "waiting"]
     ELSE UNCHANGED restart
  /\ Step(c, p, "sentDeny")
  /\ probes' = probes \ {<<c, p>>}
  /\ UNCHANGED <<mgr, instVars, attempts, decision, snap, canceled, vouched, lost>>

\* The call returns an error; if the process is gone, a restart goroutine is
\* started, at most one per instance.
CallFails(c, p) ==
  LET i == InstOf(c, p) IN
  /\ call[c][p] = "calling" /\ c \notin canceled
  /\ SetBreaker(i, RecordFailure(breaker[i]))
  /\ IF Exited(i) /\ i \notin failed /\ restart[i] = "none" /\ i[2] < MaxInst
     THEN restart' = [restart EXCEPT ![i] = "waiting"]
     ELSE UNCHANGED restart
  /\ Step(c, p, "sentDeny")
  /\ probes' = probes \ {<<c, p>>}
  /\ UNCHANGED <<mgr, instVars, attempts, decision, snap, canceled, vouched, lost>>

\* The call is over and the breaker is not told.
EndUnrecorded(c, p) ==
  /\ probes' = probes \ {<<c, p>>}
  /\ lost' = IF <<c, p>> \in probes THEN lost \cup {InstOf(c, p)} ELSE lost

\* The call returns an error and the request's context is done: nothing is
\* recorded.
CallCanceled(c, p) ==
  /\ call[c][p] = "calling" /\ c \in canceled
  /\ Step(c, p, "sentDeny")
  /\ EndUnrecorded(c, p)
  /\ UNCHANGED <<mgr, instVars, breaker, restartVars, decision, snap, canceled, vouched>>

\* Mutant: the deferred function recovers and calls again.
CallPanics_again(c, p) ==
  /\ MayPanic /\ call[c][p] = "calling"
  /\ Step(c, p, "ready")
  /\ EndUnrecorded(c, p)
  /\ UNCHANGED <<mgr, instVars, breaker, restartVars, decision, snap, canceled, vouched>>

\* The call panics: recovered, a deny, nothing recorded.
CallPanics(c, p) ==
  /\ MayPanic /\ call[c][p] = "calling"
  /\ Step(c, p, "sentDeny")
  /\ EndUnrecorded(c, p)
  /\ UNCHANGED <<mgr, instVars, breaker, restartVars, decision, snap, canceled, vouched>>

\* Mutant: the first result decides, whatever it says.
Collect_first(c) ==
  /\ decision[c] = "running"
  /\ \/ /\ \E p \in Plugins : call[c][p] = "sentAllow"
        /\ decision' = [decision EXCEPT ![c] = "allow"]
        /\ canceled' = canceled \cup {c}
     \/ /\ \E p \in Plugins : call[c][p] = "sentDeny"
        /\ decision' = [decision EXCEPT ![c] = "deny"]
        /\ UNCHANGED canceled
  /\ UNCHANGED <<mgr, instVars, breaker, restartVars, snap, call, vouched, probes, lost>>

\* The collecting loop: the first ALLOW cancels the other calls and decides;
\* DENY needs every call's result.
Collect(c) ==
  /\ decision[c] = "running"
  /\ \/ /\ \E p \in Plugins : call[c][p] = "sentAllow"
        /\ decision' = [decision EXCEPT ![c] = "allow"]
        /\ canceled' = canceled \cup {c}
     \/ /\ \A p \in Plugins : call[c][p] \in {"off", "sentDeny"}
        /\ decision' = [decision EXCEPT ![c] = "deny"]
        /\ UNCHANGED canceled
  /\ UNCHANGED <<mgr, instVars, breaker, restartVars, snap, call, vouched, probes, lost>>

Disconnect(c) ==
  /\ MayDisconnect /\ decision[c] = "running" /\ c \notin canceled
  /\ canceled' = canceled \cup {c}
  /\ UNCHANGED <<mgr, instVars, breaker, restartVars, decision, snap, call, vouched, probes, lost>>

\* The request has been answered and its last call has returned: the slot
\* takes another request.
NextRequest(c) ==
  /\ decision[c] \in {"allow", "deny"}
  /\ \A p \in Plugins : call[c][p] \in Sent \cup {"off"}
  /\ decision' = [decision EXCEPT ![c] = "none"]
  /\ snap' = [snap EXCEPT ![c] = NoPlugin]
  /\ call' = [call EXCEPT ![c] = NoCall]
  /\ canceled' = canceled \ {c}
  /\ vouched' = {v \in vouched : v[1] # c}
  /\ UNCHANGED <<mgr, instVars, breaker, restartVars, probes, lost>>

-----------------------------------------------------------------------------
(* restartPlugin, run for the exited instance i.                           *)

Successor(i) == <<i[1], i[2] + 1>>
RestartTo(i, loc) == restart' = [restart EXCEPT ![i] = loc]

\* case <-m.done.
RestartCanceled(i) ==
  /\ restart[i] = "waiting" /\ mgr \in {"signalled", "marked", "closed"}
  /\ RestartTo(i, "done")
  /\ UNCHANGED <<mgr, instVars, breaker, attempts, reqVars>>

\* The backoff delay is over before done is closed: startPlugin spawns a
\* process.  (A closed done wins: the delay starts with the select.)
RestartBegins(i) ==
  /\ restart[i] = "waiting" /\ mgr = "serving"
  /\ proc' = [proc EXCEPT ![Successor(i)] = "alive"]
  /\ RestartTo(i, "starting")
  /\ UNCHANGED <<mgr, plugins, failed, breaker, attempts, reqVars>>

\* Mutant: failed attempts are not counted.
AttemptFails_uncounted(i) ==
  /\ restart[i] = "starting"
  /\ proc' = [proc EXCEPT ![Successor(i)] = "none"]
  /\ RestartTo(i, "waiting")
  /\ UNCHANGED <<mgr, plugins, failed, breaker, attempts, reqVars>>

\* startPlugin fails, having killed what it spawned: the number is reused.
AttemptFails(i) ==
  /\ restart[i] = "starting"
  /\ proc' = [proc EXCEPT ![Successor(i)] = "none"]
  /\ attempts' = [attempts EXCEPT ![i] = @ + 1]
  /\ RestartTo(i, IF attempts[i] + 1 = MaxAttempts THEN "exhausted" ELSE "waiting")
  /\ UNCHANGED <<mgr, plugins, failed, breaker, reqVars>>

\* startPlugin returns an instance with a fresh breaker.
AttemptSucceeds(i) ==
  /\ restart[i] = "starting" /\ proc[Successor(i)] = "alive"
  /\ SetBreaker(Successor(i), NewCircuitBreaker)
  /\ RestartTo(i, "started")
  /\ UNCHANGED <<mgr, instVars, attempts, reqVars>>

\* Mutant: closed is not looked at under writeMu.
swapPlugin_unchecked(i) ==
  /\ restart[i] = "started"
  /\ Kill({Current(i[1])} \cap Instances)
  /\ plugins' = [plugins EXCEPT ![i[1]] = i[2] + 1]
  /\ RestartTo(i, "done")
  /\ UNCHANGED <<mgr, failed, breaker, attempts, reqVars>>

\* Under writeMu: a closed manager gets no new instance, otherwise the new
\* one replaces the old one, which is killed (it has exited already).
swapPlugin(i) ==
  /\ restart[i] = "started"
  /\ IF mgr \in {"marked", "closed"}
     THEN Kill({Successor(i)}) /\ UNCHANGED plugins
     ELSE /\ Kill({Current(i[1])} \cap Instances)
          /\ plugins' = [plugins EXCEPT ![i[1]] = i[2] + 1]
  /\ RestartTo(i, "done")
  /\ UNCHANGED <<mgr, failed, breaker, attempts, reqVars>>

\* All attempts exhausted: the instance in the map is failed for good.
GiveUp(i) ==
  /\ restart[i] = "exhausted"
  /\ failed' = failed \cup ({Current(i[1])} \cap Instances)
  /\ RestartTo(i, "done")
  /\ UNCHANGED <<mgr, plugins, proc, breaker, attempts, reqVars>>

-----------------------------------------------------------------------------
(* Close, and the environment.                                             *)

\* close(m.done)
CloseSignal ==
  /\ mgr = "serving"
  /\ mgr' = "signalled"
  /\ UNCHANGED <<instVars, breaker, restartVars, reqVars>>

\* m.closed.Store(true)
CloseMark ==
  /\ mgr = "signalled"
  /\ mgr' = "marked"
  /\ UNCHANGED <<instVars, breaker, restartVars, reqVars>>

\* Under writeMu: the map is emptied and what it held is killed.
CloseKill ==
  /\ mgr = "marked"
  /\ Kill({Current(p) : p \in Plugins})
  /\ plugins' = NoPlugin
  /\ mgr' = "closed"
  /\ UNCHANGED <<failed, breaker, restartVars, reqVars>>

\* A plugin process crashes.  The last instance never does: a bound.
Exit(i) ==
  /\ proc[i] = "alive" /\ i[2] < MaxInst
  /\ proc' = [proc EXCEPT ![i] = "exited"]
  /\ UNCHANGED <<mgr, plugins, failed, breaker, restartVars, reqVars>>

\* The cooldown of an open breaker is over.  Unless SlowCalls, every call
\* admitted before the breaker opened has hit its timeout by then.
CoolDown(i) ==
  /\ breaker[i].state = "open" /\ breaker[i].cooled = 0
  /\ SlowCalls \/ InFlight(i) = {}
  /\ breaker' = [breaker EXCEPT ![i].cooled = 1]
  /\ UNCHANGED <<mgr, instVars, restartVars, reqVars>>

-----------------------------------------------------------------------------
CallStep(c, p) ==
  \/ CallPlugin(c, p) \/ Answer(c, p) \/ CallSucceeds(c, p) \/ CallTimesOut(c, p)
  \/ NilResponse(c, p) \/ CallFails(c, p) \/ CallCanceled(c, p) \/ CallPanics(c, p)

RestartStep(i) ==
  \/ RestartCanceled(i) \/ RestartBegins(i) \/ AttemptFails(i) \/ AttemptSucceeds(i)
  \/ swapPlugin(i) \/ GiveUp(i)

Terminated == mgr = "aborted" /\ UNCHANGED vars

Next ==
  \/ NewManager \/ \E p \in Plugins : StartPlugin(p) \/ StartFails(p)
  \/ \E c \in Callers :
       \/ \E R \in SUBSET Plugins : Authorize(c, R)
       \/ \E p \in Plugins : CallStep(c, p)
       \/ Collect(c) \/ Disconnect(c) \/ NextRequest(c)
  \/ \E i \in Instances : RestartStep(i) \/ Exit(i) \/ CoolDown(i)
  \/ CloseSignal \/ CloseMark \/ CloseKill
  \/ Terminated

Spec == Init /\ [][Next]_vars

(* Goroutines keep running and a plugin call ends by its timeout.  Nothing *)
(* obliges requests to come, processes to crash or Close to be called.     *)
Fairness ==
  /\ \A c \in Callers : WF_vars(Collect(c)) /\ \A p \in Plugins : WF_vars(CallStep(c, p))
  /\ \A i \in Instances : WF_vars(RestartStep(i))

FairSpec == Spec /\ Fairness

-----------------------------------------------------------------------------
(* Properties.                                                             *)

\* Every variable has its type; restartPlugin makes no attempt for which it
\* has no delay.
TypeOK ==
  /\ mgr \in MgrStates
  /\ plugins \in [Plugins -> 0..MaxInst]
  /\ proc \in [Instances -> ProcStates] /\ failed \subseteq Instances
  /\ breaker \in [Instances -> Breaker]
  /\ restart \in [Instances -> RestartStates] /\ attempts \in [Instances -> 0..MaxAttempts]
  /\ decision \in [Callers -> {"none", "running", "allow", "deny"}]
  /\ snap \in [Callers -> [Plugins -> 0..MaxInst]]
  /\ call \in [Callers -> [Plugins -> CallStates]]
  /\ canceled \subseteq Callers
  /\ vouched \subseteq Callers \X Plugins /\ probes \subseteq Callers \X Plugins
  /\ lost \subseteq Instances

\* Authorize allows a request exactly when one of its plugins answered ALLOW
\* to it: an open circuit, a timeout, an error, a panic, a canceled call or a
\* missing plugin never counts as an ALLOW, and a DENY of one plugin does not
\* hide the ALLOW of another.
DecisionSound ==
  \A c \in Callers :
    /\ decision[c] = "allow" => \E p \in Plugins : <<c, p>> \in vouched
    /\ decision[c] = "deny" => \A p \in Plugins : <<c, p>> \notin vouched

\* No process is left running that nobody will kill: it belongs to the
\* instance in the map of a manager that Close has yet to empty, to a restart
\* goroutine that has yet to swap it in, or to NewManager.  And the instance
\* in the map is not one that was killed.
ProcessesOwned ==
  \A i \in Instances :
    /\ proc[i] = "alive" =>
         \/ mgr = "starting"
         \/ mgr # "closed" /\ plugins[i[1]] = i[2]
         \/ i[2] > 1 /\ restart[<<i[1], i[2] - 1>>] \in {"starting", "started"}
    /\ plugins[i[1]] = i[2] => proc[i] # "killed"

\* A restart goroutine that may still swap works for the instance in the map,
\* so a plugin never has two of them, and a late one never replaces a newer
\* instance, although calls on old snapshots keep meeting the dead process.
RestarterIsCurrent ==
  \A i \in Instances :
    restart[i] \in {"waiting", "starting", "started", "exhausted"} /\ mgr # "closed"
      => plugins[i[1]] = i[2]

\* When no call outlasts the cooldown, a half-open breaker has at most one
\* probe in flight, whatever other calls were in flight when it opened.
OneProbe ==
  \A i \in Instances : \A c, d \in InFlight(i) :
    {<<c, i[1]>>, <<d, i[1]>>} \subseteq probes => c = d

\* HalfOpen with no probe to give has a call in flight that will decide what
\* is next, so the plugin is not denied for good; only a probe that was
\* canceled or panicked, which callPlugin does not record, can break this.
ProbeOutstanding ==
  \A i \in Instances :
    breaker[i].state = "half-open" /\ breaker[i].allowed = 0
      => InFlight(i) # {} \/ i \in lost

\* Healthy, as /readyz reports it.
Healthy ==
  \E p \in Plugins :
    /\ plugins[p] # 0 /\ Current(p) \notin failed /\ ~Exited(Current(p))
    /\ breaker[Current(p)].state # "open"

\* What the comment on Healthy says: it is true only if some plugin can
\* actually serve requests, now or once a call in flight has returned.
HealthyServes ==
  Healthy =>
    \E p \in Plugins :
      /\ plugins[p] # 0 /\ Current(p) \notin failed
      /\ Allows(breaker[Current(p)]) \/ InFlight(Current(p)) # {}

\* Authorize returns: every call it waits for sends a result, panicking,
\* canceled and refused ones included.
AuthorizeReturns ==
  \A c \in Callers : decision[c] = "running" ~> decision[c] # "running"

\* A crashed plugin whose restart was scheduled is replaced or given up,
\* unless the manager shuts down.
RestartSettles ==
  \A i \in Instances :
    restart[i] = "waiting" ~>
      \/ plugins[i[1]] # i[2] /\ restart[i] = "done"
      \/ i \in failed
      \/ mgr \in {"signalled", "marked", "closed"}

=============================================================================

----------------------------- MODULE Lifecycle ------------------------------
(***************************************************************************)
(* The gateway process (runServe in cmd/pdag/serve.go): it loads the       *)
(* configuration, opens the components one by one, serves until a signal   *)
(* or a failed server, shuts the three servers down within one window, and *)
(* closes the components in the reverse order, all around the requests of  *)
(* Gateway.                                                                *)
(*                                                                         *)
(* Goroutines: main, the three servers, the requests in flight on them,    *)
(* and the key cleanup, which nobody waits for.                            *)
(***************************************************************************)
EXTENDS Gateway

CONSTANTS
  Slow,            \* servers other than the proxy whose requests are modelled
  MaxServerErrors  \* bound on the servers that fail

ASSUME LifecycleAssumption ==
  Slow \subseteq {"admin", "metrics"} /\ MaxServerErrors \in 0..3

VARIABLES
  main,     \* where runServe is
  defers,   \* the deferred closes, oldest first
  server,   \* the state of each server
  errs,     \* errors in listenAndServe's errCh
  ctxDone,  \* the signal context is cancelled
  window,   \* the context of shutdownAll: "unset", "open" or "expired"
  busy,     \* servers of Slow with a request in flight
  cleaner,  \* runKeyCleanup: "none", "wait" at its select, or "gone"
  stale     \* the store holds keys that have expired

srvVars == <<server, errs, busy>>
bgVars == <<cleaner, stale>>
procVars == <<main, defers, ctxDone, window>>
vars == <<chosen, up, reqVars, srvVars, bgVars, procVars>>

\* shutdownAll's order; the admin server exists if there is a token.
Servers == <<"admin", "metrics", "proxy">>

HasServer(s) == s = "admin" => cfg.AdminToken # <<>>

\* The order in which runServe opens what it defers the closing of.
Components ==
  (IF cfg.Tracing.Enabled THEN <<"tracer">> ELSE <<>>)
    \o <<"store", "audit", "plugins", "backend", "limiter">>

LInit ==
  /\ Init
  /\ main = "load" /\ defers = <<>>
  /\ server = [s \in Range(Servers) |-> "none"]
  /\ errs = 0 /\ busy = {}
  /\ ctxDone = FALSE /\ window = "unset"
  /\ cleaner = "none" /\ stale = FALSE

\* The process has ended, and all its goroutines with it.
Over == main \in {"exit", "killed"}

-----------------------------------------------------------------------------
(* Start-up.                                                               *)

\* config.Load
Load ==
  /\ main = "load"
  /\ main' = IF Loads(Configs[chosen]) THEN "open" ELSE "exit"
  /\ UNCHANGED <<chosen, up, reqVars, srvVars, bgVars, defers, ctxDone, window>>

\* The next component opens, and its closing is deferred ...
Open ==
  /\ main = "open" /\ Len(defers) < Len(Components)
  /\ LET c == Components[Len(defers) + 1] IN
     /\ c = "plugins" => DOMAIN cfg.Plugins # {}
     /\ up' = up \cup {c}
     /\ defers' = Append(defers, c)
  /\ UNCHANGED <<chosen, reqVars, srvVars, bgVars, main, ctxDone, window>>

\* ... or fails to, and runServe returns.  The limiter cannot fail; without a
\* plugin the manager always does.
OpenFails ==
  /\ main = "open" /\ Len(defers) < Len(Components) - 1
  /\ main' = "close"
  /\ UNCHANGED <<chosen, up, reqVars, srvVars, bgVars, defers, ctxDone, window>>

\* The rest of runServe up to the select of listenAndServe.
Start ==
  /\ main = "open" /\ Len(defers) = Len(Components)
  /\ main' = "serve"
  /\ defers' = Append(defers, "signals")
  /\ server' = [s \in DOMAIN server |-> IF HasServer(s) THEN "starting" ELSE "none"]
  /\ cleaner' = IF cfg.KeyCleanupInterval > 0 THEN "wait" ELSE "none"
  /\ UNCHANGED <<chosen, up, reqVars, errs, busy, stale, ctxDone, window>>

-----------------------------------------------------------------------------
(* The servers.                                                            *)

Listen(s) ==
  /\ ~Over /\ server[s] = "starting"
  /\ server' = [server EXCEPT ![s] = "listening"]
  /\ UNCHANGED <<chosen, up, reqVars, errs, busy, bgVars, procVars>>

\* ListenAndServe returns an error, other than that the server was closed.
ServerFails(s) ==
  /\ ~Over /\ server[s] \in {"starting", "listening"} /\ errs < MaxServerErrors
  /\ server' = [server EXCEPT ![s] = "failed"]
  /\ errs' = errs + 1
  /\ UNCHANGED <<chosen, up, reqVars, busy, bgVars, procVars>>

\* A connection with a request is accepted by the proxy server ...
Accept(r) ==
  /\ ~Over /\ server["proxy"] = "listening"
  /\ Arrive(r) \/ ArriveProbe(r)
  /\ UNCHANGED <<chosen, up, srvVars, bgVars, procVars>>

ServeRequest(r) ==
  /\ ~Over /\ RequestStep(r)
  /\ UNCHANGED <<chosen, up, srvVars, bgVars, procVars>>

\* ... or by one of the others, whose handlers KeyAdmin has.
AcceptOther(s) ==
  /\ ~Over /\ s \in Slow /\ server[s] = "listening"
  /\ busy' = busy \cup {s}
  /\ UNCHANGED <<chosen, up, reqVars, server, errs, bgVars, procVars>>

FinishOther(s) ==
  /\ ~Over /\ s \in busy
  /\ busy' = busy \ {s}
  /\ UNCHANGED <<chosen, up, reqVars, server, errs, bgVars, procVars>>

-----------------------------------------------------------------------------
(* Shutdown.                                                               *)

Terminate ==
  /\ main \in {"serve", "shutdown"} /\ ~ctxDone
  /\ ctxDone' = TRUE
  /\ UNCHANGED <<chosen, up, reqVars, srvVars, bgVars, main, defers, window>>

\* The select of listenAndServe, then shutdownAll.
Select ==
  /\ main = "serve" /\ (errs > 0 \/ ctxDone)
  /\ main' = "shutdown" /\ window' = "open"
  /\ UNCHANGED <<chosen, up, reqVars, srvVars, bgVars, defers, ctxDone>>

\* shutdown_wait has passed since.
Expire ==
  /\ main = "shutdown" /\ window = "open"
  /\ window' = "expired"
  /\ UNCHANGED <<chosen, up, reqVars, srvVars, bgVars, main, defers, ctxDone>>

Idle(s) == IF s = "proxy" THEN InFlight = {} ELSE s \notin busy

\* The server whose turn it is: the first that is not shut.
Turn ==
  LET left == {i \in DOMAIN Servers : server[Servers[i]] \notin {"none", "shut"}}
  IN  IF left = {} THEN 0 ELSE Min(left)

\* Shutdown closes the server's listener ...
ShutdownCall ==
  /\ main = "shutdown" /\ Turn # 0
  /\ server[Servers[Turn]] \in {"starting", "listening", "failed"}
  /\ server' = [server EXCEPT ![Servers[Turn]] = "closing"]
  /\ UNCHANGED <<chosen, up, reqVars, errs, busy, bgVars, procVars>>

\* Mutant: the server's in-flight requests are not waited for.
ShutdownReturn_hasty ==
  /\ main = "shutdown" /\ Turn # 0
  /\ server[Servers[Turn]] = "closing"
  /\ server' = [server EXCEPT ![Servers[Turn]] = "shut"]
  /\ UNCHANGED <<chosen, up, reqVars, errs, busy, bgVars, procVars>>

\* Mutant: context.Background() instead of the window.
ShutdownReturn_patient ==
  /\ main = "shutdown" /\ Turn # 0
  /\ server[Servers[Turn]] = "closing"
  /\ Idle(Servers[Turn])
  /\ server' = [server EXCEPT ![Servers[Turn]] = "shut"]
  /\ UNCHANGED <<chosen, up, reqVars, errs, busy, bgVars, procVars>>

\* ... and returns when its requests are done or the window has expired.
ShutdownReturn ==
  /\ main = "shutdown" /\ Turn # 0
  /\ server[Servers[Turn]] = "closing"
  /\ Idle(Servers[Turn]) \/ window = "expired"
  /\ server' = [server EXCEPT ![Servers[Turn]] = "shut"]
  /\ UNCHANGED <<chosen, up, reqVars, errs, busy, bgVars, procVars>>

\* listenAndServe returns; runServe closes sighupDone and returns.
Stopped ==
  /\ main = "shutdown" /\ Turn = 0
  /\ main' = "close"
  /\ UNCHANGED <<chosen, up, reqVars, srvVars, bgVars, defers, ctxDone, window>>

\* Mutant: the closes run in the order they were deferred.
Close_fifo ==
  /\ main = "close" /\ defers # <<>>
  /\ up' = up \ {Head(defers)}
  /\ defers' = Tail(defers)
  /\ ctxDone' = (ctxDone \/ Head(defers) = "signals")
  /\ UNCHANGED <<chosen, reqVars, srvVars, bgVars, main, window>>

\* The deferred calls, the latest first; then the process exits.
Close ==
  /\ main = "close" /\ defers # <<>>
  /\ LET c == defers[Len(defers)] IN
     /\ up' = up \ {c}
     /\ ctxDone' = (ctxDone \/ c = "signals")
  /\ defers' = SubSeq(defers, 1, Len(defers) - 1)
  /\ UNCHANGED <<chosen, reqVars, srvVars, bgVars, main, window>>

Exit ==
  /\ main = "close" /\ defers = <<>>
  /\ main' = "exit"
  /\ UNCHANGED <<chosen, up, reqVars, srvVars, bgVars, defers, ctxDone, window>>

-----------------------------------------------------------------------------
(* Background goroutines.                                                  *)

\* Some key of the store reaches its expiry.
KeyExpires ==
  /\ main = "serve" /\ cleaner = "wait"
  /\ stale' = TRUE
  /\ UNCHANGED <<chosen, up, reqVars, srvVars, cleaner, procVars>>

CleanupStops ==
  /\ ~Over /\ cleaner = "wait" /\ ctxDone
  /\ cleaner' = "gone"
  /\ UNCHANGED <<chosen, up, reqVars, srvVars, stale, procVars>>

\* A tick: DeleteExpired, then AuditKeyEvent, whose failure is logged ...
Cleanup ==
  /\ ~Over /\ cleaner = "wait" /\ StoreAnswers
  /\ stale' = FALSE
  /\ UNCHANGED <<chosen, up, reqVars, srvVars, cleaner, procVars>>

\* Mutant: a failed statement ends the loop.
CleanupFails_return ==
  /\ ~Over /\ cleaner = "wait"
  /\ cleaner' = "gone"
  /\ UNCHANGED <<chosen, up, reqVars, srvVars, stale, procVars>>

\* ... or a DeleteExpired that fails, which is logged, and the loop goes on.
CleanupFails ==
  /\ ~Over /\ cleaner = "wait"
  /\ UNCHANGED <<chosen, up, reqVars, srvVars, cleaner, stale, procVars>>

\* A signal nobody has asked for ends the process as it stands: before Start
\* any, and once sighupDone is closed and handleSIGHUP has returned, a SIGHUP.
\* (What a SIGHUP does in between is AuditLog's Reopen.)
Killed ==
  /\ main \in {"load", "open", "close"}
  /\ main' = "killed"
  /\ UNCHANGED <<chosen, up, reqVars, srvVars, bgVars, defers, ctxDone, window>>

-----------------------------------------------------------------------------
StartStep == Load \/ Open \/ OpenFails \/ Start
StopStep == Select \/ Expire \/ ShutdownCall \/ ShutdownReturn \/ Stopped \/ Close \/ Exit

LNext ==
  \/ StartStep \/ StopStep \/ Terminate \/ Killed
  \/ \E s \in Range(Servers) :
       Listen(s) \/ ServerFails(s) \/ AcceptOther(s) \/ FinishOther(s)
  \/ \E r \in Requests : Accept(r) \/ ServeRequest(r)
  \/ KeyExpires \/ Cleanup \/ CleanupFails \/ CleanupStops
  \/ Over /\ UNCHANGED vars

LSpec == LInit /\ [][LNext]_vars

(* Main runs on and the timer of the window fires; the cleanup's ticker    *)
(* ticks and the database does not fail for ever.  Nothing is asked of the *)
(* requests: a handler may hang.                                           *)
LFairness ==
  /\ WF_vars(StopStep)
  /\ WF_vars(Cleanup)

LFairSpec == LSpec /\ LFairness

-----------------------------------------------------------------------------
(* Properties.                                                             *)

\* Shutdown is graceful: runServe starts to close the components only when no
\* server has a request in flight, or the one window that all three servers
\* share has expired, on the error path as on the signal's.
DrainedOrExpired ==
  main \in {"close", "exit"} => (InFlight = {} /\ busy = {}) \/ window = "expired"

\* Fail-closed auditing survives shutdown: a request that PowerDNS got has an
\* entry when its handler is done, also when the handler panicked, unless the
\* window expired and the audit log was closed under it.
RecordedUnlessExpired ==
  cfg.AuditFailClosed /\ Logs =>
    \A r \in Requests : pc[r] = "done" /\ seen[r].upstream # {} =>
      trail[r] # {} \/ (window = "expired" /\ "audit" \notin up)

\* A component outlives those opened after it, whichever step of runServe
\* fails, and a process that exits by itself has closed all it opened.
ReleasedInOrder ==
  /\ \A i, j \in DOMAIN Components :
       i < j /\ Components[j] \in up => Components[i] \in up
  /\ main = "exit" => up = {}

\* A signal or a failed server ends the process, even if a request in flight
\* on one of the servers never ends.
StopsEventually == (ctxDone \/ errs > 0) ~> Over

\* Expired keys are purged as long as the process is not told to stop: the
\* cleanup survives failing statements and audit rows.
CleanupGoesOn == stale ~> (~stale \/ ctxDone \/ Over)

\* What is served meets what the other modules assume: a buffer and a window
\* that are not empty, plugin calls that time out and breakers that count up,
\* health checks that end before the next, and a secret that new keys are
\* hashed with and verified against alike; one read from a file does not end
\* in the line terminator an editor put there.
StartedConfigSound ==
  main = "serve" =>
    /\ cfg.AuditBufferSize > 0 /\ cfg.ShutdownWait > 0
    /\ DOMAIN cfg.Plugins # {}
    /\ \A p \in DOMAIN cfg.Plugins : LET plugin == PluginConfigResolved(cfg, p) IN
         plugin.Timeout > 0 /\ plugin.FailureThreshold >= 0 /\ plugin.SuccessThreshold >= 0
    /\ Len(cfg.Backends) > 1 => cfg.HealthCheck.Timeout < cfg.HealthCheck.Interval
    /\ \A i \in DOMAIN cfg.HmacSecrets : LET s == cfg.HmacSecrets[i] IN
         /\ s.Secret # <<>>
         /\ Configs[chosen].HmacSecrets[i].Secret.file # "none" => Unterminated(s.Secret)
    /\ IsInjective([i \in DOMAIN cfg.HmacSecrets |-> cfg.HmacSecrets[i].ID]) =>
         hmacSecrets(cfg)[CurrentHmacSecret(cfg).ID] = CurrentHmacSecret(cfg).Secret
=============================================================================

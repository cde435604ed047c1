--------------------------- MODULE CircuitBreaker ---------------------------
(***************************************************************************)
(* One plugin's circuit breaker (internal/authz/plugin/circuitbreaker.go)  *)
(* as operations on its fields.  Every method holds cb.mu from start to    *)
(* end, so each is one atomic operation.                                   *)
(***************************************************************************)
EXTENDS Integers

CONSTANTS
  FailureThreshold,  \* consecutive failures that open a closed breaker
  SuccessThreshold   \* consecutive successes that close a half-open one
                     \* (zero, which the configuration admits, acts as one)

ASSUME ThresholdAssumption ==
  FailureThreshold \in Nat /\ SuccessThreshold \in Nat

(***************************************************************************)
(* state, fails and succs are the fields of the same meaning; allowed is 1 *)
(* when halfOpenAllowed is set; cooled is 1 once time.Since(lastFailure)   *)
(* exceeds the cooldown.                                                   *)
(***************************************************************************)
Breaker ==
  [state: {"closed", "half-open", "open"}, fails: Nat, succs: Nat,
   allowed: 0..1, cooled: 0..1]

\* Everything but the clock, which transition does not touch.
transition(cb, to) ==
  [state |-> to, fails |-> 0, succs |-> 0,
   allowed |-> IF to = "half-open" THEN 1 ELSE 0, cooled |-> cb.cooled]

NewCircuitBreaker ==
  [state |-> "closed", fails |-> 0, succs |-> 0, allowed |-> 0, cooled |-> 0]

\* What Allow returns ...
Allows(cb) ==
  \/ cb.state = "closed"
  \/ cb.state = "open" /\ cb.cooled = 1
  \/ cb.state = "half-open" /\ cb.allowed = 1

\* Mutant: a call admitted in half-open state does not use the probe up.
AfterAllow_unlimited(cb) ==
  IF cb.state = "open" THEN transition(cb, "half-open") ELSE cb

\* ... and what it leaves behind when it returns true.
AfterAllow(cb) ==
  CASE cb.state = "open" -> [transition(cb, "half-open") EXCEPT !.allowed = 0]
    [] cb.state = "half-open" -> [cb EXCEPT !.allowed = 0]
    [] OTHER -> cb

\* Mutant: a success that does not close the breaker leaves no probe.
RecordSuccess_noProbe(cb) ==
  LET ok == [cb EXCEPT !.fails = 0]
      counted == [ok EXCEPT !.succs = @ + 1]
  IN  IF cb.state # "half-open" THEN ok
      ELSE IF counted.succs >= SuccessThreshold THEN transition(counted, "closed")
      ELSE counted

RecordSuccess(cb) ==
  LET ok == [cb EXCEPT !.fails = 0]
      counted == [ok EXCEPT !.succs = @ + 1]
  IN  IF cb.state # "half-open" THEN ok
      ELSE IF counted.succs >= SuccessThreshold THEN transition(counted, "closed")
      ELSE [counted EXCEPT !.allowed = 1]

RecordFailure(cb) ==
  LET bad == [cb EXCEPT !.succs = 0, !.fails = @ + 1, !.cooled = 0]
  IN  IF bad.state = "half-open" \/ (bad.state = "closed" /\ bad.fails >= FailureThreshold)
      THEN transition(bad, "open")
      ELSE bad

=============================================================================

----------------------------- MODULE AuditTrail -----------------------------
(***************************************************************************)
(* What fail-closed auditing promises, with no buffer, semaphore, flush    *)
(* goroutine or lock: a request is refused or admitted before its action   *)
(* can go upstream, an admitted request stays open until its entry has     *)
(* been dealt with, and at most Window requests are open at once.          *)
(***************************************************************************)
EXTENDS Integers, FiniteSets

CONSTANTS Requests, Window

VARIABLE status

Statuses == {"waiting", "refused", "admitted", "forwarded", "settled"}
Open == {r \in Requests : status[r] \in {"admitted", "forwarded"}}
Set(r, s) == status' = [status EXCEPT ![r] = s]

Init == status = [r \in Requests |-> "waiting"]

Refuse(r) == status[r] = "waiting" /\ Set(r, "refused")
Admit(r) == status[r] = "waiting" /\ Cardinality(Open) < Window /\ Set(r, "admitted")
Forward(r) == status[r] = "admitted" /\ Set(r, "forwarded")
Settle(r) == r \in Open /\ Set(r, "settled")

Next == \E r \in Requests : Refuse(r) \/ Admit(r) \/ Forward(r) \/ Settle(r)

Spec == Init /\ [][Next]_status
=============================================================================

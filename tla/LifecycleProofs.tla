--------------------------- MODULE LifecycleProofs ---------------------------
(***************************************************************************)
(* Proofs about the gateway's process.  First the request chain: the       *)
(* invariant of a request on its way through the middlewares, the          *)
(* operators it goes through (the client address, the audited body, the    *)
(* configuration) and what follows for the calls to the backend and for    *)
(* the audit entries.  Then the process around the requests: what it has   *)
(* opened, when it closes it, and what that means for those in flight.     *)
(***************************************************************************)
EXTENDS Lifecycle, FiniteSetTheorems, WellFoundedInduction, TLAPS

-----------------------------------------------------------------------------
(* The invariant of a request on its way through the chain.                *)

Stages == Range(Chain) \cup Probing \cup {"new", "panic", "done"}
Unasked == {"new", "audit", "authn", "ratelimit", "body", "authz"} \cup Probing
Keyed == {"ratelimit", "body", "authz", "backend"}

Bodies == [json : BOOLEAN, leaves : Seq(Leaves)]

\* Each request has a record of its own in every variable.
ShapeInv(r) ==
  /\ pc[r] \in Stages
  /\ input[r] \in Inputs \cup {NoInput}
  /\ DOMAIN ctx[r] = {"principal", "keyID", "roles", "body"}
  /\ DOMAIN cells[r] = {"status", "bytes", "decision"}
  /\ DOMAIN seen[r] = {"client", "key", "plugins", "upstream"}

\* Past hmac.Middleware the context is the key's, which admits the address.
KeyInv(r) ==
  /\ pc[r] \in Keyed => seen[r].key # {}
  /\ pc[r] \in Unasked \ Keyed => seen[r].key = {}
  /\ \A rec \in seen[r].key :
       /\ rec.check = "ok" /\ Listed(r, rec)
       /\ ctx[r].principal = rec.principal /\ ctx[r].roles = rec.roles

\* Past BodyBuffer the context has the body, and the audit cell what it logs.
BodyInv(r) ==
  /\ pc[r] \in Unasked \ {"authz"} => ctx[r].body = EmptyBody /\ cells[r].bytes = EmptyBody
  /\ pc[r] \in {"authz", "backend"} \/ seen[r].upstream # {} =>
       /\ ctx[r].body = Content(input[r].body)
       /\ cfg.AuditLogBody => cells[r].bytes = Content(input[r].body)

\* Before the plugins have answered there is no decision and no call; an allow
\* comes with a call, or is about to.
CallInv(r) ==
  /\ pc[r] \in Unasked => cells[r].decision = "" /\ seen[r].upstream = {}
  /\ pc[r] = "backend" => cells[r].decision = "allow" /\ seen[r].upstream = {}
  /\ cells[r].decision = "allow" /\ pc[r] # "backend" => seen[r].upstream # {}

\* The status cell is what the client got, a denial's is 403, and only an
\* allowed request was forwarded.
StatusInv(r) ==
  /\ seen[r].upstream # {} => cells[r].decision = "allow"
  /\ cells[r].decision = "deny" => cells[r].status = 403
  /\ seen[r].client # 0 => cells[r].status = seen[r].client

\* What the plugins were asked is what is forwarded, with the credentials gone.
AskedInv(r) ==
  /\ cells[r].decision = "allow" => ctx[r].roles # {} /\ seen[r].plugins = {pbReq(r)} /\ seen[r].key # {}
  /\ seen[r].upstream \subseteq {[headers |-> Rewrite, body |-> ctx[r].body]}

\* An entry is written last, from what then stays as it is.
TrailInv(r) ==
  trail[r] \subseteq {buildEntry(r)} /\ (trail[r] # {} => pc[r] = "done")

RequestInv(r) ==
  /\ ShapeInv(r) /\ KeyInv(r) /\ BodyInv(r) /\ CallInv(r) /\ StatusInv(r)
  /\ AskedInv(r) /\ TrailInv(r)

DomainInv ==
  /\ DOMAIN pc = Requests /\ DOMAIN input = Requests /\ DOMAIN ctx = Requests
  /\ DOMAIN outer = Requests /\ DOMAIN cells = Requests /\ DOMAIN seen = Requests
  /\ DOMAIN trail = Requests

GatewayInv ==
  chosen \in DOMAIN Configs /\ DomainInv /\ \A r \in Requests : RequestInv(r)

\* The stages that the steps go to.
LEMMA StageNames ==
  /\ {"audit", "authn", "ratelimit", "body", "authz", "backend", "unwind"} \subseteq Stages
  /\ {"panic", "done"} \cup Probing \subseteq Stages
<1>1. \A i \in 1..7 : Chain[i] \in Range(Chain)
  BY DEF Chain, Range
<1>2. /\ Chain[1] = "audit" /\ Chain[2] = "authn" /\ Chain[3] = "ratelimit" /\ Chain[4] = "body"
      /\ Chain[5] = "authz" /\ Chain[6] = "backend" /\ Chain[7] = "unwind"
  BY Zenon DEF Chain
<1>3. {"audit", "authn", "ratelimit", "body", "authz", "backend", "unwind"} \subseteq Range(Chain)
  BY <1>1, <1>2
<1> QED BY <1>3, Zenon DEF Stages

\* A step that goes to a stage and adds no field keeps the shape.
LEMMA ShapeStays ==
  ASSUME NEW r, ShapeInv(r), pc'[r] \in Stages, input'[r] = input[r] \/ input'[r] \in Inputs,
         DOMAIN ctx'[r] = DOMAIN ctx[r], DOMAIN cells'[r] = DOMAIN cells[r],
         DOMAIN seen'[r] = DOMAIN seen[r]
  PROVE  ShapeInv(r)'
BY Zenon DEF ShapeInv

\* A step that neither authenticates nor goes past the authenticator keeps the
\* key.
LEMMA KeyStays ==
  ASSUME NEW r, KeyInv(r), cfg' = cfg, input'[r] = input[r], seen'[r].key = seen[r].key,
         ctx'[r].principal = ctx[r].principal, ctx'[r].roles = ctx[r].roles,
         pc'[r] \in Keyed => pc[r] \in Keyed,
         pc'[r] \in Unasked \ Keyed => pc[r] \in Unasked \ Keyed
  PROVE  KeyInv(r)'
<1>1. \A rec : Listed(r, rec)' <=> Listed(r, rec)
  BY Zenon DEF Listed, SourceIP
<1> QED BY <1>1, Zenon DEF KeyInv

\* So does a status whose cell, decision and answer stay.
LEMMA StatusStays ==
  ASSUME NEW r, StatusInv(r), cells'[r].status = cells[r].status,
         cells'[r].decision = cells[r].decision, seen'[r].client = seen[r].client,
         seen'[r].upstream = seen[r].upstream
  PROVE  StatusInv(r)'
BY DEF StatusInv

\* A request that nothing happens to keeps its invariant.
LEMMA RequestStays ==
  ASSUME NEW q, RequestInv(q), chosen' = chosen,
         pc'[q] = pc[q], input'[q] = input[q], ctx'[q] = ctx[q], outer'[q] = outer[q],
         cells'[q] = cells[q], seen'[q] = seen[q], trail'[q] = trail[q]
  PROVE  RequestInv(q)'
<1>1. cfg' = cfg
  BY Zenon DEF cfg
<1>2. ShapeInv(q)' /\ KeyInv(q)'
  <2>1. ShapeInv(q) /\ KeyInv(q) /\ pc[q] \in Stages
    BY Zenon DEF RequestInv, ShapeInv
  <2> QED BY <1>1, <2>1, ShapeStays, KeyStays, Zenon
<1>3. BodyInv(q)' /\ CallInv(q)' /\ StatusInv(q)'
  <2>1. BodyInv(q)'
    BY <1>1, Zenon DEF RequestInv, BodyInv
  <2>2. CallInv(q)'
    BY Zenon DEF RequestInv, CallInv
  <2>3. StatusInv(q)'
    BY StatusStays, Zenon DEF RequestInv
  <2> QED BY <2>1, <2>2, <2>3, Zenon
<1>4. pbReq(q)' = pbReq(q) /\ buildEntry(q)' = buildEntry(q)
  <2>1. SourceIP(q)' = SourceIP(q)
    BY <1>1, Zenon DEF SourceIP
  <2>2. buildEntry(q)' = buildEntry(q)
    BY <1>1, <2>1, Zenon DEF buildEntry
  <2> QED BY <2>2, Zenon DEF pbReq
<1>5. AskedInv(q)' /\ TrailInv(q)'
  BY <1>4, Zenon DEF RequestInv, AskedInv, TrailInv
<1> QED BY <1>2, <1>3, <1>5, Zenon DEF RequestInv

-----------------------------------------------------------------------------
(* The steps of the chain, one lemma each.                                 *)

\* A step of one request leaves the others as they are.
Only(r) ==
  /\ DomainInv'
  /\ \A q \in Requests \ {r} :
       /\ pc'[q] = pc[q] /\ input'[q] = input[q] /\ ctx'[q] = ctx[q] /\ outer'[q] = outer[q]
       /\ cells'[q] = cells[q] /\ seen'[q] = seen[q] /\ trail'[q] = trail[q]

\* next.ServeHTTP goes on to the middleware that newProxyServer put after this.
LEMMA PassNext ==
  ASSUME NEW r, Pass(r)
  PROVE  /\ pc[r] = "audit" => pc' = [pc EXCEPT ![r] = "authn"]
         /\ pc[r] = "authn" => pc' = [pc EXCEPT ![r] = "ratelimit"]
         /\ pc[r] = "ratelimit" => pc' = [pc EXCEPT ![r] = "body"]
         /\ pc[r] = "body" => pc' = [pc EXCEPT ![r] = "authz"]
         /\ pc[r] = "authz" => pc' = [pc EXCEPT ![r] = "backend"]
<1>1. DOMAIN Chain = 1..7
  BY DEF Chain
<1>2. \A j, k \in 1..7 : Chain[j] = Chain[k] => j = k
  BY DEF Chain
<1> DEFINE j == CHOOSE j \in DOMAIN Chain : Chain[j] = pc[r]
<1>3. pc' = [pc EXCEPT ![r] = Chain[1 + j]]
  BY Zenon DEF Pass
<1>4. ASSUME NEW i \in 1..6, pc[r] = Chain[i]
      PROVE  pc' = [pc EXCEPT ![r] = Chain[i + 1]]
  <2>1. i \in DOMAIN Chain
    BY <1>1
  <2>2. j \in DOMAIN Chain /\ Chain[j] = pc[r]
    BY <1>4, <2>1, Zenon
  <2> HIDE DEF j
  <2>3. j = i
    BY <1>1, <1>2, <1>4, <2>2
  <2>4. 1 + j = i + 1
    BY <2>3
  <2> QED BY <1>3, <2>4, Zenon
<1>5. /\ Chain[1] = "audit" /\ Chain[1 + 1] = "authn" /\ Chain[2] = "authn" /\ Chain[2 + 1] = "ratelimit"
      /\ Chain[3] = "ratelimit" /\ Chain[3 + 1] = "body" /\ Chain[4] = "body" /\ Chain[4 + 1] = "authz"
      /\ Chain[5] = "authz" /\ Chain[5 + 1] = "backend"
  BY DEF Chain
<1>6. 1 \in 1..6 /\ 2 \in 1..6 /\ 3 \in 1..6 /\ 4 \in 1..6 /\ 5 \in 1..6
  OBVIOUS
<1> QED BY <1>4, <1>5, <1>6, Zenon

\* Before its entry is written a request has none.
LEMMA NoEntryYet ==
  ASSUME NEW r, TrailInv(r), pc[r] # "done", trail'[r] = trail[r]
  PROVE  TrailInv(r)'
BY Zenon DEF TrailInv

\* A refusal by the authenticator, the limiter or the body buffer.
LEMMA RefuseStep ==
  ASSUME NEW r \in Requests, NEW code, DomainInv, RequestInv(r), chosen' = chosen,
         pc[r] \in {"authn", "ratelimit", "body"}, Refuse(r, code)
  PROVE  RequestInv(r)' /\ Only(r)
<1>1. /\ pc' = [pc EXCEPT ![r] = "unwind"] /\ UNCHANGED <<input, ctx, outer, trail>>
      /\ cells' = [cells EXCEPT ![r].status = code]
      /\ seen' = [seen EXCEPT ![r].client = code]
  BY Zenon DEF Refuse, Answer
<1>2. Only(r)
  BY <1>1, Zenon DEF Only, DomainInv
<1>3. /\ pc'[r] = "unwind" /\ input'[r] = input[r] /\ ctx'[r] = ctx[r] /\ trail'[r] = trail[r]
      /\ cells'[r] = [cells[r] EXCEPT !.status = code]
      /\ seen'[r] = [seen[r] EXCEPT !.client = code]
  BY <1>1, Zenon DEF DomainInv
<1>4. /\ DOMAIN cells'[r] = DOMAIN cells[r] /\ cells'[r].status = code
      /\ cells'[r].bytes = cells[r].bytes /\ cells'[r].decision = cells[r].decision
      /\ DOMAIN seen'[r] = DOMAIN seen[r] /\ seen'[r].client = code
      /\ seen'[r].key = seen[r].key /\ seen'[r].plugins = seen[r].plugins
      /\ seen'[r].upstream = seen[r].upstream
  BY <1>3, Zenon DEF RequestInv, ShapeInv
<1>5. cfg' = cfg
  BY Zenon DEF cfg
<1>6. cells[r].decision = "" /\ seen[r].upstream = {}
  BY Zenon DEF RequestInv, CallInv, Unasked
<1>7. ShapeInv(r)'
  BY <1>3, <1>4, ShapeStays, StageNames, Zenon DEF RequestInv
<1>8. KeyInv(r)'
  <2>1. pc'[r] \notin Keyed \cup Unasked
    BY <1>3, Zenon DEF Keyed, Unasked, Probing
  <2> QED BY <1>3, <1>4, <1>5, <2>1, KeyStays, Zenon DEF RequestInv
<1>9. BodyInv(r)' /\ CallInv(r)' /\ StatusInv(r)'
  BY <1>3, <1>4, <1>6, Zenon DEF BodyInv, CallInv, StatusInv, Unasked, Probing
<1>10. AskedInv(r)' /\ TrailInv(r)'
  BY <1>3, <1>4, <1>6, NoEntryYet, Zenon DEF RequestInv, AskedInv
<1> QED BY <1>2, <1>7, <1>8, <1>9, <1>10, Zenon DEF RequestInv

\* A request or a probe arrives.
LEMMA ArriveStep ==
  ASSUME NEW r \in Requests, DomainInv, RequestInv(r), chosen' = chosen,
         Arrive(r) \/ ArriveProbe(r)
  PROVE  RequestInv(r)' /\ Only(r)
<1>1. /\ pc[r] = "new"
      /\ pc' = [pc EXCEPT ![r] = "audit"] \/ pc' = [pc EXCEPT ![r] = "readyStore"]
      /\ input' = input \/ \E in \in Inputs : input' = [input EXCEPT ![r] = in]
      /\ UNCHANGED <<ctx, outer, cells, seen, trail>>
  BY Zenon DEF Arrive, ArriveProbe
<1>2. Only(r)
  BY <1>1, Zenon DEF Only, DomainInv
<1>3. /\ pc'[r] \in {"audit", "readyStore"} /\ input'[r] \in Inputs \cup {input[r]}
      /\ ctx'[r] = ctx[r] /\ cells'[r] = cells[r] /\ seen'[r] = seen[r] /\ trail'[r] = trail[r]
  BY <1>1, Zenon DEF DomainInv
<1>4. cells[r].decision = "" /\ seen[r].upstream = {}
  BY <1>1, Zenon DEF RequestInv, CallInv, Unasked
<1>5. seen[r].key = {}
  BY <1>1, Zenon DEF RequestInv, KeyInv, Unasked, Keyed
<1>6. ShapeInv(r)'
  <2>1. pc'[r] \in Stages
    BY <1>3, StageNames, Zenon DEF Probing
  <2> QED BY <1>3, <2>1, ShapeStays, Zenon DEF RequestInv
<1>7. KeyInv(r)'
  BY <1>3, <1>5, Zenon DEF KeyInv, Keyed
<1>8. BodyInv(r)' /\ CallInv(r)'
  BY <1>1, <1>3, <1>4, Zenon DEF RequestInv, BodyInv, CallInv, Unasked, Probing
<1>9. StatusInv(r)'
  BY <1>3, StatusStays, Zenon DEF RequestInv
<1>10. AskedInv(r)' /\ TrailInv(r)'
  BY <1>1, <1>3, <1>4, NoEntryYet, Zenon DEF RequestInv, AskedInv
<1> QED BY <1>2, <1>6, <1>7, <1>8, <1>9, <1>10, Zenon DEF RequestInv

\* A step after which the context, the cells and what was seen are the same.
LEMMA PassStep ==
  ASSUME NEW r \in Requests, DomainInv, RequestInv(r), chosen' = chosen,
         UNCHANGED <<input, ctx, cells, seen, trail>>,
         outer' = outer \/ outer' = [outer EXCEPT ![r] = ctx[r]],
         NEW l \in Stages, pc' = [pc EXCEPT ![r] = l],
         \/ pc[r] \in {"audit"} \cup Probing /\ l \in {"authn", "readyPlugins", "readyBackend"}
         \/ pc[r] = "ratelimit" /\ l = "body"
  PROVE  RequestInv(r)' /\ Only(r)
<1>1. Only(r)
  BY Zenon DEF Only, DomainInv
<1>2. /\ pc'[r] = l /\ input'[r] = input[r] /\ ctx'[r] = ctx[r]
      /\ cells'[r] = cells[r] /\ seen'[r] = seen[r] /\ trail'[r] = trail[r]
  BY Zenon DEF DomainInv
<1>3. cfg' = cfg
  BY Zenon DEF cfg
<1>4. cells[r].decision = "" /\ seen[r].upstream = {}
  BY Zenon DEF RequestInv, CallInv, Unasked
<1>5. ShapeInv(r)'
  BY <1>2, Zenon DEF RequestInv, ShapeInv
<1>6. KeyInv(r)'
  <2>1. /\ pc'[r] \in Keyed => pc[r] \in Keyed
        /\ pc'[r] \in Unasked \ Keyed => pc[r] \in Unasked \ Keyed
    BY <1>2, Zenon DEF Keyed, Unasked, Probing
  <2> QED BY <1>2, <1>3, <2>1, KeyStays, Zenon DEF RequestInv
<1>7. BodyInv(r)' /\ CallInv(r)'
  BY <1>2, <1>4, Zenon DEF RequestInv, BodyInv, CallInv, Unasked, Probing
<1>8. StatusInv(r)'
  BY <1>2, Zenon DEF RequestInv, StatusInv
<1>9. AskedInv(r)' /\ TrailInv(r)'
  BY <1>2, <1>4, NoEntryYet, Zenon DEF RequestInv, AskedInv, Probing
<1> QED BY <1>1, <1>5, <1>6, <1>7, <1>8, <1>9, Zenon DEF RequestInv

\* An answer that ends the request at once: no slot in the audit log, and the
\* readiness probe's.
LEMMA AnswerStep ==
  ASSUME NEW r \in Requests, NEW code, DomainInv, RequestInv(r), chosen' = chosen,
         pc[r] \in {"audit"} \cup Probing,
         Answer(r, code, "done"), UNCHANGED <<input, ctx, outer, trail>>
  PROVE  RequestInv(r)' /\ Only(r)
<1>1. /\ pc' = [pc EXCEPT ![r] = "done"]
      /\ cells' = [cells EXCEPT ![r].status = code]
      /\ seen' = [seen EXCEPT ![r].client = code]
  BY Zenon DEF Answer
<1>2. Only(r)
  BY <1>1, Zenon DEF Only, DomainInv
<1>3. /\ pc'[r] = "done" /\ input'[r] = input[r] /\ ctx'[r] = ctx[r] /\ trail'[r] = trail[r]
      /\ cells'[r] = [cells[r] EXCEPT !.status = code]
      /\ seen'[r] = [seen[r] EXCEPT !.client = code]
  BY <1>1, Zenon DEF DomainInv
<1>4. /\ DOMAIN cells'[r] = DOMAIN cells[r] /\ cells'[r].status = code
      /\ cells'[r].bytes = cells[r].bytes /\ cells'[r].decision = cells[r].decision
      /\ DOMAIN seen'[r] = DOMAIN seen[r] /\ seen'[r].client = code
      /\ seen'[r].key = seen[r].key /\ seen'[r].plugins = seen[r].plugins
      /\ seen'[r].upstream = seen[r].upstream
  BY <1>3, Zenon DEF RequestInv, ShapeInv
<1>5. cells[r].decision = "" /\ seen[r].upstream = {} /\ seen[r].key = {}
  BY Zenon DEF RequestInv, CallInv, KeyInv, Unasked, Keyed, Probing
<1>6. ShapeInv(r)'
  BY <1>3, <1>4, ShapeStays, StageNames, Zenon DEF RequestInv
<1>7. KeyInv(r)'
  BY <1>3, <1>4, <1>5, Zenon DEF KeyInv, Keyed
<1>8. BodyInv(r)' /\ CallInv(r)' /\ StatusInv(r)'
  BY <1>3, <1>4, <1>5, Zenon DEF BodyInv, CallInv, StatusInv, Unasked, Probing
<1>9. AskedInv(r)' /\ TrailInv(r)'
  BY <1>3, <1>4, <1>5, NoEntryYet, Zenon DEF RequestInv, AskedInv, Probing
<1> QED BY <1>2, <1>6, <1>7, <1>8, <1>9, Zenon DEF RequestInv

\* The audit middleware, on the way down.
LEMMA AuditStep ==
  ASSUME NEW r \in Requests, DomainInv, RequestInv(r), chosen' = chosen, Audit(r)
  PROVE  RequestInv(r)' /\ Only(r)
<1>1. CASE Pass(r) /\ outer' = [outer EXCEPT ![r] = ctx[r]] /\ UNCHANGED <<input, ctx, cells, seen, trail>>
  <2>1. pc[r] = "audit"
    BY Zenon DEF Audit
  <2>2. pc' = [pc EXCEPT ![r] = "authn"]
    BY <1>1, <2>1, PassNext, Zenon
  <2>3. "authn" \in Stages
    BY StageNames, Zenon
  <2> QED BY <1>1, <2>1, <2>2, <2>3, PassStep, Zenon
<1>2. CASE Answer(r, 503, "done") /\ UNCHANGED <<input, ctx, outer, trail>>
  BY <1>2, AnswerStep DEF Audit
<1> QED BY <1>1, <1>2 DEF Audit

\* The readiness probe.
LEMMA ReadyStep ==
  ASSUME NEW r \in Requests, DomainInv, RequestInv(r), chosen' = chosen, Ready(r)
  PROVE  RequestInv(r)' /\ Only(r)
<1>1. pc[r] \in Probing /\ UNCHANGED <<input, ctx, outer, trail>>
  BY Zenon DEF Ready
<1>2. CASE Answer(r, 503, "done")
  BY <1>1, <1>2, AnswerStep
<1>3. CASE Answer(r, 200, "done")
  BY <1>1, <1>3, AnswerStep, Zenon
<1>4. ASSUME NEW l \in {"readyPlugins", "readyBackend"}, pc' = [pc EXCEPT ![r] = l],
             UNCHANGED <<cells, seen>>
      PROVE  RequestInv(r)' /\ Only(r)
  <2>1. l \in Stages
    BY Zenon DEF Stages, Probing
  <2> QED BY <1>1, <1>4, <2>1, PassStep, Zenon
<1> QED BY <1>2, <1>3, <1>4, Zenon DEF Ready

\* The rate limiter.
LEMMA RateLimitStep ==
  ASSUME NEW r \in Requests, DomainInv, RequestInv(r), chosen' = chosen, RateLimit(r)
  PROVE  RequestInv(r)' /\ Only(r)
<1>1. CASE Pass(r) /\ UNCHANGED <<input, ctx, outer, cells, seen, trail>>
  <2>1. pc[r] = "ratelimit"
    BY Zenon DEF RateLimit
  <2>2. pc' = [pc EXCEPT ![r] = "body"]
    BY <1>1, <2>1, PassNext, Zenon
  <2>3. "body" \in Stages
    BY StageNames, Zenon
  <2> QED BY <1>1, <2>1, <2>2, <2>3, PassStep, Zenon
<1>2. CASE Refuse(r, 429)
  BY <1>2, RefuseStep, Zenon DEF RateLimit
<1> QED BY <1>1, <1>2, Zenon DEF RateLimit

\* hmac.Middleware.
LEMMA AuthnStep ==
  ASSUME NEW r \in Requests, DomainInv, RequestInv(r), chosen' = chosen, Authn(r)
  PROVE  RequestInv(r)' /\ Only(r)
<1>1. pc[r] = "authn"
  BY Zenon DEF Authn
<1>2. ASSUME NEW code, Refuse(r, code)
      PROVE  RequestInv(r)' /\ Only(r)
  BY <1>1, <1>2, RefuseStep, Zenon
<1>3. ASSUME NEW rec \in Records, rec.check = "ok", Listed(r, rec), Authenticate(r, rec)
      PROVE  RequestInv(r)' /\ Only(r)
  <2>1. Pass(r)
    BY <1>3, Zenon DEF Authenticate
  <2>2. pc' = [pc EXCEPT ![r] = "ratelimit"]
    BY <1>1, <2>1, PassNext, Zenon
  <2>3. /\ ctx' = [ctx EXCEPT ![r].principal = rec.principal, ![r].keyID = rec.id, ![r].roles = rec.roles]
        /\ seen' = [seen EXCEPT ![r].key = {rec}]
        /\ UNCHANGED <<input, outer, cells, trail>>
    BY <1>3, Zenon DEF Authenticate
  <2>4. Only(r)
    BY <2>2, <2>3, Zenon DEF Only, DomainInv
  <2>5. /\ pc'[r] = "ratelimit" /\ input'[r] = input[r] /\ trail'[r] = trail[r] /\ cells'[r] = cells[r]
        /\ seen'[r] = [seen[r] EXCEPT !.key = {rec}]
    BY <2>2, <2>3, Zenon DEF DomainInv
  <2>6. /\ DOMAIN ctx'[r] = DOMAIN ctx[r] /\ ctx'[r].principal = rec.principal
        /\ ctx'[r].roles = rec.roles /\ ctx'[r].body = ctx[r].body
    <3>1. DOMAIN ctx[r] = {"principal", "keyID", "roles", "body"} /\ DOMAIN ctx = Requests
      BY Zenon DEF RequestInv, ShapeInv, DomainInv
    <3> QED BY <2>3, <3>1, Zenon
  <2>7. /\ DOMAIN seen'[r] = DOMAIN seen[r] /\ seen'[r].client = seen[r].client
        /\ seen'[r].key = {rec} /\ seen'[r].plugins = seen[r].plugins
        /\ seen'[r].upstream = seen[r].upstream
    BY <2>5, Zenon DEF RequestInv, ShapeInv
  <2>8. cfg' = cfg
    BY Zenon DEF cfg
  <2>9. cells[r].decision = "" /\ seen[r].upstream = {}
    BY <1>1, Zenon DEF RequestInv, CallInv, Unasked
  <2>10. ShapeInv(r)'
    BY <2>5, <2>6, <2>7, ShapeStays, StageNames, Zenon DEF RequestInv
  <2>11. KeyInv(r)'
    <3>1. Listed(r, rec)'
      BY <1>3, <2>5, <2>8, Zenon DEF Listed, SourceIP
    <3> QED BY <1>3, <2>5, <2>6, <2>7, <3>1, Zenon DEF KeyInv, Keyed
  <2>12. BodyInv(r)' /\ CallInv(r)'
    BY <1>1, <2>5, <2>6, <2>7, <2>9, Zenon DEF RequestInv, BodyInv, CallInv, Unasked, Probing
  <2>13. StatusInv(r)'
    BY <2>5, <2>7, StatusStays, Zenon DEF RequestInv
  <2>14. AskedInv(r)' /\ TrailInv(r)'
    BY <1>1, <2>5, <2>7, <2>9, NoEntryYet, Zenon DEF RequestInv, AskedInv
  <2> QED BY <2>4, <2>10, <2>11, <2>12, <2>13, <2>14, Zenon DEF RequestInv
<1> QED BY <1>2, <1>3, ZenonT(30) DEF Authn

\* An absent body has no content.
LEMMA AbsentBody ==
  ASSUME NEW in \in Inputs, in.body.sent = "none"
  PROVE  in.body.json = FALSE /\ in.body.leaves = <<>>
<1>1. in.body.json \in BOOLEAN /\ ~in.body.json /\ in.body.leaves = <<>>
  BY GatewayAssumption, Zenon
<1> QED BY <1>1, Zenon

\* BodyBuffer.
LEMMA BodyStep ==
  ASSUME NEW r \in Requests, DomainInv, RequestInv(r), chosen' = chosen, BodyBuffer(r)
  PROVE  RequestInv(r)' /\ Only(r)
<1>1. pc[r] = "body"
  BY Zenon DEF BodyBuffer
<1>2. ASSUME NEW code, Refuse(r, code)
      PROVE  RequestInv(r)' /\ Only(r)
  BY <1>1, <1>2, RefuseStep, Zenon
<1>3. cfg' = cfg
  BY Zenon DEF cfg
<1>4. cells[r].decision = "" /\ seen[r].upstream = {}
  BY <1>1, Zenon DEF RequestInv, CallInv, Unasked
<1>5. ASSUME Pass(r), UNCHANGED <<input, outer, seen, trail>>,
             DOMAIN ctx' = Requests, DOMAIN cells' = Requests,
             \A q \in Requests \ {r} : ctx'[q] = ctx[q] /\ cells'[q] = cells[q],
             DOMAIN ctx'[r] = DOMAIN ctx[r], DOMAIN cells'[r] = DOMAIN cells[r],
             ctx'[r].principal = ctx[r].principal, ctx'[r].roles = ctx[r].roles,
             cells'[r].status = cells[r].status, cells'[r].decision = cells[r].decision,
             ctx'[r].body = Content(input[r].body),
             cfg.AuditLogBody => cells'[r].bytes = Content(input[r].body)
      PROVE  RequestInv(r)' /\ Only(r)
  <2>1. pc' = [pc EXCEPT ![r] = "authz"]
    BY <1>1, <1>5, PassNext, Zenon
  <2>2. Only(r)
    BY <1>5, <2>1, Zenon DEF Only, DomainInv
  <2>3. pc'[r] = "authz" /\ input'[r] = input[r] /\ seen'[r] = seen[r] /\ trail'[r] = trail[r]
    BY <1>5, <2>1, Zenon DEF DomainInv
  <2>4. ShapeInv(r)'
    BY <1>5, <2>3, ShapeStays, StageNames, Zenon DEF RequestInv
  <2>5. KeyInv(r)'
    <3>1. pc[r] \in Keyed /\ pc'[r] \in Keyed
      BY <1>1, <2>3, Zenon DEF Keyed
    <3> QED BY <1>3, <1>5, <2>3, <3>1, KeyStays, Zenon DEF RequestInv
  <2>6. BodyInv(r)'
    BY <1>3, <1>5, <2>3, Zenon DEF BodyInv, Content
  <2>7. CallInv(r)'
    BY <1>4, <1>5, <2>3, Zenon DEF CallInv
  <2>8. StatusInv(r)'
    BY <1>5, <2>3, StatusStays, Zenon DEF RequestInv
  <2>9. AskedInv(r)' /\ TrailInv(r)'
    BY <1>1, <1>4, <1>5, <2>3, NoEntryYet, Zenon DEF RequestInv, AskedInv
  <2> QED BY <2>2, <2>4, <2>5, <2>6, <2>7, <2>8, <2>9, Zenon DEF RequestInv
<1>6. CASE input[r].body.sent = "none" /\ Pass(r) /\ UNCHANGED <<input, ctx, outer, cells, seen, trail>>
  <2>1. Content(input[r].body) = EmptyBody
    <3>1. input[r] \in Inputs \cup {NoInput}
      BY Zenon DEF RequestInv, ShapeInv
    <3>2. CASE input[r] \in Inputs
      BY <1>6, <3>2, AbsentBody, Zenon DEF Content, EmptyBody
    <3>3. CASE input[r] = NoInput
      <4>1. NoInput.body.json = FALSE /\ NoInput.body.leaves = <<>>
        BY Zenon DEF NoInput
      <4> QED BY <3>3, <4>1, Zenon DEF Content, EmptyBody
    <3> QED BY <3>1, <3>2, <3>3, Zenon
  <2>2. ctx[r].body = EmptyBody /\ cells[r].bytes = EmptyBody
    BY <1>1, Zenon DEF RequestInv, BodyInv, Unasked
  <2> QED BY <1>5, <1>6, <2>1, <2>2, Zenon DEF DomainInv
<1>7. CASE /\ ctx' = [ctx EXCEPT ![r].body = Content(input[r].body)]
           /\ cells' = [cells EXCEPT ![r].bytes = IF cfg.AuditLogBody THEN Content(input[r].body) ELSE @]
           /\ Pass(r)
           /\ UNCHANGED <<input, outer, seen, trail>>
  <2>1. ctx'[r] = [ctx[r] EXCEPT !.body = Content(input[r].body)]
    BY <1>7, Zenon DEF DomainInv
  <2>2. /\ DOMAIN ctx'[r] = DOMAIN ctx[r] /\ ctx'[r].body = Content(input[r].body)
        /\ ctx'[r].principal = ctx[r].principal /\ ctx'[r].roles = ctx[r].roles
    BY <2>1, Zenon DEF RequestInv, ShapeInv
  <2>3. cells'[r] = [cells[r] EXCEPT !.bytes = IF cfg.AuditLogBody THEN Content(input[r].body) ELSE cells[r].bytes]
    BY <1>7, Zenon DEF DomainInv
  <2>4. /\ DOMAIN cells'[r] = DOMAIN cells[r]
        /\ cells'[r].bytes = IF cfg.AuditLogBody THEN Content(input[r].body) ELSE cells[r].bytes
        /\ cells'[r].status = cells[r].status /\ cells'[r].decision = cells[r].decision
    BY <2>3, Zenon DEF RequestInv, ShapeInv
  <2>5. /\ DOMAIN ctx' = Requests /\ DOMAIN cells' = Requests
        /\ \A q \in Requests \ {r} : ctx'[q] = ctx[q] /\ cells'[q] = cells[q]
    BY <1>7, Zenon DEF DomainInv
  <2> QED BY <1>5, <1>7, <2>2, <2>4, <2>5, Zenon
<1> QED BY <1>2, <1>6, <1>7, ZenonT(30) DEF BodyBuffer

\* authz.Middleware.
LEMMA AuthzStep ==
  ASSUME NEW r \in Requests, DomainInv, RequestInv(r), chosen' = chosen, Authz(r)
  PROVE  RequestInv(r)' /\ Only(r)
<1>1. pc[r] = "authz" /\ UNCHANGED <<input, ctx, outer, trail>>
  BY Zenon DEF Authz
<1>2. /\ input'[r] = input[r] /\ ctx'[r] = ctx[r] /\ trail'[r] = trail[r] /\ cfg' = cfg
      /\ pbReq(r)' = pbReq(r)
  BY <1>1, Zenon DEF cfg, pbReq
<1>3. /\ DOMAIN cells[r] = {"status", "bytes", "decision"} /\ DOMAIN cells = Requests
      /\ DOMAIN seen[r] = {"client", "key", "plugins", "upstream"} /\ DOMAIN seen = Requests
  BY Zenon DEF RequestInv, ShapeInv, DomainInv
<1>4. seen[r].upstream = {} /\ seen[r].key # {}
  BY <1>1, Zenon DEF RequestInv, CallInv, KeyInv, Unasked, Keyed
<1>5. ASSUME NEW l \in {"backend", "unwind"}, pc'[r] = l, Only(r),
             DOMAIN cells'[r] = DOMAIN cells[r], DOMAIN seen'[r] = DOMAIN seen[r],
             cells'[r].bytes = cells[r].bytes,
             seen'[r].key = seen[r].key, seen'[r].upstream = {},
             \/ l = "backend" /\ cells'[r].decision = "allow" /\ ctx[r].roles # {}
                /\ seen'[r].plugins = {pbReq(r)}
                /\ cells'[r].status = cells[r].status /\ seen'[r].client = seen[r].client
             \/ l = "unwind" /\ cells'[r].decision = "deny"
                /\ cells'[r].status = 403 /\ seen'[r].client = 403
      PROVE  RequestInv(r)'
  <2>1. ShapeInv(r)'
    <3>1. l \in Stages
      BY StageNames, Zenon
    <3>2. pc'[r] = l /\ DOMAIN cells'[r] = DOMAIN cells[r] /\ DOMAIN seen'[r] = DOMAIN seen[r]
      BY <1>5, Zenon
    <3> QED BY <1>2, <3>1, <3>2, ShapeStays, Zenon DEF RequestInv
  <2>0. pc[r] \in Keyed /\ l \notin Unasked
    BY <1>1, Zenon DEF Keyed, Unasked, Probing
  <2>2. KeyInv(r)'
    BY <1>2, <1>5, <2>0, KeyStays, Zenon DEF RequestInv
  <2>3. BodyInv(r)'
    <3>1. BodyInv(r)
      BY Zenon DEF RequestInv
    <3> QED BY <1>1, <1>2, <1>5, <2>0, <3>1, Zenon DEF BodyInv
  <2>4. CallInv(r)'
    BY <1>5, <2>0, Zenon DEF CallInv
  <2>5. StatusInv(r)'
    <3>1. StatusInv(r)
      BY Zenon DEF RequestInv
    <3>2. CASE l = "backend"
      BY <1>5, <3>1, <3>2, ZenonT(30) DEF StatusInv
    <3>3. CASE l = "unwind"
      BY <1>5, <3>3, Zenon DEF StatusInv
    <3> QED BY <3>2, <3>3, Zenon
  <2>6. AskedInv(r)' /\ TrailInv(r)'
    <3>1. TrailInv(r)'
      BY <1>1, <1>2, NoEntryYet, Zenon DEF RequestInv
    <3>2. AskedInv(r)'
      BY <1>2, <1>4, <1>5, Zenon DEF AskedInv
    <3> QED BY <3>1, <3>2, Zenon
  <2> QED BY <2>1, <2>2, <2>3, <2>4, <2>5, <2>6, Zenon DEF RequestInv
<1>6. CASE /\ ctx[r].roles # {}
           /\ cells' = [cells EXCEPT ![r].decision = "allow"]
           /\ seen' = [seen EXCEPT ![r].plugins = {pbReq(r)}]
           /\ Pass(r)
  <2>1. pc' = [pc EXCEPT ![r] = "backend"]
    BY <1>1, <1>6, PassNext, Zenon
  <2>2. Only(r)
    BY <1>1, <1>6, <2>1, Zenon DEF Only, DomainInv
  <2>3. /\ pc'[r] = "backend"
        /\ cells'[r] = [cells[r] EXCEPT !.decision = "allow"]
        /\ seen'[r] = [seen[r] EXCEPT !.plugins = {pbReq(r)}]
    BY <1>6, <2>1, Zenon DEF DomainInv
  <2>4. /\ DOMAIN cells'[r] = DOMAIN cells[r] /\ cells'[r].status = cells[r].status
        /\ cells'[r].bytes = cells[r].bytes /\ cells'[r].decision = "allow"
        /\ DOMAIN seen'[r] = DOMAIN seen[r] /\ seen'[r].client = seen[r].client
        /\ seen'[r].key = seen[r].key /\ seen'[r].plugins = {pbReq(r)}
        /\ seen'[r].upstream = seen[r].upstream
    BY <1>3, <2>3, Zenon
  <2> QED BY <1>4, <1>5, <1>6, <2>2, <2>3, <2>4, Zenon
<1>7. CASE /\ cells' = [cells EXCEPT ![r].decision = "deny", ![r].status = 403]
           /\ seen' = [seen EXCEPT ![r].plugins = IF ctx[r].roles = {} THEN {} ELSE {pbReq(r)},
                                   ![r].client = 403]
           /\ pc' = [pc EXCEPT ![r] = "unwind"]
  <2>1. Only(r)
    BY <1>1, <1>7, Zenon DEF Only, DomainInv
  <2>2. pc'[r] = "unwind"
    BY <1>7, Zenon DEF DomainInv
  <2>3. /\ DOMAIN cells'[r] = DOMAIN cells[r] /\ cells'[r].status = 403
        /\ cells'[r].bytes = cells[r].bytes /\ cells'[r].decision = "deny"
    BY <1>3, <1>7
  <2>4. /\ DOMAIN seen'[r] = DOMAIN seen[r] /\ seen'[r].client = 403
        /\ seen'[r].key = seen[r].key /\ seen'[r].upstream = seen[r].upstream
    BY <1>3, <1>7
  <2> QED BY <1>4, <1>5, <2>1, <2>2, <2>3, <2>4
<1> QED BY <1>6, <1>7, Zenon DEF Authz

\* The reverse proxy.
LEMMA BackendStep ==
  ASSUME NEW r \in Requests, DomainInv, RequestInv(r), chosen' = chosen, Backend(r)
  PROVE  RequestInv(r)' /\ Only(r)
<1>1. pc[r] = "backend" /\ UNCHANGED <<input, ctx, outer, trail>>
  BY Zenon DEF Backend
<1> DEFINE sent == [headers |-> Rewrite, body |-> ctx[r].body]
<1>2. PICK code \in UpstreamCodes \cup {502, 0}, loc \in {"unwind", "panic"} :
        /\ cells' = [cells EXCEPT ![r].status = IF code = 0 THEN @ ELSE code]
        /\ seen' = [seen EXCEPT ![r].client = code, ![r].upstream = {sent}]
        /\ pc' = [pc EXCEPT ![r] = loc]
  BY Zenon DEF Backend
<1>3. /\ input'[r] = input[r] /\ ctx'[r] = ctx[r] /\ trail'[r] = trail[r] /\ cfg' = cfg
      /\ pbReq(r)' = pbReq(r) /\ sent' = sent
  BY <1>1, Zenon DEF cfg, pbReq
<1>4. /\ DOMAIN cells[r] = {"status", "bytes", "decision"} /\ DOMAIN cells = Requests
      /\ DOMAIN seen[r] = {"client", "key", "plugins", "upstream"} /\ DOMAIN seen = Requests
  BY Zenon DEF RequestInv, ShapeInv, DomainInv
<1>5. Only(r)
  BY <1>1, <1>2, Zenon DEF Only, DomainInv
<1>6. pc'[r] = loc
  BY <1>2, Zenon DEF DomainInv
<1>7. cells'[r] = [cells[r] EXCEPT !.status = IF code = 0 THEN cells[r].status ELSE code]
  BY <1>2, <1>4, Zenon
<1>8. /\ DOMAIN cells'[r] = DOMAIN cells[r] /\ cells'[r].status = IF code = 0 THEN cells[r].status ELSE code
      /\ cells'[r].bytes = cells[r].bytes /\ cells'[r].decision = cells[r].decision
  BY <1>4, <1>7, ZenonT(30)
<1> HIDE DEF sent
<1>9. /\ DOMAIN seen'[r] = DOMAIN seen[r] /\ seen'[r].client = code
      /\ seen'[r].key = seen[r].key /\ seen'[r].plugins = seen[r].plugins
      /\ seen'[r].upstream = {sent}
  BY <1>2, <1>4, Zenon
<1>10. cells[r].decision = "allow"
  BY <1>1, Zenon DEF RequestInv, CallInv
<1>11. ShapeInv(r)'
  BY <1>3, <1>6, <1>8, <1>9, ShapeStays, StageNames, ZenonT(30) DEF RequestInv
<1>0. loc \notin Unasked /\ loc \notin Keyed
  BY Zenon DEF Keyed, Unasked, Probing
<1>12. KeyInv(r)'
  BY <1>0, <1>3, <1>6, <1>9, KeyStays, Zenon DEF RequestInv
<1>13. BodyInv(r)'
  <2>1. BodyInv(r)
    BY Zenon DEF RequestInv
  <2> QED BY <1>0, <1>1, <1>3, <1>6, <1>8, <2>1, Zenon DEF BodyInv
<1>14. CallInv(r)'
  BY <1>0, <1>6, <1>8, <1>9, <1>10, Zenon DEF CallInv
<1>15. StatusInv(r)'
  BY <1>8, <1>9, <1>10, ZenonT(30) DEF StatusInv
<1>16. AskedInv(r)' /\ TrailInv(r)'
  <2>1. TrailInv(r)'
    BY <1>1, <1>3, NoEntryYet, Zenon DEF RequestInv
  <2>2. AskedInv(r)'
    <3>1. AskedInv(r)
      BY Zenon DEF RequestInv
    <3> QED BY <1>3, <1>8, <1>9, <1>10, <3>1, ZenonT(30) DEF AskedInv, sent
  <2> QED BY <2>1, <2>2, Zenon
<1> QED BY <1>5, <1>11, <1>12, <1>13, <1>14, <1>15, <1>16 DEF RequestInv

\* The audit middleware, on the way up.
LEMMA UnwindStep ==
  ASSUME NEW r \in Requests, DomainInv, RequestInv(r), chosen' = chosen, Unwind(r)
  PROVE  RequestInv(r)' /\ Only(r)
<1>1. /\ pc[r] \in {"unwind", "panic"} /\ pc' = [pc EXCEPT ![r] = "done"]
      /\ UNCHANGED <<input, ctx, outer, cells, seen>>
      /\ trail' = [trail EXCEPT ![r] = trail[r] \cup {buildEntry(r)}] \/ trail' = trail
  BY Zenon DEF Unwind
<1>2. Only(r)
  BY <1>1, Zenon DEF Only, DomainInv
<1>3. cfg' = cfg
  BY Zenon DEF cfg
<1>4. /\ pc'[r] = "done" /\ input'[r] = input[r] /\ ctx'[r] = ctx[r] /\ outer'[r] = outer[r]
      /\ cells'[r] = cells[r] /\ seen'[r] = seen[r]
      /\ trail'[r] = trail[r] \cup {buildEntry(r)} \/ trail'[r] = trail[r]
  BY <1>1, Zenon DEF DomainInv
<1>5. ShapeInv(r)'
  BY <1>4, ShapeStays, StageNames, Zenon DEF RequestInv
<1>0. pc'[r] \notin Unasked /\ pc'[r] \notin Keyed
  BY <1>4, Zenon DEF Keyed, Unasked, Probing
<1>6. KeyInv(r)'
  BY <1>0, <1>3, <1>4, KeyStays, Zenon DEF RequestInv
<1>7. BodyInv(r)'
  BY <1>0, <1>1, <1>3, <1>4, Zenon DEF RequestInv, BodyInv
<1>8. CallInv(r)'
  BY <1>0, <1>1, <1>4, Zenon DEF RequestInv, CallInv
<1>9. StatusInv(r)'
  BY <1>4, StatusStays, Zenon DEF RequestInv
<1>10. buildEntry(r)' = buildEntry(r) /\ pbReq(r)' = pbReq(r)
  <2>1. SourceIP(r)' = SourceIP(r)
    BY <1>3, <1>4, Zenon DEF SourceIP
  <2>2. buildEntry(r)' = buildEntry(r)
    BY <1>3, <1>4, <2>1, Zenon DEF buildEntry
  <2> QED BY <1>4, <2>2, Zenon DEF pbReq
<1>11. AskedInv(r)'
  BY <1>4, <1>10, Zenon DEF RequestInv, AskedInv
<1>12. TrailInv(r)'
  BY <1>4, <1>10, Zenon DEF RequestInv, TrailInv
<1> QED BY <1>2, <1>5, <1>6, <1>7, <1>8, <1>9, <1>11, <1>12, Zenon DEF RequestInv

-----------------------------------------------------------------------------
(* The chain's invariant holds whatever the process around it does.        *)

\* No request has arrived.
LEMMA GatewayInit == Init => GatewayInv
<1> SUFFICES ASSUME Init PROVE GatewayInv
  BY Zenon
<1>1. chosen \in DOMAIN Configs /\ DomainInv
  BY Zenon DEF Init, DomainInv
<1>2. ASSUME NEW q \in Requests PROVE RequestInv(q)
  <2>1. /\ pc[q] = "new" /\ input[q] = NoInput /\ ctx[q] = NoContext
        /\ cells[q] = NewCells /\ seen[q] = Unseen /\ trail[q] = {}
    BY Zenon DEF Init
  <2>2. /\ seen[q].client = 0 /\ seen[q].key = {} /\ seen[q].upstream = {}
        /\ cells[q].decision = "" /\ cells[q].bytes = EmptyBody /\ ctx[q].body = EmptyBody
    <3>1. Unseen.client = 0 /\ Unseen.key = {} /\ Unseen.upstream = {}
      BY Zenon DEF Unseen
    <3>2. NewCells.decision = "" /\ NewCells.bytes = EmptyBody /\ NoContext.body = EmptyBody
      BY Zenon DEF NewCells, NoContext
    <3> QED BY <2>1, <3>1, <3>2, Zenon
  <2>3. ShapeInv(q)
    BY <2>1, Zenon DEF ShapeInv, Stages, NoContext, NewCells, Unseen
  <2>4. KeyInv(q) /\ AskedInv(q) /\ TrailInv(q)
    BY <2>1, <2>2, Zenon DEF KeyInv, AskedInv, TrailInv, Keyed
  <2>5. BodyInv(q) /\ CallInv(q) /\ StatusInv(q)
    BY <2>1, <2>2, Zenon DEF BodyInv, CallInv, StatusInv
  <2> QED BY <2>3, <2>4, <2>5, Zenon DEF RequestInv
<1> QED BY <1>1, <1>2, Zenon DEF GatewayInv

\* A step of a request's goroutine.
LEMMA RequestMoves ==
  ASSUME GatewayInv, chosen' = chosen,
         NEW r \in Requests, Arrive(r) \/ ArriveProbe(r) \/ RequestStep(r)
  PROVE  RequestInv(r)' /\ Only(r)
<1>1. DomainInv /\ RequestInv(r)
  BY Zenon DEF GatewayInv
<1> QED
  BY <1>1, ArriveStep, AuditStep, AuthnStep, RateLimitStep, BodyStep, AuthzStep,
     BackendStep, UnwindStep, ReadyStep, Zenon DEF RequestStep

\* It leaves the others alone, as does one that no request takes part in.
LEMMA GatewayStep ==
  ASSUME GatewayInv, chosen' = chosen,
         \/ \E r \in Requests : Arrive(r) \/ ArriveProbe(r) \/ RequestStep(r)
         \/ UNCHANGED reqVars
  PROVE  GatewayInv'
<1>1. chosen' \in DOMAIN Configs
  BY Zenon DEF GatewayInv
<1>2. ASSUME NEW r \in Requests, Arrive(r) \/ ArriveProbe(r) \/ RequestStep(r)
      PROVE  GatewayInv'
  <2>1. RequestInv(r)' /\ Only(r)
    BY <1>2, RequestMoves, Zenon
  <2>2. ASSUME NEW q \in Requests \ {r} PROVE RequestInv(q)'
    <3>1. RequestInv(q)
      BY Zenon DEF GatewayInv
    <3> QED BY <2>1, <3>1, RequestStays, Zenon DEF Only
  <2>3. DomainInv'
    BY <2>1, Zenon DEF Only
  <2>4. \A q \in Requests : RequestInv(q)'
    BY <2>1, <2>2, Zenon
  <2> QED BY <1>1, <2>3, <2>4, Zenon DEF GatewayInv
<1>3. CASE UNCHANGED reqVars
  <2>1. DomainInv'
    BY <1>3, Zenon DEF GatewayInv, DomainInv, reqVars
  <2>2. ASSUME NEW q \in Requests PROVE RequestInv(q)'
    <3>1. RequestInv(q)
      BY Zenon DEF GatewayInv
    <3> QED BY <1>3, <3>1, RequestStays, Zenon DEF reqVars
  <2> QED BY <1>1, <2>1, <2>2, Zenon DEF GatewayInv
<1> QED BY <1>2, <1>3, Zenon

-----------------------------------------------------------------------------
(* Least and greatest elements.                                            *)

\* A set of naturals that is not empty has a least element.
LEMMA NatMin ==
  ASSUME NEW T \in SUBSET Nat, T # {}
  PROVE  Min(T) \in T /\ \A m \in T : Min(T) <= m
<1> DEFINE R == {ss \in Nat \X Nat : ss[1] < ss[2]}
<1>0. IsWellFoundedOn(R, Nat)
  BY NatLessThanWellFounded, Zenon DEF OpToRel
<1>1. \E x \in T : \A y \in T : ~(<<y, x>> \in R)
  <2> HIDE DEF R
  <2> QED BY <1>0, WFMin, Zenon
<1>2. \A x, y \in T : ~(<<y, x>> \in R) => x <= y
  OBVIOUS
<1> HIDE DEF R
<1>3. \E x \in T : \A y \in T : x <= y
  BY <1>1, <1>2, Zenon
<1> QED BY <1>3, Zenon DEF Min

\* A bounded one has a greatest element.
LEMMA NatMax ==
  ASSUME NEW n \in Nat, NEW T \in SUBSET (0..n), T # {}
  PROVE  Max(T) \in T /\ \A m \in T : m <= Max(T)
<1> DEFINE U == {n - i : i \in T}
<1>1. U \in SUBSET Nat /\ U # {}
  <2>1. \A i \in T : i \in 0..n
    BY Zenon
  <2>2. \A i \in T : n - i \in Nat
    BY <2>1
  <2> QED BY <2>2, Zenon
<1>2. Min(U) \in U /\ \A u \in U : Min(U) <= u
  <2> HIDE DEF U
  <2> QED BY <1>1, NatMin, Zenon
<1>3. PICK i \in T : Min(U) = n - i
  BY <1>2, Zenon
<1>4. \A m \in T : n - i <= n - m
  BY <1>2, <1>3, Zenon
<1>5. \A m \in T : m <= i
  BY <1>4
<1>6. \E x \in T : \A m \in T : x >= m
  BY <1>5, Zenon
<1> QED BY <1>6, Zenon DEF Max

-----------------------------------------------------------------------------
(* The client address.                                                     *)

\* The walk over the first X-Forwarded-For line ends at an address that the
\* hops of this line vouch for.
LEMMA ResolvedVouched ==
  ASSUME NEW peer, NEW lines, Get(lines) \in Seq(STRING), NEW trusted
  PROVE  Vouched(ResolveIP(peer, lines, trusted), peer, <<Get(lines)>>, trusted)
<1> DEFINE hops == Get(lines)
           stops == {i \in DOMAIN hops : hops[i] = NoIP \/ hops[i] \notin trusted}
<1> HIDE DEF hops
<1>0. hops \in Seq(STRING)
  BY Zenon DEF hops
<1>1. CASE ResolveIP(peer, lines, trusted) = peer
  BY <1>1, Zenon DEF Vouched
<1>2. CASE ResolveIP(peer, lines, trusted) # peer
  <2>1. /\ peer \in trusted /\ Scan(hops, trusted) # NoIP
        /\ ResolveIP(peer, lines, trusted) = Scan(hops, trusted)
    BY <1>2, Zenon DEF ResolveIP, hops
  <2>2. stops # {} /\ Scan(hops, trusted) = hops[Max(stops)]
    BY <2>1, Zenon DEF Scan
  <2>3. Len(hops) \in Nat /\ stops \in SUBSET (0..Len(hops)) /\ DOMAIN hops = 1..Len(hops)
    BY <1>0
  <2>4. Max(stops) \in stops /\ \A m \in stops : m <= Max(stops)
    <3> HIDE DEF stops
    <3> QED BY <2>2, <2>3, NatMax, Zenon
  <2>5. \A M \in stops : (\A m \in stops : m <= M) => \A j \in M+1..Len(hops) : hops[j] \in trusted
    <3> SUFFICES ASSUME NEW M \in stops, \A m \in stops : m <= M, NEW j \in M+1..Len(hops)
                 PROVE  hops[j] \in trusted
      BY Zenon
    <3>1. M \in 1..Len(hops) /\ j \in DOMAIN hops /\ ~(j <= M)
      BY <2>3
    <3> QED BY <3>1, Zenon
  <2>6. Max(stops) \in DOMAIN hops
    BY <2>4, Zenon
  <2> HIDE DEF stops
  <2>7. \A j \in Max(stops)+1..Len(hops) : hops[j] \in trusted
    BY <2>4, <2>5, Zenon
  <2> DEFINE ls == <<hops>>
  <2>8. DOMAIN ls = {1} /\ ls[1] = hops /\ \A m \in 1+1..Len(ls) : FALSE
    OBVIOUS
  <2> HIDE DEF ls
  <2>9. Vouched(ResolveIP(peer, lines, trusted), peer, ls, trusted)
    BY <2>1, <2>2, <2>6, <2>7, <2>8, Zenon DEF Vouched
  <2> QED BY <2>9, Zenon DEF ls, hops
<1> QED BY <1>1, <1>2, Zenon
-----------------------------------------------------------------------------
(* The audited body.                                                       *)

\* Nth finds an element of the set.
LEMMA NthIn ==
  ASSUME NEW S \in SUBSET Nat, IsFiniteSet(S), NEW k \in 1..Cardinality(S)
  PROVE  Nth(S, k) \in S
<1> DEFINE below(i) == {j \in S : j <= i}
           f == [i \in S |-> Cardinality(below(i))]
<1>1. \A i \in S : /\ IsFiniteSet(below(i)) /\ Cardinality(below(i)) \in Nat
                   /\ Cardinality(below(i)) <= Cardinality(S)
  <2>1. \A i \in S : below(i) \subseteq S
    BY Zenon
  <2> HIDE DEF below
  <2> QED BY <2>1, FS_Subset, FS_CardinalityType, Zenon
<1>2. \A i \in S : Cardinality(below(i)) # 0
  <2>1. \A i \in S : below(i) # {}
    OBVIOUS
  <2> HIDE DEF below
  <2> QED BY <1>1, <2>1, FS_EmptySet, Zenon
<1>3. Cardinality(S) \in Nat
  BY FS_CardinalityType, Zenon
<1>4. f \in [S -> 1..Cardinality(S)]
  <2>1. \A i \in S : Cardinality(below(i)) \in 1..Cardinality(S)
    <3> HIDE DEF below
    <3> QED BY <1>1, <1>2, <1>3
  <2> HIDE DEF below
  <2> QED BY <2>1, Zenon
<1>5. ASSUME NEW i \in S, NEW j \in S, i < j PROVE f[i] # f[j]
  <2>1. below(i) \subseteq below(j) /\ below(i) # below(j)
    <3>1. i \in Nat /\ j \in Nat /\ \A m \in S : m \in Nat
      BY Zenon
    <3>2. below(i) \subseteq below(j)
      <4>1. \A m \in S : m <= i => m <= j
        BY <1>5, <3>1
      <4> QED BY <4>1, Zenon
    <3>3. j \in below(j) /\ j \notin below(i)
      BY <1>5, <3>1
    <3> HIDE DEF below
    <3> QED BY <3>2, <3>3, Zenon
  <2>2. Cardinality(below(i)) # Cardinality(below(j))
    <3> HIDE DEF below
    <3> QED BY <1>1, <2>1, FS_Subset, Zenon
  <2> HIDE DEF below
  <2> QED BY <2>2, Zenon
<1>6. f \in Injection(S, 1..Cardinality(S))
  <2>1. \A i, j \in S : i = j \/ i < j \/ j < i
    OBVIOUS
  <2> HIDE DEF f
  <2>2. \A i, j \in S : f[i] = f[j] => i = j
    BY <1>5, <2>1, Zenon
  <2>3. DOMAIN f = S
    BY <1>4, Zenon
  <2> QED BY <1>4, <2>2, <2>3, Zenon DEF Injection, IsInjective
<1>7. IsFiniteSet(1..Cardinality(S)) /\ Cardinality(1..Cardinality(S)) = Cardinality(S)
  BY <1>3, FS_Interval
<1>8. f \in Surjection(S, 1..Cardinality(S))
  <2> HIDE DEF f
  <2> QED BY <1>6, <1>7, FS_Injection, Zenon
<1>9. \E i \in S : f[i] = k
  <2> HIDE DEF f
  <2> QED BY <1>8, Zenon DEF Surjection
<1>10. \E i \in S : Cardinality({j \in S : j <= i}) = k
  BY <1>9, Zenon
<1> QED BY <1>10, Zenon DEF Nth

\* Every leaf that redaction leaves behind is a leaf it was given, redacted.
LEMMA RedactedLeaves ==
  ASSUME NEW leaves \in Seq(Leaves), NEW redact
  PROVE  /\ redactValue(leaves, redact) \in Seq({redactLeaf(leaves[i], redact) : i \in DOMAIN leaves})
         /\ leaves # <<>> => redactValue(leaves, redact) # <<>>
<1> DEFINE marked == [i \in DOMAIN leaves |-> redactLeaf(leaves[i], redact)]
           first == {i \in DOMAIN leaves : \A j \in 1..i-1 : marked[j] # marked[i]}
           M == {marked[i] : i \in DOMAIN leaves}
           n == Cardinality(first)
<1>1. M = {redactLeaf(leaves[i], redact) : i \in DOMAIN leaves}
  BY Zenon
<1>2. first \in SUBSET Nat /\ first \subseteq 1..Len(leaves) /\ first \subseteq DOMAIN leaves
  OBVIOUS
<1>3. leaves # <<>> => 1 \in first
  <2>1. leaves # <<>> => 1 \in DOMAIN leaves
    OBVIOUS
  <2>2. \A j \in 1..1-1 : FALSE
    OBVIOUS
  <2> HIDE DEF marked
  <2> QED BY <2>1, <2>2, Zenon
<1>4. redactValue(leaves, redact) = [k \in 1..n |-> marked[Nth(first, k)]]
  BY Zenon DEF redactValue
<1>a. \A i \in DOMAIN leaves : marked[i] \in M
  <2> HIDE DEF marked
  <2> QED BY Zenon
<1> HIDE DEF marked, first, M
<1>5. IsFiniteSet(first)
  <2>1. IsFiniteSet(1..Len(leaves))
    BY FS_Interval
  <2> QED BY <1>2, <2>1, FS_Subset, Zenon
<1>6. n \in Nat /\ (leaves # <<>> => n # 0)
  BY <1>3, <1>5, FS_CardinalityType, FS_EmptySet, Zenon
<1>7. \A k \in 1..n : marked[Nth(first, k)] \in M
  <2>1. \A k \in 1..n : Nth(first, k) \in first
    BY <1>2, <1>5, NthIn, Zenon
  <2> QED BY <1>2, <1>a, <2>1, Zenon
<1> HIDE DEF n
<1>8. redactValue(leaves, redact) \in Seq(M) /\ (leaves # <<>> => redactValue(leaves, redact) # <<>>)
  <2> DEFINE out == [k \in 1..n |-> marked[Nth(first, k)]]
  <2>1. out \in [1..n -> M]
    BY <1>7, Zenon
  <2>2. out \in Seq(M) /\ Len(out) = n
    <3> HIDE DEF out
    <3> QED BY <2>1, <1>6
  <2> HIDE DEF out
  <2>3. n # 0 => out # <<>>
    BY <2>2
  <2> QED BY <1>4, <1>6, <2>2, <2>3, Zenon DEF out
<1> QED BY <1>1, <1>8, Zenon

\* What sanitizeBody makes of a body is discreet, and is empty only for an
\* empty body: redaction and the encoding come before the cut, and the cut
\* leaves something.
LEMMA SanitizedDiscreet ==
  ASSUME NEW body \in [json : BOOLEAN, leaves : Seq(Leaves)], NEW max \in Int, NEW redact
  PROVE  /\ Discreet(sanitizeBody(body, max, redact), body, redact)
         /\ body.leaves # <<>> => sanitizeBody(body, max, redact).leaves # <<>>
<1> DEFINE encoded == Marshal(redactValue(body.leaves, redact))
           out == IF body.json /\ redact # {} /\ Decodes(body.leaves) THEN encoded ELSE body.leaves
           cut == max > 0 /\ Len(out) > max
           logged == IF cut THEN SubSeq(out, 1, max) ELSE out
           Harmless(l) == \A i \in DOMAIN l.path : ToLower(l.path[i]) \notin redact
           Kept(leaf, l) == /\ leaf.path = l.path
                            /\ leaf.val = (IF redact = {} THEN l.val ELSE l.again) /\ Harmless(l)
           Fine(leaf) == IF ~Decodes(body.leaves) THEN leaf \in Range(body.leaves)
                         ELSE leaf.val = Redacted \/ \E l \in Range(body.leaves) : Kept(leaf, l)
           Again(leaf) == [leaf EXCEPT !.val = leaf.again]
           M == {redactLeaf(body.leaves[i], redact) : i \in DOMAIN body.leaves}
           E == {Again(leaf) : leaf \in M}
<1>0. body.leaves \in Seq(Leaves)
  BY Zenon
<1>1. sanitizeBody(body, max, redact).leaves = logged
  BY Zenon DEF sanitizeBody
<1>2. ASSUME redact # {}, Decodes(body.leaves), NEW i \in DOMAIN body.leaves
      PROVE  Fine(Again(redactLeaf(body.leaves[i], redact)))
  <2> DEFINE l == body.leaves[i]
  <2>1. l \in Leaves /\ l \in Range(body.leaves)
    <3>1. l \in Leaves
      BY <1>0
    <3> QED BY <3>1, Zenon DEF Range
  <2> HIDE DEF l
  <2>2. CASE Sensitive(l, redact) = {}
    <3>1. redactLeaf(l, redact) = l /\ Harmless(l)
      BY <2>2, Zenon DEF redactLeaf, Sensitive
    <3>2. Again(l).path = l.path /\ Again(l).val = l.again
      BY <2>1, Zenon DEF Leaves
    <3>3. Kept(Again(l), l)
      BY <1>2, <3>1, <3>2, Zenon
    <3> HIDE DEF Kept, Again
    <3> QED BY <1>2, <2>1, <3>1, <3>3, Zenon DEF l
  <2>3. CASE Sensitive(l, redact) # {}
    <3>1. Again(redactLeaf(l, redact)).val = Redacted
      BY <2>3, Zenon DEF redactLeaf
    <3> HIDE DEF Kept, Again
    <3> QED BY <1>2, <3>1, Zenon DEF l
  <2> QED BY <2>2, <2>3, Zenon
<1>a. /\ encoded \in Seq(E)
      /\ body.leaves # <<>> => encoded # <<>>
  <2> DEFINE marked == redactValue(body.leaves, redact)
  <2>1. marked \in Seq(M) /\ (body.leaves # <<>> => marked # <<>>)
    BY <1>0, RedactedLeaves, Zenon
  <2> HIDE DEF marked, M
  <2>2. \A leaf \in M : Again(leaf) \in E
    <3> HIDE DEF Again
    <3> QED BY Zenon
  <2>3. encoded = [i \in DOMAIN marked |-> Again(marked[i])]
    BY Zenon DEF Marshal, marked
  <2> HIDE DEF Again, E, encoded
  <2>4. DOMAIN marked = 1..Len(marked) /\ Len(marked) \in Nat /\ \A i \in DOMAIN marked : marked[i] \in M
    BY <2>1
  <2>5. encoded \in [1..Len(marked) -> E]
    BY <2>2, <2>3, <2>4, Zenon
  <2>6. encoded \in Seq(E) /\ Len(encoded) = Len(marked)
    BY <2>4, <2>5
  <2>7. marked # <<>> => encoded # <<>>
    BY <2>1, <2>6
  <2> QED BY <2>1, <2>6, <2>7, Zenon
<1>3. body.json => \E S : out \in Seq(S) /\ \A leaf \in S : Fine(leaf)
  <2>1. CASE redact # {} /\ Decodes(body.leaves)
    <3>1. \A leaf \in E : Fine(leaf)
      <4> HIDE DEF Fine, Again
      <4> QED BY <1>2, <2>1, Zenon
    <3> HIDE DEF E, Fine, encoded
    <3> QED BY <1>a, <2>1, <3>1, Zenon
  <2>2. CASE ~(redact # {} /\ Decodes(body.leaves))
    <3>1. ASSUME NEW leaf \in Range(body.leaves) PROVE Fine(leaf)
      <4>1. CASE ~Decodes(body.leaves)
        BY <3>1, <4>1, Zenon
      <4>2. CASE redact = {}
        <5>1. Kept(leaf, leaf)
          BY <4>2, Zenon
        <5> HIDE DEF Kept
        <5> QED BY <3>1, <5>1, Zenon
      <4> QED BY <2>2, <4>1, <4>2, Zenon
    <3>2. body.leaves \in Seq(Range(body.leaves))
      BY <1>0 DEF Range
    <3> HIDE DEF Fine
    <3> QED BY <2>2, <3>1, <3>2, Zenon
  <2> QED BY <2>1, <2>2, Zenon
<1>4. out \in Seq(Range(out)) /\ (body.leaves # <<>> => out # <<>>)
  <2> HIDE DEF E, encoded
  <2> QED BY <1>0, <1>a DEF Range
<1> HIDE DEF out
<1>5. /\ out # <<>> => logged # <<>>
      /\ \A S : out \in Seq(S) => logged \in Seq(S)
  <2>1. CASE cut
    <3>1. max \in 1..Len(out) /\ Len(out) \in Nat
      BY <1>4, <2>1
    <3>2. Len(SubSeq(out, 1, max)) = max
      BY <1>4, <3>1
    <3>3. ASSUME NEW S, out \in Seq(S) PROVE SubSeq(out, 1, max) \in Seq(S)
      BY <3>1, <3>3
    <3> QED BY <2>1, <3>1, <3>2, <3>3
  <2>2. CASE ~cut
    BY <2>2, Zenon
  <2> QED BY <2>1, <2>2, Zenon
<1> HIDE DEF logged
<1>6. body.json => \A leaf \in Range(logged) : Fine(leaf)
  <2> HIDE DEF Fine
  <2> SUFFICES ASSUME body.json, NEW leaf \in Range(logged) PROVE Fine(leaf)
    BY Zenon
  <2>1. PICK S : out \in Seq(S) /\ \A l \in S : Fine(l)
    BY <1>3, Zenon
  <2>2. logged \in Seq(S)
    BY <1>5, <2>1, Zenon
  <2>3. leaf \in S
    BY <2>2 DEF Range
  <2> QED BY <2>1, <2>3, Zenon
<1>7. Discreet(sanitizeBody(body, max, redact), body, redact)
  <2>1. ASSUME body.json, NEW leaf \in Range(sanitizeBody(body, max, redact).leaves)
        PROVE  Fine(leaf)
    <3> HIDE DEF Fine
    <3> QED BY <1>1, <1>6, <2>1, Zenon
  <2> QED BY ONLY <2>1, Zenon DEF Discreet
<1> QED BY <1>1, <1>4, <1>5, <1>7, Zenon
-----------------------------------------------------------------------------
(* The configuration.                                                      *)

\* The elements of a typed sequence have that type.
LEMMA ElementType ==
  ASSUME NEW S, NEW s \in Seq(S), NEW i \in DOMAIN s
  PROVE  s[i] \in S
OBVIOUS

\* What trimSecret leaves of a file does not end in a line terminator.
LEMMA Trimmed ==
  ASSUME NEW data \in Seq(STRING)
  PROVE  /\ trimSecret(data) \in Seq(STRING)
         /\ trimSecret(data) # <<>> => Unterminated(trimSecret(data))
<1> DEFINE T == {0} \cup {i \in DOMAIN data : data[i] \notin EOL}
<1>1. Len(data) \in Nat /\ T \in SUBSET (0..Len(data)) /\ T # {}
  OBVIOUS
<1>2. Max(T) \in T
  <2> HIDE DEF T
  <2> QED BY <1>1, NatMax, Zenon
<1>3. Max(T) \in 0..Len(data) /\ (Max(T) # 0 => data[Max(T)] \notin EOL)
  BY <1>2
<1>4. trimSecret(data) = SubSeq(data, 1, Max(T))
  BY Zenon DEF trimSecret
<1> HIDE DEF T
<1>5. ASSUME NEW m \in 0..Len(data), m # 0 => data[m] \notin EOL
      PROVE  /\ SubSeq(data, 1, m) \in Seq(STRING)
             /\ SubSeq(data, 1, m) # <<>> => Unterminated(SubSeq(data, 1, m))
  <2>1. CASE m = 0
    BY <2>1
  <2>2. CASE m # 0
    <3>1. /\ SubSeq(data, 1, m) \in Seq(STRING) /\ Len(SubSeq(data, 1, m)) = m
          /\ SubSeq(data, 1, m)[m] = data[m]
      BY <2>2
    <3> QED BY <1>5, <2>2, <3>1, Zenon DEF Unterminated
  <2> QED BY <2>1, <2>2, Zenon
<1> QED BY <1>3, <1>4, <1>5, Zenon

\* What resolveSecretFiles makes of a configuration.
LEMMA ResolvedFields ==
  ASSUME NEW c, IsConfig(c)
  PROVE  /\ \A x \in DOMAIN c \ {"AdminToken", "Backends", "HmacSecrets"} : resolveSecretFiles(c)[x] = c[x]
         /\ resolveSecretFiles(c).HmacSecrets \in Seq([ID : STRING, Secret : Seq(STRING)])
         /\ DOMAIN resolveSecretFiles(c).HmacSecrets = DOMAIN c.HmacSecrets
         /\ \A i \in DOMAIN c.HmacSecrets :
              resolveSecretFiles(c).HmacSecrets[i].Secret = resolve(c.HmacSecrets[i].Secret)
         /\ Len(resolveSecretFiles(c).Backends) = Len(c.Backends)
<1> DEFINE H == [i \in DOMAIN c.HmacSecrets |->
                   [ID |-> c.HmacSecrets[i].ID, Secret |-> resolve(c.HmacSecrets[i].Secret)]]
           B == [i \in DOMAIN c.Backends |->
                   [URL |-> c.Backends[i].URL, APIKey |-> resolve(c.Backends[i].APIKey)]]
<1>1. /\ c.HmacSecrets \in Seq([ID : STRING, Secret : SecretSource])
      /\ c.Backends \in Seq([URL : STRING, APIKey : SecretSource])
      /\ {"AdminToken", "Backends", "HmacSecrets"} \subseteq DOMAIN c
  BY Zenon DEF IsConfig
<1>2. /\ \A x \in DOMAIN c \ {"AdminToken", "Backends", "HmacSecrets"} : resolveSecretFiles(c)[x] = c[x]
      /\ resolveSecretFiles(c).HmacSecrets = H
      /\ resolveSecretFiles(c).Backends = B
  BY <1>1, Zenon DEF resolveSecretFiles
<1>3. \A s \in SecretSource : resolve(s) \in Seq(STRING)
  BY Trimmed, Zenon DEF resolve, SecretSource
<1>4. H \in Seq([ID : STRING, Secret : Seq(STRING)]) /\ DOMAIN H = DOMAIN c.HmacSecrets
  <2>1. \A i \in DOMAIN c.HmacSecrets :
          [ID |-> c.HmacSecrets[i].ID, Secret |-> resolve(c.HmacSecrets[i].Secret)]
            \in [ID : STRING, Secret : Seq(STRING)]
    <3>1. \A i \in DOMAIN c.HmacSecrets :
            c.HmacSecrets[i].ID \in STRING /\ c.HmacSecrets[i].Secret \in SecretSource
      <4>1. \A i \in DOMAIN c.HmacSecrets : c.HmacSecrets[i] \in [ID : STRING, Secret : SecretSource]
        BY <1>1, ElementType, Zenon
      <4> QED BY <4>1, Zenon
    <3>2. \A i \in DOMAIN c.HmacSecrets : resolve(c.HmacSecrets[i].Secret) \in Seq(STRING)
      BY <1>3, <3>1, Zenon
    <3> QED BY <3>1, <3>2, Zenon
  <2>2. DOMAIN c.HmacSecrets = 1..Len(c.HmacSecrets) /\ Len(c.HmacSecrets) \in Nat
    BY <1>1
  <2> QED BY <2>1, <2>2
<1>5. \A i \in DOMAIN c.HmacSecrets : H[i].Secret = resolve(c.HmacSecrets[i].Secret)
  BY <1>1, Zenon
<1>6. Len(B) = Len(c.Backends)
  BY <1>1
<1> HIDE DEF H, B
<1> QED BY <1>2, <1>4, <1>5, <1>6, Zenon
\* A secret that came from a file and passed validate is not empty and does
\* not end in a line terminator; with distinct IDs, the map that verifies keys
\* has the current secret under its ID.
LEMMA SecretsSound ==
  ASSUME NEW c, IsConfig(c), Loads(c), NEW d, d = resolveSecretFiles(c)
  PROVE  /\ \A i \in DOMAIN d.HmacSecrets :
              /\ d.HmacSecrets[i].Secret # <<>>
              /\ c.HmacSecrets[i].Secret.file # "none" => Unterminated(d.HmacSecrets[i].Secret)
         /\ IsInjective([i \in DOMAIN d.HmacSecrets |-> d.HmacSecrets[i].ID]) =>
              hmacSecrets(d)[CurrentHmacSecret(d).ID] = CurrentHmacSecret(d).Secret
<1>1. /\ d.HmacSecrets \in Seq([ID : STRING, Secret : Seq(STRING)])
      /\ DOMAIN d.HmacSecrets = DOMAIN c.HmacSecrets
      /\ \A i \in DOMAIN c.HmacSecrets : d.HmacSecrets[i].Secret = resolve(c.HmacSecrets[i].Secret)
  BY ResolvedFields, Zenon
<1>2. /\ d.HmacSecrets # <<>>
      /\ \A i \in DOMAIN d.HmacSecrets : Len(d.HmacSecrets[i].Secret) >= MinSecretBytes
  BY Zenon DEF Loads, validate, ValidHmacSecrets
<1>3. \A i \in DOMAIN d.HmacSecrets : d.HmacSecrets[i].Secret # <<>>
  BY <1>1, <1>2, ConfigAssumption
<1>4. \A i \in DOMAIN d.HmacSecrets :
        c.HmacSecrets[i].Secret.file # "none" => Unterminated(d.HmacSecrets[i].Secret)
  <2>1. \A i \in DOMAIN c.HmacSecrets : c.HmacSecrets[i].Secret.data \in Seq(STRING)
    <3>1. c.HmacSecrets \in Seq([ID : STRING, Secret : SecretSource])
      BY Zenon DEF IsConfig
    <3>2. \A i \in DOMAIN c.HmacSecrets : c.HmacSecrets[i] \in [ID : STRING, Secret : SecretSource]
      BY <3>1, ElementType, Zenon
    <3> QED BY <3>2, Zenon DEF SecretSource
  <2>2. \A i \in DOMAIN d.HmacSecrets :
          c.HmacSecrets[i].Secret.file # "none" =>
            d.HmacSecrets[i].Secret = trimSecret(c.HmacSecrets[i].Secret.data)
    BY <1>1, Zenon DEF resolve
  <2> QED BY <1>1, <1>3, <2>1, <2>2, Trimmed, Zenon
<1>5. ASSUME IsInjective([i \in DOMAIN d.HmacSecrets |-> d.HmacSecrets[i].ID])
      PROVE  hmacSecrets(d)[CurrentHmacSecret(d).ID] = CurrentHmacSecret(d).Secret
  <2> DEFINE H == d.HmacSecrets
             same == {i \in DOMAIN H : H[i].ID = H[1].ID}
  <2>1. 1 \in DOMAIN H
    BY <1>1, <1>2
  <2>2. \A i \in DOMAIN H : H[i].ID = H[1].ID => i = 1
    BY <1>5, <2>1, Zenon DEF IsInjective
  <2>3. same = {1}
    BY <2>1, <2>2, Zenon
  <2>4. Max(same) = 1
    BY <2>3 DEF Max
  <2>5. hmacSecrets(d)[H[1].ID] = H[Max(same)].Secret
    BY <2>1, Zenon DEF hmacSecrets
  <2> QED BY <2>4, <2>5, Zenon DEF CurrentHmacSecret
<1> QED BY <1>3, <1>4, <1>5, Zenon

\* What a plugin's configuration is resolved to.
LEMMA PluginsSound ==
  ASSUME NEW d, ValidPlugins(d), d.PluginDefaults \in [Timeout : Int, FailureThreshold : Int,
                                                     SuccessThreshold : Int, Cooldown : Int],
         NEW p \in DOMAIN d.Plugins, d.Plugins[p] \in PluginConfig
  PROVE  /\ PluginConfigResolved(d, p).Timeout > 0
         /\ PluginConfigResolved(d, p).FailureThreshold >= 0
         /\ PluginConfigResolved(d, p).SuccessThreshold >= 0
<1> DEFINE P == d.Plugins[p]
           D == d.PluginDefaults
<1>1. /\ PluginConfigResolved(d, p).Timeout = IF P.Timeout = 0 THEN D.Timeout ELSE P.Timeout
      /\ PluginConfigResolved(d, p).FailureThreshold =
           IF P.FailureThreshold = 0 THEN D.FailureThreshold ELSE P.FailureThreshold
      /\ PluginConfigResolved(d, p).SuccessThreshold =
           IF P.SuccessThreshold = 0 THEN D.SuccessThreshold ELSE P.SuccessThreshold
  BY Zenon DEF PluginConfigResolved, PluginConfig
<1>2. /\ P.Timeout >= 0 /\ P.FailureThreshold >= 0 /\ P.SuccessThreshold >= 0
      /\ D.Timeout > 0 /\ D.FailureThreshold >= 0 /\ D.SuccessThreshold >= 0
  BY Zenon DEF ValidPlugins, validateCircuitBreaker
<1>3. /\ P.Timeout \in Int /\ P.FailureThreshold \in Int /\ P.SuccessThreshold \in Int
      /\ D.Timeout \in Int /\ D.FailureThreshold \in Int /\ D.SuccessThreshold \in Int
  BY Zenon DEF PluginConfig
<1> HIDE DEF P, D
<1> QED BY <1>1, <1>2, <1>3

-----------------------------------------------------------------------------
(* What the chain's invariant says of the calls and of the entries.        *)

\* A header line of a request is a list of hops, its body has content.
LEMMA InputTypes ==
  ASSUME NEW r, ShapeInv(r)
  PROVE  Get(input[r].lines) \in Seq(STRING) /\ Content(input[r].body) \in Bodies
<1>1. input[r] \in Inputs \cup {NoInput}
  BY Zenon DEF ShapeInv
<1>2. \A ls \in Seq(Seq(STRING)) : Get(ls) \in Seq(STRING)
  BY DEF Get
<1>3. ASSUME input[r] \in Inputs
      PROVE  Get(input[r].lines) \in Seq(STRING) /\ Content(input[r].body) \in Bodies
  <2>1. input[r].lines \in Seq(Seq(STRING)) /\ Content(input[r].body) \in Bodies
    BY <1>3, GatewayAssumption, Zenon DEF Content, Bodies
  <2> QED BY <1>2, <2>1, Zenon
<1>4. Get(NoInput.lines) \in Seq(STRING) /\ Content(NoInput.body) \in Bodies
  <2>1. NoInput.lines = <<>> /\ NoInput.body.json = FALSE /\ NoInput.body.leaves = <<>>
    BY Zenon DEF NoInput
  <2>2. <<>> \in Seq(STRING) /\ <<>> \in Seq(Leaves)
    OBVIOUS
  <2> QED BY <2>1, <2>2, Zenon DEF Content, Bodies, Get
<1> QED BY <1>1, <1>3, <1>4, Zenon

\* What reaches PowerDNS was authenticated, and allowed for what is sent on.
LEMMA ForwardsCleared == GatewayInv => ForwardCleared
<1> SUFFICES ASSUME GatewayInv, NEW r \in Requests, NEW sent \in seen[r].upstream
             PROVE  \E rec \in seen[r].key, asked \in seen[r].plugins :
                      /\ rec.check = "ok" /\ rec.roles # {}
                      /\ rec.cidrs # {} => \E a \in rec.cidrs : Attested(r, a)
                      /\ asked.principal = rec.principal /\ asked.body = sent.body
                      /\ sent.body = Content(input[r].body)
                      /\ cells[r].decision = "allow"
                      /\ \A h \in sensitiveHeaders :
                           /\ h \in DOMAIN asked.headers => asked.headers[h] # "client"
                           /\ h \in DOMAIN sent.headers => sent.headers[h] # "client"
  BY Zenon DEF ForwardCleared
<1>1. ShapeInv(r) /\ KeyInv(r) /\ BodyInv(r) /\ StatusInv(r) /\ AskedInv(r)
  BY Zenon DEF GatewayInv, RequestInv
<1>2. cells[r].decision = "allow"
  BY <1>1 DEF StatusInv
<1>3. /\ ctx[r].roles # {} /\ seen[r].plugins = {pbReq(r)} /\ seen[r].key # {}
      /\ sent = [headers |-> Rewrite, body |-> ctx[r].body]
  BY <1>1, <1>2, Zenon DEF AskedInv
<1>4. PICK rec \in seen[r].key : TRUE
  BY <1>3, Zenon
<1>5. /\ rec.check = "ok" /\ Listed(r, rec) /\ ctx[r].principal = rec.principal
      /\ ctx[r].roles = rec.roles
  BY <1>1, <1>4, Zenon DEF KeyInv
<1>6. rec.cidrs # {} => \E a \in rec.cidrs : Attested(r, a)
  <2>1. Attested(r, SourceIP(r))
    BY <1>1, InputTypes, ResolvedVouched, Zenon DEF SourceIP, Attested
  <2> QED BY <1>5, <2>1, Zenon DEF Listed
<1>7. ctx[r].body = Content(input[r].body)
  BY <1>1, Zenon DEF BodyInv
<1>8. /\ pbReq(r).principal = rec.principal /\ pbReq(r).body = sent.body
      /\ sent.body = Content(input[r].body)
  BY <1>3, <1>5, <1>7, Zenon DEF pbReq
<1>9. ASSUME NEW h \in sensitiveHeaders
      PROVE  /\ h \in DOMAIN pbReq(r).headers => pbReq(r).headers[h] # "client"
             /\ h \in DOMAIN sent.headers => sent.headers[h] # "client"
  <2>1. h \in DOMAIN pbReq(r).headers => pbReq(r).headers[h] # "client"
    BY Zenon DEF pbReq
  <2>2. h \in DOMAIN Rewrite => Rewrite[h] # "client"
    BY Zenon DEF Rewrite, sensitiveHeaders
  <2> QED BY <1>3, <2>1, <2>2, Zenon
<1> QED BY <1>2, <1>3, <1>4, <1>5, <1>6, <1>8, <1>9, Zenon

\* An entry agrees with what the client and PowerDNS have seen.
LEMMA EntriesFaithful == GatewayInv => EntryFaithful
<1> SUFFICES ASSUME GatewayInv, NEW r \in Requests, NEW e \in trail[r]
             PROVE  /\ seen[r].client # 0 => e.status = seen[r].client
                    /\ e.decision = "allow" <=> seen[r].upstream # {}
                    /\ e.decision = "deny" => e.status = 403
                    /\ Attested(r, e.source)
                    /\ \A rec \in seen[r].key : rec.cidrs # {} => e.source \in rec.cidrs
  BY Zenon DEF EntryFaithful
<1>1. ShapeInv(r) /\ KeyInv(r) /\ CallInv(r) /\ StatusInv(r) /\ TrailInv(r)
  BY Zenon DEF GatewayInv, RequestInv
<1>2. pc[r] = "done" /\ e = buildEntry(r)
  BY <1>1, Zenon DEF TrailInv
<1>3. e.status = cells[r].status /\ e.decision = cells[r].decision /\ e.source = SourceIP(r)
  BY <1>2, Zenon DEF buildEntry
<1>4. /\ seen[r].client # 0 => e.status = seen[r].client
      /\ e.decision = "deny" => e.status = 403
      /\ seen[r].upstream # {} => e.decision = "allow"
  BY <1>1, <1>3 DEF StatusInv
<1>5. e.decision = "allow" => seen[r].upstream # {}
  BY <1>1, <1>2, <1>3, Zenon DEF CallInv
<1>6. Attested(r, e.source)
  BY <1>1, <1>3, InputTypes, ResolvedVouched, Zenon DEF SourceIP, Attested
<1>7. \A rec \in seen[r].key : rec.cidrs # {} => e.source \in rec.cidrs
  BY <1>1, <1>3, Zenon DEF KeyInv, Listed
<1> QED BY <1>4, <1>5, <1>6, <1>7, Zenon

\* The limit on a logged body is a number, and no secret file changes it.
LEMMA LoadedFields ==
  ASSUME chosen \in DOMAIN Configs
  PROVE  /\ IsConfig(Configs[chosen])
         /\ cfg.AuditBodyMaxBytes \in Int
<1>1. IsConfig(Configs[chosen])
  BY GatewayAssumption, Zenon
<1>2. cfg = resolveSecretFiles(Configs[chosen]) \/ cfg = Configs[chosen]
  BY Zenon DEF cfg, Loaded
<1>3. "AuditBodyMaxBytes" \in DOMAIN Configs[chosen] /\ Configs[chosen].AuditBodyMaxBytes \in Int
  BY <1>1, Zenon DEF IsConfig
<1>4. resolveSecretFiles(Configs[chosen]).AuditBodyMaxBytes = Configs[chosen].AuditBodyMaxBytes
  BY <1>1, <1>3, ResolvedFields, Zenon
<1> QED BY <1>1, <1>2, <1>3, <1>4, Zenon

\* An entry has the body that was sent on, less what is to be redacted.
LEMMA BodiesDiscreet == GatewayInv => BodyDiscreet
<1> SUFFICES ASSUME GatewayInv, NEW r \in Requests, NEW e \in trail[r], NEW sent \in seen[r].upstream
             PROVE  /\ cfg.AuditLogBody => (e.body.leaves = <<>> <=> sent.body.leaves = <<>>)
                    /\ Discreet(e.body, sent.body, RedactFields(cfg))
  BY Zenon DEF BodyDiscreet
<1> DEFINE body == Content(input[r].body)
           logged == sanitizeBody(cells[r].bytes, cfg.AuditBodyMaxBytes, RedactFields(cfg))
<1>1. ShapeInv(r) /\ BodyInv(r) /\ AskedInv(r) /\ TrailInv(r) /\ chosen \in DOMAIN Configs
  BY Zenon DEF GatewayInv, RequestInv
<1>2. sent.body = body /\ (cfg.AuditLogBody => cells[r].bytes = body)
  BY <1>1 DEF AskedInv, BodyInv
<1>3. e = buildEntry(r)
  BY <1>1, Zenon DEF TrailInv
<1>4. e.body = IF cfg.AuditLogBody /\ cells[r].bytes.leaves # <<>> THEN logged ELSE NotLogged
  BY <1>3, Zenon DEF buildEntry
<1>5. body \in Bodies /\ cfg.AuditBodyMaxBytes \in Int
  BY <1>1, InputTypes, LoadedFields, Zenon
<1> HIDE DEF body
<1>6. CASE cfg.AuditLogBody /\ cells[r].bytes.leaves # <<>>
  <2>1. /\ Discreet(logged, body, RedactFields(cfg))
        /\ body.leaves # <<>> => logged.leaves # <<>>
    BY <1>2, <1>5, <1>6, SanitizedDiscreet, Zenon DEF Bodies
  <2> HIDE DEF logged
  <2> QED BY <1>2, <1>4, <1>6, <2>1, Zenon
<1>7. CASE ~(cfg.AuditLogBody /\ cells[r].bytes.leaves # <<>>)
  <2>1. e.body.leaves = <<>>
    BY <1>4, <1>7 DEF NotLogged
  <2>2. Range(e.body.leaves) = {}
    BY <2>1 DEF Range
  <2>3. Discreet(e.body, sent.body, RedactFields(cfg))
    BY <2>2, Zenon DEF Discreet
  <2> QED BY <1>2, <1>7, <2>1, <2>3, Zenon
<1> QED BY <1>6, <1>7, Zenon

-----------------------------------------------------------------------------
(* The process around the requests.                                        *)

Parts == {"tracer", "store", "audit", "plugins", "backend", "limiter", "signals"}

\* All that runServe defers.
Deferred == Append(Components, "signals")

\* The first n components.
Opened(n) == {Components[i] : i \in {j \in DOMAIN Components : j <= n}}

\* What is open is what the deferred closes are for, from the first on.
StackInv ==
  /\ defers \in Seq(Parts) /\ Len(defers) <= Len(Deferred)
  /\ \A i \in DOMAIN defers : defers[i] = Deferred[i]
  /\ up = Opened(Len(defers))
  /\ main \in {"load", "exit"} => Len(defers) = 0
  /\ main = "open" => Len(defers) <= Len(Components)
  /\ main \in {"serve", "shutdown"} => Len(defers) = Len(Deferred)

\* A server that is not up yet, or is shut in time, has no request in flight.
DrainInv ==
  /\ server \in [Range(Servers) -> {"none", "starting", "listening", "failed", "closing", "shut"}]
  /\ busy \subseteq Slow
  /\ \A s \in Range(Servers) :
       /\ server[s] \in {"none", "starting"} => Idle(s)
       /\ server[s] = "shut" => Idle(s) \/ window = "expired"
       /\ main \in {"load", "open"} => server[s] = "none"
       /\ main \in {"close", "exit"} => server[s] \in {"none", "shut"}
  /\ main \in {"load", "open", "serve"} => window = "unset"

\* What is served has passed validate, and plugin.New.
ConfigInv ==
  /\ main \in {"load", "open", "serve", "shutdown", "close", "exit", "killed"}
  /\ main \in {"open", "serve"} => Loads(Configs[chosen])
  /\ "plugins" \in up => DOMAIN cfg.Plugins # {}

LInv == GatewayInv /\ StackInv /\ DrainInv /\ ConfigInv /\ RecordedUnlessExpired
-----------------------------------------------------------------------------
(* The requests.                                                           *)

\* The configuration is loaded once, and what is not a step of a request
\* leaves all of them alone.
LEMMA Frames ==
  ASSUME [LNext]_vars
  PROVE  /\ chosen' = chosen
         /\ (\E r \in Requests : Accept(r) \/ ServeRequest(r)) \/ UNCHANGED reqVars
<1>1. CASE StartStep \/ Terminate \/ Killed
  BY <1>1, Zenon DEF StartStep, Load, Open, OpenFails, Start, Terminate, Killed
<1>2. CASE StopStep
  BY <1>2, Zenon DEF StopStep, Select, Expire, ShutdownCall, ShutdownReturn, Stopped, Close, Exit
<1>3. ASSUME NEW s, Listen(s) \/ ServerFails(s) \/ AcceptOther(s) \/ FinishOther(s)
      PROVE  chosen' = chosen /\ UNCHANGED reqVars
  BY <1>3, Zenon DEF Listen, ServerFails, AcceptOther, FinishOther
<1>4. ASSUME NEW r \in Requests, Accept(r) \/ ServeRequest(r)
      PROVE  chosen' = chosen
  BY <1>4, Zenon DEF Accept, ServeRequest
<1>5. CASE KeyExpires \/ Cleanup \/ CleanupFails \/ CleanupStops
  BY <1>5, Zenon DEF KeyExpires, Cleanup, CleanupFails, CleanupStops
<1>6. CASE UNCHANGED vars
  BY <1>6, Zenon DEF vars
<1> QED BY <1>1, <1>2, <1>3, <1>4, <1>5, <1>6, Zenon DEF LNext

\* The requests go through the chain, whatever else the process does.
LEMMA ChainStep ==
  ASSUME GatewayInv, [LNext]_vars
  PROVE  GatewayInv'
<1>1. /\ chosen' = chosen
      /\ (\E r \in Requests : Accept(r) \/ ServeRequest(r)) \/ UNCHANGED reqVars
  BY Frames, Zenon
<1>2. \A r \in Requests : Accept(r) \/ ServeRequest(r) => Arrive(r) \/ ArriveProbe(r) \/ RequestStep(r)
  BY Zenon DEF Accept, ServeRequest
<1> QED BY <1>1, <1>2, GatewayStep, Zenon

-----------------------------------------------------------------------------
(* The components.                                                         *)

\* runServe opens five components, or six with the tracer, each once.
LEMMA ComponentFacts ==
  /\ Components \in Seq(Parts) /\ Len(Components) \in {5, 6}
  /\ \A i, j \in DOMAIN Components : Components[i] = Components[j] => i = j
  /\ \A i \in DOMAIN Components : Components[i] # "signals"
  /\ \E i \in DOMAIN Components : Components[i] = "audit"
  /\ \E i \in DOMAIN Components : Components[i] = "plugins"
<1> DEFINE rest == <<"store", "audit", "plugins", "backend", "limiter">>
           first == IF cfg.Tracing.Enabled THEN <<"tracer">> ELSE <<>>
<1>1. Len(rest) = 5 /\ DOMAIN rest = 1..5
  OBVIOUS
<1>2. /\ rest[1] = "store" /\ rest[2] = "audit" /\ rest[3] = "plugins"
      /\ rest[4] = "backend" /\ rest[5] = "limiter"
  BY Zenon
<1>3. rest \in Seq(Parts)
  BY DEF Parts
<1>4. \/ first = <<>> /\ Len(first) = 0
      \/ first = <<"tracer">> /\ Len(first) = 1 /\ first[1] = "tracer"
  BY Zenon
<1>5. first \in Seq(Parts) /\ Components = first \o rest
  <2>1. first \in Seq(Parts)
    <3>1. <<>> \in Seq(Parts) /\ <<"tracer">> \in Seq(Parts)
      BY DEF Parts
    <3> QED BY <1>4, <3>1, Zenon
  <2> QED BY <2>1, Zenon DEF Components
<1> HIDE DEF first, rest
<1>6. Components \in Seq(Parts) /\ Len(Components) = Len(first) + 5
  <2>1. Components \in Seq(Parts) /\ Len(Components) = Len(first) + Len(rest)
    BY <1>3, <1>5
  <2> QED BY <1>1, <2>1, Zenon
<1>7. \A i \in 1..Len(first) + 5 :
        Components[i] = IF i <= Len(first) THEN first[i] ELSE rest[i - Len(first)]
  <2>1. \A i \in 1..Len(first) + Len(rest) :
          Components[i] = IF i <= Len(first) THEN first[i] ELSE rest[i - Len(first)]
    BY <1>3, <1>5
  <2> QED BY <1>1, <2>1, Zenon
<1>8. CASE Len(first) = 0
  <2>1. DOMAIN Components = 1..5 /\ Len(Components) = 5
    BY <1>6, <1>8
  <2>2. \A i \in 1..5 : Components[i] = rest[i]
    BY <1>7, <1>8
  <2>3. /\ Components[1] = "store" /\ Components[2] = "audit" /\ Components[3] = "plugins"
        /\ Components[4] = "backend" /\ Components[5] = "limiter"
    BY <1>2, <2>2
  <2>4. /\ \A i, j \in 1..5 : Components[i] = Components[j] => i = j
        /\ \A i \in 1..5 : Components[i] # "signals"
    BY <2>3
  <2>5. 2 \in 1..5 /\ 3 \in 1..5
    OBVIOUS
  <2> QED BY <1>6, <2>1, <2>3, <2>4, <2>5, Zenon
<1>9. CASE Len(first) = 1
  <2>1. DOMAIN Components = 1..6 /\ Len(Components) = 6
    BY <1>6, <1>9
  <2>2. Components[1] = "tracer" /\ \A i \in 2..6 : Components[i] = rest[i - 1]
    BY <1>4, <1>7, <1>9
  <2>3. /\ Components[1] = "tracer" /\ Components[2] = "store" /\ Components[3] = "audit"
        /\ Components[4] = "plugins" /\ Components[5] = "backend" /\ Components[6] = "limiter"
    BY <1>2, <2>2
  <2>4. /\ \A i, j \in 1..6 : Components[i] = Components[j] => i = j
        /\ \A i \in 1..6 : Components[i] # "signals"
    BY <2>3
  <2>5. 3 \in 1..6 /\ 4 \in 1..6
    OBVIOUS
  <2> QED BY <1>6, <2>1, <2>3, <2>4, <2>5, Zenon
<1> QED BY <1>4, <1>8, <1>9, Zenon

\* The stack of deferred calls: the components, then the signal handler.
LEMMA DeferredFacts ==
  /\ Len(Components) \in Nat /\ Deferred \in Seq(Parts)
  /\ Len(Deferred) = Len(Components) + 1 /\ Deferred[Len(Components) + 1] = "signals"
  /\ DOMAIN Components = 1..Len(Components)
  /\ \A i \in DOMAIN Components : Deferred[i] = Components[i]
<1>1. Components \in Seq(Parts) /\ "signals" \in Parts
  BY ComponentFacts, Zenon DEF Parts
<1>2. /\ Deferred \in Seq(Parts) /\ Len(Deferred) = Len(Components) + 1
      /\ \A i \in 1..Len(Components) : Deferred[i] = Components[i]
      /\ Deferred[Len(Components) + 1] = "signals"
  BY <1>1 DEF Deferred
<1>3. DOMAIN Components = 1..Len(Components) /\ Len(Components) \in Nat
  BY <1>1
<1> QED BY <1>2, <1>3, Zenon

\* A step that opens and closes nothing.
LEMMA StackStays ==
  ASSUME StackInv, chosen' = chosen, up' = up, defers' = defers,
         \/ main' = main \/ main' = "close" \/ main' = "killed"
         \/ main = "load" /\ main' = "open"
         \/ main = "serve" /\ main' = "shutdown"
         \/ Len(defers) = 0 /\ main' = "exit"
  PROVE  StackInv'
<1>1. cfg' = cfg
  BY Zenon DEF cfg
<1>2. Components' = Components
  BY <1>1, Zenon DEF Components
<1>3. Deferred' = Deferred
  BY <1>2, Zenon DEF Deferred
<1>4. Len(defers) = 0 => Len(defers) <= Len(Components)
  BY DeferredFacts
<1>5. Opened(Len(defers))' = Opened(Len(defers))
  BY <1>2, Zenon DEF Opened
<1> QED BY <1>2, <1>3, <1>4, <1>5, Zenon DEF StackInv
\* One component more, and one less.
LEMMA OpenedNext ==
  ASSUME NEW n \in Nat, n < Len(Components)
  PROVE  /\ Opened(n + 1) = Opened(n) \cup {Components[n + 1]}
         /\ Opened(n) = Opened(n + 1) \ {Components[n + 1]}
<1>1. n + 1 \in DOMAIN Components /\ DOMAIN Components \subseteq Nat
  BY DeferredFacts
<1>2. \A i \in DOMAIN Components : i <= n + 1 <=> i <= n \/ i = n + 1
  BY <1>1
<1>3. \A i \in DOMAIN Components : i <= n => i # n + 1
  BY <1>1
<1>4. \A i \in DOMAIN Components : Components[i] = Components[n + 1] => i = n + 1
  BY <1>1, ComponentFacts, Zenon
<1>5. Opened(n + 1) = Opened(n) \cup {Components[n + 1]}
  BY <1>1, <1>2, Zenon DEF Opened
<1>6. Components[n + 1] \notin Opened(n)
  BY <1>3, <1>4, Zenon DEF Opened
<1> QED BY <1>5, <1>6, Zenon

\* The signal handler is not a component.
LEMMA OpenedAll ==
  /\ Opened(Len(Components) + 1) = Opened(Len(Components))
  /\ "signals" \notin Opened(Len(Components) + 1)
  /\ Opened(0) = {}
  /\ {"audit", "plugins"} \subseteq Opened(Len(Components))
<1>1. \A i \in DOMAIN Components : i <= Len(Components) /\ i <= Len(Components) + 1 /\ ~(i <= 0)
  BY DeferredFacts
<1> QED BY <1>1, ComponentFacts, Zenon DEF Opened

\* The stack grows by the next of Deferred.
LEMMA Pushed ==
  ASSUME StackInv, chosen' = chosen, NEW c, Len(defers) < Len(Deferred),
         c = Deferred[Len(defers) + 1], defers' = Append(defers, c)
  PROVE  /\ Components' = Components /\ Deferred' = Deferred
         /\ defers' \in Seq(Parts) /\ Len(defers') = Len(defers) + 1 /\ Len(defers') <= Len(Deferred)
         /\ \A i \in DOMAIN defers' : defers'[i] = Deferred[i]
<1>1. Components' = Components /\ Deferred' = Deferred
  BY Zenon DEF cfg, Components, Deferred
<1>2. defers \in Seq(Parts) /\ Deferred \in Seq(Parts) /\ \A i \in DOMAIN defers : defers[i] = Deferred[i]
  BY DeferredFacts, Zenon DEF StackInv
<1>3. c \in Parts
  <2>1. Len(defers) + 1 \in DOMAIN Deferred
    BY <1>2
  <2> QED BY <1>2, <2>1, ElementType, Zenon
<1>4. /\ defers' \in Seq(Parts) /\ Len(defers') = Len(defers) + 1
      /\ \A i \in 1..Len(defers) : defers'[i] = defers[i]
      /\ defers'[Len(defers) + 1] = c
  BY <1>2, <1>3
<1>5. ASSUME NEW i \in DOMAIN defers' PROVE defers'[i] = Deferred[i]
  <2>1. i \in 1..Len(defers) \/ i = Len(defers) + 1
    BY <1>2, <1>4
  <2>2. DOMAIN defers = 1..Len(defers)
    BY <1>2
  <2> QED BY <1>2, <1>4, <2>1, <2>2, Zenon
<1>6. Len(defers) + 1 <= Len(Deferred)
  BY <1>2
<1> QED BY <1>1, <1>4, <1>5, <1>6, Zenon

\* A component is opened.
LEMMA OpenStack ==
  ASSUME StackInv, Open
  PROVE  StackInv'
<1> DEFINE n == Len(defers)
<1>1. /\ main = "open" /\ main' = "open" /\ chosen' = chosen /\ n < Len(Components)
      /\ up' = up \cup {Components[n + 1]} /\ defers' = Append(defers, Components[n + 1])
  BY Zenon DEF Open
<1>2. n \in Nat /\ up = Opened(n)
  BY DEF StackInv
<1>3. n < Len(Deferred) /\ Components[n + 1] = Deferred[n + 1]
  BY <1>1, <1>2, DeferredFacts
<1>4. /\ Components' = Components /\ Deferred' = Deferred
      /\ defers' \in Seq(Parts) /\ Len(defers') = n + 1 /\ Len(defers') <= Len(Deferred)
      /\ \A i \in DOMAIN defers' : defers'[i] = Deferred[i]
  BY <1>1, <1>3, Pushed, Zenon
<1>5. up' = Opened(n + 1)
  BY <1>1, <1>2, OpenedNext, Zenon
<1>6. Opened(n + 1) = Opened(Len(defers))'
  BY <1>4, Zenon DEF Opened
<1>7. n + 1 <= Len(Components)
  BY <1>1, <1>2, DeferredFacts
<1> QED BY <1>1, <1>4, <1>5, <1>6, <1>7, Zenon DEF StackInv

\* The servers are started.
LEMMA StartStack ==
  ASSUME StackInv, Start
  PROVE  StackInv'
<1> DEFINE n == Len(defers)
<1>1. /\ main' = "serve" /\ chosen' = chosen /\ n = Len(Components)
      /\ up' = up /\ defers' = Append(defers, "signals")
  BY Zenon DEF Start
<1>2. n \in Nat /\ up = Opened(n)
  BY DEF StackInv
<1>3. n < Len(Deferred) /\ "signals" = Deferred[n + 1] /\ Len(Deferred) = n + 1
  BY <1>1, <1>2, DeferredFacts
<1>4. /\ Components' = Components /\ Deferred' = Deferred
      /\ defers' \in Seq(Parts) /\ Len(defers') = n + 1 /\ Len(defers') <= Len(Deferred)
      /\ \A i \in DOMAIN defers' : defers'[i] = Deferred[i]
  BY <1>1, <1>3, Pushed, Zenon
<1>5. up' = Opened(n + 1)
  BY <1>1, <1>2, OpenedAll, Zenon
<1>6. Opened(n + 1) = Opened(Len(defers))'
  BY <1>4, Zenon DEF Opened
<1> QED BY <1>1, <1>3, <1>4, <1>5, <1>6 DEF StackInv

\* The latest of the deferred calls runs.
LEMMA CloseStack ==
  ASSUME StackInv, Close
  PROVE  StackInv'
<1> DEFINE n == Len(defers) - 1
<1>1. /\ main = "close" /\ main' = "close" /\ chosen' = chosen /\ defers # <<>>
      /\ up' = up \ {defers[Len(defers)]} /\ defers' = SubSeq(defers, 1, n)
  BY Zenon DEF Close
<1>2. /\ defers \in Seq(Parts) /\ up = Opened(Len(defers)) /\ Len(defers) <= Len(Deferred)
      /\ \A i \in DOMAIN defers : defers[i] = Deferred[i]
  BY Zenon DEF StackInv
<1>3. /\ n \in Nat /\ Len(defers) = n + 1 /\ n + 1 \in DOMAIN defers /\ n + 1 <= Len(Deferred)
      /\ \A i \in 1..n : i \in DOMAIN defers
  BY <1>1, <1>2
<1>4. /\ defers' \in Seq(Parts) /\ Len(defers') = n /\ DOMAIN defers' = 1..n
      /\ \A i \in 1..n : defers'[i] = defers[i]
  BY <1>1, <1>2, <1>3
<1>5. Components' = Components /\ Deferred' = Deferred
  BY <1>1, Zenon DEF cfg, Components, Deferred
<1>6. up' = Opened(n + 1) \ {Deferred[n + 1]}
  BY <1>1, <1>2, <1>3, Zenon
<1> HIDE DEF n
<1>7. up' = Opened(n)
  <2>1. CASE n < Len(Components)
    <3>1. Deferred[n + 1] = Components[n + 1]
      BY <1>3, <2>1, DeferredFacts
    <3> QED BY <1>3, <1>6, <2>1, <3>1, OpenedNext, Zenon
  <2>2. CASE ~(n < Len(Components))
    <3>1. n = Len(Components)
      <4>1. Len(Components) \in Nat /\ Len(Deferred) = Len(Components) + 1
        BY DeferredFacts, Zenon
      <4> QED BY <1>3, <2>2, <4>1
    <3>2. Deferred[n + 1] = "signals"
      BY <3>1, DeferredFacts, Zenon
    <3> QED BY <1>6, <3>1, <3>2, OpenedAll, Zenon
  <2> QED BY <2>1, <2>2, Zenon
<1>8. Opened(n) = Opened(Len(defers))'
  BY <1>4, <1>5, Zenon DEF Opened
<1>9. n <= Len(Deferred)
  BY <1>3, DeferredFacts
<1>10. \A i \in DOMAIN defers' : defers'[i] = Deferred'[i]
  BY <1>2, <1>3, <1>4, <1>5, Zenon
<1> QED BY <1>1, <1>4, <1>5, <1>7, <1>8, <1>9, <1>10, Zenon DEF StackInv
\* Every step keeps the stack and what is open in step.
LEMMA StackStep ==
  ASSUME StackInv, [LNext]_vars
  PROVE  StackInv'
<1>1. CASE Open
  BY <1>1, OpenStack, Zenon
<1>2. CASE Start
  BY <1>2, StartStack, Zenon
<1>3. CASE Close
  BY <1>3, CloseStack, Zenon
<1>4. CASE Load
  <2>1. /\ chosen' = chosen /\ up' = up /\ defers' = defers
        /\ main = "load" /\ (main' = "open" \/ main' = "exit")
    BY <1>4, Zenon DEF Load
  <2>2. main = "load" => Len(defers) = 0
    BY Zenon DEF StackInv
  <2> QED BY <2>1, <2>2, StackStays, Zenon
<1>5. CASE OpenFails \/ Killed \/ Stopped \/ Select
  <2>1. /\ chosen' = chosen /\ up' = up /\ defers' = defers
        /\ main' = "close" \/ main' = "killed" \/ (main = "serve" /\ main' = "shutdown")
    BY <1>5, Zenon DEF OpenFails, Killed, Stopped, Select
  <2> QED BY <2>1, StackStays, Zenon
<1>6. CASE Terminate \/ Expire \/ ShutdownCall \/ ShutdownReturn
  <2>1. chosen' = chosen /\ up' = up /\ defers' = defers /\ main' = main
    BY <1>6, Zenon DEF Terminate, Expire, ShutdownCall, ShutdownReturn, procVars
  <2> QED BY <2>1, StackStays, Zenon
<1>7. CASE Exit
  <2>1. Len(defers) = 0 /\ main' = "exit" /\ chosen' = chosen /\ up' = up /\ defers' = defers
    BY <1>7, Zenon DEF Exit
  <2> QED BY <2>1, StackStays, Zenon
<1>8. ASSUME UNCHANGED <<chosen, up, procVars>>
      PROVE  StackInv'
  <2>1. chosen' = chosen /\ up' = up /\ defers' = defers /\ main' = main
    BY <1>8, Zenon DEF procVars
  <2> QED BY <2>1, StackStays, Zenon
<1>9. ASSUME NEW s, Listen(s) \/ ServerFails(s) \/ AcceptOther(s) \/ FinishOther(s)
      PROVE  StackInv'
  BY <1>8, <1>9, Zenon DEF Listen, ServerFails, AcceptOther, FinishOther
<1>10. ASSUME NEW r, Accept(r) \/ ServeRequest(r)
      PROVE  StackInv'
  BY <1>8, <1>10, Zenon DEF Accept, ServeRequest
<1>11. CASE KeyExpires \/ Cleanup \/ CleanupFails \/ CleanupStops
  BY <1>8, <1>11, Zenon DEF KeyExpires, Cleanup, CleanupFails, CleanupStops
<1>12. CASE UNCHANGED vars
  BY <1>8, <1>12, Zenon DEF vars
<1> QED
  BY <1>1, <1>2, <1>3, <1>4, <1>5, <1>6, <1>7, <1>9, <1>10, <1>11, <1>12, Zenon
  DEF LNext, StartStep, StopStep

\* Components are closed in the reverse order, and all of them.
LEMMA StackReleases == StackInv => ReleasedInOrder
<1> SUFFICES ASSUME StackInv PROVE ReleasedInOrder
  BY Zenon
<1>1. up = Opened(Len(defers)) /\ Len(defers) \in Nat
  BY DEF StackInv
<1>2. ASSUME NEW i \in DOMAIN Components, NEW j \in DOMAIN Components, i < j, Components[j] \in up
      PROVE  Components[i] \in up
  <2>1. PICK k \in DOMAIN Components : k <= Len(defers) /\ Components[j] = Components[k]
    BY <1>1, <1>2, Zenon DEF Opened
  <2>2. j = k
    BY <2>1, ComponentFacts, Zenon
  <2>3. i <= Len(defers)
    BY <1>1, <1>2, <2>1, <2>2, DeferredFacts
  <2> QED BY <1>1, <2>3, Zenon DEF Opened
<1>3. main = "exit" => up = {}
  BY <1>1, OpenedAll, Zenon DEF StackInv
<1> QED BY <1>2, <1>3, Zenon DEF ReleasedInOrder
-----------------------------------------------------------------------------
(* The servers.                                                            *)

\* shutdownAll takes the three servers in turn, and none of them twice.
LEMMA TurnFacts ==
  /\ Range(Servers) = {"admin", "metrics", "proxy"}
  /\ Turn # 0 => Servers[Turn] \in Range(Servers)
  /\ Turn = 0 => \A s \in Range(Servers) : server[s] \in {"none", "shut"}
<1> DEFINE I == {i \in DOMAIN Servers : server[Servers[i]] \notin {"none", "shut"}}
<1>1. Len(Servers) = 3 /\ DOMAIN Servers = 1..3
  BY DEF Servers
<1>2. Range(Servers) = {"admin", "metrics", "proxy"}
  BY DEF Servers, Range
<1>3. Turn = IF I # {} THEN Min(I) ELSE 0
  BY Zenon DEF Turn
<1>4. I \in SUBSET Nat /\ (I # {} => Min(I) \in I)
  <2>1. I \in SUBSET Nat
    BY <1>1
  <2> HIDE DEF I
  <2> QED BY <2>1, NatMin, Zenon
<1>5. \A i \in 1..3 : Servers[i] \in Range(Servers)
  BY <1>1, Zenon DEF Range
<1>6. \A s \in Range(Servers) : \E i \in 1..3 : Servers[i] = s
  BY <1>1, Zenon DEF Range
<1>7. \A i \in I : i # 0 /\ i \in 1..3
  BY <1>1
<1>8. I = {} => \A i \in 1..3 : server[Servers[i]] \in {"none", "shut"}
  BY <1>1, Zenon
<1> HIDE DEF I
<1>9. Turn # 0 => Turn \in 1..3
  BY <1>3, <1>4, <1>7, Zenon
<1>10. Turn = 0 => I = {}
  BY <1>3, <1>4, <1>7, Zenon
<1> QED BY <1>2, <1>5, <1>6, <1>8, <1>9, <1>10, Zenon

\* A handler runs only for a request in flight, and may end it.
LEMMA FlightShrinks ==
  ASSUME GatewayInv, chosen' = chosen, NEW r \in Requests, RequestStep(r)
  PROVE  r \in InFlight /\ InFlight' \subseteq InFlight
<1>1. pc[r] \notin {"new", "done"}
  BY Zenon DEF RequestStep, Audit, Authn, RateLimit, BodyBuffer, Authz, Backend, Unwind, Ready, Probing
<1>2. \A q \in Requests \ {r} : pc'[q] = pc[q]
  BY RequestMoves, Zenon DEF Only
<1> QED BY <1>1, <1>2, Zenon DEF InFlight

\* Nothing is accepted on a server that does not listen.
LEMMA IdleStays ==
  ASSUME NEW s, Idle(s), server[s] # "listening",
         InFlight' \subseteq InFlight \/ server["proxy"] = "listening",
         \A t \in busy' \ busy : server[t] = "listening"
  PROVE  Idle(s)'
BY Zenon DEF Idle

\* A step of the requests or of main that leaves the servers alone.
LEMMA DrainStays ==
  ASSUME DrainInv, server' = server, busy' \subseteq Slow,
         InFlight' \subseteq InFlight \/ server["proxy"] = "listening",
         \A t \in busy' \ busy : server[t] = "listening",
         window = "expired" => window' = "expired",
         main' \in {"load", "open", "serve"} => window' = "unset",
         main' \in {"load", "open"} => main \in {"load", "open"},
         main' \in {"close", "exit"} => \A s \in Range(Servers) : server[s] \in {"none", "shut"}
  PROVE  DrainInv'
<1>1. ASSUME NEW s \in Range(Servers)
      PROVE  /\ server'[s] \in {"none", "starting"} => Idle(s)'
             /\ server'[s] = "shut" => Idle(s)' \/ window' = "expired"
             /\ main' \in {"load", "open"} => server'[s] = "none"
             /\ main' \in {"close", "exit"} => server'[s] \in {"none", "shut"}
  <2>1. /\ server[s] \in {"none", "starting"} => Idle(s)
        /\ server[s] = "shut" => Idle(s) \/ window = "expired"
        /\ main \in {"load", "open"} => server[s] = "none"
    BY Zenon DEF DrainInv
  <2>2. server[s] # "listening" /\ Idle(s) => Idle(s)'
    BY IdleStays, Zenon
  <2> QED BY <2>1, <2>2, Zenon
<1> QED BY <1>1, Zenon DEF DrainInv
\* A server moves on: it listens, fails, is closed or is shut.
LEMMA ServerMoves ==
  ASSUME DrainInv, NEW t \in Range(Servers), NEW v \in {"listening", "failed", "closing", "shut"},
         server[t] \notin {"none", "shut"}, server' = [server EXCEPT ![t] = v],
         v = "shut" => Idle(t) \/ window = "expired",
         UNCHANGED <<reqVars, busy, window, main>>
  PROVE  DrainInv'
<1>1. /\ server \in [Range(Servers) -> {"none", "starting", "listening", "failed", "closing", "shut"}]
      /\ busy \subseteq Slow /\ (main \in {"load", "open", "serve"} => window = "unset")
  BY Zenon DEF DrainInv
<1>2. server' \in [Range(Servers) -> {"none", "starting", "listening", "failed", "closing", "shut"}]
  BY <1>1, Zenon
<1>3. \A s \in Range(Servers) : server'[s] = IF s = t THEN v ELSE server[s]
  BY <1>1, Zenon
<1>4. \A s : Idle(s)' <=> Idle(s)
  BY Zenon DEF Idle, InFlight, reqVars
<1>5. main \notin {"load", "open", "close", "exit"}
  BY Zenon DEF DrainInv
<1>6. ASSUME NEW s \in Range(Servers)
      PROVE  /\ server'[s] \in {"none", "starting"} => Idle(s)'
             /\ server'[s] = "shut" => Idle(s)' \/ window' = "expired"
             /\ main' \in {"load", "open"} => server'[s] = "none"
             /\ main' \in {"close", "exit"} => server'[s] \in {"none", "shut"}
  BY <1>3, <1>4, <1>5, Zenon DEF DrainInv
<1> QED BY <1>1, <1>2, <1>6, Zenon DEF DrainInv

\* runServe starts the servers.
LEMMA StartDrains ==
  ASSUME DrainInv, Start
  PROVE  DrainInv'
<1>1. /\ main = "open" /\ main' = "serve" /\ busy' = busy /\ window' = window /\ UNCHANGED reqVars
      /\ server' = [s \in DOMAIN server |-> IF HasServer(s) THEN "starting" ELSE "none"]
  BY Zenon DEF Start
<1>2. /\ DOMAIN server = Range(Servers) /\ busy \subseteq Slow /\ window = "unset"
      /\ \A s \in Range(Servers) : Idle(s)
  BY <1>1, Zenon DEF DrainInv
<1>3. \A s \in Range(Servers) : server'[s] \in {"none", "starting"}
  BY <1>1, <1>2, Zenon
<1>4. server' \in [Range(Servers) -> {"none", "starting", "listening", "failed", "closing", "shut"}]
  BY <1>1, <1>2, Zenon
<1>5. \A s \in Range(Servers) : Idle(s)'
  BY <1>1, <1>2, Zenon DEF Idle, InFlight, reqVars
<1>6. \A s \in Range(Servers) : server'[s] # "shut"
  BY <1>3, Zenon
<1> QED BY <1>1, <1>2, <1>4, <1>5, <1>6, Zenon DEF DrainInv

\* Every step keeps the servers idle that should be.
LEMMA DrainStep ==
  ASSUME GatewayInv, DrainInv, [LNext]_vars
  PROVE  DrainInv'
<1> DEFINE Shut == \A s \in Range(Servers) : server[s] \in {"none", "shut"}
<1>1. /\ server \in [Range(Servers) -> {"none", "starting", "listening", "failed", "closing", "shut"}]
      /\ busy \subseteq Slow
      /\ main \in {"load", "open", "serve"} => window = "unset"
      /\ main \in {"load", "open", "close", "exit"} => Shut
  BY Zenon DEF DrainInv
<1>2. ASSUME UNCHANGED <<reqVars, srvVars>>, window' = window \/ window' = "expired" \/ window = "unset",
             main' \in {"load", "open", "serve"} => window' = "unset",
             main' \in {"load", "open"} => main \in {"load", "open"},
             main' \in {"close", "exit"} => Shut
      PROVE  DrainInv'
  <2>1. server' = server /\ busy' = busy /\ InFlight' = InFlight
    BY <1>2, Zenon DEF reqVars, srvVars, InFlight
  <2>2. window = "expired" => window' = "expired"
    BY <1>2, Zenon
  <2> QED BY <1>1, <1>2, <2>1, <2>2, DrainStays, Zenon
<1>3. CASE Load \/ Open \/ OpenFails \/ Killed
  <2>1. /\ main \in {"load", "open", "close"} /\ main' \in {"open", "exit", "close", "killed"}
        /\ main' = "open" => main \in {"load", "open"}
        /\ window' = window /\ UNCHANGED <<reqVars, srvVars>>
    BY <1>3, Zenon DEF Load, Open, OpenFails, Killed
  <2> QED BY <1>1, <1>2, <2>1, Zenon
<1>4. CASE Start
  BY <1>4, StartDrains, Zenon
<1>5. CASE Terminate \/ Close \/ Exit
  <2>1. /\ main' = main \/ (main = "close" /\ main' = "exit")
        /\ window' = window /\ UNCHANGED <<reqVars, srvVars>>
    BY <1>5, Zenon DEF Terminate, Close, Exit
  <2> QED BY <1>1, <1>2, <2>1, Zenon
<1>6. CASE Select \/ Expire
  <2>1. /\ main' = "shutdown" /\ UNCHANGED <<reqVars, srvVars>>
        /\ main = "serve" \/ window' = "expired"
    BY <1>6, Zenon DEF Select, Expire
  <2> QED BY <1>1, <1>2, <2>1, Zenon
<1>7. CASE Stopped
  <2>1. /\ main' = "close" /\ window' = window /\ UNCHANGED <<reqVars, srvVars>> /\ Shut
    BY <1>7, TurnFacts, Zenon DEF Stopped
  <2> QED BY <1>2, <2>1, Zenon
<1>8. CASE ShutdownCall \/ ShutdownReturn
  <2>1. /\ Turn # 0 /\ UNCHANGED <<reqVars, busy, window, main>>
        /\ server[Servers[Turn]] \notin {"none", "shut"}
        /\ \/ server' = [server EXCEPT ![Servers[Turn]] = "closing"]
           \/ /\ server' = [server EXCEPT ![Servers[Turn]] = "shut"]
              /\ Idle(Servers[Turn]) \/ window = "expired"
    BY <1>8, Zenon DEF ShutdownCall, ShutdownReturn, procVars
  <2>2. Servers[Turn] \in Range(Servers)
    BY <2>1, TurnFacts, Zenon
  <2> QED BY <2>1, <2>2, ServerMoves, Zenon
<1>9. ASSUME NEW s \in Range(Servers), Listen(s) \/ ServerFails(s)
      PROVE  DrainInv'
  <2>1. /\ UNCHANGED <<reqVars, busy, window, main>> /\ server[s] \in {"starting", "listening"}
        /\ \/ server' = [server EXCEPT ![s] = "listening"]
           \/ server' = [server EXCEPT ![s] = "failed"]
    BY <1>9, Zenon DEF Listen, ServerFails, procVars
  <2> QED BY <2>1, ServerMoves, Zenon
<1>10. ASSUME NEW s \in Range(Servers), AcceptOther(s) \/ FinishOther(s)
      PROVE  DrainInv'
  <2>1. /\ server' = server /\ UNCHANGED reqVars /\ window' = window /\ main' = main
        /\ \/ busy' = busy \cup {s} /\ s \in Slow /\ server[s] = "listening"
           \/ busy' = busy \ {s}
    BY <1>10, Zenon DEF AcceptOther, FinishOther, procVars
  <2>2. InFlight' = InFlight
    BY <2>1, Zenon DEF reqVars, InFlight
  <2> QED BY <1>1, <2>1, <2>2, DrainStays, Zenon
<1>11. ASSUME NEW r \in Requests, Accept(r) \/ ServeRequest(r)
      PROVE  DrainInv'
  <2>1. /\ UNCHANGED <<chosen, srvVars>> /\ window' = window /\ main' = main
        /\ server["proxy"] = "listening" \/ RequestStep(r)
    BY <1>11, Zenon DEF Accept, ServeRequest, procVars
  <2>2. server["proxy"] = "listening" \/ InFlight' \subseteq InFlight
    BY <2>1, FlightShrinks, Zenon
  <2>3. server' = server /\ busy' = busy
    BY <2>1, Zenon DEF srvVars
  <2> QED BY <1>1, <2>1, <2>2, <2>3, DrainStays, Zenon
<1>12. CASE KeyExpires \/ Cleanup \/ CleanupFails \/ CleanupStops
  <2>1. main' = main /\ window' = window /\ UNCHANGED <<reqVars, srvVars>>
    BY <1>12, Zenon DEF KeyExpires, Cleanup, CleanupFails, CleanupStops, procVars
  <2> QED BY <1>1, <1>2, <2>1, Zenon
<1>13. CASE UNCHANGED vars
  <2>1. main' = main /\ window' = window /\ UNCHANGED <<reqVars, srvVars>>
    BY <1>13, Zenon DEF vars, procVars
  <2> QED BY <1>1, <1>2, <2>1, Zenon
<1> QED
  BY <1>3, <1>4, <1>5, <1>6, <1>7, <1>8, <1>9, <1>10, <1>11, <1>12, <1>13, Zenon
  DEF LNext, StartStep, StopStep

\* runServe closes nothing under a request in flight within the window.
LEMMA Drains == DrainInv => DrainedOrExpired
<1> SUFFICES ASSUME DrainInv, main \in {"close", "exit"}, window # "expired"
             PROVE  InFlight = {} /\ busy = {}
  BY Zenon DEF DrainedOrExpired
<1>1. \A s \in Range(Servers) : Idle(s)
  BY Zenon DEF DrainInv
<1>2. busy \subseteq {"admin", "metrics"}
  BY LifecycleAssumption, Zenon DEF DrainInv
<1>3. Range(Servers) = {"admin", "metrics", "proxy"}
  BY TurnFacts, Zenon
<1> QED BY <1>1, <1>2, <1>3, Zenon DEF Idle
-----------------------------------------------------------------------------
(* The entries.                                                            *)

\* A request that reached PowerDNS ends in the audit middleware.
LEMMA EndsInAudit ==
  ASSUME GatewayInv, NEW r \in Requests, RequestStep(r),
         pc'[r] = "done", seen'[r].upstream # {}
  PROVE  Unwind(r)
<1>1. /\ DOMAIN pc = Requests /\ DOMAIN seen = Requests
      /\ DOMAIN seen[r] = {"client", "key", "plugins", "upstream"}
  BY Zenon DEF GatewayInv, DomainInv, RequestInv, ShapeInv
<1>2. pc[r] \in {"audit"} \cup Probing => seen[r].upstream = {}
  BY Zenon DEF GatewayInv, RequestInv, CallInv, Unasked, Probing
<1>3. ASSUME NEW l, pc' = [pc EXCEPT ![r] = l] PROVE l = "done"
  BY <1>1, <1>3, Zenon
<1>4. ASSUME NEW code, pc[r] \in {"audit"} \cup Probing, Answer(r, code, "done") PROVE FALSE
  <2>1. seen' = [seen EXCEPT ![r].client = code]
    BY <1>4, Zenon DEF Answer
  <2>2. seen'[r].upstream = seen[r].upstream
    BY <1>1, <2>1, Zenon
  <2> QED BY <1>2, <1>4, <2>2, Zenon
<1>5. ASSUME NEW code, Refuse(r, code) PROVE FALSE
  BY <1>3, <1>5, Zenon DEF Refuse, Answer
<1>6. ASSUME Pass(r), pc[r] \in {"audit", "authn", "ratelimit", "body", "authz"} PROVE FALSE
  BY <1>3, <1>6, PassNext, Zenon
<1>7. ~Audit(r)
  BY <1>4, <1>6 DEF Audit
<1>8. ~Authn(r)
  BY <1>5, <1>6, ZenonT(30) DEF Authn, Authenticate
<1>9. ~RateLimit(r)
  BY <1>5, <1>6, Zenon DEF RateLimit
<1>10. ~BodyBuffer(r)
  BY <1>5, <1>6, Zenon DEF BodyBuffer
<1>11. ~Authz(r)
  BY <1>3, <1>6, Zenon DEF Authz
<1>12. ~Backend(r)
  BY <1>3, Zenon DEF Backend
<1>13. ~Ready(r)
  BY <1>3, <1>4 DEF Ready
<1> QED BY <1>7, <1>8, <1>9, <1>10, <1>11, <1>12, <1>13, Zenon DEF RequestStep

\* While a request is in flight the audit log is open, or the window expired.
LEMMA AuditOutlives ==
  ASSUME StackInv, DrainInv, ConfigInv, ~Over, InFlight # {}
  PROVE  "audit" \in up \/ window = "expired"
<1>1. CASE main \in {"load", "open"}
  <2>1. "proxy" \in Range(Servers)
    BY TurnFacts, Zenon
  <2>2. Idle("proxy")
    BY <1>1, <2>1, Zenon DEF DrainInv
  <2> QED BY <2>2, Zenon DEF Idle
<1>2. CASE main \in {"serve", "shutdown"}
  <2>1. up = Opened(Len(Components) + 1)
    BY <1>2, DeferredFacts, Zenon DEF StackInv
  <2> QED BY <2>1, OpenedAll, Zenon
<1>3. CASE main = "close"
  BY <1>3, Drains, Zenon DEF DrainedOrExpired
<1> QED BY <1>1, <1>2, <1>3, Zenon DEF ConfigInv, Over

\* An expired window stays so, and nothing is opened any more.
LEMMA AfterExpiry ==
  ASSUME DrainInv, [LNext]_vars, window = "expired"
  PROVE  window' = "expired" /\ up' \subseteq up
<1>1. main \notin {"load", "open", "serve"}
  BY Zenon DEF DrainInv
<1>2. CASE StartStep \/ Terminate \/ Killed
  BY <1>1, <1>2, Zenon DEF StartStep, Load, Open, OpenFails, Start, Terminate, Killed
<1>3. CASE StopStep
  BY <1>1, <1>3, Zenon
  DEF StopStep, Select, Expire, ShutdownCall, ShutdownReturn, Stopped, Close, Exit, procVars
<1>4. ASSUME NEW s, Listen(s) \/ ServerFails(s) \/ AcceptOther(s) \/ FinishOther(s)
      PROVE  window' = window /\ up' = up
  BY <1>4, Zenon DEF Listen, ServerFails, AcceptOther, FinishOther, procVars
<1>5. ASSUME NEW r \in Requests, Accept(r) \/ ServeRequest(r)
      PROVE  window' = window /\ up' = up
  BY <1>5, Zenon DEF Accept, ServeRequest, procVars
<1>6. CASE KeyExpires \/ Cleanup \/ CleanupFails \/ CleanupStops
  BY <1>6, Zenon DEF KeyExpires, Cleanup, CleanupFails, CleanupStops, procVars
<1>7. CASE UNCHANGED vars
  BY <1>7, Zenon DEF vars, procVars
<1> QED BY <1>2, <1>3, <1>4, <1>5, <1>6, <1>7, Zenon DEF LNext

\* Every step of the process leaves the entries that are due in the log.
LEMMA RecordedStep ==
  ASSUME LInv, [LNext]_vars
  PROVE  RecordedUnlessExpired'
<1> DEFINE Missed == window = "expired" /\ "audit" \notin up
<1> SUFFICES ASSUME cfg'.AuditFailClosed, Logs', NEW q \in Requests,
                    pc'[q] = "done", seen'[q].upstream # {}
             PROVE  trail'[q] # {} \/ Missed'
  BY Zenon DEF RecordedUnlessExpired
<1>1. GatewayInv /\ StackInv /\ DrainInv /\ ConfigInv /\ RecordedUnlessExpired /\ chosen' = chosen
  BY Frames, Zenon DEF LInv
<1>2. cfg' = cfg
  BY <1>1, Zenon DEF cfg
<1>3. cfg.AuditFailClosed /\ Logs /\ (Missed => Missed')
  BY <1>1, <1>2, AfterExpiry, Zenon DEF Logs
<1> HIDE DEF Missed
<1>4. pc[q] = "done" /\ seen[q].upstream # {} => trail[q] # {} \/ Missed
  BY <1>1, <1>3, Zenon DEF RecordedUnlessExpired, Missed
<1>5. CASE pc'[q] = pc[q] /\ seen'[q] = seen[q] /\ trail'[q] = trail[q]
  BY <1>3, <1>4, <1>5, Zenon
<1>6. CASE UNCHANGED reqVars
  BY <1>5, <1>6, Zenon DEF reqVars
<1>7. ASSUME NEW r \in Requests, Accept(r) \/ ServeRequest(r)
      PROVE  trail'[q] # {} \/ Missed'
  <2>1. Arrive(r) \/ ArriveProbe(r) \/ (~Over /\ RequestStep(r))
    BY <1>7, Zenon DEF Accept, ServeRequest
  <2>2. Only(r)
    BY <1>1, <2>1, RequestMoves, Zenon
  <2>3. CASE q # r
    BY <1>5, <2>2, <2>3, Zenon DEF Only
  <2>4. CASE q = r
    <3>1. DOMAIN pc = Requests /\ DOMAIN trail = Requests
      BY <1>1, Zenon DEF GatewayInv, DomainInv
    <3>2. ~Arrive(r) /\ ~ArriveProbe(r)
      BY <2>4, <3>1, Zenon DEF Arrive, ArriveProbe
    <3>3. Unwind(r) /\ ~Over /\ r \in InFlight
      BY <1>1, <2>1, <2>4, <3>2, EndsInAudit, FlightShrinks, Zenon
    <3>4. "audit" \in up \/ Missed
      BY <1>1, <3>3, AuditOutlives, Zenon DEF Missed
    <3>5. "audit" \in up => trail' = [trail EXCEPT ![r] = trail[r] \cup {buildEntry(r)}]
      BY <1>3, <3>3, Zenon DEF Unwind
    <3> QED BY <1>3, <2>4, <3>1, <3>4, <3>5, Zenon
  <2> QED BY <2>3, <2>4, Zenon
<1> QED BY <1>6, <1>7, Frames, Zenon
-----------------------------------------------------------------------------
(* The configuration.                                                      *)

\* Nothing is opened from a configuration that Load refuses, and without
\* plugins their manager does not open.
LEMMA ConfigStep ==
  ASSUME ConfigInv, [LNext]_vars
  PROVE  ConfigInv'
<1>1. chosen' = chosen
  BY Frames, Zenon
<1>2. cfg' = cfg
  BY <1>1, Zenon DEF cfg
<1>3. ASSUME main' \in {"load", "open", "serve", "shutdown", "close", "exit", "killed"},
             main' \in {"open", "serve"} => main = "open" \/ main' = main \/ Loads(Configs[chosen]),
             \A c \in up' \ up : c = "plugins" => DOMAIN cfg.Plugins # {}
      PROVE  ConfigInv'
  BY <1>1, <1>2, <1>3, Zenon DEF ConfigInv
<1>4. main \in {"load", "open", "serve", "shutdown", "close", "exit", "killed"}
  BY Zenon DEF ConfigInv
<1>5. CASE Load
  <2>1. up' = up /\ (main' = "exit" \/ (main' = "open" /\ Loads(Configs[chosen])))
    BY <1>5, Zenon DEF Load
  <2> QED BY <1>3, <2>1, Zenon
<1>6. CASE Open
  <2>1. PICK c : (c = "plugins" => DOMAIN cfg.Plugins # {}) /\ up' = up \cup {c} /\ main' = main
    BY <1>6, Zenon DEF Open
  <2> QED BY <1>3, <1>4, <2>1, Zenon
<1>7. CASE OpenFails \/ Start \/ Killed \/ Stopped \/ Exit \/ Select
  <2>1. /\ up' = up /\ main' \in {"close", "serve", "killed", "exit", "shutdown"}
        /\ main' = "serve" => main = "open"
    BY <1>7, Zenon DEF OpenFails, Start, Killed, Stopped, Exit, Select
  <2> QED BY <1>3, <2>1, Zenon
<1>8. CASE Close \/ Terminate \/ Expire \/ ShutdownCall \/ ShutdownReturn
  <2>1. up' \subseteq up /\ main' = main
    BY <1>8, Zenon DEF Close, Terminate, Expire, ShutdownCall, ShutdownReturn, procVars
  <2> QED BY <1>3, <1>4, <2>1, Zenon
<1>9. ASSUME UNCHANGED <<up, procVars>>
      PROVE  ConfigInv'
  BY <1>3, <1>4, <1>9, Zenon DEF procVars
<1>10. ASSUME NEW s, Listen(s) \/ ServerFails(s) \/ AcceptOther(s) \/ FinishOther(s)
       PROVE  ConfigInv'
  BY <1>9, <1>10, Zenon DEF Listen, ServerFails, AcceptOther, FinishOther
<1>11. ASSUME NEW r, Accept(r) \/ ServeRequest(r)
       PROVE  ConfigInv'
  BY <1>9, <1>11, Zenon DEF Accept, ServeRequest
<1>12. CASE KeyExpires \/ Cleanup \/ CleanupFails \/ CleanupStops
  BY <1>9, <1>12, Zenon DEF KeyExpires, Cleanup, CleanupFails, CleanupStops
<1>13. CASE UNCHANGED vars
  BY <1>9, <1>13, Zenon DEF vars
<1> QED
  BY <1>5, <1>6, <1>7, <1>8, <1>10, <1>11, <1>12, <1>13, Zenon
  DEF LNext, StartStep, StopStep

\* What Load lets through, and runServe opens, meets the others' assumptions.
LEMMA ServesSound ==
  ASSUME GatewayInv, StackInv, ConfigInv
  PROVE  StartedConfigSound
<1> SUFFICES ASSUME main = "serve"
             PROVE  /\ cfg.AuditBufferSize > 0 /\ cfg.ShutdownWait > 0
                    /\ DOMAIN cfg.Plugins # {}
                    /\ \A p \in DOMAIN cfg.Plugins : LET plugin == PluginConfigResolved(cfg, p) IN
                         plugin.Timeout > 0 /\ plugin.FailureThreshold >= 0 /\ plugin.SuccessThreshold >= 0
                    /\ Len(cfg.Backends) > 1 => cfg.HealthCheck.Timeout < cfg.HealthCheck.Interval
                    /\ \A i \in DOMAIN cfg.HmacSecrets : LET s == cfg.HmacSecrets[i] IN
                         /\ s.Secret # <<>>
                         /\ Configs[chosen].HmacSecrets[i].Secret.file # "none" => Unterminated(s.Secret)
                    /\ IsInjective([i \in DOMAIN cfg.HmacSecrets |-> cfg.HmacSecrets[i].ID]) =>
                         hmacSecrets(cfg)[CurrentHmacSecret(cfg).ID] = CurrentHmacSecret(cfg).Secret
  BY Zenon DEF StartedConfigSound
<1> DEFINE c == Configs[chosen]
<1>1. chosen \in DOMAIN Configs /\ IsConfig(c) /\ Loads(c)
  BY LoadedFields, Zenon DEF GatewayInv, ConfigInv
<1>2. cfg = resolveSecretFiles(c) /\ validate(cfg)
  BY <1>1, Zenon DEF cfg, Loaded, Loads
<1>3. DOMAIN cfg.Plugins # {}
  <2>1. up = Opened(Len(Components) + 1)
    BY DeferredFacts, Zenon DEF StackInv
  <2>2. "plugins" \in up
    BY <2>1, OpenedAll, Zenon
  <2> QED BY <2>2, Zenon DEF ConfigInv
<1>4. cfg.AuditBufferSize > 0 /\ cfg.ShutdownWait > 0
  BY <1>2, Zenon DEF validate, ValidLimits
<1>5. Len(cfg.Backends) > 1 => cfg.HealthCheck.Timeout < cfg.HealthCheck.Interval
  BY <1>2, Zenon DEF validate, ValidHealthCheck
<1>6. ASSUME NEW p \in DOMAIN cfg.Plugins
      PROVE  /\ PluginConfigResolved(cfg, p).Timeout > 0
             /\ PluginConfigResolved(cfg, p).FailureThreshold >= 0
             /\ PluginConfigResolved(cfg, p).SuccessThreshold >= 0
  <2>1. "Plugins" \in DOMAIN c /\ "PluginDefaults" \in DOMAIN c
    BY <1>1, Zenon DEF IsConfig
  <2>2. cfg.Plugins = c.Plugins /\ cfg.PluginDefaults = c.PluginDefaults
    BY <1>1, <1>2, <2>1, ResolvedFields, Zenon
  <2>3. /\ c.PluginDefaults \in [Timeout : Int, FailureThreshold : Int, SuccessThreshold : Int, Cooldown : Int]
        /\ \A x \in DOMAIN c.Plugins : c.Plugins[x] \in PluginConfig
    BY <1>1, Zenon DEF IsConfig
  <2>4. ValidPlugins(cfg)
    BY <1>2, Zenon DEF validate
  <2> QED BY <2>2, <2>3, <2>4, PluginsSound, Zenon
<1>7. /\ \A i \in DOMAIN cfg.HmacSecrets :
           /\ cfg.HmacSecrets[i].Secret # <<>>
           /\ c.HmacSecrets[i].Secret.file # "none" => Unterminated(cfg.HmacSecrets[i].Secret)
      /\ IsInjective([i \in DOMAIN cfg.HmacSecrets |-> cfg.HmacSecrets[i].ID]) =>
           hmacSecrets(cfg)[CurrentHmacSecret(cfg).ID] = CurrentHmacSecret(cfg).Secret
  <2> HIDE DEF c
  <2> QED BY <1>1, <1>2, SecretsSound, Zenon
<1> QED BY <1>3, <1>4, <1>5, <1>6, <1>7, Zenon

-----------------------------------------------------------------------------
(* The theorems.                                                           *)

\* The process has just been started.
LEMMA ProcessInit == LInit => LInv
<1> SUFFICES ASSUME LInit PROVE LInv
  BY Zenon
<1>1. /\ Init /\ main = "load" /\ defers = <<>> /\ up = {} /\ busy = {} /\ window = "unset"
      /\ server = [s \in Range(Servers) |-> "none"]
  BY Zenon DEF LInit, Init
<1>2. GatewayInv
  BY <1>1, GatewayInit, Zenon
<1>3. StackInv
  <2>1. defers \in Seq(Parts) /\ Len(defers) = 0 /\ DOMAIN defers = {}
    BY <1>1
  <2>2. 0 <= Len(Deferred)
    BY DeferredFacts
  <2> QED BY <1>1, <2>1, <2>2, OpenedAll, Zenon DEF StackInv
<1>4. DrainInv
  <2>1. InFlight = {}
    BY <1>1, Zenon DEF Init, InFlight
  <2>2. \A s : Idle(s)
    BY <1>1, <2>1, Zenon DEF Idle
  <2> QED BY <1>1, <2>2, Zenon DEF DrainInv
<1>5. ConfigInv
  BY <1>1, Zenon DEF ConfigInv
<1>6. RecordedUnlessExpired
  BY <1>1, Zenon DEF RecordedUnlessExpired, Init
<1> QED BY <1>2, <1>3, <1>4, <1>5, <1>6, Zenon DEF LInv

\* The chain's invariant and the process's hold together.
LEMMA ProcessInv == LSpec => []LInv
<1>1. LInv /\ [LNext]_vars => LInv'
  BY ChainStep, StackStep, DrainStep, ConfigStep, RecordedStep, Zenon DEF LInv
<1> QED BY <1>1, ProcessInit, PTL DEF LSpec

\* PowerDNS gets only what a valid key, an address of its allowlist and its
\* plugins cleared, as they saw it, and no credential of the client (the chain
\* of newProxyServer), for any number of concurrent requests.
THEOREM ForwardsAreCleared == LSpec => []ForwardCleared
<1>1. LInv => ForwardCleared
  BY ForwardsCleared, Zenon DEF LInv
<1> QED BY <1>1, ProcessInv, PTL

\* The entry the audit middleware writes agrees with what the client and
\* PowerDNS have seen, and with the address the allowlist admitted.
THEOREM EntriesAreFaithful == LSpec => []EntryFaithful
<1>1. LInv => EntryFaithful
  BY EntriesFaithful, Zenon DEF LInv
<1> QED BY <1>1, ProcessInv, PTL

\* No value under a redacted field is in the entry of a forwarded request, for
\* any body, any set of fields and any limit (sanitizeBody).
THEOREM BodiesAreDiscreet == LSpec => []BodyDiscreet
<1>1. LInv => BodyDiscreet
  BY BodiesDiscreet, Zenon DEF LInv
<1> QED BY <1>1, ProcessInv, PTL

\* runServe closes its components only once all servers have drained or the
\* shutdown window has expired.
THEOREM ShutdownDrains == LSpec => []DrainedOrExpired
<1>1. LInv => DrainedOrExpired
  BY Drains, Zenon DEF LInv
<1> QED BY <1>1, ProcessInv, PTL

\* In fail-closed mode what PowerDNS got is in the audit log, through panics
\* and shutdown, unless the window expired.
THEOREM ForwardsAreRecorded == LSpec => []RecordedUnlessExpired
<1>1. LInv => RecordedUnlessExpired
  BY Zenon DEF LInv
<1> QED BY <1>1, ProcessInv, PTL

\* runServe's deferred calls close the components in the reverse order.
THEOREM ReleasesAreOrdered == LSpec => []ReleasedInOrder
<1>1. LInv => ReleasedInOrder
  BY StackReleases, Zenon DEF LInv
<1> QED BY <1>1, ProcessInv, PTL

\* Every configuration that config.Load accepts and runServe serves meets what
\* the other components assume of it.
THEOREM ServedConfigIsSound == LSpec => []StartedConfigSound
<1>1. LInv => StartedConfigSound
  BY ServesSound, Zenon DEF LInv
<1> QED BY <1>1, ProcessInv, PTL
=============================================================================

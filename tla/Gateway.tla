------------------------------ MODULE Gateway -------------------------------
(***************************************************************************)
(* What a request to the proxy server goes through (newProxyServer in      *)
(* cmd/pdag/serve.go): the chain of middlewares down to the upstream call  *)
(* and back up through the audit middleware, and the readiness probe.      *)
(*                                                                         *)
(* The chain runs on the request's own goroutine; what it calls (store,    *)
(* audit log, limiter, plugins, backends) is shared, has modules of its    *)
(* own, and shows here as the outcomes those modules allow.  A middleware  *)
(* is one step.  The variable up tells which components are not yet closed.*)
(*                                                                         *)
(* Go contexts are values: a middleware that derives one hands it down the *)
(* chain, and an outer middleware never sees it.  What flows back up goes  *)
(* through the pointers the outer middlewares have put in the context.     *)
(***************************************************************************)
EXTENDS Config, ClientIP, AuditBody

CONSTANTS
  Requests,       \* requests to the proxy server
  Inputs,         \* what a client may send
  Records,        \* key records a lookup may find
  Headers,        \* headers every request carries
  UpstreamCodes,  \* statuses PowerDNS answers with
  Configs         \* configurations the process may be started with

\* An absent body has no content.  Statuses are numbers.
ASSUME GatewayAssumption ==
  /\ \A in \in Inputs :
       /\ in \in [peer : STRING, lines : Seq(Seq(STRING)), apiKey : STRING,
                 body : [sent : {"none", "whole", "broken"}, declared : Int,
                         json : BOOLEAN, leaves : Seq(Leaves)]]
       /\ in.body.sent = "none" => ~in.body.json /\ in.body.leaves = <<>>
  /\ UpstreamCodes \subseteq Nat
  /\ \A i \in DOMAIN Configs : IsConfig(Configs[i])

VARIABLES
  chosen,  \* the configuration, an index of Configs
  up,      \* components that are open
  pc,      \* the middleware each request is in
  input,   \* what its client sent
  ctx,     \* the context, as the innermost middleware reached has it
  outer,   \* the context the audit middleware works with
  cells,   \* what the chain shares through pointers
  seen,    \* what each side got to see of the request
  trail    \* the entries the audit log has accepted

reqVars == <<pc, input, ctx, outer, cells, seen, trail>>

Loaded ==
  [i \in DOMAIN Configs |->
     IF SecretsResolvable(Configs[i]) THEN resolveSecretFiles(Configs[i]) ELSE Configs[i]]

cfg == Loaded[chosen]

EmptyBody == [json |-> FALSE, leaves |-> <<>>]
NotLogged == [inline |-> FALSE, leaves |-> <<>>]

NoContext == [principal |-> "", keyID |-> "", roles |-> {}, body |-> EmptyBody]

\* StatusRecorder.StatusCode, the audit middleware's bodyBytes and AuthzResult.
NewCells == [status |-> 200, bytes |-> EmptyBody, decision |-> ""]

\* The status the client got (0: none), the key record the request was
\* authenticated with, the request as the plugins and as PowerDNS got it.
Unseen == [client |-> 0, key |-> {}, plugins |-> {}, upstream |-> {}]

NoInput ==
  [peer |-> NoIP, lines |-> <<>>, apiKey |-> "missing",
   body |-> [sent |-> "none", declared |-> 0, json |-> FALSE, leaves |-> <<>>]]

Init ==
  /\ chosen \in DOMAIN Configs
  /\ up = {}
  /\ pc = [r \in Requests |-> "new"]
  /\ input = [r \in Requests |-> NoInput]
  /\ ctx = [r \in Requests |-> NoContext]
  /\ outer = [r \in Requests |-> NoContext]
  /\ cells = [r \in Requests |-> NewCells]
  /\ seen = [r \in Requests |-> Unseen]
  /\ trail = [r \in Requests |-> {}]

Probing == {"readyStore", "readyPlugins", "readyBackend"}
InFlight == {r \in Requests : pc[r] \notin {"new", "done"}}

\* The in-memory store has nothing to close.
StoreAnswers == "store" \in up \/ cfg.DB.DSN = ""

\* Without audit_log the publisher is Noop, which takes and discards anything.
Logs == cfg.AuditLog # ""

-----------------------------------------------------------------------------
(* The order of the chain, and the ways on from a middleware.              *)

\* Mutant: the body is buffered for the plugins after they were asked.
Chain_late == <<"audit", "authn", "ratelimit", "authz", "body", "backend", "unwind">>

Chain == <<"audit", "authn", "ratelimit", "body", "authz", "backend", "unwind">>

\* next.ServeHTTP
Pass(r) ==
  pc' = [pc EXCEPT ![r] = Chain[1 + CHOOSE i \in DOMAIN Chain : Chain[i] = pc[r]]]

\* http.Error: the StatusRecorder notes the code on its way to the client.
Answer(r, code, loc) ==
  /\ cells' = [cells EXCEPT ![r].status = code]
  /\ seen' = [seen EXCEPT ![r].client = code]
  /\ pc' = [pc EXCEPT ![r] = loc]

Refuse(r, code) ==
  /\ Answer(r, code, "unwind")
  /\ UNCHANGED <<input, ctx, outer, trail>>

-----------------------------------------------------------------------------
(* Down the chain.                                                         *)

\* RequestID, metrics and tracing: the status cell is allocated.
Arrive(r) ==
  /\ pc[r] = "new"
  /\ input' \in {[input EXCEPT ![r] = in] : in \in Inputs}
  /\ pc' = [pc EXCEPT ![r] = "audit"]
  /\ UNCHANGED <<ctx, outer, cells, seen, trail>>

\* The audit middleware keeps the context it was called with.  In fail-closed
\* mode it answers 503, without an entry, if Reserve has no slot to give.
Audit(r) ==
  /\ pc[r] = "audit"
  /\ \/ /\ "audit" \in up \/ ~cfg.AuditFailClosed \/ ~Logs
        /\ Pass(r)
        /\ outer' = [outer EXCEPT ![r] = ctx[r]]
        /\ UNCHANGED <<input, ctx, cells, seen, trail>>
     \/ /\ cfg.AuditFailClosed /\ Logs
        /\ Answer(r, 503, "done")
        /\ UNCHANGED <<input, ctx, outer, trail>>

\* resolver.ClientIP, for the allowlist and for the entry alike.
SourceIP(r) == ResolveIP(input[r].peer, input[r].lines, Trusted(cfg))

\* Mutant: the allowlist is matched against the peer.
Listed_peer(r, rec) == rec.cidrs = {} \/ input[r].peer \in rec.cidrs

\* The key's allowlist, when it has one, names the client's address.
Listed(r, rec) == rec.cidrs = {} \/ SourceIP(r) \in rec.cidrs \ {NoIP}

\* The context handed on has the key's principal, ID and roles.
Authenticate(r, rec) ==
  /\ ctx' = [ctx EXCEPT ![r].principal = rec.principal, ![r].keyID = rec.id, ![r].roles = rec.roles]
  /\ seen' = [seen EXCEPT ![r].key = {rec}]
  /\ Pass(r)
  /\ UNCHANGED <<input, outer, cells, trail>>

\* hmac.Middleware.  rec.check is what verifying the secret, then the enabled
\* flag and the expiry, come to.
Authn(r) ==
  /\ pc[r] = "authn"
  /\ \/ input[r].apiKey # "presented" /\ Refuse(r, 401)
     \/ input[r].apiKey = "presented" /\ Refuse(r, 500)
     \/ input[r].apiKey = "presented" /\ StoreAnswers /\ Refuse(r, 401)
     \/ /\ input[r].apiKey = "presented" /\ StoreAnswers
        /\ \E rec \in Records :
             IF rec.check = "ok" /\ Listed(r, rec)
             THEN Authenticate(r, rec)
             ELSE Refuse(r, IF rec.check = "authn_error" THEN 500 ELSE 401)

\* ratelimit.Middleware: a caller without a principal is not limited.
RateLimit(r) ==
  /\ pc[r] = "ratelimit"
  /\ \/ Pass(r) /\ UNCHANGED <<input, ctx, outer, cells, seen, trail>>
     \/ cfg.RateLimit.Enabled /\ ctx[r].principal # "" /\ Refuse(r, 429)

TooLarge(body) == body.declared > cfg.MaxBodySize \/ Len(body.leaves) > cfg.MaxBodySize

Content(body) == [json |-> body.json, leaves |-> body.leaves]

\* BodyBuffer: an absent body passes; a declared length over the limit is not
\* read; a read that fails is answered 500, an overlong one 413.
BodyBuffer(r) ==
  LET body == input[r].body IN
  /\ pc[r] = "body"
  /\ \/ body.sent = "none" /\ Pass(r) /\ UNCHANGED <<input, ctx, outer, cells, seen, trail>>
     \/ body.sent # "none" /\ TooLarge(body) /\ Refuse(r, 413)
     \/ body.sent = "broken" /\ body.declared <= cfg.MaxBodySize /\ Refuse(r, 500)
     \/ /\ body.sent = "whole" /\ ~TooLarge(body)
        /\ ctx' = [ctx EXCEPT ![r].body = Content(body)]
        /\ cells' = [cells EXCEPT ![r].bytes = IF cfg.AuditLogBody THEN Content(body) ELSE @]
        /\ Pass(r)
        /\ UNCHANGED <<input, outer, seen, trail>>

sensitiveHeaders == {"X-Api-Key", "Authorization", "Cookie", "Proxy-Authorization"}

\* The request the plugins get: credentials are blanked.
pbReq(r) ==
  [principal |-> ctx[r].principal, body |-> ctx[r].body,
   headers |-> [h \in Headers |-> IF h \in sensitiveHeaders THEN "REDACTED" ELSE "client"]]

\* authz.Middleware: no roles, or a decision other than allow, is a 403.
Authz(r) ==
  /\ pc[r] = "authz"
  /\ \/ /\ ctx[r].roles # {} /\ "plugins" \in up
        /\ cells' = [cells EXCEPT ![r].decision = "allow"]
        /\ seen' = [seen EXCEPT ![r].plugins = {pbReq(r)}]
        /\ Pass(r)
     \/ /\ cells' = [cells EXCEPT ![r].decision = "deny", ![r].status = 403]
        /\ seen' = [seen EXCEPT ![r].plugins = IF ctx[r].roles = {} THEN {} ELSE {pbReq(r)},
                                ![r].client = 403]
        /\ pc' = [pc EXCEPT ![r] = "unwind"]
  /\ UNCHANGED <<input, ctx, outer, trail>>

\* Rewrite: every client header is dropped, then these are set.
Rewrite ==
  [h \in (Headers \cap {"Content-Type", "Accept"}) \cup {"X-Api-Key"} |->
     IF h = "X-Api-Key" THEN "gateway" ELSE "client"]

\* The reverse proxy: PowerDNS answers, the transport fails (502), the client
\* has gone and nothing is written, or copying the answer fails and the
\* handler panics after the status went out.
Backend(r) ==
  /\ pc[r] = "backend"
  /\ \E code \in UpstreamCodes \cup {502, 0}, loc \in {"unwind", "panic"} :
       /\ loc = "panic" => code \in UpstreamCodes
       /\ cells' = [cells EXCEPT ![r].status = IF code = 0 THEN @ ELSE code]
       /\ seen' = [seen EXCEPT ![r].client = code,
                               ![r].upstream = {[headers |-> Rewrite, body |-> ctx[r].body]}]
       /\ pc' = [pc EXCEPT ![r] = loc]
  /\ UNCHANGED <<input, ctx, outer, trail>>

-----------------------------------------------------------------------------
(* Back up: the audit middleware.                                          *)

buildEntry(r) ==
  [status |-> cells[r].status, source |-> SourceIP(r), decision |-> cells[r].decision,
   principal |-> outer[r].principal, keyID |-> outer[r].keyID,
   body |-> IF cfg.AuditLogBody /\ cells[r].bytes.leaves # <<>>
            THEN sanitizeBody(cells[r].bytes, cfg.AuditBodyMaxBytes, RedactFields(cfg))
            ELSE NotLogged]

\* Mutant: the commit is not deferred.
Unwind_undeferred(r) ==
  /\ pc[r] \in {"unwind", "panic"}
  /\ \/ /\ Logs /\ "audit" \in up /\ pc[r] = "unwind"
        /\ trail' = [trail EXCEPT ![r] = @ \cup {buildEntry(r)}]
     \/ /\ ~cfg.AuditFailClosed \/ ~Logs \/ "audit" \notin up \/ pc[r] = "panic"
        /\ UNCHANGED trail
  /\ pc' = [pc EXCEPT ![r] = "done"]
  /\ UNCHANGED <<input, ctx, outer, cells, seen>>

\* In fail-closed mode the reserved slot takes the entry, also on a panic;
\* otherwise Publish may find no room, and a panic skips it.  A closed log
\* takes none.
Unwind(r) ==
  /\ pc[r] \in {"unwind", "panic"}
  /\ \/ /\ Logs /\ "audit" \in up
        /\ cfg.AuditFailClosed \/ pc[r] = "unwind"
        /\ trail' = [trail EXCEPT ![r] = @ \cup {buildEntry(r)}]
     \/ /\ ~cfg.AuditFailClosed \/ ~Logs \/ "audit" \notin up
        /\ UNCHANGED trail
  /\ pc' = [pc EXCEPT ![r] = "done"]
  /\ UNCHANGED <<input, ctx, outer, cells, seen>>

-----------------------------------------------------------------------------
(* GET /readyz, which skips the chain.                                     *)

ArriveProbe(r) ==
  /\ pc[r] = "new"
  /\ pc' = [pc EXCEPT ![r] = "readyStore"]
  /\ UNCHANGED <<input, ctx, outer, cells, seen, trail>>

\* readinessCheck asks the store, the plugins and the backend in turn; the
\* first that is not well ends it.
Ready(r) ==
  /\ pc[r] \in Probing
  /\ UNCHANGED <<input, ctx, outer, trail>>
  /\ \/ Answer(r, 503, "done")
     \/ /\ pc[r] = "readyStore" /\ StoreAnswers
        /\ pc' = [pc EXCEPT ![r] = "readyPlugins"] /\ UNCHANGED <<cells, seen>>
     \/ /\ pc[r] = "readyPlugins" /\ "plugins" \in up
        /\ pc' = [pc EXCEPT ![r] = "readyBackend"] /\ UNCHANGED <<cells, seen>>
     \/ pc[r] = "readyBackend" /\ Answer(r, 200, "done")

\* What the request's goroutine does once the request has arrived.
RequestStep(r) ==
  \/ Audit(r) \/ Authn(r) \/ RateLimit(r) \/ BodyBuffer(r) \/ Authz(r)
  \/ Backend(r) \/ Unwind(r) \/ Ready(r)

-----------------------------------------------------------------------------
(* Properties.                                                             *)

\* The hops of the first X-Forwarded-For line vouch for address a: the whole
\* header, unless the client sent several lines.
Attested(r, a) == Vouched(a, input[r].peer, <<Get(input[r].lines)>>, Trusted(cfg))

\* PowerDNS gets a request only after a valid key was presented from an
\* address its allowlist names (and which the hops it came through vouch
\* for, those of the first header line), and the plugins of a role of that
\* key said allow to the principal of that key and to the very body that is
\* sent on; no credential of the client goes with it, to PowerDNS or to the
\* plugins.
ForwardCleared ==
  \A r \in Requests : \A sent \in seen[r].upstream :
    \E rec \in seen[r].key, asked \in seen[r].plugins :
      /\ rec.check = "ok" /\ rec.roles # {}
      /\ rec.cidrs # {} => \E a \in rec.cidrs : Attested(r, a)
      /\ asked.principal = rec.principal /\ asked.body = sent.body
      /\ sent.body = Content(input[r].body)
      /\ cells[r].decision = "allow"
      /\ \A h \in sensitiveHeaders :
           /\ h \in DOMAIN asked.headers => asked.headers[h] # "client"
           /\ h \in DOMAIN sent.headers => sent.headers[h] # "client"

\* The audit entry tells what happened, although the middleware that writes it
\* sees the request only from outside: the status is the one the client got,
\* the decision is allow exactly when PowerDNS was called and deny only with a
\* 403, the source is an address the hops vouch for (those of the first header
\* line) and the one the key's allowlist admitted.
EntryFaithful ==
  \A r \in Requests : \A e \in trail[r] :
    /\ seen[r].client # 0 => e.status = seen[r].client
    /\ e.decision = "allow" <=> seen[r].upstream # {}
    /\ e.decision = "deny" => e.status = 403
    /\ Attested(r, e.source)
    /\ \A rec \in seen[r].key : rec.cidrs # {} => e.source \in rec.cidrs

\* What audit_log_body and audit_redact_fields come to: the entry of a request
\* that reached PowerDNS has a body exactly when one was sent, and no value
\* under a redacted field of it, however deep, and whether or not it was cut;
\* the exception is JSON with a number out of float64's range, which cannot be
\* decoded and is logged as it was sent.
BodyDiscreet ==
  \A r \in Requests : \A e \in trail[r], sent \in seen[r].upstream :
    /\ cfg.AuditLogBody => (e.body.leaves = <<>> <=> sent.body.leaves = <<>>)
    /\ Discreet(e.body, sent.body, RedactFields(cfg))

\* What SECURITY.md says of the audit log: the entry of an authenticated action
\* has the principal and the key ID it was authenticated with.
PrincipalRecorded ==
  \A r \in Requests : \A e \in trail[r], rec \in seen[r].key :
    e.principal = rec.principal /\ e.keyID = rec.id
=============================================================================

# PDAG: formal models, model checking and proofs

PDAG (PowerDNS Audit Gateway) is an HTTP proxy in front of the PowerDNS API.
It authenticates callers by API key, limits their rate, asks plugin processes
whether a request is allowed, forwards it to one of several PowerDNS backends
and keeps an audit trail. This directory holds TLA+ models of its components
and of the process they make up, the TLC runs that check them on small
instances, and TLAPS proofs of the results that hold for every instance.
`PROJECT.json` lists components, runs, mutants, the source lines of every
definition, findings, hazards and theorems.

## 1. The system and what is modelled

A proxied request passes, from the outside in: request id, metrics, tracing,
**audit**, **authentication**, **rate limit**, **body buffer**,
**authorization**, **backend** (`cmd/pdag/serve.go`, `newProxyServer`). Beside
it run the admin API, the `pdag key` command, the key cleanup goroutine, health
checks, plugin restarts, SIGHUP handling and shutdown.

| Part | Source | Modules | Status |
|---|---|---|---|
| Audit middleware, file logger | `internal/audit/middleware.go`, `internal/audit/file` | `AuditLog`, abstract `AuditTrail` | modelled, proved |
| Plugin manager, authorization fan-out | `internal/authz/plugin/manager.go`, `internal/authz` | `PluginManager` | modelled, proved |
| Circuit breaker | `internal/authz/plugin/circuitbreaker.go` | `CircuitBreaker` | modelled, proved |
| Load balancer, health checks | `internal/proxy/balancer` | `Balancer` | modelled, proved |
| Rate limiter | `internal/ratelimit/token` | `RateLimiter` | modelled, proved |
| Key store | `internal/store` | `KeyTable`, `KeyListing` | modelled, proved |
| Array codec of the store | `internal/store/postgres/pgarray.go` | `PgArray` | modelled, proved |
| Admin API, key command, key cleanup | `internal/admin`, `cmd/pdag/key.go`, `cmd/pdag/serve.go` | `KeyAdmin`, `KeyListing` | all operations that change keys, and listing; proved |
| Authentication | `internal/authn/hmac` | `KeyAdmin`, `Gateway` | modelled, proved |
| Middleware chain with its contexts, body buffer, rate limit and authorization middlewares, single-backend proxy, readiness check | `internal/middleware`, `internal/ratelimit/middleware.go`, `internal/authz/middleware.go`, `internal/proxy/single`, `cmd/pdag/serve.go` | `Gateway` | modelled, proved |
| Client address, body redaction, configuration | `internal/clientip`, `internal/audit/body.go`, `internal/config` | `ClientIP`, `AuditBody`, `Config` | modelled, proved |
| Start-up, signals, shutdown, exit | `cmd/pdag/serve.go` | `Lifecycle`, `AuditLog` (SIGHUP) | modelled, proved |
| Path normalisation, metrics, tracing, SDK, generated protocol code, bundled plugins, other commands, benchmark | `internal/httproute`, `internal/metrics`, `internal/tracing`, `sdk`, `proto`, `plugins`, `bench` | - | not modelled (section 5) |

## 2. The modules

Every goroutine is a process whose steps are cut where another goroutine can
see or change what it uses: at channel operations, lock acquisitions, atomic
loads and stores, and database statements. What happens under one lock is one
step. Operators named `X_something` are mutants: faulty variants of `X` that
show that a property depends on the code it is about.

**AuditLog.** A request is identified with its entry. `pc` is where its
goroutine is in `Middleware` (and in `Reserve`, `Publish` or the deferred
commit); `ch` and `sem` are the logger's channels, `flusher` and `cur`
`flushLoop`, `closer` the goroutine that calls `Close`, `log` the file.
`pubMu` is derived from the program counters: `Publish` and `Reserve` read-lock
it while they select, `Close` write-locks it, and a waiting writer keeps new
readers out. `Encode` follows `json.Encoder`, in which an I/O error sticks
until a reopen builds a new encoder while an entry that cannot be encoded
affects nothing else. What an entry says is left out.

**AuditTrail** says what fail-closed auditing promises, without buffer, lock or
goroutine: a request is refused or admitted before its action can go upstream,
and at most `Window` are open at a time. `AuditLog!trail` is the refinement
mapping.

**CircuitBreaker** gives the breaker's methods as operators on its fields, each
atomic because it holds `cb.mu`. Time is one bit: the cooldown since the last
failure is over.

**PluginManager.** Instance `<<p, n>>` is the n-th `pluginInstance` of plugin
`p`. `plugins` is the map, `snap` what each `Authorize` loaded, `call` where
each plugin call is, `restart` where the restart goroutine of each instance is.
Receiving an answer and recording it in the breaker are separate steps. The
state of a process, `Exited` and `Kill` are go-plugin's and external. A call
that outlasts the cooldown is possible only with `SlowCalls` (a plugin timeout
longer than its cooldown, which the configuration allows). `restarting` is not
a variable: it is set in all states of `restart` but `"none"`. `vouched`,
`probes` and `lost` are history: what each plugin answered, which calls were
admitted half-open, and which instances had such a call end unrecorded.

**Balancer.** `req` holds `ServeHTTP`'s local variables. Loading the healthy
flag and calling the `ReverseProxy` is one step; the transport's error, the
`ErrorHandler`, the answer of a health endpoint and the storing of a check's
result are separate. The counter wraps at `Wrap` (2^64 in the code). The
backends in `Unaskable` are those whose health URL does not parse: a check of
one ends without storing anything (`checkOneFails`). `MaxServed` bounds the
counter; from `Wrap` on it bounds nothing, and requests follow one another
without end.

**RateLimiter** is the view of one principal, as principals share nothing. The
clock is read before the bucket is looked up and used after its lock is taken,
so Allows apply their readings out of order. A token is `Cost` units and a tick
adds one unit, which makes the rate an integer.

**KeyTable** has the store's operations on the `api_keys` table. **KeyAdmin**
runs them: each handler is validation, the change, the audit row (or the
compensation) and the reply, every statement atomic and free to fail. The reply
of `createKey` and `rotateKey` is a step of its own, `Reply`: the secret in it
arrives (`handed`) or is lost on the way (`unread`), which the handler does not
learn. `Crash`
ends the server process between any two statements; the row a handler was
inserting may or may not be in the table. Each proxied request reads its record
in one step and checks it in a later one. `good` collects, for each request,
the roles that were due to it at some moment since it arrived.

Abstractions of `KeyAdmin`: random ids and secrets are fresh; HMAC is injective
and there is one HMAC key, so that verification is equality of secrets; the
principal is left out; a refused admin request (bad token, rate limit, bad
body) changes nothing and is left out; a client that goes away shows up as
failing statements of its handler; `MayLoseReply` applies to the statements
that change the table; the cleanup goroutine is not stopped by shutdown; a
`pdag key` command that finds no key or fails changes nothing and is left out.

**KeyListing** adds to `KeyAdmin` a client that walks `GET /admin/keys` page by
page while the handlers change the table. `created_at` is the only sort key, so
keys with equal times come in any order on every page. **PgArray** is the codec
that roles and allowlists pass through on their way to and from a `text[]`
column, character by character, as the code's scanner works.

**Config** is `resolveSecretFiles` and `validate`: which configurations
`runServe` starts with, and what it takes from them. **ClientIP** is the walk
over `X-Forwarded-For`; a request may have several such lines, of which
`Header.Get` returns the first. `Vouched` says what a chain of trusted hops is
without a walk, over all lines. **AuditBody** is `sanitizeBody` on the leaves of
a JSON value with the paths that lead to them; `Decodes` and `Marshal` are the
way through `any` and back, on which a number becomes a `float64` or, if it is
out of range, stops the decoding. `Discreet` says what redaction does without
the recursion.

**Gateway** is the middleware chain. A middleware is one step, as the chain runs
on the request's own goroutine; what it calls (store, log, limiter, plugins,
backend) is shared, has modules of its own, and shows here as the outcomes those
modules allow. Go contexts are values: `ctx` is the one the innermost
middleware has, `outer` the one the audit middleware kept; `cells` is what
comes back up through pointers (status, body, decision). `seen` is history:
what the client, the plugins and PowerDNS got. Headers are a set of names,
each with its origin. The request ID is left out.

**Lifecycle** puts the process around `Gateway`: `main` is where `runServe` is,
`defers` its stack of deferred closes, `up` the components that are open. The
three servers are shut down one after the other in one window. Nothing waits
for the cleanup goroutine. Any signal before the handlers are installed, and a
SIGHUP after `sighupDone` is closed, kills the process as it stands.

## 3. The runs

Passing runs:

| Run | Properties | Distinct states |
|---|---|---|
| `audit_fail_closed` | `PermitAccounting`, `CommitNeverBlocks`, `UnrecordedWindow`, `ImplementsTrail`, `RequestsFinish`, `CloseReturns` | 71 790 |
| `audit_fail_open` | `EntriesAccounted`, `CloseDrains`, `ReopenServed` | 88 773 |
| `plugin_restart` | `ProcessesOwned`, `RestarterIsCurrent`, `AuthorizeReturns`, `RestartSettles` | 59 484 |
| `plugin_fanout` | `DecisionSound`, `OneProbe`, `ProbeOutstanding` | 618 072 |
| `balancer` | `NotReplayed`, `UnhealthyHasCause`, `OtherBackend`, `GiveUpJustified`, `Readmitted`, `CloseCompletes` | 436 261 |
| `limiter_bounds` | `GrantsBounded`, `NoDebt`, `OneBucketPerEviction` | 391 916 |
| `key_audit` | `InconsistencyCounted`, `NoSilentLockout`, `ListingComplete`, `ArrayRoundTrip` | 747 799 |
| `key_authn` | `AuthnCoherent`, `PurgeHarmless` | 499 251 |
| `gateway` | `ForwardCleared`, `EntryFaithful`, `BodyDiscreet`, `DrainedOrExpired`, `RecordedUnlessExpired`, `ReleasedInOrder`, `StartedConfigSound`, `StopsEventually`, `CleanupGoesOn` | 262 584 |

What they show.

- Audit: in fail-closed mode permits are neither leaked nor released twice, the
  send of `commit` never blocks, and a crash loses the records of at most
  `audit_buffer_size` forwarded actions. In fail-open mode every entry is
  written, pending or counted (as long as handlers do not panic). No request
  hangs, and `Close` returns while commits keep arriving.
- Plugins: `Authorize` allows exactly when a plugin said ALLOW; restarts neither
  overtake each other nor leave processes behind.
- Balancer: no unsafe request is sent twice, no backend is blamed for a client
  that left, a 502 has a reason, a recovered backend comes back again and again
  although requests keep failing late, if its health URL parses.
- Limiter: grants stay within burst plus rate although clock readings are
  applied out of order.
- Keys: changes, audit rows and the inconsistency counter agree, and a crash
  costs one change per handler at most. A key whose secret never went into a
  reply is taken back or counted. A request is authenticated only if that
  was due to it at one single moment while it was served. A client that walks
  the list of keys misses a key only if an earlier one went, and sees one twice
  only if an earlier one came, or if creation times are equal.
- Gateway: PowerDNS gets only what was authenticated from an address the key
  admits, and the body the plugins were asked about, without credentials of the
  client. The audit entry has the status the client got, the decision that was
  taken, the admitted address and no redacted value of a body that decodes. The
  address is one that the first `X-Forwarded-For` line vouches for. A forwarded
  request is recorded unless the window expired and the log was closed under it.
  Shutdown drains or uses up
  its window; components close in order also when start-up fails half way; a
  stop always ends; the cleanup goroutine survives failing statements; what is
  started meets the assumptions the other models make of their constants.

Violation runs state what a comment or a document says and show a behaviour of
the code that disagrees (quoted in `PROJECT.json`, findings):

| Run | Statement | What happens |
|---|---|---|
| `audit_write_outage` (`RecordedOrPending`) | fail-closed mode forwards no action without a durable record; a write outage leads to 503s | a failed write drops the entry and frees the permit, and requests go on |
| `plugin_stuck_probe` (`HealthyServes`) | `Healthy` means that a plugin can serve | a canceled half-open probe is not recorded: the breaker refuses every later call, and counts as healthy |
| `gateway_principal` (`PrincipalRecorded`) | every authenticated action is logged with principal and key id | the audit middleware reads them from the context it made before authentication put them into another: both are empty in every entry |

Other disagreements met while modelling, visible in the models or in the code
and without a run of their own:

- A request that outlives the shutdown timeout commits its entry to a buffer
  that nobody reads any more (`logger.go:172`); `ShutdownDrains` is therefore
  proved for fail-open mode, or for servers that drained.
- In fail-open mode a panic below the middleware skips `Publish`
  (`audit/middleware.go:118`); `EntriesAccounted` needs handlers that return.
- A refused reservation counts twice in `audit_dropped_total`
  (`audit/middleware.go:105` and `Reserve`).
- `Manager.Close` does not wait for a restart goroutine inside `startPlugin`
  (`manager.go:386`), whose process may outlive `Close`; `ProcessesOwned` says
  that the goroutine still owns it.
- Where a plugin's timeout is longer than its cooldown, a late success of an
  older call hands out a second half-open probe (`circuitbreaker.go:101`);
  `OneProbe` is checked without `SlowCalls`.
- The gauges of breakers and backends are not always the state they name:
  calls on a replaced instance still set the plugin's gauge, and
  `ErrorHandler` does not set the backend's. Gauges are not modelled.
- `purgeExpired` does not count a purge whose audit row failed
  (`server.go:210`); `InconsistencyCounted` is about changes of single keys.
- A `Create` that commits and reports an error is not compensated
  (`server.go:298`); `key_audit` runs without lost replies.
- A secret is shown once, and an error in sending it is ignored
  (`server.go:323`, `server.go:539`): the key is live and audited, and nobody
  has its secret. `NoSilentLockout` is about secrets that went into no reply.
- A health URL that does not parse is logged at every check and the check stores
  nothing (`health.go:52`): a backend that a failed request marks is then out of
  rotation until a restart. `Readmitted` is about the other backends.
- `docs/threat_model.md:82` says that the chain of `X-Forwarded-For` is walked
  from the right to the first hop that is not trusted. `Header.Get`
  (`clientip.go:55`) returns the first line of that header, so a hop that a proxy
  adds in a line of its own is not walked over. `ForwardCleared` and `EntryFaithful` take the first line for the header
  (`Attested`); with one line that is the whole of it.
- `docs/design_decisions.md:74` says that what `audit_redact_fields` names does
  not land in the log verbatim. Valid JSON that `json.Unmarshal` refuses (a
  number out of range of `float64`) is logged as it was sent (`body.go:26`);
  `Discreet` has this exception.
- The comment on the limiter's `cleanup` says that a bucket refreshed by a racing
  `Allow` is never clobbered (`limiter.go:107`); `CompareAndDelete` compares
  pointers, which a refresh does not change. `GrantsBounded` is therefore about
  a bucket, and `OneBucketPerEviction` about their number.
- The entry of a request whose client went away says 200, the status recorder's
  initial value (`statusrecorder.go`); `EntryFaithful` is about answers that were
  written.
- `strconv.Quote` writes escapes that JSON does not have, so a logged text body
  need not be the "JSON string" of `body.go:14`; such an entry fails to encode.
- `memory.go` sorts "by CreatedAt for stable pagination"; ties are not stable,
  in either store (`ListingComplete` exempts them).
- The array codec writes an element `NULL` without quotes and then refuses to
  read it, and takes fewer characters for white space when it writes than when
  it reads (`pgarray.go`; `RoundTrip` has both exceptions).
- Two HMAC secrets with one ID are accepted: keys are then hashed with the first
  and verified against the last (`StartedConfigSound` is about distinct IDs).
- `docs/design_decisions.md:53` says that port conflicts produce a warning;
  `validate` refuses them.
- `pdag validate` accepts a configuration without plugins, or with a backend URL
  that does not parse, which `serve` refuses.
- A SIGHUP that arrives during the deferred closes ends the process before they
  are done (`Killed`); `ReleasedInOrder` is about a process that exits by itself.

### Bounds

- Audit: three requests on a buffer of two fill it, leave one waiting in
  `Reserve` or `Publish`, and let others commit during the drain. One SIGHUP at
  any moment; a second one meets either a full or an empty `reopen`. Any number
  of requests and any buffer size are covered by the proofs.
- Plugins: two callers hold calls from before and after a restart or a change
  of the breaker's state; `MaxInst = 2` gives one restart with calls left on the
  old instance (the last instance of a plugin never crashes: a bound); two
  attempts stand for the five of the code. `plugin_fanout` has two plugins and
  both thresholds at 2, so that counts below the threshold occur.
- Balancer: three backends, so that a retry has a choice and a third is left to
  skip; the health URLs of two of them do not parse. One request at a time, and
  one after another without end, against a health loop that changes the flags
  under it; the counter wraps at 3, a multiple of the number of backends, so
  that the wrap is seamless. One outage; transport errors and rounds of checks
  are unbounded. Any number of concurrent requests, of backends and of health
  URLs that do not parse is covered by the proofs.
- Limiter: two callers, two buckets (one eviction), four ticks, half-token
  refills. The last bucket is never evicted: a bound.
- Keys: two handlers on two keys with three secrets, three calls, one crash and
  any number of walks over the list in pages of one key, with equal and with
  different creation times, for `key_audit`; all arrays of up to two of the
  strings of up to two characters that the codec tells apart, and some longer
  ones. One handler and one proxied request with two roles, two addresses, two
  secrets, three calls and three clock values (a key expires *after* its expiry
  time, so three are needed) for `key_authn`, where what matters is one request
  against a sequence of changes.
- Gateway: one request, since requests share only components that have models of
  their own, and one slow admin request. Two configurations that serve (all
  features on, and most of them off) and 22 that are refused, each for one
  reason. The inputs have spoofed, trusted, unparsable and absent hops and a
  header of two lines, bodies that are absent, broken, too long, text, JSON with
  a secret at depth two and below a redacted field, with a number that is
  encoded differently and with one that cannot be decoded.

Symmetry is used in safety runs only, and not in `key_audit`: requests, callers,
handlers, plugins, roles and addresses are interchangeable in `Init`, `Next` and
the properties. `key_authn` also has a view, `AuthnView`: it tells states apart
by every variable but `rows`, `flagged`, `handed`, `unread` and `applied`, the
accounting that `key_audit` is about. These are only written: no guard, no other
variable and neither property of `key_authn` reads them, so every step the two
properties can tell apart is still taken and checked. The view of `key_audit`,
`AuditView`, takes the handlers for a bag of tasks, as they are interchangeable,
and `handed` and `unread` for their union, which is all that `NoSilentLockout`
reads and all that a step adds to.

### Fairness

Weak fairness stands for goroutines that keep running, timers that fire, calls
that end by their timeouts, and handlers that return (the HTTP servers and the
transport bound them). Strong fairness is used where Go's `select` chooses at
random among ready cases: reopen in `flushLoop`, the canceled context in
`healthLoop`. `Lifecycle` asks even less: `main` goes on and the timer of the
shutdown window fires, the cleanup's ticker ticks and its statement does not
fail for ever; a request may hang for good. Requests, crashes, disconnects,
SIGHUPs, outages, recoveries and `Close` are never forced. Deadlock is checked in every run.

## 4. The proofs

Each component has its theorems in a module of its own, which `tlapm` checks
from nothing. Every safety property that a passing run checks is stated by a
theorem.

| Module | Theorems (run property) |
|---|---|
| `AuditLogProofs` | `TypeCorrect`, `PermitsAccounted` (`PermitAccounting`), `CommitCannotBlock` (`CommitNeverBlocks`), `LossesCounted` (`EntriesAccounted`), `ShutdownDrains` (`CloseDrains`), `WindowBounded` (`UnrecordedWindow`), `Refinement` (`ImplementsTrail`) |
| `RateLimiterProofs` | `TypeCorrect`, `RateBound` (`GrantsBounded`), `Solvent` (`NoDebt`), `SharedBucket` (`OneBucketPerEviction`) |
| `BalancerProofs` | `TypeCorrect`, `NoReplay` (`NotReplayed`), `CausesKnown` (`UnhealthyHasCause`), `AlwaysOther` (`OtherBackend`), `LastResort` (`GiveUpJustified`) |
| `PluginManagerProofs` | `TypeCorrect`, `Soundness` (`DecisionSound`), `OneRestarter` (`RestarterIsCurrent`), `NoOrphanProcess` (`ProcessesOwned`), `NotDeniedForGood` (`ProbeOutstanding`), `OneProbeAtATime` (`OneProbe`) |
| `KeyAdminProofs` | `KeyTypes`, `AuthnIsCoherent` (`AuthnCoherent`), `PurgesAreHarmless` (`PurgeHarmless`), `ChangesAccounted` (`InconsistencyCounted`), `NoLockoutIsSilent` (`NoSilentLockout`) |
| `KeyListingProofs` | `ListingIsReadOnly`, `PagesAreComplete` (`ListingComplete`) |
| `PgArrayProofs` | `ArraysRoundTrip`, `ColumnsRoundTrip` (`ArrayRoundTrip`) |
| `LifecycleProofs` | `ForwardsAreCleared` (`ForwardCleared`), `EntriesAreFaithful` (`EntryFaithful`), `BodiesAreDiscreet` (`BodyDiscreet`), `ShutdownDrains` (`DrainedOrExpired`), `ForwardsAreRecorded` (`RecordedUnlessExpired`), `ReleasesAreOrdered` (`ReleasedInOrder`), `ServedConfigIsSound` (`StartedConfigSound`) |

**AuditLogProofs**, for every finite set of requests and every capacity
(`AuditAssumption`). The inductive invariant is `IInv` (`Invariance`).
`PermitAccounting` alone is not inductive: that a release really gives back the
permit of the entry just written needs `Structure` (the entry in hand exists
exactly while `flushLoop` writes, which program counters each mode can reach,
and what `Close` may have overtaken), and `Accounts` ties the semaphore and the
number of finished requests to buffer, file and counters. A step that moves one
goroutine changes these sums by one (`MoveCount`). `CommitCannotBlock` follows
as the holder of a permit is itself one of those counted, and `sem <= Cap`.
`LossesCounted` is about fail-closed mode or handlers that do not panic, and
`ShutdownDrains` about fail-open mode or servers that drained; section 3 says
why. `Refinement`: in fail-closed mode the middleware and the logger implement
`AuditTrail`. It needs in addition that an entry is in one place only
(`Unique`), and that open requests are no more than permits held (`OpenBound`);
each step then maps to a step of `AuditTrail` or to a stutter.

**RateLimiterProofs**, for every number of callers, every burst, cost and bound
(`LimiterAssumption`). `GrantsBounded` is not inductive, as what a bucket will
grant depends on its tokens. `BucketInv` adds a balance, what was spent plus
what is left is at most the burst plus `lastCheck` minus the bucket's creation;
and a floor, tokens plus the distance from `lastCheck` to the latest reading
seen are not negative. A reading older than `lastCheck` takes back exactly what
the next one adds again, so both survive any order of the readings, and
`lastCheck` cancels out of their sum. `SharedBucket` rests on `MapInv`, about
the map alone.

**BalancerProofs**, for every number of backends and concurrent requests
(`BalancerAssumption`). `NotReplayed` needs in addition that a request that must
not be replayed is at the head of the loop only before its first attempt, and
`UnhealthyHasCause` that an error on its way to the `ErrorHandler` which the
client did not cause is already held against the backend that was tried last
(`IInv`). `AlwaysOther` and `LastResort` assume `Seamless`: the counter does not
wrap while the requests in question are served, or the number of backends
divides the 2^64 at which it wraps (`WrappedIndex`). In any other case both fail
at the wrap. `OInv` says which backends a request has met after `i` iterations:
the indices `(start + j) % N` for `j < i`, which are distinct (`ModInjective`);
each was tried or skipped, and those tried are among them.

**PluginManagerProofs**, for every number of plugins, requests, instances and
attempts, and every threshold (`PluginAssumption`, `ThresholdAssumption`).
`PInv` ties what a plugin answered to the state of its call (`CallInv`), the map
to the manager's state and to the snapshots (`MapInv`), and every instance to
its place relative to the one in the map: older ones were restarted and have no
process, newer ones exist only in the hands of the goroutine that restarts the
current one (`InstInv`). `NotDeniedForGood` needs `ProbeInv`: only a call in
flight is a probe, and a half-open breaker that has no probe to give has one in
flight or lost one. `OneProbeAtATime` needs `AllLone` on top of it:
while no call outlasts a cooldown, a breaker whose cooldown is over has no call
in flight, so the call that turns it half-open is alone and stays so until it is
recorded. Its hypothesis `~SlowCalls` is the one of the runs; with slow calls
the property fails (section 3).

**KeyAdminProofs**, for every number of handlers, callers, keys, roles and
addresses, and any bounds on calls, crashes and time (`KeyAssumption`).
`KeyTypes` says that rows stay records and that a handler carries what its
statement needs, with a purge time that is not after the clock: why a purge can
remove only keys that are refused already. `AuthnIsCoherent` adds `ReadInv`,
that a record which passes the checks now passed them when it was read: it may
be stale, but the clock only goes forward.
`ChangesAccounted` adds `CountInv`; each statement, audit row, compensation and
crash moves one change between `applied`, `rows`, `flagged`, the busy handlers
and the crash allowance, and sets of pairs (`Lost`) turn the sum over keys into
a cardinality. `NoLockoutIsSilent` adds `LockInv`: an id that is being created
is new, so a failed create takes back nothing but its own key, and the keys whose
secret went into no reply are attended to by a handler, counted, or as many as
crashes allow. The last two have the
hypothesis `~MayLoseReply`, as in `key_audit`: after a lost reply the handler
cannot know that there is a change to account for. `AuthnIsCoherent` and
`PurgesAreHarmless` hold with lost replies too.

**KeyListingProofs**, for every page size, every limit and any number of keys,
handlers and calls (`ListingAssumption`, `KeyAssumption`). `ListingIsReadOnly`:
a client that walks the list changes nothing of `KeyAdmin`, so all that
`KeyAdminProofs` shows holds while it walks. `PagesAreComplete` is the hard one,
since the offset of the next page is the number of keys the client has got, and
the table shifts under it. `ListingComplete` says nothing of the pages before the
last; the inductive invariant `ListInv` does, by comparing the offset with the
`Rank` of a key, the number of matching keys that are older (`PlaceInv`). For a
key that shares its time with no other: while it has not been listed and no
older key went away, the offset is at most its rank; while no older key came,
either it has not been listed, or it has been once and its rank is below the
offset. In every order that `Orders` allows such a key stands just behind the
keys that are older (`PlaceInOrder`), so a page holds it exactly when its rank
is between the offset and the end of the page (`PagePlaces`), and an empty page
means that no rank is left. `WalkInv` relates the keys that stayed, went and came
to the table, and `InsertInv` says that an id which is about to be inserted is in
no table, known to no walk and in no other handler's hands. `TableMove` is all
that the lemmas need to know of the steps of `KeyAdmin`.

**PgArrayProofs**, for arrays of any length, of elements of any length, over any
alphabet. `ArraysRoundTrip`: what `Scan` reads from what `Value` wrote is
`RoundTrip`, the same array up to the two exceptions of section 3.
`ColumnsRoundTrip` is the run's property for every `Strings` and `MaxArray`. The
scanner's loop is seen as a run over a word (`Runs`); runs compose (`RunThen`),
so it is enough to know what the scanner does with one escaped character
(`EscapedChar`), a quoted word (`EscapedWord`), a bare word (`BareWord`), one
element (`Element`) and one more element behind a comma (`NextElement`). That
these add up for every length is shown by `SetInduction`: a set of naturals that
holds 0 and with each number the next has no least number missing. It takes a
set where the library's induction theorems take an operator, which the provers
cannot instantiate. A recursive function has the values its definition gives only
once a function with these values is known to exist: `PartialResults` shows it
for the builder's `Concat`, the composed run itself for the scanner's loop.

**LifecycleProofs** is about the whole process, `LSpec`, for any set of requests,
inputs, keys and configurations of the right shape (`GatewayAssumption`,
`ConfigAssumption`, `LifecycleAssumption`). `GatewayInv` says, for each stage of
the chain, what has been established when a request is there: a checked key and
its address after authentication, the whole body after the buffer, an allow for
that body before the backend, and in the cells what the client was told. The
entry is put together last, from the outside, so the invariant carries the
relation of the cells to what client, plugins and PowerDNS got (`CallInv`,
`StatusInv`, `AskedInv`) down the chain and back up to the entry (`TrailInv`).
The module also proves the operators:
that the address `ClientIP` returns is vouched for by the header line it reads,
that redaction and encoding of a body that decodes leave
nothing under a redacted field and does not empty a body, and what `validate`
and `trimSecret` guarantee. Those are about sequences of any length. The walk
over the hops is written as a choice of the last hop that is not trusted, and
the proofs go through the least or the last index and through counting instead
of induction over the sequence. `LInv` adds the stack of deferred closes
(`StackInv`: what is open is what the stack is for), the window (`DrainInv`) and
what was loaded (`ConfigInv`). `ServedConfigIsSound` speaks of line terminators
only for secrets that come from a file: the code does not trim those written in
the configuration itself.

The type invariants are proved and not checked by a run of their own.

Only model-checked are the liveness properties (`RequestsFinish`,
`CloseReturns`, `ReopenServed`, `AuthorizeReturns`, `RestartSettles`,
`Readmitted`, `CloseCompletes`, `StopsEventually`, `CleanupGoesOn`): the prover
has no reasoning about fairness or `ENABLED`.

## 5. Not modelled

- Path normalisation (`internal/httproute`): a pure function on strings whose
  result is a metric label and nothing else.
- Metrics and tracing: observation only. The counters that a property speaks of
  (`dropped`, `writeErrs`, `flagged`) are variables of their models, the status
  cell is part of `Gateway`, and the tracer is one of `Lifecycle`'s components.
- Plugin SDK and generated protocol code: glue over go-plugin and gRPC, whose
  effect is the outcomes of a call in `PluginManager`.
- The bundled plugins: stateless functions of one request, in processes of their
  own.
- `pdag validate`, `version`, `key list` and the benchmark: printing. `validate`
  runs the checks of `Config`.
- Viper (defaults, environment, YAML), database migrations, TLS, HTTP parsing and
  the cryptography of HMAC and tokens: libraries, taken at their word.
- The order of audit rows of concurrent changes of one key: the code keeps none
  and no document promises one.

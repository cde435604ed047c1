---------------------------- MODULE MCLifecycle -----------------------------
(* Instances of Lifecycle for TLC. *)
EXTENDS Lifecycle

Word(w) == [word |-> w, caps |-> FALSE]
Caps(w) == [word |-> w, caps |-> TRUE]
Leaf(path, v) == [path |-> path, val |-> v, again |-> v]
Number(path, v, again) == [path |-> path, val |-> v, again |-> again]

Inline(s) == [inline |-> s, file |-> "none", data |-> <<>>]
FromFile(s) == [inline |-> <<>>, file |-> "read", data |-> s]

Body(sent, declared, json, leaves) ==
  [sent |-> sent, declared |-> declared, json |-> json, leaves |-> leaves]

NoBody == Body("none", 0, FALSE, <<>>)

\* A secret two objects deep, in capitals, beside a number that is none.
Nested ==
  Body("whole", 2, TRUE,
       <<Leaf(<<Word("zone"), Caps("key")>>, "s1"), Number(<<Word("ttl")>>, "6e1", "60")>>)

\* A number that no float64 holds beside a secret.
Huge ==
  Body("whole", 2, TRUE,
       <<Leaf(<<Word("key")>>, "s1"), Number(<<Word("ttl")>>, "1e999", OutOfRange)>>)

\* Two secrets below one redacted field.
Below ==
  Body("whole", -1, TRUE,
       <<Leaf(<<Word("key"), Word("a")>>, "s1"), Leaf(<<Word("key"), Word("b")>>, "s2")>>)

Plain == Body("whole", 1, FALSE, <<Leaf(<<>>, "text")>>)
Chunked == Body("whole", -1, FALSE, <<Leaf(<<>>, "t1"), Leaf(<<>>, "t2"), Leaf(<<>>, "t3")>>)
Broken == Body("broken", 1, FALSE, <<>>)

In(peer, lines, apiKey, body) ==
  [peer |-> peer, lines |-> lines, apiKey |-> apiKey, body |-> body]

\* "a" and "b" are clients, "p" is the reverse proxy.
MCInputs ==
  {In("a", <<<<"b">>>>, "presented", Plain), In("p", <<<<"b", "a">>>>, "presented", Below),
   In("p", <<<<"a", "p">>>>, "presented", Nested), In("p", <<<<"a", NoIP>>>>, "presented", Broken),
   In(NoIP, <<>>, "presented", NoBody), In("p", <<>>, "presented", Chunked),
   In("p", <<<<"a">>, <<"b">>>>, "presented", Huge), In("a", <<>>, "missing", NoBody)}

Rec(id, check, roles, cidrs) ==
  [id |-> id, principal |-> "alice", check |-> check, roles |-> roles, cidrs |-> cidrs]

MCRecords ==
  {Rec("k1", "ok", {"dns"}, {"a"}), Rec("k2", "ok", {"dns"}, {}), Rec("k3", "ok", {}, {"p"}),
   Rec("k4", "authn_error", {"dns"}, {})}

MCHeaders == {"X-Api-Key", "Cookie", "Content-Type", "X-Other"}

Key == <<"k", "e">>

Strict ==
  [Backends |-> <<[URL |-> "u1", APIKey |-> Inline(Key)], [URL |-> "u2", APIKey |-> FromFile(Key)]>>,
   HealthCheck |-> [Interval |-> 2, Timeout |-> 1],
   Listen |-> <<"", "8080">>, MetricsListen |-> <<"lo", "9090">>, AdminListen |-> <<"lo", "9091">>,
   MaxBodySize |-> 2, AuditLog |-> "file", AuditBufferSize |-> 1, AuditEnqueueTimeout |-> 0,
   AuditLogBody |-> TRUE, AuditFailClosed |-> TRUE, AuditBodyMaxBytes |-> 1,
   AuditRedactFields |-> {Caps("key")},
   AdminToken |-> FromFile(<<"t", "\r", "\n">>),
   ShutdownWait |-> 1, KeyCleanupInterval |-> 1, TrustedProxies |-> <<{"p"}>>,
   DB |-> [Driver |-> "postgres", DSN |-> "dsn"],
   HmacSecrets |-> <<[ID |-> "new", Secret |-> FromFile(<<"n", "\n", "w", "\n">>)],
                     [ID |-> "old", Secret |-> Inline(<<"o", "l", "\n">>)]>>,
   RateLimit |-> [Enabled |-> TRUE, Rate |-> 1, Burst |-> 1],
   Tracing |-> [Enabled |-> TRUE, Endpoint |-> "otlp", SampleRate |-> 100],
   PluginDefaults |-> [Timeout |-> 1, FailureThreshold |-> 1, SuccessThreshold |-> 0, Cooldown |-> 0],
   Plugins |-> [p \in {"dns"} |->
     [Path |-> "executable", SHA256 |-> "digest", Timeout |-> 0,
      FailureThreshold |-> 0, SuccessThreshold |-> 0, Cooldown |-> 0]]]

\* One backend, a memory store, no admin API, no trusted proxy, fail-open.
Lenient ==
  [Strict EXCEPT
     !.Backends = <<@[1]>>, !.HealthCheck = [Interval |-> 0, Timeout |-> 0],
     !.AdminToken = Inline(<<>>), !.AuditFailClosed = FALSE, !.AuditBodyMaxBytes = 0,
     !.DB = [Driver |-> "memory", DSN |-> ""], !.KeyCleanupInterval = 0,
     !.TrustedProxies = <<>>, !.RateLimit.Enabled = FALSE, !.Tracing.Enabled = FALSE]

\* Each fails one check, except the last, which only the plugin manager refuses.
Refused ==
  <<[Strict EXCEPT !.AdminToken.inline = <<"t">>],
    [Strict EXCEPT !.AdminToken.file = "unreadable"],
    [Strict EXCEPT !.Backends = <<>>],
    [Strict EXCEPT !.Backends[1].URL = ""],
    [Strict EXCEPT !.Backends[2].APIKey.data = <<"\n">>],
    [Strict EXCEPT !.Listen = <<"8080">>],
    [Strict EXCEPT !.MetricsListen = <<"0.0.0.0", "8080">>],
    [Strict EXCEPT !.MaxBodySize = 0],
    [Strict EXCEPT !.ShutdownWait = 0],
    [Strict EXCEPT !.AuditBufferSize = 0],
    [Strict EXCEPT !.TrustedProxies = <<{}>>],
    [Strict EXCEPT !.Plugins["dns"].Path = "directory"],
    [Strict EXCEPT !.Plugins["dns"].SHA256 = "short"],
    [Strict EXCEPT !.PluginDefaults.Timeout = 0],
    [Strict EXCEPT !.PluginDefaults.Cooldown = -1],
    [Strict EXCEPT !.HmacSecrets = <<>>],
    [Strict EXCEPT !.HmacSecrets[1].Secret.data = <<"n", "\n">>],
    [Strict EXCEPT !.RateLimit.Burst = 0],
    [Strict EXCEPT !.HealthCheck.Timeout = 2],
    [Strict EXCEPT !.Tracing.SampleRate = 101],
    [Strict EXCEPT !.DB.DSN = ""],
    [Strict EXCEPT !.Plugins = <<>>]>>

MCConfigs == <<Strict, Lenient>> \o Refused
=============================================================================

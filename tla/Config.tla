------------------------------- MODULE Config -------------------------------
(***************************************************************************)
(* Loading the configuration (internal/config/config.go): secret files are *)
(* resolved, then the result is validated; what survives is what runServe  *)
(* builds the gateway from.                                                *)
(*                                                                         *)
(* A configuration is a record with the fields of the Go type.  Numbers    *)
(* and durations are small integers.  A secret is a sequence of bytes,     *)
(* given inline, by a file, or both:                                       *)
(*   [inline |-> bytes, file |-> "none" | "unreadable" | "read",           *)
(*    data |-> the bytes of the file]                                      *)
(* An address is <<host, port>>, or <<text>> when it does not split.  A    *)
(* trusted proxy is a set of addresses, {} for a CIDR that does not parse. *)
(***************************************************************************)
EXTENDS Integers, Sequences, FiniteSetsExt

CONSTANT MinSecretBytes   \* shortest HMAC secret accepted (16)

ASSUME ConfigAssumption == MinSecretBytes \in Nat \ {0}

-----------------------------------------------------------------------------
(* The configuration as viper unmarshals it.                               *)

SecretSource == [inline : Seq(STRING), file : {"none", "unreadable", "read"}, data : Seq(STRING)]

PluginConfig ==
  [Path : STRING, SHA256 : STRING, Timeout : Int,
   FailureThreshold : Int, SuccessThreshold : Int, Cooldown : Int]

\* Plugins maps any names to plugins.
IsConfig(c) ==
  /\ c \in [Backends : Seq([URL : STRING, APIKey : SecretSource]),
            HealthCheck : [Interval : Int, Timeout : Int],
            Listen : Seq(STRING), MetricsListen : Seq(STRING), AdminListen : Seq(STRING),
            MaxBodySize : Int, AuditLog : STRING, AuditBufferSize : Int,
            AuditEnqueueTimeout : Int, AuditLogBody : BOOLEAN, AuditFailClosed : BOOLEAN,
            AuditBodyMaxBytes : Int, AuditRedactFields : SUBSET [word : STRING, caps : BOOLEAN],
            AdminToken : SecretSource, ShutdownWait : Int, KeyCleanupInterval : Int,
            TrustedProxies : Seq(SUBSET STRING), DB : [Driver : STRING, DSN : STRING],
            HmacSecrets : Seq([ID : STRING, Secret : SecretSource]),
            RateLimit : [Enabled : BOOLEAN, Rate : Int, Burst : Int],
            Tracing : [Enabled : BOOLEAN, Endpoint : STRING, SampleRate : Int],
            PluginDefaults : [Timeout : Int, FailureThreshold : Int, SuccessThreshold : Int,
                              Cooldown : Int],
            Plugins : {c.Plugins}]
  /\ \A p \in DOMAIN c.Plugins : c.Plugins[p] \in PluginConfig

-----------------------------------------------------------------------------
(* resolveSecretFiles.                                                     *)

EOL == {"\r", "\n"}

Unterminated(secret) == secret[Len(secret)] \notin EOL

\* Only trailing line terminators go.
trimSecret(data) ==
  SubSeq(data, 1, Max({0} \cup {i \in DOMAIN data : data[i] \notin EOL}))

\* An inline value and a file exclude each other.
Resolvable(s) == s.file = "none" \/ (s.inline = <<>> /\ s.file = "read")

resolve(s) == IF s.file = "none" THEN s.inline ELSE trimSecret(s.data)

SecretsResolvable(c) ==
  /\ Resolvable(c.AdminToken)
  /\ \A i \in DOMAIN c.Backends : Resolvable(c.Backends[i].APIKey)
  /\ \A i \in DOMAIN c.HmacSecrets : Resolvable(c.HmacSecrets[i].Secret)

resolveSecretFiles(c) ==
  [c EXCEPT
     !.AdminToken = resolve(@),
     !.Backends = [i \in DOMAIN c.Backends |->
       [URL |-> c.Backends[i].URL, APIKey |-> resolve(c.Backends[i].APIKey)]],
     !.HmacSecrets = [i \in DOMAIN c.HmacSecrets |->
       [ID |-> c.HmacSecrets[i].ID, Secret |-> resolve(c.HmacSecrets[i].Secret)]]]

-----------------------------------------------------------------------------
(* validate, on a configuration whose secrets are resolved.                *)

ValidBackends(c) ==
  /\ c.Backends # <<>>
  /\ \A i \in DOMAIN c.Backends : c.Backends[i].URL # "" /\ c.Backends[i].APIKey # <<>>

Splits(addr) == Len(addr) = 2

\* The forms of the wildcard address are one.
normalizeListenAddr(addr) ==
  IF Splits(addr)
  THEN <<IF addr[1] \in {"", "0.0.0.0", "::"} THEN "*" ELSE addr[1], addr[2]>>
  ELSE addr

Addresses(c) == <<c.Listen, c.MetricsListen, c.AdminListen>>

ValidAddresses(c) ==
  /\ \A i \in 1..3 : Splits(Addresses(c)[i])
  /\ \A i, j \in 1..3 : i # j =>
       normalizeListenAddr(Addresses(c)[i]) # normalizeListenAddr(Addresses(c)[j])

ValidLimits(c) ==
  /\ c.MaxBodySize > 0
  /\ c.KeyCleanupInterval >= 0
  /\ c.ShutdownWait > 0
  /\ c.AuditBufferSize > 0
  /\ c.AuditEnqueueTimeout >= 0
  /\ c.AuditBodyMaxBytes >= 0

ValidProxies(c) == \A i \in DOMAIN c.TrustedProxies : c.TrustedProxies[i] # {}

validateCircuitBreaker(cb) ==
  cb.FailureThreshold >= 0 /\ cb.SuccessThreshold >= 0 /\ cb.Cooldown >= 0

\* A plugin's file is there, not a directory and executable, and its digest,
\* if one is given, is 64 hexadecimal digits.
ValidPlugins(c) ==
  /\ \A p \in DOMAIN c.Plugins :
       /\ c.Plugins[p].Path = "executable"
       /\ validateCircuitBreaker(c.Plugins[p])
       /\ c.Plugins[p].Timeout >= 0
       /\ c.Plugins[p].SHA256 \in {"", "digest"}
  /\ c.PluginDefaults.Timeout > 0
  /\ validateCircuitBreaker(c.PluginDefaults)

ValidHmacSecrets(c) ==
  /\ c.HmacSecrets # <<>>
  /\ \A i \in DOMAIN c.HmacSecrets :
       c.HmacSecrets[i].ID # "" /\ Len(c.HmacSecrets[i].Secret) >= MinSecretBytes

ValidRateLimit(c) == c.RateLimit.Enabled => c.RateLimit.Rate > 0 /\ c.RateLimit.Burst > 0

\* Only looked at with several backends.
ValidHealthCheck(c) ==
  Len(c.Backends) > 1 =>
    c.HealthCheck.Timeout > 0 /\ c.HealthCheck.Timeout < c.HealthCheck.Interval

\* The sample rate is in percent.
ValidTracing(c) ==
  c.Tracing.Enabled => c.Tracing.Endpoint # "" /\ c.Tracing.SampleRate \in 0..100

ValidDB(c) == c.DB.Driver = "postgres" => c.DB.DSN # ""

validate(c) ==
  /\ ValidBackends(c) /\ ValidAddresses(c) /\ ValidLimits(c) /\ ValidProxies(c)
  /\ ValidPlugins(c) /\ ValidHmacSecrets(c) /\ ValidRateLimit(c)
  /\ ValidHealthCheck(c) /\ ValidTracing(c) /\ ValidDB(c)

\* Load returns a configuration, and no error.
Loads(c) == SecretsResolvable(c) /\ validate(resolveSecretFiles(c))

-----------------------------------------------------------------------------
(* What runServe takes from a loaded configuration.                        *)

\* The secret new keys are hashed with.
CurrentHmacSecret(c) == c.HmacSecrets[1]

\* runServe's map from ID to secret, which keys are verified against: a later
\* secret with the same ID replaces an earlier one.
hmacSecrets(c) ==
  [id \in {c.HmacSecrets[i].ID : i \in DOMAIN c.HmacSecrets} |->
     c.HmacSecrets[Max({i \in DOMAIN c.HmacSecrets : c.HmacSecrets[i].ID = id})].Secret]

\* Mutant: only the breaker takes the defaults.
PluginConfigResolved_untimed(c, p) ==
  [c.Plugins[p] EXCEPT
     !.FailureThreshold = IF @ = 0 THEN c.PluginDefaults.FailureThreshold ELSE @,
     !.SuccessThreshold = IF @ = 0 THEN c.PluginDefaults.SuccessThreshold ELSE @,
     !.Cooldown = IF @ = 0 THEN c.PluginDefaults.Cooldown ELSE @]

\* A zero field takes the default.
PluginConfigResolved(c, p) ==
  [c.Plugins[p] EXCEPT
     !.Timeout = IF @ = 0 THEN c.PluginDefaults.Timeout ELSE @,
     !.FailureThreshold = IF @ = 0 THEN c.PluginDefaults.FailureThreshold ELSE @,
     !.SuccessThreshold = IF @ = 0 THEN c.PluginDefaults.SuccessThreshold ELSE @,
     !.Cooldown = IF @ = 0 THEN c.PluginDefaults.Cooldown ELSE @]

\* clientip.New: the addresses of all trusted proxies.
Trusted(c) == UNION {c.TrustedProxies[i] : i \in DOMAIN c.TrustedProxies}

\* The options of the audit middleware: field names in lower case.
RedactFields(c) == {[name EXCEPT !.caps = FALSE] : name \in c.AuditRedactFields}
=============================================================================

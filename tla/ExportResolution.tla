--------------------------- MODULE ExportResolution ---------------------------
(***************************************************************************)
(* From configuration to pipeline: ExportConfig::from_env (export.rs, the  *)
(* init_telemetry_auto path), to_export_config and resolve_with_preset     *)
(* (provider.rs), the presets they share, and what an OTLP install makes   *)
(* of the result.  An application attempts to initialise until it works;   *)
(* what an attempt writes to the environment stays there for the next.     *)
(*                                                                         *)
(* Header values, endpoints and levels are abstracted to where they come   *)
(* from.  A name stands for its spellings in upper and lower case, for the *)
(* code lowers them all; only export_mode is compared with "json-stdout"   *)
(* as it is, so "JSON-STDOUT" is a name of its own.                        *)
(***************************************************************************)
EXTENDS Naturals

CONSTANTS
  EnvInputs,       \* the CLOUD_PRESET, TELEMETRY_* and OTLP_COMPRESSION values
  ProviderInputs,  \* the TelemetryProviderConfigs
  UserVariables,   \* those of the OTEL_* header variables a user may have set
  MaxAttempts      \* bound on the attempts

ASSUME MaxAttemptsAssumption == MaxAttempts \in Nat

(* "auth" is the vendor's key header, "_aws" the two _aws_* credentials.   *)
HeaderNames == {"", "custom", "auth", "_aws"}

(* Names, modes and compressions are any strings.                          *)
ASSUME EnvInputsAssumption ==
  EnvInputs \subseteq
    [preset : STRING, export : STRING, gzip : BOOLEAN,
     sampling : {"unset", "bad", "parent", "always_on", "always_off", "ratio"}]

ASSUME ProviderInputsAssumption ==
  ProviderInputs \subseteq
    [preset : STRING, mode : STRING, endpoint : {"unset", "config"},
     headers : UNION {[S -> {"config"}] : S \in SUBSET HeaderNames},
     ratio : {"below", "zero", "half", "one", "above", "nan"},
     compression : STRING, level : BOOLEAN]

Modes     == {"json-stdout", "otlp-grpc", "otlp-http", "azure-appinsights",
              "aws-xray", "gcp-cloud-trace"}
OtlpModes == {"otlp-grpc", "otlp-http"}

Signals   == {"traces", "metrics", "logs"}
Variables == Signals \cup {"all"}

ASSUME UserVariablesAssumption == UserVariables \subseteq Variables

VARIABLES
  env,       \* [endpoint, headers, apiKey]: OTLP_ENDPOINT, OTLP_HEADERS and
             \* the API key variable of the vendor, fixed for the process
  otel,      \* OTEL_EXPORTER_OTLP_HEADERS ("all") and its variants for one
             \* signal: [variable -> headers], NoHeaders where it is not set
  awsEnv,    \* the AWS_* credentials: "unset", "user" or "config"
  rustLog,   \* RUST_LOG: "unset", "user", or the attempt that wrote it
  attempts,  \* number of attempts made
  step,      \* "ready", "resolve" or "install"
  input,     \* what the attempt was given
  export,    \* the ExportConfig of the attempt
  pipeline   \* INIT_GUARD: {}, or {the protocol, the headers of the config,
             \* and the headers sent with each signal}

vars == <<env, otel, awsEnv, rustLog, attempts, step, input, export, pipeline>>
-----------------------------------------------------------------------------
NoHeaders   == [n \in {} |-> "env"]

Header(name, source) == [n \in {name} |-> source]

(* HashMap::extend: what is in more wins.                                  *)
Extend(headers, more) ==
  [n \in DOMAIN headers \cup DOMAIN more |->
     IF n \in DOMAIN more THEN more[n] ELSE headers[n]]

(* OTLP_HEADERS, where it parses: its one entry, if any.                   *)
EnvHeaders == IF env.headers \in {"unset", "bad"} THEN NoHeaders
              ELSE Header(IF env.headers = "blank" THEN "" ELSE env.headers, "env")

(* What the *.rs files of presets/ say.                                    *)
Presets     == {"aws", "gcp", "azure", "datadog", "loki", "honeycomb", "newrelic",
                "elastic", "grafana-tempo", "jaeger", "zipkin", "otlp-grpc",
                "otlp-http", "stdout"}
ReadsEnv    == Presets \ {"otlp-grpc", "otlp-http", "stdout"}
ReadsHeaders == ReadsEnv \ {"loki"}
Keyed       == {"datadog", "honeycomb", "newrelic", "elastic"}
WithDefault == {"datadog", "honeycomb", "newrelic", "grafana-tempo", "jaeger",
                "zipkin", "otlp-grpc", "otlp-http"}

PresetMode(p) ==
  CASE p = "aws"                       -> "aws-xray"
    [] p = "gcp"                       -> "gcp-cloud-trace"
    [] p = "azure"                     -> "azure-appinsights"
    [] p \in {"zipkin", "otlp-http"}   -> "otlp-http"
    [] p \in {"stdout", "loki", "none"} -> "json-stdout"
    [] OTHER                           -> "otlp-grpc"

PresetEndpoint(p) ==
  IF p \in ReadsEnv /\ env.endpoint # "unset" THEN "env"
  ELSE IF p \in WithDefault THEN "preset" ELSE "unset"

PresetHeaders(p) ==
  IF p \notin ReadsHeaders THEN NoHeaders
  ELSE IF p \in Keyed /\ env.apiKey THEN Extend(Header("auth", "key"), EnvHeaders)
  ELSE EnvHeaders

(* load_preset: parse_headers_from_env rejects an entry without "=", but   *)
(* takes one without a name.                                               *)
LoadPreset(p) ==
  [ok |-> ~(p \in ReadsHeaders /\ env.headers = "bad"), mode |-> PresetMode(p),
   endpoint |-> PresetEndpoint(p), headers |-> PresetHeaders(p),
   ratio |-> "unset"]

(* detect_from_env: what it does not know is no preset.                   *)
EnvPreset(name) ==
  CASE name \in {"aws", "gcp", "azure", "datadog", "loki", "honeycomb",
                 "elastic", "jaeger", "zipkin", "stdout"} -> name
    [] name \in {"newrelic", "new_relic", "new-relic"}   -> "newrelic"
    [] name \in {"grafana-tempo", "grafana_tempo"}       -> "grafana-tempo"
    [] name \in {"otlp-grpc", "otlp_grpc"}               -> "otlp-grpc"
    [] name \in {"otlp-http", "otlp_http"}               -> "otlp-http"
    [] OTHER                                             -> "none"

(* Bug: the spellings with an underscore are in the other table only.      *)
BugSpellingMissing(name) ==
  IF name \in {"aws", "gcp", "azure", "datadog", "loki", "honeycomb", "newrelic",
               "elastic", "grafana-tempo", "jaeger", "zipkin", "otlp-grpc",
               "otlp-http", "stdout"}
  THEN name ELSE "none"

(* resolve_with_preset matches the names again, with a table of its own.   *)
ProviderPreset(name) ==
  CASE name \in {"aws", "gcp", "azure", "datadog", "loki", "honeycomb", "newrelic",
                 "elastic", "jaeger", "zipkin", "stdout"} -> name
    [] name \in {"grafana-tempo", "grafana_tempo"}       -> "grafana-tempo"
    [] name \in {"otlp-grpc", "otlp_grpc"}               -> "otlp-grpc"
    [] name \in {"otlp-http", "otlp_http"}               -> "otlp-http"
    [] OTHER                                             -> "none"
-----------------------------------------------------------------------------
Err == [ok |-> FALSE, mode |-> "json-stdout", endpoint |-> "unset",
        headers |-> NoHeaders, sampling |-> "parent", gzip |-> FALSE]

(* ExportConfig::from_env.  OTLP_HEADERS replaces the headers of the       *)
(* preset, its API key included.                                           *)
FromEnv(in) ==
  LET preset == LoadPreset(EnvPreset(in.preset)) IN
  IF \/ ~preset.ok
     \/ in.export \notin {"unset", "json-stdout", "otlp-grpc", "otlp-http",
                          "azure-appinsights", "aws-xray", "gcp-cloud-trace"}
     \/ env.headers \in {"bad", "blank"}
     \/ in.sampling = "bad"
  THEN Err
  ELSE [ok       |-> TRUE,
        mode     |-> IF in.export = "unset" THEN preset.mode ELSE in.export,
        endpoint |-> IF env.endpoint # "unset" THEN "env" ELSE preset.endpoint,
        headers  |-> IF EnvHeaders # NoHeaders THEN EnvHeaders ELSE preset.headers,
        sampling |-> IF in.sampling = "unset" THEN "parent" ELSE in.sampling,
        gzip     |-> in.gzip]

(* Bug: an unknown mode is kept for the installer to reject.               *)
BugModeKept(name) == name

(* to_export_config: every other spelling is JsonStdout, "none" included.  *)
ToExportMode(name) ==
  IF name \in {"otlp-grpc", "otlp-http", "azure-appinsights", "aws-xray",
               "gcp-cloud-trace", "json-stdout"}
  THEN name ELSE "json-stdout"

(* NaN is neither <= 0 nor >= 1.                                           *)
ToExportSampling(ratio) ==
  CASE ratio \in {"below", "zero"} -> "always_off"
    [] ratio \in {"one", "above"}  -> "always_on"
    [] ratio = "nan"               -> "ratio NaN"
    [] OTHER                       -> "ratio"

ToExport(c) ==
  [ok |-> TRUE, mode |-> ToExportMode(c.mode), endpoint |-> c.endpoint,
   headers |-> c.headers, sampling |-> ToExportSampling(c.ratio),
   gzip |-> c.compression = "gzip"]

(* Bug: the match was not extended when the mode was added elsewhere.      *)
BugModeMissing(name) ==
  IF name \in {"otlp-grpc", "otlp-http", "azure-appinsights", "aws-xray"}
  THEN name ELSE "json-stdout"

(* The table that resolve_with_preset has for an explicit mode.            *)
ExplicitMode(name) ==
  IF name \in {"otlp-grpc", "otlp-http", "azure-appinsights", "aws-xray",
               "gcp-cloud-trace"}
  THEN name ELSE "json-stdout"

(* A ratio of 1.0 gives way to the preset's, if it has one.                *)
EffectiveSampling(ratio, preset) ==
  LET effective == IF ratio = "one" /\ preset.ratio # "unset"
                   THEN preset.ratio ELSE ratio
  IN  CASE effective \in {"below", "zero"} -> "always_off"
        [] effective \in {"one", "above"}  -> "always_on"
        [] effective = "nan"               -> "ratio NaN"
        [] OTHER                           -> "ratio"

(* Bug: the headers of the config are only a default for the preset's.     *)
BugPresetHeadersWin(c) ==
  LET preset == LoadPreset(ProviderPreset(c.preset)) IN
  IF ~preset.ok THEN Err
  ELSE [ok |-> TRUE,
        mode |-> IF c.mode # "json-stdout" THEN ExplicitMode(c.mode) ELSE preset.mode,
        endpoint |-> IF c.endpoint # "unset" THEN c.endpoint ELSE preset.endpoint,
        headers |-> Extend(c.headers, preset.headers),
        sampling |-> EffectiveSampling(c.ratio, preset),
        gzip |-> c.compression = "gzip"]

(* resolve_with_preset: "json-stdout", the default, gives way to the       *)
(* preset.                                                                 *)
ResolveWithPreset(c) ==
  LET preset == LoadPreset(ProviderPreset(c.preset)) IN
  IF ~preset.ok THEN Err
  ELSE [ok       |-> TRUE,
        mode     |-> IF c.mode # "json-stdout" \/ c.preset = "unset"
                     THEN ExplicitMode(c.mode) ELSE preset.mode,
        endpoint |-> IF c.endpoint # "unset" THEN c.endpoint ELSE preset.endpoint,
        headers  |-> Extend(preset.headers, c.headers),
        sampling |-> EffectiveSampling(c.ratio, preset),
        gzip     |-> c.compression = "gzip"]

FromProvider(c) == IF c.preset = "unset" THEN ToExport(c) ELSE ResolveWithPreset(c)

(* validate_telemetry_config returns no warning about these fields.        *)
Validated(c) ==
  /\ c.mode \in {"otlp-grpc", "otlp-http", "json-stdout", "JSON-STDOUT",
                 "azure-appinsights", "aws-xray", "gcp-cloud-trace", "none"}
  /\ c.mode \in OtlpModes /\ c.endpoint = "unset" => c.preset # "unset"
  /\ "auth" \notin DOMAIN c.headers
  /\ c.ratio \in {"zero", "half", "one"}
  /\ c.compression \in {"unset", "gzip"}
-----------------------------------------------------------------------------
Envs == [endpoint : {"unset", "env"}, apiKey : BOOLEAN,
         headers : {"unset", "custom", "auth", "blank", "bad"}]

NoOtel == [v \in Variables |-> NoHeaders]
UserOtel == {NoOtel} \cup
            {[NoOtel EXCEPT ![v] = Header("auth", "user")] : v \in UserVariables}

Init ==
  /\ env \in Envs /\ otel \in UserOtel
  /\ awsEnv \in {"unset", "user"} /\ rustLog \in {"unset", "user"}
  /\ attempts = 0 /\ step = "ready"
  /\ input = {} /\ export = Err /\ pipeline = {}

(* init_telemetry_auto.                                                    *)
BeginAuto(in) ==
  /\ step = "ready" /\ attempts < MaxAttempts
  /\ attempts' = attempts + 1 /\ step' = "resolve"
  /\ input' = {[auto |-> TRUE, in |-> in]}
  /\ UNCHANGED <<env, otel, awsEnv, rustLog, export, pipeline>>

(* init_from_provider_config: min_log_level goes to RUST_LOG if nothing is *)
(* there yet, be it from the user or from an earlier attempt.              *)
BeginProvider(c) ==
  /\ step = "ready" /\ attempts < MaxAttempts
  /\ attempts' = attempts + 1 /\ step' = "resolve"
  /\ input' = {[auto |-> FALSE, in |-> c]}
  /\ rustLog' = IF c.level /\ rustLog = "unset" THEN "config" ELSE rustLog
  /\ UNCHANGED <<env, otel, awsEnv, export, pipeline>>

EndAttempt == step' = "ready" /\ input' = {} /\ export' = Err

Resolution(i) == IF i.auto THEN FromEnv(i.in) ELSE FromProvider(i.in)

Resolve ==
  /\ step = "resolve"
  /\ \E i \in input :
       \/ ~Resolution(i).ok /\ EndAttempt
       \/ Resolution(i).ok /\ step' = "install" /\ export' = Resolution(i)
                           /\ UNCHANGED input
  /\ UNCHANGED <<env, otel, awsEnv, rustLog, attempts, pipeline>>

(* JsonStdout installs no exporter, behind INIT_GUARD nothing does, and    *)
(* without a runtime an install is over before it has begun.               *)
InstallNothing ==
  /\ step = "install" /\ EndAttempt
  /\ UNCHANGED <<env, otel, awsEnv, rustLog, attempts, pipeline>>

(* serialize_headers drops the nameless ones.                              *)
Serialized(headers) == [n \in DOMAIN headers \ {""} |-> headers[n]]

(* Bug: the variants for one signal, which come first, are not written.    *)
BugGeneralOnly(headers) ==
  IF Serialized(headers) = NoHeaders THEN otel
  ELSE [otel EXCEPT !.all = Serialized(headers)]

(* The gRPC builders take headers from the environment only, where they    *)
(* are written if there are any, and left by the attempts before if not.   *)
OtelAfter(headers) ==
  IF Serialized(headers) = NoHeaders THEN otel
  ELSE [v \in Variables |-> IF v = "logs" THEN otel[v] ELSE Serialized(headers)]

(* What an exporter of the signal finds in the variables o.                *)
Found(o, signal) == IF o[signal] # NoHeaders THEN o[signal] ELSE o["all"]

(* An exporter's build may fail; what is in the environment stays.         *)
Build(protocol, sent) ==
  \/ UNCHANGED pipeline
  \/ pipeline' = {[protocol |-> protocol, headers |-> export.headers, sent |-> sent]}

(* The HTTP builders are given the headers, and add the environment's.     *)
InstallOtlp ==
  /\ step = "install" /\ export.mode \in OtlpModes /\ pipeline = {}
  /\ IF export.mode = "otlp-grpc"
     THEN /\ otel' = OtelAfter(export.headers)
          /\ Build("grpc", [s \in Signals |-> Found(otel', s)])
     ELSE /\ UNCHANGED otel
          /\ Build("http",
               [s \in Signals |-> Extend(export.headers, Found(otel, s))])
  /\ EndAttempt
  /\ UNCHANGED <<env, awsEnv, rustLog, attempts>>

(* With an endpoint, aws-xray is OTLP over gRPC to a collector.            *)
InstallAwsCollector ==
  /\ step = "install" /\ export.mode = "aws-xray" /\ pipeline = {}
  /\ export.endpoint # "unset"
  /\ otel' = OtelAfter(export.headers)
  /\ Build("grpc", [s \in Signals \ {"logs"} |-> Found(otel', s)])
  /\ EndAttempt
  /\ UNCHANGED <<env, awsEnv, rustLog, attempts>>

(* Without one, it is OTLP over HTTP, signed; of the headers it uses the   *)
(* credentials only, which it puts into the environment.  Region or        *)
(* credentials may be missing.                                             *)
InstallAwsDirect ==
  /\ step = "install" /\ export.mode = "aws-xray" /\ pipeline = {}
  /\ export.endpoint = "unset"
  /\ awsEnv' = IF "_aws" \in DOMAIN export.headers THEN "config" ELSE awsEnv
  /\ Build("signed", [s \in Signals \ {"logs"} |-> Found(otel, s)])
  /\ EndAttempt
  /\ UNCHANGED <<env, otel, rustLog, attempts>>

(* azure and gcp have exporters of their own, which send no headers of the *)
(* config or the environment.  Of the config they take a connection string *)
(* and a project, without which they fail.                                 *)
InstallOwnProtocol ==
  /\ step = "install" /\ export.mode \in {"azure-appinsights", "gcp-cloud-trace"}
  /\ pipeline = {}
  /\ Build("own", [s \in {} |-> NoHeaders])
  /\ EndAttempt
  /\ UNCHANGED <<env, otel, awsEnv, rustLog, attempts>>

Next ==
  \/ \E in \in EnvInputs : BeginAuto(in)
  \/ \E c \in ProviderInputs : BeginProvider(c)
  \/ Resolve \/ InstallNothing \/ InstallOtlp
  \/ InstallAwsCollector \/ InstallAwsDirect \/ InstallOwnProtocol

Spec == Init /\ [][Next]_vars
-----------------------------------------------------------------------------
IsHeaders(h) ==
  \A n \in DOMAIN h : n \in HeaderNames /\ h[n] \in {"env", "key", "config", "user"}

Exported(e) ==
  /\ DOMAIN e = {"ok", "mode", "endpoint", "headers", "sampling", "gzip"}
  /\ e.mode \in Modes /\ e.endpoint \in {"unset", "env", "preset", "config"}
  /\ IsHeaders(e.headers) /\ e.gzip \in BOOLEAN
  /\ e.sampling \in {"parent", "always_on", "always_off", "ratio", "ratio NaN"}

AllHeaders(f) == \A x \in DOMAIN f : IsHeaders(f[x])

TypeOK ==
  /\ env \in Envs /\ rustLog \in {"unset", "user", "config"}
  /\ DOMAIN otel = Variables /\ AllHeaders(otel)
  /\ awsEnv \in {"unset", "user", "config"}
  /\ attempts \in 0 .. MaxAttempts /\ step \in {"ready", "resolve", "install"}
  /\ Exported(export)
  /\ step = "install" <=> export.ok
  /\ step = "ready" <=> input = {}
  /\ \A p \in pipeline :
       /\ p.protocol \in {"grpc", "http", "signed", "own"} /\ IsHeaders(p.headers)
       /\ DOMAIN p.sent \subseteq Signals /\ AllHeaders(p.sent)

(* A gRPC pipeline, OTLP's or the AWS collector's, with headers of its own *)
(* sends those with every signal and no others, whatever the user or the   *)
(* attempts before it put into the environment; only for logs a header     *)
(* variable set by the user comes first.                                   *)
OwnHeadersSent ==
  \A p \in pipeline :
    p.protocol = "grpc" /\ Serialized(p.headers) # NoHeaders
    => \A s \in DOMAIN p.sent :
         \/ p.sent[s] = Serialized(p.headers)
         \/ s = "logs" /\ otel[s] # NoHeaders

Provided == {i.in : i \in {x \in input : ~x.auto}}

(* A preset with an unknown name changes nothing: resolve_with_preset and  *)
(* to_export_config, which have two tables of modes and of ratios, agree.  *)
UnknownPresetIsNone ==
  \A c \in Provided :
    ProviderPreset(c.preset) = "none" => ResolveWithPreset(c) = ToExport(c)

(* build_sampler: a parent's decision is not looked at, NaN is not a ratio. *)
BuildSampler(sampling) ==
  IF sampling \in {"always_off", "ratio"} THEN sampling ELSE "always_on"

(* What a config says explicitly wins over its preset.  The values that    *)
(* cannot be told from the defaults, the mode "json-stdout" and the ratio  *)
(* 1.0, do not count as explicit: they give way to the preset.             *)
ExplicitFieldsWin ==
  \A c \in Provided : step = "install" =>
    /\ c.mode \in Modes \ {"json-stdout"} => export.mode = c.mode
    /\ c.mode \notin Modes => export.mode = "json-stdout"
    /\ c.endpoint # "unset" => export.endpoint = "config"
    /\ \A n \in DOMAIN c.headers : export.headers[n] = c.headers[n]
    /\ c.ratio # "one" =>
         BuildSampler(export.sampling) =
           CASE c.ratio \in {"below", "zero"} -> "always_off"
             [] c.ratio = "half"              -> "ratio"
             [] OTHER                         -> "always_on"

(* The stages agree: a preset and a mode given in CLOUD_PRESET and         *)
(* TELEMETRY_EXPORT to the first make the same pipeline, its sampler       *)
(* included, as in the provider config of the second, through two tables   *)
(* of spellings and two of modes.  Excluded are the spellings of newrelic  *)
(* that only the first table has, endpoints and headers given explicitly,  *)
(* and OTLP_ENDPOINT and OTLP_HEADERS, which the paths treat differently.  *)
StagesAgree ==
  \A c \in Provided :
    /\ c.preset \notin {"new_relic", "new-relic"} /\ c.mode \in Modes
    /\ c.endpoint = "unset" /\ c.headers = NoHeaders /\ c.ratio = "one"
    /\ env.headers = "unset" /\ env.endpoint = "unset"
    => LET first == FromEnv([preset |-> c.preset, sampling |-> "unset",
                             export |-> IF c.mode = "json-stdout" THEN "unset"
                                        ELSE c.mode,
                             gzip   |-> c.compression = "gzip"])
           second == FromProvider(c)
       IN  /\ first.ok /\ second.ok
           /\ first.mode = second.mode /\ first.endpoint = second.endpoint
           /\ first.headers = second.headers /\ first.gzip = second.gzip
           /\ BuildSampler(first.sampling) = BuildSampler(second.sampling)

(* A config without a warning is installed in the mode it names, through   *)
(* the list of validation and the tables of resolution; "none" and any     *)
(* spelling of json-stdout name JsonStdout.  The exception is "json-stdout" *)
(* itself next to a preset, which means the mode of the preset.            *)
ValidatedMeansWhatItSays ==
  \A c \in Provided : step = "install" /\ Validated(c) =>
    /\ export.mode =
         IF c.mode = "json-stdout" /\ c.preset # "unset"
         THEN PresetMode(ProviderPreset(c.preset))
         ELSE IF c.mode \in {"JSON-STDOUT", "none"} THEN "json-stdout" ELSE c.mode
    /\ export.mode \in OtlpModes /\ c.preset = "unset" => export.endpoint = "config"
    /\ c.ratio = "zero" <=> export.sampling = "always_off"
    /\ c.ratio = "one" <=> export.sampling = "always_on"
    /\ c.compression = "gzip" <=> export.gzip
=============================================================================

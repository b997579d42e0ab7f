------------------------ MODULE ExportResolutionProofs ------------------------
(***************************************************************************)
(* Theorems about ExportResolution, for any names, modes and compressions, *)
(* any combination of the fields of a config and any number of attempts:   *)
(* what is said explicitly wins, the two tables of presets and the         *)
(* validation agree with each other, and a pipeline sends its own headers. *)
(***************************************************************************)
EXTENDS ExportResolution, TLAPS

USE MaxAttemptsAssumption

-----------------------------------------------------------------------------
(* What the resolution is made of.                                         *)

LEMMA ExtendTyped ==
  ASSUME NEW h, NEW m, IsHeaders(h), IsHeaders(m)
  PROVE  IsHeaders(Extend(h, m))
BY DEF IsHeaders, Extend

LEMMA SerializedTyped ==
  ASSUME NEW h, IsHeaders(h) PROVE IsHeaders(Serialized(h))
BY DEF IsHeaders, Serialized

LEMMA NoHeadersTyped == IsHeaders(NoHeaders)
BY DEF IsHeaders, NoHeaders

LEMMA EnvHeadersTyped ==
  ASSUME env \in Envs PROVE IsHeaders(EnvHeaders)
BY DEF IsHeaders, EnvHeaders, NoHeaders, Header, HeaderNames, Envs

(* A preset, whichever it is, has a mode, and headers from known sources.  *)
LEMMA PresetTyped ==
  ASSUME env \in Envs, NEW p
  PROVE  /\ LoadPreset(p).ok \in BOOLEAN
         /\ LoadPreset(p).mode = PresetMode(p) /\ PresetMode(p) \in Modes
         /\ LoadPreset(p).endpoint = PresetEndpoint(p)
         /\ PresetEndpoint(p) \in {"unset", "env", "preset"}
         /\ LoadPreset(p).headers = PresetHeaders(p) /\ IsHeaders(PresetHeaders(p))
         /\ LoadPreset(p).ratio = "unset"
<1>1. PresetMode(p) \in Modes
  BY DEF PresetMode, Modes
<1>2. IsHeaders(PresetHeaders(p))
  <2>1. IsHeaders(Header("auth", "key"))
    BY DEF IsHeaders, Header, HeaderNames
  <2>. QED BY <2>1, ExtendTyped, NoHeadersTyped, EnvHeadersTyped DEF PresetHeaders
<1>. QED BY <1>1, <1>2 DEF LoadPreset, PresetEndpoint

LEMMA ErrTyped == Exported(Err) /\ Err.ok = FALSE
BY NoHeadersTyped DEF Exported, Err, Modes

LEMMA EnvTyped ==
  ASSUME env \in Envs, NEW in \in EnvInputs
  PROVE  Exported(FromEnv(in)) /\ FromEnv(in).ok \in BOOLEAN
<1>. DEFINE preset == LoadPreset(EnvPreset(in.preset))
<1>1. /\ preset.mode \in Modes /\ preset.endpoint \in {"unset", "env", "preset"}
      /\ IsHeaders(preset.headers)
  BY PresetTyped
<1>2. /\ in.gzip \in BOOLEAN
      /\ in.sampling \in {"unset", "bad", "parent", "always_on", "always_off", "ratio"}
  BY EnvInputsAssumption
<1>. HIDE DEF preset
<1>3. CASE FromEnv(in) = Err
  BY <1>3, ErrTyped
<1>4. CASE /\ in.export \in Modes \cup {"unset"} /\ in.sampling # "bad"
           /\ FromEnv(in) =
                [ok       |-> TRUE,
                 mode     |-> IF in.export = "unset" THEN preset.mode ELSE in.export,
                 endpoint |-> IF env.endpoint # "unset" THEN "env"
                              ELSE preset.endpoint,
                 headers  |-> IF EnvHeaders # NoHeaders THEN EnvHeaders
                              ELSE preset.headers,
                 sampling |-> IF in.sampling = "unset" THEN "parent"
                              ELSE in.sampling,
                 gzip     |-> in.gzip]
  <2>1. /\ FromEnv(in).mode \in Modes /\ FromEnv(in).gzip \in BOOLEAN
        /\ FromEnv(in).endpoint \in {"unset", "env", "preset"}
        /\ FromEnv(in).sampling \in {"parent", "always_on", "always_off", "ratio"}
        /\ FromEnv(in).ok = TRUE
    BY <1>1, <1>2, <1>4
  <2>2. IsHeaders(FromEnv(in).headers)
    BY <1>1, <1>4, EnvHeadersTyped
  <2>3. DOMAIN FromEnv(in) = {"ok", "mode", "endpoint", "headers", "sampling", "gzip"}
    BY <1>4
  <2>. QED BY <2>1, <2>2, <2>3 DEF Exported
<1>. QED BY <1>3, <1>4 DEF FromEnv, preset, Modes

LEMMA ProvidedTyped ==
  ASSUME NEW c \in ProviderInputs
  PROVE  /\ c.endpoint \in {"unset", "config"} /\ IsHeaders(c.headers)
         /\ c.headers \in UNION {[S -> {"config"}] : S \in SUBSET HeaderNames}
         /\ c.ratio \in {"below", "zero", "half", "one", "above", "nan"}
<1>1. /\ c.endpoint \in {"unset", "config"}
      /\ c.headers \in UNION {[S -> {"config"}] : S \in SUBSET HeaderNames}
      /\ c.ratio \in {"below", "zero", "half", "one", "above", "nan"}
  BY ProviderInputsAssumption
<1>2. IsHeaders(c.headers)
  BY <1>1 DEF IsHeaders
<1>. QED BY <1>1, <1>2

LEMMA ModeTyped ==
  \A name : ToExportMode(name) \in Modes /\ ExplicitMode(name) \in Modes
BY DEF ToExportMode, ExplicitMode, Modes

(* The two tables of modes, in different orders, are one.                  *)
LEMMA OneModeTable == \A name : ToExportMode(name) = ExplicitMode(name)
BY DEF ToExportMode, ExplicitMode

LEMMA ModeMeaning ==
  \A name : /\ name \in Modes => ExplicitMode(name) = name
            /\ name \notin Modes => ExplicitMode(name) = "json-stdout"
BY DEF ExplicitMode, Modes

LEMMA SamplingTyped ==
  \A ratio :
    ToExportSampling(ratio) \in {"always_on", "always_off", "ratio", "ratio NaN"}
BY DEF ToExportSampling

(* No preset has a ratio, so the two tables of ratios are one.             *)
LEMMA OneSamplingTable ==
  ASSUME NEW p, NEW ratio
  PROVE  EffectiveSampling(ratio, LoadPreset(p)) = ToExportSampling(ratio)
<1>1. LoadPreset(p).ratio = "unset"
  BY DEF LoadPreset
<1>. QED BY <1>1 DEF EffectiveSampling, ToExportSampling

LEMMA ResolvedTyped ==
  ASSUME env \in Envs, NEW c \in ProviderInputs
  PROVE  Exported(ResolveWithPreset(c)) /\ ResolveWithPreset(c).ok \in BOOLEAN
<1>. DEFINE preset == LoadPreset(ProviderPreset(c.preset))
            result == ResolveWithPreset(c)
<1>1. /\ preset.mode \in Modes /\ preset.endpoint \in {"unset", "env", "preset"}
      /\ IsHeaders(preset.headers)
  BY PresetTyped
<1>2. ASSUME preset.ok PROVE Exported(result) /\ result.ok = TRUE
  <2>1. result =
          [ok       |-> TRUE,
           mode     |-> IF c.mode # "json-stdout" \/ c.preset = "unset"
                        THEN ExplicitMode(c.mode) ELSE preset.mode,
           endpoint |-> IF c.endpoint # "unset" THEN c.endpoint ELSE preset.endpoint,
           headers  |-> Extend(preset.headers, c.headers),
           sampling |-> ToExportSampling(c.ratio),
           gzip     |-> c.compression = "gzip"]
    BY <1>2, OneSamplingTable DEF ResolveWithPreset
  <2>. HIDE DEF preset, result
  <2>2. /\ result.mode \in Modes /\ result.gzip \in BOOLEAN /\ result.ok = TRUE
        /\ result.endpoint \in {"unset", "env", "preset", "config"}
        /\ result.sampling \in {"always_on", "always_off", "ratio", "ratio NaN"}
    BY <1>1, <2>1, ModeTyped, SamplingTyped, ProvidedTyped
  <2>3. IsHeaders(result.headers)
    BY <1>1, <2>1, ExtendTyped, ProvidedTyped
  <2>4. DOMAIN result = {"ok", "mode", "endpoint", "headers", "sampling", "gzip"}
    BY <2>1
  <2>. QED BY <2>2, <2>3, <2>4 DEF Exported
<1>3. ASSUME ~preset.ok PROVE result = Err
  BY <1>3 DEF ResolveWithPreset
<1>. HIDE DEF preset, result
<1>4. Exported(result) /\ result.ok \in BOOLEAN
  BY <1>2, <1>3, ErrTyped
<1>. QED BY <1>4 DEF result

LEMMA ToExportTyped ==
  ASSUME NEW c \in ProviderInputs
  PROVE  Exported(ToExport(c)) /\ ToExport(c).ok = TRUE
<1>1. /\ ToExport(c).mode \in Modes /\ ToExport(c).gzip \in BOOLEAN
      /\ ToExport(c).endpoint \in {"unset", "config"}
      /\ ToExport(c).sampling \in {"always_on", "always_off", "ratio", "ratio NaN"}
      /\ ToExport(c).ok = TRUE
  BY ModeTyped, SamplingTyped, ProvidedTyped DEF ToExport
<1>2. IsHeaders(ToExport(c).headers)
  BY ProvidedTyped DEF ToExport
<1>3. DOMAIN ToExport(c) = {"ok", "mode", "endpoint", "headers", "sampling", "gzip"}
  BY DEF ToExport
<1>. QED BY <1>1, <1>2, <1>3 DEF Exported
-----------------------------------------------------------------------------
(* The strengthening.  An attempt works on one input; and what is being    *)
(* installed is what that input resolves to now, for the environment that  *)
(* the resolution read has not changed since.                              *)
Typed(i) == \/ i.auto = TRUE /\ i.in \in EnvInputs
            \/ i.auto = FALSE /\ i.in \in ProviderInputs

InstallsInput ==
  /\ \A i, j \in input : i = j
  /\ \A i \in input : Typed(i) /\ (step = "install" => export = Resolution(i))

RInv == TypeOK /\ InstallsInput /\ OwnHeadersSent

LEMMA ResolutionTyped ==
  ASSUME env \in Envs, NEW i, Typed(i)
  PROVE  Exported(Resolution(i)) /\ Resolution(i).ok \in BOOLEAN
<1>1. CASE i.auto = TRUE /\ i.in \in EnvInputs
  BY <1>1, EnvTyped DEF Resolution
<1>2. CASE i.auto = FALSE /\ i.in \in ProviderInputs
  BY <1>2, ResolvedTyped, ToExportTyped DEF Resolution, FromProvider
<1>. QED BY <1>1, <1>2 DEF Typed

(* The resolution reads nothing but the environment.                       *)
LEMMA SameResolution ==
  ASSUME UNCHANGED env PROVE \A i : Resolution(i)' = Resolution(i)
BY DEF Resolution, FromEnv, FromProvider, ResolveWithPreset, ToExport, LoadPreset,
       PresetEndpoint, PresetHeaders, EnvHeaders

LEMMA RInit == Init => RInv
<1>. SUFFICES ASSUME Init PROVE RInv
  OBVIOUS
<1>1. DOMAIN otel = Variables /\ AllHeaders(otel)
  <2>1. IsHeaders(Header("auth", "user"))
    BY DEF IsHeaders, Header, HeaderNames
  <2>. QED BY <2>1, NoHeadersTyped DEF Init, UserOtel, NoOtel, AllHeaders
<1>2. TypeOK
  BY <1>1, ErrTyped DEF Init, TypeOK
<1>. QED BY <1>2 DEF Init, RInv, InstallsInput, OwnHeadersSent

LEMMA ResolveKeeps == RInv /\ Resolve => RInv'
<1>. SUFFICES ASSUME RInv, Resolve PROVE RInv'
  OBVIOUS
<1>1. PICK i \in input :
        \/ ~Resolution(i).ok /\ EndAttempt
        \/ Resolution(i).ok /\ step' = "install" /\ export' = Resolution(i)
                            /\ UNCHANGED input
  BY DEF Resolve
<1>2. /\ UNCHANGED <<env, otel, awsEnv, rustLog, attempts, pipeline>>
      /\ step = "resolve"
      /\ Typed(i) /\ env \in Envs
  BY DEF Resolve, RInv, InstallsInput, TypeOK
<1>3. Exported(Resolution(i)) /\ Resolution(i).ok \in BOOLEAN
  BY <1>2, ResolutionTyped
<1>4. CASE EndAttempt
  BY <1>2, <1>4, ErrTyped DEF EndAttempt, RInv, TypeOK, InstallsInput, OwnHeadersSent
<1>5. CASE Resolution(i).ok /\ step' = "install" /\ export' = Resolution(i)
           /\ UNCHANGED input
  <2>1. \A j \in input : j = i
    BY DEF RInv, InstallsInput
  <2>2. Resolution(i)' = Resolution(i) /\ Typed(i)
    BY <1>2, SameResolution
  <2>3. InstallsInput'
    BY <1>2, <1>5, <2>1, <2>2 DEF InstallsInput, Typed
  <2>4. TypeOK'
    BY <1>2, <1>3, <1>5 DEF RInv, TypeOK
  <2>5. OwnHeadersSent'
    BY <1>2 DEF RInv, OwnHeadersSent
  <2>. QED BY <2>3, <2>4, <2>5 DEF RInv
<1>. QED BY <1>1, <1>4, <1>5

(* What is written, and what is found of it.                               *)
LEMMA OtelTyped ==
  ASSUME DOMAIN otel = Variables, AllHeaders(otel), NEW h, IsHeaders(h)
  PROVE  DOMAIN OtelAfter(h) = Variables /\ AllHeaders(OtelAfter(h))
BY SerializedTyped DEF OtelAfter, AllHeaders

LEMMA FoundTyped ==
  ASSUME NEW o, DOMAIN o = Variables, AllHeaders(o), NEW s \in Signals
  PROVE  IsHeaders(Found(o, s))
BY DEF Found, AllHeaders, Variables

LEMMA OwnFound ==
  ASSUME NEW h, Serialized(h) # NoHeaders, NEW s \in Signals
  PROVE  \/ Found(OtelAfter(h), s) = Serialized(h)
         \/ s = "logs" /\ otel[s] # NoHeaders
BY DEF Found, OtelAfter, Variables, Signals

Own(sent) ==
  \A s \in DOMAIN sent : \/ sent[s] = Serialized(export.headers)
                         \/ s = "logs" /\ otel[s] # NoHeaders

(* An install that leaves a typed environment and builds a typed pipeline, *)
(* which sends its own headers if it is gRPC, keeps the invariant.         *)
LEMMA BuildKeeps ==
  ASSUME RInv, step = "install", pipeline = {}, EndAttempt,
         UNCHANGED <<env, rustLog, attempts>>,
         DOMAIN otel' = Variables, AllHeaders(otel'),
         awsEnv' \in {"unset", "user", "config"}, otel'["logs"] = otel["logs"],
         NEW protocol \in {"grpc", "http", "signed", "own"}, NEW sent,
         DOMAIN sent \subseteq Signals, AllHeaders(sent),
         protocol = "grpc" /\ Serialized(export.headers) # NoHeaders
         => Own(sent),
         Build(protocol, sent)
  PROVE  RInv'
<1>. DEFINE made == [protocol |-> protocol, headers |-> export.headers, sent |-> sent]
<1>1. /\ made.protocol = protocol /\ made.headers = export.headers /\ made.sent = sent
      /\ IsHeaders(export.headers)
  BY DEF RInv, TypeOK, Exported
<1>2. \A p \in pipeline' : p = made
  BY DEF Build
<1>. HIDE DEF made
<1>3. TypeOK'
  <2>1. \A p \in pipeline' :
          /\ p.protocol \in {"grpc", "http", "signed", "own"} /\ IsHeaders(p.headers)
          /\ DOMAIN p.sent \subseteq Signals /\ AllHeaders(p.sent)
    BY <1>1, <1>2
  <2>. QED BY <2>1, ErrTyped DEF EndAttempt, RInv, TypeOK, AllHeaders
<1>4. OwnHeadersSent'
  BY <1>1, <1>2 DEF OwnHeadersSent, Own
<1>. QED BY <1>3, <1>4 DEF EndAttempt, RInv, InstallsInput

LEMMA InstallOtlpKeeps == RInv /\ InstallOtlp => RInv'
<1>. SUFFICES ASSUME RInv, InstallOtlp PROVE RInv'
  OBVIOUS
<1>1. /\ step = "install" /\ pipeline = {} /\ EndAttempt
      /\ UNCHANGED <<env, awsEnv, rustLog, attempts>>
      /\ DOMAIN otel = Variables /\ AllHeaders(otel) /\ IsHeaders(export.headers)
      /\ awsEnv' \in {"unset", "user", "config"}
  BY DEF InstallOtlp, RInv, TypeOK, Exported
<1>2. CASE export.mode = "otlp-grpc"
  <2>. DEFINE sent == [s \in Signals |-> Found(otel', s)]
  <2>1. otel' = OtelAfter(export.headers) /\ Build("grpc", sent)
    BY <1>2 DEF InstallOtlp
  <2>2. DOMAIN otel' = Variables /\ AllHeaders(otel') /\ otel'["logs"] = otel["logs"]
    BY <1>1, <2>1, OtelTyped DEF OtelAfter, Variables, Signals
  <2>3. DOMAIN sent \subseteq Signals /\ AllHeaders(sent)
    BY <2>2, FoundTyped DEF AllHeaders
  <2>4. Serialized(export.headers) # NoHeaders => Own(sent)
    BY <2>1, OwnFound DEF Own
  <2>. HIDE DEF sent
  <2>. QED BY <1>1, <2>1, <2>2, <2>3, <2>4, BuildKeeps
<1>3. CASE export.mode # "otlp-grpc"
  <2>. DEFINE sent == [s \in Signals |-> Extend(export.headers, Found(otel, s))]
  <2>1. UNCHANGED otel /\ Build("http", sent)
    BY <1>3 DEF InstallOtlp
  <2>2. DOMAIN sent \subseteq Signals /\ AllHeaders(sent)
    BY <1>1, FoundTyped, ExtendTyped DEF AllHeaders
  <2>. HIDE DEF sent
  <2>3. DOMAIN otel' = Variables /\ AllHeaders(otel') /\ otel'["logs"] = otel["logs"]
    BY <1>1, <2>1 DEF AllHeaders
  <2>. QED BY <1>1, <2>1, <2>2, <2>3, BuildKeeps
<1>. QED BY <1>2, <1>3

LEMMA InstallAwsCollectorKeeps == RInv /\ InstallAwsCollector => RInv'
<1>. SUFFICES ASSUME RInv, InstallAwsCollector PROVE RInv'
  OBVIOUS
<1>. DEFINE sent == [s \in Signals \ {"logs"} |-> Found(otel', s)]
<1>1. /\ step = "install" /\ pipeline = {} /\ EndAttempt
      /\ UNCHANGED <<env, awsEnv, rustLog, attempts>>
      /\ DOMAIN otel = Variables /\ AllHeaders(otel) /\ IsHeaders(export.headers)
      /\ awsEnv' \in {"unset", "user", "config"}
      /\ otel' = OtelAfter(export.headers) /\ Build("grpc", sent)
  BY DEF InstallAwsCollector, RInv, TypeOK, Exported
<1>2. DOMAIN otel' = Variables /\ AllHeaders(otel') /\ otel'["logs"] = otel["logs"]
  BY <1>1, OtelTyped DEF OtelAfter, Variables, Signals
<1>3. DOMAIN sent \subseteq Signals /\ AllHeaders(sent)
  BY <1>2, FoundTyped DEF AllHeaders
<1>4. Serialized(export.headers) # NoHeaders => Own(sent)
  BY <1>1, OwnFound DEF Own
<1>. HIDE DEF sent
<1>. QED BY <1>1, <1>2, <1>3, <1>4, BuildKeeps

LEMMA InstallAwsDirectKeeps == RInv /\ InstallAwsDirect => RInv'
<1>. SUFFICES ASSUME RInv, InstallAwsDirect PROVE RInv'
  OBVIOUS
<1>. DEFINE sent == [s \in Signals \ {"logs"} |-> Found(otel, s)]
<1>1. /\ step = "install" /\ pipeline = {} /\ EndAttempt
      /\ UNCHANGED <<env, otel, rustLog, attempts>>
      /\ DOMAIN otel = Variables /\ AllHeaders(otel)
      /\ awsEnv' \in {"unset", "user", "config"} /\ Build("signed", sent)
  BY DEF InstallAwsDirect, RInv, TypeOK
<1>2. DOMAIN sent \subseteq Signals /\ AllHeaders(sent)
  BY <1>1, FoundTyped DEF AllHeaders
<1>. HIDE DEF sent
<1>3. DOMAIN otel' = Variables /\ AllHeaders(otel') /\ otel'["logs"] = otel["logs"]
  BY <1>1 DEF AllHeaders
<1>. QED BY <1>1, <1>2, <1>3, BuildKeeps

LEMMA InstallOwnProtocolKeeps == RInv /\ InstallOwnProtocol => RInv'
<1>. SUFFICES ASSUME RInv, InstallOwnProtocol PROVE RInv'
  OBVIOUS
<1>. DEFINE sent == [s \in {} |-> NoHeaders]
<1>1. /\ step = "install" /\ pipeline = {} /\ EndAttempt
      /\ UNCHANGED <<env, otel, awsEnv, rustLog, attempts>>
      /\ DOMAIN otel = Variables /\ AllHeaders(otel)
      /\ awsEnv' \in {"unset", "user", "config"} /\ Build("own", sent)
  BY DEF InstallOwnProtocol, RInv, TypeOK
<1>2. DOMAIN sent \subseteq Signals /\ AllHeaders(sent)
  BY DEF AllHeaders
<1>. HIDE DEF sent
<1>3. DOMAIN otel' = Variables /\ AllHeaders(otel') /\ otel'["logs"] = otel["logs"]
  BY <1>1 DEF AllHeaders
<1>. QED BY <1>1, <1>2, <1>3, BuildKeeps

LEMMA RNext == RInv /\ [Next]_vars => RInv'
<1>. SUFFICES ASSUME RInv, [Next]_vars PROVE RInv'
  OBVIOUS
<1>0. ASSUME NEW i, Typed(i), input' = {i}, step = "ready", step' = "resolve",
             UNCHANGED <<env, otel, awsEnv, export, pipeline>>,
             attempts' \in 0 .. MaxAttempts,
             rustLog' \in {"unset", "user", "config"}
      PROVE  RInv'
  <2>1. TypeOK'
    BY <1>0 DEF RInv, TypeOK
  <2>2. InstallsInput'
    BY <1>0 DEF InstallsInput, Typed
  <2>3. OwnHeadersSent'
    BY <1>0 DEF RInv, OwnHeadersSent
  <2>. QED BY <2>1, <2>2, <2>3 DEF RInv
<1>1. ASSUME NEW in \in EnvInputs, BeginAuto(in) PROVE RInv'
  <2>. DEFINE i == [auto |-> TRUE, in |-> in]
  <2>1. Typed(i)
    BY DEF Typed
  <2>2. /\ input' = {i} /\ step = "ready" /\ step' = "resolve"
        /\ UNCHANGED <<env, otel, awsEnv, export, pipeline>>
        /\ attempts' \in 0 .. MaxAttempts
        /\ rustLog' \in {"unset", "user", "config"}
    BY <1>1 DEF BeginAuto, RInv, TypeOK
  <2>. HIDE DEF i
  <2>. QED BY <1>0, <2>1, <2>2
<1>2. ASSUME NEW c \in ProviderInputs, BeginProvider(c) PROVE RInv'
  <2>. DEFINE i == [auto |-> FALSE, in |-> c]
  <2>1. Typed(i)
    BY DEF Typed
  <2>2. /\ input' = {i} /\ step = "ready" /\ step' = "resolve"
        /\ UNCHANGED <<env, otel, awsEnv, export, pipeline>>
        /\ attempts' \in 0 .. MaxAttempts
        /\ rustLog' \in {"unset", "user", "config"}
    BY <1>2 DEF BeginProvider, RInv, TypeOK
  <2>. HIDE DEF i
  <2>. QED BY <1>0, <2>1, <2>2
<1>3. CASE InstallNothing
  BY <1>3, ErrTyped DEF InstallNothing, EndAttempt, RInv, TypeOK, InstallsInput,
                        OwnHeadersSent, AllHeaders
<1>4. CASE UNCHANGED vars
  <2>1. \A i : Resolution(i)' = Resolution(i)
    BY <1>4, SameResolution DEF vars
  <2>2. TypeOK'
    BY <1>4 DEF vars, RInv, TypeOK
  <2>3. InstallsInput'
    BY <1>4, <2>1 DEF vars, RInv, InstallsInput, Typed
  <2>4. OwnHeadersSent'
    BY <1>4 DEF vars, RInv, OwnHeadersSent
  <2>. QED BY <2>2, <2>3, <2>4 DEF RInv
<1>. QED BY <1>1, <1>2, <1>3, <1>4, ResolveKeeps, InstallOtlpKeeps,
            InstallAwsCollectorKeeps, InstallAwsDirectKeeps, InstallOwnProtocolKeeps
         DEF Next

LEMMA RInvariance == Spec => []RInv
BY RInit, RNext, PTL DEF Spec
-----------------------------------------------------------------------------
(* Every variable keeps its type: whatever the input, what is installed is *)
(* a mode the installers know, with headers from known sources.            *)
THEOREM TypeCorrect == Spec => []TypeOK
<1>1. RInv => TypeOK
  BY DEF RInv
<1>. QED BY <1>1, RInvariance, PTL

(* A gRPC pipeline, of OTLP or of the AWS collector, with headers of its   *)
(* own sends those with traces and metrics, and with logs unless the user  *)
(* has set a variable for logs, not what an earlier attempt or the user    *)
(* has in the OTEL_EXPORTER_OTLP_*HEADERS variables.                       *)
THEOREM OwnHeadersAlwaysSent == Spec => []OwnHeadersSent
<1>1. RInv => OwnHeadersSent
  BY DEF RInv
<1>. QED BY <1>1, RInvariance, PTL

LEMMA ProvidedInput ==
  ASSUME RInv, NEW c \in Provided
  PROVE  /\ c \in ProviderInputs /\ env \in Envs
         /\ step = "install" => export = FromProvider(c) /\ export.ok
<1>1. PICK i \in input : ~i.auto /\ c = i.in
  BY DEF Provided
<1>2. i.auto = FALSE /\ c \in ProviderInputs
  BY <1>1 DEF RInv, InstallsInput, Typed
<1>3. step = "install" => export = Resolution(i) /\ export.ok
  BY DEF RInv, InstallsInput, TypeOK
<1>4. Resolution(i) = FromProvider(c)
  BY <1>1 DEF Resolution
<1>. QED BY <1>2, <1>3, <1>4 DEF RInv, TypeOK

(* What an install of a provider config uses, field by field.              *)
LEMMA Installed ==
  ASSUME RInv, NEW c \in Provided, step = "install"
  PROVE  LET preset == LoadPreset(ProviderPreset(c.preset)) IN
         /\ c.preset = "unset" => export = ToExport(c)
         /\ c.preset # "unset" =>
              export =
                [ok       |-> TRUE,
                 mode     |-> IF c.mode # "json-stdout" THEN ExplicitMode(c.mode)
                              ELSE preset.mode,
                 endpoint |-> IF c.endpoint # "unset" THEN c.endpoint
                              ELSE preset.endpoint,
                 headers  |-> Extend(preset.headers, c.headers),
                 sampling |-> ToExportSampling(c.ratio),
                 gzip     |-> c.compression = "gzip"]
<1>1. export = FromProvider(c) /\ export.ok
  BY ProvidedInput
<1>2. export # Err
  BY <1>1, ErrTyped
<1>. QED BY <1>1, <1>2, OneSamplingTable DEF FromProvider, ResolveWithPreset

(* The tables of modes and of ratios that resolve_with_preset has, and     *)
(* those of to_export_config, agree where no preset is known by the name.  *)
THEOREM UnknownPresetIsAlwaysNone == Spec => []UnknownPresetIsNone
<1>1. ASSUME RInv, NEW c \in Provided, ProviderPreset(c.preset) = "none"
      PROVE  ResolveWithPreset(c) = ToExport(c)
  <2>. DEFINE preset == LoadPreset("none")
  <2>1. /\ preset.ok = TRUE /\ preset.mode = "json-stdout"
        /\ preset.endpoint = "unset" /\ preset.headers = NoHeaders
    BY DEF LoadPreset, PresetMode, PresetEndpoint, PresetHeaders, ReadsHeaders,
           ReadsEnv, WithDefault, Presets
  <2>0. EffectiveSampling(c.ratio, preset) = ToExportSampling(c.ratio)
    BY OneSamplingTable
  <2>. HIDE DEF preset
  <2>2. c.headers \in UNION {[S -> {"config"}] : S \in SUBSET HeaderNames}
    BY <1>1, ProvidedInput, ProvidedTyped
  <2>3. c.headers = [n \in DOMAIN c.headers |-> c.headers[n]]
    BY <2>2
  <2>4. Extend(NoHeaders, c.headers) = c.headers
    BY <2>3 DEF Extend, NoHeaders
  <2>5. (IF c.mode # "json-stdout" \/ c.preset = "unset" THEN ExplicitMode(c.mode)
         ELSE "json-stdout") = ToExportMode(c.mode)
    BY DEF ExplicitMode, ToExportMode
  <2>6. (IF c.endpoint # "unset" THEN c.endpoint ELSE "unset") = c.endpoint
    OBVIOUS
  <2>. QED BY <1>1, <2>0, <2>1, <2>4, <2>5, <2>6 DEF ResolveWithPreset, ToExport, preset
<1>2. RInv => UnknownPresetIsNone
  BY <1>1 DEF UnknownPresetIsNone
<1>. QED BY <1>2, RInvariance, PTL

(* What build_sampler makes of a ratio.                                    *)
LEMMA Sampled ==
  ASSUME NEW c \in ProviderInputs, c.ratio # "one"
  PROVE  BuildSampler(ToExportSampling(c.ratio)) =
           CASE c.ratio \in {"below", "zero"} -> "always_off"
             [] c.ratio = "half"              -> "ratio"
             [] OTHER                         -> "always_on"
<1>1. c.ratio \in {"below", "zero", "half", "above", "nan"}
  BY ProvidedTyped
<1>. QED BY <1>1 DEF BuildSampler, ToExportSampling

(* The mode, endpoint, headers and ratio that a config sets to something   *)
(* other than the default are installed as they are set, whatever the      *)
(* preset and the environment say.                                         *)
THEOREM ExplicitFieldsAlwaysWin == Spec => []ExplicitFieldsWin
<1>1. ASSUME RInv, NEW c \in Provided, step = "install"
      PROVE  /\ c.mode \in Modes \ {"json-stdout"} => export.mode = c.mode
             /\ c.mode \notin Modes => export.mode = "json-stdout"
             /\ c.endpoint # "unset" => export.endpoint = "config"
             /\ \A n \in DOMAIN c.headers : export.headers[n] = c.headers[n]
             /\ export.sampling = ToExportSampling(c.ratio)
  <2>1. c.endpoint \in {"unset", "config"}
    BY <1>1, ProvidedInput, ProvidedTyped
  <2>2. CASE c.preset = "unset"
    <3>1. export = ToExport(c)
      BY <1>1, <2>2, Installed
    <3>. QED BY <2>1, <3>1, OneModeTable, ModeMeaning DEF ToExport
  <2>3. CASE c.preset # "unset"
    <3>. DEFINE preset == LoadPreset(ProviderPreset(c.preset))
    <3>1. export =
            [ok       |-> TRUE,
             mode     |-> IF c.mode # "json-stdout" THEN ExplicitMode(c.mode)
                          ELSE preset.mode,
             endpoint |-> IF c.endpoint # "unset" THEN c.endpoint
                          ELSE preset.endpoint,
             headers  |-> Extend(preset.headers, c.headers),
             sampling |-> ToExportSampling(c.ratio),
             gzip     |-> c.compression = "gzip"]
      BY <1>1, <2>3, Installed
    <3>. HIDE DEF preset
    <3>2. \A n \in DOMAIN c.headers : Extend(preset.headers, c.headers)[n] = c.headers[n]
      BY DEF Extend
    <3>3. "json-stdout" \in Modes
      BY DEF Modes
    <3>. QED BY <2>1, <3>1, <3>2, <3>3, ModeMeaning
  <2>. QED BY <2>2, <2>3
<1>2. RInv => ExplicitFieldsWin
  BY <1>1, ProvidedInput, Sampled DEF ExplicitFieldsWin
<1>. QED BY <1>2, RInvariance, PTL

(* But for the spellings of newrelic, the two tables of names are one.     *)
LEMMA OneSpellingTable ==
  ASSUME NEW name, name \notin {"new_relic", "new-relic"}
  PROVE  EnvPreset(name) = ProviderPreset(name)
BY DEF EnvPreset, ProviderPreset

(* The first stage and the second make the same pipeline, sampler          *)
(* included, of the same preset and mode, if neither endpoint nor headers  *)
(* are given and the preset is not a spelling of newrelic that one of them *)
(* does not know.                                                          *)
THEOREM StagesAlwaysAgree == Spec => []StagesAgree
<1>1. ASSUME RInv, NEW c \in Provided, c.preset \notin {"new_relic", "new-relic"},
             c.mode \in Modes, c.endpoint = "unset", c.headers = NoHeaders,
             c.ratio = "one", env.headers = "unset", env.endpoint = "unset"
      PROVE  LET first == FromEnv([preset |-> c.preset, sampling |-> "unset",
                                   export |-> IF c.mode = "json-stdout" THEN "unset"
                                              ELSE c.mode,
                                   gzip   |-> c.compression = "gzip"])
                 second == FromProvider(c)
             IN  /\ first.ok /\ second.ok
                 /\ first.mode = second.mode /\ first.endpoint = second.endpoint
                 /\ first.headers = second.headers /\ first.gzip = second.gzip
                 /\ BuildSampler(first.sampling) = BuildSampler(second.sampling)
  <2>. DEFINE given  == [preset |-> c.preset, sampling |-> "unset",
                         export |-> IF c.mode = "json-stdout" THEN "unset"
                                    ELSE c.mode,
                         gzip   |-> c.compression = "gzip"]
              preset == LoadPreset(EnvPreset(c.preset))
              first  == FromEnv(given)
              second == FromProvider(c)
  <2>1. EnvPreset(c.preset) = ProviderPreset(c.preset)
    BY <1>1, OneSpellingTable
  <2>2. preset.ok = TRUE /\ EnvHeaders = NoHeaders
    BY <1>1 DEF LoadPreset, EnvHeaders
  <2>3. /\ given.preset = c.preset /\ given.sampling = "unset"
        /\ given.export = IF c.mode = "json-stdout" THEN "unset" ELSE c.mode
        /\ given.gzip = (c.compression = "gzip")
    OBVIOUS
  <2>4. preset.headers = [n \in DOMAIN preset.headers |-> preset.headers[n]]
    BY <2>2 DEF LoadPreset, PresetHeaders, NoHeaders, Extend
  <2>5. c.preset = "unset" =>
          /\ preset.mode = "json-stdout" /\ preset.endpoint = "unset"
          /\ preset.headers = NoHeaders
    BY DEF EnvPreset, LoadPreset, PresetMode, PresetEndpoint, PresetHeaders,
           ReadsHeaders, ReadsEnv, WithDefault, Presets
  <2>6. EffectiveSampling(c.ratio, preset) = "always_on"
        /\ ToExportSampling(c.ratio) = "always_on"
    BY <1>1, OneSamplingTable DEF ToExportSampling
  <2>. HIDE DEF preset, given
  <2>7. /\ first.ok /\ first.endpoint = preset.endpoint
        /\ first.mode = IF c.mode = "json-stdout" THEN preset.mode ELSE c.mode
        /\ first.headers = preset.headers /\ first.sampling = "parent"
        /\ first.gzip = (c.compression = "gzip")
    <3>1. given.export \in {"unset", "json-stdout", "otlp-grpc", "otlp-http",
                            "azure-appinsights", "aws-xray", "gcp-cloud-trace"}
      BY <1>1, <2>3 DEF Modes
    <3>2. first =
            [ok       |-> TRUE,
             mode     |-> IF given.export = "unset" THEN preset.mode ELSE given.export,
             endpoint |-> preset.endpoint, headers |-> preset.headers,
             sampling |-> "parent", gzip |-> given.gzip]
      BY <1>1, <2>2, <2>3, <3>1 DEF FromEnv, preset
    <3>3. c.mode # "unset"
      BY <1>1 DEF Modes
    <3>. QED BY <2>3, <3>2, <3>3
  <2>8. Extend(preset.headers, NoHeaders) = preset.headers
    BY <2>4 DEF Extend, NoHeaders
  <2>9. /\ second.ok /\ second.endpoint = preset.endpoint
        /\ second.mode = IF c.mode = "json-stdout" THEN preset.mode ELSE c.mode
        /\ second.headers = preset.headers /\ second.sampling = "always_on"
        /\ second.gzip = (c.compression = "gzip")
    <3>1. CASE c.preset = "unset"
      <4>1. second = ToExport(c)
        BY <3>1 DEF FromProvider
      <4>. QED BY <1>1, <2>5, <2>6, <3>1, <4>1, OneModeTable, ModeMeaning DEF ToExport
    <3>2. CASE c.preset # "unset"
      <4>1. second =
              [ok       |-> TRUE,
               mode     |-> IF c.mode # "json-stdout" THEN ExplicitMode(c.mode)
                            ELSE preset.mode,
               endpoint |-> preset.endpoint,
               headers  |-> Extend(preset.headers, NoHeaders),
               sampling |-> "always_on", gzip |-> c.compression = "gzip"]
        BY <1>1, <2>1, <2>2, <2>6, <3>2 DEF FromProvider, ResolveWithPreset, preset
      <4>. QED BY <1>1, <2>8, <4>1, ModeMeaning
    <3>. QED BY <3>1, <3>2
  <2>. HIDE DEF first, second
  <2>10. BuildSampler(first.sampling) = BuildSampler(second.sampling)
    BY <2>7, <2>9 DEF BuildSampler
  <2>. QED BY <2>7, <2>9, <2>10 DEF given, first, second
<1>2. RInv => StagesAgree
  BY <1>1, Zenon DEF StagesAgree
<1>. QED BY <1>2, RInvariance, PTL

(* A config that validation has nothing to say about is installed in the   *)
(* mode, with the ratio and the compression it names; "json-stdout" next   *)
(* to a preset names the preset's mode.                                    *)
THEOREM ValidatedAlwaysMeansWhatItSays == Spec => []ValidatedMeansWhatItSays
<1>1. ASSUME RInv, NEW c \in Provided, step = "install", Validated(c)
      PROVE  /\ export.mode =
                  IF c.mode = "json-stdout" /\ c.preset # "unset"
                  THEN PresetMode(ProviderPreset(c.preset))
                  ELSE IF c.mode \in {"JSON-STDOUT", "none"} THEN "json-stdout"
                  ELSE c.mode
             /\ export.mode \in OtlpModes /\ c.preset = "unset"
                => export.endpoint = "config"
             /\ c.ratio = "zero" <=> export.sampling = "always_off"
             /\ c.ratio = "one" <=> export.sampling = "always_on"
             /\ c.compression = "gzip" <=> export.gzip
  <2>1. c.endpoint \in {"unset", "config"}
    BY <1>1, ProvidedInput, ProvidedTyped
  <2>2. LoadPreset(ProviderPreset(c.preset)).mode = PresetMode(ProviderPreset(c.preset))
    BY DEF LoadPreset
  <2>3. /\ export.sampling = ToExportSampling(c.ratio)
        /\ export.gzip = (c.compression = "gzip")
        /\ c.preset = "unset" =>
             export.mode = ExplicitMode(c.mode) /\ export.endpoint = c.endpoint
        /\ c.preset # "unset" =>
             export.mode = IF c.mode # "json-stdout" THEN ExplicitMode(c.mode)
                           ELSE PresetMode(ProviderPreset(c.preset))
    BY <1>1, <2>2, Installed, OneModeTable DEF ToExport
  <2>4. /\ c.ratio = "zero" <=> ToExportSampling(c.ratio) = "always_off"
        /\ c.ratio = "one" <=> ToExportSampling(c.ratio) = "always_on"
    BY <1>1 DEF Validated, ToExportSampling
  <2>5. ExplicitMode(c.mode) = IF c.mode \in {"JSON-STDOUT", "none"} THEN "json-stdout"
                               ELSE c.mode
    BY <1>1 DEF Validated, ExplicitMode
  <2>6. c.mode \in OtlpModes /\ c.endpoint = "unset" => c.preset # "unset"
    BY <1>1 DEF Validated
  <2>7. "json-stdout" \notin OtlpModes
    BY DEF OtlpModes
  <2>. QED BY <2>1, <2>3, <2>4, <2>5, <2>6, <2>7
<1>2. RInv => ValidatedMeansWhatItSays
  BY <1>1 DEF ValidatedMeansWhatItSays
<1>. QED BY <1>2, RInvariance, PTL
=============================================================================

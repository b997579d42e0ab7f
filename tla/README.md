# greentic-telemetry in TLA+

This directory specifies, model-checks and proves properties of
greentic-telemetry, the crate through which the Greentic hosts set up logging,
tracing and metrics. `PROJECT.json` lists components, runs, mutants, hazards and
theorems, and maps every definition that models code to its lines.

## The system

| Part | Keeps | Operations | Interacts with |
|---|---|---|---|
| initialisation (`init.rs`) | the OnceCells `INITED`, `INIT_GUARD`, `TRACER/METER/LOGGER_PROVIDER`, `OTEL_RELOAD_HANDLE` | `init_telemetry`, `init_telemetry_from_config` (five `install_*` functions), `init_telemetry_auto`, `shutdown` | OpenTelemetry globals, the global tracing subscriber, the environment |
| provider configuration (`provider.rs`) | the environment variables it writes | `init_from_provider_config`, `validate_telemetry_config` | calls initialisation |
| export resolution and presets (`export.rs`, `presets/`) | nothing | `from_env`, `load_preset` | feeds initialisation |
| redaction (`redaction.rs`) | the OnceCell `REDACTOR` | `init_from_env`, `redact_*` | read lazily by every exporter wrapper and fmt layer |
| client (`client.rs`) | `CLIENT_STATE`, its two providers, trace id, histograms | `init`, `span`, `metric`, `set_trace_id` | competes for the globals and the subscriber |
| context (`context.rs`, `layer.rs`, `tasklocal.rs`) | a task-local context, a context per span | scope, set, read on span creation and entry, annotate | spans, metrics |
| operation and state subscriptions (`operation_subs.rs`, `state_subs.rs`) | Lazy metric instruments | seven emission functions, the metric functions | called by the operator, deliver to the global meter |
| wasm host (`wasm_host.rs`) | span map, id counter, per-thread stack | `span_start`, `span_end`, `log` | called by guests |
| wasm guest (`wasm_guest.rs`) | minimum level; without a host a span registry | the same, filtered | the host, or stdout |
| secrets, rollout, host bridge, SigV4 client, test utilities | nothing | formatting and I/O | |

What is hard here: nothing serialises the initialisation. The public entry
points may be called by several threads, repeatedly, in stages (stdout at start-up,
a provider's configuration later), and may fail half way through, while other
threads already measure and trace; the state they share is a dozen write-once
cells that are tested at the start of a call and written at its end, and the
process environment. Spans are hard because a start and an end are two calls that must
agree although threads, nesting and the level filter come between, and because
tasks of one tenant enter spans of another. Configuration is hard because three
tables of modes and presets are kept in step by hand, and operations are hard
because a dozen functions repeat, with variations, the same tests of one
configuration. The hazards are listed one by one in `PROJECT.json`.

What makes each part correct, in a sentence:
initialisation - exports go through the providers `shutdown` can stop, a failure
can be retried, an upgrade takes effect;
export resolution - explicit settings win over presets, whichever path they take;
redaction - no pipeline runs before the redactor, and the pipelines mask alike;
client - a metric is one stream, and nothing vanishes in a no-op provider;
context - a span keeps the context it was created in, and exports that one;
operations - traces are whole, and what the configuration withholds stays inside;
spans - host and guest agree on the current span, every span closes.

## Modules

### TelemetryInit (core), ExportSink

`TelemetryInit` is the process: one variable per static of the crate (`inited`,
`guard`, `cell`, `handle`, `redactor`, `clientState`, `clientCell`), one per
global of the libraries (`global`, `propagator`, `slot`, `subscriber`), and the
threads. A call walks through the steps of `pc`; each step reads and writes
shared state at most at one point, because each OnceCell operation is atomic and
nothing else is:

| step | code |
|---|---|
| `resolve` | `init_from_provider_config`: environment written, preset resolved or error |
| `redact` | `redaction::init_from_env` |
| `check` | the early returns on `INITED`, `INIT_GUARD`, `CLIENT_STATE` |
| `propagate` | the text map propagator; azure and gcp may find no credentials and return |
| `build`, `store` | per signal: exporter built (or `?`), provider made global; cell `.set` |
| `layer` | `build_otel_layer` from the cells |
| `reload`, `publish`, `tryinit` | `init_otel_subscriber`, `init_fmt_layers`: hot swap, or handle `.set` and `try_init` |
| `guard`, `inited`, `client` | the `.set` of the once-guards |
| `shutdown` | the three cells one after the other |

A provider, a slot and a subscriber are named by the number of the call that
built them, so "whose provider receives the spans" is a number to compare.
`entryOf`, `outcome`, `deadRuntime`, and the layer of a shutdown's `job` are
history.

Abstractions. `RUST_LOG`, headers, presets, samplers and compression are in
`ExportResolution`; resources, TLS and the writers of the fmt layers are
left out. gRPC and HTTP have the same control flow and are one mode, `otlp`;
`init_telemetry_auto` is `init_telemetry_from_config` after a reading of the
environment that changes nothing. A failure to create a runtime is `BuildFails` of
the first signal. `redact` reads the environment and sets the cell in one step, and
`layer` reads the cells in one step: the cells are write-once, so a later reading
would be another interleaving of the whole step with the `store` of another thread.
Only `init_telemetry` drops its runtime on error; the `install_*` functions leak
theirs on both paths, so only there `own` matters.

`ExportSink` is the promise in three actions: spans are attached to one provider,
once; the log bridge is added at most once; stopped providers stay stopped.
`TelemetryInit` implements it with `spans <- Sink.tracer`, `logs <- Sink.logger`,
where `Sink` is the layer in the slot of the global subscriber.

### TelemetryUse, Redaction

`TelemetryUse` EXTENDS `TelemetryInit` and `Redaction`, and composes the
initialisation with its users. `UseNext` is a step of the initialisation or of a
thread in `client.rs`: `metric` reads the global meter (`MetricStart`) and then
looks up or creates the histogram under the lock (`MetricRecord`); `span` reads
the global tracer and then the pinned trace id (`SpanStart`, `SpanBuild`);
`set_trace_id` unpins when the id does not parse. `SpanOut` and `LogOut` are what
leaves the process through the subscriber of the moment.

`Redaction` is `redaction.rs` without state: a text is the set of heuristics it
triggers, a key is sensitive or not. `RedactAttribute` is the wrapped span
exporter's path, `FmtField` the redacting fmt layer's, which formats numbers
before it looks at them.

### ContextTasks

`context.rs`, `tasklocal.rs` and `layer.rs`: a task has a stack of scopes
(`with_task_local`), sets the innermost slot, and creates and enters spans. `NewSpan`
is `on_new_span`; `on_enter` is `LookUp` (read lock) and `Record` (write lock).
A producer annotates a span right after creating it, as `annotate_span`'s comment
asks: with any context of its own (`AnnotateSpan`, which adds attributes and leaves
the extensions alone), with the task's (`AnnotateCurrentSpan`), with several in turn,
or not at all (`Release`); only the creator has a handle until then. `ext` is the
context in the span's extensions, `attrs` what is exported; `origin` and `given`, the
contexts handed to `annotate_span`, are history. What is exported and what is stored
are therefore two things, and `ExportMatchesStored` says when they are the same.

### ExportResolution

An application attempts to initialise, from the environment or from a provider
configuration, until it works. `FromEnv`, `ToExport`, `ResolveWithPreset` and
`Validated` are pure operators over records whose header values, endpoints and
levels are abstracted to where they come from ("env", "key", "config", "user"). The
tables the code has twice are here twice: of preset names `EnvPreset`
(`detect_from_env`) and `ProviderPreset` (`resolve_with_preset`), of modes
`ToExportMode` and `ExplicitMode`, of ratios `ToExportSampling` and
`EffectiveSampling`; `Validated` is a third list of modes.
`otel` (the OTLP header variables, one for all signals and one for each), `awsEnv`
and `rustLog` are the environment variables an attempt leaves behind.
The install actions say which headers the pipeline sends with each signal. The gRPC
exporters of `InstallOtlp` and `InstallAwsCollector` take them from the environment,
where the install has written those of the config if there are any; the HTTP
exporters of `InstallOtlp` have both, and the environment's win where names clash;
those of `InstallAwsDirect` have the environment's, and of the config only the
credentials, which are written to the `AWS_*` variables; azure and gcp
(`InstallOwnProtocol`) take a connection string and a project from the config and
send no headers.

### HostSpans, SpanTree, GuestBridge

`HostSpans` is `wasm_host.rs` with its counter, map and thread-local stack as
separate steps, and callers that end any id anywhere. It implements `SpanTree`:
a stack per thread, only its top is left, and what was left is closed for good.
`GuestBridge` EXTENDS `HostSpans` and puts a guest in front of each thread:
minimum level, sentinel id, and spans ended innermost first. The test of the
level and the host call's `fetch_add` are one step, for the level of a guest is
its own. Guests move their level at any time; the history `astray` tells whether
the filter has swallowed the end of a span whose start had crossed to the host,
the one thing that separates host and guest. As long as it has not, the host follows
the guests, warns about none, and keeps nothing of a guest that has nothing open
(`NothingLeft`); and every span is closed in the end (`SpansClose`).

### GuestSpans

The fallback build of the guest: one registry and one level for all threads.

### OperationSubs

The operator's calls for an operation, in the order `docs/correlation-model.md`
gives (this order is the one external assumption), with `emitted` the spans and
events and `recorded` the measurements. `bound` is the Lazy static of each
instrument; `Upgrade` is the moment an install makes its meter provider global.
An identifier is `raw`, `hashed` or `empty`. The root span and the metrics have two
functions each, one that applies the configuration's attribution and one that does
not; the operator may call either at each point, and a record says whether it was
`attributed` (requested and completed always are). State operations are the second
path from `new`.

### MC modules and proof modules

`MCTelemetryInit`, `MCTelemetryUse`, `MCContextTasks`, `MCExportResolution`,
`MCHostSpans`, `MCGuestBridge`, `MCGuestSpans`, `MCOperationSubs` hold the sets the
`.cfg` files name. The eight `*Proofs` modules are described under "Proofs".

## Runs

| run | question | bounds | distinct states |
|---|---|---|---|
| InitConcurrent | safety of the core and refinement of ExportSink under interleaving | 2 threads, 3 calls, `json` and `otlp`, all entries but `init_telemetry_from_config`, no redaction patterns | 1.8 million |
| UseStages | upgrade, retry, redaction and the client while the stages run | 1 initialising thread, 3 calls, `otlp` and `gcp`, all entries but `shutdown`, with and without patterns; 2 users, 2 client calls, 1 metric, 1 trace id | 1.2 million |
| ContextRace | contexts across tasks | 2 tasks, 1 span, 2 nested scopes, 3 contexts of 2 tenants, 1 of them handed to `annotate_span` | 0.12 million |
| ResolveAll | precedence, agreement of the tables, leftovers of attempts | 2 attempts, all presets, spellings and modes, a few hundred configurations | 2.6 million |
| HostAnyCaller | hostile callers of the host | 2 threads, 3 spans | 47 thousand |
| BridgeNested | well-nested guests, with liveness | 2 guests, 3 spans, nesting 2, 3 levels | 37 thousand |
| FallbackAnyLevel | the registry while the level moves | 2 threads, 4 spans | 2.6 thousand |
| OpsConcurrent | traces and privacy under every configuration | 2 operations, 2 names, 33 configurations | 2.2 million |

Why the bounds are enough: the properties of the core relate at most two
installs and one shutdown, the two writers of a cell and its reader; three calls on
two threads contain every such triple, in particular failure, retry, and a rival.
Three calls in sequence contain stage 1, a failed stage 2 and its retry. Two users
with one metric name show the race for its histogram. `InitConcurrent`
has no `init_telemetry_from_config` because `init_from_provider_config` is that and
more; `UseStages` has both, and no `shutdown`, which touches nothing its properties
read. The export modes that install less than otlp stand for one another: `gcp`
installs the tracer only, can fail before any signal and is not wrapped; azure and
aws, which no run has, install the tracer and the meter. The proofs cover all
modes but where said otherwise. Two tasks and one span are a creator and a rival, and
each property of contexts is about one span, which no other span touches; the
third context differs from the second in its session only, which is what the metric
labels must not show. One of two attempts fails and leaves its traces for the
other. Two spans on one thread and one on another show order, nesting and sharing;
the third id shows reuse. Levels below, at and above Debug are all the filter tells
apart. Two operations show the sharing of an instrument, which is all operations
share; the configurations vary what is selected, what is said of payloads and what is
said of identifiers one group at a time, because no function reads fields of two
groups for one decision. For every safety property of a passing run the proofs take
the bounds away, except where "Proofs" says otherwise.

Deadlock checking is off where calls, uses or attempts are numbered and used up:
afterwards all threads are idle.

Liveness: `SpansClose` assumes weak fairness of a host call that was begun
(`HostStep`: it is straight-line code behind a briefly held mutex) and, per
nesting depth, strong fairness of `GuestEnd`: guests end spans in destructors,
which run when the guest's function returns or unwinds, so a guest does not stay
at a depth for ever, though it may have started and ended inner spans in between.
It does not assume that a guest ever starts a span or changes its level.

### Where the code departs from what is said of it

Four runs end in a counterexample:

- **InitUpgradeIgnored**: stage 1 with an OTLP endpoint, then stage 2: the second
  provider is built and made global, `TRACER_PROVIDER` keeps the first, and so
  does the layer. The call returns Ok. Metrics, whose instruments use the global,
  may move; spans do not.
- **InitDeadRuntime**: a first `init_telemetry` stores its tracer provider, fails at
  the metric exporter and drops the runtime; the second `init_telemetry` builds
  everything, but the cell keeps the first provider, and the subscriber it
  publishes exports through that one. It returns Ok. The run has this entry point
  only, since no other function drops its runtime.
- **RedactionGlobal**: OTLP log records are exported by a `LogExporter` nobody
  wraps, against README.md:85 of the repository.
- **OpsExcludedError**: `emit_operation_error` compares the excluded names with
  the op_id.

Further divergences and surprises are in the models, without a run of their own.

Initialisation and redaction: patterns of a configuration that arrives after any
earlier initialisation are never compiled (`provider.rs:295` speaks of "before the
telemetry pipeline initializes the redactor"; `FirstPatternsApply` says when it holds);
they are matched as substrings, not as regular expressions, and only in a mode that is
on; the gcp installer and `client::init` export spans through bare exporters, metrics
are not redacted anywhere, and the `dev` fmt layers call `.pretty()` and `.json()`
after `.fmt_fields`, which replaces the redacting formatter; `shutdown()` stops
none of the client's providers; `PII_MASK_REGEXES` and `RUST_LOG` may be written
while workers of stage 1 run (`provider.rs:311`).

Configuration: `docs/otlp-backends.md:48` gives the aws, gcp and azure presets OTLP
gRPC to localhost, the code gives them their cloud modes without an endpoint;
`docs/otlp-backends.md:55` says explicit fields always override, an explicit
`json-stdout` or ratio 1.0 cannot be told from the default; `OTLP_HEADERS` replaces
a preset's headers (API key included) in `from_env` and is merged with them in
`resolve_with_preset`; the presets `otlp-grpc`, `otlp-http` and `stdout` ignore
`OTLP_ENDPOINT` on the provider path; `new_relic` and `new-relic` are known to
`CLOUD_PRESET` only; a config with mode `json-stdout` and a preset validates without
a warning and is installed in the preset's mode;
`validate_telemetry_config` accepts any preset, an unknown one or one without an
endpoint too, in place of an endpoint (`provider.rs:380`); `Sampling::Parent`
becomes `AlwaysOn`; headers written to the environment by a failed attempt are sent
by a later gRPC pipeline that has none, the AWS collector's among them, and HTTP
exporters merge them, even over the headers of their own config; a gRPC pipeline's
logs use the general variable, for the one for logs is not written
(`init.rs:446`, `:889`); `headers` of a config reach no exporter of azure, gcp
or the direct AWS mode; a `RUST_LOG` written for one attempt looks like the user's to
the next.

Spans, context, operations: a guest that raises its level inside a span leaves the
span on the host's stack for good (`astray`); two tasks that enter a span without a
context at the same time may overwrite each other's choice, in turns
(`SettledIsFinal` says when it ends); an invalid `set_trace_id` unpins; the client's
JSON payload is not masked; the attributed metric functions look at neither
`enabled` nor `mode` (`docs/operation-subs.md:89`, `:102`); state events carry raw
identifiers under `hash_ids` (`:77`), and so do `operation_root_span`, which
`docs/correlation-model.md:40` uses although its lines 147-149 promise hashed
identifiers, and the metric functions without a configuration (the tenant only);
`annotate_span` with a context that is not the one stored makes a span export what
the inspection layers do not see in it; an instrument first used before the upgrade
stays with the no-op meter; a span whose end is filtered out stays in the fallback
registry (`RegistryIsOpen` says exactly which).

Every property of a passing run has a mutant, an operator named `Bug...` next to
the definition it replaces.

## Proofs

All theorems hold for any value of the constants within the named assumptions
(`MaxCalls \in Nat`, `Entries \subseteq EntryPoints`, `Modes \subseteq
ExportModes`, finite `Contexts`, `Handed \subseteq Contexts`, `UserVariables
\subseteq Variables`, and so on); extra assumptions are stated below
and in the theorems.

**TelemetryInitProofs**: `TypeCorrect`, `Invariance`, and the safety properties
`RedactorAlwaysFirst`, `GuardAlwaysInstalled`, `FailuresAlwaysRetryable`,
`LayersAlwaysDrawn`, `ShutdownAlwaysStops`, `ClientAlwaysHasGlobals`. None of the
six is inductive: each speaks of the shared state and says nothing of the calls
under way. `IInv` adds, in named parts,

- `Shape`: which kind of call can be at which step, that calls on two threads
  have different numbers, and that a running call has no outcome yet;
- `RedactorInv`: past the redactor step the redactor is set;
- `LayerInv`: a layer on its way into a slot is drawn from the cells as well;
- `GuardInv`: how far an install has come tells what the cells hold;
- `RetryInv`: the call that set the guard can only return Ok;
- `ShutdownInv`: what a shutdown has gone through is stopped;
- `ClientInv`: how far a `client::init` has come tells what the globals hold.

The facts the argument turns on are that a cell once set keeps its value
(`FirstWins`), that a global once set is never unset, and that a call's number is
fresh.

**ExportSinkProofs**: the refinement of `ExportSink`, twice. `SinkRefines` says
that every step is a step of `ExportSink` or a stutter as long as no reload swaps a
layer in that lacks what the one in the slot has (`NoLess`); beyond `IInv` that needs
that a layer without a tracer has no logger and that the call whose subscriber is
global is past `try_init` (`SinkInv`). `SinkImplemented` gets `NoLess` for any
threads and `Modes \subseteq {"json", "otlp"}`, for an OTLP install has filled
both cells before it builds its layer (`FullInv`). `SinkImplementedInSequence` gets
it for every mode and one initialising thread, for the cells are still what they were
when the layer was built (`Fresh`). With azure and otlp on two threads it
fails: the log bridge can be taken away again.

**TelemetryUseProofs**: `UseTypeCorrect`, `AlwaysRecords`, `StreamsAreWhole`,
`PipelinesMask`, for any number of initialising threads. The strengthening says
that a provider read by a client call in progress is not the no-op one, and that
what was measured under a name went to the histogram bound to it.
`UpgradeAlwaysVisible` and `FirstPatternsAlwaysApply` are for one initialising
thread (`Sequential`); both fail for two. `Settled` says that the
handle and the subscriber differ only between the two steps that set them, and
that the cells do not change behind a closed guard; `Frozen` says that a redactor
that is set has an initialising call behind it.

**ContextTasksProofs**: `TypeCorrect`, `ContextSticks`, `ExportMatches`,
`SettledFinal` (an action property) and `SeriesAreBounded`. `ExportMatches` is about
the creator's context and those handed to `annotate_span`; that the export is what is
stored needs that nothing was handed. The strengthening says
that an enter under way has looked up the span's own context if it has one, and that
a creator that is about to annotate still has the context it created the span in;
the series are bounded because the label sets are the image of the topology.

**GuestBridgeProofs**: first the host alone, `TypeCorrect`, `IdsAreUnique`,
`OpenAlwaysEntered`, and `TreeImplemented`, the refinement of `SpanTree`, for callers
that end any id anywhere. An id below the counter is in one place: on its way, in
one stack, or closed. Then the guests: `HostImplemented` (each step of a guest is a
step of the host or invisible to it, so all of the above holds of guests as well),
`BridgeTypeCorrect`, `HostAlwaysFollows`, `GuestsNotDiagnosed` and `NothingIsLeft`.
The strengthening `FollowInv` says what becomes of "the host's stack is the guest's
nesting without the sentinels" while a call is under way: the span that a `span_end`
has taken out of the map is on top, and without it the two agree; what is entered, or
about to be, is in the map, so no pop can miss. "Without the sentinels" is stated
by an increasing embedding of the one sequence into the other (`Unfiltered`), not by
filtering, which is recursive; four lemmas (`FollowSentinel`, `FollowStart`,
`FollowEndFiltered`, `FollowEnd`) say how an embedding changes when either end does.

**GuestSpansProofs**: `TypeCorrect`, `RegistryAlwaysOpen`, `NeverReportsUnknown`.

**OperationSubsProofs**: `TypeCorrect`, `HiddenStays` (payloads and team labels
everywhere, withheld and hashed identifiers in what attributed functions and
requested and completed make, for the others do not look at the configuration), and
`TracesAlwaysWhole`, which assumes that only names are excluded: an operation whose
op_id is excluded emits its request and its completion and not its error, see `OpsExcludedError`.

**ExportResolutionProofs**: `TypeCorrect`, `OwnHeadersAlwaysSent`,
`UnknownPresetIsAlwaysNone`, `ExplicitFieldsAlwaysWin`, `StagesAlwaysAgree`, and
`ValidatedAlwaysMeansWhatItSays`, for any number of attempts, any strings as names,
modes and compressions, and every combination of fields, where `ResolveAll` has a
few hundred. Each names its exceptions: `OwnHeadersAlwaysSent` a log header variable
of the user's own; `ExplicitFieldsAlwaysWin` the values json-stdout and 1.0, which are
the defaults; `StagesAlwaysAgree` the two spellings of newrelic only one table has,
explicit endpoints, headers and ratios, and `OTLP_ENDPOINT` and `OTLP_HEADERS`;
`ValidatedAlwaysMeansWhatItSays` json-stdout next to a preset. The
strengthening `InstallsInput` says that an attempt works on one input and that what it installs is what that input resolves to, which needs that
no step changes the part of the environment the resolution reads.

Hypotheses beyond the named assumptions: `OtlpOnly` of `SinkImplemented`, `Sequential`
of the three theorems about one initialising thread, and of `TracesAlwaysWhole` that
only names are excluded.

Model-checked only: `SpansClose`, which is liveness under fairness and thus out of
the prover's reach, as ENABLED is (its safety half, `NothingLeft`, is proved); and
the runs that expect a violation.

## Not modelled

- `redact_field` and the allowlist: no function of the crate calls it, so
  `allowlist` acts like `strict`.
- The warnings of `validate_telemetry_config` about fields of operation
  subscriptions, patterns, log level and TLS: strings without effect.
- The writers of the fmt layers (among them the file appender of `dev`, whose guard
  is dropped at the end of `init_fmt_layers`), resource attributes, TLS, and
  the runtimes the cloud exporters run on: I/O of the libraries.
- Data races on the environment: undefined behaviour.
- Poisoned mutexes, a host thread that exits with spans on its stack, and a
  callback that sets the context while it reads it.
- `secrets.rs`, `rollout.rs`, `host_bridge.rs`, `testutil.rs`: formatting of
  arguments, without state; `aws_sigv4_client.rs`: I/O.

## What could come next

The upgrade under concurrency (a weaker promise than `UpgradeIsVisible` that holds
for two threads), the exporters' runtimes, and resolution and initialisation in
one model, so that the leftovers of an attempt and the cells it filled are seen
together.

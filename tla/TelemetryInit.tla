---------------------------- MODULE TelemetryInit ----------------------------
(***************************************************************************)
(* The process-wide initialisation of greentic-telemetry: the OnceCells of *)
(* init.rs and client.rs, the OpenTelemetry globals, the one tracing       *)
(* subscriber with its reloadable OTel layer, the redactor, and shutdown.  *)
(*                                                                         *)
(* Threads call the public entry points in any order.  A call is a walk    *)
(* through the steps of pc; every step touches the shared state at most    *)
(* once, so TLC interleaves the calls at the granularity of the OnceCell   *)
(* operations, each of which is atomic in the code.                        *)
(*                                                                         *)
(* A provider, a reload slot and a subscriber are named by the call that   *)
(* built them: call c builds at most one of each.                          *)
(***************************************************************************)
EXTENDS Naturals

CONSTANTS
  Threads,    \* OS threads (or tasks) that call the crate
  MaxCalls,   \* bound on the number of calls in a behaviour
  Entries,    \* the entry points the application uses
  Modes,      \* the export modes of the ExportConfigs it passes
  Patterns    \* whether its provider configs have redaction patterns

EntryPoints == {"init_telemetry", "init_telemetry_from_config",
                "init_from_provider_config", "client_init", "shutdown"}
ExportModes == {"json", "otlp", "azure", "aws", "gcp"}

ASSUME MaxCallsAssumption == MaxCalls \in Nat
ASSUME EntriesAssumption  == Entries \subseteq EntryPoints
ASSUME ModesAssumption    == Modes \subseteq ExportModes
ASSUME PatternsAssumption == Patterns \subseteq BOOLEAN

None    == 0                      \* "no call": an empty OnceCell, no layer
Calls   == 1 .. MaxCalls
Maybe   == 0 .. MaxCalls          \* Calls \cup {None}
Signals == {"tracer", "meter", "logger"}
Globals == {"tracer", "meter"}    \* signals with an OpenTelemetry global

VARIABLES
  \* environment and history
  otlpEndpoint,  \* is OTEL_EXPORTER_OTLP_ENDPOINT set?
  piiPatterns,   \* the call whose patterns PII_MASK_REGEXES holds, or None
  started,       \* number of calls begun
  entryOf,       \* [Calls -> entry point or "none"]
  outcome,       \* [Calls -> "none", "ok" (Ok(())) or "err"]
  \* the threads
  pc,            \* [Threads -> next step of its call]
  job,           \* [Threads -> the call's arguments and locals]
  \* the statics of the crate
  redactor,      \* REDACTOR: [set, patterns]
  inited,        \* INITED
  guard,         \* INIT_GUARD: None, or the call that set it
  cell,          \* TRACER_PROVIDER, METER_PROVIDER, LOGGER_PROVIDER
  handle,        \* OTEL_RELOAD_HANDLE: the slot it points to
  clientState,   \* CLIENT_STATE: "unset", "otel" or "json"
  clientCell,    \* CLIENT_TRACER_PROVIDER, CLIENT_METER_PROVIDER
  \* the statics of opentelemetry and tracing
  global,        \* global tracer and meter provider
  propagator,    \* global text map propagator
  slot,          \* [Calls -> content of the OTel layer that call created]
  subscriber,    \* the call whose subscriber is the global default
  stopped,       \* providers on which shutdown() was called
  deadRuntime    \* calls whose own Tokio runtime was dropped

history == <<otlpEndpoint, piiPatterns, started, entryOf>>
threads == <<pc, job>>
statics == <<redactor, inited, guard, cell, handle, clientState, clientCell>>
outside == <<global, propagator, slot, subscriber, stopped, deadRuntime>>
vars    == <<history, outcome, threads, statics, outside>>

-----------------------------------------------------------------------------
(* The layer in a reload slot: the provider its spans go to and the        *)
(* provider the log bridge feeds.                                          *)
Layer   == [tracer : Maybe, logger : Maybe]
NoLayer == [tracer |-> None, logger |-> None]

Job == [id : Maybe, entry : EntryPoints \cup {"none"},
        mode : ExportModes \cup {"none"},
        own : BOOLEAN,           \* no ambient runtime: the call creates one
        patterns : BOOLEAN,      \* the provider config has redaction patterns
        sig : Signals \cup {"none"},
        layer : Layer]
NoJob == [id |-> None, entry |-> "none", mode |-> "none", own |-> FALSE,
          patterns |-> FALSE, sig |-> "none", layer |-> NoLayer]

Steps == {"idle", "resolve", "redact", "check", "propagate", "build", "store",
          "layer", "reload", "publish", "tryinit", "guard", "inited",
          "client", "shutdown"}

(* The signals a call installs providers for.  init_telemetry and          *)
(* client::init have mode "otlp" when they are given an endpoint and       *)
(* "json" when not.  The mode selects the install function, and each of    *)
(* these sets up its own signals: all three for OTLP (init.rs:335-355,     *)
(* 467-521), tracer and meter for azure (615, 633) and aws (848, 867 or    *)
(* 911, 926), the tracer alone for gcp (1014).                             *)
SignalsOf(j) ==
  IF j.mode = "json" THEN {}
  ELSE IF j.mode = "otlp" /\ j.entry # "client_init" THEN Signals
  ELSE IF j.mode = "gcp" THEN {"tracer"}
  ELSE Globals                       \* azure, aws and client::init

NextSignal(s) == IF s = "tracer" THEN "meter"
                 ELSE IF s = "meter" THEN "logger" ELSE "none"

(* init_telemetry_from_config dispatches to an install_* function, the     *)
(* ones guarded by INIT_GUARD.                                             *)
Exports(j) ==
  /\ j.entry \in {"init_telemetry_from_config", "init_from_provider_config"}
  /\ j.mode # "json"

Goto(t, step) == pc' = [pc EXCEPT ![t] = step]

Return(t, result) ==
  /\ Goto(t, "idle")
  /\ outcome' = [outcome EXCEPT ![job[t].id] = result]

FirstWins(old, new) == IF old = None THEN new ELSE old   \* OnceCell::set
-----------------------------------------------------------------------------
Init ==
  /\ otlpEndpoint \in BOOLEAN
  /\ piiPatterns = None /\ started = 0
  /\ entryOf = [c \in Calls |-> "none"]
  /\ outcome = [c \in Calls |-> "none"]
  /\ pc = [t \in Threads |-> "idle"]
  /\ job = [t \in Threads |-> NoJob]
  /\ redactor = [set |-> FALSE, patterns |-> None]
  /\ inited = FALSE /\ guard = None /\ handle = None
  /\ clientState = "unset"
  /\ cell = [s \in Signals |-> None]
  /\ clientCell = [s \in Globals |-> None]
  /\ global = [s \in Globals |-> None]
  /\ propagator = "noop"
  /\ slot = [c \in Calls |-> NoLayer]
  /\ subscriber = None
  /\ stopped = {} /\ deadRuntime = {}

(* What the subscriber set up by init.rs exports through.                  *)
Sink == IF subscriber = None THEN NoLayer
        ELSE IF entryOf[subscriber] = "client_init" THEN NoLayer
        ELSE slot[subscriber]

NewJob(entry, mode, own, patterns) ==
  [id |-> started + 1, entry |-> entry, mode |-> mode, own |-> own,
   patterns |-> patterns,
   sig   |-> IF entry = "shutdown" THEN "tracer" ELSE "none",
   layer |-> IF entry = "shutdown" THEN Sink ELSE NoLayer]

(* A thread makes a call, whose first step is first.  The layer of a       *)
(* shutdown is a history: what the subscriber exported through then.       *)
Begin(t, entry, mode, own, patterns, first) ==
  /\ pc[t] = "idle" /\ entry \in Entries /\ started < MaxCalls
  /\ started' = started + 1
  /\ entryOf' = [entryOf EXCEPT ![started + 1] = entry]
  /\ job' = [job EXCEPT ![t] = NewJob(entry, mode, own, patterns)]
  /\ Goto(t, first)
  /\ piiPatterns' = IF patterns THEN started + 1 ELSE piiPatterns
  /\ UNCHANGED <<otlpEndpoint, outcome, statics, outside>>

(* own matters only when there is a gRPC exporter to drive.                *)
BeginInitTelemetry(t) == \E own \in {FALSE, otlpEndpoint} :
  Begin(t, "init_telemetry", IF otlpEndpoint THEN "otlp" ELSE "json", own,
        FALSE, "redact")

(* The install_* functions also create a runtime, but leak it on every     *)
(* path, so own only matters to init_telemetry.                            *)
BeginFromConfig(t) == \E mode \in Modes :
  Begin(t, "init_telemetry_from_config", mode, FALSE, FALSE, "redact")

(* Bug: redaction::init_from_env() is forgotten on the provider path.      *)
BugUnredactedConfig(t) == \E mode \in Modes, patterns \in Patterns :
  Begin(t, "init_from_provider_config", mode, FALSE, patterns, "check")

(* init_from_provider_config writes PII_MASK_REGEXES and never unsets it.  *)
BeginFromProvider(t) == \E mode \in Modes, patterns \in Patterns :
  Begin(t, "init_from_provider_config", mode, FALSE, patterns, "resolve")

BeginClientInit(t) == \E mode \in {"json", "otlp"} :
  Begin(t, "client_init", mode, FALSE, FALSE, "check")

BeginShutdown(t) == Begin(t, "shutdown", "none", FALSE, FALSE, "shutdown")
-----------------------------------------------------------------------------
(* resolve_with_preset may reject the config, after the environment was    *)
(* written; to_export_config cannot fail.                                  *)
Resolve(t) ==
  /\ pc[t] = "resolve"
  /\ \/ Goto(t, "redact") /\ UNCHANGED outcome
     \/ Return(t, "err")
  /\ UNCHANGED <<history, job, statics, outside>>

(* Bug: on the provider path the redactor is initialised before            *)
(* PII_MASK_REGEXES is written.                                            *)
BugRedactorBeforeEnv(t) ==
  /\ pc[t] = "redact"
  /\ redactor' = IF redactor.set THEN redactor
                 ELSE [set |-> TRUE,
                       patterns |-> IF job[t].patterns THEN None ELSE piiPatterns]
  /\ Goto(t, "check")
  /\ UNCHANGED <<history, outcome, job, inited, guard, cell, handle,
                 clientState, clientCell, outside>>

(* redaction::init_from_env: the first call freezes the patterns.          *)
InitRedactor(t) ==
  /\ pc[t] = "redact"
  /\ redactor' = IF redactor.set THEN redactor
                 ELSE [set |-> TRUE, patterns |-> piiPatterns]
  /\ Goto(t, "check")
  /\ UNCHANGED <<history, outcome, job, inited, guard, cell, handle,
                 clientState, clientCell, outside>>

AlreadyDone(j) ==
  IF j.entry = "client_init" THEN clientState # "unset"
  ELSE IF Exports(j) THEN guard # None
  ELSE inited

(* The once-guards.  install_* returning early with Ok still reaches       *)
(* INITED.set at the end of init_telemetry_from_config.                    *)
Check(t) ==
  /\ pc[t] = "check"
  /\ LET j == job[t] IN
     \/ /\ AlreadyDone(j) /\ Exports(j)
        /\ Goto(t, "inited")
        /\ UNCHANGED <<outcome, job>>
     \/ /\ AlreadyDone(j) /\ ~Exports(j)
        /\ Return(t, "ok")
        /\ UNCHANGED job
     \/ /\ ~AlreadyDone(j)
        /\ Goto(t, IF Exports(j) /\ j.mode = "otlp" THEN "build"
                   ELSE IF SignalsOf(j) = {}
                        /\ j.entry \notin {"init_telemetry", "client_init"}
                   THEN "layer" ELSE "propagate")
        /\ job' = [job EXCEPT ![t].sig = "tracer"]
        /\ UNCHANGED outcome
  /\ UNCHANGED <<history, statics, outside>>

(* Bug: client::init claims CLIENT_STATE before it installs anything.      *)
BugClientStateEarly(t) ==
  /\ pc[t] = "propagate"
  /\ propagator' = IF job[t].mode = "aws" THEN "xray" ELSE "w3c"
  /\ Goto(t, IF SignalsOf(job[t]) = {} THEN "layer" ELSE "build")
  /\ clientState' = IF job[t].entry # "client_init" \/ clientState # "unset"
                    THEN clientState
                    ELSE IF job[t].mode = "json" THEN "json" ELSE "otel"
  /\ UNCHANGED <<history, outcome, job, redactor, inited, guard, cell, handle,
                 clientCell, global, slot, subscriber, stopped, deadRuntime>>

(* configure_otlp, client::init and the cloud installers set the text map  *)
(* propagator; azure and gcp first need a connection string / project id.  *)
Propagate(t) ==
  /\ pc[t] = "propagate"
  /\ \/ /\ propagator' = IF job[t].mode = "aws" THEN "xray" ELSE "w3c"
        /\ Goto(t, IF SignalsOf(job[t]) = {} THEN "layer" ELSE "build")
        /\ UNCHANGED outcome
     \/ /\ job[t].mode \in {"azure", "gcp"}
        /\ Return(t, "err")
        /\ UNCHANGED propagator
  /\ UNCHANGED <<history, job, statics, global, slot, subscriber, stopped,
                 deadRuntime>>

(* The exporter of the current signal is built; tracer and meter providers *)
(* become global at once.  A logger provider has no global.                *)
Build(t) ==
  /\ pc[t] = "build"
  /\ LET j == job[t] IN
     /\ global' = IF j.sig \in Globals THEN [global EXCEPT ![j.sig] = j.id]
                  ELSE global
     /\ Goto(t, "store")
  /\ UNCHANGED <<history, outcome, job, statics, propagator, slot, subscriber,
                 stopped, deadRuntime>>

(* Bug: a failed builder is only logged and the install goes on.           *)
BugBuildErrorSwallowed(t) ==
  /\ pc[t] = "build"
  /\ Goto(t, "layer")
  /\ UNCHANGED <<history, outcome, job, statics, outside>>

(* Bug: INIT_GUARD is claimed before the builders run, error or not.       *)
BugGuardKeptOnError(t) ==
  /\ pc[t] = "build"
  /\ Return(t, "err")
  /\ guard' = IF Exports(job[t]) THEN FirstWins(guard, job[t].id) ELSE guard
  /\ UNCHANGED <<history, job, redactor, inited, cell, handle, clientState,
                 clientCell, outside>>

(* The builder returned an error and ? left the function.  install_otlp    *)
(* forgets its runtime only on success: on error the runtime is dropped.   *)
BuildFails(t) ==
  /\ pc[t] = "build"
  /\ Return(t, "err")
  /\ deadRuntime' = IF job[t].own THEN deadRuntime \cup {job[t].id}
                    ELSE deadRuntime
  /\ UNCHANGED <<history, job, statics, global, propagator, slot, subscriber,
                 stopped>>

(* Bug: the install runs through all signals, whatever its mode exports.   *)
BugStoreEverySignal(t) ==
  /\ pc[t] = "store"
  /\ LET j == job[t]
         next == NextSignal(j.sig)
     IN
     /\ cell' = [cell EXCEPT ![j.sig] = FirstWins(@, j.id)]
     /\ job' = [job EXCEPT ![t].sig = next]
     /\ Goto(t, IF next # "none" THEN "build" ELSE "layer")
  /\ UNCHANGED <<history, outcome, redactor, inited, guard, handle, clientState,
                 clientCell, outside>>

(* let _ = TRACER_PROVIDER.set(..): the first provider stays, later ones   *)
(* are refused without an error.                                           *)
Store(t) ==
  /\ pc[t] = "store"
  /\ LET j    == job[t]
         next == NextSignal(j.sig)
     IN
     /\ IF j.entry = "client_init"
        THEN /\ clientCell' =
                  [clientCell EXCEPT ![j.sig] = FirstWins(@, j.id)]
             /\ UNCHANGED cell
        ELSE /\ cell' = [cell EXCEPT ![j.sig] = FirstWins(@, j.id)]
             /\ UNCHANGED clientCell
     /\ job' = [job EXCEPT ![t].sig = next]
     /\ Goto(t, IF next \in SignalsOf(j) THEN "build" ELSE "layer")
  /\ UNCHANGED <<history, outcome, redactor, inited, guard, handle, clientState,
                 outside>>

(* Bug: the layer takes its tracer from global::tracer_provider().         *)
BugLayerFromGlobals ==
  IF global["tracer"] = None THEN NoLayer
  ELSE [tracer |-> global["tracer"], logger |-> cell["logger"]]

(* build_otel_layer: made from the cells, not from the call's providers.   *)
OtelLayer ==
  IF cell["tracer"] = None THEN NoLayer
  ELSE [tracer |-> cell["tracer"], logger |-> cell["logger"]]

(* client::init takes its own tracer and a subscriber without reload slot. *)
BuildLayer(t) ==
  /\ pc[t] = "layer"
  /\ LET j == job[t]
         layer == IF j.entry # "client_init" THEN OtelLayer
                  ELSE IF j.mode = "json" THEN NoLayer
                  ELSE [tracer |-> j.id, logger |-> None]
     IN
     /\ job' = [job EXCEPT ![t].layer = layer]
     /\ \/ /\ Exports(j)
           /\ Goto(t, IF layer.tracer = None THEN "guard" ELSE "reload")
           /\ UNCHANGED slot
        \/ /\ j.entry = "client_init"
           /\ slot' = [slot EXCEPT ![j.id] = layer]
           /\ Goto(t, "tryinit")
        \/ /\ ~Exports(j) /\ j.entry # "client_init"
           /\ Goto(t, "publish")
           /\ UNCHANGED slot
  /\ UNCHANGED <<history, outcome, statics, global, propagator, subscriber,
                 stopped, deadRuntime>>

(* A slot lives in the global subscriber or in one not yet installed; the  *)
(* handle is a weak reference to it.                                       *)
SlotAlive(c) ==
  \/ subscriber = c
  \/ \E t \in Threads : pc[t] = "tryinit" /\ job[t].id = c

(* init_otel_subscriber, hot swap: a failed reload is only printed.        *)
Reload(t) ==
  /\ pc[t] = "reload"
  /\ \/ /\ handle # None
        /\ slot' = IF SlotAlive(handle)
                   THEN [slot EXCEPT ![handle] = job[t].layer] ELSE slot
        /\ Goto(t, "guard")
     \/ /\ handle = None
        /\ Goto(t, "publish")
        /\ UNCHANGED slot
  /\ UNCHANGED <<history, outcome, job, statics, global, propagator, subscriber,
                 stopped, deadRuntime>>

(* Bug: the handle is only kept when there is a layer to begin with.       *)
BugPublishOnlyWithLayer(t) ==
  /\ pc[t] = "publish"
  /\ handle' = IF job[t].layer.tracer = None THEN handle
               ELSE FirstWins(handle, job[t].id)
  /\ slot' = [slot EXCEPT ![job[t].id] = job[t].layer]
  /\ Goto(t, "tryinit")
  /\ UNCHANGED <<history, outcome, job, redactor, inited, guard, cell,
                 clientState, clientCell, global, propagator, subscriber,
                 stopped, deadRuntime>>

(* A new subscriber with its own slot; only the first handle is kept.      *)
PublishHandle(t) ==
  /\ pc[t] = "publish"
  /\ handle' = FirstWins(handle, job[t].id)
  /\ slot' = [slot EXCEPT ![job[t].id] = job[t].layer]
  /\ Goto(t, "tryinit")
  /\ UNCHANGED <<history, outcome, job, redactor, inited, guard, cell,
                 clientState, clientCell, global, propagator, subscriber,
                 stopped, deadRuntime>>

(* try_init: tracing accepts one global subscriber; the error is ignored.  *)
TryInit(t) ==
  /\ pc[t] = "tryinit"
  /\ subscriber' = FirstWins(subscriber, job[t].id)
  /\ Goto(t, IF job[t].entry = "client_init" THEN "client"
             ELSE IF Exports(job[t]) THEN "guard" ELSE "inited")
  /\ UNCHANGED <<history, outcome, job, statics, global, propagator, slot,
                 stopped, deadRuntime>>

SetGuard(t) ==
  /\ pc[t] = "guard"
  /\ guard' = FirstWins(guard, job[t].id)
  /\ Goto(t, "inited")
  /\ UNCHANGED <<history, outcome, job, redactor, inited, cell, handle,
                 clientState, clientCell, outside>>

SetInited(t) ==
  /\ pc[t] = "inited"
  /\ inited' = TRUE
  /\ Return(t, "ok")
  /\ UNCHANGED <<history, job, redactor, guard, cell, handle, clientState,
                 clientCell, outside>>

SetClientState(t) ==
  /\ pc[t] = "client"
  /\ clientState' = IF clientState # "unset" THEN clientState
                     ELSE IF job[t].mode = "json" THEN "json" ELSE "otel"
  /\ Return(t, "ok")
  /\ UNCHANGED <<history, job, redactor, inited, guard, cell, handle,
                 clientCell, outside>>

(* Bug: the logs, which came last, are not shut down.                      *)
BugShutdownKeepsLogger(t) ==
  /\ pc[t] = "shutdown"
  /\ LET s == job[t].sig IN
     /\ stopped' = IF cell[s] = None \/ s = "logger" THEN stopped
                   ELSE stopped \cup {<<s, cell[s]>>}
     /\ job' = [job EXCEPT ![t].sig = NextSignal(s)]
     /\ IF s = "logger" THEN Return(t, "ok")
        ELSE UNCHANGED <<pc, outcome>>
  /\ UNCHANGED <<history, statics, global, propagator, slot, subscriber,
                 deadRuntime>>

(* shutdown(): the providers in the cells, one after the other.            *)
ShutdownSignal(t) ==
  /\ pc[t] = "shutdown"
  /\ LET s == job[t].sig IN
     /\ stopped' = IF cell[s] = None THEN stopped
                   ELSE stopped \cup {<<s, cell[s]>>}
     /\ job' = [job EXCEPT ![t].sig = NextSignal(s)]
     /\ IF s = "logger" THEN Return(t, "ok")
        ELSE UNCHANGED <<pc, outcome>>
  /\ UNCHANGED <<history, statics, global, propagator, slot, subscriber,
                 deadRuntime>>
-----------------------------------------------------------------------------
MakeCall(t) ==
  \/ BeginInitTelemetry(t) \/ BeginFromConfig(t) \/ BeginFromProvider(t)
  \/ BeginClientInit(t)    \/ BeginShutdown(t)

Step(t) ==
  \/ MakeCall(t)
  \/ Resolve(t) \/ InitRedactor(t) \/ Check(t) \/ Propagate(t)
  \/ Build(t)   \/ BuildFails(t)   \/ Store(t)
  \/ BuildLayer(t) \/ Reload(t) \/ PublishHandle(t) \/ TryInit(t)
  \/ SetGuard(t) \/ SetInited(t) \/ SetClientState(t)
  \/ ShutdownSignal(t)

Next == \E t \in Threads : Step(t)

Spec == Init /\ [][Next]_vars
-----------------------------------------------------------------------------
(* Every variable has its type, a running call has a name, and it only     *)
(* builds the signals its mode exports.                                    *)
TypeOK ==
  /\ otlpEndpoint \in BOOLEAN /\ piiPatterns \in Maybe /\ started \in Maybe
  /\ entryOf \in [Calls -> EntryPoints \cup {"none"}]
  /\ outcome \in [Calls -> {"none", "ok", "err"}]
  /\ pc \in [Threads -> Steps] /\ job \in [Threads -> Job]
  /\ redactor \in [set : BOOLEAN, patterns : Maybe]
  /\ inited \in BOOLEAN /\ guard \in Maybe /\ handle \in Maybe
  /\ cell \in [Signals -> Maybe]
  /\ clientState \in {"unset", "otel", "json"}
  /\ clientCell \in [Globals -> Maybe]
  /\ global \in [Globals -> Maybe] /\ propagator \in {"noop", "w3c", "xray"}
  /\ slot \in [Calls -> Layer] /\ subscriber \in Maybe
  /\ stopped \subseteq Signals \X Calls /\ deadRuntime \subseteq Calls
  /\ \A t \in Threads :
       /\ pc[t] # "idle" => job[t].id # None
       /\ pc[t] \in {"build", "store"} => job[t].sig \in SignalsOf(job[t])
       /\ pc[t] = "propagate" => job[t].sig = "tracer"
       /\ pc[t] = "shutdown" => job[t].sig # "none"

(* No provider and no subscriber of init.rs exists before the redactor was *)
(* initialised: the wrapped exporters and the redacting fmt layers read it *)
(* lazily and fall back to a default that masks nothing but the sensitive  *)
(* keys.                                                                   *)
RedactorFirst ==
  handle # None \/ (\E s \in Signals : cell[s] # None) => redactor.set

(* INIT_GUARD makes every later export config a no-op that returns Ok, so  *)
(* it may only be set once there is a tracer provider in the cell and a    *)
(* handle through which its layer was, or can be, swapped in.              *)
GuardMeansInstalled ==
  guard # None => cell["tracer"] # None /\ handle # None

(* A call that fails leaves INITED and INIT_GUARD open, so the application *)
(* can correct its configuration and call again: the once-guards are only  *)
(* ever closed by a call that returns Ok.                                  *)
FailuresStayRetryable ==
  /\ inited => \E c \in Calls : outcome[c] = "ok"
  /\ guard # None => outcome[guard] # "err"

(* The layers of init.rs export through the providers in the cells and     *)
(* through no other, the ones shutdown() can reach.                        *)
DrawnFromCells(layer) ==
  /\ layer.tracer \in {None, cell["tracer"]}
  /\ layer.logger \in {None, cell["logger"]}

LayersDrawnFromCells ==
  \A c \in Calls : entryOf[c] # "client_init" => DrawnFromCells(slot[c])

(* When shutdown() returns, the providers the subscriber exported through  *)
(* at the time of the call are stopped, whatever other threads did since.  *)
ShutdownStopsSink ==
  \A t \in Threads :
    pc[t] = "idle" /\ job[t].entry = "shutdown" =>
      \A s \in {"tracer", "logger"} :
        job[t].layer[s] # None => <<s, job[t].layer[s]>> \in stopped

(* CLIENT_STATE in Otel mode promises the client that the OpenTelemetry    *)
(* globals are installed: it never records into the no-op providers.       *)
ClientHasGlobals ==
  clientState = "otel" => \A s \in Globals : global[s] # None

Quiescent == \A t \in Threads : pc[t] = "idle"

(* With calls one after the other and no subscriber of client::init: once  *)
(* an export config was installed the handle reaches the global subscriber *)
(* and its layer carries all that is installed, in whatever order and      *)
(* after whatever failures the stages ran.                                 *)
UpgradeIsVisible ==
  /\ Quiescent /\ guard # None
  /\ \A c \in Calls : entryOf[c] # "client_init"
  => subscriber = handle /\ Sink = OtelLayer

(* ExportSink is implemented by the layer of the subscriber.               *)
ES == INSTANCE ExportSink WITH
        Providers <- Calls, Stoppable <- Signals \X Calls,
        spans <- Sink.tracer, logs <- Sink.logger
SinkSpec == ES!Spec
-----------------------------------------------------------------------------
(* The inductive invariant behind the safety properties, in named parts.   *)

InitCalls == {"init_telemetry", "init_telemetry_from_config",
              "init_from_provider_config"}

(* Which kind of call is at which step.                                    *)
KindOf(t) ==
  /\ pc[t] = "shutdown" => job[t].entry = "shutdown"
  /\ pc[t] = "client" => job[t].entry = "client_init"
  /\ pc[t] \in {"resolve", "redact", "publish", "inited"} =>
       job[t].entry \in InitCalls
  /\ pc[t] \in {"check", "propagate", "build", "store", "layer", "tryinit"} =>
       job[t].entry \in InitCalls \cup {"client_init"}
  /\ pc[t] \in {"reload", "guard"} => Exports(job[t])

(* Calls have names of their own and no outcome before they return.        *)
NameOf(t) ==
  /\ job[t].id <= started
  /\ job[t].id # None => entryOf[job[t].id] = job[t].entry
  /\ pc[t] # "idle" => job[t].id # None /\ outcome[job[t].id] = "none"

Shape ==
  /\ \A t \in Threads : KindOf(t) /\ NameOf(t)
  /\ \A c \in Calls : c > started => outcome[c] = "none" /\ entryOf[c] = "none"
  /\ \A t, u \in Threads : t # u /\ job[t].id = job[u].id => job[t].id = None

(* A call past the redactor step has the redactor set behind it.           *)
RedactorInv ==
  /\ RedactorFirst
  /\ \A t \in Threads :
       job[t].entry \in InitCalls /\ pc[t] \notin {"idle", "resolve", "redact"}
       => redactor.set

(* Layers on their way into a slot are drawn from the cells too.           *)
LayerInv ==
  /\ LayersDrawnFromCells
  /\ \A t \in Threads : job[t].entry # "client_init" =>
                            DrawnFromCells(job[t].layer)

(* How far an install has come tells what is in the cells.                 *)
GuardInv ==
  /\ GuardMeansInstalled
  /\ \A t \in Threads :
       LET j == job[t] IN
       /\ pc[t] \in {"build", "store"} /\ j.entry \in InitCalls /\ j.sig # "tracer"
          => cell["tracer"] # None
       /\ pc[t] \in {"layer", "reload", "publish", "tryinit"} /\ Exports(j)
          => cell["tracer"] # None
       /\ pc[t] = "tryinit" /\ j.entry \in InitCalls => handle # None
       /\ pc[t] = "guard" => cell["tracer"] # None /\ handle # None

(* The call that set INIT_GUARD has nothing left but to return Ok.         *)
RetryInv ==
  /\ FailuresStayRetryable /\ guard <= started
  /\ \A t \in Threads :
       pc[t] # "idle" /\ guard # None /\ job[t].id = guard => pc[t] = "inited"

(* A shutdown has stopped the signals it has gone through.                 *)
ShutdownInv ==
  /\ ShutdownStopsSink
  /\ \A t \in Threads : pc[t] = "shutdown" =>
       /\ job[t].sig # "none"
       /\ job[t].sig # "tracer" /\ job[t].layer.tracer # None
          => <<"tracer", job[t].layer.tracer>> \in stopped

(* A client::init in Otel mode has made its providers global on its way.   *)
ClientInv ==
  /\ ClientHasGlobals
  /\ \A t \in Threads : job[t].entry = "client_init" =>
       /\ job[t].mode \in {"json", "otlp"}
       /\ job[t].mode = "otlp" =>
            /\ pc[t] \in {"layer", "tryinit", "client"} =>
                 \A s \in Globals : global[s] # None
            /\ pc[t] = "store" => global[job[t].sig] # None
            /\ pc[t] \in {"build", "store"} /\ job[t].sig = "meter" =>
                 global["tracer"] # None

IInv == /\ TypeOK /\ Shape /\ RedactorInv /\ LayerInv /\ GuardInv
        /\ RetryInv /\ ShutdownInv /\ ClientInv
-----------------------------------------------------------------------------
(* What the documentation and the comments say and the code does not do.   *)

NoFailures == \A c \in Calls : outcome[c] # "err"

(* docs/otlp-backends.md:120 and init.rs:1035: an export config installed  *)
(* after an earlier init upgrades the pipeline, so once every call         *)
(* returned Ok the spans go to the provider the installing call built.     *)
UpgradeTakesEffect ==
  Quiescent /\ NoFailures /\ guard # None => Sink.tracer = guard

(* init.rs:306: the runtime an OTLP install creates is leaked so that its  *)
(* thread keeps draining the exports: once init_telemetry returned Ok, the *)
(* spans do not go to a provider whose runtime is gone.                    *)
RuntimeOutlivesProvider == inited => Sink.tracer \notin deadRuntime
=============================================================================

--------------------------- MODULE ExportSinkProofs ---------------------------
(***************************************************************************)
(* TelemetryInit implements ExportSink, for every number of calls and all  *)
(* entry points: for any threads, as long as the application configures no *)
(* cloud exporter, which installs no log provider, so that its layer could *)
(* take the log bridge of a concurrent OTLP install away; and for all      *)
(* export modes, as long as one thread makes the calls.                    *)
(***************************************************************************)
EXTENDS TelemetryInitProofs

USE MaxCallsAssumption, EntriesAssumption, ModesAssumption, PatternsAssumption

-----------------------------------------------------------------------------
(* The strengthening, whatever the modes and the threads: a layer without  *)
(* a tracer has no logger either; and the call whose subscriber is global  *)
(* is past try_init, so that only a reload touches its slot.               *)
Bare(layer) == layer.tracer = None => layer.logger = None

PastTryInit(t) ==
  pc[t] # "idle" /\ job[t].id = subscriber => pc[t] \in {"guard", "inited", "client"}

SinkInv ==
  /\ subscriber <= started
  /\ \A c \in Calls : Bare(slot[c])
  /\ \A t \in Threads : Bare(job[t].layer) /\ PastTryInit(t)

(* What then separates a reload from a step of ExportSink: the layer that  *)
(* it swaps in lacks what the one in the slot has.                         *)
NoLess ==
  \A t \in Threads : pc[t] = "reload" =>
    /\ Sink.tracer # None => job[t].layer.tracer # None
    /\ Sink.logger # None => job[t].layer.logger # None

(* Without cloud exporters there is no such reload, for an install of an   *)
(* export config that has run through its signals finds tracer and logger  *)
(* in the cells, and the layer it swaps in has both.                       *)
OtlpOnly == Modes \subseteq {"json", "otlp"}

ExportsOtlp(t) == Exports(job[t]) => job[t].mode = "otlp"

LayerFull(t) ==
  /\ pc[t] = "layer" /\ Exports(job[t]) =>
       cell["tracer"] # None /\ cell["logger"] # None
  /\ pc[t] = "reload" =>
       job[t].layer.tracer # None /\ job[t].layer.logger # None
  /\ pc[t] \in {"build", "store"} /\ job[t].entry \in InitCalls
     /\ job[t].sig # "tracer" => cell["tracer"] # None

FullInv == \A t \in Threads : ExportsOtlp(t) /\ LayerFull(t)

(* Nor is there one in a single thread: the cells are as they were when    *)
(* the layer was built.                                                    *)
Fresh(t) == pc[t] = "reload" => job[t].layer = OtelLayer

LEMMA SinkInit == Init => SinkInv
BY DEF Init, SinkInv, Bare, PastTryInit, NoJob, NoLayer, None

LEMMA FullInit == Init => FullInv /\ \A t \in Threads : Fresh(t)
BY DEF Init, FullInv, ExportsOtlp, LayerFull, Fresh, Exports, NoJob

LEMMA BareSink ==
  ASSUME TypeOK, SinkInv
  PROVE  Bare(Sink) /\ Bare(NoLayer) /\ Bare(OtelLayer)
BY DEF TypeOK, SinkInv, Bare, Sink, NoLayer, OtelLayer, Maybe, Calls, None

(* A step leaves alone what it does not write.                             *)
LEMMA OthersStay ==
  ASSUME TypeOK, NEW t \in Threads, Step(t), NEW u \in Threads, u # t
  PROVE  pc'[u] = pc[u] /\ job'[u] = job[u]
BY StepCases, BeginEffect DEF Moves

LEMMA SubscriberStep ==
  ASSUME TypeOK, NEW t \in Threads, Step(t)
  PROVE  subscriber' = subscriber \/ TryInit(t)
<1>1. CASE MakeCall(t)
  BY <1>1, BeginEffect DEF outside
<1>. QED
  BY <1>1 DEF Step, Resolve, InitRedactor, Check, Propagate, Build, BuildFails,
     Store, BuildLayer, Reload, PublishHandle, SetGuard, SetInited,
     SetClientState, ShutdownSignal, outside

LEMMA StartedStep ==
  ASSUME TypeOK, NEW t \in Threads, Step(t)
  PROVE  started' \in Nat /\ started <= started'
<1>1. CASE MakeCall(t)
  BY <1>1, BeginEffect DEF TypeOK, Maybe, Calls
<1>2. CASE Moves(t)
  BY <1>2 DEF Moves, history, TypeOK, Maybe
<1>. QED BY <1>1, <1>2, StepCases

LEMMA SlotStep ==
  ASSUME TypeOK, NEW t \in Threads, Step(t)
  PROVE  slot' = slot \/ BuildLayer(t) \/ Reload(t) \/ PublishHandle(t)
<1>1. CASE MakeCall(t)
  BY <1>1, BeginEffect DEF outside
<1>. QED
  BY <1>1 DEF Step, Resolve, InitRedactor, Check, Propagate, Build, BuildFails,
     Store, TryInit, SetGuard, SetInited, SetClientState, ShutdownSignal, outside
-----------------------------------------------------------------------------
LEMMA OtlpStep ==
  ASSUME TypeOK, OtlpOnly, NEW t \in Threads, ExportsOtlp(t), Step(t)
  PROVE  ExportsOtlp(t)'
<1>1. CASE MakeCall(t)
  <2>1. job'[t].entry \in {"init_telemetry_from_config", "init_from_provider_config"}
        => job'[t].mode \in Modes
    BY <1>1 DEF MakeCall, BeginInitTelemetry, BeginFromConfig, BeginFromProvider,
       BeginClientInit, BeginShutdown, Begin, NewJob, TypeOK
  <2>. QED BY <2>1 DEF ExportsOtlp, Exports, OtlpOnly
<1>2. CASE Moves(t)
  BY <1>2 DEF Moves, ExportsOtlp, Exports
<1>. QED BY <1>1, <1>2, StepCases

LEMMA FullStep ==
  ASSUME TypeOK, NEW t \in Threads, KindOf(t), ExportsOtlp(t), LayerFull(t), Step(t)
  PROVE  LayerFull(t)'
<1>0. job[t] \in Job /\ \A s \in Signals : cell[s] # None => cell'[s] # None
  BY CellsFinal DEF TypeOK
<1>1. CASE MakeCall(t)
  BY <1>1, BeginEffect DEF LayerFull
<1>2. CASE Resolve(t) \/ InitRedactor(t) \/ SetInited(t) \/ SetClientState(t)
           \/ BuildFails(t) \/ PublishHandle(t) \/ TryInit(t) \/ SetGuard(t)
           \/ Reload(t) \/ ShutdownSignal(t)
  <2>1. pc'[t] \notin {"layer", "reload", "build", "store"}
    BY <1>2 DEF Resolve, InitRedactor, SetInited, SetClientState, BuildFails,
       PublishHandle, TryInit, SetGuard, Reload, ShutdownSignal, Goto, Return, TypeOK
  <2>. QED BY <2>1 DEF LayerFull
<1>3. CASE Check(t)
  <2>1. job'[t].entry = job[t].entry /\ job'[t].mode = job[t].mode
        /\ (pc'[t] = "build" => job'[t].sig = "tracer")
        /\ pc'[t] \in {"idle", "inited", "build", "layer", "propagate"}
    BY <1>0, <1>3 DEF Check, Goto, Return, TypeOK, Job
  <2>2. Exports(job[t]) => SignalsOf(job[t]) # {}
    BY DEF Exports, SignalsOf, Signals, Globals
  <2>3. pc'[t] = "layer" => ~Exports(job[t])
    BY <1>3, <2>2 DEF Check, Goto, Return, TypeOK
  <2>. QED BY <2>1, <2>3 DEF LayerFull, Exports
<1>4. CASE Propagate(t)
  <2>1. Exports(job[t]) => SignalsOf(job[t]) # {}
    BY DEF Exports, SignalsOf, Signals, Globals
  <2>2. job[t].sig = "tracer" /\ UNCHANGED job
    BY <1>4 DEF Propagate, TypeOK
  <2>3. pc'[t] \in {"idle", "build", "layer"} /\ (pc'[t] = "layer" => ~Exports(job[t]))
    BY <1>4, <2>1 DEF Propagate, Goto, Return, TypeOK
  <2>. QED BY <2>2, <2>3 DEF LayerFull
<1>5. CASE Build(t)
  BY <1>5 DEF Build, LayerFull, Goto, TypeOK, statics
<1>6. CASE Store(t)
  <2>1. job'[t].entry = job[t].entry /\ job'[t].mode = job[t].mode
        /\ pc'[t] \in {"build", "layer"}
    BY <1>0, <1>6 DEF Store, Goto, TypeOK, Job
  <2>2. job[t].id # None /\ job[t].sig \in SignalsOf(job[t]) /\ job[t].sig \in Signals
    BY <1>0, <1>6 DEF Store, TypeOK, SignalsOf, Signals, Globals
  <2>3. job[t].entry \in InitCalls => cell'[job[t].sig] # None
    BY <1>6, <2>2 DEF Store, FirstWins, TypeOK, InitCalls
  <2>4. job[t].entry \in InitCalls => cell'["tracer"] # None
    <3>1. CASE job[t].sig = "tracer"
      BY <2>3, <3>1
    <3>2. CASE job[t].sig # "tracer"
      BY <1>0, <1>6, <3>2 DEF Store, LayerFull, Signals
    <3>. QED BY <3>1, <3>2
  <2>5. pc'[t] = "layer" /\ Exports(job[t]) => job[t].sig = "logger"
    <3>1. Exports(job[t]) => SignalsOf(job[t]) = Signals
      BY DEF ExportsOtlp, Exports, SignalsOf
    <3>2. pc'[t] = "layer" => NextSignal(job[t].sig) \notin SignalsOf(job[t])
      BY <1>6 DEF Store, Goto, TypeOK
    <3>. QED BY <2>2, <3>1, <3>2 DEF NextSignal, Signals
  <2>6. Exports(job[t]) => job[t].entry \in InitCalls
    BY DEF Exports, InitCalls
  <2>. QED BY <2>1, <2>3, <2>4, <2>5, <2>6 DEF LayerFull, Exports
<1>7. CASE BuildLayer(t)
  <2>1. pc'[t] \in {"guard", "reload", "tryinit", "publish"}
        /\ (pc'[t] = "reload" => Exports(job[t]))
    BY <1>7 DEF BuildLayer, Goto, TypeOK
  <2>2. ASSUME pc'[t] = "reload"
        PROVE  job'[t].layer.tracer # None /\ job'[t].layer.logger # None
    <3>1. cell["tracer"] # None /\ cell["logger"] # None
      BY <1>7, <2>1, <2>2 DEF BuildLayer, LayerFull
    <3>2. job'[t].layer = OtelLayer
      BY <1>0, <1>7, <2>1, <2>2 DEF BuildLayer, Exports, TypeOK, Job
    <3>. QED BY <3>1, <3>2 DEF OtelLayer
  <2>. QED BY <2>1, <2>2 DEF LayerFull
<1>. QED
  BY <1>1, <1>2, <1>3, <1>4, <1>5, <1>6, <1>7 DEF Step

LEMMA BareStep ==
  ASSUME TypeOK, SinkInv, NEW t \in Threads, Step(t)
  PROVE  Bare(job[t].layer)' /\ \A c \in Calls : Bare(slot[c])'
<1>0. /\ job[t] \in Job /\ Bare(Sink) /\ Bare(NoLayer) /\ Bare(OtelLayer)
      /\ Bare(job[t].layer) /\ \A c \in Calls : Bare(slot[c])
  BY BareSink DEF TypeOK, SinkInv
<1>1. Bare(job[t].layer)'
  <2>1. CASE MakeCall(t)
    BY <1>0, <2>1, BeginEffect DEF Bare
  <2>2. CASE BuildLayer(t)
    <3>1. job'[t].layer \in {OtelLayer, NoLayer, [tracer |-> job[t].id, logger |-> None]}
      BY <1>0, <2>2 DEF BuildLayer, TypeOK, Job
    <3>. QED BY <1>0, <3>1 DEF Bare
  <2>3. CASE ~MakeCall(t) /\ ~BuildLayer(t)
    <3>1. job'[t].layer = job[t].layer
      BY <1>0, <2>3 DEF Step, Resolve, InitRedactor, Check, Propagate,
         Build, BuildFails, Store, Reload, PublishHandle, TryInit, SetGuard,
         SetInited, SetClientState, ShutdownSignal, TypeOK, Job
    <3>. QED BY <1>0, <3>1 DEF Bare
  <2>. QED BY <2>1, <2>2, <2>3
<1>2. ASSUME NEW c \in Calls PROVE Bare(slot[c])'
  <2>1. CASE slot' = slot
    BY <1>0, <2>1 DEF Bare
  <2>2. CASE BuildLayer(t)
    <3>1. slot'[c] \in {slot[c], OtelLayer, NoLayer, [tracer |-> job[t].id, logger |-> None]}
      BY <1>0, <2>2 DEF BuildLayer, TypeOK
    <3>. QED BY <1>0, <3>1 DEF Bare
  <2>3. CASE Reload(t) \/ PublishHandle(t)
    <3>1. slot'[c] \in {slot[c], job[t].layer}
      BY <2>3 DEF Reload, PublishHandle, TypeOK
    <3>. QED BY <1>0, <3>1 DEF Bare
  <2>. QED BY <2>1, <2>2, <2>3, SlotStep
<1>. QED BY <1>1, <1>2

LEMMA PastStep ==
  ASSUME TypeOK, Shape, SinkInv, NEW t \in Threads, Step(t)
  PROVE  subscriber' <= started' /\ \A u \in Threads : PastTryInit(u)'
<1>0. /\ subscriber \in Nat /\ started \in Nat /\ subscriber <= started
      /\ \A u \in Threads : PastTryInit(u)
      /\ \A u \in Threads : job[u].id \in Nat /\ job[u].id <= started
  BY DEF TypeOK, SinkInv, Maybe, Shape, NameOf, Job
<1>1. CASE TryInit(t)
  <2>1. /\ subscriber' \in {subscriber, job[t].id} /\ started' = started
        /\ pc'[t] \in {"client", "guard", "inited"} /\ job' = job
    BY <1>1 DEF TryInit, FirstWins, Goto, TypeOK, history
  <2>2. ASSUME NEW u \in Threads, u # t PROVE PastTryInit(u)'
    <3>1. job[u].id # job[t].id \/ job[u].id = None
      BY <2>2, OthersStay DEF Shape
    <3>2. job[t].id # None
      BY <1>1 DEF TryInit, TypeOK
    <3>3. pc'[u] # "idle" => job[u].id # None
      BY <2>2, OthersStay DEF TypeOK
    <3>4. pc'[u] = pc[u]
      BY <2>2, OthersStay
    <3>. QED BY <1>0, <2>1, <3>1, <3>3, <3>4 DEF PastTryInit
  <2>. QED BY <1>0, <2>1, <2>2 DEF PastTryInit
<1>2. CASE MakeCall(t)
  <2>1. subscriber' = subscriber /\ started' = started + 1 /\ job'[t].id = started + 1
    BY <1>2, BeginEffect DEF outside
  <2>2. \A u \in Threads : u # t => PastTryInit(u)'
    BY <1>0, <2>1, OthersStay DEF PastTryInit
  <2>. QED BY <1>0, <2>1, <2>2 DEF PastTryInit
<1>3. CASE ~TryInit(t) /\ ~MakeCall(t)
  <2>1. subscriber' = subscriber /\ Moves(t) /\ started <= started' /\ started' \in Nat
    BY <1>3, SubscriberStep, StepCases, StartedStep
  <2>2. \A u \in Threads : u # t => PastTryInit(u)'
    BY <1>0, <2>1, OthersStay DEF PastTryInit
  <2>3. pc[t] \in {"guard", "inited", "client"} =>
          pc'[t] \in {"idle", "guard", "inited", "client"}
    BY <1>3 DEF Step, Resolve, InitRedactor, Check, Propagate,
         Build, BuildFails, Store, BuildLayer, Reload, PublishHandle, SetGuard,
         SetInited, SetClientState, ShutdownSignal, Goto, Return, TypeOK
  <2>4. PastTryInit(t)'
    BY <1>0, <2>1, <2>3 DEF PastTryInit, Moves
  <2>. QED BY <1>0, <2>1, <2>2, <2>4
<1>. QED BY <1>1, <1>2, <1>3

LEMMA SinkNext ==
  ASSUME TypeOK, Shape, SinkInv, NEW t \in Threads, Step(t)
  PROVE  SinkInv'
<1>1. ASSUME NEW u \in Threads, u # t PROVE Bare(job[u].layer)'
  BY <1>1, OthersStay DEF SinkInv, Bare
<1>. QED BY <1>1, BareStep, PastStep DEF SinkInv

LEMMA FullNext ==
  ASSUME TypeOK, Shape, OtlpOnly, FullInv, NEW t \in Threads, Step(t)
  PROVE  FullInv'
<1>1. \A u \in Threads : KindOf(u) /\ ExportsOtlp(u) /\ LayerFull(u)
  BY DEF FullInv, Shape
<1>2. ExportsOtlp(t)' /\ LayerFull(t)'
  BY <1>1, OtlpStep, FullStep
<1>3. ASSUME NEW u \in Threads, u # t PROVE ExportsOtlp(u)' /\ LayerFull(u)'
  <2>1. pc'[u] = pc[u] /\ job'[u] = job[u]
    BY <1>3, OthersStay
  <2>2. \A s \in Signals : cell[s] # None => cell'[s] # None
    BY CellsFinal
  <2>. QED BY <1>1, <2>1, <2>2 DEF ExportsOtlp, LayerFull, Signals
<1>. QED BY <1>2, <1>3 DEF FullInv

LEMMA FreshStep ==
  ASSUME TypeOK, NEW t \in Threads, KindOf(t), Step(t)
  PROVE  Fresh(t)'
<1>1. CASE BuildLayer(t)
  <2>1. pc'[t] = "reload" => job'[t].layer = OtelLayer
    BY <1>1 DEF BuildLayer, Goto, Exports, TypeOK, Job
  <2>2. OtelLayer' = OtelLayer
    BY <1>1 DEF BuildLayer, statics, OtelLayer
  <2>. QED BY <2>1, <2>2 DEF Fresh
<1>2. CASE MakeCall(t)
  BY <1>2, BeginEffect DEF Fresh
<1>3. CASE ~BuildLayer(t) /\ ~MakeCall(t)
  <2>1. pc'[t] # "reload"
    BY <1>3 DEF Step, Resolve, InitRedactor, Check, Propagate, Build, BuildFails,
       Store, Reload, PublishHandle, TryInit, SetGuard, SetInited, SetClientState,
       ShutdownSignal, Goto, Return, TypeOK
  <2>. QED BY <2>1 DEF Fresh
<1>. QED BY <1>1, <1>2, <1>3
-----------------------------------------------------------------------------
(* The sink only changes when a reload reaches the slot of the global      *)
(* subscriber, or when a subscriber becomes global.                        *)
LEMMA SinkStep ==
  ASSUME IInv, SinkInv, NEW t \in Threads, Step(t)
  PROVE  \/ Sink' = Sink
         \/ /\ Reload(t) /\ Sink' = job[t].layer
         \/ /\ TryInit(t) /\ Sink = NoLayer /\ Sink' \in {slot[c] : c \in Calls}
            /\ job[t].entry # "client_init" /\ Sink' = slot[job[t].id]
<1>0. TypeOK /\ Shape /\ subscriber \in Maybe /\ subscriber <= started
      /\ \A u \in Threads : PastTryInit(u)
  BY DEF IInv, TypeOK, SinkInv
<1>1. CASE TryInit(t)
  <2>1. /\ subscriber' = FirstWins(subscriber, job[t].id)
        /\ entryOf' = entryOf /\ slot' = slot
    BY <1>1 DEF TryInit, history
  <2>2. job[t].id \in Calls /\ entryOf[job[t].id] = job[t].entry
    BY <1>0, <1>1 DEF TryInit, TypeOK, Job, Maybe, Calls, None, Shape, NameOf
  <2>3. CASE subscriber # None
    BY <2>1, <2>3 DEF FirstWins, Sink
  <2>4. CASE subscriber = None /\ job[t].entry = "client_init"
    BY <2>1, <2>2, <2>4 DEF FirstWins, Sink, Calls, None
  <2>5. CASE subscriber = None /\ job[t].entry # "client_init"
    BY <1>1, <2>1, <2>2, <2>5 DEF FirstWins, Sink, Calls, None
  <2>. QED BY <2>3, <2>4, <2>5
<1>2. CASE MakeCall(t)
  <2>1. /\ subscriber' = subscriber /\ slot' = slot
        /\ entryOf' = [entryOf EXCEPT ![started + 1] = job'[t].entry]
    BY <1>0, <1>2, BeginEffect DEF outside
  <2>2. subscriber # None => entryOf'[subscriber] = entryOf[subscriber]
    BY <1>0, <2>1 DEF TypeOK, Maybe, Calls, None
  <2>. QED BY <2>1, <2>2 DEF Sink
<1>3. CASE ~TryInit(t) /\ ~MakeCall(t)
  <2>1. subscriber' = subscriber /\ entryOf' = entryOf
    BY <1>0, <1>3, SubscriberStep, StepCases DEF Moves, history
  <2>2. CASE slot' = slot
    BY <2>1, <2>2 DEF Sink
  <2>3. CASE BuildLayer(t) \/ PublishHandle(t)
    <3>1. job[t].id # subscriber
      BY <1>0, <2>3 DEF BuildLayer, PublishHandle, PastTryInit
    <3>2. subscriber # None => slot'[subscriber] = slot[subscriber]
      BY <1>0, <2>3, <3>1 DEF BuildLayer, PublishHandle, TypeOK, Maybe, Calls, None
    <3>. QED BY <2>1, <3>2 DEF Sink
  <2>4. CASE Reload(t)
    <3>1. slot' \in {slot, [slot EXCEPT ![handle] = job[t].layer]}
      BY <2>4 DEF Reload
    <3>2. subscriber # None => slot'[subscriber] \in {slot[subscriber], job[t].layer}
      BY <1>0, <3>1 DEF TypeOK, Maybe, Calls, None
    <3>. QED BY <2>1, <2>4, <3>2 DEF Sink
  <2>. QED BY <1>0, <2>2, <2>3, <2>4, SlotStep
<1>. QED BY <1>1, <1>2, <1>3

(* Every step of the initialisation is a step of ExportSink or a stutter,  *)
(* unless it swaps a layer in that lacks something.                        *)
LEMMA SinkRefines ==
  ASSUME IInv, SinkInv, NoLess, [Next]_vars
  PROVE  [ES!Next]_ES!vars
<1>. SUFFICES
       \/ ES!Attach \/ ES!Bridge \/ ES!Stop
       \/ (Sink' = Sink /\ stopped' = stopped)
  BY DEF ES!Next, ES!vars
<1>1. CASE UNCHANGED vars
  BY <1>1 DEF vars, history, outside, Sink
<1>2. ASSUME NEW t \in Threads, Step(t)
      PROVE  \/ ES!Attach \/ ES!Bridge \/ ES!Stop
             \/ (Sink' = Sink /\ stopped' = stopped)
  <2>1. TypeOK /\ Shape /\ LayerInv /\ Sink \in Layer /\ DrawnFromCells(Sink)
        /\ Bare(Sink) /\ \A c \in Calls : slot[c] \in Layer /\ Bare(slot[c])
    BY SinkType, SinkDrawn, BareSink DEF IInv, LayerInv, TypeOK, SinkInv
  <2>2. CASE ShutdownSignal(t)
    <3>1. Sink' = Sink
      BY <1>2, <2>2, SinkStep DEF ShutdownSignal, Reload, TryInit
    <3>2. stopped' = stopped \/ \E p \in Signals \X Calls : stopped' = stopped \cup {p}
      <4>1. job[t].sig \in Signals
        BY <2>1, <2>2 DEF ShutdownSignal, TypeOK, Job
      <4>2. cell[job[t].sig] # None => cell[job[t].sig] \in Calls
        BY <2>1, <4>1 DEF TypeOK, Maybe, Calls, None
      <4>. QED BY <2>2, <4>1, <4>2 DEF ShutdownSignal
    <3>. QED BY <3>1, <3>2 DEF ES!Stop
  <2>3. CASE ~ShutdownSignal(t)
    <3>1. stopped' = stopped
      <4>1. CASE MakeCall(t)
        BY <2>1, <4>1, BeginEffect DEF outside
      <4>. QED
        BY <1>2, <2>3, <4>1 DEF Step, Resolve, InitRedactor, Check, Propagate,
           Build, BuildFails, Store, BuildLayer, Reload, PublishHandle, TryInit,
           SetGuard, SetInited, SetClientState, outside
    <3>2. ASSUME Reload(t), Sink' = job[t].layer
          PROVE  ES!Attach \/ ES!Bridge \/ Sink' = Sink
      <4>1. /\ Sink' \in Layer /\ DrawnFromCells(Sink') /\ Bare(Sink')
            /\ Sink.tracer # None => Sink'.tracer # None
            /\ Sink.logger # None => Sink'.logger # None
        <5>1. job[t].entry # "client_init" /\ job[t].layer \in Layer
          BY <2>1, <3>2 DEF Reload, Shape, KindOf, Exports, TypeOK, Job
        <5>2. DrawnFromCells(job[t].layer) /\ Bare(job[t].layer)
          BY <2>1, <5>1 DEF LayerInv, SinkInv
        <5>. QED BY <3>2, <5>1, <5>2 DEF NoLess, Reload
      <4>2. /\ Sink.tracer # None => Sink'.tracer = Sink.tracer
            /\ Sink.logger # None => Sink'.logger = Sink.logger
        BY <2>1, <4>1 DEF DrawnFromCells
      <4>3. Sink'.tracer \in Calls \cup {None} /\ Sink'.logger \in Calls \cup {None}
        BY <4>1 DEF Layer, Maybe, Calls, None
      <4>4. CASE Sink.tracer = None
        <5>1. CASE Sink'.tracer = None
          BY <2>1, <4>1, <4>4, <5>1 DEF Bare, Layer
        <5>2. CASE Sink'.tracer # None
          BY <2>1, <3>1, <4>3, <4>4, <5>2 DEF Bare, ES!Attach, ES!None, None
        <5>. QED BY <5>1, <5>2
      <4>5. CASE Sink.tracer # None /\ Sink.logger = None
        <5>1. CASE Sink'.logger = None
          BY <2>1, <4>1, <4>2, <4>5, <5>1 DEF Layer
        <5>2. CASE Sink'.logger # None
          BY <3>1, <4>2, <4>3, <4>5, <5>2 DEF ES!Bridge, ES!None, None
        <5>. QED BY <5>1, <5>2
      <4>6. CASE Sink.tracer # None /\ Sink.logger # None
        BY <2>1, <4>1, <4>2, <4>6 DEF Layer
      <4>. QED BY <4>4, <4>5, <4>6
    <3>3. ASSUME TryInit(t), Sink = NoLayer, Sink' \in {slot[c] : c \in Calls}
          PROVE  ES!Attach \/ Sink' = Sink
      <4>1. Sink' \in Layer /\ (Sink'.tracer = None => Sink'.logger = None)
        BY <2>1, <3>3 DEF Bare
      <4>2. CASE Sink'.tracer = None
        BY <3>3, <4>1, <4>2 DEF Layer, NoLayer
      <4>3. CASE Sink'.tracer # None
        <5>1. Sink'.tracer \in Calls /\ Sink'.logger \in Calls \cup {None}
          BY <4>1, <4>3 DEF Layer, Maybe, Calls, None
        <5>. QED BY <3>1, <3>3, <5>1 DEF ES!Attach, ES!None, None, NoLayer
      <4>. QED BY <4>2, <4>3
    <3>. QED BY <1>2, <3>1, <3>2, <3>3, SinkStep
  <2>. QED BY <2>2, <2>3
<1>. QED BY <1>1, <1>2 DEF Next

LEMMA SinkStarts == Init => ES!Init
BY DEF Init, ES!Init, Sink, NoLayer, None, ES!None

LEMMA SinkInvariance == Spec => [](IInv /\ SinkInv)
<1>1. Init => IInv /\ SinkInv
  BY InvInit, SinkInit
<1>2. IInv /\ SinkInv /\ [Next]_vars => (IInv /\ SinkInv)'
  <2>. SUFFICES ASSUME IInv, SinkInv, [Next]_vars PROVE IInv' /\ SinkInv'
    OBVIOUS
  <2>1. IInv'
    BY InvNext
  <2>2. CASE UNCHANGED vars
    <3>1. UNCHANGED <<subscriber, started, slot, job, pc>>
      BY <2>2 DEF vars, history, threads, statics, outside
    <3>. QED BY <2>1, <3>1 DEF SinkInv, Bare, PastTryInit
  <2>3. ASSUME NEW t \in Threads, Step(t) PROVE SinkInv'
    BY <2>3, SinkNext DEF IInv
  <2>. QED BY <2>1, <2>2, <2>3 DEF Next
<1>. QED BY <1>1, <1>2, PTL DEF Spec

(* The spans are attached once and stay where they are, the log bridge is  *)
(* added at most once, and what was shut down stays so: ExportSink, for    *)
(* any threads, as long as no cloud exporter is configured.                *)
THEOREM SinkImplemented ==
  ASSUME OtlpOnly
  PROVE  Spec => SinkSpec
<1>1. Init => FullInv
  BY FullInit
<1>2. IInv /\ FullInv /\ [Next]_vars => FullInv'
  <2>. SUFFICES ASSUME IInv, FullInv, [Next]_vars PROVE FullInv'
    OBVIOUS
  <2>1. CASE UNCHANGED vars
    BY <2>1 DEF vars, history, threads, statics, FullInv, ExportsOtlp, LayerFull
  <2>2. ASSUME NEW t \in Threads, Step(t) PROVE FullInv'
    BY <2>2, FullNext DEF IInv
  <2>. QED BY <2>1, <2>2 DEF Next
<1>3. IInv /\ FullInv => NoLess
  <2>. SUFFICES ASSUME FullInv, NEW t \in Threads, pc[t] = "reload"
       PROVE  job[t].layer.tracer # None /\ job[t].layer.logger # None
    BY DEF NoLess
  <2>. QED BY DEF FullInv, LayerFull
<1>4. IInv /\ SinkInv /\ FullInv /\ [Next]_vars => [ES!Next]_ES!vars
  BY <1>3, SinkRefines
<1>. QED BY <1>1, <1>2, <1>4, SinkStarts, SinkInvariance, PTL
         DEF Spec, SinkSpec, ES!Spec

(* The same for every export mode, as long as one thread initialises: the  *)
(* stages of docs/otlp-backends.md, their failures and retries.            *)
THEOREM SinkImplementedInSequence ==
  ASSUME Sequential
  PROVE  Spec => SinkSpec
<1>1. Init => \A t \in Threads : Fresh(t)
  BY FullInit
<1>2. IInv /\ (\A t \in Threads : Fresh(t)) /\ [Next]_vars
      => (\A t \in Threads : Fresh(t))'
  <2>. SUFFICES ASSUME IInv, [Next]_vars, NEW t \in Threads, Fresh(t)
       PROVE  Fresh(t)'
    OBVIOUS
  <2>1. CASE UNCHANGED vars
    BY <2>1 DEF vars, threads, statics, Fresh, OtelLayer
  <2>2. CASE Step(t)
    BY <2>2, FreshStep DEF IInv, Shape
  <2>. QED BY <2>1, <2>2 DEF Next, Sequential
<1>3. IInv /\ SinkInv /\ (\A t \in Threads : Fresh(t)) => NoLess
  <2>. SUFFICES ASSUME IInv, SinkInv, NEW t \in Threads, Fresh(t), pc[t] = "reload"
       PROVE  /\ Sink.tracer # None => job[t].layer.tracer # None
              /\ Sink.logger # None => job[t].layer.logger # None
    BY DEF NoLess
  <2>1. DrawnFromCells(Sink) /\ Bare(Sink)
    BY SinkDrawn, BareSink DEF IInv, LayerInv
  <2>. QED BY <2>1 DEF DrawnFromCells, Bare, Fresh, OtelLayer
<1>4. IInv /\ SinkInv /\ (\A t \in Threads : Fresh(t)) /\ [Next]_vars
      => [ES!Next]_ES!vars
  BY <1>3, SinkRefines
<1>. QED BY <1>1, <1>2, <1>4, SinkStarts, SinkInvariance, PTL
         DEF Spec, SinkSpec, ES!Spec
=============================================================================

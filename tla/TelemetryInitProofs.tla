------------------------- MODULE TelemetryInitProofs -------------------------
(***************************************************************************)
(* Theorems about TelemetryInit, for every set of threads, every bound on  *)
(* the calls, every set of entry points and export modes.                  *)
(***************************************************************************)
EXTENDS TelemetryInit, TLAPS

USE MaxCallsAssumption, EntriesAssumption, ModesAssumption, PatternsAssumption

(* One thread initialises, one call after the other: the hypothesis of     *)
(* some theorems of the modules that extend this one.                      *)
Sequential == \E t \in Threads : Threads = {t}

-----------------------------------------------------------------------------
LEMMA TypeInit == Init => TypeOK
<1>. SUFFICES ASSUME Init PROVE TypeOK
  OBVIOUS
<1>1. None \in Maybe /\ NoLayer \in Layer
  BY DEF None, Maybe, NoLayer, Layer
<1>2. NoJob \in Job
  BY <1>1 DEF NoJob, Job
<1>3. job \in [Threads -> Job] /\ pc \in [Threads -> Steps]
  BY <1>2 DEF Init, Steps
<1>4. redactor \in [set : BOOLEAN, patterns : Maybe]
  BY <1>1 DEF Init
<1>5. slot \in [Calls -> Layer] /\ cell \in [Signals -> Maybe]
      /\ clientCell \in [Globals -> Maybe] /\ global \in [Globals -> Maybe]
  BY <1>1 DEF Init
<1>6. \A t \in Threads : pc[t] = "idle"
  BY DEF Init
<1>. QED BY <1>1, <1>3, <1>4, <1>5, <1>6 DEF Init, TypeOK, None

LEMMA SinkType == TypeOK => Sink \in Layer
BY DEF TypeOK, Sink, Layer, NoLayer, None, Maybe, Calls

(* A call begins with a job of the right type, whatever the entry point.   *)
LEMMA BeginType ==
  ASSUME TypeOK, NEW t \in Threads, NEW entry \in EntryPoints,
         NEW mode \in ExportModes \cup {"none"}, NEW own \in BOOLEAN,
         NEW patterns \in BOOLEAN, NEW first \in Steps \ {"build", "store", "propagate"},
         first = "shutdown" => entry = "shutdown",
         Begin(t, entry, mode, own, patterns, first)
  PROVE  TypeOK'
<1>1. started + 1 \in Calls /\ started' = started + 1 /\ started' \in Maybe
  BY DEF Begin, TypeOK, Maybe, Calls
<1>2. NewJob(entry, mode, own, patterns) \in Job
  BY <1>1, SinkType DEF NewJob, Job, Maybe, Calls, Signals, NoLayer, Layer, None
<1>3. entryOf' \in [Calls -> EntryPoints \cup {"none"}]
  BY <1>1 DEF Begin, TypeOK
<1>4. pc' \in [Threads -> Steps] /\ job' \in [Threads -> Job]
  BY <1>2 DEF Begin, Goto, TypeOK
<1>5. ASSUME NEW u \in Threads
      PROVE  /\ pc'[u] # "idle" => job'[u].id # None
             /\ pc'[u] \in {"build", "store"} => job'[u].sig \in SignalsOf(job'[u])
             /\ pc'[u] = "propagate" => job'[u].sig = "tracer"
             /\ pc'[u] = "shutdown" => job'[u].sig # "none"
  <2>1. CASE u = t
    <3>1. job'[u] = NewJob(entry, mode, own, patterns) /\ pc'[u] = first
      BY <2>1 DEF Begin, Goto, TypeOK
    <3>. QED BY <3>1, <1>1 DEF NewJob, None, Calls
  <2>2. CASE u # t
    <3>1. job'[u] = job[u] /\ pc'[u] = pc[u]
      BY <2>2 DEF Begin, Goto, TypeOK
    <3>. QED BY <3>1 DEF TypeOK
  <2>. QED BY <2>1, <2>2
<1>6. piiPatterns' \in Maybe
  BY <1>1 DEF Begin, TypeOK, Maybe, Calls
<1>. QED
  BY <1>1, <1>3, <1>4, <1>5, <1>6 DEF TypeOK, Begin, statics, outside

LEMMA TypeNext == TypeOK /\ [Next]_vars => TypeOK'
<1>. SUFFICES ASSUME TypeOK, [Next]_vars PROVE TypeOK'
  OBVIOUS
<1>1. CASE UNCHANGED vars
  BY <1>1 DEF TypeOK, vars, history, threads, statics, outside
<1>2. ASSUME NEW t \in Threads, Step(t) PROVE TypeOK'
  <2>0. job[t] \in Job /\ pc[t] \in Steps
    BY DEF TypeOK
  <2>1. CASE BeginInitTelemetry(t)
    <3>1. PICK own \in {FALSE, otlpEndpoint} :
            Begin(t, "init_telemetry", IF otlpEndpoint THEN "otlp" ELSE "json",
                  own, FALSE, "redact")
      BY <2>1 DEF BeginInitTelemetry
    <3>2. own \in BOOLEAN
      BY DEF TypeOK
    <3>. QED BY <3>1, <3>2, BeginType DEF Steps, EntryPoints, ExportModes
  <2>2. CASE BeginFromConfig(t)
    BY <2>2, BeginType DEF BeginFromConfig, Steps, EntryPoints
  <2>3. CASE BeginFromProvider(t)
    BY <2>3, BeginType DEF BeginFromProvider, Steps, EntryPoints
  <2>4. CASE BeginClientInit(t)
    BY <2>4, BeginType DEF BeginClientInit, Steps, EntryPoints, ExportModes
  <2>5. CASE BeginShutdown(t)
    BY <2>5, BeginType DEF BeginShutdown, Steps, EntryPoints
  <2>6. CASE Resolve(t)
    BY <2>0, <2>6 DEF Resolve, Goto, Return, TypeOK, Steps, history, statics, outside
  <2>7. CASE InitRedactor(t)
    BY <2>0, <2>7 DEF InitRedactor, Goto, TypeOK, Steps, history, outside
  <2>8. CASE Check(t)
    <3>1. [job[t] EXCEPT !.sig = "tracer"] \in Job
      BY <2>0 DEF Job, Signals
    <3>2. job' \in [Threads -> Job]
      BY <2>8, <3>1 DEF Check, TypeOK
    <3>3. pc' \in [Threads -> Steps] /\ outcome' \in [Calls -> {"none", "ok", "err"}]
      BY <2>8 DEF Check, Goto, Return, TypeOK, Steps
    <3>4. "tracer" \in SignalsOf(job[t]) \/ SignalsOf(job[t]) = {}
      BY DEF SignalsOf, Signals, Globals
    <3>5. job'[t].sig \in {job[t].sig, "tracer"} /\ job'[t].mode = job[t].mode
          /\ job'[t].entry = job[t].entry /\ job'[t].id = job[t].id
      BY <2>0, <2>8 DEF Check, Job, TypeOK
    <3>6. /\ pc'[t] = "build" => job'[t].sig \in SignalsOf(job'[t])
          /\ pc'[t] = "propagate" => job'[t].sig = "tracer"
      BY <2>0, <2>8, <3>4, <3>5
         DEF Check, Goto, Return, TypeOK, Exports, SignalsOf, Signals, Globals, Job
    <3>. QED
      BY <2>0, <2>8, <3>2, <3>3, <3>5, <3>6
         DEF Check, Goto, Return, TypeOK, history, statics, outside
  <2>9. CASE Propagate(t)
    <3>1. pc' \in [Threads -> Steps] /\ outcome' \in [Calls -> {"none", "ok", "err"}]
      BY <2>9 DEF Propagate, Goto, Return, TypeOK, Steps
    <3>2. propagator' \in {"noop", "w3c", "xray"}
      BY <2>9 DEF Propagate, TypeOK
    <3>3. SignalsOf(job[t]) # {} => job[t].sig \in SignalsOf(job[t])
      BY <2>9 DEF Propagate, TypeOK, SignalsOf, Signals, Globals
    <3>4. /\ pc'[t] \in {"layer", "build", "idle"}
          /\ pc'[t] = "build" => job[t].sig \in SignalsOf(job[t])
      BY <2>9, <3>3 DEF Propagate, Goto, Return, TypeOK
    <3>5. \A u \in Threads : u # t => pc'[u] = pc[u]
      BY <2>9 DEF Propagate, Goto, Return, TypeOK
    <3>6. job[t].id # None /\ UNCHANGED job
      BY <2>9 DEF Propagate, TypeOK
    <3>. QED
      BY <2>9, <3>1, <3>2, <3>4, <3>5, <3>6
         DEF Propagate, TypeOK, history, statics
  <2>10. CASE Build(t)
    BY <2>0, <2>10 DEF Build, Goto, TypeOK, Steps, Job, history, statics
  <2>11. CASE BuildFails(t)
    <3>1. job[t].id \in Maybe
      BY <2>0 DEF Job
    <3>2. job[t].id # None
      BY <2>11 DEF BuildFails, TypeOK
    <3>3. job[t].id \in Calls
      BY <3>1, <3>2 DEF Maybe, Calls, None
    <3>. QED
      BY <3>3, <2>11 DEF BuildFails, Goto, Return, TypeOK, Steps, history, statics
  <2>12. CASE Store(t)
    <3>1. job[t].id \in Maybe /\ job[t].sig \in SignalsOf(job[t])
      BY <2>0, <2>12 DEF Store, TypeOK, Job
    <3>2. NextSignal(job[t].sig) \in Signals \cup {"none"}
      BY DEF NextSignal, Signals
    <3>3. [job[t] EXCEPT !.sig = NextSignal(job[t].sig)] \in Job
      BY <2>0, <3>2 DEF Job
    <3>4. job' \in [Threads -> Job]
      BY <2>12, <3>3 DEF Store, TypeOK
    <3>5. pc' \in [Threads -> Steps]
      BY <2>12 DEF Store, Goto, TypeOK, Steps
    <3>6. cell' \in [Signals -> Maybe] /\ clientCell' \in [Globals -> Maybe]
      BY <2>12, <3>1 DEF Store, FirstWins, TypeOK
    <3>7. job'[t].id = job[t].id
          /\ (pc'[t] \in {"build", "store"} => job'[t].sig \in SignalsOf(job'[t]))
          /\ pc'[t] \in {"build", "layer"} /\ job[t].id # None
      BY <2>0, <2>12 DEF Store, Goto, TypeOK, SignalsOf, Job
    <3>8. \A u \in Threads : u # t => job'[u] = job[u] /\ pc'[u] = pc[u]
      BY <2>12 DEF Store, Goto, TypeOK
    <3>. QED
      BY <2>12, <3>4, <3>5, <3>6, <3>7, <3>8 DEF Store, TypeOK, history, outside
  <2>13. CASE BuildLayer(t)
    <3>1. PICK layer \in Layer : job' = [job EXCEPT ![t].layer = layer]
                                /\ slot' \in {slot, [slot EXCEPT ![job[t].id] = layer]}
      <4>1. /\ None \in Maybe /\ job[t].id \in Maybe
            /\ cell["tracer"] \in Maybe /\ cell["logger"] \in Maybe
        BY <2>0 DEF None, Maybe, Job, TypeOK, Signals
      <4>2. NoLayer \in Layer /\ OtelLayer \in Layer
            /\ [tracer |-> job[t].id, logger |-> None] \in Layer
        BY <4>1 DEF NoLayer, OtelLayer, Layer
      <4>. DEFINE l == IF job[t].entry # "client_init" THEN OtelLayer
                       ELSE IF job[t].mode = "json" THEN NoLayer
                       ELSE [tracer |-> job[t].id, logger |-> None]
      <4>3. l \in Layer
        BY <4>2
      <4>4. job' = [job EXCEPT ![t].layer = l]
            /\ slot' \in {slot, [slot EXCEPT ![job[t].id] = l]}
        BY <2>13 DEF BuildLayer
      <4>. QED BY <4>3, <4>4
    <3>2. [job[t] EXCEPT !.layer = layer] \in Job
      BY <2>0 DEF Job
    <3>3. job' \in [Threads -> Job] /\ slot' \in [Calls -> Layer]
      BY <3>1, <3>2 DEF TypeOK
    <3>4. pc' \in [Threads -> Steps]
      BY <2>13 DEF BuildLayer, Goto, TypeOK, Steps
    <3>5. job'[t].id = job[t].id
          /\ pc'[t] \in {"guard", "reload", "publish", "tryinit"}
          /\ job[t].id # None
      BY <2>0, <2>13 DEF BuildLayer, Goto, TypeOK, Job
    <3>6. \A u \in Threads : u # t => job'[u] = job[u] /\ pc'[u] = pc[u]
      BY <2>13 DEF BuildLayer, Goto, TypeOK
    <3>. QED
      BY <2>13, <3>3, <3>4, <3>5, <3>6 DEF BuildLayer, TypeOK, history, statics
  <2>14. CASE Reload(t)
    BY <2>0, <2>14 DEF Reload, Goto, TypeOK, Steps, Job, history, statics
  <2>15. CASE PublishHandle(t)
    BY <2>0, <2>15 DEF PublishHandle, Goto, FirstWins, TypeOK, Steps, Job, history
  <2>16. CASE TryInit(t)
    BY <2>0, <2>16 DEF TryInit, Goto, FirstWins, TypeOK, Steps, Job, history, statics
  <2>17. CASE SetGuard(t)
    BY <2>0, <2>17 DEF SetGuard, Goto, FirstWins, TypeOK, Steps, Job, history, outside
  <2>18. CASE SetInited(t)
    BY <2>0, <2>18 DEF SetInited, Goto, Return, TypeOK, Steps, history, outside
  <2>19. CASE SetClientState(t)
    BY <2>0, <2>19 DEF SetClientState, Goto, Return, TypeOK, Steps, history, outside
  <2>20. CASE ShutdownSignal(t)
    <3>1. job[t].sig \in Signals
      BY <2>0, <2>20 DEF ShutdownSignal, TypeOK, Job
    <3>2. NextSignal(job[t].sig) \in Signals \cup {"none"}
      BY DEF NextSignal, Signals
    <3>3. [job[t] EXCEPT !.sig = NextSignal(job[t].sig)] \in Job
      BY <2>0, <3>2 DEF Job
    <3>4. job' \in [Threads -> Job]
      BY <2>20, <3>3 DEF ShutdownSignal, TypeOK
    <3>5. pc' \in [Threads -> Steps] /\ outcome' \in [Calls -> {"none", "ok", "err"}]
      BY <2>20 DEF ShutdownSignal, Goto, Return, TypeOK, Steps
    <3>6. stopped' \subseteq Signals \X Calls
      BY <2>20, <3>1 DEF ShutdownSignal, TypeOK, Maybe, Calls, None
    <3>7. /\ job'[t].id = job[t].id /\ pc'[t] \in {"idle", "shutdown"}
          /\ pc'[t] = "shutdown" => job'[t].sig # "none"
      BY <2>0, <2>20, <3>1
         DEF ShutdownSignal, Goto, Return, TypeOK, Job, NextSignal, Signals
    <3>8. \A u \in Threads : u # t => job'[u] = job[u] /\ pc'[u] = pc[u]
      BY <2>20 DEF ShutdownSignal, Goto, Return, TypeOK
    <3>9. job[t].id # None
      BY <2>20 DEF ShutdownSignal, TypeOK
    <3>. QED
      BY <2>20, <3>4, <3>5, <3>6, <3>7, <3>8, <3>9
         DEF ShutdownSignal, TypeOK, history, statics
  <2>. QED
    BY <1>2, <2>1, <2>2, <2>3, <2>4, <2>5, <2>6, <2>7, <2>8, <2>9, <2>10, <2>11,
       <2>12, <2>13, <2>14, <2>15, <2>16, <2>17, <2>18, <2>19, <2>20 DEF Step, MakeCall
<1>. QED BY <1>1, <1>2 DEF Next

(* Every variable keeps its type in every behaviour.                       *)
THEOREM TypeCorrect == Spec => []TypeOK
BY TypeInit, TypeNext, PTL DEF Spec
-----------------------------------------------------------------------------
(* What every step has in common.  A call begins ...                       *)
LEMMA CallBegins ==
  ASSUME TypeOK, NEW t \in Threads, MakeCall(t)
  PROVE  \E entry \in EntryPoints, mode \in ExportModes \cup {"none"},
            own \in BOOLEAN, patterns \in BOOLEAN,
            first \in {"resolve", "redact", "check", "shutdown"} :
           /\ Begin(t, entry, mode, own, patterns, first)
           /\ first \in {"resolve", "redact"} => entry \in InitCalls
           /\ first = "check" => entry = "client_init"
           /\ first = "shutdown" <=> entry = "shutdown"
<1>1. CASE BeginInitTelemetry(t)
  <2>1. PICK own \in {FALSE, otlpEndpoint} :
          Begin(t, "init_telemetry", IF otlpEndpoint THEN "otlp" ELSE "json",
                own, FALSE, "redact")
    BY <1>1 DEF BeginInitTelemetry
  <2>2. own \in BOOLEAN
    BY DEF TypeOK
  <2>. QED BY <2>1, <2>2 DEF EntryPoints, ExportModes, InitCalls
<1>2. CASE BeginFromConfig(t)
  BY <1>2 DEF BeginFromConfig, EntryPoints, InitCalls
<1>3. CASE BeginFromProvider(t)
  BY <1>3 DEF BeginFromProvider, EntryPoints, InitCalls
<1>4. CASE BeginClientInit(t)
  BY <1>4 DEF BeginClientInit, EntryPoints, ExportModes, InitCalls
<1>5. CASE BeginShutdown(t)
  BY <1>5 DEF BeginShutdown, EntryPoints
<1>. QED BY <1>1, <1>2, <1>3, <1>4, <1>5 DEF MakeCall

LEMMA BeginEffect ==
  ASSUME TypeOK, NEW t \in Threads, MakeCall(t)
  PROVE  /\ pc[t] = "idle" /\ pc'[t] \in {"resolve", "redact", "check", "shutdown"}
         /\ started + 1 \in Calls /\ started' = started + 1
         /\ entryOf' = [entryOf EXCEPT ![started + 1] = job'[t].entry]
         /\ job'[t].id = started + 1
         /\ pc'[t] \in {"resolve", "redact"} => job'[t].entry \in InitCalls
         /\ pc'[t] = "check" => job'[t].entry = "client_init"
         /\ pc'[t] = "shutdown" <=> job'[t].entry = "shutdown"
         /\ pc'[t] = "shutdown" => job'[t].sig = "tracer" /\ job'[t].layer = Sink
         /\ pc'[t] # "shutdown" => job'[t].layer = NoLayer
         /\ \A u \in Threads : u # t => pc'[u] = pc[u] /\ job'[u] = job[u]
         /\ UNCHANGED <<otlpEndpoint, outcome, statics, outside>>
<1>1. PICK entry \in EntryPoints, mode \in ExportModes \cup {"none"},
           own \in BOOLEAN, patterns \in BOOLEAN,
           first \in {"resolve", "redact", "check", "shutdown"} :
         /\ Begin(t, entry, mode, own, patterns, first)
         /\ first \in {"resolve", "redact"} => entry \in InitCalls
         /\ first = "check" => entry = "client_init"
         /\ first = "shutdown" <=> entry = "shutdown"
  BY CallBegins
<1>2. job'[t] = NewJob(entry, mode, own, patterns) /\ pc'[t] = first
  BY <1>1 DEF Begin, Goto, TypeOK
<1>3. started + 1 \in Calls
  BY <1>1 DEF Begin, TypeOK, Maybe, Calls
<1>4. \A u \in Threads : u # t => pc'[u] = pc[u] /\ job'[u] = job[u]
  BY <1>1 DEF Begin, Goto, TypeOK
<1>5. /\ job'[t].id = started + 1 /\ job'[t].entry = entry
      /\ entry = "shutdown" => job'[t].sig = "tracer" /\ job'[t].layer = Sink
      /\ entry # "shutdown" => job'[t].layer = NoLayer
  BY <1>2 DEF NewJob
<1>6. /\ pc[t] = "idle" /\ started' = started + 1
      /\ entryOf' = [entryOf EXCEPT ![started + 1] = entry]
      /\ UNCHANGED <<otlpEndpoint, outcome, statics, outside>>
  BY <1>1 DEF Begin
<1>. QED BY <1>1, <1>2, <1>3, <1>4, <1>5, <1>6

(* ... and every other step moves one call on, or returns from it.         *)
Moves(t) ==
  /\ pc[t] # "idle" /\ UNCHANGED <<history>>
  /\ \A u \in Threads : u # t => pc'[u] = pc[u] /\ job'[u] = job[u]
  /\ job'[t].id = job[t].id /\ job'[t].entry = job[t].entry
  /\ job'[t].mode = job[t].mode
  /\ \/ pc'[t] # "idle" /\ outcome' = outcome
     \/ /\ pc'[t] = "idle"
        /\ \E r \in {"ok", "err"} : outcome' = [outcome EXCEPT ![job[t].id] = r]

LEMMA StepCases ==
  ASSUME TypeOK, NEW t \in Threads, Step(t)
  PROVE  MakeCall(t) \/ Moves(t)
<1>0. job[t] \in Job
  BY DEF TypeOK
<1>1. CASE Resolve(t)
  BY <1>1 DEF Resolve, Moves, Goto, Return, TypeOK, history
<1>2. CASE InitRedactor(t)
  BY <1>2 DEF InitRedactor, Moves, Goto, TypeOK, history
<1>3. CASE Check(t)
  BY <1>0, <1>3 DEF Check, Moves, Goto, Return, TypeOK, Job, history
<1>4. CASE Propagate(t)
  BY <1>4 DEF Propagate, Moves, Goto, Return, TypeOK, history
<1>5. CASE Build(t)
  BY <1>5 DEF Build, Moves, Goto, TypeOK, history
<1>6. CASE BuildFails(t)
  BY <1>6 DEF BuildFails, Moves, Goto, Return, TypeOK, history
<1>7. CASE Store(t)
  BY <1>0, <1>7 DEF Store, Moves, Goto, TypeOK, Job, history
<1>8. CASE BuildLayer(t)
  BY <1>0, <1>8 DEF BuildLayer, Moves, Goto, TypeOK, Job, history
<1>9. CASE Reload(t)
  BY <1>9 DEF Reload, Moves, Goto, TypeOK, history
<1>10. CASE PublishHandle(t)
  BY <1>10 DEF PublishHandle, Moves, Goto, TypeOK, history
<1>11. CASE TryInit(t)
  BY <1>11 DEF TryInit, Moves, Goto, TypeOK, history
<1>12. CASE SetGuard(t)
  BY <1>12 DEF SetGuard, Moves, Goto, TypeOK, history
<1>13. CASE SetInited(t)
  BY <1>13 DEF SetInited, Moves, Goto, Return, TypeOK, history
<1>14. CASE SetClientState(t)
  BY <1>14 DEF SetClientState, Moves, Goto, Return, TypeOK, history
<1>15. CASE ShutdownSignal(t)
  BY <1>0, <1>15 DEF ShutdownSignal, Moves, Goto, Return, TypeOK, Job, history
<1>. QED
  BY <1>1, <1>2, <1>3, <1>4, <1>5, <1>6, <1>7, <1>8, <1>9, <1>10, <1>11, <1>12,
     <1>13, <1>14, <1>15 DEF Step
-----------------------------------------------------------------------------
(* Shape: the kinds and the names of the calls.                            *)
LEMMA KindStep ==
  ASSUME TypeOK, NEW t \in Threads, KindOf(t), Step(t)
  PROVE  KindOf(t)'
<1>0. job[t] \in Job
  BY DEF TypeOK
<1>1. CASE MakeCall(t)
  BY <1>1, BeginEffect DEF KindOf
<1>2. CASE Resolve(t)
  BY <1>2 DEF Resolve, KindOf, Goto, Return, TypeOK
<1>3. CASE InitRedactor(t)
  BY <1>3 DEF InitRedactor, KindOf, Goto, TypeOK
<1>4. CASE Check(t)
  BY <1>0, <1>4 DEF Check, KindOf, Goto, Return, TypeOK, Job, Exports, InitCalls
<1>5. CASE Propagate(t)
  BY <1>5 DEF Propagate, KindOf, Goto, Return, TypeOK
<1>6. CASE Build(t)
  BY <1>6 DEF Build, KindOf, Goto, TypeOK
<1>7. CASE BuildFails(t)
  BY <1>7 DEF BuildFails, KindOf, Goto, Return, TypeOK
<1>8. CASE Store(t)
  BY <1>0, <1>8 DEF Store, KindOf, Goto, TypeOK, Job
<1>9. CASE BuildLayer(t)
  BY <1>0, <1>9 DEF BuildLayer, KindOf, Goto, TypeOK, Job, Exports, InitCalls
<1>10. CASE Reload(t)
  BY <1>10 DEF Reload, KindOf, Goto, TypeOK, Exports, InitCalls
<1>11. CASE PublishHandle(t)
  BY <1>11 DEF PublishHandle, KindOf, Goto, TypeOK
<1>12. CASE TryInit(t)
  BY <1>12 DEF TryInit, KindOf, Goto, TypeOK
<1>13. CASE SetGuard(t)
  BY <1>13 DEF SetGuard, KindOf, Goto, TypeOK, Exports, InitCalls
<1>14. CASE SetInited(t)
  BY <1>14 DEF SetInited, KindOf, Goto, Return, TypeOK
<1>15. CASE SetClientState(t)
  BY <1>15 DEF SetClientState, KindOf, Goto, Return, TypeOK
<1>16. CASE ShutdownSignal(t)
  BY <1>0, <1>16 DEF ShutdownSignal, KindOf, Goto, Return, TypeOK, Job
<1>. QED
  BY <1>1, <1>2, <1>3, <1>4, <1>5, <1>6, <1>7, <1>8, <1>9, <1>10, <1>11, <1>12,
     <1>13, <1>14, <1>15, <1>16 DEF Step

LEMMA ShapeNext ==
  ASSUME TypeOK, Shape, NEW t \in Threads, Step(t)
  PROVE  Shape'
<1>1. \A u \in Threads : job[u] \in Job /\ job[u].id \in Maybe
  BY DEF TypeOK, Job
<1>2. CASE MakeCall(t)
  <2>1. \A u \in Threads : u # t => pc'[u] = pc[u] /\ job'[u] = job[u]
    BY <1>2, BeginEffect
  <2>2. job'[t].id = started + 1 /\ started' = started + 1 /\ started \in Nat
        /\ started + 1 \in Calls /\ outcome' = outcome
        /\ entryOf' = [entryOf EXCEPT ![started + 1] = job'[t].entry]
    BY <1>2, BeginEffect DEF TypeOK, Maybe
  <2>3. KindOf(t)'
    BY KindStep DEF Shape
  <2>4. ASSUME NEW u \in Threads, u # t PROVE KindOf(u)'
    BY <2>1, <2>4 DEF Shape, KindOf
  <2>5. NameOf(t)'
    BY <2>2 DEF NameOf, TypeOK, Shape, None, Calls
  <2>6. ASSUME NEW u \in Threads, u # t PROVE NameOf(u)'
    <3>1. job[u].id # started + 1 /\ job[u].id <= started + 1
      BY <1>1, <2>2 DEF Shape, NameOf, Maybe
    <3>. QED BY <2>1, <2>2, <2>6, <3>1 DEF Shape, NameOf, TypeOK
  <2>7. ASSUME NEW c \in Calls, c > started'
        PROVE  outcome'[c] = "none" /\ entryOf'[c] = "none"
    <3>1. c > started /\ c # started + 1
      BY <2>2, <2>7 DEF Calls
    <3>. QED BY <2>2, <3>1 DEF Shape, TypeOK
  <2>8. ASSUME NEW u \in Threads, NEW v \in Threads, u # v,
               job'[u].id = job'[v].id
        PROVE  job'[u].id = None
    <3>1. \A w \in Threads : w # t => job'[w].id # started + 1
      BY <1>1, <2>1, <2>2 DEF Shape, NameOf, Maybe
    <3>. QED BY <2>1, <2>2, <2>8, <3>1 DEF Shape
  <2>. QED BY <2>3, <2>4, <2>5, <2>6, <2>7, <2>8 DEF Shape
<1>3. CASE Moves(t)
  <2>1. \A u \in Threads : job'[u].id = job[u].id /\ job'[u].entry = job[u].entry
    BY <1>3 DEF Moves
  <2>2. started' = started /\ entryOf' = entryOf
    BY <1>3 DEF Moves, history
  <2>3. KindOf(t)'
    BY KindStep DEF Shape
  <2>4. ASSUME NEW u \in Threads, u # t PROVE KindOf(u)'
    BY <1>3, <2>4 DEF Shape, KindOf, Moves
  <2>5. job[t].id # None /\ job[t].id <= started
    BY <1>3 DEF Moves, Shape, NameOf
  <2>6. NameOf(t)'
    BY <1>3, <2>1, <2>2 DEF Shape, NameOf, Moves
  <2>7. ASSUME NEW u \in Threads, u # t PROVE NameOf(u)'
    <3>1. pc'[u] = pc[u] /\ job'[u] = job[u] /\ job[u].id # job[t].id
      BY <1>3, <2>5, <2>7 DEF Shape, Moves
    <3>2. job[u].id \in Calls => outcome'[job[u].id] = outcome[job[u].id]
      BY <1>3, <3>1 DEF Moves, TypeOK
    <3>. QED BY <1>1, <2>2, <3>1, <3>2 DEF Shape, NameOf, Maybe, Calls, None
  <2>8. ASSUME NEW c \in Calls, c > started'
        PROVE  outcome'[c] = "none" /\ entryOf'[c] = "none"
    <3>1. c > started /\ outcome[c] = "none" /\ entryOf'[c] = "none"
      BY <2>2, <2>8 DEF Shape
    <3>2. job[t].id # c
      BY <1>1, <2>5, <3>1 DEF TypeOK, Maybe, Calls
    <3>. QED BY <1>3, <3>1, <3>2 DEF Moves, TypeOK
  <2>. QED BY <2>1, <2>3, <2>4, <2>6, <2>7, <2>8 DEF Shape
<1>. QED BY <1>2, <1>3, StepCases

LEMMA RedactorNext ==
  ASSUME TypeOK, Shape, RedactorInv, NEW t \in Threads, Step(t)
  PROVE  RedactorInv'
<1>1. redactor.set => redactor'.set
  <2>1. CASE InitRedactor(t)
    BY <2>1 DEF InitRedactor
  <2>2. CASE MakeCall(t)
    BY <2>2, BeginEffect DEF statics
  <2>. QED
    BY <2>1, <2>2 DEF Step, Resolve, Check, Propagate, Build, BuildFails, Store,
       BuildLayer, Reload, PublishHandle, TryInit, SetGuard, SetInited,
       SetClientState, ShutdownSignal, statics
<1>2. ASSUME handle' # handle \/ cell' # cell PROVE redactor.set
  <2>1. PublishHandle(t) \/ Store(t)
    <3>1. ~MakeCall(t)
      BY <1>2, BeginEffect DEF statics
    <3>. QED
      BY <1>2, <3>1 DEF Step, Resolve, InitRedactor, Check, Propagate, Build,
         BuildFails, BuildLayer, Reload, TryInit, SetGuard, SetInited,
         SetClientState, ShutdownSignal, statics
  <2>2. CASE PublishHandle(t)
    BY <2>2 DEF PublishHandle, RedactorInv, Shape, KindOf
  <2>3. CASE Store(t)
    BY <1>2, <2>3 DEF Store, RedactorInv, Shape, KindOf
  <2>. QED BY <2>1, <2>2, <2>3
<1>3. RedactorFirst'
  BY <1>1, <1>2 DEF RedactorInv, RedactorFirst
<1>4. ASSUME NEW u \in Threads, job'[u].entry \in InitCalls,
             pc'[u] \notin {"idle", "resolve", "redact"}
      PROVE  redactor'.set
  <2>1. CASE u # t
    BY <1>1, <1>4, <2>1, StepCases, BeginEffect DEF Moves, RedactorInv
  <2>2. CASE u = t /\ MakeCall(t)
    BY <1>4, <2>2, BeginEffect DEF InitCalls
  <2>3. CASE u = t /\ InitRedactor(t)
    BY <2>3 DEF InitRedactor
  <2>4. CASE u = t /\ Resolve(t)
    BY <1>4, <2>4 DEF Resolve, Goto, Return, TypeOK
  <2>5. CASE u = t /\ ~MakeCall(t) /\ ~InitRedactor(t) /\ ~Resolve(t)
    <3>1. pc[t] \notin {"idle", "resolve", "redact"}
      BY <2>5 DEF Step, Check, Propagate, Build, BuildFails, Store, BuildLayer,
         Reload, PublishHandle, TryInit, SetGuard, SetInited, SetClientState,
         ShutdownSignal
    <3>2. job'[t].entry = job[t].entry
      BY <2>5, StepCases DEF Moves
    <3>. QED BY <1>1, <1>4, <2>5, <3>1, <3>2 DEF RedactorInv
  <2>. QED BY <2>1, <2>2, <2>3, <2>4, <2>5
<1>. QED BY <1>3, <1>4 DEF RedactorInv

(* The cells of init.rs are written once.                                  *)
LEMMA CellsFinal ==
  ASSUME TypeOK, NEW t \in Threads, Step(t)
  PROVE  /\ \A s \in Signals : cell[s] # None => cell'[s] = cell[s]
         /\ handle # None => handle' = handle
         /\ guard # None => guard' = guard
<1>1. CASE MakeCall(t)
  BY <1>1, BeginEffect DEF statics
<1>2. CASE Store(t)
  BY <1>2 DEF Store, FirstWins, TypeOK
<1>3. CASE PublishHandle(t)
  BY <1>3 DEF PublishHandle, FirstWins
<1>4. CASE SetGuard(t)
  BY <1>4 DEF SetGuard, FirstWins
<1>. QED
  BY <1>1, <1>2, <1>3, <1>4 DEF Step, Resolve, InitRedactor, Check, Propagate,
     Build, BuildFails, BuildLayer, Reload, TryInit, SetInited, SetClientState,
     ShutdownSignal, statics

(* A layer drawn from the cells stays so.                                  *)
LEMMA DrawnStays ==
  ASSUME TypeOK, NEW t \in Threads, Step(t),
         NEW layer \in Layer, DrawnFromCells(layer)
  PROVE  /\ layer.tracer \in {None, cell'["tracer"]}
         /\ layer.logger \in {None, cell'["logger"]}
BY CellsFinal DEF DrawnFromCells, Signals

LEMMA SinkDrawn == TypeOK /\ LayersDrawnFromCells => DrawnFromCells(Sink)
<1>1. DrawnFromCells(NoLayer)
  BY DEF DrawnFromCells, NoLayer
<1>. QED
  BY <1>1 DEF Sink, LayersDrawnFromCells, TypeOK, Maybe, Calls, None

LEMMA LayerNext ==
  ASSUME TypeOK, Shape, LayerInv, NEW t \in Threads, Step(t)
  PROVE  LayerInv'
<1>0. /\ \A u \in Threads : job[u] \in Job /\ job[u].layer \in Layer
      /\ \A c \in Calls : slot[c] \in Layer
      /\ NoLayer \in Layer /\ Sink \in Layer /\ DrawnFromCells(NoLayer)
  BY SinkType DEF TypeOK, Job, NoLayer, Layer, Maybe, None, DrawnFromCells
<1>1. ASSUME NEW u \in Threads, u # t, job'[u].entry # "client_init"
      PROVE  DrawnFromCells(job[u].layer)' /\ job'[u] = job[u]
  <2>1. job'[u] = job[u]
    BY <1>1, StepCases, BeginEffect DEF Moves
  <2>2. DrawnFromCells(job[u].layer)
    BY <1>1, <2>1 DEF LayerInv
  <2>. QED BY <2>1, <2>2, <1>0, DrawnStays DEF DrawnFromCells
<1>2. ASSUME job'[t].entry # "client_init"
      PROVE  DrawnFromCells(job[t].layer)'
  <2>1. CASE MakeCall(t)
    <3>1. job'[t].layer \in {NoLayer, Sink}
      BY <2>1, BeginEffect
    <3>2. DrawnFromCells(Sink)
      BY SinkDrawn DEF LayerInv
    <3>. QED BY <3>1, <3>2, <1>0, DrawnStays DEF DrawnFromCells
  <2>2. CASE BuildLayer(t)
    <3>1. job[t].entry # "client_init"
      BY <1>2, <2>2, <1>0 DEF BuildLayer, TypeOK, Job
    <3>2. job'[t].layer = OtelLayer /\ UNCHANGED cell
      BY <2>2, <3>1, <1>0 DEF BuildLayer, TypeOK, Job, statics
    <3>. QED BY <3>2 DEF OtelLayer, DrawnFromCells, NoLayer
  <2>3. CASE Moves(t) /\ ~BuildLayer(t)
    <3>1. pc[t] # "idle" /\ ~MakeCall(t)
      BY <2>3, BeginEffect DEF Moves
    <3>2. job'[t].layer = job[t].layer
      BY <2>3, <3>1, <1>0 DEF Step, Resolve, InitRedactor, Check, Propagate,
         Build, BuildFails, Store, Reload, PublishHandle, TryInit, SetGuard,
         SetInited, SetClientState, ShutdownSignal, TypeOK, Job
    <3>3. DrawnFromCells(job[t].layer)
      BY <1>2, <2>3 DEF LayerInv, Moves
    <3>. QED BY <3>2, <3>3, <1>0, DrawnStays DEF DrawnFromCells
  <2>. QED BY <2>1, <2>2, <2>3, StepCases
<1>3. ASSUME NEW c \in Calls, entryOf'[c] # "client_init"
      PROVE  DrawnFromCells(slot[c])'
  <2>1. CASE slot'[c] = slot[c] /\ entryOf'[c] = entryOf[c]
    <3>1. DrawnFromCells(slot[c])
      BY <1>3, <2>1 DEF LayerInv, LayersDrawnFromCells
    <3>. QED BY <2>1, <3>1, <1>0, DrawnStays DEF DrawnFromCells
  <2>2. CASE MakeCall(t)
    <3>1. entryOf[c] # "client_init" /\ slot'[c] = slot[c]
      BY <1>3, <2>2, BeginEffect DEF Shape, TypeOK, outside, Maybe, Calls
    <3>2. DrawnFromCells(slot[c])
      BY <3>1 DEF LayerInv, LayersDrawnFromCells
    <3>. QED BY <3>1, <3>2, <1>0, DrawnStays DEF DrawnFromCells
  <2>3. CASE BuildLayer(t)
    <3>1. c = job[t].id /\ slot'[c] # slot[c] => job[t].entry # "client_init"
      BY <1>3, <2>3 DEF BuildLayer, Shape, NameOf, None, history
    <3>2. slot'[c] = slot[c] /\ entryOf'[c] = entryOf[c]
      BY <2>3, <3>1 DEF BuildLayer, TypeOK, history
    <3>. QED BY <2>1, <3>2
  <2>4. CASE Reload(t) \/ PublishHandle(t)
    <3>1. slot'[c] \in {slot[c], job[t].layer} /\ UNCHANGED <<entryOf, cell>>
      BY <2>4 DEF Reload, PublishHandle, TypeOK, history, statics
    <3>2. job[t].entry # "client_init"
      BY <2>4 DEF Reload, PublishHandle, Shape, KindOf, Exports, InitCalls
    <3>3. DrawnFromCells(job[t].layer)
      BY <3>2 DEF LayerInv
    <3>4. CASE slot'[c] = slot[c]
      BY <2>1, <3>1, <3>4
    <3>5. CASE slot'[c] = job[t].layer
      BY <3>1, <3>3, <3>5 DEF DrawnFromCells
    <3>. QED BY <3>1, <3>4, <3>5
  <2>5. CASE ~MakeCall(t) /\ ~BuildLayer(t) /\ ~Reload(t) /\ ~PublishHandle(t)
    <3>1. UNCHANGED <<slot, entryOf>>
      BY <2>5 DEF Step, Resolve, InitRedactor, Check, Propagate, Build,
         BuildFails, Store, TryInit, SetGuard, SetInited, SetClientState,
         ShutdownSignal, history, outside
    <3>. QED BY <2>1, <3>1
  <2>. QED BY <2>2, <2>3, <2>4, <2>5
<1>. QED
  BY <1>1, <1>2, <1>3 DEF LayerInv, LayersDrawnFromCells, DrawnFromCells

(* What GuardInv says of one thread.                                       *)
Installed(t) ==
  LET j == job[t] IN
  /\ pc[t] \in {"build", "store"} /\ j.entry \in InitCalls /\ j.sig # "tracer"
     => cell["tracer"] # None
  /\ pc[t] \in {"layer", "reload", "publish", "tryinit"} /\ Exports(j)
     => cell["tracer"] # None
  /\ pc[t] = "tryinit" /\ j.entry \in InitCalls => handle # None
  /\ pc[t] = "guard" => cell["tracer"] # None /\ handle # None

LEMMA InstalledStep ==
  ASSUME TypeOK, NEW t \in Threads, KindOf(t), Installed(t), Step(t)
  PROVE  Installed(t)'
<1>0. /\ job[t] \in Job /\ \A s \in Signals : cell[s] # None => cell'[s] = cell[s]
      /\ handle # None => handle' = handle
  BY CellsFinal DEF TypeOK
<1>1. CASE MakeCall(t)
  BY <1>1, BeginEffect DEF Installed
<1>2. CASE Resolve(t) \/ InitRedactor(t) \/ SetInited(t) \/ SetClientState(t)
           \/ BuildFails(t)
  BY <1>2 DEF Resolve, InitRedactor, SetInited, SetClientState, BuildFails,
     Installed, Goto, Return, TypeOK
<1>3. CASE Check(t)
  <2>1. job'[t].entry = job[t].entry /\ job'[t].mode = job[t].mode
    BY <1>0, <1>3 DEF Check, TypeOK, Job
  <2>2. pc'[t] \in {"build"} => job'[t].sig = "tracer"
    BY <1>0, <1>3 DEF Check, Goto, Return, TypeOK, Job
  <2>3. Exports(job[t]) => SignalsOf(job[t]) # {}
    BY DEF Exports, SignalsOf, Signals, Globals
  <2>4. pc'[t] = "layer" => ~Exports(job[t])
    BY <1>3, <2>3 DEF Check, Goto, Return, TypeOK
  <2>5. pc'[t] \in {"idle", "inited", "build", "layer", "propagate"}
    BY <1>3 DEF Check, Goto, Return, TypeOK
  <2>. QED BY <2>1, <2>2, <2>4, <2>5 DEF Installed, Exports
<1>4. CASE Propagate(t)
  <2>1. Exports(job[t]) => SignalsOf(job[t]) # {}
    BY DEF Exports, SignalsOf, Signals, Globals
  <2>2. job[t].sig = "tracer" /\ UNCHANGED job
    BY <1>4 DEF Propagate, TypeOK
  <2>3. pc'[t] \in {"idle", "build", "layer"} /\ (pc'[t] = "layer" => ~Exports(job[t]))
    BY <1>4, <2>1 DEF Propagate, Goto, Return, TypeOK
  <2>. QED BY <2>2, <2>3 DEF Installed
<1>5. CASE Build(t)
  BY <1>5 DEF Build, Installed, Goto, TypeOK, statics
<1>6. CASE Store(t)
  <2>1. job'[t].entry = job[t].entry /\ job'[t].mode = job[t].mode
        /\ pc'[t] \in {"build", "layer"}
    BY <1>0, <1>6 DEF Store, Goto, TypeOK, Job
  <2>2. job[t].entry \in InitCalls => cell'["tracer"] # None
    <3>1. job[t].id # None /\ job[t].sig \in Signals
      BY <1>0, <1>6 DEF Store, TypeOK, SignalsOf, Signals, Globals
    <3>2. CASE job[t].sig = "tracer"
      BY <1>6, <3>1, <3>2 DEF Store, FirstWins, TypeOK, InitCalls, Signals
    <3>3. CASE job[t].sig # "tracer"
      BY <1>0, <1>6, <3>3 DEF Store, Installed, Signals
    <3>. QED BY <3>2, <3>3
  <2>3. Exports(job[t]) => job[t].entry \in InitCalls
    BY DEF Exports, InitCalls
  <2>. QED BY <2>1, <2>2, <2>3 DEF Installed, Exports
<1>7. CASE BuildLayer(t)
  <2>1. job'[t].entry = job[t].entry /\ job'[t].mode = job[t].mode
        /\ UNCHANGED <<cell, handle>>
    BY <1>0, <1>7 DEF BuildLayer, TypeOK, Job, statics
  <2>2. Exports(job[t]) => cell["tracer"] # None /\ job[t].entry # "client_init"
    BY <1>7 DEF BuildLayer, Installed, Exports
  <2>3. Exports(job[t]) => pc'[t] = "reload"
    BY <1>7, <2>2 DEF BuildLayer, OtelLayer, Goto, TypeOK
  <2>4. pc'[t] \in {"reload", "tryinit", "publish"}
        /\ (pc'[t] = "tryinit" => job[t].entry = "client_init")
    BY <1>7, <2>2, <2>3 DEF BuildLayer, Goto, TypeOK
  <2>. QED BY <2>1, <2>2, <2>4 DEF Installed, Exports, InitCalls
<1>8. CASE Reload(t)
  BY <1>8 DEF Reload, KindOf, Installed, Goto, TypeOK, statics
<1>9. CASE PublishHandle(t)
  <2>1. job[t].id # None
    BY <1>9 DEF PublishHandle, TypeOK
  <2>. QED
    BY <1>9, <2>1 DEF PublishHandle, Installed, FirstWins, Goto, TypeOK
<1>10. CASE TryInit(t)
  BY <1>10 DEF TryInit, Installed, Goto, TypeOK, statics, Exports, InitCalls
<1>11. CASE SetGuard(t)
  BY <1>11 DEF SetGuard, Installed, Goto, TypeOK
<1>12. CASE ShutdownSignal(t)
  BY <1>12 DEF ShutdownSignal, Installed, Goto, Return, TypeOK
<1>. QED
  BY <1>1, <1>2, <1>3, <1>4, <1>5, <1>6, <1>7, <1>8, <1>9, <1>10, <1>11, <1>12
     DEF Step

LEMMA GuardNext ==
  ASSUME TypeOK, Shape, GuardInv, NEW t \in Threads, Step(t)
  PROVE  GuardInv'
<1>1. \A u \in Threads : Installed(u)
  BY DEF GuardInv, Installed
<1>2. Installed(t)'
  BY <1>1, InstalledStep DEF Shape
<1>3. ASSUME NEW u \in Threads, u # t PROVE Installed(u)'
  <2>1. pc'[u] = pc[u] /\ job'[u] = job[u]
    BY <1>3, StepCases, BeginEffect DEF Moves
  <2>2. /\ cell["tracer"] # None => cell'["tracer"] # None
        /\ handle # None => handle' # None
    BY CellsFinal DEF Signals
  <2>. QED BY <1>1, <2>1, <2>2 DEF Installed
<1>4. GuardMeansInstalled'
  <2>1. /\ cell["tracer"] # None => cell'["tracer"] # None
        /\ handle # None => handle' # None
    BY CellsFinal DEF Signals
  <2>2. CASE guard' = guard
    BY <2>1, <2>2 DEF GuardInv, GuardMeansInstalled
  <2>3. CASE SetGuard(t)
    BY <1>1, <2>1, <2>3 DEF SetGuard, Installed, GuardMeansInstalled
  <2>4. CASE MakeCall(t)
    BY <2>2, <2>4, BeginEffect DEF statics
  <2>. QED
    BY <2>2, <2>3, <2>4 DEF Step, Resolve, InitRedactor, Check, Propagate, Build,
       BuildFails, Store, BuildLayer, Reload, PublishHandle, TryInit, SetInited,
       SetClientState, ShutdownSignal, statics
<1>. QED BY <1>2, <1>3, <1>4 DEF GuardInv, Installed

(* Err is returned from three steps, none of them behind a once-guard.     *)
LEMMA ErrOnlyBefore ==
  ASSUME TypeOK, NEW t \in Threads, Step(t), NEW c \in Calls,
         outcome'[c] = "err", outcome[c] # "err"
  PROVE  c = job[t].id /\ pc[t] \in {"resolve", "propagate", "build"}
<1>1. ~MakeCall(t)
  BY BeginEffect
<1>. QED
  BY <1>1 DEF Step, Resolve, InitRedactor, Check, Propagate, Build, BuildFails,
     Store, BuildLayer, Reload, PublishHandle, TryInit, SetGuard, SetInited,
     SetClientState, ShutdownSignal, Return, TypeOK

LEMMA RetryNext ==
  ASSUME TypeOK, Shape, RetryInv, NEW t \in Threads, Step(t)
  PROVE  RetryInv'
<1>0. /\ \A u \in Threads : job[u] \in Job /\ job[u].id \in Maybe
      /\ started \in Nat /\ guard \in Nat /\ guard \in Maybe
  BY DEF TypeOK, Job, Maybe
<1>1. CASE MakeCall(t)
  <2>1. UNCHANGED <<guard, inited, outcome>> /\ started' = started + 1
        /\ job'[t].id = started + 1
    BY <1>1, BeginEffect DEF statics
  <2>2. FailuresStayRetryable'
    BY <2>1 DEF RetryInv, FailuresStayRetryable
  <2>3. guard' <= started'
    BY <1>0, <2>1 DEF RetryInv
  <2>4. job'[t].id # guard'
    BY <1>0, <2>1 DEF RetryInv
  <2>5. \A u \in Threads : u # t => pc'[u] = pc[u] /\ job'[u] = job[u]
    BY <1>1, BeginEffect
  <2>. QED BY <2>1, <2>2, <2>3, <2>4, <2>5 DEF RetryInv
<1>2. CASE Moves(t) /\ ~MakeCall(t)
  <2>1. job[t].id # None /\ job[t].id \in Calls /\ outcome[job[t].id] = "none"
        /\ job[t].id <= started /\ started' = started
    BY <1>0, <1>2 DEF Moves, Shape, NameOf, Maybe, Calls, None, history
  <2>2. \A c \in Calls : outcome[c] = "ok" => outcome'[c] = "ok"
    BY <1>2, <2>1 DEF Moves, TypeOK
  <2>3. guard' \in {guard, job[t].id}
        /\ (guard' # guard => guard = None /\ SetGuard(t))
    BY <1>2 DEF Step, Resolve, InitRedactor, Check, Propagate, Build,
       BuildFails, Store, BuildLayer, Reload, PublishHandle, TryInit, SetGuard,
       SetInited, SetClientState, ShutdownSignal, statics, FirstWins
  <2>4. inited' => \E c \in Calls : outcome'[c] = "ok"
    <3>1. CASE SetInited(t)
      BY <2>1, <3>1 DEF SetInited, Return, TypeOK
    <3>2. CASE ~SetInited(t)
      <4>1. inited' = inited
        BY <1>2, <3>2 DEF Step, Resolve, InitRedactor, Check, Propagate, Build,
           BuildFails, Store, BuildLayer, Reload, PublishHandle, TryInit,
           SetGuard, SetClientState, ShutdownSignal, statics
      <4>. QED BY <2>2, <4>1 DEF RetryInv, FailuresStayRetryable
    <3>. QED BY <3>1, <3>2
  <2>5. guard' <= started'
    BY <2>1, <2>3 DEF RetryInv
  <2>6. guard' # None => guard' \in Calls /\ outcome'[guard'] # "err"
    <3>1. CASE guard' = guard
      <4>1. guard # None => guard \in Calls /\ outcome[guard] # "err"
        BY <1>0 DEF RetryInv, FailuresStayRetryable, Maybe, Calls, None
      <4>2. guard # None /\ guard = job[t].id => pc[t] = "inited"
        BY <1>2 DEF RetryInv, Moves
      <4>. QED BY <3>1, <4>1, <4>2, ErrOnlyBefore
    <3>2. CASE guard' # guard
      <4>1. guard' = job[t].id /\ outcome' = outcome
        BY <2>3, <3>2 DEF SetGuard
      <4>. QED BY <2>1, <4>1
    <3>. QED BY <3>1, <3>2
  <2>7. ASSUME NEW u \in Threads, pc'[u] # "idle", guard' # None,
               job'[u].id = guard'
        PROVE  pc'[u] = "inited"
    <3>1. job'[u].id = job[u].id
      BY <1>2 DEF Moves
    <3>2. CASE guard' # guard
      <4>1. u = t
        BY <2>1, <2>3, <2>7, <3>1, <3>2 DEF Shape
      <4>. QED BY <2>3, <3>2, <4>1 DEF SetGuard, Goto, TypeOK
    <3>3. CASE guard' = guard /\ u # t
      BY <1>2, <2>7, <3>1, <3>3 DEF RetryInv, Moves
    <3>4. CASE guard' = guard /\ u = t
      <4>1. pc[t] = "inited"
        BY <1>2, <2>7, <3>1, <3>4 DEF RetryInv, Moves
      <4>2. SetInited(t)
        BY <1>2, <4>1 DEF Step, Resolve, InitRedactor, Check, Propagate, Build,
           BuildFails, Store, BuildLayer, Reload, PublishHandle, TryInit,
           SetGuard, SetClientState, ShutdownSignal
      <4>. QED BY <2>7, <3>4, <4>2 DEF SetInited, Return, Goto, TypeOK
    <3>. QED BY <3>2, <3>3, <3>4
  <2>. QED BY <2>4, <2>5, <2>6, <2>7 DEF RetryInv, FailuresStayRetryable
<1>. QED BY <1>1, <1>2, StepCases

(* Nobody restarts a provider that was shut down.                          *)
LEMMA StoppedGrows ==
  ASSUME TypeOK, NEW t \in Threads, Step(t)
  PROVE  stopped \subseteq stopped'
<1>1. CASE MakeCall(t)
  BY <1>1, BeginEffect DEF outside
<1>. QED
  BY <1>1 DEF Step, Resolve, InitRedactor, Check, Propagate, Build, BuildFails,
     Store, BuildLayer, Reload, PublishHandle, TryInit, SetGuard, SetInited,
     SetClientState, ShutdownSignal, outside

(* What ShutdownInv says of one thread.                                    *)
Stopping(t) ==
  /\ pc[t] = "idle" /\ job[t].entry = "shutdown" =>
       \A s \in {"tracer", "logger"} :
         job[t].layer[s] # None => <<s, job[t].layer[s]>> \in stopped
  /\ pc[t] = "shutdown" =>
       /\ job[t].sig # "none"
       /\ job[t].sig # "tracer" /\ job[t].layer.tracer # None
          => <<"tracer", job[t].layer.tracer>> \in stopped

LEMMA StoppingStep ==
  ASSUME TypeOK, Shape, LayerInv, NEW t \in Threads, Stopping(t), Step(t)
  PROVE  Stopping(t)'
<1>0. job[t] \in Job
  BY DEF TypeOK
<1>1. CASE MakeCall(t)
  BY <1>1, BeginEffect DEF Stopping
<1>2. CASE ShutdownSignal(t)
  <2>1. job[t].entry = "shutdown" /\ job[t].sig \in Signals
    BY <1>0, <1>2 DEF ShutdownSignal, Shape, KindOf, TypeOK, Job
  <2>2. DrawnFromCells(job[t].layer)
    BY <2>1 DEF LayerInv
  <2>3. job'[t].layer = job[t].layer /\ job'[t].entry = job[t].entry
        /\ job'[t].sig = NextSignal(job[t].sig)
    BY <1>0, <1>2 DEF ShutdownSignal, TypeOK, Job
  <2>4. job[t].sig \in {"tracer", "logger"} /\ job[t].layer[job[t].sig] # None
        => <<job[t].sig, job[t].layer[job[t].sig]>> \in stopped'
    <3>1. CASE job[t].sig = "tracer"
      BY <1>2, <2>2, <3>1 DEF ShutdownSignal, DrawnFromCells
    <3>2. CASE job[t].sig = "logger"
      BY <1>2, <2>2, <3>2 DEF ShutdownSignal, DrawnFromCells
    <3>. QED BY <3>1, <3>2
  <2>5. CASE job[t].sig = "tracer"
    <3>1. pc'[t] = "shutdown" /\ job'[t].sig = "meter"
      BY <1>2, <2>3, <2>5 DEF ShutdownSignal, NextSignal, TypeOK
    <3>. QED BY <2>3, <2>4, <2>5, <3>1 DEF Stopping
  <2>6. CASE job[t].sig = "meter"
    <3>1. pc'[t] = "shutdown" /\ job'[t].sig = "logger"
      BY <1>2, <2>3, <2>6 DEF ShutdownSignal, NextSignal, TypeOK
    <3>2. job[t].layer.tracer # None => <<"tracer", job[t].layer.tracer>> \in stopped
      BY <1>2, <2>6 DEF ShutdownSignal, Stopping
    <3>. QED BY <2>3, <3>1, <3>2, StoppedGrows DEF Stopping
  <2>7. CASE job[t].sig = "logger"
    <3>1. pc'[t] = "idle"
      BY <1>2, <2>7 DEF ShutdownSignal, Return, Goto, TypeOK
    <3>2. job[t].layer.tracer # None => <<"tracer", job[t].layer.tracer>> \in stopped
      BY <1>2, <2>7 DEF ShutdownSignal, Stopping
    <3>. QED BY <2>3, <2>4, <2>7, <3>1, <3>2, StoppedGrows DEF Stopping
  <2>. QED BY <2>1, <2>5, <2>6, <2>7 DEF Signals
<1>3. CASE Moves(t) /\ ~MakeCall(t) /\ ~ShutdownSignal(t)
  <2>1. job[t].entry # "shutdown"
    BY <1>3 DEF Step, Resolve, InitRedactor, Check, Propagate, Build,
       BuildFails, Store, BuildLayer, Reload, PublishHandle, TryInit, SetGuard,
       SetInited, SetClientState, Shape, KindOf, Exports, InitCalls
  <2>2. job'[t].entry # "shutdown"
    BY <1>3, <2>1 DEF Moves
  <2>3. pc'[t] # "shutdown"
    BY <1>3 DEF Step, Resolve, InitRedactor, Check, Propagate, Build,
       BuildFails, Store, BuildLayer, Reload, PublishHandle, TryInit, SetGuard,
       SetInited, SetClientState, Goto, Return, TypeOK
  <2>. QED BY <2>2, <2>3 DEF Stopping
<1>. QED BY <1>1, <1>2, <1>3, StepCases

LEMMA ShutdownNext ==
  ASSUME TypeOK, Shape, LayerInv, ShutdownInv, NEW t \in Threads, Step(t)
  PROVE  ShutdownInv'
<1>1. \A u \in Threads : Stopping(u)
  BY DEF ShutdownInv, ShutdownStopsSink, Stopping
<1>2. Stopping(t)'
  BY <1>1, StoppingStep
<1>3. ASSUME NEW u \in Threads, u # t PROVE Stopping(u)'
  <2>1. pc'[u] = pc[u] /\ job'[u] = job[u]
    BY <1>3, StepCases, BeginEffect DEF Moves
  <2>. QED BY <1>1, <2>1, StoppedGrows DEF Stopping
<1>4. \A u \in Threads : Stopping(u)'
  BY <1>2, <1>3
<1>. QED BY <1>4 DEF ShutdownInv, ShutdownStopsSink, Stopping
(* A global provider is only ever replaced by another one.                 *)
LEMMA GlobalsStay ==
  ASSUME TypeOK, NEW t \in Threads, Step(t)
  PROVE  \A s \in Globals : global[s] # None => global'[s] # None
<1>1. CASE MakeCall(t)
  BY <1>1, BeginEffect DEF outside
<1>2. CASE Build(t)
  BY <1>2 DEF Build, TypeOK
<1>. QED
  BY <1>1, <1>2 DEF Step, Resolve, InitRedactor, Check, Propagate, BuildFails,
     Store, BuildLayer, Reload, PublishHandle, TryInit, SetGuard, SetInited,
     SetClientState, ShutdownSignal, outside

LEMMA ClientModes ==
  ASSUME TypeOK, NEW t \in Threads, MakeCall(t), job'[t].entry = "client_init"
  PROVE  job'[t].mode \in {"json", "otlp"}
<1>1. ASSUME NEW entry, NEW mode, NEW own, NEW patterns, NEW first,
             Begin(t, entry, mode, own, patterns, first)
      PROVE  job'[t].entry = entry /\ job'[t].mode = mode
  BY <1>1 DEF Begin, NewJob, TypeOK
<1>. QED
  BY <1>1 DEF MakeCall, BeginInitTelemetry, BeginFromConfig, BeginFromProvider,
     BeginClientInit, BeginShutdown

(* What ClientInv says of one thread.                                      *)
Clienting(t) ==
  job[t].entry = "client_init" =>
    /\ job[t].mode \in {"json", "otlp"}
    /\ job[t].mode = "otlp" =>
         /\ pc[t] \in {"layer", "tryinit", "client"} =>
              \A s \in Globals : global[s] # None
         /\ pc[t] = "store" => global[job[t].sig] # None
         /\ pc[t] \in {"build", "store"} /\ job[t].sig = "meter" =>
              global["tracer"] # None

LEMMA ClientingStep ==
  ASSUME TypeOK, NEW t \in Threads, KindOf(t), Clienting(t), Step(t)
  PROVE  Clienting(t)'
<1>0. job[t] \in Job
  BY DEF TypeOK
<1>1. CASE MakeCall(t)
  BY <1>1, BeginEffect, ClientModes DEF Clienting
<1>2. CASE Moves(t)
  <2>1. SUFFICES ASSUME job[t].entry = "client_init", job[t].mode = "otlp"
                 PROVE  Clienting(t)'
    BY <1>2 DEF Moves, Clienting
  <2>2. job'[t].mode = "otlp" /\ SignalsOf(job[t]) = Globals /\ ~Exports(job[t])
    BY <1>2, <2>1 DEF Moves, SignalsOf, Exports
  <2>3. CASE Check(t)
    <3>1. pc'[t] \in {"idle", "propagate"}
      BY <2>1, <2>2, <2>3 DEF Check, Goto, Return, TypeOK, Globals
    <3>. QED BY <2>2, <3>1 DEF Clienting
  <2>4. CASE Propagate(t)
    <3>1. pc'[t] \in {"idle", "build"} /\ job'[t].sig = "tracer"
      BY <2>2, <2>4 DEF Propagate, Goto, Return, TypeOK, Globals
    <3>. QED BY <2>2, <3>1 DEF Clienting
  <2>5. CASE Build(t)
    <3>1. job[t].sig \in Globals /\ job[t].id # None /\ job'[t].sig = job[t].sig
      BY <2>2, <2>5 DEF Build, TypeOK
    <3>2. pc'[t] = "store" /\ global'[job[t].sig] # None
      BY <2>5, <3>1 DEF Build, Goto, TypeOK
    <3>3. job[t].sig = "meter" => global["tracer"] # None
      BY <2>1, <2>5 DEF Build, Clienting
    <3>. QED BY <2>2, <3>1, <3>2, <3>3, GlobalsStay DEF Clienting, Globals
  <2>6. CASE Store(t)
    <3>1. job[t].sig \in Globals /\ global' = global
      BY <2>2, <2>6 DEF Store, TypeOK, outside
    <3>2. job'[t].sig = NextSignal(job[t].sig) /\ global[job[t].sig] # None
      BY <1>0, <2>1, <2>6 DEF Store, Clienting, TypeOK, Job
    <3>3. CASE job[t].sig = "tracer"
      <4>1. pc'[t] = "build" /\ job'[t].sig = "meter"
        BY <2>2, <2>6, <3>2, <3>3 DEF Store, Goto, TypeOK, NextSignal, Globals
      <4>. QED BY <2>2, <3>1, <3>2, <3>3, <4>1 DEF Clienting
    <3>4. CASE job[t].sig = "meter"
      <4>1. pc'[t] = "layer"
        BY <2>2, <2>6, <3>4 DEF Store, Goto, TypeOK, NextSignal, Globals
      <4>2. global["tracer"] # None
        BY <2>1, <2>6, <3>4 DEF Store, Clienting
      <4>. QED BY <2>2, <3>1, <3>2, <3>4, <4>1, <4>2 DEF Clienting, Globals
    <3>. QED BY <3>1, <3>3, <3>4 DEF Globals
  <2>7. CASE BuildLayer(t)
    <3>1. pc'[t] = "tryinit" /\ pc[t] = "layer" /\ global' = global
      BY <2>1, <2>2, <2>7 DEF BuildLayer, Goto, TypeOK
    <3>. QED BY <2>1, <2>2, <3>1 DEF Clienting
  <2>8. CASE TryInit(t)
    <3>1. pc'[t] = "client" /\ pc[t] = "tryinit" /\ global' = global
      BY <2>1, <2>8 DEF TryInit, Goto, TypeOK
    <3>. QED BY <2>1, <2>2, <3>1 DEF Clienting
  <2>9. CASE BuildFails(t) \/ SetInited(t) \/ SetClientState(t)
    <3>1. pc'[t] = "idle"
      BY <2>9 DEF BuildFails, SetInited, SetClientState, Return, Goto, TypeOK
    <3>. QED BY <2>2, <3>1 DEF Clienting
  <2>10. ~Resolve(t) /\ ~InitRedactor(t) /\ ~Reload(t) /\ ~PublishHandle(t)
         /\ ~SetGuard(t) /\ ~ShutdownSignal(t) /\ ~MakeCall(t)
    BY <1>2, <2>1, <2>2, BeginEffect DEF Resolve, InitRedactor, Reload,
       PublishHandle, SetGuard, ShutdownSignal, KindOf, InitCalls, Moves
  <2>. QED
    BY <2>3, <2>4, <2>5, <2>6, <2>7, <2>8, <2>9, <2>10 DEF Step
<1>. QED BY <1>1, <1>2, StepCases

LEMMA ClientNext ==
  ASSUME TypeOK, Shape, ClientInv, NEW t \in Threads, Step(t)
  PROVE  ClientInv'
<1>1. \A u \in Threads : Clienting(u)
  BY DEF ClientInv, Clienting
<1>2. Clienting(t)'
  BY <1>1, ClientingStep DEF Shape
<1>3. ASSUME NEW u \in Threads, u # t PROVE Clienting(u)'
  <2>1. pc'[u] = pc[u] /\ job'[u] = job[u]
    BY <1>3, StepCases, BeginEffect DEF Moves
  <2>2. pc[u] = "store" /\ job[u].entry = "client_init" /\ job[u].mode = "otlp"
        => job[u].sig \in Globals
    BY DEF TypeOK, SignalsOf
  <2>. QED BY <1>1, <2>1, <2>2, GlobalsStay DEF Clienting, Globals
<1>4. ClientHasGlobals'
  <2>1. CASE clientState' = clientState
    BY <2>1, GlobalsStay DEF ClientInv, ClientHasGlobals
  <2>2. CASE SetClientState(t)
    <3>1. job[t].entry = "client_init" /\ global' = global /\ pc[t] = "client"
      BY <2>2 DEF SetClientState, Shape, KindOf, outside
    <3>2. CASE job[t].mode = "otlp"
      BY <1>1, <3>1, <3>2 DEF Clienting, ClientHasGlobals
    <3>3. CASE job[t].mode = "json"
      BY <2>2, <3>1, <3>3 DEF SetClientState, ClientInv, ClientHasGlobals
    <3>. QED BY <1>1, <3>1, <3>2, <3>3 DEF Clienting
  <2>3. CASE MakeCall(t)
    BY <2>1, <2>3, BeginEffect DEF statics
  <2>. QED
    BY <2>1, <2>2, <2>3 DEF Step, Resolve, InitRedactor, Check, Propagate, Build,
       BuildFails, Store, BuildLayer, Reload, PublishHandle, TryInit, SetGuard,
       SetInited, ShutdownSignal, statics
<1>. QED BY <1>2, <1>3, <1>4 DEF ClientInv, Clienting
-----------------------------------------------------------------------------
LEMMA InvInit == Init => IInv
<1>. SUFFICES ASSUME Init PROVE IInv
  OBVIOUS
<1>1. TypeOK
  BY TypeInit
<1>2. \A t \in Threads : pc[t] = "idle" /\ job[t] = NoJob
  BY DEF Init
<1>3. Shape
  BY <1>2 DEF Init, Shape, KindOf, NameOf, NoJob, None
<1>4. RedactorInv
  BY <1>2 DEF Init, RedactorInv, RedactorFirst
<1>5. LayerInv
  BY <1>2 DEF Init, LayerInv, LayersDrawnFromCells, DrawnFromCells, NoJob, NoLayer
<1>6. GuardInv
  BY <1>2 DEF Init, GuardInv, GuardMeansInstalled
<1>7. RetryInv
  BY <1>2 DEF Init, RetryInv, FailuresStayRetryable, None
<1>8. ShutdownInv
  BY <1>2 DEF Init, ShutdownInv, ShutdownStopsSink, NoJob
<1>9. ClientInv
  BY <1>2 DEF Init, ClientInv, ClientHasGlobals, NoJob
<1>. QED BY <1>1, <1>3, <1>4, <1>5, <1>6, <1>7, <1>8, <1>9 DEF IInv

LEMMA InvNext == IInv /\ [Next]_vars => IInv'
<1>. SUFFICES ASSUME IInv, [Next]_vars PROVE IInv'
  OBVIOUS
<1>1. TypeOK'
  BY TypeNext DEF IInv
<1>2. CASE UNCHANGED vars
  <2>1. Shape'
    BY <1>2 DEF IInv, Shape, KindOf, NameOf, vars, history, threads
  <2>2. RedactorInv' /\ RetryInv'
    BY <1>2 DEF IInv, RedactorInv, RedactorFirst, RetryInv,
       FailuresStayRetryable, vars, history, threads, statics
  <2>3. LayerInv' /\ GuardInv'
    BY <1>2 DEF IInv, LayerInv, LayersDrawnFromCells, DrawnFromCells, GuardInv,
       GuardMeansInstalled, vars, history, threads, statics, outside
  <2>4. ShutdownInv'
    BY <1>2 DEF IInv, ShutdownInv, ShutdownStopsSink, vars, threads, outside
  <2>5. ClientInv'
    BY <1>2 DEF IInv, ClientInv, ClientHasGlobals, vars, threads, statics, outside
  <2>. QED BY <1>1, <2>1, <2>2, <2>3, <2>4, <2>5 DEF IInv
<1>3. ASSUME NEW t \in Threads, Step(t) PROVE IInv'
  BY <1>1, <1>3, ShapeNext, RedactorNext, LayerNext, GuardNext, RetryNext,
     ShutdownNext, ClientNext DEF IInv
<1>. QED BY <1>2, <1>3 DEF Next

(* The inductive invariant, and with it the safety properties of the       *)
(* initialisation, hold in every behaviour.                                *)
THEOREM Invariance == Spec => []IInv
BY InvInit, InvNext, PTL DEF Spec

(* Exporters and fmt layers find an initialised redactor.                  *)
THEOREM RedactorAlwaysFirst == Spec => []RedactorFirst
<1>1. IInv => RedactorFirst
  BY DEF IInv, RedactorInv
<1>. QED BY <1>1, Invariance, PTL

(* INIT_GUARD is only ever closed behind an installed provider.            *)
THEOREM GuardAlwaysInstalled == Spec => []GuardMeansInstalled
<1>1. IInv => GuardMeansInstalled
  BY DEF IInv, GuardInv
<1>. QED BY <1>1, Invariance, PTL

(* A call that returned an error closed neither once-guard.                *)
THEOREM FailuresAlwaysRetryable == Spec => []FailuresStayRetryable
<1>1. IInv => FailuresStayRetryable
  BY DEF IInv, RetryInv
<1>. QED BY <1>1, Invariance, PTL

(* The OTel layers export through the providers shutdown() can reach.      *)
THEOREM LayersAlwaysDrawn == Spec => []LayersDrawnFromCells
<1>1. IInv => LayersDrawnFromCells
  BY DEF IInv, LayerInv
<1>. QED BY <1>1, Invariance, PTL

(* A shutdown that returned has stopped what the subscriber exported to.   *)
THEOREM ShutdownAlwaysStops == Spec => []ShutdownStopsSink
<1>1. IInv => ShutdownStopsSink
  BY DEF IInv, ShutdownInv
<1>. QED BY <1>1, Invariance, PTL

(* In Otel mode the client finds the OpenTelemetry globals installed.      *)
THEOREM ClientAlwaysHasGlobals == Spec => []ClientHasGlobals
<1>1. IInv => ClientHasGlobals
  BY DEF IInv, ClientInv
<1>. QED BY <1>1, Invariance, PTL
=============================================================================

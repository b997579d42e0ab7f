-------------------------- MODULE TelemetryUseProofs --------------------------
(***************************************************************************)
(* Theorems about TelemetryUse, for every set of threads, users, metric    *)
(* names and trace ids and every bound on the calls.  They rest on the     *)
(* inductive invariant of the initialisation, which the client's calls do  *)
(* not disturb.                                                            *)
(*                                                                         *)
(* The last two are about an application whose calls of the initialisation *)
(* come one after the other, as the two stages of docs/otlp-backends.md    *)
(* do: the upgrade reaches the subscriber, and the patterns of the first   *)
(* config are in force.  Neither holds for concurrent calls.               *)
(***************************************************************************)
EXTENDS TelemetryUse, TelemetryInitProofs

USE MaxCallsAssumption, MaxUsesAssumption

-----------------------------------------------------------------------------
(* The strengthening: a client call under way holds a provider; a name has *)
(* at most one histogram, and whatever was measured under the name went    *)
(* through it.                                                             *)
UsesProvider == \A u \in Users : use[u].at # "idle" => use[u].provider # None

Bound ==
  /\ \A n \in Names : \A p, q \in hist[n] : p = q /\ p # None
  /\ \A m \in measured : m[2] \in hist[m[1]]
  /\ \A s \in traced : s[1] # None

UInv == IInv /\ UseTypeOK /\ UsesProvider /\ Bound

LEMMA UInit == UseInit => UInv
<1>. SUFFICES ASSUME UseInit PROVE UInv
  OBVIOUS
<1>1. IInv
  BY InvInit DEF UseInit
<1>2. /\ modeOf \in [Calls -> ExportModes \cup {"none"}] /\ traceId = NoTrace
      /\ hist \in [Names -> SUBSET Maybe] /\ \A n \in Names : hist[n] = {}
      /\ uses \in 0 .. MaxUses /\ measured = {} /\ traced = {}
  BY DEF UseInit
<1>3. /\ use \in [Users -> [at : {"idle", "record", "build"},
                           name : Names \cup {NoTrace}, provider : Maybe]]
      /\ \A u \in Users : use[u].at = "idle"
  BY DEF UseInit, Idle, None, Maybe
<1>. QED BY <1>1, <1>2, <1>3 DEF UInv, UseTypeOK, UsesProvider, Bound

LEMMA InitKeeps ==
  ASSUME UInv, NEW t \in Threads, InitStep(t)
  PROVE  UInv'
<1>1. IInv'
  BY InvNext DEF UInv, InitStep, Next
<1>2. /\ traceId' = traceId /\ hist' = hist /\ use' = use /\ uses' = uses
      /\ measured' = measured /\ traced' = traced
  BY DEF InitStep, client
<1>3. modeOf' \in [Calls -> ExportModes \cup {"none"}]
  <2>1. job'[t].mode \in ExportModes \cup {"none"}
    BY <1>1 DEF IInv, TypeOK, Job
  <2>. QED BY <2>1 DEF InitStep, UInv, UseTypeOK
<1>. QED BY <1>1, <1>2, <1>3 DEF UInv, UseTypeOK, UsesProvider, Bound

LEMMA UseKeeps ==
  ASSUME UInv, NEW u \in Users, Use(u)
  PROVE  UInv'
<1>1. UNCHANGED vars /\ modeOf' = modeOf
  BY DEF Use, MetricStart, MetricRecord, SpanStart, SpanBuild, SetTraceId
<1>2. IInv'
  BY <1>1, InvNext DEF UInv
<1>3. /\ UseTypeOK /\ UsesProvider /\ Bound
      /\ clientState = "otel" => \A s \in Globals : global[s] # None
      /\ \A s \in Globals : global[s] \in Maybe
  BY DEF UInv, IInv, ClientInv, ClientHasGlobals, TypeOK
<1>4. "meter" \in Globals /\ "tracer" \in Globals /\ None \in Maybe
  BY DEF Globals, Maybe, None
<1>5. ASSUME NEW next \in [at : {"idle", "record", "build"},
                           name : Names \cup {NoTrace}, provider : Maybe],
             next.at = "record" => next.name \in Names,
             next.at # "idle" => next.provider # None,
             BeginUse(u, next), UNCHANGED <<hist, measured, traced>>,
             traceId' \in TraceIds \cup {NoTrace}
      PROVE  UseTypeOK' /\ UsesProvider' /\ Bound'
  <2>1. uses' \in 0 .. MaxUses /\ use' = [use EXCEPT ![u] = next]
    BY <1>3, <1>5 DEF BeginUse, UseTypeOK
  <2>2. UseTypeOK'
    BY <1>1, <1>3, <1>5, <2>1 DEF UseTypeOK
  <2>3. UsesProvider'
    BY <1>3, <1>5, <2>1 DEF UseTypeOK, UsesProvider
  <2>4. Bound'
    BY <1>3, <1>5 DEF Bound
  <2>. QED BY <2>2, <2>3, <2>4
<1>6. Idle \in [at : {"idle", "record", "build"},
                name : Names \cup {NoTrace}, provider : Maybe] /\ Idle.at = "idle"
  BY <1>4 DEF Idle
<1>7. ASSUME NEW n \in Names, MetricStart(u, n)
      PROVE  UseTypeOK' /\ UsesProvider' /\ Bound'
  <2>. DEFINE next == [at |-> "record", name |-> n, provider |-> global["meter"]]
  <2>1. next \in [at : {"idle", "record", "build"},
                  name : Names \cup {NoTrace}, provider : Maybe]
    BY <1>3, <1>4
  <2>2. /\ next.name \in Names /\ next.provider # None /\ BeginUse(u, next)
        /\ UNCHANGED <<hist, measured, traced>>
        /\ traceId' \in TraceIds \cup {NoTrace}
    BY <1>3, <1>4, <1>7 DEF MetricStart, UseTypeOK
  <2>. HIDE DEF next
  <2>. QED BY <1>5, <2>1, <2>2
<1>8. ASSUME SpanStart(u) PROVE UseTypeOK' /\ UsesProvider' /\ Bound'
  <2>. DEFINE next == [at |-> "build", name |-> NoTrace, provider |-> global["tracer"]]
  <2>1. next \in [at : {"idle", "record", "build"},
                  name : Names \cup {NoTrace}, provider : Maybe]
    BY <1>3, <1>4
  <2>2. /\ next.at = "build" /\ next.provider # None /\ BeginUse(u, next)
        /\ UNCHANGED <<hist, measured, traced>>
        /\ traceId' \in TraceIds \cup {NoTrace}
    BY <1>3, <1>4, <1>8 DEF SpanStart, UseTypeOK
  <2>. HIDE DEF next
  <2>. QED BY <1>5, <2>1, <2>2
<1>9. ASSUME NEW id, SetTraceId(u, id)
      PROVE  UseTypeOK' /\ UsesProvider' /\ Bound'
  <2>1. /\ BeginUse(u, Idle) /\ UNCHANGED <<hist, measured, traced>>
        /\ traceId' \in TraceIds \cup {NoTrace}
    BY <1>9 DEF SetTraceId
  <2>. QED BY <1>5, <1>6, <2>1
<1>10. ASSUME MetricRecord(u) PROVE UseTypeOK' /\ UsesProvider' /\ Bound'
  <2>. DEFINE n     == use[u].name
              bound == IF hist[n] = {} THEN {use[u].provider} ELSE hist[n]
  <2>1. /\ n \in Names /\ use[u].provider # None /\ use[u].provider \in Maybe
        /\ hist[n] \in SUBSET Maybe
    BY <1>3, <1>10 DEF MetricRecord, UseTypeOK, UsesProvider
  <2>2. /\ hist' = [hist EXCEPT ![n] = bound]
        /\ measured' = measured \cup ({n} \X bound)
        /\ use' = [use EXCEPT ![u] = Idle] /\ traceId' = traceId
        /\ uses' = uses /\ traced' = traced
    BY <1>10 DEF MetricRecord
  <2>3. /\ bound \in SUBSET Maybe /\ hist[n] \subseteq bound
        /\ \A p, q \in bound : p = q /\ p # None
    BY <1>3, <2>1 DEF Bound
  <2>. HIDE DEF n, bound
  <2>4. /\ hist' \in [Names -> SUBSET Maybe] /\ hist'[n] = bound
        /\ \A m \in Names : m # n => hist'[m] = hist[m]
    BY <1>3, <2>1, <2>2, <2>3 DEF UseTypeOK
  <2>5. UseTypeOK'
    <3>1. measured' \subseteq Names \X Maybe
      BY <1>3, <2>1, <2>2, <2>3 DEF UseTypeOK
    <3>2. use' \in [Users -> [at : {"idle", "record", "build"},
                              name : Names \cup {NoTrace}, provider : Maybe]]
          /\ \A v \in Users : use'[v].at = "record" => use'[v].name \in Names
      BY <1>3, <1>6, <2>2 DEF UseTypeOK
    <3>. QED BY <1>1, <1>3, <2>2, <2>4, <3>1, <3>2 DEF UseTypeOK
  <2>6. UsesProvider'
    BY <1>3, <1>6, <2>2 DEF UseTypeOK, UsesProvider
  <2>7. Bound'
    <3>1. \A m \in Names : \A p, q \in hist'[m] : p = q /\ p # None
      BY <1>3, <2>3, <2>4 DEF Bound
    <3>2. ASSUME NEW m \in measured' PROVE m[2] \in hist'[m[1]]
      <4>1. CASE m \in measured
        <5>1. m[1] \in Names /\ m[2] \in hist[m[1]]
          BY <1>3, <4>1 DEF UseTypeOK, Bound
        <5>. QED BY <2>3, <2>4, <5>1
      <4>2. CASE m \in {n} \X bound
        BY <2>4, <4>2
      <4>. QED BY <2>2, <3>2, <4>1, <4>2
    <3>. QED BY <1>3, <2>2, <3>1, <3>2 DEF Bound
  <2>. QED BY <2>5, <2>6, <2>7
<1>11. ASSUME SpanBuild(u) PROVE UseTypeOK' /\ UsesProvider' /\ Bound'
  <2>1. /\ traced' = traced \cup {<<use[u].provider, traceId>>}
        /\ use' = [use EXCEPT ![u] = Idle] /\ traceId' = traceId
        /\ UNCHANGED <<hist, uses, measured>>
    BY <1>11 DEF SpanBuild
  <2>2. use[u].provider # None /\ use[u].provider \in Maybe
    BY <1>3, <1>11 DEF SpanBuild, UseTypeOK, UsesProvider
  <2>3. UseTypeOK'
    <3>1. traced' \subseteq Maybe \X (TraceIds \cup {NoTrace})
      BY <1>3, <2>1, <2>2 DEF UseTypeOK
    <3>2. use' \in [Users -> [at : {"idle", "record", "build"},
                              name : Names \cup {NoTrace}, provider : Maybe]]
          /\ \A v \in Users : use'[v].at = "record" => use'[v].name \in Names
      BY <1>3, <1>6, <2>1 DEF UseTypeOK
    <3>. QED BY <1>1, <1>3, <2>1, <3>1, <3>2 DEF UseTypeOK
  <2>4. UsesProvider'
    BY <1>3, <1>6, <2>1 DEF UseTypeOK, UsesProvider
  <2>5. Bound'
    BY <1>3, <2>1, <2>2 DEF Bound
  <2>. QED BY <2>3, <2>4, <2>5
<1>. QED BY <1>2, <1>7, <1>8, <1>9, <1>10, <1>11 DEF Use, UInv

LEMMA UNext == UInv /\ [UseNext]_useVars => UInv'
<1>. SUFFICES ASSUME UInv, [UseNext]_useVars PROVE UInv'
  OBVIOUS
<1>1. CASE UNCHANGED useVars
  <2>1. IInv'
    BY <1>1, InvNext DEF UInv, useVars
  <2>. QED BY <1>1, <2>1 DEF useVars, client, UInv, UseTypeOK, UsesProvider, Bound
<1>. QED BY <1>1, InitKeeps, UseKeeps DEF UseNext

LEMMA UInvariance == UseSpec => []UInv
BY UInit, UNext, PTL DEF UseSpec
-----------------------------------------------------------------------------
(* The variables of the client keep their types.                           *)
THEOREM UseTypeCorrect == UseSpec => []UseTypeOK
<1>1. UInv => UseTypeOK
  BY DEF UInv
<1>. QED BY <1>1, UInvariance, PTL

(* No metric and no span of the client is recorded into a no-op provider.  *)
THEOREM AlwaysRecords == UseSpec => []NeverNoop
<1>1. UInv => NeverNoop
  <2>1. ASSUME UInv, NEW m \in measured PROVE m[2] # None
    BY <2>1 DEF UInv, UseTypeOK, Bound
  <2>. QED BY <2>1 DEF UInv, Bound, NeverNoop
<1>. QED BY <1>1, UInvariance, PTL

(* The measurements of a metric all go to one provider.                    *)
THEOREM StreamsAreWhole == UseSpec => []OneStreamPerName
<1>1. UInv => OneStreamPerName
  <2>. SUFFICES ASSUME UInv, NEW m \in measured, NEW o \in measured, m[1] = o[1]
       PROVE  m[2] = o[2]
    BY DEF OneStreamPerName
  <2>1. m[1] \in Names /\ m[2] \in hist[m[1]] /\ o[2] \in hist[m[1]]
    BY DEF UInv, UseTypeOK, Bound
  <2>. QED BY <2>1 DEF UInv, Bound
<1>. QED BY <1>1, UInvariance, PTL
-----------------------------------------------------------------------------
(* Every redactor masks, in whatever mode and with whatever patterns.      *)
LEMMA AllMask == ASSUME NEW r \in Redactors PROVE r \in Masking
<1>. SUFFICES ASSUME NEW value \in Values
     PROVE  /\ RedactAttribute(TRUE, value, r) # "raw"
            /\ /\ r.mode # "off" /\ value.string
               /\ value.shapes \cap {"bearer", "pii"} # {}
               => RedactAttribute(FALSE, value, r) # "raw"
            /\ \A sensitive \in BOOLEAN :
                 RedactAttribute(sensitive, value, r) # "raw"
                 => FmtField(sensitive, value, r) # "raw"
  BY DEF Masking
<1>1. RedactAttribute(TRUE, value, r) # "raw"
  BY DEF RedactAttribute, RedactForKey
<1>2. ASSUME r.mode # "off", value.string,
             value.shapes \cap {"bearer", "pii"} # {}
      PROVE  RedactAttribute(FALSE, value, r) # "raw"
  BY <1>2 DEF RedactAttribute, RedactForKey, MaskValue
<1>3. ASSUME NEW sensitive \in BOOLEAN, RedactAttribute(sensitive, value, r) # "raw"
      PROVE  FmtField(sensitive, value, r) # "raw"
  BY <1>3 DEF RedactAttribute, FmtField, RedactForKey
<1>. QED BY <1>1, <1>2, <1>3

(* The spans of the wrapped pipelines are masked from the first one on.    *)
THEOREM PipelinesMask == UseSpec => []PipelineMasks
<1>1. UInv => PipelineMasks
  <2>. SUFFICES ASSUME UInv, Sink.tracer # None, Wrapped(Sink.tracer),
                       NEW pii \in PiiModeVars
       PROVE  /\ Redactor(pii) \in Masking
              /\ Redactor(pii).mode = ModeFromEnv(pii)
    BY DEF PipelineMasks
  <2>1. /\ subscriber \in Calls /\ entryOf[subscriber] # "client_init"
        /\ Sink = slot[subscriber]
    BY DEF UInv, IInv, TypeOK, Sink, NoLayer, None, Maybe, Calls
  <2>2. cell["tracer"] # None
    BY <2>1 DEF UInv, IInv, LayerInv, LayersDrawnFromCells, DrawnFromCells
  <2>3. redactor.set
    BY <2>2 DEF UInv, IInv, RedactorInv, RedactorFirst, Signals
  <2>4. Redactor(pii) \in Redactors /\ Redactor(pii).mode = ModeFromEnv(pii)
    BY <2>3 DEF Redactor, Redactors, ModeFromEnv, RedactionModes
  <2>. QED BY <2>4, AllMask
<1>. QED BY <1>1, UInvariance, PTL
-----------------------------------------------------------------------------
USE EntriesAssumption, ModesAssumption, PatternsAssumption

-----------------------------------------------------------------------------
(* The client's calls leave the initialisation alone.                      *)
LEMMA UseIsInit == UseSpec => Spec
<1>1. UseInit => Init
  BY DEF UseInit
<1>2. [UseNext]_useVars => [Next]_vars
  <2>1. ASSUME NEW u \in Users, Use(u) PROVE UNCHANGED vars
    BY <2>1 DEF Use, MetricStart, MetricRecord, SpanStart, SpanBuild, SetTraceId
  <2>2. ASSUME NEW t \in Threads, InitStep(t) PROVE Next
    BY <2>2 DEF InitStep, Next
  <2>. QED BY <2>1, <2>2 DEF UseNext, useVars
<1>. QED BY <1>1, <1>2, PTL DEF UseSpec, Spec
-----------------------------------------------------------------------------
(* The strengthening for the upgrade: without a subscriber of client::init *)
(* the handle and the global subscriber only differ between the two steps  *)
(* that set them; nothing is installed twice; and once the guard is closed *)
(* the cells do not change any more.                                       *)
Between(t) == pc[t] = "tryinit"

Settled(t) ==
  /\ ~Between(t) => subscriber = handle
  /\ pc[t] \notin {"tryinit", "guard", "inited"} =>
       (handle # None \/ guard # None => inited)
  /\ pc[t] \in {"propagate", "build", "store", "layer", "reload", "publish"} =>
       IF Exports(job[t]) THEN guard = None ELSE ~inited
  /\ pc[t] = "reload" => job[t].layer = OtelLayer
  /\ pc[t] = "publish" => handle = None /\ guard = None /\ job[t].layer = OtelLayer
  /\ Between(t) => /\ subscriber = None /\ handle = job[t].id /\ guard = None
                   /\ slot[handle] = OtelLayer
  /\ pc[t] = "guard" => guard = None /\ slot[handle] = OtelLayer
  /\ ~Between(t) /\ guard # None => handle # None /\ slot[handle] = OtelLayer

NoClient == \A c \in Calls : entryOf[c] # "client_init"

SettledInv == NoClient => \A t \in Threads : Settled(t)

LEMMA SettledInit == Init => SettledInv
BY DEF Init, SettledInv, Settled, Between, None

(* client::init is not undone: a state without one came from such a state, *)
(* and its threads run calls of init.rs only.                              *)
LEMMA NoClientBefore ==
  ASSUME IInv, NEW t \in Threads, Step(t), NoClient'
  PROVE  NoClient /\ (pc[t] # "idle" => job[t].entry # "client_init")
                  /\ pc'[t] # "client"
<1>0. TypeOK /\ Shape /\ TypeOK' /\ Shape'
  <2>1. IInv'
    BY InvNext DEF Next
  <2>. QED BY <2>1 DEF IInv
<1>1. CASE MakeCall(t)
  <2>1. /\ entryOf' = [entryOf EXCEPT ![started + 1] = job'[t].entry]
        /\ entryOf[started + 1] = "none" /\ started + 1 \in Calls /\ pc[t] = "idle"
        /\ job'[t].entry # "client_init"
    BY <1>0, <1>1, BeginEffect DEF Shape, TypeOK, NoClient, Maybe
  <2>2. NoClient
    BY <1>0, <2>1 DEF NoClient, TypeOK
  <2>3. pc'[t] # "client"
    BY <1>0, <1>1, BeginEffect
  <2>. QED BY <2>1, <2>2, <2>3
<1>2. CASE Moves(t)
  <2>1. entryOf' = entryOf /\ pc[t] # "idle" /\ job'[t].entry = job[t].entry
    BY <1>2 DEF Moves, history
  <2>2. NoClient
    BY <2>1 DEF NoClient
  <2>3. job[t].id \in Calls /\ entryOf[job[t].id] = job[t].entry
    BY <1>0, <2>1 DEF TypeOK, Job, Maybe, Calls, None, Shape, NameOf
  <2>4. job[t].entry # "client_init"
    BY <2>2, <2>3 DEF NoClient
  <2>5. pc'[t] # "client"
    BY <1>0, <2>1, <2>4 DEF Shape, KindOf
  <2>. QED BY <2>1, <2>2, <2>4, <2>5
<1>. QED BY <1>0, <1>1, <1>2, StepCases

LEMMA SettledStep ==
  ASSUME IInv, NEW t \in Threads, Settled(t), Step(t),
         pc[t] # "idle" => job[t].entry # "client_init", pc'[t] # "client"
  PROVE  Settled(t)'
<1>0. /\ TypeOK /\ job[t] \in Job /\ KindOf(t)
      /\ pc[t] = "guard" => handle # None
      /\ pc[t] \in {"layer", "reload", "publish", "tryinit"} /\ Exports(job[t])
         => cell["tracer"] # None
      /\ handle \in Maybe /\ guard \in Maybe
      /\ pc[t] # "idle" => job[t].id \in Calls /\ job[t].id # None
  BY DEF IInv, GuardInv, TypeOK, Shape, Job, Maybe, Calls, None
<1>1. CASE MakeCall(t)
  <2>1. /\ pc[t] = "idle" /\ pc'[t] \in {"resolve", "redact", "check", "shutdown"}
        /\ UNCHANGED <<handle, guard, subscriber, slot, cell, inited>>
    BY <1>0, <1>1, BeginEffect DEF statics, outside
  <2>. QED BY <2>1 DEF Settled, Between, OtelLayer
<1>2. CASE Resolve(t) \/ InitRedactor(t) \/ BuildFails(t) \/ ShutdownSignal(t)
  <2>1. /\ pc[t] \in {"resolve", "redact", "build", "shutdown"}
        /\ pc'[t] \in {"redact", "check", "idle", "shutdown"}
        /\ UNCHANGED <<handle, guard, subscriber, slot, cell, inited>>
    BY <1>0, <1>2 DEF Resolve, InitRedactor, BuildFails, ShutdownSignal, Goto, Return,
       TypeOK, statics, outside
  <2>. QED BY <2>1 DEF Settled, Between, OtelLayer
<1>3. CASE Check(t)
  <2>1. /\ pc[t] = "check"
        /\ UNCHANGED <<handle, guard, subscriber, slot, cell, inited>>
        /\ job'[t].entry = job[t].entry /\ job'[t].mode = job[t].mode
        /\ job[t].entry # "client_init"
    BY <1>0, <1>3 DEF Check, statics, outside, TypeOK, Job
  <2>2. \/ pc'[t] \in {"idle", "inited"}
        \/ ~AlreadyDone(job[t]) /\ pc'[t] \in {"build", "layer", "propagate"}
    BY <1>0, <1>3 DEF Check, Goto, Return, TypeOK
  <2>. QED BY <2>1, <2>2 DEF Settled, Between, OtelLayer, AlreadyDone, Exports
<1>4. CASE Propagate(t)
  <2>1. /\ pc[t] = "propagate" /\ pc'[t] \in {"idle", "build", "layer"}
        /\ UNCHANGED <<handle, guard, subscriber, slot, cell, inited, job>>
    BY <1>0, <1>4 DEF Propagate, Goto, Return, TypeOK, statics
  <2>. QED BY <2>1 DEF Settled, Between, OtelLayer
<1>5. CASE Build(t)
  <2>1. /\ pc[t] = "build" /\ pc'[t] = "store"
        /\ UNCHANGED <<handle, guard, subscriber, slot, cell, inited, job>>
    BY <1>0, <1>5 DEF Build, Goto, TypeOK, statics
  <2>. QED BY <2>1 DEF Settled, Between, OtelLayer
<1>6. CASE Store(t)
  <2>1. /\ pc[t] = "store" /\ pc'[t] \in {"build", "layer"}
        /\ UNCHANGED <<handle, guard, subscriber, slot, inited>>
        /\ job'[t].entry = job[t].entry /\ job'[t].mode = job[t].mode
    BY <1>0, <1>6 DEF Store, Goto, TypeOK, Job, outside
  <2>2. guard = None
    BY <2>1 DEF Settled
  <2>. QED BY <2>1, <2>2 DEF Settled, Between, Exports
<1>7. CASE BuildLayer(t)
  <2>1. /\ pc[t] = "layer" /\ job[t].entry # "client_init"
        /\ pc'[t] = IF Exports(job[t]) THEN "reload" ELSE "publish"
        /\ UNCHANGED <<handle, guard, subscriber, slot, cell, inited>>
        /\ job'[t].entry = job[t].entry /\ job'[t].mode = job[t].mode
        /\ job'[t].layer = OtelLayer
    BY <1>0, <1>7 DEF BuildLayer, Goto, TypeOK, Job, statics, Exports, OtelLayer
  <2>. QED BY <2>1 DEF Settled, Between, Exports, OtelLayer
<1>8. CASE Reload(t)
  <2>1. /\ pc[t] = "reload" /\ job' = job /\ Exports(job[t])
        /\ UNCHANGED <<handle, guard, subscriber, cell, inited>>
        /\ guard = None /\ subscriber = handle /\ job[t].layer = OtelLayer
    BY <1>0, <1>8 DEF Reload, KindOf, Settled, Between, statics
  <2>2. CASE handle # None
    <3>1. pc'[t] = "guard" /\ slot' = [slot EXCEPT ![handle] = job[t].layer]
      BY <1>0, <1>8, <2>1, <2>2 DEF Reload, SlotAlive, Goto, TypeOK
    <3>2. slot'[handle] = OtelLayer
      BY <1>0, <2>1, <2>2, <3>1 DEF TypeOK, Maybe, Calls, None
    <3>. QED BY <2>1, <2>2, <3>1, <3>2 DEF Settled, Between, OtelLayer
  <2>3. CASE handle = None
    <3>1. pc'[t] = "publish" /\ slot' = slot
      BY <1>0, <1>8, <2>3 DEF Reload, Goto, TypeOK
    <3>. QED BY <2>1, <2>3, <3>1 DEF Settled, Between, OtelLayer
  <2>. QED BY <2>2, <2>3
<1>9. CASE PublishHandle(t)
  <2>1. /\ pc[t] = "publish" /\ pc'[t] = "tryinit" /\ job' = job
        /\ handle = None /\ guard = None /\ job[t].layer = OtelLayer
        /\ subscriber = handle /\ handle' = job[t].id
        /\ slot' = [slot EXCEPT ![job[t].id] = job[t].layer]
        /\ UNCHANGED <<guard, subscriber, cell, inited>>
    BY <1>0, <1>9 DEF PublishHandle, Settled, Between, FirstWins, Goto, TypeOK
  <2>2. slot'[handle'] = OtelLayer
    BY <1>0, <2>1 DEF TypeOK
  <2>. QED BY <2>1, <2>2 DEF Settled, Between, OtelLayer
<1>10. CASE TryInit(t)
  <2>1. /\ pc[t] = "tryinit" /\ pc'[t] \in {"guard", "inited"}
        /\ subscriber = None /\ subscriber' = job[t].id /\ handle = job[t].id
        /\ guard = None /\ slot[handle] = OtelLayer
        /\ UNCHANGED <<handle, guard, slot, cell, inited>>
    BY <1>0, <1>10 DEF TryInit, Settled, Between, FirstWins, Goto, TypeOK, statics
  <2>. QED BY <2>1 DEF Settled, Between, OtelLayer
<1>11. CASE SetGuard(t)
  <2>1. /\ pc[t] = "guard" /\ pc'[t] = "inited" /\ handle # None
        /\ subscriber = handle /\ slot[handle] = OtelLayer
        /\ UNCHANGED <<handle, subscriber, slot, cell, inited>>
    BY <1>0, <1>11 DEF SetGuard, Settled, Between, Goto, TypeOK, outside
  <2>. QED BY <2>1 DEF Settled, Between, OtelLayer
<1>12. CASE SetInited(t)
  <2>1. /\ pc[t] = "inited" /\ pc'[t] = "idle" /\ inited' = TRUE
        /\ UNCHANGED <<handle, guard, subscriber, slot, cell>>
    BY <1>0, <1>12 DEF SetInited, Return, Goto, TypeOK, outside
  <2>. QED BY <2>1 DEF Settled, Between, OtelLayer
<1>13. CASE SetClientState(t)
  BY <1>0, <1>13 DEF SetClientState, KindOf
<1>. QED
  BY <1>1, <1>2, <1>3, <1>4, <1>5, <1>6, <1>7, <1>8, <1>9, <1>10, <1>11, <1>12,
     <1>13 DEF Step

(* With sequential calls the handle reaches the global subscriber once an  *)
(* export config was installed, and its layer carries all that is stored.  *)
THEOREM UpgradeAlwaysVisible ==
  ASSUME Sequential
  PROVE  UseSpec => []UpgradeIsVisible
<1>1. IInv /\ SettledInv /\ [Next]_vars => SettledInv'
  <2>. SUFFICES ASSUME IInv, SettledInv, [Next]_vars, NoClient', NEW t \in Threads
       PROVE  Settled(t)'
    BY DEF SettledInv
  <2>1. CASE UNCHANGED vars
    BY <2>1 DEF vars, history, threads, statics, outside, NoClient, SettledInv,
       Settled, Between, Exports, OtelLayer
  <2>2. CASE Step(t)
    BY <2>2, NoClientBefore, SettledStep DEF SettledInv
  <2>. QED BY <2>1, <2>2 DEF Next, Sequential
<1>2. IInv /\ SettledInv => UpgradeIsVisible
  <2>. SUFFICES ASSUME IInv, SettledInv, Quiescent, guard # None, NoClient
       PROVE  subscriber = handle /\ Sink = OtelLayer
    BY DEF UpgradeIsVisible, NoClient
  <2>1. \E t \in Threads : TRUE
    BY DEF Sequential
  <2>2. PICK t \in Threads : pc[t] = "idle" /\ Settled(t)
    BY <2>1 DEF Quiescent, SettledInv
  <2>3. subscriber = handle /\ handle # None /\ slot[handle] = OtelLayer
    BY <2>2 DEF Settled, Between
  <2>4. entryOf[subscriber] # "client_init"
    BY <2>3 DEF IInv, TypeOK, NoClient, Maybe, Calls, None
  <2>. QED BY <2>3, <2>4 DEF Sink
<1>. QED BY <1>1, <1>2, SettledInit, Invariance, UseIsInit, PTL DEF Spec
-----------------------------------------------------------------------------
(* The strengthening for the patterns: a redactor that is set has an       *)
(* initialising call behind it, an earlier one while a call is on its way  *)
(* to set it; and the patterns of such a call are in the environment.      *)
BeforeRedactor(t) == pc[t] \in {"resolve", "redact"}

Frozen(t) ==
  /\ redactor.set => \E d \in Calls :
       /\ entryOf[d] \in InitCalls /\ d <= started
       /\ BeforeRedactor(t) => d < job[t].id
  /\ BeforeRedactor(t) /\ job[t].patterns => piiPatterns = job[t].id
  /\ ~BeforeRedactor(t) /\ job[t].patterns /\ outcome[job[t].id] # "err"
     /\ (\A d \in Calls : entryOf[d] \in InitCalls => d >= job[t].id)
     => redactor.patterns = job[t].id

(* What the steps between the begin of a call and its end leave alone.     *)
LEMMA StepPatterns ==
  ASSUME TypeOK, NEW t \in Threads, KindOf(t), Step(t), Moves(t), ~InitRedactor(t),
         job[t].id \in Calls, outcome[job[t].id] = "none"
  PROVE  /\ redactor' = redactor /\ job'[t].patterns = job[t].patterns
         /\ BeforeRedactor(t)' => BeforeRedactor(t)
         /\ BeforeRedactor(t) /\ ~BeforeRedactor(t)' => outcome'[job[t].id] = "err"
<1>0. job[t] \in Job /\ pc[t] # "idle"
  BY DEF TypeOK, Moves
<1>1. CASE Resolve(t)
  BY <1>1 DEF Resolve, Goto, Return, TypeOK, BeforeRedactor, statics
<1>2. CASE Check(t)
  BY <1>0, <1>2 DEF Check, Goto, Return, TypeOK, Job, BeforeRedactor, statics
<1>3. CASE Propagate(t) \/ Build(t) \/ BuildFails(t)
  BY <1>3 DEF Propagate, Build, BuildFails, Goto, Return, TypeOK, BeforeRedactor, statics
<1>4. CASE Store(t)
  BY <1>0, <1>4 DEF Store, Goto, TypeOK, Job, BeforeRedactor
<1>5. CASE BuildLayer(t)
  BY <1>0, <1>5 DEF BuildLayer, Goto, TypeOK, Job, BeforeRedactor, statics
<1>6. CASE Reload(t) \/ PublishHandle(t) \/ TryInit(t)
  BY <1>6 DEF Reload, PublishHandle, TryInit, Goto, TypeOK, BeforeRedactor, statics
<1>7. CASE SetGuard(t) \/ SetInited(t) \/ SetClientState(t)
  BY <1>7 DEF SetGuard, SetInited, SetClientState, Goto, Return, TypeOK, BeforeRedactor
<1>8. CASE ShutdownSignal(t)
  BY <1>0, <1>8 DEF ShutdownSignal, Return, Goto, TypeOK, Job, BeforeRedactor, statics
<1>9. ~MakeCall(t)
  BY <1>0, BeginEffect
<1>. QED BY <1>1, <1>2, <1>3, <1>4, <1>5, <1>6, <1>7, <1>8, <1>9 DEF Step

LEMMA FrozenStep ==
  ASSUME IInv, NEW t \in Threads, Frozen(t), Step(t)
  PROVE  Frozen(t)'
<1>0. /\ TypeOK /\ KindOf(t) /\ NameOf(t) /\ job[t] \in Job
      /\ pc[t] # "idle" => job[t].id \in Calls /\ job[t].id # None
      /\ job[t].id <= started /\ started \in Nat /\ Calls \subseteq Nat
  BY DEF IInv, TypeOK, Shape, NameOf, Job, Maybe, Calls, None
<1>1. CASE MakeCall(t)
  <2>1. /\ started' = started + 1 /\ started + 1 \in Calls
        /\ entryOf' = [entryOf EXCEPT ![started + 1] = job'[t].entry]
        /\ entryOf[started + 1] = "none" /\ job'[t].id = started + 1
        /\ redactor' = redactor
    BY <1>1, <1>0, BeginEffect DEF IInv, Shape, statics
  <2>2. /\ job'[t].patterns => pc'[t] = "resolve" /\ piiPatterns' = started + 1
    BY <1>1, <1>0 DEF MakeCall, BeginInitTelemetry, BeginFromConfig,
       BeginFromProvider, BeginClientInit, BeginShutdown, Begin, NewJob, Goto, TypeOK
  <2>3. ASSUME redactor.set
        PROVE  \E d \in Calls : entryOf'[d] \in InitCalls /\ d <= started
    <3>1. PICK d \in Calls : entryOf[d] \in InitCalls /\ d <= started
      BY <2>3 DEF Frozen
    <3>2. entryOf'[d] = entryOf[d]
      BY <1>0, <2>1, <3>1 DEF TypeOK
    <3>. QED BY <3>1, <3>2
  <2>. QED BY <1>0, <2>1, <2>2, <2>3 DEF Frozen, BeforeRedactor
<1>2. CASE InitRedactor(t)
  <2>1. /\ pc[t] = "redact" /\ pc'[t] = "check"
        /\ UNCHANGED <<started, entryOf, job, outcome, piiPatterns>>
        /\ entryOf[job[t].id] \in InitCalls
        /\ redactor' = IF redactor.set THEN redactor
                       ELSE [set |-> TRUE, patterns |-> piiPatterns]
    BY <1>0, <1>2 DEF InitRedactor, Goto, KindOf, NameOf, TypeOK, history
  <2>2. CASE redactor.set
    <3>1. PICK d \in Calls : entryOf[d] \in InitCalls /\ d <= started /\ d < job[t].id
      BY <2>1, <2>2 DEF Frozen, BeforeRedactor
    <3>2. ~(d >= job[t].id)
      BY <1>0, <2>1, <3>1
    <3>. QED BY <2>1, <2>2, <3>1, <3>2 DEF Frozen, BeforeRedactor
  <2>3. CASE ~redactor.set
    BY <1>0, <2>1, <2>3 DEF Frozen, BeforeRedactor
  <2>. QED BY <2>2, <2>3
<1>3. CASE Moves(t) /\ ~InitRedactor(t)
  <2>0. job[t].id \in Calls /\ outcome[job[t].id] = "none"
    BY <1>0, <1>3 DEF Moves, NameOf
  <2>1. /\ UNCHANGED <<started, entryOf, piiPatterns, redactor>>
        /\ job'[t].id = job[t].id /\ job'[t].patterns = job[t].patterns
    BY <1>0, <1>3, <2>0, StepPatterns DEF Moves, history
  <2>2. /\ BeforeRedactor(t)' => BeforeRedactor(t)
        /\ BeforeRedactor(t) /\ ~BeforeRedactor(t)' => outcome'[job[t].id] = "err"
        /\ outcome'[job[t].id] # "err" => outcome[job[t].id] # "err"
    BY <1>0, <1>3, <2>0, StepPatterns
  <2>. QED BY <2>1, <2>2 DEF Frozen, BeforeRedactor
<1>. QED BY <1>0, <1>1, <1>2, <1>3, StepCases

(* With sequential calls, the patterns of the first initialising call are  *)
(* the ones in force.                                                      *)
THEOREM FirstPatternsAlwaysApply ==
  ASSUME Sequential
  PROVE  UseSpec => []FirstPatternsApply
<1>1. Init => \A t \in Threads : Frozen(t)
  <2>. SUFFICES ASSUME Init, NEW t \in Threads PROVE Frozen(t)
    OBVIOUS
  <2>1. /\ pc[t] = "idle" /\ job[t] = NoJob /\ NoJob.patterns = FALSE
        /\ redactor = [set |-> FALSE, patterns |-> None]
    BY DEF Init, NoJob
  <2>. QED BY <2>1 DEF Frozen, BeforeRedactor
<1>2. IInv /\ (\A t \in Threads : Frozen(t)) /\ [Next]_vars
      => (\A t \in Threads : Frozen(t))'
  <2>. SUFFICES ASSUME IInv, [Next]_vars, NEW t \in Threads, Frozen(t)
       PROVE  Frozen(t)'
    OBVIOUS
  <2>1. CASE UNCHANGED vars
    BY <2>1 DEF vars, history, threads, statics, Frozen, BeforeRedactor
  <2>2. CASE Step(t)
    BY <2>2, FrozenStep
  <2>. QED BY <2>1, <2>2 DEF Next, Sequential
<1>3. (\A t \in Threads : Frozen(t)) => FirstPatternsApply
  BY DEF Frozen, BeforeRedactor, FirstPatternsApply
<1>. QED BY <1>1, <1>2, <1>3, Invariance, UseIsInit, PTL DEF Spec
=============================================================================

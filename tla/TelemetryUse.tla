----------------------------- MODULE TelemetryUse -----------------------------
(***************************************************************************)
(* The telemetry in use while it is initialised: threads record metrics    *)
(* and spans through client.rs, and spans and logs leave through whatever  *)
(* the subscriber of init.rs exports to, redacted or not.                  *)
(***************************************************************************)
EXTENDS TelemetryInit, Redaction

CONSTANTS
  Users,     \* threads that call client::metric, client::span, set_trace_id
  Names,     \* metric names
  TraceIds,  \* valid trace ids
  MaxUses,   \* bound on the calls of the client
  NoTrace    \* no trace id is pinned

ASSUME MaxUsesAssumption == MaxUses \in Nat

VARIABLES
  modeOf,    \* [Calls -> the export mode of the call], a history
  traceId,   \* TRACE_ID
  hist,      \* HISTOGRAMS: [Names -> {} or {the provider it records to}]
  use,       \* [Users -> the client call in progress]
  uses,      \* number of client calls begun
  measured,  \* the <<name, provider>> of the measurements made, a history
  traced     \* the <<provider, trace id>> of the spans built, a history

client  == <<traceId, hist, use, uses, measured, traced>>
useVars == <<vars, modeOf, client>>

Idle == [at |-> "idle", name |-> NoTrace, provider |-> None]

UseInit ==
  /\ Init
  /\ modeOf = [c \in Calls |-> "none"]
  /\ traceId = NoTrace
  /\ hist = [n \in Names |-> {}]
  /\ use = [u \in Users |-> Idle]
  /\ uses = 0 /\ measured = {} /\ traced = {}

(* A step of the initialisation, by the threads of TelemetryInit.          *)
InitStep(t) ==
  /\ Step(t)
  /\ modeOf' = IF started' = started THEN modeOf
               ELSE [modeOf EXCEPT ![started'] = job'[t].mode]
  /\ UNCHANGED client
-----------------------------------------------------------------------------
(* User u makes a call of the client, with u's part of the call in next.   *)
BeginUse(u, next) ==
  /\ use[u].at = "idle" /\ uses < MaxUses
  /\ uses' = uses + 1
  /\ use' = [use EXCEPT ![u] = next]

(* Bug: metric() only drops when the client is in JsonOnly mode.           *)
BugMetricUnchecked(u, n) ==
  /\ clientState # "json"
  /\ BeginUse(u, [at |-> "record", name |-> n, provider |-> global["meter"]])
  /\ UNCHANGED <<vars, modeOf, traceId, hist, measured, traced>>

(* client::metric: the global meter is read before HISTOGRAMS is locked.   *)
(* Without CLIENT_STATE the value is dropped; in JsonOnly it is an event.  *)
MetricStart(u, n) ==
  /\ clientState = "otel"
  /\ BeginUse(u, [at |-> "record", name |-> n, provider |-> global["meter"]])
  /\ UNCHANGED <<vars, modeOf, traceId, hist, measured, traced>>

(* Bug: insert in place of or_insert_with.                                 *)
BugReplaceHistogram(u) ==
  /\ use[u].at = "record"
  /\ hist' = [hist EXCEPT ![use[u].name] = {use[u].provider}]
  /\ measured' = measured \cup {<<use[u].name, use[u].provider>>}
  /\ use' = [use EXCEPT ![u] = Idle]
  /\ UNCHANGED <<vars, modeOf, traceId, uses, traced>>

(* entry(name).or_insert_with(..) and record, under the lock.              *)
MetricRecord(u) ==
  /\ use[u].at = "record"
  /\ LET n     == use[u].name
         bound == IF hist[n] = {} THEN {use[u].provider} ELSE hist[n]
     IN
     /\ hist' = [hist EXCEPT ![n] = bound]
     /\ measured' = measured \cup ({n} \X bound)
  /\ use' = [use EXCEPT ![u] = Idle]
  /\ UNCHANGED <<vars, modeOf, traceId, uses, traced>>

(* client::span: the tracer is never cached; the trace id is read last.    *)
SpanStart(u) ==
  /\ clientState = "otel"
  /\ BeginUse(u, [at |-> "build", name |-> NoTrace, provider |-> global["tracer"]])
  /\ UNCHANGED <<vars, modeOf, traceId, hist, measured, traced>>

SpanBuild(u) ==
  /\ use[u].at = "build"
  /\ traced' = traced \cup {<<use[u].provider, traceId>>}
  /\ use' = [use EXCEPT ![u] = Idle]
  /\ UNCHANGED <<vars, modeOf, traceId, hist, uses, measured>>

(* Bug: the id is pinned as it came.                                       *)
BugInvalidPinned(u, id) ==
  /\ BeginUse(u, Idle)
  /\ traceId' = id
  /\ UNCHANGED <<vars, modeOf, hist, measured, traced>>

(* An id that is not hexadecimal unpins the one before.                    *)
SetTraceId(u, id) ==
  /\ BeginUse(u, Idle)
  /\ traceId' = IF id \in TraceIds THEN id ELSE NoTrace
  /\ UNCHANGED <<vars, modeOf, hist, measured, traced>>

Use(u) ==
  \/ \E n \in Names : MetricStart(u, n)
  \/ MetricRecord(u) \/ SpanStart(u) \/ SpanBuild(u)
  \/ \E id \in TraceIds \cup {"garbage"} : SetTraceId(u, id)

UseNext == (\E t \in Threads : InitStep(t)) \/ (\E u \in Users : Use(u))

UseSpec == UseInit /\ [][UseNext]_useVars
-----------------------------------------------------------------------------
(* What leaves the process.                                                *)

(* pii is what PII_REDACTION_MODE was when the process started.            *)
Redactor(pii) ==
  IF redactor.set
  THEN [mode |-> ModeFromEnv(pii), patterns |-> redactor.patterns # None]
  ELSE DefaultRedactor

(* install_gcp and client::init export with the bare exporter.             *)
Wrapped(c) == modeOf[c] # "gcp" /\ entryOf[c] # "client_init"

(* A span attribute behind the OTel layer of the subscriber.               *)
SpanOut(pii, sensitive, value) ==
  IF Wrapped(Sink.tracer) THEN RedactAttribute(sensitive, value, Redactor(pii))
  ELSE "raw"

(* The log bridge feeds a LogExporter that nothing wraps.                  *)
LogOut(pii, sensitive, value) == "raw"
-----------------------------------------------------------------------------
(* The types of the variables this module adds.                            *)
UseTypeOK ==
  /\ modeOf \in [Calls -> ExportModes \cup {"none"}]
  /\ traceId \in TraceIds \cup {NoTrace}
  /\ hist \in [Names -> SUBSET Maybe]
  /\ use \in [Users -> [at : {"idle", "record", "build"},
                        name : Names \cup {NoTrace}, provider : Maybe]]
  /\ \A u \in Users : use[u].at = "record" => use[u].name \in Names
  /\ uses \in 0 .. MaxUses /\ measured \subseteq Names \X Maybe
  /\ traced \subseteq Maybe \X (TraceIds \cup {NoTrace})

(* The measurements of one name all reach the same provider, although the  *)
(* global meter changes under the client and is read outside the lock: a   *)
(* metric is never split into two streams.                                 *)
OneStreamPerName ==
  \A m, o \in measured : m[1] = o[1] => m[2] = o[2]

(* The client never records a metric or a span into a no-op provider.      *)
NeverNoop ==
  /\ \A m \in measured : m[2] # None
  /\ \A s \in traced : s[1] # None

(* With calls one after the other, the redaction patterns of a provider    *)
(* config are in force if no call before it initialised the redactor: they *)
(* reach the environment before the redactor freezes it.                   *)
FirstPatternsApply ==
  \A t \in Threads :
    /\ pc[t] \notin {"resolve", "redact"} /\ job[t].patterns
    /\ outcome[job[t].id] # "err"
    /\ \A d \in Calls : entryOf[d] \in InitCalls => d >= job[t].id
    => redactor.patterns = job[t].id

(* The wrapped span pipelines of init.rs mask from the first span they     *)
(* export, whatever the order of the calls: the redactor they read lazily  *)
(* is in the mode the environment asks for, and one that masks every       *)
(* sensitive key, what the heuristics catch, and nothing the redacting fmt *)
(* layer beside them lets through.                                         *)
PipelineMasks ==
  Sink.tracer # None /\ Wrapped(Sink.tracer) =>
    \A pii \in PiiModeVars :
      /\ Redactor(pii) \in Masking
      /\ Redactor(pii).mode = ModeFromEnv(pii)

(* README.md:85: "Redaction is global for logs and OTLP export": any field *)
(* with a sensitive name is masked in whatever is exported.                *)
RedactionIsGlobal ==
  \A pii \in PiiModeVars, value \in Values :
    /\ Sink.tracer # None => SpanOut(pii, TRUE, value) # "raw"
    /\ Sink.logger # None => LogOut(pii, TRUE, value) # "raw"
=============================================================================

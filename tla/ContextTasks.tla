---------------------------- MODULE ContextTasks ----------------------------
(***************************************************************************)
(* How a TelemetryCtx gets from the task that sets it to the spans:        *)
(* context.rs, tasklocal.rs and layer.rs.  Tasks open nested scopes of the *)
(* task-local slot, set it, create spans and enter each other's spans; the *)
(* ContextLayer stores a context in the span's extensions at creation, and *)
(* again at every enter, where it reads the extensions under one lock and  *)
(* writes them under another.  A producer of spans annotates a span right  *)
(* after creating it, as the comment of annotate_span asks, with contexts  *)
(* of its choice, with the task's, with both, or not at all.               *)
(***************************************************************************)
EXTENDS Naturals, Sequences, SequencesExt, FiniteSets

CONSTANTS
  Tasks,      \* Tokio tasks
  Spans,      \* spans
  NoSpan,     \* none of them
  Contexts,   \* the contexts the application sets
  Handed,     \* those of them that producers hand to annotate_span
  Values,     \* values of their fields
  Unset,      \* the value of a field that is None
  MaxScopes   \* bound on nested with_task_local scopes of a task

Fields == {"tenant", "team", "session", "flow", "node", "provider", "env",
           "customer_id", "deployment_id", "bundle_id", "revision_id",
           "pack_id", "env_pack_kind", "generation", "messaging_endpoint_id"}

(* tenant is a String, the others are Options.                             *)
TelemetryCtx == {c \in [Fields -> Values \cup {Unset}] : c["tenant"] \in Values}

ASSUME UnsetAssumption    == Unset \notin Values
ASSUME ContextsAssumption ==
  /\ IsFiniteSet(Contexts) /\ Handed \subseteq Contexts
  /\ \A c \in Contexts : c \in [Fields -> Values \cup {Unset}] /\ c["tenant"] \in Values
ASSUME NoSpanAssumption   == NoSpan \notin Spans
ASSUME ScopesAssumption   == MaxScopes \in Nat

NoCtx == [f \in Fields |-> Unset]     \* None, where a context may be missing
MaybeCtx == Contexts \cup {NoCtx}

VARIABLES
  scope,    \* [Tasks -> its open GT_TELEMETRY_CTX slots, the innermost last]
  ext,      \* [Spans -> the context in the span's extensions]
  attrs,    \* [Spans -> the OpenTelemetry attributes set on the span]
  origin,   \* [Spans -> history: the creator's context, NoCtx before]
  given,    \* [Spans -> history: the contexts annotate_span was handed]
  created,  \* the spans that exist
  series,   \* history: the label sets metrics were recorded with
  pc,       \* [Tasks -> "idle", "created" (a span), "record" (in on_enter)]
  target,   \* [Tasks -> the span it creates or enters, or NoSpan]
  seen      \* [Tasks -> the context on_enter looked up]

vars == <<scope, ext, attrs, origin, given, created, series, pc, target, seen>>
-----------------------------------------------------------------------------
New(tenant) == [NoCtx EXCEPT !["tenant"] = tenant]

With(ctx, field, value) == [ctx EXCEPT ![field] = value]

Present(ctx, fields) == {<<f, ctx[f]>> : f \in {g \in fields : ctx[g] # Unset}}

(* Bug: fields that are None are exported too.                             *)
BugKv(ctx) == {<<f, ctx[f]>> : f \in Fields}

(* TelemetryCtx::kv, less the fields that are None.                        *)
Kv(ctx) == Present(ctx, Fields)

(* Bug: the session becomes a metric label too.                            *)
BugMetricAttrs(ctx) == Present(ctx, {"tenant", "env", "bundle_id", "session"})

MetricAttrs(ctx) == Present(ctx, {"tenant", "env", "bundle_id"})

(* with_current_telemetry_ctx: None outside every scope.                   *)
Current(k) == IF scope[k] = <<>> THEN NoCtx ELSE Last(scope[k])
-----------------------------------------------------------------------------
Init ==
  /\ scope = [k \in Tasks |-> <<>>]
  /\ ext = [s \in Spans |-> NoCtx] /\ origin = [s \in Spans |-> NoCtx]
  /\ attrs = [s \in Spans |-> {}] /\ given = [s \in Spans |-> {}]
  /\ created = {} /\ series = {}
  /\ pc = [k \in Tasks |-> "idle"]
  /\ target = [k \in Tasks |-> NoSpan]
  /\ seen = [k \in Tasks |-> NoCtx]

Return(k) ==
  /\ pc' = [pc EXCEPT ![k] = "idle"]
  /\ target' = [target EXCEPT ![k] = NoSpan]
  /\ seen' = [seen EXCEPT ![k] = NoCtx]

(* with_task_local: a fresh slot hides the outer one until it ends.        *)
OpenScope(k) ==
  /\ pc[k] = "idle" /\ Len(scope[k]) < MaxScopes
  /\ scope' = [scope EXCEPT ![k] = Append(@, NoCtx)]
  /\ UNCHANGED <<ext, attrs, origin, given, created, series, pc, target, seen>>

(* The future of the scope completes or is dropped.                        *)
CloseScope(k) ==
  /\ pc[k] = "idle" /\ scope[k] # <<>>
  /\ scope' = [scope EXCEPT ![k] = Front(@)]
  /\ UNCHANGED <<ext, attrs, origin, given, created, series, pc, target, seen>>

(* Silently without effect outside every scope.                            *)
SetCurrent(k) == \E c \in Contexts :
  /\ pc[k] = "idle"
  /\ scope' = IF scope[k] = <<>> THEN scope
              ELSE [scope EXCEPT ![k] = Append(Front(@), c)]
  /\ UNCHANGED <<ext, attrs, origin, given, created, series, pc, target, seen>>

Measure(k) ==
  /\ pc[k] = "idle" /\ Current(k) # NoCtx
  /\ series' = series \cup {MetricAttrs(Current(k))}
  /\ UNCHANGED <<scope, ext, attrs, origin, given, created, pc, target, seen>>

(* Bug: the context is left to the first enter.                            *)
BugNewSpanUnbound(k, s) ==
  /\ pc[k] = "idle" /\ s \notin created
  /\ created' = created \cup {s}
  /\ origin' = [origin EXCEPT ![s] = Current(k)]
  /\ pc' = [pc EXCEPT ![k] = "created"] /\ target' = [target EXCEPT ![k] = s]
  /\ UNCHANGED <<scope, ext, attrs, given, series, seen>>

(* on_new_span.                                                            *)
NewSpan(k, s) ==
  /\ pc[k] = "idle" /\ s \notin created
  /\ created' = created \cup {s}
  /\ ext' = [ext EXCEPT ![s] = Current(k)]
  /\ origin' = [origin EXCEPT ![s] = Current(k)]
  /\ pc' = [pc EXCEPT ![k] = "created"] /\ target' = [target EXCEPT ![k] = s]
  /\ UNCHANGED <<scope, attrs, given, series, seen>>

(* annotate_span: set_attribute adds to what is there, and leaves the      *)
(* extensions alone.                                                       *)
AnnotateSpan(k) == \E c \in Handed :
  /\ pc[k] = "created"
  /\ attrs' = [attrs EXCEPT ![target[k]] = @ \cup Kv(c)]
  /\ given' = [given EXCEPT ![target[k]] = @ \cup {c}]
  /\ UNCHANGED <<scope, ext, origin, created, series, pc, target, seen>>

(* annotate_current_span, a no-op without a context in scope.              *)
AnnotateCurrentSpan(k) ==
  /\ pc[k] = "created"
  /\ attrs' = [attrs EXCEPT ![target[k]] = @ \cup Kv(Current(k))]
  /\ UNCHANGED <<scope, ext, origin, given, created, series, pc, target, seen>>

(* The producer goes on and others may enter the span.                     *)
Release(k) ==
  /\ pc[k] = "created"
  /\ Return(k)
  /\ UNCHANGED <<scope, ext, attrs, origin, given, created, series>>

(* Bug: the provider's context is preferred to the one the span carries.   *)
BugPreferCurrent(k, s) == IF Current(k) # NoCtx THEN Current(k) ELSE ext[s]

ContextOf(k, s) == IF ext[s] # NoCtx THEN ext[s] ELSE Current(k)

(* on_enter, up to the end of the read lock.  Only the creator has a       *)
(* handle of a span it is still creating.                                  *)
LookUp(k, s) ==
  /\ pc[k] = "idle" /\ s \in created
  /\ \A j \in Tasks : ~(pc[j] = "created" /\ target[j] = s)
  /\ seen' = [seen EXCEPT ![k] = ContextOf(k, s)]
  /\ pc' = [pc EXCEPT ![k] = "record"] /\ target' = [target EXCEPT ![k] = s]
  /\ UNCHANGED <<scope, ext, attrs, origin, given, created, series>>

(* The rest of on_enter, under the write lock.                             *)
Record(k) ==
  /\ pc[k] = "record"
  /\ ext' = IF seen[k] = NoCtx THEN ext
            ELSE [ext EXCEPT ![target[k]] = seen[k]]
  /\ Return(k)
  /\ UNCHANGED <<scope, attrs, origin, given, created, series>>

Step(k) ==
  \/ OpenScope(k) \/ CloseScope(k) \/ SetCurrent(k) \/ Measure(k)
  \/ \E s \in Spans : NewSpan(k, s) \/ LookUp(k, s)
  \/ AnnotateSpan(k) \/ AnnotateCurrentSpan(k) \/ Release(k) \/ Record(k)

Next == \E k \in Tasks : Step(k)

Spec == Init /\ [][Next]_vars
-----------------------------------------------------------------------------
(* Types; a task works on spans that exist, and a span that does not exist *)
(* has neither context nor attributes.                                     *)
TypeOK ==
  /\ scope \in [Tasks -> Seq(MaybeCtx)]
  /\ ext \in [Spans -> MaybeCtx] /\ origin \in [Spans -> MaybeCtx]
  /\ attrs \in [Spans -> SUBSET (Fields \X Values)]
  /\ given \in [Spans -> SUBSET Handed]
  /\ created \subseteq Spans
  /\ series \subseteq SUBSET (Fields \X Values)
  /\ pc \in [Tasks -> {"idle", "created", "record"}]
  /\ target \in [Tasks -> Spans \cup {NoSpan}] /\ seen \in [Tasks -> MaybeCtx]
  /\ \A k \in Tasks : pc[k] # "idle" => target[k] \in created
  /\ \A s \in Spans \ created :
       ext[s] = NoCtx /\ origin[s] = NoCtx /\ attrs[s] = {} /\ given[s] = {}

Entering(k, s) == pc[k] = "record" /\ target[k] = s

(* The context a span was created with stays with it, whatever tasks with  *)
(* whatever contexts enter it afterwards: spans of one tenant never move   *)
(* to another.                                                             *)
CreatedContextSticks ==
  \A s \in Spans : origin[s] # NoCtx => ext[s] = origin[s]

(* A span exports the context of the task that created it or contexts its  *)
(* producer handed to annotate_span, never that of a task that enters it   *)
(* later, not even when that is the one stored in it.  And if its producer *)
(* annotated it from the task-local context only, what it exports and what *)
(* the inspection layers read from its extensions is the same, for good;   *)
(* after annotate_span with another context it need not be.                *)
ExportMatchesStored ==
  \A s \in Spans :
    /\ attrs[s] \subseteq Kv(origin[s]) \cup UNION {Kv(c) : c \in given[s]}
    /\ given[s] = {} /\ attrs[s] # {} => attrs[s] = Kv(ext[s])

(* Enters of a span that had no context race: each may record what it      *)
(* found before the other's record, even in turns and without end.  Once   *)
(* all enters under way agree with the span, its context is final.         *)
Settled(s) ==
  /\ ext[s] # NoCtx
  /\ \A k \in Tasks : Entering(k, s) => seen[k] = ext[s]

SettledIsFinal ==
  [][\A s \in Spans : Settled(s) => ext'[s] = ext[s] /\ Settled(s)']_vars

(* Metrics have one time series per tenant, environment and bundle, however*)
(* many sessions, deployments and revisions there are (policy B11).        *)
Topology == {<<c["tenant"], c["env"], c["bundle_id"]>> : c \in Contexts}

SeriesBounded == Cardinality(series) <= Cardinality(Topology)
=============================================================================

---------------------------- MODULE OperationSubs ----------------------------
(***************************************************************************)
(* operation_subs.rs and state_subs.rs: what the operator's calls for an   *)
(* operation leave in the telemetry backend, under the configuration a     *)
(* telemetry provider returned, and where the metric instruments, bound on *)
(* first use to the meter provider that is global by then, deliver.        *)
(*                                                                         *)
(* The operator is outside the repository.  It calls in the order of       *)
(* docs/correlation-model.md: root span, requested, then completed, or     *)
(* error and completed, or error alone, then the metrics; state operations *)
(* call pre, post and the state metric.  Of the root span and the metrics  *)
(* there is a function that applies the configuration's attribution and    *)
(* one that does not; the operator calls either.  Operations run           *)
(* concurrently, and the upgrade of stage 2 may come between their calls.  *)
(***************************************************************************)
EXTENDS Naturals

CONSTANTS
  Ops,          \* the operations, by op_id
  Names,        \* the op_names
  Providers,    \* the TelemetryProviderConfigs the capability may return
  PayloadHash   \* is the payload-hash feature on?

SubsModes   == {"metrics_only", "traces_only", "metrics_and_traces"}
Policies    == {"none", "hash_only"}
Instruments == {"duration", "count", "error_count",
                "state_count", "state_duration"}
Traces      == {"span", "requested", "completed", "error",
                "state_pre", "state_post"}
Steps       == {"new", "request", "run", "error", "complete",
                "duration", "count", "error_count",
                "state_post", "state_count", "state_duration", "done"}

(* A TelemetryProviderConfig, as far as operations go.  "other" is any     *)
(* string the conversion does not know, or none.                           *)
Provider == [enable_operation_subs : BOOLEAN,
             operation_subs_mode : SubsModes \cup {"other"},
             include_denied_ops : BOOLEAN,
             payload_policy : Policies \cup {"other"},
             drop_payloads : BOOLEAN,
             exclude_ops : SUBSET (Ops \cup Names),
             include_tenant : BOOLEAN, include_team : BOOLEAN,
             include_team_in_metrics : BOOLEAN, hash_ids : BOOLEAN]

ASSUME ProvidersAssumption   == Providers \subseteq Provider
ASSUME PayloadHashAssumption == PayloadHash \in BOOLEAN

VARIABLES
  provider,   \* the configuration in force
  meter,      \* the global meter provider: "noop" or "sdk"
  bound,      \* [Instruments -> "unbound", "noop" or "sdk"], the Lazy statics
  step,       \* [Ops -> the operator's next call for it]
  name,       \* [Ops -> op_name]
  status,     \* [Ops -> how it went]
  emitted,    \* records of the spans and events that were emitted
  recorded    \* records of the measurements, with where they went

vars == <<provider, meter, bound, step, name, status, emitted, recorded>>

-----------------------------------------------------------------------------
(* drop_payloads overrides the policy.                                     *)
PolicyOf(p) ==
  IF p.drop_payloads THEN "none"
  ELSE IF p.payload_policy = "hash_only" THEN "hash_only" ELSE "none"

SubsConfig(p) ==
  [enabled |-> p.enable_operation_subs,
   mode    |-> IF p.operation_subs_mode \in SubsModes
               THEN p.operation_subs_mode ELSE "metrics_and_traces",
   include_denied |-> p.include_denied_ops,
   payload_policy |-> PolicyOf(p),
   exclude_ops    |-> p.exclude_ops,
   include_tenant |-> p.include_tenant, include_team |-> p.include_team,
   include_team_in_metrics |-> p.include_team_in_metrics,
   hash_ids |-> p.hash_ids]

Config == SubsConfig(provider)

(* An identifier as it leaves: itself, its hash, or nothing.  Without the  *)
(* payload-hash feature a hash is the empty string.                        *)
MaybeAttr(include, hash) ==
  IF ~include THEN "empty"
  ELSE IF ~hash THEN "raw"
  ELSE IF PayloadHash THEN "hashed" ELSE "empty"

Record(o, item, attributed, tenant, team, payload) ==
  [op |-> o, item |-> item, attributed |-> attributed, tenant |-> tenant,
   team |-> team, payload |-> payload]

(* A span or event with the attribution of the configuration,              *)
Attributed(o, item, payload) ==
  Record(o, item, TRUE, MaybeAttr(Config.include_tenant, Config.hash_ids),
         MaybeAttr(Config.include_team, Config.hash_ids), payload)

(* a span, event or metric with the tenant as the caller passes it,        *)
Unattributed(o, item, team) == Record(o, item, FALSE, "raw", team, FALSE)

(* and an event or metric without identifiers.                             *)
Bare(o, item) == Record(o, item, FALSE, "empty", "empty", FALSE)

Emit(r) == emitted' = emitted \cup {r}

EmitIf(condition, r) == IF condition THEN Emit(r) ELSE UNCHANGED emitted

Goto(o, next) == step' = [step EXCEPT ![o] = next]

Init ==
  /\ provider \in Providers
  /\ meter = "noop"
  /\ bound = [i \in Instruments |-> "unbound"]
  /\ step = [o \in Ops |-> "new"]
  /\ name \in [Ops -> Names]
  /\ status = [o \in Ops |-> "none"]
  /\ emitted = {} /\ recorded = {}

(* Stage 2: an export config was installed, its meter provider is global.  *)
Upgrade ==
  /\ meter = "noop" /\ meter' = "sdk"
  /\ UNCHANGED <<provider, bound, step, name, status, emitted, recorded>>
-----------------------------------------------------------------------------
(* operation_root_span_attributed, for which nothing of the configuration  *)
(* but the attribution counts, or operation_root_span, for which nothing   *)
(* of it does.                                                             *)
OpenRootSpan(o) ==
  /\ step[o] = "new"
  /\ Emit(Attributed(o, "span", FALSE)) \/ Emit(Unattributed(o, "span", "raw"))
  /\ Goto(o, "request")
  /\ UNCHANGED <<provider, meter, bound, name, status, recorded>>

(* The guards of emit_operation_requested and emit_operation_completed.    *)
Traced(key) ==
  Config.enabled /\ key \notin Config.exclude_ops /\ Config.mode # "metrics_only"

EmitRequested(o) ==
  /\ step[o] = "request"
  /\ EmitIf(Traced(name[o]),
            Attributed(o, "requested", Config.payload_policy = "hash_only"))
  /\ Goto(o, "run")
  /\ UNCHANGED <<provider, meter, bound, name, status, recorded>>

(* The hooks and the provider: the operation goes well, fails or is denied *)
Finish(o) ==
  /\ step[o] = "run"
  /\ \E s \in {"ok", "error", "denied"} :
       /\ status' = [status EXCEPT ![o] = s]
       /\ Goto(o, IF s = "ok" THEN "complete" ELSE "error")
  /\ UNCHANGED <<provider, meter, bound, name, emitted, recorded>>

(* emit_operation_error compares the op_id with the excluded names.  After *)
(* a failure the operator may leave completed out.                         *)
EmitError(o) ==
  /\ step[o] = "error"
  /\ EmitIf(Traced(o), Bare(o, "error"))
  /\ \/ Goto(o, "complete")
     \/ status[o] = "error" /\ Goto(o, "duration")
  /\ UNCHANGED <<provider, meter, bound, name, status, recorded>>

(* Bug: compares the op_id, as emit_operation_error does.                  *)
BugCompletedById(o) ==
  /\ step[o] = "complete"
  /\ EmitIf(Traced(o) /\ (Config.include_denied \/ status[o] # "denied"),
            Attributed(o, "completed", Config.payload_policy = "hash_only"))
  /\ Goto(o, "duration")
  /\ UNCHANGED <<provider, meter, bound, name, status, recorded>>

EmitCompleted(o) ==
  /\ step[o] = "complete"
  /\ EmitIf(Traced(name[o]) /\ (Config.include_denied \/ status[o] # "denied"),
            Attributed(o, "completed", Config.payload_policy = "hash_only"))
  /\ Goto(o, "duration")
  /\ UNCHANGED <<provider, meter, bound, name, status, recorded>>
-----------------------------------------------------------------------------
(* Bug: the instrument is looked up anew and not kept.                     *)
BugMeasure(i, r) ==
  /\ UNCHANGED bound
  /\ recorded' = recorded \cup {[record |-> r, to |-> meter]}

(* A Lazy instrument is built from the global meter on first use, then     *)
(* stays with that provider.                                               *)
Measure(i, r) ==
  LET to == IF bound[i] = "unbound" THEN meter ELSE bound[i] IN
  /\ bound' = [bound EXCEPT ![i] = to]
  /\ recorded' = recorded \cup {[record |-> r, to |-> to]}

(* Bug: only the spans are hashed, the labels are not.                     *)
BugLabelled(o, item) ==
  Record(o, item, TRUE, MaybeAttr(TRUE, FALSE),
         MaybeAttr(Config.include_team_in_metrics, FALSE), FALSE)

(* The labels of the attributed metrics: the tenant always, the team when  *)
(* asked for.                                                              *)
Labelled(o, item) ==
  Record(o, item, TRUE, MaybeAttr(TRUE, Config.hash_ids),
         MaybeAttr(Config.include_team_in_metrics, Config.hash_ids), FALSE)

(* The labels of either variant; the other one has no team.                *)
Labels(o, item, attributed) ==
  IF attributed THEN Labelled(o, item) ELSE Unattributed(o, item, "empty")

(* record_operation_metric_attributed or record_operation_metric: the      *)
(* histogram,                                                              *)
RecordDuration(o) == \E attributed \in BOOLEAN :
  /\ step[o] = "duration"
  /\ Measure("duration", Labels(o, "duration", attributed))
  /\ Goto(o, "count")
  /\ UNCHANGED <<provider, meter, name, status, emitted>>

(* then the counter, with the same labels.                                 *)
RecordCount(o) == \E attributed \in BOOLEAN :
  /\ step[o] = "count"
  /\ \E m \in recorded : m.record = Labels(o, "duration", attributed)
  /\ Measure("count", Labels(o, "count", attributed))
  /\ Goto(o, IF status[o] = "ok" THEN "done" ELSE "error_count")
  /\ UNCHANGED <<provider, meter, name, status, emitted>>

(* record_operation_error_metric_attributed or record_operation_error_...  *)
RecordError(o) == \E attributed \in BOOLEAN :
  /\ step[o] = "error_count"
  /\ Measure("error_count", Labels(o, "error_count", attributed))
  /\ Goto(o, "done")
  /\ UNCHANGED <<provider, meter, name, status, emitted>>
-----------------------------------------------------------------------------
(* State operations: their spans carry the identifiers as they are.        *)
EmitStatePre(o) ==
  /\ step[o] = "new"
  /\ EmitIf(Config.enabled, Unattributed(o, "state_pre", "raw"))
  /\ Goto(o, "state_post")
  /\ UNCHANGED <<provider, meter, bound, name, status, recorded>>

EmitStatePost(o) ==
  /\ step[o] = "state_post"
  /\ \E s \in {"ok", "error", "denied"} :
       /\ status' = [status EXCEPT ![o] = s]
       /\ EmitIf(Config.enabled /\ (Config.include_denied \/ s # "denied"),
                 Unattributed(o, "state_post", "raw"))
  /\ Goto(o, "state_count")
  /\ UNCHANGED <<provider, meter, bound, name, recorded>>

(* record_state_metric: no identifier among the labels.                    *)
RecordStateCount(o) ==
  /\ step[o] = "state_count"
  /\ Measure("state_count", Bare(o, "state_count"))
  /\ Goto(o, "state_duration")
  /\ UNCHANGED <<provider, meter, name, status, emitted>>

RecordStateDuration(o) ==
  /\ step[o] = "state_duration"
  /\ Measure("state_duration", Bare(o, "state_duration"))
  /\ Goto(o, "done")
  /\ UNCHANGED <<provider, meter, name, status, emitted>>

Terminated == (\A o \in Ops : step[o] = "done") /\ UNCHANGED vars

Call(o) ==
  \/ OpenRootSpan(o) \/ EmitRequested(o) \/ Finish(o) \/ EmitError(o)
  \/ EmitCompleted(o) \/ RecordDuration(o) \/ RecordCount(o) \/ RecordError(o)
  \/ EmitStatePre(o) \/ EmitStatePost(o)
  \/ RecordStateCount(o) \/ RecordStateDuration(o)

Next == Upgrade \/ (\E o \in Ops : Call(o)) \/ Terminated

Spec == Init /\ [][Next]_vars
-----------------------------------------------------------------------------
Values  == {"raw", "hashed", "empty"}
Records == [op : Ops, item : Traces \cup Instruments, attributed : BOOLEAN,
            tenant : Values, team : Values, payload : BOOLEAN]

(* Types; and every measurement of an instrument went to the provider the  *)
(* instrument is bound to, for the Lazy static never moves.                *)
TypeOK ==
  /\ provider \in Providers /\ meter \in {"noop", "sdk"}
  /\ bound \in [Instruments -> {"unbound", "noop", "sdk"}]
  /\ step \in [Ops -> Steps] /\ name \in [Ops -> Names]
  /\ status \in [Ops -> {"none", "ok", "error", "denied"}]
  /\ emitted \subseteq Records
  /\ \A m \in recorded : /\ m.record \in Records /\ m.to \in {"noop", "sdk"}
                          /\ m.to = bound[m.record.item]

Has(o, item) == \E r \in emitted : r.op = o /\ r.item = item

(* A trace that shows an operation's request shows how it ended, and one   *)
(* that shows its completion shows its request, under every configuration  *)
(* that excludes operations by name: only completed of a denied operation  *)
(* may be left out, and error stands in for completed after a failure.     *)
TracesAreWhole ==
  \A o \in Ops : step[o] = "done" =>
    /\ Has(o, "completed") => Has(o, "requested")
    /\ Has(o, "requested") => Has(o, "completed") \/ Has(o, "error")
    /\ Has(o, "requested") /\ status[o] = "ok" => Has(o, "completed")

(* With drop_payloads not even the size of a payload leaves, whatever the  *)
(* policy.  What goes through an attributed function, or through requested *)
(* and completed, hides what the attribution says: with hash_ids no        *)
(* identifier leaves as it is, and a span or event has no tenant and no    *)
(* team unless they are to be included (the metrics keep their tenant).    *)
(* No metric of either kind has a team that was not asked for.  The other  *)
(* root span and metrics and the state events show the tenant as it is,    *)
(* against docs/operation-subs.md:77.                                      *)
NothingHiddenLeaves ==
  \A r \in emitted \cup {m.record : m \in recorded} :
    /\ provider.drop_payloads => ~r.payload
    /\ r.attributed /\ provider.hash_ids => r.tenant # "raw" /\ r.team # "raw"
    /\ r.attributed /\ r.item \in Traces =>
         /\ ~provider.include_tenant => r.tenant = "empty"
         /\ ~provider.include_team => r.team = "empty"
    /\ r.item \in Instruments /\ ~provider.include_team_in_metrics =>
         r.team = "empty"
-----------------------------------------------------------------------------
(* What the documentation says and the code does not do.                   *)

(* docs/operation-subs.md:119: named operations are silently skipped in    *)
(* the traces: no event of an excluded operation.                          *)
ExcludedIsSilent ==
  \A r \in emitted :
    r.item \in {"requested", "completed", "error"} =>
      name[r.op] \notin provider.exclude_ops
=============================================================================

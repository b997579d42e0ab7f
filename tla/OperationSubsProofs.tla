------------------------- MODULE OperationSubsProofs -------------------------
(***************************************************************************)
(* Theorems about OperationSubs, for every set of operations and names and *)
(* every provider configuration, with the payload-hash feature or without. *)
(***************************************************************************)
EXTENDS OperationSubs, TLAPS

USE ProvidersAssumption, PayloadHashAssumption

-----------------------------------------------------------------------------
(* What the configuration makes of identifiers and payloads.               *)

LEMMA MaybeAttrType ==
  ASSUME NEW include, NEW hash
  PROVE  /\ MaybeAttr(include, hash) \in Values
         /\ hash => MaybeAttr(include, hash) # "raw"
         /\ ~include => MaybeAttr(include, hash) = "empty"
BY DEF MaybeAttr, Values

LEMMA ConfigOf ==
  ASSUME TypeOK
  PROVE  /\ Config.hash_ids = provider.hash_ids
         /\ Config.include_tenant = provider.include_tenant
         /\ Config.include_team = provider.include_team
         /\ Config.include_team_in_metrics = provider.include_team_in_metrics
         /\ provider.drop_payloads => Config.payload_policy = "none"
         /\ Config.exclude_ops = provider.exclude_ops
         /\ provider \in Provider
BY DEF TypeOK, Config, SubsConfig, PolicyOf

(* What a call may emit, and what it may measure.                          *)
Hidden(r) ==
  /\ provider.drop_payloads => ~r.payload
  /\ r.attributed /\ provider.hash_ids => r.tenant # "raw" /\ r.team # "raw"
  /\ r.attributed /\ r.item \in Traces =>
       /\ ~provider.include_tenant => r.tenant = "empty"
       /\ ~provider.include_team => r.team = "empty"
  /\ r.item \in Instruments /\ ~provider.include_team_in_metrics => r.team = "empty"

LEMMA AttributedHidden ==
  ASSUME TypeOK, NEW o \in Ops, NEW item \in Traces,
         NEW payload \in {FALSE, Config.payload_policy = "hash_only"}
  PROVE  /\ Attributed(o, item, payload) \in Records
         /\ Hidden(Attributed(o, item, payload))
         /\ Attributed(o, item, payload).op = o /\ Attributed(o, item, payload).item = item
<1>. DEFINE tenant == MaybeAttr(Config.include_tenant, Config.hash_ids)
            team == MaybeAttr(Config.include_team, Config.hash_ids)
<1>1. /\ tenant \in Values /\ team \in Values
      /\ provider.hash_ids => tenant # "raw" /\ team # "raw"
      /\ ~provider.include_tenant => tenant = "empty"
      /\ ~provider.include_team => team = "empty"
  BY MaybeAttrType, ConfigOf
<1>2. payload \in BOOLEAN /\ (provider.drop_payloads => ~payload)
  BY ConfigOf
<1>3. item \notin Instruments
  BY DEF Traces, Instruments
<1>4. Attributed(o, item, payload) = Record(o, item, TRUE, tenant, team, payload)
  BY DEF Attributed
<1>. HIDE DEF tenant, team
<1>. QED BY <1>1, <1>2, <1>3, <1>4 DEF Record, Records, Hidden

LEMMA UnattributedHidden ==
  ASSUME NEW o \in Ops, NEW item \in Traces \cup Instruments,
         NEW team \in {"raw", "empty"}, team = "raw" => item \in Traces
  PROVE  /\ Unattributed(o, item, team) \in Records
         /\ Hidden(Unattributed(o, item, team))
         /\ Unattributed(o, item, team).op = o
         /\ Unattributed(o, item, team).item = item
<1>1. item \in Traces => item \notin Instruments
  BY DEF Traces, Instruments
<1>. QED BY <1>1 DEF Unattributed, Record, Records, Hidden, Values

LEMMA BareHidden ==
  ASSUME NEW o \in Ops, NEW item \in Traces \cup Instruments
  PROVE  /\ Bare(o, item) \in Records /\ Hidden(Bare(o, item))
         /\ Bare(o, item).op = o /\ Bare(o, item).item = item
BY DEF Bare, Record, Records, Hidden, Values

LEMMA LabelsHidden ==
  ASSUME TypeOK, NEW o \in Ops, NEW item \in Instruments, NEW attributed \in BOOLEAN
  PROVE  /\ Labels(o, item, attributed) \in Records
         /\ Hidden(Labels(o, item, attributed))
         /\ Labels(o, item, attributed).item = item
<1>1. CASE attributed
  <2>1. /\ MaybeAttr(TRUE, Config.hash_ids) \in Values
        /\ MaybeAttr(Config.include_team_in_metrics, Config.hash_ids) \in Values
        /\ provider.hash_ids =>
             /\ MaybeAttr(TRUE, Config.hash_ids) # "raw"
             /\ MaybeAttr(Config.include_team_in_metrics, Config.hash_ids) # "raw"
        /\ ~provider.include_team_in_metrics =>
             MaybeAttr(Config.include_team_in_metrics, Config.hash_ids) = "empty"
    BY MaybeAttrType, ConfigOf
  <2>2. item \notin Traces
    BY DEF Traces, Instruments
  <2>. QED BY <1>1, <2>1, <2>2 DEF Labels, Labelled, Record, Records, Hidden
<1>2. CASE ~attributed
  BY <1>2, UnattributedHidden DEF Labels
<1>. QED BY <1>1, <1>2
-----------------------------------------------------------------------------
(* A call emits at most one record, about its own operation, or measures   *)
(* one; neither says what the configuration hides.                         *)
Emits(o) ==
  /\ UNCHANGED <<provider, meter, bound, name, recorded>>
  /\ \/ UNCHANGED emitted
     \/ \E r \in Records : r.op = o /\ Hidden(r) /\ emitted' = emitted \cup {r}

Measures ==
  /\ UNCHANGED <<provider, meter, name, status, emitted>>
  /\ \E r \in Records : r.item \in Instruments /\ Hidden(r) /\ Measure(r.item, r)

Moved(o) ==
  /\ \E s \in Steps : step' = [step EXCEPT ![o] = s]
  /\ \/ UNCHANGED status
     \/ \E s \in {"ok", "error", "denied"} : status' = [status EXCEPT ![o] = s]

LEMMA CallEffect ==
  ASSUME TypeOK, NEW o \in Ops, Call(o)
  PROVE  Moved(o) /\ (Emits(o) \/ Measures)
<1>. USE DEF Moved, Steps, Goto
<1>1. CASE OpenRootSpan(o)
  <2>1. "span" \in Traces
    BY DEF Traces
  <2>. DEFINE a == Attributed(o, "span", FALSE)
              u == Unattributed(o, "span", "raw")
  <2>2. a \in Records /\ Hidden(a) /\ a.op = o
    BY <2>1, AttributedHidden
  <2>3. u \in Records /\ Hidden(u) /\ u.op = o
    BY <2>1, UnattributedHidden
  <2>4. emitted' = emitted \cup {a} \/ emitted' = emitted \cup {u}
    BY <1>1 DEF OpenRootSpan, Emit
  <2>. HIDE DEF a, u
  <2>. QED BY <1>1, <2>2, <2>3, <2>4 DEF OpenRootSpan, Emits
<1>2. CASE EmitRequested(o)
  <2>1. "requested" \in Traces
    BY DEF Traces
  <2>. DEFINE payload == Config.payload_policy = "hash_only"
              r == Attributed(o, "requested", payload)
  <2>2. r \in Records /\ Hidden(r) /\ r.op = o
    BY <2>1, AttributedHidden
  <2>3. emitted' = emitted \/ emitted' = emitted \cup {r}
    BY <1>2 DEF EmitRequested, Emit, EmitIf
  <2>. HIDE DEF r
  <2>. QED BY <1>2, <2>2, <2>3 DEF EmitRequested, Emits
<1>3. CASE Finish(o)
  BY <1>3 DEF Finish, Emits
<1>4. CASE EmitError(o)
  <2>1. "error" \in Traces \cup Instruments
    BY DEF Traces
  <2>. QED BY <1>4, <2>1, BareHidden DEF EmitError, Emits, Emit, EmitIf
<1>5. CASE EmitCompleted(o)
  <2>1. "completed" \in Traces
    BY DEF Traces
  <2>. DEFINE payload == Config.payload_policy = "hash_only"
              r == Attributed(o, "completed", payload)
  <2>2. r \in Records /\ Hidden(r) /\ r.op = o
    BY <2>1, AttributedHidden
  <2>3. emitted' = emitted \/ emitted' = emitted \cup {r}
    BY <1>5 DEF EmitCompleted, Emit, EmitIf
  <2>. HIDE DEF r
  <2>. QED BY <1>5, <2>2, <2>3 DEF EmitCompleted, Emits
<1>6. CASE RecordDuration(o)
  <2>1. "duration" \in Instruments
    BY DEF Instruments
  <2>2. PICK attributed \in BOOLEAN : Measure("duration", Labels(o, "duration", attributed))
    BY <1>6 DEF RecordDuration
  <2>. QED BY <1>6, <2>1, <2>2, LabelsHidden DEF RecordDuration, Measures
<1>7. CASE RecordCount(o)
  <2>1. "count" \in Instruments
    BY DEF Instruments
  <2>2. PICK attributed \in BOOLEAN : Measure("count", Labels(o, "count", attributed))
    BY <1>7 DEF RecordCount
  <2>. QED BY <1>7, <2>1, <2>2, LabelsHidden DEF RecordCount, Measures
<1>8. CASE RecordError(o)
  <2>1. "error_count" \in Instruments
    BY DEF Instruments
  <2>2. PICK attributed \in BOOLEAN : Measure("error_count", Labels(o, "error_count", attributed))
    BY <1>8 DEF RecordError
  <2>. QED BY <1>8, <2>1, <2>2, LabelsHidden DEF RecordError, Measures
<1>9. CASE EmitStatePre(o)
  <2>1. "state_pre" \in Traces
    BY DEF Traces
  <2>. QED BY <1>9, <2>1, UnattributedHidden DEF EmitStatePre, Emits, Emit, EmitIf
<1>10. CASE EmitStatePost(o)
  <2>1. "state_post" \in Traces
    BY DEF Traces
  <2>. DEFINE r == Unattributed(o, "state_post", "raw")
  <2>2. r \in Records /\ Hidden(r) /\ r.op = o
    BY <2>1, UnattributedHidden
  <2>3. emitted' = emitted \/ emitted' = emitted \cup {r}
    BY <1>10 DEF EmitStatePost, Emit, EmitIf
  <2>4. \E s \in {"ok", "error", "denied"} : status' = [status EXCEPT ![o] = s]
    BY <1>10 DEF EmitStatePost
  <2>. HIDE DEF r
  <2>. QED BY <1>10, <2>2, <2>3, <2>4 DEF EmitStatePost, Emits
<1>11. CASE RecordStateCount(o)
  <2>1. "state_count" \in Instruments /\ "state_count" \in Traces \cup Instruments
    BY DEF Instruments
  <2>. QED BY <1>11, <2>1, BareHidden DEF RecordStateCount, Measures
<1>12. CASE RecordStateDuration(o)
  <2>1. "state_duration" \in Instruments /\ "state_duration" \in Traces \cup Instruments
    BY DEF Instruments
  <2>. QED BY <1>12, <2>1, BareHidden DEF RecordStateDuration, Measures
<1>. QED BY <1>1, <1>2, <1>3, <1>4, <1>5, <1>6, <1>7, <1>8, <1>9, <1>10,
            <1>11, <1>12 DEF Call
-----------------------------------------------------------------------------
OInv == TypeOK /\ NothingHiddenLeaves

LEMMA OInit == Init => OInv
BY DEF Init, OInv, TypeOK, NothingHiddenLeaves, Steps

LEMMA ONext == OInv /\ [Next]_vars => OInv'
<1>. SUFFICES ASSUME OInv, [Next]_vars PROVE OInv'
  OBVIOUS
<1>1. TypeOK /\ NothingHiddenLeaves
  BY DEF OInv
<1>2. CASE UNCHANGED vars
  BY <1>1, <1>2 DEF vars, OInv, TypeOK, NothingHiddenLeaves
<1>3. CASE Upgrade
  BY <1>1, <1>3 DEF Upgrade, OInv, TypeOK, NothingHiddenLeaves
<1>4. ASSUME NEW o \in Ops, Call(o) PROVE OInv'
  <2>1. /\ step' \in [Ops -> Steps]
        /\ status' \in [Ops -> {"none", "ok", "error", "denied"}]
    BY <1>1, <1>4, CallEffect DEF Moved, TypeOK
  <2>2. CASE Emits(o)
    BY <1>1, <2>1, <2>2 DEF Emits, OInv, TypeOK, NothingHiddenLeaves, Hidden
  <2>3. CASE Measures
    <3>1. PICK r \in Records : r.item \in Instruments /\ Hidden(r) /\ Measure(r.item, r)
      BY <2>3 DEF Measures
    <3>. DEFINE to == IF bound[r.item] = "unbound" THEN meter ELSE bound[r.item]
    <3>2. /\ bound' = [bound EXCEPT ![r.item] = to]
          /\ recorded' = recorded \cup {[record |-> r, to |-> to]}
      BY <3>1 DEF Measure
    <3>3. to \in {"noop", "sdk"} /\ (bound[r.item] # "unbound" => to = bound[r.item])
      BY <1>1, <3>1 DEF TypeOK
    <3>. HIDE DEF to
    <3>4. ASSUME NEW m \in recorded PROVE m.to = bound'[m.record.item]
      <4>1. /\ m.record.item \in Traces \cup Instruments
            /\ m.to \in {"noop", "sdk"} /\ m.to = bound[m.record.item]
        BY <1>1 DEF TypeOK, Records
      <4>2. CASE m.record.item = r.item
        BY <1>1, <3>1, <3>2, <3>3, <4>1, <4>2 DEF TypeOK
      <4>3. CASE m.record.item # r.item
        BY <1>1, <3>1, <3>2, <4>1, <4>3 DEF TypeOK
      <4>. QED BY <4>2, <4>3
    <3>5. TypeOK'
      <4>1. bound' \in [Instruments -> {"unbound", "noop", "sdk"}] /\ bound'[r.item] = to
        BY <1>1, <3>1, <3>2, <3>3 DEF TypeOK
      <4>2. ASSUME NEW m \in recorded'
            PROVE  /\ m.record \in Records /\ m.to \in {"noop", "sdk"}
                   /\ m.to = bound'[m.record.item]
        BY <1>1, <3>1, <3>2, <3>3, <3>4, <4>1 DEF TypeOK
      <4>. QED BY <1>1, <2>1, <2>3, <4>1, <4>2 DEF Measures, TypeOK
    <3>6. NothingHiddenLeaves'
      BY <1>1, <2>3, <3>1, <3>2 DEF Measures, NothingHiddenLeaves, Hidden
    <3>. QED BY <3>5, <3>6 DEF OInv
  <2>. QED BY <1>1, <1>4, <2>2, <2>3, CallEffect
<1>. QED BY <1>2, <1>3, <1>4 DEF Next, Terminated

LEMMA OInvariance == Spec => []OInv
BY OInit, ONext, PTL DEF Spec

(* Every variable keeps its type, and the measurements of an instrument    *)
(* all went to the provider it is bound to.                                *)
THEOREM TypeCorrect == Spec => []TypeOK
<1>1. OInv => TypeOK
  BY DEF OInv
<1>. QED BY <1>1, OInvariance, PTL

(* Payloads that are dropped are in nothing that leaves, a team that is not*)
(* asked for is in no metric, and identifiers that are excluded or hashed  *)
(* are in nothing that an attributed function, requested or completed made.*)
THEOREM HiddenStays == Spec => []NothingHiddenLeaves
<1>1. OInv => NothingHiddenLeaves
  BY DEF OInv
<1>. QED BY <1>1, OInvariance, PTL
-----------------------------------------------------------------------------
(* Whole traces.  Where an operation is tells what its trace shows so far; *)
(* this needs that op_ids are not excluded, for emit_operation_error looks *)
(* for those.                                                              *)
Whole(o) ==
  /\ Has(o, "completed") => Has(o, "requested")
  /\ Has(o, "requested") => Has(o, "completed") \/ Has(o, "error")
  /\ Has(o, "requested") /\ status[o] = "ok" => Has(o, "completed")

SoFar(o) ==
  /\ step[o] \in {"new", "request", "state_post"} =>
       ~Has(o, "requested") /\ ~Has(o, "completed")
  /\ step[o] \in {"run", "error", "complete"} =>
       (Has(o, "requested") <=> Traced(name[o])) /\ ~Has(o, "completed")
  /\ step[o] = "error" => status[o] # "ok"
  /\ step[o] = "complete" => status[o] = "ok" \/ (Traced(o) => Has(o, "error"))
  /\ step[o] \in {"duration", "count", "error_count", "state_count",
                  "state_duration", "done"} => Whole(o)

(* What a call leaves of the trace of another operation, or of its own     *)
(* when it only measures.                                                  *)
LEMMA SameTrace ==
  ASSUME NEW o, emitted' = emitted \/ \E r : r.op # o /\ emitted' = emitted \cup {r}
  PROVE  \A item : Has(o, item)' <=> Has(o, item)
BY DEF Has

LEMMA OneMore ==
  ASSUME NEW o, NEW item, NEW r, r.op = o, r.item = item, emitted' = emitted \cup {r}
  PROVE  /\ Has(o, item)'
         /\ \A i : i # item => (Has(o, i)' <=> Has(o, i))
BY DEF Has

LEMMA RecordFields ==
  ASSUME NEW o, NEW item, NEW team, NEW payload
  PROVE  /\ Attributed(o, item, payload).op = o
         /\ Attributed(o, item, payload).item = item
         /\ Unattributed(o, item, team).op = o
         /\ Unattributed(o, item, team).item = item
         /\ Bare(o, item).op = o /\ Bare(o, item).item = item
BY DEF Record, Attributed, Unattributed, Bare

LEMMA TracedStays ==
  ASSUME UNCHANGED <<provider, name>>
  PROVE  \A o \in Ops : (Traced(name[o])' <=> Traced(name[o])) /\ (Traced(o)' <=> Traced(o))
BY DEF Traced, Config

LEMMA SoFarOthers ==
  ASSUME TypeOK, NEW o \in Ops, NEW u \in Ops, u # o, Call(o), SoFar(u)
  PROVE  SoFar(u)'
<1>1. step'[u] = step[u] /\ status'[u] = status[u]
  <2>1. Moved(o)
    BY CallEffect
  <2>. QED BY <2>1 DEF Moved, TypeOK
<1>2. UNCHANGED <<provider, name>>
      /\ (emitted' = emitted \/ \E r : r.op # u /\ emitted' = emitted \cup {r})
  BY CallEffect DEF Emits, Measures
<1>3. \A item : Has(u, item)' <=> Has(u, item)
  BY <1>2, SameTrace
<1>. QED BY <1>1, <1>2, <1>3, TracedStays DEF SoFar, Whole

LEMMA SoFarOwn ==
  ASSUME TypeOK, NEW o \in Ops, Call(o), SoFar(o),
         \A p \in Providers : p.exclude_ops \cap Ops = {}
  PROVE  SoFar(o)'
<1>. USE DEF Goto
<1>1. UNCHANGED <<provider, name>> /\ step \in [Ops -> Steps]
      /\ status \in [Ops -> {"none", "ok", "error", "denied"}]
  BY CallEffect DEF Emits, Measures, TypeOK
<1>2. (Traced(name[o])' <=> Traced(name[o])) /\ (Traced(o)' <=> Traced(o))
  BY <1>1, TracedStays
<1>3. Traced(name[o]) => Traced(o)
  BY ConfigOf DEF TypeOK, Traced
<1>4. CASE OpenRootSpan(o)
  <2>1. \A i : i # "span" => (Has(o, i)' <=> Has(o, i))
    <3>. DEFINE a == Attributed(o, "span", FALSE)
                u == Unattributed(o, "span", "raw")
    <3>1. a.op = o /\ a.item = "span" /\ u.op = o /\ u.item = "span"
      BY DEF Attributed, Unattributed, Record
    <3>2. emitted' = emitted \cup {a} \/ emitted' = emitted \cup {u}
      BY <1>4 DEF OpenRootSpan, Emit
    <3>. HIDE DEF a, u
    <3>3. CASE emitted' = emitted \cup {a}
      BY <3>1, <3>3, OneMore
    <3>4. CASE emitted' = emitted \cup {u}
      BY <3>1, <3>4, OneMore
    <3>. QED BY <3>2, <3>3, <3>4
  <2>2. step[o] = "new" /\ step'[o] = "request" /\ status' = status
    BY <1>1, <1>4 DEF OpenRootSpan
  <2>. QED BY <2>1, <2>2 DEF SoFar
<1>5. CASE EmitRequested(o)
  <2>1. /\ \A i : i # "requested" => (Has(o, i)' <=> Has(o, i))
        /\ Has(o, "requested")' <=> Traced(name[o]) \/ Has(o, "requested")
    <3>1. CASE Traced(name[o])
      BY <1>5, <3>1, OneMore, RecordFields DEF EmitRequested, Emit, EmitIf
    <3>2. CASE ~Traced(name[o])
      BY <1>5, <3>2, SameTrace DEF EmitRequested, EmitIf
    <3>. QED BY <3>1, <3>2
  <2>. QED BY <1>1, <1>2, <1>5, <2>1 DEF EmitRequested, SoFar
<1>6. CASE Finish(o)
  <2>1. \A i : Has(o, i)' <=> Has(o, i)
    BY <1>6, SameTrace DEF Finish
  <2>. QED BY <1>1, <1>2, <1>6, <2>1 DEF Finish, SoFar
<1>7. CASE EmitError(o)
  <2>1. /\ \A i : i # "error" => (Has(o, i)' <=> Has(o, i))
        /\ Traced(o) => Has(o, "error")'
    <3>1. CASE Traced(o)
      <4>. DEFINE r == Bare(o, "error")
      <4>1. r.op = o /\ r.item = "error"
        BY RecordFields
      <4>2. emitted' = emitted \cup {r}
        BY <1>7, <3>1 DEF EmitError, Emit, EmitIf
      <4>. HIDE DEF r
      <4>. QED BY <4>1, <4>2, OneMore
    <3>2. CASE ~Traced(o)
      BY <1>7, <3>2, SameTrace DEF EmitError, EmitIf
    <3>. QED BY <3>1, <3>2
  <2>2. /\ step[o] = "error" /\ status' = status /\ status[o] # "ok"
        /\ step'[o] \in {"complete", "duration"}
    BY <1>1, <1>7 DEF EmitError, SoFar
  <2>. QED BY <1>2, <1>3, <2>1, <2>2 DEF SoFar, Whole
<1>8. CASE EmitCompleted(o)
  <2>1. /\ \A i : i # "completed" => (Has(o, i)' <=> Has(o, i))
        /\ Has(o, "completed")' =>
             Has(o, "completed") \/ Traced(name[o])
        /\ Traced(name[o]) /\ status[o] = "ok" => Has(o, "completed")'
    <3>1. CASE Traced(name[o]) /\ (Config.include_denied \/ status[o] # "denied")
      BY <1>8, <3>1, OneMore, RecordFields DEF EmitCompleted, Emit, EmitIf
    <3>2. CASE ~(Traced(name[o]) /\ (Config.include_denied \/ status[o] # "denied"))
      BY <1>8, <3>2, SameTrace DEF EmitCompleted, EmitIf
    <3>. QED BY <3>1, <3>2
  <2>2. step[o] = "complete" /\ status' = status /\ step'[o] = "duration"
    BY <1>1, <1>8 DEF EmitCompleted
  <2>. QED BY <1>2, <1>3, <2>1, <2>2 DEF SoFar, Whole
<1>9. CASE RecordDuration(o) \/ RecordCount(o) \/ RecordError(o)
           \/ RecordStateCount(o) \/ RecordStateDuration(o)
  <2>1. \A i : Has(o, i)' <=> Has(o, i)
    BY <1>9, SameTrace DEF RecordDuration, RecordCount, RecordError,
                           RecordStateCount, RecordStateDuration
  <2>2. /\ step[o] \in {"duration", "count", "error_count", "state_count", "state_duration"}
        /\ step'[o] \in {"count", "error_count", "state_duration", "done"}
        /\ status' = status
    BY <1>1, <1>9 DEF RecordDuration, RecordCount, RecordError,
                      RecordStateCount, RecordStateDuration
  <2>. QED BY <2>1, <2>2 DEF SoFar, Whole
<1>10. CASE EmitStatePre(o)
  <2>1. \A i : i # "state_pre" => (Has(o, i)' <=> Has(o, i))
    <3>1. CASE Config.enabled
      <4>. DEFINE r == Unattributed(o, "state_pre", "raw")
      <4>1. r.op = o /\ r.item = "state_pre"
        BY RecordFields
      <4>2. emitted' = emitted \cup {r}
        BY <1>10, <3>1 DEF EmitStatePre, Emit, EmitIf
      <4>. HIDE DEF r
      <4>. QED BY <4>1, <4>2, OneMore
    <3>2. CASE ~Config.enabled
      BY <1>10, <3>2, SameTrace DEF EmitStatePre, EmitIf
    <3>. QED BY <3>1, <3>2
  <2>. QED BY <1>1, <1>10, <2>1 DEF EmitStatePre, SoFar
<1>11. CASE EmitStatePost(o)
  <2>1. PICK s \in {"ok", "error", "denied"} :
          EmitIf(Config.enabled /\ (Config.include_denied \/ s # "denied"),
                 Unattributed(o, "state_post", "raw"))
    BY <1>11 DEF EmitStatePost
  <2>2. \A i : i # "state_post" => (Has(o, i)' <=> Has(o, i))
    <3>1. CASE Config.enabled /\ (Config.include_denied \/ s # "denied")
      <4>. DEFINE r == Unattributed(o, "state_post", "raw")
      <4>1. r.op = o /\ r.item = "state_post"
        BY RecordFields
      <4>2. emitted' = emitted \cup {r}
        BY <2>1, <3>1 DEF Emit, EmitIf
      <4>. HIDE DEF r
      <4>. QED BY <4>1, <4>2, OneMore
    <3>2. CASE ~(Config.enabled /\ (Config.include_denied \/ s # "denied"))
      BY <2>1, <3>2, SameTrace DEF EmitIf
    <3>. QED BY <3>1, <3>2
  <2>. QED BY <1>1, <1>11, <2>2 DEF EmitStatePost, SoFar, Whole
<1>. QED BY <1>4, <1>5, <1>6, <1>7, <1>8, <1>9, <1>10, <1>11 DEF Call

(* When only names are excluded, a trace that shows the request of an      *)
(* operation shows how it ended, and the other way round.                  *)
THEOREM TracesAlwaysWhole ==
  ASSUME \A p \in Providers : p.exclude_ops \cap Ops = {}
  PROVE  Spec => []TracesAreWhole
<1>. DEFINE WInv == \A o \in Ops : SoFar(o)
<1>1. Init => WInv
  BY DEF Init, SoFar, Has
<1>2. TypeOK /\ WInv /\ [Next]_vars => WInv'
  <2>. SUFFICES ASSUME TypeOK, WInv, [Next]_vars, NEW o \in Ops PROVE SoFar(o)'
    OBVIOUS
  <2>1. CASE UNCHANGED vars
    BY <2>1 DEF vars, SoFar, Whole, Has, Traced, Config
  <2>2. CASE Upgrade
    BY <2>2 DEF Upgrade, SoFar, Whole, Has, Traced, Config
  <2>3. ASSUME NEW u \in Ops, Call(u) PROVE SoFar(o)'
    BY <2>3, SoFarOwn, SoFarOthers
  <2>. QED BY <2>1, <2>2, <2>3 DEF Next, Terminated
<1>3. WInv => TracesAreWhole
  BY DEF SoFar, Whole, TracesAreWhole
<1>. QED BY <1>1, <1>2, <1>3, TypeCorrect, PTL DEF Spec
=============================================================================

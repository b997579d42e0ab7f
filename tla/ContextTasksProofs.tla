-------------------------- MODULE ContextTasksProofs --------------------------
(***************************************************************************)
(* Theorems about ContextTasks, for every set of tasks, spans, contexts    *)
(* and field values and every depth of scopes.                             *)
(***************************************************************************)
EXTENDS ContextTasks, FiniteSetTheorems, TLAPS

USE UnsetAssumption, ContextsAssumption, NoSpanAssumption, ScopesAssumption

-----------------------------------------------------------------------------
(* What the operators on contexts and slots return.                        *)

LEMMA ContextType ==
  ASSUME NEW c \in MaybeCtx
  PROVE  c \in [Fields -> Values \cup {Unset}]
BY DEF MaybeCtx, NoCtx

LEMMA KvType ==
  ASSUME NEW c \in MaybeCtx
  PROVE  Kv(c) \in SUBSET (Fields \X Values)
BY ContextType DEF Kv, Present

LEMMA NothingToExport == Kv(NoCtx) = {}
BY DEF Kv, Present, NoCtx

LEMMA LabelType ==
  ASSUME NEW c \in MaybeCtx
  PROVE  MetricAttrs(c) \in SUBSET (Fields \X Values)
<1>1. {"tenant", "env", "bundle_id"} \subseteq Fields
  BY DEF Fields
<1>. QED BY <1>1, ContextType DEF MetricAttrs, Present

LEMMA CurrentType ==
  ASSUME TypeOK, NEW k \in Tasks
  PROVE  Current(k) \in MaybeCtx
<1>1. scope[k] \in Seq(MaybeCtx)
  BY DEF TypeOK
<1>2. CASE scope[k] = <<>>
  BY <1>2 DEF Current, MaybeCtx
<1>3. CASE scope[k] # <<>>
  BY <1>1, <1>3 DEF Current, Last
<1>. QED BY <1>2, <1>3

(* Contexts that agree on tenant, env and bundle_id have the same labels.  *)
LEMMA SameLabels ==
  ASSUME NEW c, NEW d, c["tenant"] = d["tenant"], c["env"] = d["env"],
         c["bundle_id"] = d["bundle_id"]
  PROVE  MetricAttrs(c) = MetricAttrs(d)
BY DEF MetricAttrs, Present
-----------------------------------------------------------------------------
LEMMA TypeInit == Init => TypeOK
BY DEF Init, TypeOK, MaybeCtx

LEMMA TypeNext == TypeOK /\ [Next]_vars => TypeOK'
<1>. SUFFICES ASSUME TypeOK, [Next]_vars PROVE TypeOK'
  OBVIOUS
<1>1. CASE UNCHANGED vars
  BY <1>1 DEF TypeOK, vars
<1>2. ASSUME NEW k \in Tasks, Step(k) PROVE TypeOK'
  <2>1. scope[k] \in Seq(MaybeCtx) /\ Current(k) \in MaybeCtx /\ NoCtx \in MaybeCtx
    BY CurrentType DEF TypeOK, MaybeCtx
  <2>2. CASE OpenScope(k)
    <3>1. Append(scope[k], NoCtx) \in Seq(MaybeCtx)
      BY <2>1
    <3>. QED BY <2>2, <3>1 DEF OpenScope, TypeOK
  <2>3. CASE CloseScope(k)
    <3>1. Front(scope[k]) \in Seq(MaybeCtx)
      BY <2>1, <2>3 DEF CloseScope, Front
    <3>. QED BY <2>3, <3>1 DEF CloseScope, TypeOK
  <2>4. CASE SetCurrent(k)
    <3>1. PICK c \in Contexts : scope' = IF scope[k] = <<>> THEN scope
              ELSE [scope EXCEPT ![k] = Append(Front(@), c)]
      BY <2>4 DEF SetCurrent
    <3>2. scope[k] # <<>> => Append(Front(scope[k]), c) \in Seq(MaybeCtx)
      BY <2>1 DEF Front, MaybeCtx
    <3>. QED BY <2>4, <3>1, <3>2 DEF SetCurrent, TypeOK
  <2>5. CASE Measure(k)
    BY <2>1, <2>5, LabelType DEF Measure, TypeOK
  <2>6. ASSUME NEW s \in Spans, NewSpan(k, s) PROVE TypeOK'
    BY <2>1, <2>6 DEF NewSpan, TypeOK
  <2>7. ASSUME NEW s \in Spans, LookUp(k, s) PROVE TypeOK'
    <3>1. ContextOf(k, s) \in MaybeCtx
      BY <2>1 DEF ContextOf, TypeOK
    <3>. QED BY <2>7, <3>1 DEF LookUp, TypeOK
  <2>8. CASE AnnotateSpan(k)
    <3>1. PICK c \in Handed :
             /\ attrs' = [attrs EXCEPT ![target[k]] = @ \cup Kv(c)]
             /\ given' = [given EXCEPT ![target[k]] = @ \cup {c}]
      BY <2>8 DEF AnnotateSpan
    <3>2. Kv(c) \in SUBSET (Fields \X Values)
      BY KvType DEF MaybeCtx
    <3>. QED BY <2>1, <2>8, <3>1, <3>2 DEF AnnotateSpan, TypeOK
  <2>9. CASE AnnotateCurrentSpan(k)
    <3>1. Kv(Current(k)) \in SUBSET (Fields \X Values)
      BY <2>1, KvType
    <3>. QED BY <2>1, <2>9, <3>1 DEF AnnotateCurrentSpan, TypeOK
  <2>10. CASE Release(k)
    BY <2>1, <2>10 DEF Release, Return, TypeOK
  <2>11. CASE Record(k)
    BY <2>1, <2>11 DEF Record, Return, TypeOK
  <2>. QED
    BY <1>2, <2>2, <2>3, <2>4, <2>5, <2>6, <2>7, <2>8, <2>9, <2>10, <2>11 DEF Step
<1>. QED BY <1>1, <1>2 DEF Next

(* Every variable keeps its type, and only spans that exist carry anything.*)
THEOREM TypeCorrect == Spec => []TypeOK
BY TypeInit, TypeNext, PTL DEF Spec
-----------------------------------------------------------------------------
(* The strengthening: an enter under way has looked up the span's own      *)
(* context if it has one, and a producer that is about to annotate is      *)
(* still in the scope whose context the span was created with.             *)
LookedUpOwn ==
  \A k \in Tasks, s \in Spans :
    Entering(k, s) /\ origin[s] # NoCtx => seen[k] = origin[s]

AnnotatesOwn ==
  \A k \in Tasks : pc[k] = "created" => Current(k) = origin[target[k]]

BindInv == /\ TypeOK /\ LookedUpOwn /\ AnnotatesOwn
           /\ CreatedContextSticks /\ ExportMatchesStored

LEMMA BindInit == Init => BindInv
BY TypeInit DEF Init, BindInv, LookedUpOwn, AnnotatesOwn, Entering,
                CreatedContextSticks, ExportMatchesStored

LEMMA BindNext == BindInv /\ [Next]_vars => BindInv'
<1>. SUFFICES ASSUME BindInv, [Next]_vars PROVE BindInv'
  OBVIOUS
<1>0. TypeOK /\ TypeOK'
  BY TypeNext DEF BindInv
<1>1. CASE UNCHANGED vars
  BY <1>0, <1>1 DEF BindInv, vars, LookedUpOwn, AnnotatesOwn, Entering, Current,
                    CreatedContextSticks, ExportMatchesStored
<1>2. ASSUME NEW k \in Tasks, Step(k) PROVE BindInv'
  <2>1. ASSUME pc[k] = "idle",
               UNCHANGED <<ext, attrs, origin, given, pc, target, seen>>,
               \A j \in Tasks \ {k} : scope'[j] = scope[j]
        PROVE  BindInv'
    <3>1. AnnotatesOwn'
      BY <1>0, <2>1 DEF BindInv, AnnotatesOwn, Current
    <3>. QED
      BY <1>0, <2>1, <3>1 DEF BindInv, LookedUpOwn, Entering,
                              CreatedContextSticks, ExportMatchesStored
  <2>2. CASE OpenScope(k) \/ CloseScope(k) \/ SetCurrent(k) \/ Measure(k)
    <3>1. \A j \in Tasks \ {k} : scope'[j] = scope[j]
      BY <1>0, <2>2 DEF OpenScope, CloseScope, SetCurrent, Measure, TypeOK
    <3>. QED
      BY <2>1, <2>2, <3>1 DEF OpenScope, CloseScope, SetCurrent, Measure
  <2>3. ASSUME NEW s \in Spans, NewSpan(k, s) PROVE BindInv'
    <3>1. \A j \in Tasks : pc[j] # "idle" => target[j] # s
      BY <1>0, <2>3 DEF NewSpan, TypeOK
    <3>2. /\ ext' = [ext EXCEPT ![s] = Current(k)]
          /\ origin' = [origin EXCEPT ![s] = Current(k)]
          /\ attrs' = attrs /\ attrs[s] = {} /\ given' = given
          /\ scope' = scope /\ seen' = seen
          /\ pc' = [pc EXCEPT ![k] = "created"]
          /\ target' = [target EXCEPT ![k] = s]
      BY <1>0, <2>3 DEF NewSpan, TypeOK
    <3>3. LookedUpOwn'
      BY <1>0, <3>1, <3>2 DEF BindInv, LookedUpOwn, Entering, TypeOK
    <3>4. AnnotatesOwn'
      BY <1>0, <3>1, <3>2 DEF BindInv, AnnotatesOwn, Current, TypeOK
    <3>5. CreatedContextSticks' /\ ExportMatchesStored'
      BY <1>0, <3>2 DEF BindInv, CreatedContextSticks, ExportMatchesStored, TypeOK
    <3>. QED BY <1>0, <3>3, <3>4, <3>5 DEF BindInv
  <2>4. ASSUME NEW s \in Spans, LookUp(k, s) PROVE BindInv'
    <3>1. origin[s] # NoCtx => ContextOf(k, s) = origin[s]
      BY DEF BindInv, CreatedContextSticks, ContextOf
    <3>2. LookedUpOwn'
      BY <1>0, <2>4, <3>1 DEF LookUp, BindInv, LookedUpOwn, Entering, TypeOK
    <3>3. AnnotatesOwn'
      BY <1>0, <2>4 DEF LookUp, BindInv, AnnotatesOwn, Current, TypeOK
    <3>. QED
      BY <1>0, <2>4, <3>2, <3>3 DEF LookUp, BindInv, CreatedContextSticks,
                                    ExportMatchesStored
  <2>5. ASSUME pc[k] # "idle", Return(k), UNCHANGED <<origin, scope>>
        PROVE  LookedUpOwn' /\ AnnotatesOwn'
    BY <1>0, <2>5 DEF Return, BindInv, LookedUpOwn, AnnotatesOwn, Entering,
                      Current, TypeOK
  <2>6. CASE AnnotateSpan(k)
    <3>1. PICK c \in Handed :
             /\ attrs' = [attrs EXCEPT ![target[k]] = @ \cup Kv(c)]
             /\ given' = [given EXCEPT ![target[k]] = @ \cup {c}]
      BY <2>6 DEF AnnotateSpan
    <3>2. target[k] \in Spans
      BY <1>0, <2>6 DEF AnnotateSpan, TypeOK
    <3>3. given'[target[k]] # {} /\ c \in given'[target[k]]
      BY <1>0, <3>1, <3>2 DEF TypeOK
    <3>4. \A s \in Spans : given[s] \subseteq given'[s]
      BY <1>0, <3>1, <3>2 DEF TypeOK
    <3>5. \A s \in Spans : attrs'[s] \subseteq attrs[s] \cup UNION {Kv(d) : d \in given'[s]}
      BY <1>0, <3>1, <3>2, <3>3 DEF TypeOK
    <3>6. \A s \in Spans \ {target[k]} : given'[s] = given[s] /\ attrs'[s] = attrs[s]
      BY <1>0, <3>1, <3>2 DEF TypeOK
    <3>7. ExportMatchesStored'
      BY <2>6, <3>3, <3>4, <3>5, <3>6 DEF AnnotateSpan, BindInv, ExportMatchesStored
    <3>. QED
      BY <1>0, <2>6, <3>7 DEF AnnotateSpan, BindInv, LookedUpOwn, AnnotatesOwn,
                              Entering, Current, CreatedContextSticks
  <2>7. CASE AnnotateCurrentSpan(k)
    <3>1. target[k] \in Spans /\ Current(k) = origin[target[k]]
      BY <1>0, <2>7 DEF AnnotateCurrentSpan, BindInv, AnnotatesOwn, TypeOK
    <3>2. Current(k) # NoCtx => Current(k) = ext[target[k]]
      BY <3>1 DEF BindInv, CreatedContextSticks
    <3>3. Current(k) = NoCtx => attrs' = attrs
      BY <1>0, <2>7, NothingToExport DEF AnnotateCurrentSpan, TypeOK
    <3>4. ExportMatchesStored'
      <4>1. CASE Current(k) = NoCtx
        BY <2>7, <3>3, <4>1 DEF AnnotateCurrentSpan, BindInv, ExportMatchesStored
      <4>2. CASE Current(k) # NoCtx
        <5>1. attrs' = [attrs EXCEPT ![target[k]] = @ \cup Kv(ext[target[k]])]
          BY <2>7, <3>2, <4>2 DEF AnnotateCurrentSpan
        <5>2. Kv(ext[target[k]]) = Kv(origin[target[k]])
          BY <3>1, <3>2, <4>2
        <5>3. /\ attrs'[target[k]] = attrs[target[k]] \cup Kv(ext[target[k]])
              /\ \A s \in Spans \ {target[k]} : attrs'[s] = attrs[s]
          BY <1>0, <3>1, <5>1 DEF TypeOK
        <5>4. ext' = ext /\ origin' = origin /\ given' = given
          BY <2>7 DEF AnnotateCurrentSpan
        <5>5. /\ attrs[target[k]] \subseteq Kv(origin[target[k]])
                   \cup UNION {Kv(c) : c \in given[target[k]]}
              /\ given[target[k]] = {} => attrs[target[k]] \subseteq Kv(ext[target[k]])
          BY <3>1, <5>2 DEF BindInv, ExportMatchesStored
        <5>. QED
          BY <3>1, <5>2, <5>3, <5>4, <5>5 DEF BindInv, ExportMatchesStored
      <4>. QED BY <4>1, <4>2
    <3>. QED
      BY <1>0, <2>7, <3>4 DEF AnnotateCurrentSpan, BindInv, LookedUpOwn, AnnotatesOwn,
                              Entering, Current, CreatedContextSticks
  <2>8. CASE Release(k)
    BY <1>0, <2>5, <2>8 DEF Release, BindInv, CreatedContextSticks,
                            ExportMatchesStored
  <2>9. CASE Record(k)
    <3>1. Entering(k, target[k]) /\ target[k] \in Spans
      BY <1>0, <2>9 DEF Record, Entering, TypeOK
    <3>2. origin[target[k]] # NoCtx => seen[k] = origin[target[k]]
      BY <3>1 DEF BindInv, LookedUpOwn
    <3>3. CreatedContextSticks'
      BY <1>0, <2>9, <3>1, <3>2 DEF Record, BindInv, CreatedContextSticks, TypeOK
    <3>4. \A s \in Spans : origin[s] # NoCtx => ext'[s] = ext[s]
      BY <1>0, <2>9, <3>3 DEF Record, BindInv, CreatedContextSticks
    <3>5. \A s \in Spans : origin[s] = NoCtx /\ given[s] = {} => attrs[s] = {}
      BY NothingToExport DEF BindInv, ExportMatchesStored
    <3>6. ExportMatchesStored'
      BY <2>9, <3>4, <3>5 DEF Record, BindInv, ExportMatchesStored
    <3>. QED BY <1>0, <2>5, <2>9, <3>3, <3>6 DEF Record, BindInv
  <2>. QED
    BY <1>2, <2>2, <2>3, <2>4, <2>6, <2>7, <2>8, <2>9 DEF Step
<1>. QED BY <1>1, <1>2 DEF Next

LEMMA BindCorrect == Spec => []BindInv
BY BindInit, BindNext, PTL DEF Spec

(* The context a span was created with stays with it for good.             *)
THEOREM ContextSticks == Spec => []CreatedContextSticks
<1>1. BindInv => CreatedContextSticks
  BY DEF BindInv
<1>. QED BY <1>1, BindCorrect, PTL

(* A span exports the context it was created with and those its producer   *)
(* handed to annotate_span; if there were none of these, what it exports is*)
(* what it carries.                                                        *)
THEOREM ExportMatches == Spec => []ExportMatchesStored
<1>1. BindInv => ExportMatchesStored
  BY DEF BindInv
<1>. QED BY <1>1, BindCorrect, PTL
-----------------------------------------------------------------------------
LEMMA SettledNext ==
  ASSUME TypeOK, [Next]_vars, NEW s \in Spans, Settled(s)
  PROVE  ext'[s] = ext[s] /\ Settled(s)'
<1>1. CASE UNCHANGED vars
  BY <1>1 DEF vars, Settled, Entering
<1>2. ASSUME NEW k \in Tasks, Step(k) PROVE ext'[s] = ext[s] /\ Settled(s)'
  <2>1. ASSUME ext'[s] = ext[s], UNCHANGED <<pc, target, seen>>
        PROVE  Settled(s)'
    BY <2>1 DEF Settled, Entering
  <2>2. CASE OpenScope(k) \/ CloseScope(k) \/ SetCurrent(k) \/ Measure(k)
    BY <2>1, <2>2 DEF OpenScope, CloseScope, SetCurrent, Measure
  <2>3. ASSUME NEW u \in Spans, NewSpan(k, u) PROVE ext'[s] = ext[s] /\ Settled(s)'
    <3>1. u # s
      BY <2>3 DEF NewSpan, Settled, TypeOK
    <3>. QED BY <2>3, <3>1 DEF NewSpan, Settled, Entering, TypeOK
  <2>4. ASSUME NEW u \in Spans, LookUp(k, u) PROVE ext'[s] = ext[s] /\ Settled(s)'
    BY <2>4 DEF LookUp, ContextOf, Settled, Entering, TypeOK
  <2>5. ASSUME Return(k), ext'[s] = ext[s] PROVE Settled(s)'
    BY <2>5 DEF Return, Settled, Entering, TypeOK
  <2>6. CASE AnnotateSpan(k) \/ AnnotateCurrentSpan(k) \/ Release(k)
    BY <2>1, <2>5, <2>6 DEF AnnotateSpan, AnnotateCurrentSpan, Release
  <2>7. CASE Record(k)
    <3>1. ext'[s] = ext[s]
      BY <2>7 DEF Record, Settled, Entering, TypeOK
    <3>. QED BY <2>5, <2>7, <3>1 DEF Record
  <2>. QED BY <1>2, <2>2, <2>3, <2>4, <2>6, <2>7 DEF Step
<1>. QED BY <1>1, <1>2 DEF Next

(* Once the enters under way agree with a span, its context is final.      *)
THEOREM SettledFinal == Spec => SettledIsFinal
<1>1. TypeOK /\ [Next]_vars =>
        [\A s \in Spans : Settled(s) => ext'[s] = ext[s] /\ Settled(s)']_vars
  BY SettledNext
<1>. QED BY <1>1, TypeCorrect, PTL DEF Spec, SettledIsFinal
-----------------------------------------------------------------------------
(* Every label set recorded is that of a context of the application.       *)
SeriesInv == TypeOK /\ \A a \in series : \E c \in Contexts : a = MetricAttrs(c)

LEMMA SeriesNext == SeriesInv /\ [Next]_vars => SeriesInv'
<1>. SUFFICES ASSUME SeriesInv, [Next]_vars PROVE SeriesInv'
  OBVIOUS
<1>0. TypeOK /\ TypeOK'
  BY TypeNext DEF SeriesInv
<1>1. CASE UNCHANGED vars
  BY <1>0, <1>1 DEF SeriesInv, vars
<1>2. ASSUME NEW k \in Tasks, Measure(k) PROVE SeriesInv'
  <2>1. Current(k) \in Contexts
    BY <1>0, <1>2, CurrentType DEF Measure, MaybeCtx
  <2>. QED BY <1>0, <1>2, <2>1 DEF Measure, SeriesInv
<1>3. ASSUME NEW k \in Tasks, Step(k), ~Measure(k) PROVE SeriesInv'
  <2>1. series' = series
    BY <1>3 DEF Step, OpenScope, CloseScope, SetCurrent, NewSpan, LookUp,
                AnnotateSpan, AnnotateCurrentSpan, Release, Record
  <2>. QED BY <1>0, <2>1 DEF SeriesInv
<1>. QED BY <1>1, <1>2, <1>3 DEF Next

LEMMA SeriesCount == SeriesInv => SeriesBounded
<1>. SUFFICES ASSUME SeriesInv PROVE SeriesBounded
  OBVIOUS
<1>. DEFINE Place(c)  == <<c["tenant"], c["env"], c["bundle_id"]>>
            Labels(p) == MetricAttrs(CHOOSE c \in Contexts : Place(c) = p)
            Image == {Labels(p) : p \in Topology}
            fold == [p \in Topology |-> Labels(p)]
            place == [c \in Contexts |-> Place(c)]
<1>1. place \in Surjection(Contexts, Topology)
  BY DEF Surjection, Topology
<1>2. IsFiniteSet(Topology)
  BY <1>1, FS_Surjection
<1>3. fold \in Surjection(Topology, Image)
  BY DEF Surjection
<1>4. IsFiniteSet(Image) /\ Cardinality(Image) <= Cardinality(Topology)
  BY <1>2, <1>3, FS_Surjection
<1>5. series \subseteq Image
  <2>1. SUFFICES ASSUME NEW c \in Contexts PROVE MetricAttrs(c) \in Image
    BY DEF SeriesInv
  <2>2. Place(c) \in Topology
    BY DEF Topology
  <2>3. PICK d \in Contexts : d = CHOOSE e \in Contexts : Place(e) = Place(c)
    OBVIOUS
  <2>4. Place(d) = Place(c)
    BY <2>3
  <2>5. MetricAttrs(d) = MetricAttrs(c)
    BY <2>4, SameLabels
  <2>. QED BY <2>2, <2>3, <2>5
<1>6. Cardinality(series) <= Cardinality(Image)
  BY <1>4, <1>5, FS_Subset
<1>7. /\ Cardinality(series) \in Nat /\ Cardinality(Image) \in Nat
      /\ Cardinality(Topology) \in Nat
  BY <1>2, <1>4, <1>5, FS_Subset, FS_CardinalityType
<1>. QED BY <1>4, <1>6, <1>7 DEF SeriesBounded

(* Policy B11: at most one time series per tenant, environment and bundle. *)
THEOREM SeriesAreBounded == Spec => []SeriesBounded
<1>1. Init => SeriesInv
  BY TypeInit DEF Init, SeriesInv
<1>. QED BY <1>1, SeriesNext, SeriesCount, PTL DEF Spec
=============================================================================

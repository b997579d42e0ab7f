--------------------------- MODULE GuestSpansProofs ---------------------------
(***************************************************************************)
(* Theorems about GuestSpans, for every set of threads, every number of    *)
(* spans and every set of levels.                                          *)
(***************************************************************************)
EXTENDS GuestSpans, TLAPS

USE MaxSpansAssumption, LevelsAssumption DEF Ids

-----------------------------------------------------------------------------
(* The strengthening: a span is open on one thread, or dropped, and not    *)
(* both; an id that is being started is new to all of them, and to the     *)
(* other threads that start one.                                           *)
OpenOnce ==
  \A t \in Threads :
    /\ open[t] \cap dropped = {}
    /\ \A u \in Threads : u # t => open[t] \cap open[u] = {}

StartsFresh ==
  \A t \in Threads : pc[t] = "insert" =>
    /\ arg[t] \in Ids /\ arg[t] \notin registry
    /\ \A u \in Threads : pc[u] = "insert" /\ u # t => arg[u] # arg[t]

(* RegistryIsOpen, id by id.                                               *)
Registered ==
  \A id \in Ids : id \in registry <=> id \in dropped \/ \E t \in Threads : id \in open[t]

GInv == TypeOK /\ OpenOnce /\ StartsFresh /\ Registered /\ NeverUnknown

LEMMA GInit == Init => GInv
BY DEF Init, GInv, TypeOK, OpenOnce, StartsFresh, Registered, NeverUnknown

LEMMA TakeKeeps ==
  ASSUME GInv, NEW t \in Threads, TakeId(t)
  PROVE  GInv'
<1>. USE DEF GInv, TakeId
<1>1. TypeOK'
  <2>1. nextId' \in 1 .. MaxSpans + 1 /\ nextId' = nextId + 1
    BY DEF TypeOK
  <2>2. 1 .. nextId - 1 \subseteq 1 .. nextId' - 1
    BY <2>1 DEF TypeOK
  <2>3. arg' \in [Threads -> 0 .. MaxSpans]
    BY DEF TypeOK
  <2>4. open' \in [Threads -> SUBSET (1 .. nextId' - 1)]
    BY <2>2 DEF TypeOK
  <2>5. \A u \in Threads : pc'[u] = "insert" => arg'[u] < nextId'
    BY <2>1 DEF TypeOK
  <2>. QED BY <2>1, <2>2, <2>3, <2>4, <2>5 DEF TypeOK
<1>2. OpenOnce'
  BY DEF OpenOnce
<1>3. StartsFresh'
  BY DEF TypeOK, StartsFresh
<1>4. Registered' /\ NeverUnknown'
  BY DEF Registered, NeverUnknown
<1>. QED BY <1>1, <1>2, <1>3, <1>4

LEMMA InsertKeeps ==
  ASSUME GInv, NEW t \in Threads, InsertSpan(t)
  PROVE  GInv'
<1>. USE DEF GInv, InsertSpan
<1>1. arg[t] \in 1 .. nextId - 1 /\ arg[t] \notin registry
  BY DEF TypeOK, StartsFresh
<1>2. arg[t] \notin dropped /\ \A u \in Threads : arg[t] \notin open[u]
  BY <1>1 DEF TypeOK, StartsFresh, Registered
<1>3. open' \in [Threads -> SUBSET (1 .. nextId - 1)]
      /\ open'[t] = open[t] \cup {arg[t]}
      /\ \A u \in Threads : u # t => open'[u] = open[u]
  BY <1>1 DEF TypeOK
<1>4. TypeOK'
  BY <1>1, <1>3 DEF TypeOK
<1>5. OpenOnce'
  BY <1>2, <1>3 DEF OpenOnce
<1>6. StartsFresh'
  <2>1. \A u \in Threads : pc'[u] = "insert" => u # t /\ pc[u] = "insert" /\ arg[u] # arg[t]
    BY DEF TypeOK, StartsFresh
  <2>. QED BY <2>1 DEF StartsFresh
<1>7. Registered'
  BY <1>3 DEF Registered
<1>8. NeverUnknown'
  BY DEF NeverUnknown
<1>. QED BY <1>4, <1>5, <1>6, <1>7, <1>8

LEMMA EndKeeps ==
  ASSUME GInv, NEW t \in Threads, NEW u \in Threads, NEW id \in Ids, EndSpan(t, u, id)
  PROVE  GInv'
<1>. USE DEF GInv, EndSpan
<1>1. id \in open[u] /\ id \in registry /\ id \notin dropped
      /\ id \in 1 .. nextId - 1
      /\ \A v \in Threads : v # u => id \notin open[v]
  BY DEF TypeOK, OpenOnce, Registered
<1>2. open' \in [Threads -> SUBSET (1 .. nextId - 1)]
      /\ open'[u] = open[u] \ {id}
      /\ \A v \in Threads : v # u => open'[v] = open[v]
  BY DEF TypeOK
<1>3. \/ registry' = registry \ {id} /\ dropped' = dropped
      \/ registry' = registry /\ dropped' = dropped \cup {id}
  OBVIOUS
<1>4. unknown' = unknown /\ nextId' = nextId /\ pc' = pc /\ arg' = arg /\ minLevel' = minLevel
  BY <1>1
<1>5. TypeOK'
  BY <1>1, <1>2, <1>3, <1>4 DEF TypeOK
<1>6. OpenOnce'
  <2>. SUFFICES ASSUME NEW v \in Threads
       PROVE  /\ open'[v] \cap dropped' = {}
              /\ \A w \in Threads : w # v => open'[v] \cap open'[w] = {}
    BY DEF OpenOnce
  <2>1. id \notin open'[v]
    BY <1>1, <1>2
  <2>2. \A w \in Threads : open'[w] \subseteq open[w]
    BY <1>2
  <2>. QED BY <1>3, <2>1, <2>2 DEF OpenOnce
<1>7. StartsFresh'
  BY <1>3, <1>4 DEF StartsFresh
<1>8. Registered'
  <2>. SUFFICES ASSUME NEW i \in Ids
       PROVE  i \in registry' <=> i \in dropped' \/ \E v \in Threads : i \in open'[v]
    BY DEF Registered
  <2>1. CASE i = id
    <3>1. \A v \in Threads : id \notin open'[v]
      BY <1>1, <1>2
    <3>. QED BY <1>1, <1>3, <2>1, <3>1
  <2>2. CASE i # id
    <3>1. \A v \in Threads : i \in open'[v] <=> i \in open[v]
      BY <1>2, <2>2
    <3>2. (i \in registry' <=> i \in registry) /\ (i \in dropped' <=> i \in dropped)
      BY <1>3, <2>2
    <3>. QED BY <3>1, <3>2 DEF Registered
  <2>. QED BY <2>1, <2>2
<1>9. NeverUnknown'
  BY <1>4 DEF NeverUnknown
<1>. QED BY <1>5, <1>6, <1>7, <1>8, <1>9

LEMMA GNext == GInv /\ [Next]_vars => GInv'
<1>. SUFFICES ASSUME GInv, [Next]_vars PROVE GInv'
  OBVIOUS
<1>. USE DEF GInv
<1>1. CASE UNCHANGED vars
  BY <1>1 DEF vars, TypeOK, OpenOnce, StartsFresh, Registered, NeverUnknown
<1>2. ASSUME NEW level \in Levels, SetMinLevel(level) PROVE GInv'
  BY <1>2 DEF SetMinLevel, TypeOK, OpenOnce, StartsFresh, Registered, NeverUnknown
<1>3. ASSUME NEW t \in Threads, TakeId(t) PROVE GInv'
  BY <1>3, TakeKeeps
<1>4. ASSUME NEW t \in Threads, InsertSpan(t) PROVE GInv'
  BY <1>4, InsertKeeps
<1>5. ASSUME NEW t \in Threads, NEW u \in Threads, NEW id \in Ids, EndSpan(t, u, id)
      PROVE  GInv'
  BY <1>5, EndKeeps
<1>. QED BY <1>1, <1>2, <1>3, <1>4, <1>5 DEF Next

LEMMA GInvariance == Spec => []GInv
BY GInit, GNext, PTL DEF Spec
-----------------------------------------------------------------------------
(* Every variable keeps its type, and no id in use can be taken again.     *)
THEOREM TypeCorrect == Spec => []TypeOK
<1>1. GInv => TypeOK
  BY DEF GInv
<1>. QED BY <1>1, GInvariance, PTL

(* The registry holds the open spans and those whose end was filtered out, *)
(* and no other.                                                           *)
THEOREM RegistryAlwaysOpen == Spec => []RegistryIsOpen
<1>1. GInv => RegistryIsOpen
  <2>. SUFFICES ASSUME GInv PROVE RegistryIsOpen
    OBVIOUS
  <2>1. registry \subseteq Ids /\ dropped \subseteq Ids
        /\ \A t \in Threads : open[t] \subseteq Ids
    BY DEF GInv, TypeOK
  <2>2. \A id : id \in registry <=> id \in dropped \cup UNION {open[t] : t \in Threads}
    BY <2>1 DEF GInv, Registered
  <2>. QED BY <2>2 DEF RegistryIsOpen
<1>. QED BY <1>1, GInvariance, PTL

(* A span that is ended once is never reported as unknown.                 *)
THEOREM NeverReportsUnknown == Spec => []NeverUnknown
<1>1. GInv => NeverUnknown
  BY DEF GInv
<1>. QED BY <1>1, GInvariance, PTL
=============================================================================

-------------------------- MODULE GuestBridgeProofs --------------------------
(***************************************************************************)
(* Theorems about HostSpans and, on top of it, GuestBridge.                *)
(*                                                                         *)
(* First the host alone, for every set of threads, every number of spans   *)
(* and callers that end any id on any thread: ids are never shared, the    *)
(* map keeps no span open by itself, and SpanTree is implemented.          *)
(*                                                                         *)
(* Then the guests: every one of their steps is a step of the host or      *)
(* invisible to it, so what holds of the host for any callers holds here,  *)
(* too; and unless a guest lost the end of a span by moving its level, the *)
(* host has entered what the guest has open, and nothing else.             *)
(***************************************************************************)
EXTENDS GuestBridge, TLAPS

USE MaxSpansAssumption DEF Ids


-----------------------------------------------------------------------------
(* What entering and leaving do to a stack.                                *)

LEMMA AppendElements ==
  ASSUME NEW S, NEW s \in Seq(S), NEW x \in S
  PROVE  /\ Append(s, x) \in Seq(S)
         /\ Len(Append(s, x)) = Len(s) + 1
         /\ \A i \in 1 .. Len(s) : Append(s, x)[i] = s[i]
         /\ Append(s, x)[Len(s) + 1] = x
OBVIOUS

LEMMA FrontElements ==
  ASSUME NEW S, NEW s \in Seq(S), s # <<>>
  PROVE  /\ Front(s) \in Seq(S)
         /\ Len(Front(s)) = Len(s) - 1
         /\ Len(s) \in 1 .. Len(s) /\ Last(s) = s[Len(s)]
         /\ \A i \in 1 .. Len(s) - 1 : Front(s)[i] = s[i]
<1>1. PICK n \in Nat : Len(s) = n + 1
  <2>1. Len(s) \in Nat /\ Len(s) # 0
    OBVIOUS
  <2>. WITNESS Len(s) - 1 \in Nat
  <2>. QED BY <2>1
<1>2. Front(s) = SubSeq(s, 1, n) /\ Last(s) = s[Len(s)]
  BY <1>1 DEF Front, Last
<1>3. SubSeq(s, 1, n) \in Seq(S) /\ Len(SubSeq(s, 1, n)) = n
  BY <1>1
<1>4. \A i \in 1 .. n : SubSeq(s, 1, n)[i] = s[i]
  BY <1>1
<1>. QED BY <1>1, <1>2, <1>3, <1>4
-----------------------------------------------------------------------------
(* The strengthening.  Ids on a stack were taken from the counter; an id   *)
(* that is being started is on no stack, younger than all on its own one   *)
(* and started by one thread; and an id that is being ended and is in the  *)
(* map again, for another thread only now starts it, is not on the stack   *)
(* of the thread that ends it.                                             *)
Starts(t) == pc[t] \in {"insert", "push"}
Pops(t)   == pc[t] \in {"popKnown", "popUnknown"}
On(id, t) == \E i \in 1 .. Len(stack[t]) : stack[t][i] = id

StacksTaken ==
  \A t \in Threads : \A i \in 1 .. Len(stack[t]) : stack[t][i] < nextId

StartsFresh ==
  \A t \in Threads : Starts(t) =>
    /\ arg[t] \in Ids
    /\ \A u \in Threads : \A i \in 1 .. Len(stack[u]) : stack[u][i] # arg[t]
    /\ \A i \in 1 .. Len(stack[t]) : stack[t][i] < arg[t]
    /\ \A u \in Threads : Starts(u) /\ u # t => arg[u] # arg[t]

PopsClosed ==
  \A t \in Threads : Pops(t) =>
    /\ arg[t] \in Ids
    /\ arg[t] \in spans =>
         \A i \in 1 .. Len(stack[t]) : stack[t][i] # arg[t]

HInv == /\ TypeOK /\ StacksTaken /\ StartsFresh /\ PopsClosed
        /\ OneSpanPerId /\ OpenIsEntered

LEMMA HInit == Init => HInv
BY DEF Init, HInv, TypeOK, StacksTaken, StartsFresh, PopsClosed, OneSpanPerId,
       OpenIsEntered, Starts, Pops

(* Each step keeps the invariant.  Taking an id makes it fresh for the     *)
(* thread that starts with it.                                             *)
LEMMA TakeKeeps ==
  ASSUME HInv, NEW t \in Threads, TakeId(t)
  PROVE  HInv'
<1>. USE DEF HInv, TakeId, Goto
<1>1. TypeOK'
  BY DEF TypeOK
<1>2. StacksTaken'
  BY DEF TypeOK, StacksTaken
<1>3. StartsFresh'
  BY DEF TypeOK, StacksTaken, StartsFresh, Starts
<1>4. PopsClosed'
  BY DEF TypeOK, PopsClosed, Pops
<1>5. OneSpanPerId'
  BY DEF OneSpanPerId
<1>6. OpenIsEntered'
  BY DEF TypeOK, OpenIsEntered, Entered, Starting
<1>. QED BY <1>1, <1>2, <1>3, <1>4, <1>5, <1>6

LEMMA InsertKeeps ==
  ASSUME HInv, NEW t \in Threads, InsertSpan(t)
  PROVE  HInv'
<1>. USE DEF HInv, InsertSpan, Goto
<1>1. TypeOK'
  <2>1. arg[t] \in 1 .. nextId - 1
    BY DEF TypeOK, StartsFresh, Starts
  <2>. QED BY <2>1 DEF TypeOK
<1>2. StacksTaken'
  BY DEF StacksTaken
<1>3. StartsFresh'
  BY DEF TypeOK, StartsFresh, Starts
<1>4. PopsClosed'
  BY DEF TypeOK, StartsFresh, Starts, PopsClosed, Pops
<1>5. OneSpanPerId'
  BY DEF OneSpanPerId
<1>6. OpenIsEntered'
  BY DEF TypeOK, OpenIsEntered, Entered, Starting
<1>. QED BY <1>1, <1>2, <1>3, <1>4, <1>5, <1>6

LEMMA PushKeeps ==
  ASSUME HInv, NEW t \in Threads, PushSpan(t)
  PROVE  HInv'
<1>. USE DEF HInv, PushSpan, Goto
<1>1. stack[t] \in Seq(Ids) /\ arg[t] \in Ids
  BY DEF TypeOK, StartsFresh, Starts
<1>2. /\ Append(stack[t], arg[t]) \in Seq(Ids)
      /\ Len(stack'[t]) = Len(stack[t]) + 1 /\ Len(stack[t]) \in Nat
      /\ \A i \in 1 .. Len(stack[t]) : stack'[t][i] = stack[t][i]
      /\ stack'[t][Len(stack[t]) + 1] = arg[t]
      /\ \A u \in Threads : u # t => stack'[u] = stack[u]
  <2>1. stack'[t] = Append(stack[t], arg[t])
    BY DEF TypeOK
  <2>2. \A u \in Threads : u # t => stack'[u] = stack[u]
    BY DEF TypeOK
  <2>. QED BY <1>1, <2>1, <2>2, AppendElements
<1>3. TypeOK'
  BY <1>2 DEF TypeOK
<1>4. StacksTaken'
  BY <1>2 DEF TypeOK, StacksTaken
<1>5. StartsFresh'
  <2>. SUFFICES ASSUME NEW u \in Threads, Starts(u)'
       PROVE  /\ arg'[u] \in Ids
              /\ \A v \in Threads : \A i \in 1 .. Len(stack'[v]) : stack'[v][i] # arg'[u]
              /\ \A i \in 1 .. Len(stack'[u]) : stack'[u][i] < arg'[u]
              /\ \A v \in Threads : Starts(v)' /\ v # u => arg'[v] # arg'[u]
    BY DEF StartsFresh
  <2>1. u # t /\ Starts(u) /\ Starts(t) /\ arg[u] # arg[t]
    BY DEF TypeOK, StartsFresh, Starts
  <2>2. \A v \in Threads : Starts(v)' => Starts(v)
    BY DEF TypeOK, Starts
  <2>3. \A v \in Threads : \A i \in 1 .. Len(stack'[v]) : stack'[v][i] # arg[u]
    <3>. SUFFICES ASSUME NEW v \in Threads, NEW i \in 1 .. Len(stack'[v])
         PROVE  stack'[v][i] # arg[u]
      OBVIOUS
    <3>1. CASE v # t
      BY <1>2, <2>1, <3>1 DEF StartsFresh
    <3>2. CASE v = t /\ i \in 1 .. Len(stack[t])
      BY <1>2, <2>1, <3>2 DEF StartsFresh
    <3>3. CASE v = t /\ i = Len(stack[t]) + 1
      BY <1>2, <2>1, <3>3
    <3>. QED BY <1>2, <3>1, <3>2, <3>3
  <2>. QED BY <1>2, <2>1, <2>2, <2>3 DEF StartsFresh
<1>6. PopsClosed'
  <2>1. \A u \in Threads : Pops(u)' => u # t /\ Pops(u)
    BY DEF TypeOK, Pops
  <2>. QED BY <1>2, <2>1 DEF PopsClosed
<1>7. OneSpanPerId'
  <2>. SUFFICES ASSUME NEW u \in Threads, NEW v \in Threads,
                       NEW i \in 1 .. Len(stack'[u]), NEW j \in 1 .. Len(stack'[v])
       PROVE  IF u = v THEN i < j => stack'[u][i] < stack'[v][j]
                       ELSE stack'[u][i] # stack'[v][j]
    BY DEF OneSpanPerId
  <2>1. Starts(t)
    BY DEF Starts
  <2>2. CASE u # t /\ v # t
    BY <1>2, <2>2 DEF OneSpanPerId
  <2>3. CASE u = t /\ v = t
    BY <1>2, <2>1, <2>3 DEF OneSpanPerId, StartsFresh
  <2>4. CASE u = t /\ v # t
    <3>1. CASE i \in 1 .. Len(stack[t])
      <4>1. stack[t][i] # stack[v][j]
        BY <1>2, <2>4, <3>1 DEF OneSpanPerId
      <4>. QED BY <1>2, <2>4, <3>1, <4>1
    <3>2. CASE i = Len(stack[t]) + 1
      BY <1>2, <2>1, <2>4, <3>2 DEF StartsFresh
    <3>. QED BY <1>2, <2>4, <3>1, <3>2
  <2>5. CASE u # t /\ v = t
    <3>1. CASE j \in 1 .. Len(stack[t])
      BY <1>2, <2>5, <3>1 DEF OneSpanPerId
    <3>2. CASE j = Len(stack[t]) + 1
      BY <1>2, <2>1, <2>5, <3>2 DEF StartsFresh
    <3>. QED BY <1>2, <2>5, <3>1, <3>2
  <2>. QED BY <2>2, <2>3, <2>4, <2>5
<1>8. OpenIsEntered'
  <2>. SUFFICES ASSUME NEW id \in spans PROVE Entered(id)' \/ Starting(id)'
    BY DEF OpenIsEntered
  <2>1. CASE Entered(id)
    <3>1. PICK u \in Threads : \E i \in 1 .. Len(stack[u]) : stack[u][i] = id
      BY <2>1 DEF Entered
    <3>2. \E i \in 1 .. Len(stack'[u]) : stack'[u][i] = id
      BY <1>2, <3>1
    <3>. QED BY <3>2 DEF Entered
  <2>2. CASE Starting(id)
    <3>1. PICK u \in Threads : pc[u] \in {"insert", "push"} /\ arg[u] = id
      BY <2>2 DEF Starting
    <3>2. CASE u = t
      <4>1. Len(stack[t]) + 1 \in 1 .. Len(stack'[t])
        BY <1>2
      <4>. QED BY <1>2, <3>1, <3>2, <4>1 DEF Entered
    <3>3. CASE u # t
      <4>1. pc'[u] = pc[u] /\ arg'[u] = arg[u]
        BY <3>3 DEF TypeOK
      <4>. QED BY <3>1, <4>1 DEF Starting
    <3>. QED BY <3>2, <3>3
  <2>. QED BY <2>1, <2>2 DEF OpenIsEntered
<1>. QED BY <1>3, <1>4, <1>5, <1>6, <1>7, <1>8

LEMMA RemoveKeeps ==
  ASSUME HInv, NEW t \in Threads, NEW id \in Ids, RemoveSpan(t, id)
  PROVE  HInv'
<1>. USE DEF HInv, RemoveSpan, Goto
<1>1. TypeOK'
  BY DEF TypeOK
<1>2. StacksTaken'
  BY DEF StacksTaken
<1>3. StartsFresh'
  BY DEF TypeOK, StartsFresh, Starts
<1>4. PopsClosed'
  BY DEF TypeOK, PopsClosed, Pops
<1>5. OneSpanPerId'
  BY DEF OneSpanPerId
<1>6. OpenIsEntered'
  BY DEF TypeOK, OpenIsEntered, Entered, Starting
<1>. QED BY <1>1, <1>2, <1>3, <1>4, <1>5, <1>6

(* What a pop does: the top, which no map and no other stack holds, goes.  *)
LEMMA PopStack ==
  ASSUME HInv, NEW t \in Threads, PopSpan(t)
  PROVE  \/ UNCHANGED stack
         \/ /\ stack[t] # <<>> /\ stack' = [stack EXCEPT ![t] = Front(@)]
            /\ stack'[t] \in Seq(Ids) /\ Len(stack[t]) \in Nat \ {0}
            /\ Len(stack'[t]) = Len(stack[t]) - 1
            /\ \A i \in 1 .. Len(stack[t]) - 1 : stack'[t][i] = stack[t][i]
            /\ stack[t][Len(stack[t])] = arg[t] /\ Last(stack[t]) = arg[t]
            /\ \A u \in Threads : u # t => stack'[u] = stack[u]
            /\ arg[t] \notin spans
<1>1. CASE OnTop(t, arg[t])
  <2>1. stack' = [stack EXCEPT ![t] = Front(@)]
    BY <1>1 DEF PopSpan
  <2>2. stack[t] \in Seq(Ids) /\ stack[t] # <<>> /\ Last(stack[t]) = arg[t]
    BY <1>1 DEF HInv, TypeOK, OnTop
  <2>3. /\ Front(stack[t]) \in Seq(Ids) /\ Len(Front(stack[t])) = Len(stack[t]) - 1
        /\ Len(stack[t]) \in 1 .. Len(stack[t]) /\ Last(stack[t]) = stack[t][Len(stack[t])]
        /\ \A i \in 1 .. Len(stack[t]) - 1 : Front(stack[t])[i] = stack[t][i]
    BY <2>2, FrontElements
  <2>4. stack'[t] = Front(stack[t]) /\ \A u \in Threads : u # t => stack'[u] = stack[u]
    BY <2>1 DEF HInv, TypeOK
  <2>5. arg[t] \notin spans
    BY <2>2, <2>3 DEF HInv, PopsClosed, Pops, PopSpan
  <2>6. Len(stack[t]) \in Nat \ {0}
    BY <2>2, <2>3
  <2>. QED BY <2>1, <2>2, <2>3, <2>4, <2>5, <2>6
<1>2. CASE ~OnTop(t, arg[t])
  BY <1>2 DEF PopSpan
<1>. QED BY <1>1, <1>2

LEMMA PopKeeps ==
  ASSUME HInv, NEW t \in Threads, PopSpan(t)
  PROVE  HInv'
<1>. USE DEF HInv
<1>1. /\ UNCHANGED <<nextId, spans, arg>> /\ pc' = [pc EXCEPT ![t] = "idle"]
      /\ pc[t] \in {"popKnown", "popUnknown"}
      /\ \A u \in Threads : Starts(u)' <=> Starts(u)
      /\ \A u \in Threads : Pops(u)' => Pops(u)
  BY DEF PopSpan, Goto, TypeOK, Starts, Pops
<1>2. /\ stack' \in [Threads -> Seq(Ids)]
      /\ \A u \in Threads : \A i \in 1 .. Len(stack'[u]) :
           i \in 1 .. Len(stack[u]) /\ stack'[u][i] = stack[u][i]
  <2>1. CASE UNCHANGED stack
    BY <2>1 DEF TypeOK
  <2>2. CASE /\ stack' = [stack EXCEPT ![t] = Front(@)] /\ stack'[t] \in Seq(Ids)
             /\ Len(stack[t]) \in Nat \ {0} /\ Len(stack'[t]) = Len(stack[t]) - 1
             /\ \A i \in 1 .. Len(stack[t]) - 1 : stack'[t][i] = stack[t][i]
             /\ \A u \in Threads : u # t => stack'[u] = stack[u]
    <3>1. stack' \in [Threads -> Seq(Ids)]
      BY <2>2 DEF TypeOK
    <3>2. ASSUME NEW u \in Threads, NEW i \in 1 .. Len(stack'[u])
          PROVE  i \in 1 .. Len(stack[u]) /\ stack'[u][i] = stack[u][i]
      <4>1. CASE u = t
        BY <2>2, <4>1
      <4>2. CASE u # t
        <5>1. stack'[u] = stack[u]
          BY <2>2, <4>2
        <5>. QED BY <5>1
      <4>. QED BY <4>1, <4>2
    <3>. QED BY <3>1, <3>2
  <2>. QED BY <2>1, <2>2, PopStack
<1>3. TypeOK'
  <2>1. diagnosed' \subseteq [id : Ids, known : BOOLEAN]
    <3>1. arg[t] \in Ids
      BY <1>1 DEF PopsClosed, Pops
    <3>2. [id |-> arg[t], known |-> pc[t] = "popKnown"] \in [id : Ids, known : BOOLEAN]
      BY <3>1
    <3>3. diagnosed' \in {diagnosed, diagnosed \cup
                             {[id |-> arg[t], known |-> pc[t] = "popKnown"]}}
      BY DEF PopSpan
    <3>. QED BY <3>2, <3>3 DEF TypeOK
  <2>. QED BY <1>1, <1>2, <2>1 DEF TypeOK
<1>4. StacksTaken'
  BY <1>1, <1>2 DEF StacksTaken
<1>5. StartsFresh'
  BY <1>1, <1>2 DEF StartsFresh
<1>6. PopsClosed'
  BY <1>1, <1>2 DEF PopsClosed
<1>7. OneSpanPerId'
  <2>. SUFFICES ASSUME NEW u \in Threads, NEW v \in Threads,
                       NEW i \in 1 .. Len(stack'[u]), NEW j \in 1 .. Len(stack'[v])
       PROVE  IF u = v THEN i < j => stack'[u][i] < stack'[v][j]
                       ELSE stack'[u][i] # stack'[v][j]
    BY DEF OneSpanPerId
  <2>1. /\ i \in 1 .. Len(stack[u]) /\ stack'[u][i] = stack[u][i]
        /\ j \in 1 .. Len(stack[v]) /\ stack'[v][j] = stack[v][j]
    BY <1>2
  <2>. QED BY <2>1 DEF OneSpanPerId
<1>8. OpenIsEntered'
  <2>. SUFFICES ASSUME NEW id \in spans PROVE Entered(id)' \/ Starting(id)'
    BY <1>1 DEF OpenIsEntered
  <2>1. CASE Starting(id)
    <3>1. Starting(id)'
      BY <1>1, <2>1 DEF Starting, Starts
    <3>. QED BY <3>1
  <2>2. CASE Entered(id)
    <3>1. PICK u \in Threads : \E i \in 1 .. Len(stack[u]) : stack[u][i] = id
      BY <2>2 DEF Entered
    <3>2. \E i \in 1 .. Len(stack'[u]) : stack'[u][i] = id
      <4>1. CASE UNCHANGED stack
        BY <3>1, <4>1
      <4>2. CASE /\ Len(stack[t]) \in Nat \ {0} /\ Len(stack'[t]) = Len(stack[t]) - 1
                 /\ \A i \in 1 .. Len(stack[t]) - 1 : stack'[t][i] = stack[t][i]
                 /\ stack[t][Len(stack[t])] = arg[t] /\ arg[t] \notin spans
                 /\ \A v \in Threads : v # t => stack'[v] = stack[v]
        <5>1. CASE u = t
          BY <3>1, <4>2, <5>1
        <5>2. CASE u # t
          <6>1. stack'[u] = stack[u]
            BY <4>2, <5>2
          <6>. QED BY <3>1, <6>1
        <5>. QED BY <5>1, <5>2
      <4>. QED BY <4>1, <4>2, PopStack
    <3>. QED BY <3>2 DEF Entered
  <2>. QED BY <2>1, <2>2 DEF OpenIsEntered
<1>. QED BY <1>3, <1>4, <1>5, <1>6, <1>7, <1>8

LEMMA HNext == HInv /\ [Next]_hostVars => HInv'
<1>. SUFFICES ASSUME HInv, [Next]_hostVars PROVE HInv'
  OBVIOUS
<1>1. CASE UNCHANGED hostVars
  BY <1>1 DEF hostVars, HInv, TypeOK, StacksTaken, StartsFresh, PopsClosed,
              OneSpanPerId, OpenIsEntered, Starts, Pops, Entered, Starting
<1>2. ASSUME NEW t \in Threads, Step(t) PROVE HInv'
  BY <1>2, TakeKeeps, InsertKeeps, PushKeeps, RemoveKeeps, PopKeeps DEF Step, Continue
<1>. QED BY <1>1, <1>2 DEF Next

LEMMA HInvariance == Spec => []HInv
BY HInit, HNext, PTL DEF Spec
-----------------------------------------------------------------------------
(* Every variable keeps its type, and no id is in the map or on its way    *)
(* there that the counter could hand out again.                            *)
THEOREM TypeCorrect == Spec => []TypeOK
<1>1. HInv => TypeOK
  BY DEF HInv
<1>. QED BY <1>1, HInvariance, PTL

(* An id belongs to one span, whatever the interleaving of the calls.      *)
THEOREM IdsAreUnique == Spec => []OneSpanPerId
<1>1. HInv => OneSpanPerId
  BY DEF HInv
<1>. QED BY <1>1, HInvariance, PTL

(* The map alone keeps no span open.                                       *)
THEOREM OpenAlwaysEntered == Spec => []OpenIsEntered
<1>1. HInv => OpenIsEntered
  BY DEF HInv
<1>. QED BY <1>1, HInvariance, PTL
-----------------------------------------------------------------------------
(* The spans SpanTree takes for closed.                                    *)
Closed == {id \in Ids : id < nextId /\ id \notin spans
                        /\ ~Entered(id) /\ ~Starting(id)}

(* Taking an id, putting it into the map and removing an id from the map   *)
(* are invisible: nothing is closed by them.                               *)
LEMMA HiddenSteps ==
  ASSUME HInv, NEW t \in Threads,
         TakeId(t) \/ InsertSpan(t) \/ \E id \in Ids : RemoveSpan(t, id)
  PROVE  stack' = stack /\ Closed' = Closed
<1>1. stack' = stack
  BY DEF TakeId, InsertSpan, RemoveSpan
<1>2. ASSUME NEW id \in Ids PROVE Entered(id)' <=> Entered(id)
  BY <1>1 DEF Entered
<1>3. CASE TakeId(t)
  <2>1. ASSUME NEW id \in Ids, id < nextId PROVE Starting(id)' <=> Starting(id)
    BY <1>3, <2>1 DEF HInv, TypeOK, TakeId, Goto, Starting
  <2>2. ASSUME NEW id \in Ids, id < nextId', ~(id < nextId) PROVE Starting(id)'
    BY <1>3, <2>2 DEF HInv, TypeOK, TakeId, Goto, Starting
  <2>3. spans' = spans /\ \A id \in Ids : id < nextId => id < nextId'
    BY <1>3 DEF HInv, TypeOK, TakeId
  <2>. QED BY <1>1, <1>2, <2>1, <2>2, <2>3 DEF Closed
<1>4. CASE InsertSpan(t)
  <2>1. ASSUME NEW id \in Ids PROVE Starting(id)' <=> Starting(id)
    BY <1>4 DEF HInv, TypeOK, InsertSpan, Goto, Starting
  <2>2. nextId' = nextId /\ spans' = spans \cup {arg[t]} /\ Starting(arg[t])
    BY <1>4 DEF InsertSpan, Starting
  <2>. QED BY <1>1, <1>2, <2>1, <2>2 DEF Closed
<1>5. ASSUME NEW id \in Ids, RemoveSpan(t, id) PROVE Closed' = Closed
  <2>1. ASSUME NEW i \in Ids PROVE Starting(i)' <=> Starting(i)
    BY <1>5 DEF HInv, TypeOK, RemoveSpan, Goto, Starting
  <2>2. nextId' = nextId /\ spans' = spans \ {id}
        /\ (id \in spans => Entered(id) \/ Starting(id))
    BY <1>5 DEF RemoveSpan, HInv, OpenIsEntered
  <2>. QED BY <1>1, <1>2, <2>1, <2>2 DEF Closed
<1>. QED BY <1>1, <1>3, <1>4, <1>5

(* Pushing is Enter of a span that was never entered before.               *)
LEMMA PushEnters ==
  ASSUME HInv, NEW t \in Threads, PushSpan(t)
  PROVE  /\ stack' = [stack EXCEPT ![t] = Append(@, arg[t])]
         /\ arg[t] \in Ids /\ arg[t] \notin Closed /\ Closed' = Closed
         /\ \A u \in Threads : \A i \in 1 .. Len(stack[u]) : stack[u][i] # arg[t]
<1>1. /\ stack' = [stack EXCEPT ![t] = Append(@, arg[t])]
      /\ nextId' = nextId /\ spans' = spans
      /\ pc' = [pc EXCEPT ![t] = "idle"] /\ arg' = arg
      /\ pc[t] = "push" /\ Starts(t)
  BY DEF PushSpan, Goto, Starts
<1>2. /\ arg[t] \in Ids /\ Starting(arg[t])
      /\ \A u \in Threads : \A i \in 1 .. Len(stack[u]) : stack[u][i] # arg[t]
  BY <1>1 DEF HInv, StartsFresh, Starting
<1>3. stack[t] \in Seq(Ids) /\ Len(stack[t]) \in Nat
      /\ stack'[t] = Append(stack[t], arg[t])
      /\ \A u \in Threads : u # t => stack'[u] = stack[u]
  BY <1>1 DEF HInv, TypeOK
<1>4. /\ Len(stack'[t]) = Len(stack[t]) + 1
      /\ \A i \in 1 .. Len(stack[t]) : stack'[t][i] = stack[t][i]
      /\ stack'[t][Len(stack[t]) + 1] = arg[t]
  BY <1>2, <1>3, AppendElements
<1>5. ASSUME NEW id \in Ids, id # arg[t]
      PROVE  (Entered(id)' <=> Entered(id)) /\ (Starting(id)' <=> Starting(id))
  <2>1. ASSUME NEW u \in Threads PROVE On(id, u)' <=> On(id, u)
    <3>1. CASE u # t
      BY <1>3, <3>1 DEF On
    <3>2. CASE u = t
      <4>1. \A i \in 1 .. Len(stack'[t]) :
              i \in 1 .. Len(stack[t]) \/ i = Len(stack[t]) + 1
        BY <1>3, <1>4
      <4>2. \A i \in 1 .. Len(stack[t]) : i \in 1 .. Len(stack'[t])
        BY <1>3, <1>4
      <4>. QED BY <1>4, <1>5, <3>2, <4>1, <4>2 DEF On
    <3>. QED BY <3>1, <3>2
  <2>2. Entered(id)' <=> Entered(id)
    BY <2>1 DEF Entered, On
  <2>3. ASSUME NEW u \in Threads
        PROVE  (pc'[u] \in {"insert", "push"} /\ arg'[u] = id)
               <=> (pc[u] \in {"insert", "push"} /\ arg[u] = id)
    BY <1>1, <1>5 DEF HInv, TypeOK
  <2>. QED BY <2>2, <2>3 DEF Starting
<1>6. ASSUME NEW id \in Ids, id = arg[t] PROVE Entered(id)'
  <2>1. Len(stack[t]) + 1 \in 1 .. Len(stack'[t])
    BY <1>3, <1>4
  <2>. QED BY <1>4, <1>6, <2>1 DEF Entered
<1>7. Closed' = Closed
  <2>1. ASSUME NEW id \in Ids PROVE id \in Closed' <=> id \in Closed
    <3>1. CASE id = arg[t]
      <4>1. Entered(id)'
        BY <1>6, <3>1
      <4>. QED BY <1>2, <3>1, <4>1 DEF Closed
    <3>2. CASE id # arg[t]
      BY <1>1, <1>5, <3>2 DEF Closed
    <3>. QED BY <3>1, <3>2
  <2>. QED BY <2>1 DEF Closed
<1>. QED BY <1>1, <1>2, <1>7 DEF Closed

(* Popping leaves, and closes, the innermost span; or it changes nothing.  *)
LEMMA PopLeaves ==
  ASSUME HInv, NEW t \in Threads, PopSpan(t)
  PROVE  \/ stack' = stack /\ Closed' = Closed
         \/ /\ stack[t] # <<>> /\ stack' = [stack EXCEPT ![t] = Front(@)]
            /\ Closed' = Closed \cup {Last(stack[t])}
<1>1. /\ nextId' = nextId /\ spans' = spans /\ arg' = arg
      /\ \A id \in Ids : Starting(id)' <=> Starting(id)
  BY DEF HInv, TypeOK, PopSpan, Goto, Starting
<1>2. CASE UNCHANGED stack
  <2>1. \A id \in Ids : Entered(id)' <=> Entered(id)
    BY <1>2 DEF Entered
  <2>. QED BY <1>1, <1>2, <2>1 DEF Closed
<1>3. CASE /\ stack[t] # <<>> /\ stack' = [stack EXCEPT ![t] = Front(@)]
           /\ Len(stack[t]) \in Nat \ {0} /\ Len(stack'[t]) = Len(stack[t]) - 1
           /\ \A i \in 1 .. Len(stack[t]) - 1 : stack'[t][i] = stack[t][i]
           /\ stack[t][Len(stack[t])] = arg[t] /\ Last(stack[t]) = arg[t]
           /\ \A u \in Threads : u # t => stack'[u] = stack[u]
           /\ arg[t] \notin spans
  <2>1. Len(stack[t]) \in 1 .. Len(stack[t])
    BY <1>3
  <2>2. arg[t] \in Ids /\ arg[t] < nextId
    BY <1>3, <2>1 DEF HInv, TypeOK, StacksTaken
  <2>3. ~Starting(arg[t])
    BY <1>3, <2>1 DEF HInv, StartsFresh, Starting, Starts
  <2>4. ASSUME NEW id \in Ids, id = arg[t] PROVE ~Entered(id)'
    <3>. SUFFICES ASSUME NEW u \in Threads, NEW i \in 1 .. Len(stack'[u])
         PROVE  stack'[u][i] # arg[t]
      BY <2>4 DEF Entered
    <3>1. CASE u = t
      <4>1. i \in 1 .. Len(stack[t]) /\ i < Len(stack[t]) /\ stack'[t][i] = stack[t][i]
        BY <1>3, <3>1
      <4>2. stack[t][i] < stack[t][Len(stack[t])]
        BY <2>1, <4>1 DEF HInv, OneSpanPerId
      <4>3. stack[t][i] \in Ids
        BY <4>1 DEF HInv, TypeOK
      <4>. QED BY <1>3, <2>2, <3>1, <4>1, <4>2, <4>3
    <3>2. CASE u # t
      <4>1. stack'[u] = stack[u]
        BY <1>3, <3>2
      <4>. QED BY <1>3, <2>1, <3>2, <4>1 DEF HInv, OneSpanPerId
    <3>. QED BY <3>1, <3>2
  <2>5. ASSUME NEW id \in Ids, id # arg[t] PROVE Entered(id)' <=> Entered(id)
    <3>1. ASSUME NEW u \in Threads PROVE On(id, u)' <=> On(id, u)
      <4>1. CASE u # t
        <5>1. stack'[u] = stack[u]
          BY <1>3, <4>1
        <5>. QED BY <5>1 DEF On
      <4>2. CASE u = t
        <5>1. \A i \in 1 .. Len(stack[t]) : i \in 1 .. Len(stack'[t]) \/ i = Len(stack[t])
          BY <1>3
        <5>2. \A i \in 1 .. Len(stack'[t]) : i \in 1 .. Len(stack[t]) - 1
                                             /\ i \in 1 .. Len(stack[t])
          BY <1>3
        <5>. QED BY <1>3, <2>5, <4>2, <5>1, <5>2 DEF On
      <4>. QED BY <4>1, <4>2
    <3>. QED BY <3>1 DEF Entered, On
  <2>6. ASSUME NEW id \in Ids PROVE id \in Closed' <=> id \in Closed \/ id = arg[t]
    <3>1. CASE id = arg[t]
      BY <1>1, <1>3, <2>2, <2>3, <2>4, <3>1 DEF Closed
    <3>2. CASE id # arg[t]
      BY <1>1, <2>5, <3>2 DEF Closed
    <3>. QED BY <3>1, <3>2
  <2>7. Closed' = Closed \cup {arg[t]}
    BY <2>2, <2>6 DEF Closed
  <2>. QED BY <1>3, <2>7
<1>. QED BY <1>2, <1>3, PopStack

(* SpanTree is implemented: the spans entered on a thread form a stack and *)
(* close innermost first, whatever the callers do.                         *)
THEOREM TreeImplemented == Spec => TreeSpec
<1>1. Init => Tree!Init
  BY DEF Init, Tree!Init, Entered, Starting
<1>2. HInv /\ [Next]_hostVars => [Tree!Next]_Tree!vars
  <2>. SUFFICES ASSUME HInv, [Next]_hostVars
       PROVE  Tree!Next \/ (stack' = stack /\ Closed' = Closed)
    BY DEF Tree!vars, Closed
  <2>1. CASE UNCHANGED hostVars
    BY <2>1 DEF hostVars, Closed, Entered, Starting
  <2>2. ASSUME NEW t \in Threads, Step(t)
        PROVE  Tree!Next \/ (stack' = stack /\ Closed' = Closed)
    <3>1. CASE TakeId(t) \/ InsertSpan(t) \/ \E id \in Ids : RemoveSpan(t, id)
      BY <3>1, HiddenSteps
    <3>2. CASE PushSpan(t)
      <4>1. Tree!Enter(t)
        BY <3>2, PushEnters DEF Tree!Enter, Tree!Fresh, Tree!Ids, Closed
      <4>. QED BY <4>1 DEF Tree!Next
    <3>3. CASE PopSpan(t)
      <4>1. CASE /\ stack[t] # <<>> /\ stack' = [stack EXCEPT ![t] = Front(@)]
                 /\ Closed' = Closed \cup {Last(stack[t])}
        <5>1. Tree!Leave(t)
          BY <4>1 DEF Tree!Leave, Closed, Front, Last, Tree!Front, Tree!Last
        <5>. QED BY <5>1 DEF Tree!Next
      <4>. QED BY <3>3, <4>1, PopLeaves
    <3>. QED BY <2>2, <3>1, <3>2, <3>3 DEF Step, Continue
  <2>. QED BY <2>1, <2>2 DEF Next
<1>. QED BY <1>1, <1>2, HInvariance, PTL DEF Spec, TreeSpec, Tree!Spec
-----------------------------------------------------------------------------
(***************************************************************************)
(* GuestBridge.                                                            *)
(***************************************************************************)
USE LevelsAssumption, NestingAssumption
-----------------------------------------------------------------------------
(* What the guest's and the host's steps do to a filtered sequence.        *)

Held == 0 .. MaxSpans

(* How at shows that ids is held without its sentinels.                    *)
Embeds(at, ids, held) ==
  /\ at \in [1 .. Len(ids) -> 1 .. Len(held)]
  /\ \A i, j \in 1 .. Len(ids) : i < j => at[i] < at[j]
  /\ \A i \in 1 .. Len(ids) : ids[i] = held[at[i]] /\ ids[i] # Filtered
  /\ \A k \in 1 .. Len(held) :
       held[k] # Filtered => \E i \in 1 .. Len(ids) : at[i] = k

LEMMA Embedded ==
  ASSUME NEW ids, NEW held
  PROVE  Unfiltered(ids, held) <=> \E at : Embeds(at, ids, held)
BY Zenon DEF Unfiltered, Embeds

(* Nothing open on either side.                                            *)
LEMMA FollowEmpty == Unfiltered(<<>>, <<>>)
<1>1. [i \in {} |-> 1] \in [1 .. 0 -> 1 .. 0] /\ Len(<<>>) = 0
  OBVIOUS
<1>. QED BY <1>1 DEF Unfiltered

(* A span that is filtered out at its start.                               *)
LEMMA FollowSentinel ==
  ASSUME NEW ids \in Seq(Ids), NEW held \in Seq(Held), Unfiltered(ids, held)
  PROVE  Unfiltered(ids, Append(held, Filtered))
<1>1. PICK at : Embeds(at, ids, held)
  BY Embedded
<1>. USE <1>1 DEF Embeds
<1>2. Filtered \in Held
  BY DEF Filtered, Held
<1>. DEFINE longer == Append(held, Filtered)
<1>3. /\ Len(longer) = Len(held) + 1 /\ Len(held) \in Nat
      /\ \A k \in 1 .. Len(held) : longer[k] = held[k]
      /\ longer[Len(held) + 1] = Filtered
  BY <1>2, AppendElements
<1>. HIDE DEF longer
<1>4. at \in [1 .. Len(ids) -> 1 .. Len(longer)]
  BY <1>3
<1>5. \A k \in 1 .. Len(longer) :
        longer[k] # Filtered => \E i \in 1 .. Len(ids) : at[i] = k
  BY <1>3
<1>6. \A i \in 1 .. Len(ids) : ids[i] = longer[at[i]] /\ ids[i] # Filtered
  BY <1>3
<1>7. Embeds(at, ids, longer)
  BY <1>4, <1>5, <1>6
<1>. HIDE DEF Embeds
<1>. QED BY <1>7, Embedded DEF longer

(* A span that the host enters, too.                                       *)
LEMMA FollowStart ==
  ASSUME NEW ids \in Seq(Ids), NEW held \in Seq(Held), Unfiltered(ids, held),
         NEW id \in Ids
  PROVE  Unfiltered(Append(ids, id), Append(held, id))
<1>1. PICK at : Embeds(at, ids, held)
  BY Embedded
<1>. USE <1>1 DEF Embeds
<1>. DEFINE more   == Append(ids, id)
            longer == Append(held, id)
            n      == Len(ids)
            m      == Len(held)
            to     == [i \in 1 .. n + 1 |-> IF i = n + 1 THEN m + 1 ELSE at[i]]
<1>2. id \in Held /\ id # Filtered
  BY DEF Filtered, Held
<1>3. /\ Len(longer) = m + 1 /\ m \in Nat /\ longer[m + 1] = id
      /\ \A k \in 1 .. m : longer[k] = held[k]
  BY <1>2, AppendElements
<1>4. /\ Len(more) = n + 1 /\ n \in Nat /\ more[n + 1] = id
      /\ \A i \in 1 .. n : more[i] = ids[i]
  BY AppendElements
<1>. HIDE DEF more, longer
<1>5. /\ \A i \in 1 .. n : i \in 1 .. n + 1 /\ i # n + 1 /\ i \in Nat
      /\ n + 1 \in 1 .. n + 1 /\ m + 1 \in 1 .. m + 1
      /\ \A i \in 1 .. n + 1 : i = n + 1 \/ i \in 1 .. n
      /\ \A k \in 1 .. m : k \in 1 .. m + 1 /\ k < m + 1
  BY <1>3, <1>4
<1>6. /\ to \in [1 .. n + 1 -> 1 .. m + 1] /\ to[n + 1] = m + 1
      /\ \A i \in 1 .. n : to[i] = at[i] /\ at[i] \in 1 .. m
  BY <1>5
<1>. HIDE DEF to
<1>7. ASSUME NEW i \in 1 .. n + 1, NEW j \in 1 .. n + 1, i < j PROVE to[i] < to[j]
  <2>1. i \in 1 .. n
    BY <1>4, <1>7
  <2>2. CASE j = n + 1
    BY <1>5, <1>6, <2>1, <2>2
  <2>3. CASE j \in 1 .. n
    BY <1>6, <1>7, <2>1, <2>3
  <2>. QED BY <1>5, <2>2, <2>3
<1>8. ASSUME NEW i \in 1 .. n + 1
      PROVE  more[i] = longer[to[i]] /\ more[i] # Filtered
  <2>1. CASE i = n + 1
    BY <1>2, <1>3, <1>4, <1>6, <2>1
  <2>2. CASE i \in 1 .. n
    <3>1. ids[i] = held[at[i]] /\ ids[i] # Filtered
      BY <2>2
    <3>2. more[i] = ids[i] /\ to[i] = at[i] /\ longer[at[i]] = held[at[i]]
      BY <1>3, <1>4, <1>6, <2>2
    <3>. QED BY <3>1, <3>2
  <2>. QED BY <1>5, <2>1, <2>2
<1>9. ASSUME NEW k \in 1 .. m + 1, longer[k] # Filtered
      PROVE  \E i \in 1 .. n + 1 : to[i] = k
  <2>1. CASE k = m + 1
    BY <1>5, <1>6, <2>1
  <2>2. CASE k \in 1 .. m
    <3>1. PICK i \in 1 .. n : at[i] = k
      BY <1>3, <1>9, <2>2
    <3>. QED BY <1>5, <1>6, <3>1
  <2>. QED BY <1>3, <2>1, <2>2
<1>10. Embeds(to, more, longer)
  BY <1>3, <1>4, <1>6, <1>7, <1>8, <1>9
<1>. HIDE DEF Embeds
<1>. QED BY <1>10, Embedded DEF more, longer

(* The end of a span that was filtered out.                                *)
LEMMA FollowEndFiltered ==
  ASSUME NEW ids \in Seq(Ids), NEW held \in Seq(Held), Unfiltered(ids, held),
         held # <<>>, Last(held) = Filtered
  PROVE  Unfiltered(ids, Front(held))
<1>1. PICK at : Embeds(at, ids, held)
  BY Embedded
<1>. USE <1>1 DEF Embeds
<1>. DEFINE shorter == Front(held)
<1>2. /\ Len(shorter) = Len(held) - 1 /\ Len(held) \in Nat \ {0}
      /\ Len(held) \in 1 .. Len(held) /\ held[Len(held)] = Filtered
      /\ \A k \in 1 .. Len(held) - 1 : shorter[k] = held[k]
  BY FrontElements
<1>. HIDE DEF shorter
<1>3. ASSUME NEW i \in 1 .. Len(ids) PROVE at[i] \in 1 .. Len(held) - 1
  <2>1. at[i] \in 1 .. Len(held) /\ at[i] # Len(held)
    BY <1>2
  <2>. QED BY <1>2, <2>1
<1>4. at \in [1 .. Len(ids) -> 1 .. Len(shorter)]
  BY <1>2, <1>3
<1>5. \A k \in 1 .. Len(shorter) : k \in 1 .. Len(held) /\ shorter[k] = held[k]
  BY <1>2
<1>6. \A i \in 1 .. Len(ids) : ids[i] = shorter[at[i]] /\ ids[i] # Filtered
  BY <1>2, <1>3
<1>7. Embeds(at, ids, shorter)
  BY <1>4, <1>5, <1>6
<1>. HIDE DEF Embeds
<1>. QED BY <1>7, Embedded DEF shorter

(* The end of a span of the host: it is the innermost one there, too.      *)
LEMMA FollowEnd ==
  ASSUME NEW ids \in Seq(Ids), NEW held \in Seq(Held), Unfiltered(ids, held),
         held # <<>>, Last(held) # Filtered
  PROVE  /\ ids # <<>> /\ Last(ids) = Last(held)
         /\ Unfiltered(Front(ids), Front(held))
<1>1. PICK at : Embeds(at, ids, held)
  BY Embedded
<1>. USE <1>1 DEF Embeds
<1>. DEFINE less    == Front(ids)
            shorter == Front(held)
            n       == Len(ids)
            m       == Len(held)
<1>2. /\ Len(shorter) = m - 1 /\ m \in Nat \ {0} /\ m \in 1 .. m
      /\ held[m] = Last(held)
      /\ \A k \in 1 .. m - 1 : shorter[k] = held[k]
  BY FrontElements
<1>3. PICK p \in 1 .. n : at[p] = m
  BY <1>2
<1>4. n \in Nat \ {0} /\ ids # <<>>
  BY <1>3
<1>5. p = n
  <2>1. n \in 1 .. n /\ at[n] \in 1 .. m
    BY <1>4
  <2>2. ASSUME p < n PROVE FALSE
    <3>1. at[p] < at[n]
      BY <1>3, <2>1, <2>2
    <3>. QED BY <1>2, <1>3, <2>1, <3>1
  <2>. QED BY <1>3, <1>4, <2>2
<1>6. /\ Len(less) = n - 1 /\ ids[n] = Last(ids)
      /\ \A i \in 1 .. n - 1 : less[i] = ids[i]
  BY <1>4, FrontElements
<1>7. Last(ids) = Last(held)
  BY <1>2, <1>3, <1>5, <1>6
<1>. DEFINE to == [i \in 1 .. n - 1 |-> at[i]]
<1>8. ASSUME NEW i \in 1 .. n - 1 PROVE i \in 1 .. n /\ at[i] \in 1 .. m - 1
  <2>1. i \in 1 .. n /\ i < n
    BY <1>4
  <2>2. at[i] < at[n] /\ at[i] \in 1 .. m
    BY <1>3, <1>5, <2>1
  <2>. QED BY <1>2, <1>3, <1>5, <2>1, <2>2
<1>. HIDE DEF less, shorter
<1>9. to \in [1 .. Len(less) -> 1 .. Len(shorter)]
  BY <1>2, <1>6, <1>8
<1>10. ASSUME NEW i \in 1 .. n - 1
       PROVE  to[i] = at[i] /\ less[i] = shorter[to[i]] /\ less[i] # Filtered
  BY <1>2, <1>6, <1>8
<1>11. ASSUME NEW i \in 1 .. n - 1, NEW j \in 1 .. n - 1, i < j PROVE to[i] < to[j]
  BY <1>8, <1>10, <1>11
<1>12. ASSUME NEW k \in 1 .. m - 1, shorter[k] # Filtered
       PROVE  \E i \in 1 .. n - 1 : to[i] = k
  <2>1. k \in 1 .. m /\ k # m /\ shorter[k] = held[k]
    BY <1>2
  <2>2. PICK i \in 1 .. n : at[i] = k
    BY <1>12, <2>1
  <2>3. i \in 1 .. n - 1
    BY <1>3, <1>4, <1>5, <2>1, <2>2
  <2>. QED BY <1>10, <2>2, <2>3
<1>. HIDE DEF to
<1>13. Embeds(to, less, shorter)
  BY <1>2, <1>6, <1>9, <1>10, <1>11, <1>12
<1>. HIDE DEF Embeds
<1>. QED BY <1>4, <1>7, <1>13, Embedded DEF less, shorter
-----------------------------------------------------------------------------
(* The strengthening.  A guest that is starting a span has room for it.    *)
(* Unless an end was swallowed, a thread that is in no span_end has        *)
(* entered what its guest holds; one that is has the span on top; what is  *)
(* entered is in the map, and so is what is about to be entered.           *)
GuestType ==
  BridgeTypeOK /\ \A t \in Threads : Starts(t) => Len(nest[t]) < MaxNesting

InStep(t) ==
  /\ pc[t] # "popUnknown"
  /\ pc[t] # "popKnown" => Unfiltered(stack[t], nest[t])
  /\ pc[t] = "popKnown" => /\ stack[t] # <<>> /\ Last(stack[t]) = arg[t]
                           /\ Unfiltered(Front(stack[t]), nest[t])

StaysOpen(t) ==
  /\ pc[t] = "push" => arg[t] \in spans
  /\ \A i \in 1 .. Len(stack[t]) :
       stack[t][i] \in spans \/ (pc[t] = "popKnown" /\ stack[t][i] = arg[t])

FollowInv ==
  ~astray => diagnosed = {} /\ \A t \in Threads : InStep(t) /\ StaysOpen(t)

GInv == HInv /\ GuestType /\ FollowInv

LEMMA GInit == BridgeInit => GInv
<1>. SUFFICES ASSUME BridgeInit PROVE GInv
  OBVIOUS
<1>1. HInv
  BY HInit DEF BridgeInit
<1>2. /\ stack = [t \in Threads |-> <<>>] /\ pc = [t \in Threads |-> "idle"]
      /\ nest = [t \in Threads |-> <<>>] /\ diagnosed = {}
  BY DEF BridgeInit, Init
<1>3. GuestType
  <2>1. minLevel \in [Threads -> Levels \cup {0}]
    BY DEF BridgeInit
  <2>2. nest \in [Threads -> Seq(0 .. MaxSpans)]
    BY <1>2
  <2>3. ASSUME NEW t \in Threads PROVE Len(nest[t]) <= MaxNesting /\ ~Starts(t)
    BY <1>2, NestingAssumption DEF Starts
  <2>4. TypeOK /\ astray \in BOOLEAN
    BY <1>1 DEF HInv, BridgeInit
  <2>. QED BY <2>1, <2>2, <2>3, <2>4 DEF GuestType, BridgeTypeOK
<1>4. ASSUME NEW t \in Threads PROVE InStep(t) /\ StaysOpen(t)
  BY <1>2, FollowEmpty DEF InStep, StaysOpen
<1>. QED BY <1>1, <1>2, <1>3, <1>4 DEF GInv, FollowInv

(* What the guest holds are ids, or sentinels.                             *)
LEMMA NestTypes ==
  ASSUME GInv, NEW t \in Threads
  PROVE  /\ nest[t] \in Seq(Held) /\ stack[t] \in Seq(Ids)
         /\ Len(nest[t]) \in Nat /\ Len(nest[t]) <= MaxNesting
         /\ nest[t] # <<>> => Last(nest[t]) \in Held
<1>1. nest[t] \in Seq(Held) /\ stack[t] \in Seq(Ids) /\ Len(nest[t]) <= MaxNesting
  BY DEF GInv, GuestType, BridgeTypeOK, TypeOK, Held
<1>2. ASSUME nest[t] # <<>> PROVE Last(nest[t]) \in Held
  <2>1. Len(nest[t]) \in 1 .. Len(nest[t]) /\ Last(nest[t]) = nest[t][Len(nest[t])]
    BY <1>1, <1>2, FrontElements
  <2>. QED BY <1>1, <2>1
<1>. QED BY <1>1, <1>2

(* Every step of a guest is one of HostSpans, or invisible to the host.    *)
LEMMA GuestIsCaller ==
  ASSUME GInv, NEW t \in Threads, GuestStep(t)
  PROVE  Step(t) \/ UNCHANGED hostVars
<1>1. CASE GuestEnd(t)
  <2>1. Last(nest[t]) \in Ids \/ Last(nest[t]) = Filtered
    BY <1>1, NestTypes DEF GuestEnd, Held, Filtered
  <2>. QED BY <1>1, <2>1 DEF GuestEnd, Forwards, Step
<1>2. CASE ~GuestEnd(t)
  BY <1>2 DEF GuestStep, SetMinLevel, StartFiltered, StartForwarded, HostStep, Step
<1>. QED BY <1>1, <1>2

LEMMA HostKeeps ==
  ASSUME GInv, NEW t \in Threads, GuestStep(t)
  PROVE  HInv'
BY GuestIsCaller, HNext DEF GInv, Next

(* A step of one guest moves no other.                                     *)
LEMMA OtherGuests ==
  ASSUME GInv, NEW t \in Threads, GuestStep(t), NEW u \in Threads, u # t
  PROVE  /\ pc'[u] = pc[u] /\ arg'[u] = arg[u] /\ stack'[u] = stack[u]
         /\ nest'[u] = nest[u]
<1>1. nest'[u] = nest[u]
  BY DEF GInv, GuestType, BridgeTypeOK, GuestStep, SetMinLevel, StartFiltered,
         StartForwarded, HostStep, GuestEnd
<1>2. pc'[u] = pc[u] /\ arg'[u] = arg[u] /\ stack'[u] = stack[u]
  <2>1. CASE UNCHANGED hostVars
    BY <2>1 DEF hostVars
  <2>2. CASE Step(t)
    BY <2>2 DEF GInv, HInv, TypeOK, Step, Continue, TakeId, InsertSpan, PushSpan,
                RemoveSpan, PopSpan, Goto
  <2>. QED BY <2>1, <2>2, GuestIsCaller
<1>. QED BY <1>1, <1>2

LEMMA GuestTypeKeeps ==
  ASSUME GInv, NEW t \in Threads, GuestStep(t)
  PROVE  GuestType'
<1>0. BridgeTypeOK /\ GuestType /\ TypeOK'
  BY HostKeeps DEF GInv, GuestType, HInv
<1>1. minLevel' \in [Threads -> Levels \cup {0}] /\ astray' \in BOOLEAN
  BY <1>0 DEF BridgeTypeOK, GuestStep, SetMinLevel, StartFiltered, StartForwarded,
              HostStep, GuestEnd
<1>2. /\ nest'[t] \in Seq(Held) /\ Len(nest'[t]) <= MaxNesting
      /\ Starts(t)' => Len(nest'[t]) < MaxNesting
  <2>0. /\ nest[t] \in Seq(Held) /\ Len(nest[t]) \in Nat /\ Len(nest[t]) <= MaxNesting
        /\ nest \in [Threads -> Seq(Held)]
        /\ pc \in [Threads -> {"idle", "insert", "push", "popKnown", "popUnknown"}]
    BY <1>0, NestTypes DEF BridgeTypeOK, TypeOK, Held
  <2>1. ASSUME NEW level \in Levels, SetMinLevel(t, level)
        PROVE  nest' = nest /\ pc' = pc
    BY <2>1 DEF SetMinLevel, hostVars
  <2>2. CASE StartFiltered(t)
    <3>1. /\ nest'[t] = Append(nest[t], Filtered) /\ Filtered \in Held
          /\ Len(nest[t]) < MaxNesting /\ pc' = pc /\ pc[t] = "idle"
      BY <2>0, <2>2 DEF StartFiltered, hostVars, Held, Filtered
    <3>2. nest'[t] \in Seq(Held) /\ Len(nest'[t]) = Len(nest[t]) + 1
      BY <2>0, <3>1, AppendElements
    <3>. QED BY <2>0, <3>1, <3>2 DEF Starts, GInv, HInv, TypeOK
  <2>3. CASE StartForwarded(t)
    BY <2>0, <2>3 DEF StartForwarded
  <2>4. CASE HostStep(t)
    <3>1. CASE pc[t] = "push"
      <4>1. arg[t] \in Held /\ Len(nest[t]) < MaxNesting
        BY <1>0, <3>1 DEF GuestType, Starts, GInv, HInv, StartsFresh, Held
      <4>2. nest'[t] = Append(nest[t], arg[t]) /\ pc'[t] = "idle"
        BY <2>0, <2>4, <3>1 DEF HostStep, Continue, InsertSpan, PushSpan, PopSpan, Goto
      <4>3. nest'[t] \in Seq(Held) /\ Len(nest'[t]) = Len(nest[t]) + 1
        BY <2>0, <4>1, <4>2, AppendElements
      <4>. QED BY <2>0, <4>1, <4>2, <4>3 DEF Starts
    <3>2. CASE pc[t] # "push"
      <4>1. nest' = nest /\ (Starts(t)' => Starts(t))
        BY <2>0, <2>4, <3>2 DEF HostStep, Continue, InsertSpan, PushSpan, PopSpan,
                                Goto, Starts
      <4>. QED BY <1>0, <2>0, <4>1 DEF GuestType
    <3>. QED BY <3>1, <3>2
  <2>5. CASE GuestEnd(t)
    <3>1. nest'[t] = Front(nest[t]) /\ nest[t] # <<>> /\ ~Starts(t)'
      BY <2>0, <2>5 DEF GuestEnd, RemoveSpan, Goto, Starts, hostVars
    <3>2. nest'[t] \in Seq(Held) /\ Len(nest'[t]) = Len(nest[t]) - 1
      BY <2>0, <3>1, FrontElements
    <3>. QED BY <2>0, <3>1, <3>2
  <2>6. CASE \E level \in Levels : SetMinLevel(t, level)
    BY <1>0, <2>0, <2>1, <2>6 DEF GuestType, Starts
  <2>. QED BY <2>2, <2>3, <2>4, <2>5, <2>6 DEF GuestStep
<1>3. ASSUME NEW u \in Threads, u # t
      PROVE  /\ nest'[u] \in Seq(Held) /\ Len(nest'[u]) <= MaxNesting
             /\ Starts(u)' => Len(nest'[u]) < MaxNesting
  BY <1>0, <1>3, OtherGuests, NestTypes DEF GuestType, Starts
<1>4. nest' \in [Threads -> Seq(0 .. MaxSpans)]
  <2>1. nest' = [u \in Threads |-> nest'[u]]
    BY <1>0 DEF BridgeTypeOK, GuestStep, SetMinLevel, StartFiltered, StartForwarded,
                HostStep, GuestEnd
  <2>2. \A u \in Threads : nest'[u] \in Seq(0 .. MaxSpans)
    BY <1>2, <1>3 DEF Held
  <2>. QED BY <2>1, <2>2
<1>. QED BY <1>0, <1>1, <1>2, <1>3, <1>4 DEF GuestType, BridgeTypeOK
-----------------------------------------------------------------------------
(* As long as no span leaves the map, the other threads stay in step.      *)
LEMMA OthersInStep ==
  ASSUME GInv, ~astray, NEW t \in Threads, GuestStep(t), spans \subseteq spans',
         NEW u \in Threads, u # t
  PROVE  InStep(u)' /\ StaysOpen(u)'
<1>1. InStep(u) /\ StaysOpen(u)
  BY DEF GInv, FollowInv
<1>2. /\ pc'[u] = pc[u] /\ arg'[u] = arg[u] /\ stack'[u] = stack[u]
      /\ nest'[u] = nest[u]
  BY OtherGuests
<1>. QED BY <1>1, <1>2 DEF InStep, StaysOpen

LEMMA StartKeeps ==
  ASSUME GInv, ~astray, NEW t \in Threads, GuestStep(t),
         StartForwarded(t) \/ StartFiltered(t) \/ \E level \in Levels : SetMinLevel(t, level)
  PROVE  FollowInv'
<1>0. diagnosed = {} /\ InStep(t) /\ StaysOpen(t)
  BY DEF GInv, FollowInv
<1>1. /\ spans' = spans /\ stack' = stack /\ diagnosed' = diagnosed
      /\ pc[t] = "idle" /\ pc'[t] \in {"idle", "insert"}
  BY DEF StartForwarded, StartFiltered, SetMinLevel, TakeId, Goto, hostVars, GInv, HInv,
         TypeOK
<1>2. Unfiltered(stack'[t], nest'[t])
  <2>1. Unfiltered(stack[t], nest[t])
    BY <1>0, <1>1 DEF InStep
  <2>2. CASE nest' = nest
    BY <1>1, <2>1, <2>2
  <2>3. CASE nest'[t] = Append(nest[t], Filtered)
    BY <1>1, <2>1, <2>3, NestTypes, FollowSentinel
  <2>4. nest' = nest \/ nest'[t] = Append(nest[t], Filtered)
    BY DEF GInv, GuestType, BridgeTypeOK, StartForwarded, StartFiltered, SetMinLevel
  <2>. QED BY <2>2, <2>3, <2>4
<1>3. InStep(t)' /\ StaysOpen(t)'
  BY <1>0, <1>1, <1>2 DEF InStep, StaysOpen
<1>. QED BY <1>0, <1>1, <1>3, OthersInStep DEF FollowInv

LEMMA InsertFollows ==
  ASSUME GInv, ~astray, NEW t \in Threads, GuestStep(t), HostStep(t), InsertSpan(t)
  PROVE  FollowInv'
<1>0. diagnosed = {} /\ InStep(t) /\ StaysOpen(t)
  BY DEF GInv, FollowInv
<1>1. /\ spans' = spans \cup {arg[t]} /\ stack' = stack /\ diagnosed' = diagnosed
      /\ arg' = arg /\ pc[t] = "insert" /\ pc'[t] = "push" /\ nest' = nest
  BY DEF HostStep, InsertSpan, Goto, GInv, HInv, TypeOK
<1>2. InStep(t)' /\ StaysOpen(t)'
  BY <1>0, <1>1 DEF InStep, StaysOpen
<1>. QED BY <1>0, <1>1, <1>2, OthersInStep DEF FollowInv

LEMMA PushFollows ==
  ASSUME GInv, ~astray, NEW t \in Threads, GuestStep(t), HostStep(t), PushSpan(t)
  PROVE  FollowInv'
<1>0. diagnosed = {} /\ InStep(t) /\ StaysOpen(t)
  BY DEF GInv, FollowInv
<1>1. /\ spans' = spans /\ diagnosed' = diagnosed /\ arg' = arg
      /\ pc[t] = "push" /\ pc'[t] = "idle"
      /\ stack'[t] = Append(stack[t], arg[t]) /\ nest'[t] = Append(nest[t], arg[t])
  BY DEF HostStep, PushSpan, Goto, GInv, HInv, TypeOK, GuestType, BridgeTypeOK
<1>2. arg[t] \in Ids
  BY <1>1 DEF GInv, HInv, StartsFresh, Starts
<1>3. Unfiltered(stack'[t], nest'[t])
  BY <1>0, <1>1, <1>2, NestTypes, FollowStart DEF InStep
<1>4. ASSUME NEW i \in 1 .. Len(stack'[t]) PROVE stack'[t][i] \in spans
  <2>1. /\ Len(stack'[t]) = Len(stack[t]) + 1 /\ Len(stack[t]) \in Nat
        /\ stack'[t][Len(stack[t]) + 1] = arg[t]
        /\ \A j \in 1 .. Len(stack[t]) : stack'[t][j] = stack[t][j]
    BY <1>1, <1>2, NestTypes, AppendElements
  <2>2. CASE i = Len(stack[t]) + 1
    BY <1>0, <1>1, <2>1, <2>2 DEF StaysOpen
  <2>3. CASE i \in 1 .. Len(stack[t])
    BY <1>0, <1>1, <2>1, <2>3 DEF StaysOpen
  <2>. QED BY <2>1, <2>2, <2>3
<1>5. InStep(t)' /\ StaysOpen(t)'
  BY <1>1, <1>3, <1>4 DEF InStep, StaysOpen
<1>. QED BY <1>0, <1>1, <1>5, OthersInStep DEF FollowInv

LEMMA PopFollows ==
  ASSUME GInv, ~astray, NEW t \in Threads, GuestStep(t), HostStep(t), PopSpan(t)
  PROVE  FollowInv'
<1>0. diagnosed = {} /\ InStep(t) /\ StaysOpen(t)
  BY DEF GInv, FollowInv
<1>1. /\ pc[t] = "popKnown" /\ stack[t] # <<>> /\ Last(stack[t]) = arg[t]
      /\ Unfiltered(Front(stack[t]), nest[t])
  BY <1>0 DEF InStep, PopSpan
<1>2. /\ spans' = spans /\ diagnosed' = diagnosed /\ arg' = arg
      /\ pc'[t] = "idle" /\ nest' = nest /\ stack'[t] = Front(stack[t])
  BY <1>1 DEF HostStep, PopSpan, OnTop, Goto, GInv, HInv, TypeOK
<1>3. /\ Len(stack'[t]) = Len(stack[t]) - 1 /\ Len(stack[t]) \in 1 .. Len(stack[t])
      /\ Len(stack[t]) \in Nat /\ arg[t] = stack[t][Len(stack[t])]
      /\ \A i \in 1 .. Len(stack[t]) - 1 : stack'[t][i] = stack[t][i]
  <2>1. stack[t] \in Seq(Ids)
    BY NestTypes
  <2>. HIDE DEF Ids
  <2>2. /\ Len(Front(stack[t])) = Len(stack[t]) - 1
        /\ Len(stack[t]) \in 1 .. Len(stack[t])
        /\ Last(stack[t]) = stack[t][Len(stack[t])]
        /\ \A i \in 1 .. Len(stack[t]) - 1 : Front(stack[t])[i] = stack[t][i]
    BY <1>1, <2>1, FrontElements
  <2>. QED BY <1>1, <1>2, <2>1, <2>2
<1>4. ASSUME NEW i \in 1 .. Len(stack'[t]) PROVE stack'[t][i] \in spans
  <2>1. i \in 1 .. Len(stack[t]) /\ i < Len(stack[t]) /\ stack'[t][i] = stack[t][i]
    BY <1>3
  <2>2. stack[t][i] < stack[t][Len(stack[t])]
    BY <1>3, <2>1 DEF GInv, HInv, OneSpanPerId
  <2>3. stack[t][i] \in Ids /\ arg[t] \in Ids
    BY <1>3, <2>1, NestTypes
  <2>4. stack[t][i] # arg[t]
    BY <1>3, <2>2, <2>3
  <2>. QED BY <1>0, <2>1, <2>4 DEF StaysOpen
<1>5. InStep(t)' /\ StaysOpen(t)'
  BY <1>1, <1>2, <1>4 DEF InStep, StaysOpen
<1>. QED BY <1>0, <1>2, <1>5, OthersInStep DEF FollowInv

(* The end of a span finds it on top of the stack and in the map, and it   *)
(* is no other thread's.                                                   *)
LEMMA EndFollows ==
  ASSUME GInv, ~astray, NEW t \in Threads, GuestStep(t), GuestEnd(t)
  PROVE  FollowInv'
<1>0. /\ diagnosed = {} /\ InStep(t) /\ StaysOpen(t) /\ pc[t] = "idle"
      /\ nest[t] # <<>> /\ nest'[t] = Front(nest[t])
  BY DEF GInv, FollowInv, GuestEnd, GuestType, BridgeTypeOK
<1>. DEFINE id == Last(nest[t])
<1>1. Unfiltered(stack[t], nest[t]) /\ id \in Held
  BY <1>0, NestTypes DEF InStep
<1>2. CASE id = Filtered
  <2>1. UNCHANGED <<spans, stack, pc, arg, diagnosed>>
    BY <1>2 DEF GuestEnd, Forwards, hostVars
  <2>2. Unfiltered(stack'[t], nest'[t])
    BY <1>0, <1>1, <1>2, <2>1, NestTypes, FollowEndFiltered
  <2>3. InStep(t)' /\ StaysOpen(t)'
    BY <1>0, <2>1, <2>2 DEF InStep, StaysOpen
  <2>. QED BY <1>0, <2>1, <2>3, OthersInStep DEF FollowInv
<1>3. CASE id # Filtered /\ ~LevelIsEnabled(Debug, minLevel[t])
  <2>1. astray'
    BY <1>3 DEF GuestEnd
  <2>. QED BY <2>1 DEF FollowInv
<1>4. CASE id # Filtered /\ LevelIsEnabled(Debug, minLevel[t])
  <2>1. stack[t] # <<>> /\ Last(stack[t]) = id /\ Unfiltered(Front(stack[t]), nest'[t])
    BY <1>0, <1>1, <1>4, NestTypes, FollowEnd
  <2>2. Len(stack[t]) \in 1 .. Len(stack[t]) /\ stack[t][Len(stack[t])] = id
    BY <2>1, NestTypes, FrontElements
  <2>3. id \in spans
    BY <1>0, <2>2 DEF StaysOpen
  <2>4. RemoveSpan(t, id)
    BY <1>4 DEF GuestEnd, Forwards
  <2>5. /\ spans' = spans \ {id} /\ stack' = stack /\ diagnosed' = diagnosed
        /\ pc'[t] = "popKnown" /\ arg'[t] = id
    BY <2>3, <2>4 DEF RemoveSpan, Goto, GInv, HInv, TypeOK
  <2>6. InStep(t)' /\ StaysOpen(t)'
    BY <1>0, <2>1, <2>5 DEF InStep, StaysOpen
  <2>7. ASSUME NEW u \in Threads, u # t PROVE InStep(u)' /\ StaysOpen(u)'
    <3>1. InStep(u) /\ StaysOpen(u)
      BY DEF GInv, FollowInv
    <3>2. /\ pc'[u] = pc[u] /\ arg'[u] = arg[u] /\ stack'[u] = stack[u]
          /\ nest'[u] = nest[u]
      BY <2>7, OtherGuests
    <3>3. \A i \in 1 .. Len(stack[u]) : stack[u][i] # id
      BY <2>2, <2>7 DEF GInv, HInv, OneSpanPerId
    <3>4. pc[u] = "push" => arg[u] # id
      BY <2>2 DEF GInv, HInv, StartsFresh, Starts
    <3>. QED BY <2>5, <3>1, <3>2, <3>3, <3>4 DEF InStep, StaysOpen
  <2>. QED BY <1>0, <2>5, <2>6, <2>7 DEF FollowInv
<1>. QED BY <1>2, <1>3, <1>4

LEMMA GNext == GInv /\ [BridgeNext]_bridgeVars => GInv'
<1>. SUFFICES ASSUME GInv, [BridgeNext]_bridgeVars PROVE GInv'
  OBVIOUS
<1>1. CASE UNCHANGED bridgeVars
  <2>1. HInv'
    BY <1>1, HNext DEF bridgeVars, GInv
  <2>2. GuestType'
    BY <1>1, <2>1 DEF bridgeVars, hostVars, GInv, HInv, GuestType, BridgeTypeOK, Starts
  <2>3. FollowInv'
    BY <1>1 DEF bridgeVars, hostVars, GInv, FollowInv, InStep, StaysOpen
  <2>. QED BY <2>1, <2>2, <2>3 DEF GInv
<1>2. ASSUME NEW t \in Threads, GuestStep(t) PROVE GInv'
  <2>1. CASE astray
    <3>1. astray'
      BY <1>2, <2>1 DEF GuestStep, SetMinLevel, StartFiltered, StartForwarded, HostStep,
                        GuestEnd
    <3>. QED BY <1>2, <3>1, HostKeeps, GuestTypeKeeps DEF GInv, FollowInv
  <2>2. CASE ~astray
    <3>1. FollowInv'
      BY <1>2, <2>2, StartKeeps, InsertFollows, PushFollows, PopFollows, EndFollows
         DEF GuestStep, HostStep, Continue
    <3>. QED BY <1>2, <3>1, HostKeeps, GuestTypeKeeps DEF GInv
  <2>. QED BY <2>1, <2>2
<1>. QED BY <1>1, <1>2 DEF BridgeNext

LEMMA GInvariance == BridgeSpec => []GInv
BY GInit, GNext, PTL DEF BridgeSpec
-----------------------------------------------------------------------------
(* The guests of GuestBridge are callers of HostSpans: all that HostSpans  *)
(* promises for any callers holds for them.                                *)
THEOREM HostImplemented == BridgeSpec => Spec
<1>1. BridgeInit => Init
  BY DEF BridgeInit
<1>2. GInv /\ [BridgeNext]_bridgeVars => [Next]_hostVars
  BY GuestIsCaller DEF BridgeNext, Next, bridgeVars
<1>. QED BY <1>1, <1>2, GInvariance, PTL DEF BridgeSpec, Spec

(* Every variable keeps its type, the nesting its bound.                   *)
THEOREM BridgeTypeCorrect == BridgeSpec => []BridgeTypeOK
<1>1. GInv => BridgeTypeOK
  BY DEF GInv, GuestType
<1>. QED BY <1>1, GInvariance, PTL

(* What a guest logs is attributed to the span the guest is in.            *)
THEOREM HostAlwaysFollows == BridgeSpec => []HostFollowsGuest
<1>1. GInv => HostFollowsGuest
  BY DEF GInv, FollowInv, InStep, HostFollowsGuest
<1>. QED BY <1>1, GInvariance, PTL

(* No guest is warned about.                                               *)
THEOREM GuestsNotDiagnosed == BridgeSpec => []NeverDiagnosed
<1>1. GInv => NeverDiagnosed
  BY DEF GInv, FollowInv, NeverDiagnosed
<1>. QED BY <1>1, GInvariance, PTL

(* Guests that have no span open have left none in the host.               *)
THEOREM NothingIsLeft == BridgeSpec => []NothingLeft
<1>1. GInv => NothingLeft
  <2>. SUFFICES ASSUME GInv, ~astray,
                       \A t \in Threads :
                         /\ pc[t] = "idle"
                         /\ \A k \in 1 .. Len(nest[t]) : nest[t][k] = Filtered
       PROVE  spans = {} /\ \A t \in Threads : stack[t] = <<>>
    BY DEF NothingLeft
  <2>1. ASSUME NEW t \in Threads PROVE stack[t] = <<>>
    <3>1. Unfiltered(stack[t], nest[t]) /\ stack[t] \in Seq(Ids)
      BY NestTypes DEF GInv, FollowInv, InStep
    <3>2. PICK at : Embeds(at, stack[t], nest[t])
      BY <3>1, Embedded
    <3>3. ASSUME NEW i \in 1 .. Len(stack[t]) PROVE FALSE
      BY <3>2, <3>3 DEF Embeds
    <3>. QED BY <3>1, <3>3
  <2>2. ASSUME NEW id \in spans PROVE FALSE
    <3>1. Entered(id) \/ Starting(id)
      BY DEF GInv, HInv, OpenIsEntered
    <3>2. ~Starting(id)
      BY DEF Starting
    <3>3. PICK t \in Threads : \E i \in 1 .. Len(stack[t]) : stack[t][i] = id
      BY <3>1, <3>2 DEF Entered
    <3>. QED BY <2>1, <3>3
  <2>. QED BY <2>1, <2>2
<1>. QED BY <1>1, GInvariance, PTL
=============================================================================

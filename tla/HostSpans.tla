------------------------------ MODULE HostSpans ------------------------------
(***************************************************************************)
(* wasm_host.rs: the spans a host keeps open for its wasm guests.  Every   *)
(* span is in the process-wide map HOST_STATE.spans, behind a mutex, and   *)
(* is entered on the SPAN_STACK of the thread that started it.  A tracing  *)
(* span closes, and is exported, when both have let go of it.              *)
(*                                                                         *)
(* span_start and span_end touch the counter, the map and the stack one    *)
(* after the other, so each is a step of its own; the calls of different   *)
(* threads interleave between them.  Nothing is assumed of the callers:    *)
(* span_end takes any id, on any thread.                                   *)
(***************************************************************************)
EXTENDS Naturals, Sequences, SequencesExt

CONSTANTS
  Threads,    \* host threads that run guests
  MaxSpans    \* bound on the spans of a behaviour

ASSUME MaxSpansAssumption == MaxSpans \in Nat

Ids == 1 .. MaxSpans

VARIABLES
  nextId,     \* HOST_STATE.next_id
  spans,      \* HOST_STATE.spans: the ids in the map
  stack,      \* [Threads -> SPAN_STACK], the ids of the entered spans
  pc,         \* [Threads -> next step of its call]
  arg,        \* [Threads -> the id its call works on]
  diagnosed   \* the "attempted to end unknown wasm span" warnings, each with
              \* whether the map knew the id when the call removed it

hostVars == <<nextId, spans, stack, pc, arg, diagnosed>>

Goto(t, step) == pc' = [pc EXCEPT ![t] = step]

Init ==
  /\ nextId = 1 /\ spans = {}
  /\ stack = [t \in Threads |-> <<>>]
  /\ pc = [t \in Threads |-> "idle"]
  /\ arg = [t \in Threads |-> 0]
  /\ diagnosed = {}
-----------------------------------------------------------------------------
(* Bug: load and store instead of fetch_add may lose an increment.         *)
BugTakeIdLoad(t) ==
  /\ pc[t] = "idle" /\ nextId <= MaxSpans
  /\ arg' = [arg EXCEPT ![t] = nextId]
  /\ nextId' \in {nextId, nextId + 1}
  /\ Goto(t, "insert")
  /\ UNCHANGED <<spans, stack, diagnosed>>

(* span_start: next_id.fetch_add(1, Relaxed).                              *)
TakeId(t) ==
  /\ pc[t] = "idle" /\ nextId <= MaxSpans
  /\ arg' = [arg EXCEPT ![t] = nextId]
  /\ nextId' = nextId + 1
  /\ Goto(t, "insert")
  /\ UNCHANGED <<spans, stack, diagnosed>>

InsertSpan(t) ==
  /\ pc[t] = "insert"
  /\ spans' = spans \cup {arg[t]}
  /\ Goto(t, "push")
  /\ UNCHANGED <<nextId, stack, arg, diagnosed>>

(* Entering the span: from here on it is the thread's current span.        *)
PushSpan(t) ==
  /\ pc[t] = "push"
  /\ stack' = [stack EXCEPT ![t] = Append(@, arg[t])]
  /\ Goto(t, "idle")
  /\ UNCHANGED <<nextId, spans, arg, diagnosed>>

(* Bug: the clone in the map is never released.                            *)
BugKeepInMap(t, id) ==
  /\ pc[t] = "idle"
  /\ arg' = [arg EXCEPT ![t] = id]
  /\ pc' = [pc EXCEPT ![t] = IF id \in spans THEN "popKnown" ELSE "popUnknown"]
  /\ UNCHANGED <<nextId, spans, stack, diagnosed>>

(* span_end first takes the id out of the map, known or not.               *)
RemoveSpan(t, id) ==
  /\ pc[t] = "idle"
  /\ arg' = [arg EXCEPT ![t] = id]
  /\ Goto(t, IF id \in spans THEN "popKnown" ELSE "popUnknown")
  /\ spans' = spans \ {id}
  /\ UNCHANGED <<nextId, stack, diagnosed>>

OnTop(t, id) == stack[t] # <<>> /\ Last(stack[t]) = id

(* Bug: the top of the stack is popped whatever its id.                    *)
BugPopAnything(t) ==
  /\ pc[t] \in {"popKnown", "popUnknown"}
  /\ stack' = [stack EXCEPT ![t] = IF @ = <<>> THEN @ ELSE Front(@)]
  /\ diagnosed' = IF OnTop(t, arg[t]) THEN diagnosed
                  ELSE diagnosed \cup {[id |-> arg[t], known |-> pc[t] = "popKnown"]}
  /\ Goto(t, "idle")
  /\ UNCHANGED <<nextId, spans, arg>>

(* ... then pops the span if it is the innermost one of this thread; else  *)
(* the stack stays as it is and the call warns.                            *)
PopSpan(t) ==
  /\ pc[t] \in {"popKnown", "popUnknown"}
  /\ \/ /\ OnTop(t, arg[t])
        /\ stack' = [stack EXCEPT ![t] = Front(@)]
        /\ UNCHANGED diagnosed
     \/ /\ ~OnTop(t, arg[t])
        /\ diagnosed' = diagnosed \cup {[id |-> arg[t], known |-> pc[t] = "popKnown"]}
        /\ UNCHANGED stack
  /\ Goto(t, "idle")
  /\ UNCHANGED <<nextId, spans, arg>>
-----------------------------------------------------------------------------
(* What happens inside the calls.                                          *)
Continue(t) == InsertSpan(t) \/ PushSpan(t) \/ PopSpan(t)

Step(t) == TakeId(t) \/ (\E id \in Ids : RemoveSpan(t, id)) \/ Continue(t)

Next == \E t \in Threads : Step(t)

Spec == Init /\ [][Next]_hostVars
-----------------------------------------------------------------------------
(* Types; and every id in the map, or on its way there, was taken from the *)
(* counter and will not be taken again.                                    *)
TypeOK ==
  /\ nextId \in 1 .. MaxSpans + 1
  /\ spans \subseteq 1 .. nextId - 1
  /\ stack \in [Threads -> Seq(Ids)]
  /\ pc \in [Threads -> {"idle", "insert", "push", "popKnown", "popUnknown"}]
  /\ arg \in [Threads -> 0 .. MaxSpans]
  /\ \A t \in Threads : pc[t] \in {"insert", "push"} => arg[t] < nextId
  /\ diagnosed \subseteq [id : Ids, known : BOOLEAN]

Entered(id) == \E t \in Threads : \E i \in 1 .. Len(stack[t]) : stack[t][i] = id
Starting(id) == \E t \in Threads : pc[t] \in {"insert", "push"} /\ arg[t] = id

(* An id belongs to one span: the stacks are ascending, no id is on two of *)
(* them, whatever the interleaving of the calls.                           *)
OneSpanPerId ==
  \A t, u \in Threads :
    \A i \in 1 .. Len(stack[t]), j \in 1 .. Len(stack[u]) :
      IF t = u THEN i < j => stack[t][i] < stack[t][j]
               ELSE stack[t][i] # stack[u][j]

(* No span is kept open by the map alone: its thread has entered it and    *)
(* not left it, or is about to enter it.  Otherwise nothing could ever     *)
(* close, and export, the span.                                            *)
OpenIsEntered == \A id \in spans : Entered(id) \/ Starting(id)

(* SpanTree is implemented, for any callers at all.                        *)
Tree == INSTANCE SpanTree WITH
          closed <- {id \in Ids : id < nextId /\ id \notin spans
                                  /\ ~Entered(id) /\ ~Starting(id)}
TreeSpec == Tree!Spec
=============================================================================

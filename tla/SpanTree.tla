------------------------------ MODULE SpanTree ------------------------------
(***************************************************************************)
(* What the host promises about the spans of its guests, whatever calls    *)
(* they make: the spans entered on a thread form a stack, only its top is  *)
(* ever left, and a span that is left is closed for good.  Hence a parent  *)
(* is never exported before its children.                                  *)
(***************************************************************************)
EXTENDS Naturals, Sequences, SequencesExt

CONSTANTS Threads, MaxSpans

Ids == 1 .. MaxSpans

VARIABLES
  stack,    \* [Threads -> the spans entered, the innermost last]
  closed    \* the spans that were left

vars == <<stack, closed>>

Init == stack = [t \in Threads |-> <<>>] /\ closed = {}

Fresh(id) ==
  /\ id \notin closed
  /\ \A t \in Threads : \A i \in 1 .. Len(stack[t]) : stack[t][i] # id

Enter(t) == \E id \in Ids :
  /\ Fresh(id)
  /\ stack' = [stack EXCEPT ![t] = Append(@, id)]
  /\ UNCHANGED closed

Leave(t) ==
  /\ stack[t] # <<>>
  /\ stack' = [stack EXCEPT ![t] = Front(@)]
  /\ closed' = closed \cup {Last(stack[t])}

Next == \E t \in Threads : Enter(t) \/ Leave(t)

Spec == Init /\ [][Next]_vars
=============================================================================

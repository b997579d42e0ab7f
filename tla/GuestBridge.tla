----------------------------- MODULE GuestBridge -----------------------------
(***************************************************************************)
(* The wit-guest build of wasm_guest.rs on top of wasm_host.rs: guests,    *)
(* one per host thread, whose spans are filtered by their own minimum      *)
(* level before the calls cross to the host.                               *)
(*                                                                         *)
(* The guests are well behaved: each ends the spans it started, innermost  *)
(* first (HostSpans has the callers that do not).  They may move their     *)
(* minimum level at any time; the history variable astray tells whether    *)
(* that has lost a pair of calls, because the filter swallowed the end of  *)
(* a span whose start had crossed to the host.                             *)
(***************************************************************************)
EXTENDS HostSpans

CONSTANTS
  Levels,      \* the ranks a guest passes to set_min_level
  MaxNesting   \* bound on the spans a guest has open at a time

ASSUME LevelsAssumption   == Levels \subseteq 0 .. 4
ASSUME NestingAssumption  == MaxNesting \in Nat

Debug    == 1     \* Level::Debug.rank(), the level of every span
Filtered == 0     \* FILTERED_SPAN_ID

VARIABLES
  minLevel,   \* [Threads -> MIN_LEVEL of the guest on that thread]
  nest,       \* [Threads -> the ids the guest holds, the innermost last]
  astray      \* history: was the end of a span of the host's swallowed?

bridgeVars == <<hostVars, minLevel, nest, astray>>

LevelIsEnabled(level, min) == level >= min

(* ids is held without its sentinels: at tells where each one is held.     *)
Unfiltered(ids, held) ==
  \E at \in [1 .. Len(ids) -> 1 .. Len(held)] :
    /\ \A i, j \in 1 .. Len(ids) : i < j => at[i] < at[j]
    /\ \A i \in 1 .. Len(ids) : ids[i] = held[at[i]] /\ ids[i] # Filtered
    /\ \A k \in 1 .. Len(held) :
         held[k] # Filtered => \E i \in 1 .. Len(ids) : at[i] = k

BridgeInit ==
  /\ Init
  /\ minLevel = [t \in Threads |-> 0]
  /\ nest = [t \in Threads |-> <<>>]
  /\ astray = FALSE

SetMinLevel(t, level) ==
  /\ pc[t] = "idle"
  /\ minLevel' = [minLevel EXCEPT ![t] = level]
  /\ UNCHANGED <<hostVars, nest, astray>>

(* span_start when spans are filtered out: no call to the host.            *)
StartFiltered(t) ==
  /\ pc[t] = "idle" /\ Len(nest[t]) < MaxNesting
  /\ ~LevelIsEnabled(Debug, minLevel[t])
  /\ nest' = [nest EXCEPT ![t] = Append(@, Filtered)]
  /\ UNCHANGED <<hostVars, minLevel, astray>>

StartForwarded(t) ==
  /\ Len(nest[t]) < MaxNesting
  /\ LevelIsEnabled(Debug, minLevel[t])
  /\ TakeId(t)
  /\ UNCHANGED <<minLevel, nest, astray>>

(* The host call goes on; span_start returns the id to the guest.          *)
HostStep(t) ==
  /\ Continue(t)
  /\ nest' = IF pc[t] = "push" THEN [nest EXCEPT ![t] = Append(@, arg[t])]
             ELSE nest
  /\ UNCHANGED <<minLevel, astray>>

(* Bug: the sentinel is not recognised and crosses to the host.            *)
BugForwardSentinel(id, min) == LevelIsEnabled(Debug, min)

(* Bug: off by one, at the level of the spans themselves.                  *)
BugStrictLevel(id, min) == id # Filtered /\ Debug > min

Forwards(id, min) == id # Filtered /\ LevelIsEnabled(Debug, min)

(* span_end of the innermost span: the sentinel is a no-op, and so is any  *)
(* id while Debug is filtered out.                                         *)
GuestEnd(t) ==
  /\ pc[t] = "idle" /\ nest[t] # <<>>
  /\ LET id == Last(nest[t]) IN
     /\ IF Forwards(id, minLevel[t]) THEN RemoveSpan(t, id)
        ELSE UNCHANGED hostVars
     /\ astray' = (astray \/ (id # Filtered /\ ~LevelIsEnabled(Debug, minLevel[t])))
  /\ nest' = [nest EXCEPT ![t] = Front(@)]
  /\ UNCHANGED minLevel

GuestStep(t) ==
  \/ \E level \in Levels : SetMinLevel(t, level)
  \/ StartFiltered(t) \/ StartForwarded(t) \/ HostStep(t) \/ GuestEnd(t)

BridgeNext == \E t \in Threads : GuestStep(t)

BridgeSpec == BridgeInit /\ [][BridgeNext]_bridgeVars

(* A host call runs to its end, and a guest does not stay in a span for    *)
(* ever, at any depth (span_end sits in destructors: when the guest's      *)
(* function returns, or when it unwinds), though it may have started and   *)
(* ended spans inside it all the time: hence strong fairness.              *)
EndAt(t, depth) == Len(nest[t]) = depth /\ GuestEnd(t)

Fairness ==
  \A t \in Threads :
    /\ WF_bridgeVars(HostStep(t))
    /\ \A depth \in 1 .. MaxNesting : SF_bridgeVars(EndAt(t, depth))

LiveSpec == BridgeSpec /\ Fairness
-----------------------------------------------------------------------------
BridgeTypeOK ==
  /\ TypeOK
  /\ minLevel \in [Threads -> Levels \cup {0}]
  /\ nest \in [Threads -> Seq(0 .. MaxSpans)]
  /\ \A t \in Threads : Len(nest[t]) <= MaxNesting
  /\ astray \in BOOLEAN

(* Between the calls of a guest the host has entered exactly the spans the *)
(* guest has open, in the guest's order: what the guest logs next is       *)
(* attributed to the span the guest is in.  The guests may move their      *)
(* levels, up and down, with spans open, as long as no end is swallowed.   *)
HostFollowsGuest ==
  ~astray => \A t \in Threads : pc[t] = "idle" => Unfiltered(stack[t], nest[t])

(* A host whose guests have no span open has none open either, as long as  *)
(* no end was swallowed: nothing is left behind that would never be        *)
(* exported.                                                               *)
NothingLeft ==
  /\ ~astray
  /\ \A t \in Threads : /\ pc[t] = "idle"
                         /\ \A k \in 1 .. Len(nest[t]) : nest[t][k] = Filtered
  => spans = {} /\ \A t \in Threads : stack[t] = <<>>

(* The host warns about no guest unless the end of a span was swallowed.   *)
NeverDiagnosed == ~astray => diagnosed = {}

(* Every span the host opens for a guest is closed, hence exported, unless *)
(* the end of some span is swallowed.                                      *)
SpansClose ==
  \A id \in Ids : id \in spans ~> astray \/ (id \notin spans /\ ~Entered(id))
=============================================================================

----------------------------- MODULE GuestSpans -----------------------------
(***************************************************************************)
(* The fallback build of wasm_guest.rs, without a host: span_start and     *)
(* span_end print a line each and keep the open spans in a registry behind *)
(* a mutex, to compute their duration.  The threads of the process share   *)
(* the registry and the minimum level; a span may be ended by another      *)
(* thread than the one that started it, once.  The level may move at any   *)
(* time.                                                                   *)
(***************************************************************************)
EXTENDS Naturals

CONSTANTS
  Threads,    \* threads of the process
  MaxSpans,   \* bound on the ids taken
  Levels      \* the ranks passed to set_min_level

ASSUME MaxSpansAssumption == MaxSpans \in Nat
ASSUME LevelsAssumption   == Levels \subseteq 0 .. 4

Ids   == 1 .. MaxSpans
Debug == 1         \* Level::Debug.rank(), the level of every span

VARIABLES
  minLevel,   \* MIN_LEVEL
  nextId,     \* NEXT_SPAN_ID
  registry,   \* span_registry(): the ids in the map
  pc,         \* [Threads -> "idle" or "insert"]
  arg,        \* [Threads -> the id its span_start has taken]
  open,       \* [Threads -> the ids the caller got there and has not ended]
  unknown,    \* the ids of the "span-end: unknown" lines
  dropped     \* the ids whose span_end was filtered out

vars == <<minLevel, nextId, registry, pc, arg, open, unknown, dropped>>

LevelIsEnabled(level) == level >= minLevel

Init ==
  /\ minLevel = 0 /\ nextId = 1 /\ registry = {}
  /\ pc = [t \in Threads |-> "idle"]
  /\ arg = [t \in Threads |-> 0]
  /\ open = [t \in Threads |-> {}]
  /\ unknown = {} /\ dropped = {}
-----------------------------------------------------------------------------
SetMinLevel(level) ==
  /\ minLevel' = level
  /\ UNCHANGED <<nextId, registry, pc, arg, open, unknown, dropped>>

(* Bug: load and store instead of fetch_add may lose an increment.         *)
BugTakeIdLoad(t) ==
  /\ pc[t] = "idle" /\ nextId <= MaxSpans /\ LevelIsEnabled(Debug)
  /\ arg' = [arg EXCEPT ![t] = nextId]
  /\ nextId' \in {nextId, nextId + 1}
  /\ pc' = [pc EXCEPT ![t] = "insert"]
  /\ UNCHANGED <<minLevel, registry, open, unknown, dropped>>

(* span_start that is not filtered; a filtered one returns the sentinel,   *)
(* which span_end ignores, and changes nothing.                            *)
TakeId(t) ==
  /\ pc[t] = "idle" /\ nextId <= MaxSpans /\ LevelIsEnabled(Debug)
  /\ arg' = [arg EXCEPT ![t] = nextId]
  /\ nextId' = nextId + 1
  /\ pc' = [pc EXCEPT ![t] = "insert"]
  /\ UNCHANGED <<minLevel, registry, open, unknown, dropped>>

InsertSpan(t) ==
  /\ pc[t] = "insert"
  /\ registry' = registry \cup {arg[t]}
  /\ open' = [open EXCEPT ![t] = @ \cup {arg[t]}]
  /\ pc' = [pc EXCEPT ![t] = "idle"]
  /\ UNCHANGED <<minLevel, nextId, arg, unknown, dropped>>

(* Bug: span_end looks the span up but leaves it in the registry.          *)
BugLookUp(t, u, id) ==
  /\ pc[t] = "idle" /\ id \in open[u]
  /\ open' = [open EXCEPT ![u] = @ \ {id}]
  /\ unknown' = IF id \in registry THEN unknown ELSE unknown \cup {id}
  /\ UNCHANGED <<minLevel, nextId, registry, pc, arg, dropped>>

(* span_end by thread t of a span started on u: no-op when Debug is        *)
(* filtered out by now; else the span leaves the registry, or the line     *)
(* says that it is unknown.                                                *)
EndSpan(t, u, id) ==
  /\ pc[t] = "idle" /\ id \in open[u]
  /\ open' = [open EXCEPT ![u] = @ \ {id}]
  /\ \/ /\ LevelIsEnabled(Debug)
        /\ registry' = registry \ {id}
        /\ unknown' = IF id \in registry THEN unknown ELSE unknown \cup {id}
        /\ UNCHANGED dropped
     \/ /\ ~LevelIsEnabled(Debug)
        /\ dropped' = dropped \cup {id}
        /\ UNCHANGED <<registry, unknown>>
  /\ UNCHANGED <<minLevel, nextId, pc, arg>>

Next ==
  \/ \E level \in Levels : SetMinLevel(level)
  \/ \E t \in Threads :
       \/ TakeId(t) \/ InsertSpan(t)
       \/ \E u \in Threads, id \in Ids : EndSpan(t, u, id)

Spec == Init /\ [][Next]_vars
-----------------------------------------------------------------------------
(* Types; and every id in use was taken from the counter and will not be   *)
(* taken again.                                                            *)
TypeOK ==
  /\ minLevel \in Levels \cup {0}
  /\ nextId \in 1 .. MaxSpans + 1
  /\ registry \subseteq 1 .. nextId - 1
  /\ pc \in [Threads -> {"idle", "insert"}]
  /\ arg \in [Threads -> 0 .. MaxSpans]
  /\ open \in [Threads -> SUBSET (1 .. nextId - 1)]
  /\ \A t \in Threads : pc[t] = "insert" => arg[t] < nextId
  /\ unknown \subseteq Ids /\ dropped \subseteq 1 .. nextId - 1

(* The registry holds exactly the spans that are open and those whose end  *)
(* was filtered out: none is lost, so its end line will have its name and  *)
(* duration, and the only spans left behind in a map that would grow       *)
(* without bound are the ones the level was raised under.                  *)
RegistryIsOpen == registry = dropped \cup UNION {open[t] : t \in Threads}

(* A span that is ended once is never reported as unknown, wherever it is  *)
(* ended and however the level moved since.                                *)
NeverUnknown == unknown = {}
=============================================================================

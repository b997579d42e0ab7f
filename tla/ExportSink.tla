------------------------------ MODULE ExportSink ------------------------------
(***************************************************************************)
(* What the initialisation promises about the process's span and log       *)
(* export, whatever the order and the outcome of the calls: the provider   *)
(* spans go to is attached once and never replaced or detached, the log    *)
(* bridge is added at most once and never lost, and a provider that was    *)
(* shut down stays so.                                                     *)
(***************************************************************************)
EXTENDS Naturals

CONSTANTS Providers,   \* names of providers
          Stoppable    \* what shutdown may stop: pairs <<signal, provider>>

None == 0              \* not a provider

VARIABLES
  spans,    \* the provider that receives the spans, or None
  logs,     \* the provider the log bridge feeds, or None
  stopped   \* the providers shut down

vars == <<spans, logs, stopped>>

Init == spans = None /\ logs = None /\ stopped = {}

Attach ==
  /\ spans = None
  /\ spans' \in Providers
  /\ logs' \in Providers \cup {None}
  /\ UNCHANGED stopped

Bridge ==
  /\ spans # None /\ logs = None
  /\ logs' \in Providers
  /\ UNCHANGED <<spans, stopped>>

Stop ==
  /\ \E p \in Stoppable : stopped' = stopped \cup {p}
  /\ UNCHANGED <<spans, logs>>

Next == Attach \/ Bridge \/ Stop

Spec == Init /\ [][Next]_vars
=============================================================================

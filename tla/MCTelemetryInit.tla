--------------------------- MODULE MCTelemetryInit ---------------------------
(* TLC instances of TelemetryInit: the configurations choose the threads,  *)
(* the entry points, the export modes and the bound on calls.              *)
EXTENDS TelemetryInit, TLC

CONSTANTS t1, t2

OneThread  == {t1}
TwoThreads == {t1, t2}
ThreadSymmetry == Permutations(Threads)

(* init_from_provider_config is init_telemetry_from_config and more.       *)
Concurrent  == EntryPoints \ {"init_telemetry_from_config"}
(* The two stages of docs/otlp-backends.md.                                *)
Stages      == {"init_telemetry", "init_from_provider_config"}
(* An application that only knows the first of them, and calls it again.   *)
StageOne    == {"init_telemetry"}

OtlpModes == {"json", "otlp"}
==============================================================================

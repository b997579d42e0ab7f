---------------------------- MODULE MCTelemetryUse ----------------------------
(* TLC instances of TelemetryUse.                                          *)
EXTENDS TelemetryUse, TLC

CONSTANTS t1, u1, u2, metric1, trace1

OneThread    == {t1}
OneUser      == {u1}
TwoUsers     == {u1, u2}
OneName      == {metric1}
OneTrace     == {trace1}
UserSymmetry == Permutations(Users)

(* shutdown() touches nothing the client or the exporters read.            *)
Stages      == EntryPoints \ {"shutdown"}
(* All that a config can install, and the tracer only, without redaction.  *)
StageModes  == {"otlp", "gcp"}
(* An application that configures the OTLP export and nothing else.        *)
OtlpOnly    == {"otlp"}
ConfigFirst == {"init_telemetry_from_config"}
==============================================================================

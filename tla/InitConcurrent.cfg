SPECIFICATION Spec
CONSTANTS
  t1 = t1
  t2 = t2
  Threads <- TwoThreads
  MaxCalls = 3
  Entries <- Concurrent
  Modes <- OtlpModes
  Patterns = {FALSE}
SYMMETRY ThreadSymmetry
INVARIANTS
  TypeOK
  RedactorFirst
  GuardMeansInstalled
  FailuresStayRetryable
  LayersDrawnFromCells
  ShutdownStopsSink
  ClientHasGlobals
PROPERTIES
  SinkSpec
\* MaxCalls bounds the calls: afterwards every thread is idle for good.
CHECK_DEADLOCK FALSE

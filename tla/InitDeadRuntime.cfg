SPECIFICATION Spec
CONSTANTS
  t1 = t1
  t2 = t2
  Threads <- OneThread
  MaxCalls = 2
  Entries <- StageOne
  Modes <- OtlpModes
  Patterns = {FALSE}
INVARIANTS
  RuntimeOutlivesProvider
\* MaxCalls bounds the calls: afterwards every thread is idle for good.
CHECK_DEADLOCK FALSE

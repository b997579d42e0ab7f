SPECIFICATION Spec
CONSTANTS
  t1 = t1
  t2 = t2
  Threads <- OneThread
  MaxCalls = 2
  Entries <- Stages
  Modes <- OtlpModes
  Patterns = {FALSE}
INVARIANTS
  UpgradeTakesEffect
\* MaxCalls bounds the calls: afterwards every thread is idle for good.
CHECK_DEADLOCK FALSE

SPECIFICATION UseSpec
CONSTANTS
  t1 = t1
  u1 = u1
  u2 = u2
  metric1 = metric1
  trace1 = trace1
  NoTrace = NoTrace
  Threads <- OneThread
  MaxCalls = 1
  Entries <- ConfigFirst
  Modes <- OtlpOnly
  Patterns = {FALSE}
  Users <- OneUser
  MaxUses = 0
  Names <- OneName
  TraceIds <- OneTrace
INVARIANTS
  RedactionIsGlobal
\* MaxCalls bounds the calls: afterwards every thread is idle for good.
CHECK_DEADLOCK FALSE

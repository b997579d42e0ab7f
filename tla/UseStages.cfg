SPECIFICATION UseSpec
CONSTANTS
  t1 = t1
  u1 = u1
  u2 = u2
  metric1 = metric1
  trace1 = trace1
  NoTrace = NoTrace
  Threads <- OneThread
  MaxCalls = 3
  Entries <- Stages
  Modes <- StageModes
  Patterns = {TRUE, FALSE}
  Users <- TwoUsers
  MaxUses = 2
  Names <- OneName
  TraceIds <- OneTrace
SYMMETRY UserSymmetry
INVARIANTS
  UseTypeOK
  UpgradeIsVisible
  OneStreamPerName
  NeverNoop
  FirstPatternsApply
  PipelineMasks
\* MaxCalls and MaxUses bound the calls: afterwards all is idle for good.
CHECK_DEADLOCK FALSE

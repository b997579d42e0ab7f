SPECIFICATION LiveSpec
CONSTANTS
  t1 = t1
  t2 = t2
  Threads <- TwoThreads
  MaxSpans = 3
  MaxNesting = 2
  Levels <- AroundDebug
INVARIANTS
  BridgeTypeOK
  HostFollowsGuest
  NeverDiagnosed
  NothingLeft
PROPERTIES
  SpansClose

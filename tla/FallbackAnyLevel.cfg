SPECIFICATION Spec
CONSTANTS
  t1 = t1
  t2 = t2
  Threads <- TwoThreads
  MaxSpans = 4
  Levels <- AroundDebug
SYMMETRY ThreadSymmetry
INVARIANTS
  TypeOK
  RegistryIsOpen
  NeverUnknown

SPECIFICATION Spec
CONSTANTS
  t1 = t1
  t2 = t2
  Threads <- TwoThreads
  MaxSpans = 3
SYMMETRY ThreadSymmetry
INVARIANTS
  TypeOK
  OneSpanPerId
  OpenIsEntered
PROPERTIES
  TreeSpec

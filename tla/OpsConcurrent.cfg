SPECIFICATION Spec
CONSTANTS
  o1 = o1
  o2 = o2
  send = send
  ping = ping
  Ops <- TwoOps
  Names <- TwoNames
  Providers <- AllProviders
  PayloadHash = TRUE
SYMMETRY OpSymmetry
INVARIANTS
  TypeOK
  TracesAreWhole
  NothingHiddenLeaves

SPECIFICATION Spec
CONSTANTS
  o1 = o1
  o2 = o2
  send = send
  ping = ping
  Ops <- OneOp
  Names <- TwoNames
  Providers <- Excluding
  PayloadHash = TRUE
INVARIANTS
  ExcludedIsSilent

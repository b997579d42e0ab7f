SPECIFICATION Spec
CONSTANTS
  k1 = k1
  k2 = k2
  s1 = s1
  Tasks <- TwoTasks
  Spans <- OneSpan
  NoSpan = NoSpan
  Contexts <- ThreeContexts
  Handed <- OneContext
  Values <- FieldValues
  Unset <- NoValue
  MaxScopes = 2
SYMMETRY Symmetry
INVARIANTS
  TypeOK
  CreatedContextSticks
  ExportMatchesStored
  SeriesBounded
PROPERTIES
  SettledIsFinal

SPECIFICATION Spec
CONSTANTS
  EnvInputs <- SomeEnvInputs
  ProviderInputs <- SomeProviderInputs
  UserVariables = {"traces", "logs"}
  MaxAttempts = 2
INVARIANTS
  TypeOK
  OwnHeadersSent
  UnknownPresetIsNone
  ExplicitFieldsWin
  StagesAgree
  ValidatedMeansWhatItSays
\* MaxAttempts bounds the attempts.
CHECK_DEADLOCK FALSE

CONSTANTS
  MaxAttempts = 2
  MaxVersion = 2
  MaxEnvs = 1
  MaxSidecars = 2
  Registries <- MCRegistries
  Problems <- MCProblems
SPECIFICATION Spec
INVARIANTS
  TypeOK
  OwnNetwork
  NothingLeft
  RetryFindsRoom
  ReadyBeforeCases
  NamesResolve
  
  ImageCurrent
PROPERTIES
  AttemptProceeds

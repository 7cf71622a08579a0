CONSTANTS
  MaxAttempts = 2
  Funcs = {f, g}
  Problems <- MCProblems
  ZipUploads <- MCUploads
  Calls <- MCCalls
  RuleSets <- MCRules
SPECIFICATION Spec
INVARIANTS
  TypeOK
  VerdictJust
  OwnUploads
  BinarySent
  ContainersGone
  RecursionFound
  StudentScreened

  

\* Two submissions judged side by side.
SPECIFICATION Spec
CONSTANTS
  s1 = s1
  s2 = s2
  Sids <- TwoSids
  Profiles <- MixedProfiles
  MaxCases = 2
  MaxRequests = 1
  QueueSize = 6
  MaxContainers = 1
  HttpThreads = 2
  MayExpire = FALSE
  MayRaise = FALSE
INVARIANTS
  TypeOK
  CaseFindsProgram
  NoCaseLost
  EndpointMatches
  CustomKept
  NoJobTwice
PROPERTIES
  KeepsPromises

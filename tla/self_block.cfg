\* The dispatcher waits for room that only it can make.
SPECIFICATION Spec
CONSTANTS
  s1 = s1
  s2 = s2
  Sids <- TwoSids
  Profiles <- NormalProfiles
  MaxCases = 2
  MaxRequests = 1
  QueueSize = 3
  MaxContainers = 1
  HttpThreads = 2
  MayExpire = FALSE
  MayRaise = FALSE
INVARIANTS
  NoSelfBlock

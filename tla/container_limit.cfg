\* Two cases start before the first is counted.
SPECIFICATION Spec
CONSTANTS
  s1 = s1
  s2 = s2
  Sids <- OneSid
  Profiles <- NormalProfiles
  MaxCases = 2
  MaxRequests = 1
  QueueSize = 6
  MaxContainers = 1
  HttpThreads = 2
  MayExpire = FALSE
  MayRaise = FALSE
INVARIANTS
  ContainerLimit

\* Every accepted submission is resolved.
SPECIFICATION FairSpec
CONSTANTS
  s1 = s1
  s2 = s2
  Sids <- TwoSids
  Profiles <- LiveProfiles
  MaxCases = 1
  MaxRequests = 1
  QueueSize = 6
  MaxContainers = 1
  HttpThreads = 2
  MayExpire = FALSE
  MayRaise = FALSE
PROPERTIES
  AcceptedResolved

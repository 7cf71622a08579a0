\* Two requests for one id at the same time.
SPECIFICATION Spec
CONSTANTS
  s1 = s1
  s2 = s2
  Sids <- OneSid
  Profiles <- OneCaseProfiles
  MaxCases = 1
  MaxRequests = 2
  QueueSize = 6
  MaxContainers = 1
  HttpThreads = 2
  MayExpire = FALSE
  MayRaise = FALSE
PROPERTIES
  FilesKept

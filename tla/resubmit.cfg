\* An id submitted again, one request at a time.
SPECIFICATION Spec
CONSTANTS
  s1 = s1
  s2 = s2
  Sids <- OneSid
  Profiles <- NormalProfiles
  MaxCases = 2
  MaxRequests = 2
  QueueSize = 6
  MaxContainers = 1
  HttpThreads = 1
  MayExpire = FALSE
  MayRaise = FALSE
INVARIANTS
  ScreenedBeforeRun
  ReportsOwnVerdicts
  ReportedOnce
  NothingLost
PROPERTIES
  FilesKept

\* A late release takes the next request's checker.
SPECIFICATION Spec
CONSTANTS
  s1 = s1
  s2 = s2
  Sids <- OneSid
  Profiles <- CustomOnly
  MaxCases = 1
  MaxRequests = 2
  QueueSize = 6
  MaxContainers = 1
  HttpThreads = 1
  MayExpire = FALSE
  MayRaise = FALSE
INVARIANTS
  CustomKept

\* Overlapping requests for one id, time-outs, dying threads, a full queue
\* (in which the dispatcher can block itself for good).
SPECIFICATION Spec
CONSTANTS
  s1 = s1
  s2 = s2
  Sids <- OneSid
  Profiles <- OneCaseProfiles
  MaxCases = 1
  MaxRequests = 2
  QueueSize = 2
  MaxContainers = 1
  HttpThreads = 2
  MayExpire = TRUE
  MayRaise = TRUE
CHECK_DEADLOCK FALSE
INVARIANTS
  ContainersExact
  NeverUnscreened
  NoJobTwice

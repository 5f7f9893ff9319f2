\* Two devices, one of which has refreshed twice, three requests at once; the requests stop when their calls are used up.
SPECIFICATION FairSpec
CONSTANTS
  c1 = c1
  c2 = c2
  c3 = c3
  Caller = {c1, c2, c3}
  MaxToken = 7
  InitialToken <- RefreshedTwice
  MaxAttempts = 1
  Connections = 4
  MaxCalls = 3
  MaxFaults = 1
INVARIANT OneLivePerLogin
PROPERTIES RevocationMissesNone CallsEnd LockoutEnds
CHECK_DEADLOCK FALSE

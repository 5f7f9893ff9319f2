\* Two devices and two requests at once, of which none is lost, with connections to spare.
SPECIFICATION FairSpec
CONSTANTS
  c1 = c1
  c2 = c2
  c3 = c3
  Caller = {c1, c2}
  MaxToken = 6
  InitialToken <- TwoDevices
  MaxAttempts = 1
  Connections = 4
  MaxCalls = 3
  MaxFaults = 0
PROPERTY ReuseRevokesAll
CHECK_DEADLOCK FALSE

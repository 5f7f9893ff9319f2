\* One schedule, ticks of any replica with a clock that may lag, and two callers; a deployment may
\* drop the job while its runs exist.
SPECIFICATION FairSpec
CONSTANTS
  NoKey = NoKey
  NoJob = NoJob
  accrual = accrual
  expiry = expiry
  k1 = k1
  c1 = c1
  c2 = c2
  Job = {accrual}
  Key = {k1}
  Caller = {c1, c2}
  Request <- Requests
  MaxRun = 4
  MaxLag = 1
  MaxTime = 2
  Period = {1, 2}
  QueuedTimeout = 0
  StalledTimeout = 0
  BatchLimit = 1
  Retirable = {accrual}
  MaxFaults = 1
INVARIANTS OneActiveRun OccurrenceOnce SameKeySameRun
PROPERTIES FiresWhenDue WorkTakenUp

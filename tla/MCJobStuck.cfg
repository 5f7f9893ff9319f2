\* The same, and a worker may fail after the chunk's commit and before finalize.
SPECIFICATION FairSpec
CONSTANTS
  r1 = r1
  r2 = r2
  c1 = c1
  c2 = c2
  w1 = w1
  w2 = w2
  accrual = accrual
  NoChunk = NoChunk
  NoTask = NoTask
  Run = {r1}
  JobOf <- OneJob
  DryRun = {}
  Chunk = {c1, c2}
  Worker = {w1, w2}
  MaxAttempts = 1
  FaultInWindow = TRUE
  MaxFaults = 1
  MaxCalls = 0
  MaxCopies = 1
PROPERTY RunsFinish
CHECK_DEADLOCK FALSE

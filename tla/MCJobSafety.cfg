\* One run of two chunks on two workers, every fault, cancel and retry.
SPECIFICATION FairSpec
CONSTANTS
  r1 = r1
  r2 = r2
  c1 = c1
  c2 = c2
  w1 = w1
  w2 = w2
  accrual = accrual
  NoChunk = NoChunk
  NoTask = NoTask
  Run = {r1}
  JobOf <- OneJob
  DryRun = {}
  Chunk = {c1, c2}
  Worker = {w1, w2}
  MaxAttempts = 2
  FaultInWindow = TRUE
  MaxFaults = 2
  MaxCalls = 2
  MaxCopies = 1
INVARIANTS EffectsOnce OutcomeTellsChunks
PROPERTIES SettledStays ImplementsPromise RunsFinishOrAreLeft LeftOnlyByFault
CHECK_DEADLOCK FALSE

SPECIFICATION FairSpec
CONSTANTS
  t1 = t1
  t2 = t2
  w1 = w1
  w2 = w2
  Tasks = {t1, t2}
  Workers = {w1}
  NoOne = NoOne
  MaxRetries = 1
  WorkerBatchSize = 1
  ForceFail <- Failing
  MayStall <- Stalling
  MaxClaims = 2
  MaxFaults = 1
  PatchSources <- PatchAnyButT1
PROPERTIES EventuallySettled StuckRunningIsReclaimed

SPECIFICATION Spec
CONSTANTS
  t1 = t1
  t2 = t2
  w1 = w1
  w2 = w2
  Tasks = {t1, t2}
  Workers = {w1, w2}
  NoOne = NoOne
  MaxRetries = 1
  WorkerBatchSize = 2
  ForceFail <- Failing
  MayStall = {}
  MaxClaims = 3
  MaxFaults = 0
  PatchSources <- PatchAny
PROPERTY FinalIsFinal

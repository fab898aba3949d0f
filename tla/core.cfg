SPECIFICATION Spec
CONSTANTS
  t1 = t1
  t2 = t2
  w1 = w1
  w2 = w2
  Tasks = {t1, t2}
  Workers = {w1, w2}
  NoOne = NoOne
  MaxRetries = 1
  WorkerBatchSize = 2
  ForceFail <- Failing
  MayStall <- Stalling
  MaxClaims = 2
  MaxFaults = 1
  PatchSources <- PatchAnyButT1
SYMMETRY WorkerSymmetry
INVARIANTS TypeOK SelectedRowsUntouched NoOverlap RunsAreFresh ClaimBudget SucceededHasNoError
PROPERTIES DeletedStaysDeleted TerminalIsFinal RetryCountNeverDrops ImplementsJobQueue

SPECIFICATION FairSpec
CONSTANTS
  j1 = j1
  j2 = j2
  j3 = j3
  j4 = j4
  Jobs = {j1, j2, j3, j4}
  WorkerBatchSize = 3
  WorkerConcurrency = 0
  MayRaise = TRUE
CHECK_DEADLOCK FALSE
INVARIANTS TypeOK CapUnlessRaised OnlyOrphansOutlive
PROPERTIES StopIsHonoured EveryRunEnds

SPECIFICATION FairSpec
CONSTANTS
  r1 = r1
  r2 = r2
  r3 = r3
  Requests = {r1, r2, r3}
  KindsOf <- SomeKinds
  NoKind = NoKind
  NoOne = NoOne
  MaxRetries = 1
  PoolLimit = 2
  MaxFaults = 1
CHECK_DEADLOCK FALSE
INVARIANTS TypeOK NothingLeaks LogsAgreeWithAnswers
PROPERTIES ImplementsRowRequests EveryRequestIsAnswered

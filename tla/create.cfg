SPECIFICATION FairSpec
CONSTANTS
  c1 = c1
  c2 = c2
  c3 = c3
  k1 = k1
  NoKey = NoKey
  None = None
  Failed = Failed
  Clients = {c1, c2, c3}
  Key <- SharedKey
  MaxSends = 2
  MaxFaults = 1
CHECK_DEADLOCK FALSE
INVARIANTS TypeOK OneTaskPerKey RepliesAgree FailuresAreExplained CounterIsExact
PROPERTIES IsAtomic EveryRequestIsAnswered

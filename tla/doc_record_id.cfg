SPECIFICATION Spec
CONSTANTS
  r1 = r1
  r2 = r2
  r3 = r3
  Requests = {r1}
  KindsOf <- OnePatch
  NoKind = NoKind
  NoOne = NoOne
  MaxRetries = 1
  PoolLimit = 1
  MaxFaults = 1
INVARIANT EveryRecordHasId

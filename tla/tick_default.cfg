SPECIFICATION Spec
\* The defaults of app/config.py and a skew of three minutes, in units of 10 s.
CONSTANTS
  WorkerBatchSize = 20
  WorkerConcurrency = 5
  ExecutionTimeout = 3
  RunningTaskTimeout = 30
  ClockSkew = 18
CHECK_DEADLOCK FALSE
INVARIANTS TypeOK TickIsShort OverBeforeReaped

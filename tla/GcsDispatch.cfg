CONSTANTS
  Keys = {k1}
  Callers = {c1}
  Rounds = {h1, h2}
  Priorities = {0, 1}
  Waits = {0}
  BackoffPeriod = 1
  MaximumBackoff = 1
  RequeueDelay = 1
  Lease = 2
  MaxMeta = 2
  Concurrency = 1
  Limit = 1
  MaxRetry = 2
  Timely = TRUE
  SerialRecovery = TRUE
  MaxQueues = 2
  MaxAttempts = 2
  MaxFailures = 1
SPECIFICATION FairSpec
INVARIANTS TypeOK ClientWorkKept RetryWorkKept OwnedUntilDone
PROPERTIES ImplementsWorkQueue EveryKeyServed
CHECK_DEADLOCK FALSE

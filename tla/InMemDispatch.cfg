CONSTANTS
  Keys = {k1, k2}
  Waits = {0, 1}
  Rounds = {h1, h2}
  Priorities = {0, 1}
  BackoffPeriod = 1
  MaximumBackoff = 1
  RequeueDelay = 1
  Concurrency = 1
  Limit = 1
  MaxRetry = 2
  MaxQueues = 4
  MaxAttempts = 2
SPECIFICATION FairSpec
INVARIANTS TypeOK OneOwnerPerKey NoLostWork OptionsKept WithinConcurrencyWhenSettled
PROPERTIES ImplementsWorkQueue EveryKeyServed
CHECK_DEADLOCK FALSE

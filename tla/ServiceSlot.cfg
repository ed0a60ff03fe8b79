CONSTANTS
  num_threads = 1
  NumTasks = 3
  PoolSize = 1
  MaxIo = 1
  RetryMayFail = FALSE
  None = None
SPECIFICATION FairSpec
INVARIANT EveryAwaitOwed

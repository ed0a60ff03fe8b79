CONSTANTS
  num_threads = 1
  NumTasks = 2
  PoolSize = 1
  MaxIo = 1
  RetryMayFail = TRUE
  None = None
SPECIFICATION FairSpec
PROPERTY RequestAnswered
CHECK_DEADLOCK FALSE

CONSTANTS
  num_threads = 2
  NumTasks = 3
  PoolSize = 1
  MaxIo = 2
  RetryMayFail = FALSE
  None = None
SPECIFICATION FairSpec
INVARIANTS
  EveryAwaitOwed
  AnswersOwnRequest
PROPERTY RequestAnswered

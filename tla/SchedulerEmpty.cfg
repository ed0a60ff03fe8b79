CONSTANTS
  num_threads = 2
  MaxAwaits = 0
  NumTasks = 0
  TaskCounts <- NoTasks
SPECIFICATION FairSpec
PROPERTY RunReturns
CHECK_DEADLOCK FALSE

CONSTANTS
  num_threads = 2
  MaxAwaits = 2
  NumTasks = 3
  TaskCounts <- ThreeTasks
SPECIFICATION FairSpec
INVARIANTS
  ChannelOpen
  AliveCounts
  CleanExit
PROPERTY RunReturns
\* A reactor without work keeps polling: RunReturns excludes a real standstill.
CHECK_DEADLOCK FALSE

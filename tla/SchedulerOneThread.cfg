CONSTANTS
  num_threads = 1
  MaxAwaits = 2
  NumTasks = 3
  TaskCounts <- EmptyThenThree
SPECIFICATION FairSpec
INVARIANTS
  ChannelOpen
  AliveCounts
  CleanExit
PROPERTY RunReturns
CHECK_DEADLOCK FALSE

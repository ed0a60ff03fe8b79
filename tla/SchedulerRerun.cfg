CONSTANTS
  num_threads = 2
  MaxAwaits = 1
  NumTasks = 2
  TaskCounts <- TwoTests
SPECIFICATION Spec
INVARIANT TasksHaveCoroutine

CONSTANTS
  num_threads = 2
  NumTasks = 4
  DONE = 10
  Refresh = 2
  None = None
  Writers = {1, 3}
  write_entered_flag = 4
SPECIFICATION FairSpec
INVARIANTS StateAccounted WakeUpOwed
PROPERTIES ImplementsRwLock Terminates

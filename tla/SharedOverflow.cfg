CONSTANTS
  num_threads = 1
  NumTasks = 5
  DONE = 10
  Refresh = 2
  None = None
  Writers = {}
  write_entered_flag = 4
SPECIFICATION Spec
INVARIANT WakeUpOwed

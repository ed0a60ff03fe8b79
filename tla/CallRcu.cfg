CONSTANTS
  num_threads = 2
  NumTasks = 3
  DONE = 20
  Refresh = 2
  None = None
  Null = Null
  Objects = {o1, o2, o3, o4}
  First = o1
  n_round = 2
  Writers = {0, 2}
  Syncers = {1}
  Deferrers = {2}
  Threshold = 2
  UINT_MAX = 15
  HeadsZeroed = TRUE
SPECIFICATION CSpec
INVARIANTS NoUseAfterFree CallbacksAccounted ListIntact
PROPERTY Terminates

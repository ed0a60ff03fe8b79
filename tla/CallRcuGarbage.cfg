CONSTANTS
  num_threads = 2
  NumTasks = 3
  DONE = 20
  Refresh = 2
  None = None
  Null = Null
  Objects = {o1, o2, o3, o4, o5}
  First = o1
  n_round = 2
  Writers = {1, 2}
  Syncers = {}
  Deferrers = {1}
  Threshold = 2
  UINT_MAX = 15
  HeadsZeroed = FALSE
SPECIFICATION CSpec
INVARIANT ListIntact

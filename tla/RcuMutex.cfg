CONSTANTS
  num_threads = 2
  NumTasks = 3
  DONE = 20
  Refresh = 2
  None = None
  Objects = {o1, o2, o3}
  First = o1
  n_round = 2
  Writers = {1, 2}
  Syncers = {}
  Lockers = {0}
  IoReaders = {0}
SPECIFICATION MSpec
INVARIANTS NoUseAfterFree HeapAccounted SkippedCoreQuiet
PROPERTY Terminates

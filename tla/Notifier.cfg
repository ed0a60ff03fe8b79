CONSTANTS
  num_threads = 2
  NumTasks = 5
  DONE = 10
  Refresh = 2
  None = None
  Self = Self
  Null = Null
  Producers = {0, 3}
  n_round = 2
SPECIFICATION FairSpec
INVARIANTS WaitersAccounted IdleCoreOffline
PROPERTIES ImplementsEvent Terminates

CONSTANTS
  num_threads = 2
  NumTasks = 3
  DONE = 9
  Refresh = 2
  None = None
  Unlocked = Unlocked
  Null = Null
SPECIFICATION FairSpec
INVARIANTS
  MutualExclusion
  WaitersAccounted
  UnlockAssertions
  ActiveOnce
  IdleCoreOffline
PROPERTIES ImplementsFifoLock WaiterServed

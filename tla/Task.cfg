CONSTANTS
  Frames = {f1, f2, f3}
  Cores = {k1, k2}
  Main = Main
  None = None
  MaxCalls = 5
  MaxSuspends = 2
SPECIFICATION Spec
INVARIANTS OwnedOnce ChainIntact
PROPERTY Completes

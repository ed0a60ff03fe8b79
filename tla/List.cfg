CONSTANTS
  Heads = {h1, h2}
  Nodes = {n1, n2, n3}
  None = None
SPECIFICATION Spec
INVARIANTS RingIntact IterationExact
PROPERTY ImplementsSequences
SYMMETRY Symmetry

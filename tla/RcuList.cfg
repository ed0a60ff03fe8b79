CONSTANTS
  Heads = {h}
  head = h
  Nodes = {n1, n2, n3}
  Keys = {a, b, c}
  Readers = {r1}
  MaxOps = 4
  None = None
SPECIFICATION Spec
INVARIANTS ReaderSafe RingIntact TraversalExact
PROPERTY TraversalEnds

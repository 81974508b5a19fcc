SPECIFICATION Spec
CONSTANTS
  NumExplicit = 2
  NumOwners = 1
  NumInputs = 1
  NumListens = 1
  PerInput = 1
  PerListen = 1
  Null = Null
  None = None
  Freed = Freed
INVARIANTS Linked PoolSuffices
PROPERTIES Implements WalkEnds

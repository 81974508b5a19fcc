SPECIFICATION Spec
CONSTANTS
  NumExplicit = 2
  NumOwners = 1
  NumInputs = 1
  NumListens = 1
  PerInput = 2
  PerListen = 2
  Null = Null
  None = None
  Freed = Freed
INVARIANTS PoolSuffices

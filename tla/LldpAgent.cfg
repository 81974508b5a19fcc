SPECIFICATION Spec
CONSTANTS
  Neighbors = {n1, n2}
  MaxNeighbors = 1
  MaxTtl = 2
  Intervals = {1, 2}
  DefaultInterval = 1
  Hold = 1
  TxDelay = 1
  ReinitDelay = 1
  Unknown = Unknown
INVARIANTS TypeOK ShutdownAnnounced NeighborsKeepUs RemoteIsAlive AnswersMatch
PROPERTIES NeighborsFollow SilentAreForgotten

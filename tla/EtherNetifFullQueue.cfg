\* A writer queue that is full when DLR sends.
SPECIFICATION Spec
CONSTANTS
  Blocks = 7
  Clients <- MCClients
  QueueLength <- MCQueueLength
  Descriptors = 2
  MaxNotified = 2
INVARIANTS
  FreedBlocksAreAllocated

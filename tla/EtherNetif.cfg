\* One entry in each queue, and the smallest heap with which nothing stalls.
SPECIFICATION Spec
CONSTANTS
  Blocks = 7
  Clients <- MCClients
  QueueLength <- MCQueueLength
  Descriptors = 2
  MaxNotified = 2
INVARIANTS
  TypeOK
  OneOwner
  NoFrameLeftBehind
  TasksNeverStall
  ReadyTasksStep
PROPERTY
  WorkEnds

\* Four link masks and a conflict, from the moment the lwIP port is opened.
SPECIFICATION Spec
CONSTANTS
  QueueLength = 3
  MaxLinkChanges = 2
  MaxAcdEvents = 1
INVARIANTS TypeOK NetifFollowsPorts AcdFollowsPorts StateFollowsNetif

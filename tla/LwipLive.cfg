\* The same without conflicts, under fairness.
SPECIFICATION FairSpec
CONSTANTS
  QueueLength = 3
  MaxLinkChanges = 2
  MaxAcdEvents = 0
PROPERTIES PortsCatchUp InterfaceCatchesUp

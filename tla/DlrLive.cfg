\* Fair schedules: the node catches up, and every neighbor check ends.
SPECIFICATION FairSpec
CONSTANTS
  Supervisors <- MCOneSupervisor
  NoSupervisor = "none"
  Precedence <- MCOnePrecedence
  Mac <- MCOneMac
  MAC_LENGTH = 2
  ExecQueueLength = 2
  TimerQueueLength = 2
  HwKinds = {"beacon", "linkRestored", "beaconTimeout", "linkLost"}
  FrameKinds = {"LOCATEFAULT"}
  MaxHw = 4
  MaxFrames = 1
PROPERTIES
  NodeCatchesUp
  RoundsEnd

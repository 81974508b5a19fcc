\* The switch, its interrupts, supervisors that take over, and frames that cut in.
SPECIFICATION Spec
CONSTANTS
  Supervisors <- MCSupervisors
  NoSupervisor = "none"
  Precedence <- MCPrecedence
  Mac <- MCMac
  MAC_LENGTH = 2
  ExecQueueLength = 2
  TimerQueueLength = 4
  HwKinds = {"beacon", "supervisor", "ringFault", "beaconTimeout", "linkLost", "linkRestored", "ownFrame"}
  FrameKinds = {"FLUSHTABLES"}
  MaxHw = 5
  MaxFrames = 1
INVARIANTS
  NodeStateFollowsHardware
  SettledNodeShowsTheRing
  StaleTableIsFlushed

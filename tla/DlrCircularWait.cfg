\* The daemon waits for the executor, and the executor for the daemon.
SPECIFICATION Spec
CONSTANTS
  Supervisors <- MCOneSupervisor
  NoSupervisor = "none"
  Precedence <- MCOnePrecedence
  Mac <- MCOneMac
  MAC_LENGTH = 2
  ExecQueueLength = 1
  TimerQueueLength = 1
  HwKinds = {"beacon", "linkRestored"}
  FrameKinds = {"LOCATEFAULT"}
  MaxHw = 3
  MaxFrames = 3
INVARIANTS
  NoCircularWait

\* Neighbor checks: rounds, retries, answers and the timer daemon.
SPECIFICATION Spec
CONSTANTS
  Supervisors <- MCOneSupervisor
  NoSupervisor = "none"
  Precedence <- MCOnePrecedence
  Mac <- MCOneMac
  MAC_LENGTH = 2
  ExecQueueLength = 4
  TimerQueueLength = 4
  HwKinds = {"beacon", "linkRestored"}
  FrameKinds = {"LOCATEFAULT", "NEIGHBORCHECKRES"}
  MaxHw = 3
  MaxFrames = 2
INVARIANTS
  TypeOK
  CheckNeverStalls
  RequestsBounded
  RequestIdsAreUnique

SPECIFICATION Spec
CONSTANTS
  Originators = {o1, o2}
  Serials = {n1, n2}
  NumSessions = 1
  MaxSockets = 6
  NumNodes = 3
  Watchdog = 2
  None = None
  Freed = Freed
  Slots <- MCSlots
  Kind <- MCKind
  Point <- MCPoint
SYMMETRY Symmetric
INVARIANTS TypeOK ListExact TriadUnique SocketsHeld MasterUnique MasterKept
PROPERTIES OwnershipKept ListRefined

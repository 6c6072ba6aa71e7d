SPECIFICATION Spec
CONSTANTS
  Sessions = {s1, s2}
  MaxSessions = 1
  WaitSizes = {1}
  DisconnectFails = 0
  WeakFails = 0
  None = None
CHECK_DEADLOCK FALSE
INVARIANT
  WaitingIsRecorded

SPECIFICATION ConnectionSpec
CONSTANTS
  s1 = s1
  s2 = s2
  s3 = s3
  a1 = a1
  a2 = a2
  None = None
  Sessions <- ThreeSessions
  Slots <- TwoSlots
  MaxSessions = 1
  WaitSizes = {1, 2}
  DisconnectFails = 1
  WeakFails = 1
  ReaperJobs = 1
  AcceptFails = 2
  InGameMoves = 1
CHECK_DEADLOCK FALSE
INVARIANTS
  ConnectionTypeOK
  SeatsAreAccounted
  CallbacksInOrder
  TicketTellsPlace
  SeatIsOwed
  SessionsAreAccounted
  ConnectedIsWatched
SYMMETRY Symmetry

CONSTANTS
  t1 = t1
  t2 = t2
  t3 = t3
  Threads <- ThreeThreads
  MaxSends = 3
  MaxBuffers = 2
  MaxCount = 2
SPECIFICATION Spec
SYMMETRY Symmetric
INVARIANT PendingHoldsFlight
CHECK_DEADLOCK FALSE

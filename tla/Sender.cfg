CONSTANTS
  t1 = t1
  t2 = t2
  t3 = t3
  Threads <- ThreeThreads
  MaxSends = 2
  MaxBuffers = 1
  MaxCount = 1
SPECIFICATION FairSpec
INVARIANTS TypeOK OneSendAtATime SentInOrder
PROPERTY SentOrClosed
CHECK_DEADLOCK FALSE

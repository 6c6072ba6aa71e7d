CONSTANTS
  t1 = t1
  t2 = t2
  t3 = t3
  c1 = c1
  c2 = c2
  c3 = c3
  c4 = c4
  c5 = c5
  Null = Null
  Threads <- ThreeThreads
  Chunks <- FiveChunks
  ChunkSize = 2
SPECIFICATION Spec
SYMMETRY Symmetric
INVARIANTS ChunkHasRoom ChunksAreAccounted
PROPERTY ImplementsFreeList
CHECK_DEADLOCK FALSE

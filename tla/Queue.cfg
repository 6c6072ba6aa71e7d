CONSTANTS
  t1 = t1
  t2 = t2
  t3 = t3
  v1 = v1
  v2 = v2
  v3 = v3
  n1 = n1
  n2 = n2
  n3 = n3
  n4 = n4
  Null = Null
  Threads <- ThreeThreads
  Values <- ThreeValues
  Nodes <- FourNodes
  MaxCount = 2
SPECIFICATION Spec
SYMMETRY Symmetry
INVARIANTS ReservedFindsNode NodesAccounted
PROPERTY ImplementsFifo
CHECK_DEADLOCK FALSE

SPECIFICATION Spec
CONSTANTS
  Threads = {t1, t2, t3}
  Nodes = {n1, n2, n3}
  MaxTag = 4
  Null = Null
PROPERTY ImplementsFreeList
CHECK_DEADLOCK FALSE
SYMMETRY Symmetry
INVARIANTS
  TypeOK
  ChainIntact
  ReservedFindsNode

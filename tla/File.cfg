SPECIFICATION FairSpec
CONSTANTS
  n1 = n1
  n2 = n2
  Nodes = {n1, n2}
  None = None
  BlockSize = 2
  Blocks = {0, 1, 2, 3, 4, 5}
  MaxSize = 5
  Workloads <- Mixed
INVARIANTS
  TypeOK
  ReadsLatest
  NamedBlocksAllocated
  FreedOnce
PROPERTIES
  DeadReclaimed
CHECK_DEADLOCK FALSE

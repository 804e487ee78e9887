CONSTANTS
  Nodes = {a, b}
  a = a
  b = b
  None = None
  Workloads <- Mixed
  MaxWrites = 2
  MaxSessions = 2
  BufferMax = 1
SPECIFICATION FairSpec
CHECK_DEADLOCK FALSE
INVARIANTS TypeOK CachedTruth PagesCurrent
PROPERTIES ImplementsSharedFile LockGranted

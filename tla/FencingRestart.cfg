CONSTANTS
  None = None
  Nodes = {n1}
  Arenas = {a1}
  Watchers = {w1}
  Sweepers = {}
  DeviceFenced = TRUE
  QuietStarts = FALSE
  LongLeases = TRUE
  OpenConnections = FALSE
  ClaimExpires = FALSE
  EtcdErrors = FALSE
  Faulty = {n1}
  Stoppable = {}
  MaxJoins = 2
  MaxIntents = 2
  MaxCrashes = 0
SPECIFICATION Spec
INVARIANTS WriterOwnsArena
CHECK_DEADLOCK FALSE

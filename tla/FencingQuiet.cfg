CONSTANTS
  None = None
  Nodes = {n1}
  Arenas = {a1}
  Watchers = {w1}
  Sweepers = {s1}
  DeviceFenced = TRUE
  QuietStarts = TRUE
  LongLeases = FALSE
  OpenConnections = FALSE
  ClaimExpires = FALSE
  EtcdErrors = FALSE
  Faulty = {n1}
  Stoppable = {}
  MaxJoins = 2
  MaxIntents = 2
  MaxCrashes = 0
SPECIFICATION Spec
INVARIANTS WriterOwnsArena FencingInv
PROPERTIES FencedStaysFenced
CHECK_DEADLOCK FALSE

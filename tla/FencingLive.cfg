CONSTANTS
  None = None
  Nodes = {n1}
  Arenas = {a1}
  Watchers = {w1}
  Sweepers = {s1}
  DeviceFenced = TRUE
  QuietStarts = TRUE
  LongLeases = TRUE
  OpenConnections = FALSE
  ClaimExpires = FALSE
  EtcdErrors = FALSE
  Faulty = {n1}
  Stoppable = {}
  MaxJoins = 1
  MaxIntents = 4
  MaxCrashes = 1
SPECIFICATION FairSpec
PROPERTIES DeadNodeReclaimed
CHECK_DEADLOCK FALSE

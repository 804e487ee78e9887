CONSTANTS
  None = None
  Nodes = {n1}
  Arenas = {a1, a2}
  Watchers = {w1}
  Sweepers = {}
  DeviceFenced = TRUE
  QuietStarts = FALSE
  LongLeases = FALSE
  OpenConnections = TRUE
  ClaimExpires = TRUE
  EtcdErrors = TRUE
  Faulty = {n1}
  Stoppable = {n1}
  MaxJoins = 1
  MaxIntents = 1
  MaxCrashes = 1
SPECIFICATION Spec
INVARIANTS TypeOK OwnershipExclusive
CHECK_DEADLOCK FALSE

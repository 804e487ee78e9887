SPECIFICATION FairSpec
CONSTANTS
  i1 = i1
  i2 = i2
  sweep = sweep
  fsync = fsync
  s1 = s1
  s2 = s2
  m1 = m1
  m2 = m2
  None = None
  Inodes = {i1, i2}
  Flushes = {sweep, fsync}
  Sweep = sweep
  Setattrs = {s1, s2}
  Modes = {m1, m2}
  CasAttempts = 2
  SetattrRetries = 1
  Loads <- Mixed
INVARIANTS TypeOK ModeKept 
PROPERTIES QueuedPublished
CHECK_DEADLOCK FALSE

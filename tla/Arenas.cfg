SPECIFICATION FairSpec
CONSTANTS
  n1 = n1
  n2 = n2
  p1 = p1
  p2 = p2
  p3 = p3
  None = None
  Nodes = {n1, n2}
  Writes = {p1, p2, p3}
  Home <- Homes
  Slots = {0, 1}
  Loads <- Mixed
INVARIANTS TypeOK NoBlockHandedOutTwice LossesAccounted FsckFindsLost
PROPERTIES EmptyArenasReturned
CHECK_DEADLOCK FALSE

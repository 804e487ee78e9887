CONSTANTS
  None = None
  c1 = c1
  c2 = c2
  c3 = c3
  Conns = {c1, c2, c3}
  SocketCap = 1
  QueueCap = 1
  Trips = 2
  MaxSends = 4
  MaxFailures = 1
  MaxCrashes = 1
SPECIFICATION FairSpec
CHECK_DEADLOCK FALSE
INVARIANTS TypeOK AnswersItsOwn
PROPERTIES SendReturns TeardownEnds

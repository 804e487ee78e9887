SPECIFICATION FairSpec
CONSTANTS
  d1 = d1
  d2 = d2
  x1 = x1
  x2 = x2
  t1 = t1
  t2 = t2
  None = None
  Dirs = {d1, d2}
  Names = {x1, x2}
  Threads = {t1, t2}
  Loads <- Mixed
INVARIANTS TypeOK AbsenceBehindWatch
PROPERTIES NamesAppear

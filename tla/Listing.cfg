CONSTANTS
  d1 = d1
  d2 = d2
  w1 = w1
  w2 = w2
  Dirs = {d1, d2}
  Walks = {w1, w2}
  Names = {1, 2, 3}
  None = None
  CursorMax = 1
  PageSizes = {1, 2}
  MaxChanges = 1
  MaxErrors = 1
SPECIFICATION Spec
CHECK_DEADLOCK FALSE
SYMMETRY Symmetry
INVARIANTS TypeOK ListedOnce

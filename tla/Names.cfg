SPECIFICATION FairSpec
CONSTANTS
  n1 = n1
  n2 = n2
  Nodes = {n1, n2}
  Inos = {1, 2, 3, 4}
  Root = 1
  FileNames = {"f", "g", "h"}
  DirNames = {"d", "e"}
  Workloads <- Mixed
  MaxOpens = 1
  Attempts = 3
INVARIANTS
  TypeOK
  NlinkCorrect
  NoDanglingDirent
  EntriesReachable
PROPERTIES
  OpenFilesSurvive
  OrphansReclaimed
CHECK_DEADLOCK FALSE

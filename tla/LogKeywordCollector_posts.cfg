CONSTANTS
  Path = {p1, p2}
  Keyword = {k1, bad}
  Bad = {bad}
  None = none
  Worker = {w1, w2}
  MaxChanges = 3
  MaxCollectors = 3
  MaxCount = 1
SYMMETRY WorkerSymmetry
SPECIFICATION Spec
INVARIANTS TypeOK CollectorsFollowConfig DatabaseIsCounted DestroyIsHeard
PROPERTIES CountsDoNotFall SavedMirrorsDatabase

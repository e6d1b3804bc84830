CONSTANTS
  RuleSeries = {r1}
  EngineSeries = {e1}
  Worker = {w1, w2}
  MaxAlarms = 3
  PlatformClose = TRUE
  CommitFails = TRUE
  r1 = r1
  e1 = e1
SYMMETRY WorkerSymmetry
SPECIFICATION Spec
INVARIANTS TypeOK OpenAlarmHasItsRow
PROPERTY ImplementsContract

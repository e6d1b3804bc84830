CONSTANTS
  RuleSeries = {r1}
  EngineSeries = {}
  Worker = {w1, w2}
  MaxAlarms = 1
  PlatformClose = FALSE
  CommitFails = TRUE
  NotifyDelay = 1
  MaxTime = 1
  Slot = {g1, g2}
  r1 = r1
  e1 = e1
SYMMETRY WorkerAndSlotSymmetry
SPECIFICATION Spec
INVARIANTS TypeOK MessagesAreTrue QuickRecoveryNotAnnounced EveryAlarmAccountedFor

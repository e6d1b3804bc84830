CONSTANTS
  RuleSeries = {}
  EngineSeries = {e1}
  Worker = {w1, w2}
  MaxAlarms = 3
  PlatformClose = FALSE
  CommitFails = FALSE
  e1 = e1
SPECIFICATION FairSpec
INVARIANT RowHasItsOpenAlarm
PROPERTIES MatchIsRaised NonmatchIsResolved

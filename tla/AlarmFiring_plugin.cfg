CONSTANTS
  RuleSeries = {}
  EngineSeries = {e1}
  Worker = {w1, w2}
  MaxAlarms = 3
  PlatformClose = TRUE
  CommitFails = FALSE
  e1 = e1
SPECIFICATION FairSpec
PROPERTIES MatchIsRaised

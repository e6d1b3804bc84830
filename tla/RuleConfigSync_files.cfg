CONSTANTS
  Worker = {w1, w2}
  Elsewhere = elsewhere
  QueueSize = 1
  MaxChanges = 2
  MaxTime = 1
SPECIFICATION FairSpec
INVARIANTS TypeOK OwnChangeInFile MissedOnlyWhenUnseen
PROPERTIES MirrorsDatabase RulesCatchUp

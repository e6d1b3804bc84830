CONSTANTS
  Worker = {w1, w2}
  MaxHits = 2
  MaxAlarms = 3
SPECIFICATION FairSpec
INVARIANTS TypeOK RowTellsItsAlarm OneAlarmToldOnce
PROPERTIES AlarmNeedsNewHit HitRaisesAlarm

CONSTANTS
  Crc = {c1, c2}
  Tags = {t1, t2}
  Worker = {w1, w2}
  MaxRows = 2
  MaxAlarms = 1
  OverlapRows = 2
SYMMETRY Symmetry
SPECIFICATION Spec
INVARIANTS AllConditionsRaise

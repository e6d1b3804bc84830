------------------------- MODULE MCAlarmCondition -------------------------
(* Small instances of AlarmCondition for TLC. *)
EXTENDS AlarmCondition, TLC

Symmetry == Permutations(Crc) \cup Permutations(Tags) \cup Permutations(Worker)
=============================================================================

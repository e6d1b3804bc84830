--------------------------- MODULE MCAlarmNotify ---------------------------
(* Small instances of AlarmNotify for TLC. *)
EXTENDS AlarmNotify, TLC

WorkerAndSlotSymmetry == Permutations(Worker) \cup Permutations(Slot)
=============================================================================

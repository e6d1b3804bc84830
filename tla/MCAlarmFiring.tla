--------------------------- MODULE MCAlarmFiring ---------------------------
(* Small instances of AlarmFiring for TLC. *)
EXTENDS AlarmFiring, TLC

WorkerSymmetry == Permutations(Worker)
=============================================================================

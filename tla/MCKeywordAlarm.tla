--------------------------- MODULE MCKeywordAlarm ---------------------------
(* Small instances of KeywordAlarm for TLC. *)
EXTENDS KeywordAlarm, TLC

WorkerSymmetry == Permutations(Worker)
=============================================================================

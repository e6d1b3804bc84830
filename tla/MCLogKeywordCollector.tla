----------------------- MODULE MCLogKeywordCollector -----------------------
(* Small instances of LogKeywordCollector for TLC. *)
EXTENDS LogKeywordCollector, TLC

WorkerSymmetry == Permutations(Worker)
=============================================================================

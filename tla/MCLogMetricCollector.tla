------------------------ MODULE MCLogMetricCollector ------------------------
(* Small instances of LogMetricCollector for TLC. *)
EXTENDS LogMetricCollector, TLC

JobSymmetry == Permutations(Job)
=============================================================================

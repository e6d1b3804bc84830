-------------------------- MODULE MCRuleConfigSync --------------------------
(* Small instances of RuleConfigSync for TLC. *)
EXTENDS RuleConfigSync, TLC

WorkerSymmetry == Permutations(Worker)
=============================================================================

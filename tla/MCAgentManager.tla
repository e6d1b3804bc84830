--------------------------- MODULE MCAgentManager ---------------------------
(* Small instances of AgentManager for TLC. *)
EXTENDS AgentManager, TLC

HandlerSymmetry == Permutations(Handler)
=============================================================================

----------------------- MODULE MCBranchReconciliation -----------------------
(* A small instance of BranchReconciliation for TLC.                       *)
EXTENDS BranchReconciliation, TLC

AgentSymmetry == Permutations(Agents)
=============================================================================

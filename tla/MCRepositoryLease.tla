-------------------------- MODULE MCRepositoryLease --------------------------
(* A small instance of RepositoryLease for TLC.                            *)
EXTENDS RepositoryLease, TLC

LeaseSymmetry == Permutations(Callers) \cup Permutations(Runs)
=============================================================================

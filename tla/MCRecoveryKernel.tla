--------------------------- MODULE MCRecoveryKernel ---------------------------
(* Finite instance of RecoveryKernel for TLC. *)
EXTENDS RecoveryKernel, TLC

\* Calls differ in nothing but their name; so do tickets and keys.
Symmetry == Permutations(Calls) \cup Permutations(Tickets) \cup Permutations(Keys)
=============================================================================

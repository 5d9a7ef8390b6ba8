------------------------- MODULE MCManagedExecution -------------------------
(* Small instances of ManagedExecution.                                    *)
EXTENDS ManagedExecution, TLC

\* Step ids differ only by name.
StepSymmetry == Permutations(Steps)
=============================================================================

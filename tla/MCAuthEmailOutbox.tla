-------------------------- MODULE MCAuthEmailOutbox --------------------------
(* Small instances of AuthEmailOutbox.                                     *)
EXTENDS AuthEmailOutbox, TLC

\* Processes and e-mails differ only by name.
Symmetry == Permutations(Emails) \cup Permutations(Workers) \cup Permutations(Targets)
=============================================================================

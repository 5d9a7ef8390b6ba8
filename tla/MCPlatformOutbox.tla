--------------------------- MODULE MCPlatformOutbox ---------------------------
(* Small instances of PlatformOutbox for TLC.                               *)
EXTENDS PlatformOutbox, TLC

WorkerSymmetry == Permutations(Workers)

\* The second event reports an earlier occurrence than the first.
Backdated == [e \in Events |-> 10 - e]
=============================================================================

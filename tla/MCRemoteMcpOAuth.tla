-------------------------- MODULE MCRemoteMcpOAuth --------------------------
(* Small instances of RemoteMcpOAuth.                                      *)
EXTENDS RemoteMcpOAuth, TLC

\* Requests, codes and scopes differ only by name.
Symmetry == Permutations(Requests) \cup Permutations(Codes) \cup Permutations(Scopes)
=============================================================================

-------------------------- MODULE MCEdgeActivation --------------------------
(* Model values and symmetry for the TLC runs of EdgeActivation.           *)
EXTENDS EdgeOwnership, TLC

Symmetry == Permutations(Sessions) \cup Permutations(Addr)
=============================================================================

---------------------------- MODULE MCEcuSessions ----------------------------
(* Model values and symmetry for the TLC runs of EcuSessions.              *)
EXTENDS EcuSessions, TLC

Symmetry == Permutations(Sessions) \cup Permutations(Addr)
            \cup Permutations(Objects)
=============================================================================

---------------------------- MODULE MCKLightLock ----------------------------
(* KLightLock for TLC. *)
EXTENDS KLightLock, TLC

Symmetry == Permutations(Threads)
=============================================================================

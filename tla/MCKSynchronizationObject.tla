---------------------- MODULE MCKSynchronizationObject ----------------------
(* KSynchronizationObject for TLC: waits for two objects, and for one      *)
(* that is listed twice.                                                   *)
EXTENDS KSynchronizationObject

CONSTANTS a, b

SmallWaitLists == {<<b, a>>, <<a, a>>}

Symmetry == Permutations(Terminable) \cup Permutations(Threads \ Terminable)
=============================================================================

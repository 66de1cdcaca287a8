------------------------ MODULE MCKConditionVariable ------------------------
(* KConditionVariable for TLC. *)
EXTENDS KConditionVariable, TLC

Symmetry == Permutations(Leavers) \cup Permutations(Threads \ Leavers)

AllMutexes == [t \in Threads |-> Keys]
OnlyMutex == [c \in CvKeys |-> CHOOSE l \in Keys : TRUE]
=============================================================================

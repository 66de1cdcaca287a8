--------------------- MODULE MCKConditionVariableRoles ---------------------
(* KConditionVariable for TLC, with guest threads in different roles: some *)
(* lock the condition variable's mutex only, some lock another one around  *)
(* it, and the rest only signal.                                           *)
EXTENDS KConditionVariable, TLC

CONSTANTS Lockers, Nesters, InnerMutex

RoleMutexes == [t \in Threads |-> IF t \in Nesters THEN Keys
                                  ELSE IF t \in Lockers THEN {InnerMutex}
                                  ELSE {}]
InnerMutexes == [c \in CvKeys |-> InnerMutex]

(* A bound of the search: only threads that lock one mutex are urgent. *)
UrgentLockers == \A t \in Threads \ Lockers, p \in Priorities : p <= base[t]

Symmetry == Permutations(Lockers) \cup Permutations(Nesters)
=============================================================================

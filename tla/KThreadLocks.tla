---------------------------- MODULE KThreadLocks ----------------------------
(***************************************************************************)
(* Lock waiters and priority inheritance of KThread                        *)
(* (core/hle/kernel/k_thread.cpp).                                         *)
(*                                                                         *)
(* A lock the kernel knows of is a LockWithPriorityInheritanceInfo: an     *)
(* owner, an address key and a tree of waiters ordered by priority and,    *)
(* among equal priorities, by insertion.  It exists exactly while it has a *)
(* waiter, so it is represented here by what its waiters say: lockOwner[t] *)
(* and addressKey[t].                                                      *)
(*                                                                         *)
(* All operations run under the scheduler lock.  RestorePriority is a loop *)
(* that walks up the chain of lock owners; each iteration is one step, and *)
(* `restoring' is the thread the loop has reached.  No other operation     *)
(* starts while it runs.                                                   *)
(***************************************************************************)
EXTENDS Integers, FiniteSets

CONSTANTS Threads,      \* the KThreads
          NoThread,     \* nullptr
          Keys,         \* address keys of locks, user and kernel ones
          KernelKeys,   \* those with is_kernel_address_key
          Priorities    \* HighestThreadPriority .. LowestThreadPriority

ASSUME ThreadsAssumption == IsFiniteSet(Threads) /\ NoThread \notin Threads
ASSUME KeysAssumption == KernelKeys \subseteq Keys /\ Keys # {}
ASSUME PrioritiesAssumption == Priorities \subseteq Int

VARIABLES base,             \* m_base_priority
          prio,             \* m_priority
          lockOwner,        \* GetLockOwner(): owner of m_waiting_lock_info
          addressKey,       \* m_address_key
          before,           \* <<u, t>>: u was inserted before t in a waiter tree
          numKernelWaiters, \* m_num_kernel_waiters
          restoring         \* `thread' in RestorePriority, NoThread outside it

lockVars == <<base, prio, lockOwner, addressKey, before, numKernelWaiters, restoring>>

-----------------------------------------------------------------------------
(* The waiters of all locks that o holds, and those of its lock k. *)
Waiters(o) == {t \in Threads : lockOwner[t] = o}
WaitersOn(o, k) == {t \in Waiters(o) : addressKey[t] = k}

(* lock_info->GetHighestPriorityWaiter(): the front of the waiter tree. *)
IsHighestPriorityWaiter(w, o, k) ==
    /\ w \in WaitersOn(o, k)
    /\ \A u \in WaitersOn(o, k) \ {w} :
          \/ prio[w] < prio[u]
          \/ prio[w] = prio[u] /\ <<w, u>> \in before

(* Inserting t into a tree that already holds ws puts it behind its equals. *)
Without(rel, t) == {p \in rel : p[1] # t /\ p[2] # t}
InsertedAfter(rel, ws, t) == Without(rel, t) \cup {<<u, t>> : u \in ws \ {t}}

KernelCount(k) == IF k \in KernelKeys THEN 1 ELSE 0

(* The priorities RestorePriority takes the minimum of, and that minimum. *)
InheritablePriorities(t) == {base[t]} \cup {prio[w] : w \in Waiters(t)}
Inherits(t, p) == /\ p \in InheritablePriorities(t)
                  /\ \A q \in InheritablePriorities(t) : p <= q

(* Any call into these operations happens with the scheduler lock held and *)
(* no priority restoration under way.                                      *)
Idle == restoring = NoThread

-----------------------------------------------------------------------------
(* A bug: AddWaiter leaves the owner's priority alone. *)
AddWaiterWithoutRestore(o, t, k) ==
    /\ lockOwner' = [lockOwner EXCEPT ![t] = o]
    /\ addressKey' = [addressKey EXCEPT ![t] = k]
    /\ before' = InsertedAfter(before, WaitersOn(o, k), t)
    /\ numKernelWaiters' = [numKernelWaiters EXCEPT ![o] = @ + KernelCount(k)]
    /\ UNCHANGED <<base, prio, restoring>>

(* `o->AddWaiter(t)', after t->SetAddressKey(k). *)
AddWaiter(o, t, k) ==
    /\ lockOwner' = [lockOwner EXCEPT ![t] = o]
    /\ addressKey' = [addressKey EXCEPT ![t] = k]
    /\ before' = InsertedAfter(before, WaitersOn(o, k), t)
    /\ numKernelWaiters' = [numKernelWaiters EXCEPT ![o] = @ + KernelCount(k)]
    /\ restoring' = IF prio[t] < prio[o] THEN o ELSE NoThread
    /\ UNCHANGED <<base, prio>>

(* Both removals restore the old owner's priority only when it may have    *)
(* been inherited from the thread that left.                               *)
MayHaveInherited(o, t) == prio[o] = prio[t] /\ prio[o] < base[o]

(* A bug: the node of the thread that leaves stays in the tree. *)
RemoveWaiterKeepsNode(o, t) ==
    /\ lockOwner' = [lockOwner EXCEPT ![t] = NoThread]
    /\ numKernelWaiters' =
          [numKernelWaiters EXCEPT ![o] = @ - KernelCount(addressKey[t])]
    /\ restoring' = IF MayHaveInherited(o, t) THEN o ELSE NoThread
    /\ UNCHANGED <<base, prio, addressKey, before>>

(* `o->RemoveWaiter(t)'. *)
RemoveWaiter(o, t) ==
    /\ lockOwner' = [lockOwner EXCEPT ![t] = NoThread]
    /\ before' = Without(before, t)
    /\ numKernelWaiters' =
          [numKernelWaiters EXCEPT ![o] = @ - KernelCount(addressKey[t])]
    /\ restoring' = IF MayHaveInherited(o, t) THEN o ELSE NoThread
    /\ UNCHANGED <<base, prio, addressKey>>

(* A bug: only the thread that gets the lock is counted. *)
KernelWaitersOnFirst(o, k) == KernelCount(k)

(* The number of waiters RemoveWaiterByKey takes from a kernel counter. *)
KernelWaitersOn(o, k) == KernelCount(k) * Cardinality(WaitersOn(o, k))

(* `o->RemoveWaiterByKey(&has_waiters, k, ...)' when it returns w: the lock *)
(* and the waiters left on it pass to w.                                    *)
RemoveWaiterByKey(o, k, w) ==
    /\ IsHighestPriorityWaiter(w, o, k)
    /\ lockOwner' = [t \in Threads |-> IF t = w THEN NoThread
                                       ELSE IF t \in WaitersOn(o, k) THEN w
                                       ELSE lockOwner[t]]
    /\ before' = Without(before, w)
    /\ numKernelWaiters' =
          [numKernelWaiters EXCEPT
             ![o] = @ - KernelWaitersOn(o, k),
             ![w] = @ + KernelWaitersOn(o, k) - KernelCount(k)]
    /\ restoring' = IF MayHaveInherited(o, w) THEN o ELSE NoThread
    /\ UNCHANGED <<base, prio, addressKey>>

(* SetBasePriority and the effective half of IncreaseBasePriority. *)
SetBasePriority(t, p) ==
    /\ base' = [base EXCEPT ![t] = p]
    /\ restoring' = t
    /\ UNCHANGED <<prio, lockOwner, addressKey, before, numKernelWaiters>>

IncreaseBasePriority(t, p) ==
    /\ base[t] > p
    /\ SetBasePriority(t, p)

(* Two bugs: the loop ends at the first owner; it ends at the end of the   *)
(* chain only.                                                             *)
RestoreFirstOnly(t) ==
    \E p \in Priorities :
       /\ Inherits(t, p)
       /\ prio' = [prio EXCEPT ![t] = p]
       /\ restoring' = NoThread
       /\ UNCHANGED <<base, lockOwner, addressKey, before, numKernelWaiters>>
RestoreWholeChain(t) ==
    \E p \in Priorities :
       /\ Inherits(t, p)
       /\ prio' = [prio EXCEPT ![t] = p]
       /\ restoring' = lockOwner[t]
       /\ UNCHANGED <<base, lockOwner, addressKey, before, numKernelWaiters>>

(* One iteration of the loop of RestorePriority(t).  A thread whose        *)
(* priority changes leaves its lock's tree and enters it again.            *)
RestoreIteration(t) ==
    \E p \in Priorities :
       /\ Inherits(t, p)
       /\ \/ /\ p = prio[t]
             /\ restoring' = NoThread
             /\ UNCHANGED <<prio, before>>
          \/ /\ p # prio[t]
             /\ prio' = [prio EXCEPT ![t] = p]
             /\ before' = IF lockOwner[t] = NoThread THEN before
                          ELSE InsertedAfter(before,
                                             WaitersOn(lockOwner[t], addressKey[t]), t)
             /\ restoring' = lockOwner[t]
       /\ UNCHANGED <<base, lockOwner, addressKey, numKernelWaiters>>

-----------------------------------------------------------------------------
(* The most general caller.  A thread that starts to wait waits on nothing *)
(* else, and the owner it names neither waits for the lock itself nor is   *)
(* that thread: the callers' lock words, which name one owner per key,     *)
(* ensure it.                                                              *)
MayWaitFor(t, o, k) ==
    /\ t # o
    /\ lockOwner[t] = NoThread
    /\ WaitersOn(t, k) = {}
    /\ ~ (lockOwner[o] # NoThread /\ addressKey[o] = k)

(* An address key means nothing until its thread waits. *)
LockInit ==
    /\ base \in [Threads -> Priorities]
    /\ prio = base
    /\ lockOwner = [t \in Threads |-> NoThread]
    /\ addressKey = [t \in Threads |-> CHOOSE k \in Keys : TRUE]
    /\ before = {}
    /\ numKernelWaiters = [t \in Threads |-> 0]
    /\ restoring = NoThread

RestoreStep == restoring # NoThread /\ RestoreIteration(restoring)

LockNext ==
    \/ \E o, t \in Threads, k \in Keys :
          Idle /\ MayWaitFor(t, o, k) /\ AddWaiter(o, t, k)
    \/ \E o, t \in Threads : Idle /\ lockOwner[t] = o /\ RemoveWaiter(o, t)
    \/ \E o, w \in Threads, k \in Keys : Idle /\ RemoveWaiterByKey(o, k, w)
    \/ \E t \in Threads, p \in Priorities : Idle /\ SetBasePriority(t, p)
    \/ \E t \in Threads, p \in Priorities : Idle /\ IncreaseBasePriority(t, p)
    \/ RestoreStep

LockSpec == LockInit /\ [][LockNext]_lockVars

(* The loop of RestorePriority runs to its end: nothing can interrupt it. *)
FairLockSpec == LockSpec /\ WF_lockVars(RestoreStep)

-----------------------------------------------------------------------------
LockTypeOK ==
    /\ base \in [Threads -> Priorities]
    /\ prio \in [Threads -> Priorities]
    /\ lockOwner \in [Threads -> Threads \cup {NoThread}]
    /\ addressKey \in [Threads -> Keys]
    /\ before \in SUBSET (Threads \X Threads)
    /\ numKernelWaiters \in [Threads -> Int]
    /\ restoring \in Threads \cup {NoThread}

(* Priority inheritance is exact: the shortcuts by which AddWaiter,        *)
(* RemoveWaiter and RemoveWaiterByKey skip RestorePriority never leave a   *)
(* thread with a priority other than the best of its own base priority and *)
(* the priorities of the threads it blocks.  While the loop of             *)
(* RestorePriority runs, only the thread it has reached may be wrong.      *)
PriorityInheritance == \A t \in Threads \ {restoring} : Inherits(t, prio[t])

(* The threads that wait for o, directly or through other threads, and o   *)
(* itself: the least set that holds o and, with a thread, its waiters.     *)
HoldsItsWaiters(U) == \A t \in Threads : lockOwner[t] \in U => t \in U
BlockedBy(o) == {t \in Threads : \A U \in SUBSET Threads :
                                    o \in U /\ HoldsItsWaiters(U) => t \in U}
OnCycle(t) == lockOwner[t] \in BlockedBy(t)

(* No priority inversion at a distance: whenever no restoration runs, a    *)
(* thread runs at the best base priority among itself and every thread     *)
(* that directly or indirectly waits for it.  Nothing is left over from    *)
(* waiters that timed out or were cancelled, not even from a former        *)
(* deadlock cycle; only threads that a cycle waits for may keep more than  *)
(* they should, and none ever has less.                                    *)
TransitiveInheritance ==
    Idle => \A o \in Threads :
               /\ \A t \in BlockedBy(o) : prio[o] <= base[t]
               /\ \/ \E t \in BlockedBy(o) : prio[o] = base[t]
                  \/ \E t \in BlockedBy(o) : OnCycle(t)

(* The chain of owners never passes through one lock twice: a thread that  *)
(* owns lock k is not itself waiting for k, so that RemoveWaiterByKey, in  *)
(* giving a lock to a waiter, never merges two waiter trees.               *)
OwnerNotQueued ==
    \A t \in Threads :
       LET o == lockOwner[t]
       IN  o # NoThread => ~ (lockOwner[o] # NoThread /\ addressKey[o] = addressKey[t])

(* The waiters of one lock are totally ordered by insertion, and nothing   *)
(* else is: hand-over among equal priorities is first come, first served,  *)
(* across changes of owner and changes of priority.                        *)
SameLock(t, u) == /\ t # u
                  /\ lockOwner[t] # NoThread
                  /\ lockOwner[t] = lockOwner[u]
                  /\ addressKey[t] = addressKey[u]
WaitOrder ==
    \A t, u \in Threads :
       /\ SameLock(t, u) <=> (<<t, u>> \in before \/ <<u, t>> \in before)
       /\ ~ (<<t, u>> \in before /\ <<u, t>> \in before)

(* m_num_kernel_waiters, on which suspension is decided, is the number of  *)
(* threads that wait for a kernel lock of this thread: the counter         *)
(* survives hand-over of a whole waiter tree and re-insertion.             *)
KernelWaiters(o) == {t \in Waiters(o) : addressKey[t] \in KernelKeys}
KernelWaiterCount ==
    \A o \in Threads : numKernelWaiters[o] = Cardinality(KernelWaiters(o))

(* RestorePriority terminates, even when the lock owners form a cycle. *)
RestoreTerminates == restoring # NoThread ~> restoring = NoThread
=============================================================================

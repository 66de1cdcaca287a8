----------------------------- MODULE KLightLock -----------------------------
(***************************************************************************)
(* KLightLock (core/hle/kernel/k_light_lock.cpp), the kernel's mutex, and  *)
(* its interplay with thread suspension and termination (k_thread.cpp).    *)
(*                                                                         *)
(* A lock is one atomic word: the owner and a bit that says someone may be *)
(* waiting.  The uncontended paths are compare-and-swap loops outside any  *)
(* lock; the slow paths run under the scheduler lock and use the waiter    *)
(* trees of KThreadLocks, where the lock words are kernel address keys.    *)
(*                                                                         *)
(* A thread that another core suspends keeps running until it reaches a    *)
(* scheduling point, so suspension restricts no step here: it only takes   *)
(* the thread out of the fairness assumption.                              *)
(***************************************************************************)
EXTENDS KThreadLocks

CONSTANTS SuspendTypes,              \* enum SuspendType
          Suspendable,               \* threads RequestSuspend may be called on
          Terminable,                \* threads RequestTerminate may be called on
          TerminatingThreadPriority

ASSUME LocksAssumption == Keys \subseteq Int /\ Keys # {} /\ KernelKeys = Keys
ASSUME TerminateAssumption ==
          Suspendable \cup Terminable \subseteq Threads /\ TerminatingThreadPriority \in Priorities

VARIABLES tag,            \* m_tag of each lock: owner and waiter bit
          pc,             \* where each thread is in Lock and Unlock
          cur,            \* the lock that Lock or Unlock was called on
          seen,           \* _owner, the argument of LockSlowPath
          held,           \* the locks on which Lock has returned
          waiting,        \* threads in ThreadState::Waiting
          suspendReq,     \* m_suspend_request_flags
          suspendAllowed, \* m_suspend_allowed_flags: all of them or none
          suspended,      \* the suspend flags in m_thread_state
          termReq,        \* m_termination_requested
          cancelling      \* RequestTerminate is about to call CancelWait on it

threadVars == <<suspendReq, suspendAllowed, suspended, termReq, cancelling>>
llVars == <<tag, pc, cur, seen, held, waiting>>
vars == <<lockVars, llVars, threadVars>>

Free == [owner |-> NoThread, wait |-> FALSE]
Tag(t, w) == [owner |-> t, wait |-> w]

(* The scheduler lock is free. *)
SchedulerUnlocked == Idle /\ cancelling = NoThread

(* GetSuspendFlags(). *)
SuspendFlags(t) == IF suspendAllowed[t] THEN suspendReq[t] ELSE {}
IsSuspended(t) == SuspendFlags(t) # {}

Goto(t, label) == pc' = [pc EXCEPT ![t] = label]

-----------------------------------------------------------------------------
(* Lock(): the compare-and-swap loop.  A thread takes its locks in order,  *)
(* which is the callers' discipline; `retry' is the outer loop.            *)
Calls(t, l) == \/ pc[t] = "run" /\ \A m \in held[t] : m < l
               \/ pc[t] = "retry" /\ cur[t] = l

LockUncontended(t, l) ==
    /\ Calls(t, l)
    /\ tag[l] = Free
    /\ tag' = [tag EXCEPT ![l] = Tag(t, FALSE)]
    /\ held' = [held EXCEPT ![t] = @ \cup {l}]
    /\ Goto(t, "run")
    /\ UNCHANGED <<cur, seen, waiting, threadVars, lockVars>>

LockContended(t, l) ==
    /\ Calls(t, l)
    /\ tag[l] # Free
    /\ tag' = [tag EXCEPT ![l].wait = TRUE]
    /\ cur' = [cur EXCEPT ![t] = l]
    /\ seen' = [seen EXCEPT ![t] = tag[l].owner]
    /\ Goto(t, "lockSlow")
    /\ UNCHANGED <<held, waiting, threadVars, lockVars>>

(* A bug: a suspended owner is left suspended. *)
ContinueNever(o) == UNCHANGED suspended

(* KThread::Continue: the thread runs in spite of what is requested. *)
Continue(o) == suspended' = [suspended EXCEPT ![o] = {}]

(* LockSlowPath: give up if the word changed, otherwise wait for the owner, *)
(* which must not stay suspended now that it has a kernel waiter.           *)
ContinueIfHasKernelWaiters(o) ==
    IF IsSuspended(o) /\ numKernelWaiters'[o] > 0 THEN Continue(o) ELSE UNCHANGED suspended

LockSlowPath(t) ==
    /\ pc[t] = "lockSlow"
    /\ SchedulerUnlocked
    /\ \/ /\ tag[cur[t]] # Tag(seen[t], TRUE)
          /\ Goto(t, "retry")
          /\ UNCHANGED <<waiting, suspended, lockVars>>
       \/ /\ tag[cur[t]] = Tag(seen[t], TRUE)
          /\ AddWaiter(seen[t], t, cur[t])
          /\ waiting' = waiting \cup {t}
          /\ ContinueIfHasKernelWaiters(seen[t])
          /\ Goto(t, "wait")
    /\ seen' = [seen EXCEPT ![t] = NoThread]
    /\ UNCHANGED <<tag, cur, held, suspendReq, suspendAllowed, termReq, cancelling>>

(* The rest of LockSlowPath, once the thread runs again: it returns true,  *)
(* whatever woke it, and so Lock() returns.                                *)
LockSlowPathReturns(t) ==
    /\ pc[t] = "wait"
    /\ t \notin waiting
    /\ SchedulerUnlocked
    /\ held' = [held EXCEPT ![t] = @ \cup {cur[t]}]
    /\ Goto(t, "run")
    /\ UNCHANGED <<tag, cur, seen, waiting, threadVars, lockVars>>

-----------------------------------------------------------------------------
(* Unlock(). *)
UnlockUncontended(t, l) ==
    /\ pc[t] = "run" /\ l \in held[t]
    /\ tag[l] = Tag(t, FALSE)
    /\ tag' = [tag EXCEPT ![l] = Free]
    /\ held' = [held EXCEPT ![t] = @ \ {l}]
    /\ UNCHANGED <<pc, cur, seen, waiting, threadVars, lockVars>>

UnlockContended(t, l) ==
    /\ pc[t] = "run" /\ l \in held[t]
    /\ tag[l] # Tag(t, FALSE)
    /\ cur' = [cur EXCEPT ![t] = l]
    /\ held' = [held EXCEPT ![t] = @ \ {l}]
    /\ Goto(t, "unlockSlow")
    /\ UNCHANGED <<tag, seen, waiting, threadVars, lockVars>>

(* A bug: the old owner's suspension is forgotten. *)
SuspendedAfterUnlockForgets(o, w) ==
    [u \in Threads |-> IF u # o /\ u = w /\ IsSuspended(w) /\ numKernelWaiters'[w] > 0
                       THEN {} ELSE suspended[u]]

(* The suspend flags in the state of each thread after the old owner o     *)
(* handed a lock to w: w is continued if it now has kernel waiters, and o, *)
(* which may have been continued for its waiters, is suspended again.      *)
SuspendedAfterUnlock(o, w) ==
    [u \in Threads |->
       CASE u = o /\ IsSuspended(o) /\ numKernelWaiters'[o] <= 0 -> SuspendFlags(o)
         [] u # o /\ u = w /\ IsSuspended(w) /\ numKernelWaiters'[w] > 0 -> {}
         [] OTHER -> suspended[u]]

(* Two bugs: the woken thread is not made the owner; the waiter bit is     *)
(* lost.                                                                   *)
UnlockWith(t, next(_, _)) ==
    LET l == cur[t]
    IN  /\ pc[t] = "unlockSlow"
        /\ SchedulerUnlocked
        /\ \/ /\ WaitersOn(t, l) = {}
              /\ tag' = [tag EXCEPT ![l] = Free]
              /\ UNCHANGED <<lockVars, waiting>>
              /\ suspended' = SuspendedAfterUnlock(t, NoThread)
           \/ \E w \in Threads :
                 /\ RemoveWaiterByKey(t, l, w)
                 /\ tag' = [tag EXCEPT ![l] = next(w, WaitersOn(t, l) # {w})]
                 /\ waiting' = waiting \ {w}
                 /\ suspended' = SuspendedAfterUnlock(t, w)
        /\ Goto(t, "run")
        /\ UNCHANGED <<cur, seen, held, suspendReq, suspendAllowed, termReq, cancelling>>
UnlockSlowPathFrees(t) == UnlockWith(t, LAMBDA w, b : Tag(NoThread, b))
UnlockSlowPathDropsBit(t) == UnlockWith(t, LAMBDA w, b : Tag(w, FALSE))

UnlockSlowPath(t) ==
    LET l == cur[t]
    IN  /\ pc[t] = "unlockSlow"
        /\ SchedulerUnlocked
        /\ \/ /\ WaitersOn(t, l) = {}
              /\ tag' = [tag EXCEPT ![l] = Free]
              /\ UNCHANGED <<lockVars, waiting>>
              /\ suspended' = SuspendedAfterUnlock(t, NoThread)
           \/ \E w \in Threads :
                 /\ RemoveWaiterByKey(t, l, w)
                 /\ tag' = [tag EXCEPT ![l] = Tag(w, WaitersOn(t, l) # {w})]
                 /\ waiting' = waiting \ {w}
                 /\ suspended' = SuspendedAfterUnlock(t, w)
        /\ Goto(t, "run")
        /\ UNCHANGED <<cur, seen, held, suspendReq, suspendAllowed, termReq, cancelling>>

-----------------------------------------------------------------------------
(* The suspend flags of the thread's state are brought up to date, which   *)
(* for a thread with kernel waiters is put off.                            *)
UpdateState(t) ==
    suspended' = [suspended EXCEPT ![t] = IF suspendAllowed[t] THEN suspendReq'[t] ELSE {}]
TrySuspend(t) ==
    IF numKernelWaiters[t] > 0 THEN UNCHANGED suspended ELSE UpdateState(t)

(* KThread::RequestSuspend. *)
RequestSuspend(t, type) ==
    /\ SchedulerUnlocked
    /\ suspendReq' = [suspendReq EXCEPT ![t] = @ \cup {type}]
    /\ TrySuspend(t)
    /\ UNCHANGED <<suspendAllowed, termReq, cancelling, llVars, lockVars>>

(* KThread::Resume. *)
Resume(t, type) ==
    /\ SchedulerUnlocked
    /\ suspendReq' = [suspendReq EXCEPT ![t] = @ \ {type}]
    /\ UpdateState(t)
    /\ UNCHANGED <<suspendAllowed, termReq, cancelling, llVars, lockVars>>

(* KThread::RequestTerminate, first request: no more suspension, the       *)
(* highest priority, and any wait is cancelled (after the priority has     *)
(* been restored along the chain of owners).                               *)
RequestTerminate(t) ==
    /\ SchedulerUnlocked
    /\ ~ termReq[t]
    /\ termReq' = [termReq EXCEPT ![t] = TRUE]
    /\ suspendAllowed' = [suspendAllowed EXCEPT ![t] = @ /\ ~ IsSuspended(t)]
    /\ suspended' = [suspended EXCEPT ![t] = IF IsSuspended(t) THEN {} ELSE @]
    /\ IF base[t] > TerminatingThreadPriority
       THEN SetBasePriority(t, TerminatingThreadPriority)
       ELSE UNCHANGED lockVars
    /\ cancelling' = IF t \in waiting THEN t ELSE NoThread
    /\ UNCHANGED <<suspendReq, llVars>>

(* A bug: the base class's CancelWait only. *)
CancelWaitStaysQueued(t) ==
    /\ Idle /\ cancelling = t
    /\ waiting' = waiting \ {t}
    /\ cancelling' = NoThread
    /\ UNCHANGED <<tag, pc, cur, seen, held, suspendReq, suspendAllowed, suspended, termReq,
                   lockVars>>

(* ThreadQueueImplForKLightLock::CancelWait and KThreadQueue::CancelWait. *)
CancelWait(t) ==
    /\ Idle /\ cancelling = t
    /\ \E o \in Threads : lockOwner[t] = o /\ RemoveWaiter(o, t)
    /\ waiting' = waiting \ {t}
    /\ cancelling' = NoThread
    /\ UNCHANGED <<tag, pc, cur, seen, held, suspendReq, suspendAllowed, suspended, termReq>>

-----------------------------------------------------------------------------
Init ==
    /\ LockInit
    /\ tag = [l \in Keys |-> Free]
    /\ pc = [t \in Threads |-> "run"]
    /\ cur = [t \in Threads |-> CHOOSE l \in Keys : TRUE]
    /\ seen = [t \in Threads |-> NoThread]
    /\ held = [t \in Threads |-> {}]
    /\ waiting = {}
    /\ suspendReq = [t \in Threads |-> {}]
    /\ suspendAllowed = [t \in Threads |-> TRUE]
    /\ suspended = [t \in Threads |-> {}]
    /\ termReq = [t \in Threads |-> FALSE]
    /\ cancelling = NoThread

(* What a thread inside Lock or Unlock does next, and how it leaves the    *)
(* critical section of l.                                                  *)
Progress(t) ==
    \/ \E l \in Keys : pc[t] = "retry" /\ (LockUncontended(t, l) \/ LockContended(t, l))
    \/ LockSlowPath(t)
    \/ LockSlowPathReturns(t)
    \/ UnlockSlowPath(t)
Unlock(t, l) == UnlockUncontended(t, l) \/ UnlockContended(t, l)

Next ==
    \/ \E t \in Threads :
          \/ \E l \in Keys : LockUncontended(t, l) \/ LockContended(t, l)
          \/ LockSlowPath(t)
          \/ LockSlowPathReturns(t)
          \/ \E l \in Keys : Unlock(t, l)
          \/ UnlockSlowPath(t)
          \/ \E type \in SuspendTypes : /\ t \in Suspendable
                                        /\ RequestSuspend(t, type) \/ Resume(t, type)
          \/ t \in Terminable /\ RequestTerminate(t)
          \/ CancelWait(t)
    \/ RestoreStep /\ UNCHANGED <<llVars, threadVars>>

Spec == Init /\ [][Next]_vars

(* A thread that is not suspended keeps taking the steps that end its call *)
(* or release its locks; nothing obliges it to ask for a lock.             *)
FairSpec ==
    /\ Spec
    /\ \A t \in Threads : /\ WF_vars(suspended[t] = {} /\ Progress(t))
                          /\ \A l \in Keys : WF_vars(suspended[t] = {} /\ Unlock(t, l))
                          /\ WF_vars(CancelWait(t))
    /\ WF_vars(RestoreStep /\ UNCHANGED <<llVars, threadVars>>)

-----------------------------------------------------------------------------
TypeOK ==
    /\ LockTypeOK
    /\ tag \in [Keys -> [owner : Threads \cup {NoThread}, wait : BOOLEAN]]
    /\ pc \in [Threads -> {"run", "lockSlow", "retry", "wait", "unlockSlow"}]
    /\ cur \in [Threads -> Keys]
    /\ seen \in [Threads -> Threads \cup {NoThread}]
    /\ held \in [Threads -> SUBSET Keys]
    /\ waiting \in SUBSET Threads
    /\ suspendReq \in [Threads -> SUBSET SuspendTypes]
    /\ suspendAllowed \in [Threads -> BOOLEAN]
    /\ suspended \in [Threads -> SUBSET SuspendTypes]
    /\ termReq \in [Threads -> BOOLEAN]
    /\ cancelling \in Threads \cup {NoThread}

(* When Lock() has returned and Unlock() has not finished, the lock word   *)
(* names this thread: IsLockedByCurrentThread().                           *)
Owns(t, l) == l \in held[t] \/ (pc[t] = "unlockSlow" /\ cur[t] = l)
OwnsHeldLocks == \A t \in Threads, l \in Keys : Owns(t, l) => tag[l].owner = t

(* As long as no thread has been asked to terminate, no two threads hold   *)
(* one light lock, although the fast paths change the word while a slow    *)
(* path works on it.                                                       *)
NoTermination == \A t \in Threads : ~ termReq[t]
MutualExclusion == NoTermination => OwnsHeldLocks

(* No waiter is stranded: a thread blocked in LockSlowPath waits for the   *)
(* thread that the lock word names now, and the waiter bit of the word,    *)
(* without which Unlock() would not look for it, is set.                   *)
WaiterIsAnnounced ==
    NoTermination =>
       \A t \in waiting : /\ lockOwner[t] # NoThread
                          /\ tag[addressKey[t]] = Tag(lockOwner[t], TRUE)

(* A lock word that names an owner is never left behind by it: the owner   *)
(* holds the lock, is releasing it, or is about to return from Lock().     *)
OwnerIsAlive ==
    \A l \in Keys : LET o == tag[l].owner
                     IN  o # NoThread =>
                            Owns(o, l) \/ (pc[o] = "wait" /\ o \notin waiting /\ cur[o] = l)

(* No thread is suspended while it blocks others on a kernel lock: a        *)
(* request that arrives while it has waiters is put off, and a suspended   *)
(* thread that gets a waiter or a contended lock is continued.  Resume is  *)
(* the exception: it does not look at the waiters, so that it suspends a   *)
(* thread whose suspension was put off if other requests are left.         *)
BlockerSuspended(t) == numKernelWaiters[t] > 0 /\ suspended[t] # {}

ResumeLeaves(t) == \E type \in SuspendTypes : Resume(t, type) /\ suspendReq'[t] # {}
BlockerContinued(t) ==
    BlockerSuspended(t)' => \/ BlockerSuspended(t) /\ numKernelWaiters'[t] <= numKernelWaiters[t]
                            \/ ResumeLeaves(t)
BlockersContinue == [][\A t \in Threads : BlockerContinued(t)]_vars

(* A put-off suspension is not forgotten: a thread that ought to be        *)
(* suspended and is not owns a lock whose waiter bit is set, so that its   *)
(* Unlock() takes the slow path and suspends it.                           *)
SuspendHonoured ==
    NoTermination =>
       \A t \in Threads :
          SuspendFlags(t) # suspended[t] => \E l \in Keys : tag[l] = Tag(t, TRUE)

(* A waiter that no thread's priority exceeds, waiting for the innermost   *)
(* lock, whose owner takes no other, eventually stops waiting, although    *)
(* the owners may be asked to suspend at any time, unless a termination    *)
(* breaks the lock or Resume keeps suspending threads that block others:   *)
(* it is queued behind its equals and before the rest.  A waiter of lower  *)
(* priority may be overtaken for ever.                                     *)
NotOvertaken(t) == \A u \in Threads : prio[t] <= prio[u]

WaiterWoken ==
    <>[](\A t \in Threads : ~ BlockerSuspended(t)) =>
       \A t \in Threads :
          (t \in waiting /\ NotOvertaken(t) /\ \A l \in Keys : l <= addressKey[t])
             ~> (t \notin waiting \/ ~ NotOvertaken(t) \/ ~ NoTermination)
=============================================================================

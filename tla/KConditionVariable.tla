------------------------ MODULE KConditionVariable ------------------------
(***************************************************************************)
(* Process-wide keys (core/hle/kernel/k_condition_variable.cpp): the       *)
(* kernel side of guest mutexes (ArbitrateLock, ArbitrateUnlock) and guest *)
(* condition variables (WaitProcessWideKeyAtomic, SignalProcessWideKey),   *)
(* together with the guest code that calls them.                           *)
(*                                                                         *)
(* A guest mutex is a word in user memory: the handle of the owner and a   *)
(* bit that says someone waits.  The guest takes and releases it without   *)
(* the kernel when it can.  A condition variable is a word in user memory  *)
(* that says whether the kernel has waiters for it; the guest calls Signal *)
(* only when it is set.  Waiters of a mutex are in the waiter trees of     *)
(* KThreadLocks; waiters of a condition variable are in m_tree, and Signal *)
(* moves them to the waiter tree of the mutex owner.                       *)
(*                                                                         *)
(* Everything in the kernel runs under the scheduler lock.  The loops of   *)
(* Signal and RestorePriority are split into their iterations: Signal      *)
(* keeps an iterator into m_tree across calls that rearrange the tree.     *)
(***************************************************************************)
EXTENDS KThreadLocks

CONSTANTS CvKeys,         \* addresses of condition variables
          NoKey,
          CvMutex,        \* the mutex each condition variable is used with
          Uses,           \* the mutexes each guest thread locks
          Signallers,     \* the guest threads that signal
          Timeouts,       \* of Wait: "zero", "finite", "infinite"
          Reprioritised,  \* threads whose base priority may be set
          Terminable,     \* threads RequestTerminate may be called on
          Leavers,        \* threads that may exit, even while they own a mutex,
                          \* and whose handle the guest then closes
          TerminatingThreadPriority

ASSUME CvAssumption == /\ KernelKeys = {}
                       /\ NoKey \notin CvKeys
                       /\ CvMutex \in [CvKeys -> Keys]
                       /\ Timeouts \subseteq {"zero", "finite", "infinite"}
ASSUME CallersAssumption == /\ Uses \in [Threads -> SUBSET Keys]
                            /\ Signallers \cup Reprioritised \subseteq Threads
                            /\ Terminable \cup Leavers \subseteq Threads
                            /\ TerminatingThreadPriority \in Priorities

VARIABLES tag,        \* mutex words in user memory: owner and HandleWaitMask
          flag,       \* condition variable words in user memory
          pc,         \* where each thread is, in the guest or in a call
          mutex,      \* the mutex the thread locks, unlocks or waits with
          seen,       \* the owner it read from the mutex word
          held,       \* the mutexes the guest thread has locked
          condvar,    \* m_condvar_key while m_condvar_tree is set, or NoKey
          cvBefore,   \* insertion order in m_tree
          waiting,    \* threads in ThreadState::Waiting
          timer,      \* threads with a task in the hardware timer
          waitResult, \* m_wait_result
          opened,     \* the owner a thread in WaitForAddress has a reference to
          handles,    \* threads with an open handle in the handle table
          termReq,    \* m_termination_requested
          signalling, \* the loop of Signal: key, how many to wake, iterator
          cancelling, \* RequestTerminate is about to cancel this thread's wait
          crashed     \* a null pointer was dereferenced

guestVars == <<pc, mutex, seen, held>>
memVars == <<tag, flag>>
treeVars == <<condvar, cvBefore>>
waitVars == <<waiting, timer, waitResult>>
refVars == <<opened, handles, crashed>>
loopVars == <<signalling, cancelling>>
cvVars == <<guestVars, memVars, treeVars, waitVars, refVars, loopVars, termReq>>
vars == <<lockVars, cvVars>>

Free == [owner |-> NoThread, wait |-> FALSE]
Tag(t, w) == [owner |-> t, wait |-> w]
NoSignal == [key |-> NoKey, left |-> 0, it |-> NoThread]

(* The scheduler lock is free. *)
SchedulerUnlocked == Idle /\ signalling = NoSignal /\ cancelling = NoThread

Goto(t, label) == pc' = [pc EXCEPT ![t] = label]

(* Back to the guest from a call: PhysicalCore::RunThread ends a thread    *)
(* that is to terminate before it runs guest code again.                   *)
ReturnTo(t, label) == Goto(t, IF termReq[t] THEN "exited" ELSE label)

-----------------------------------------------------------------------------
(* The guest.  Mutex lock: a compare-and-swap loop around ArbitrateLock.   *)
GuestLock(t, l) ==
    /\ \/ pc[t] = "run" /\ l \in Uses[t] \ held[t]
       \/ pc[t] = "lock" /\ mutex[t] = l
    /\ mutex' = [mutex EXCEPT ![t] = l]
    /\ \/ /\ tag[l] = Free
          /\ tag' = [tag EXCEPT ![l] = Tag(t, FALSE)]
          /\ held' = [held EXCEPT ![t] = @ \cup {l}]
          /\ Goto(t, "run")
          /\ UNCHANGED seen
       \/ /\ tag[l] # Free
          /\ tag' = [tag EXCEPT ![l].wait = TRUE]
          /\ seen' = [seen EXCEPT ![t] = tag[l].owner]
          /\ Goto(t, "arbitrate")
          /\ UNCHANGED held
    /\ UNCHANGED <<flag, treeVars, waitVars, refVars, loopVars, termReq, lockVars>>

(* After ArbitrateLock, whatever it returned: the word decides. *)
GuestCheck(t) ==
    /\ pc[t] = "check"
    /\ \/ /\ tag[mutex[t]].owner = t
          /\ held' = [held EXCEPT ![t] = @ \cup {mutex[t]}]
          /\ Goto(t, "run")
       \/ /\ tag[mutex[t]].owner # t
          /\ Goto(t, "lock")
          /\ UNCHANGED held
    /\ UNCHANGED <<mutex, seen, memVars, treeVars, waitVars, refVars, loopVars, termReq,
                   lockVars>>

GuestUnlock(t, l) ==
    /\ pc[t] = "run" /\ l \in held[t]
    /\ held' = [held EXCEPT ![t] = @ \ {l}]
    /\ \/ /\ tag[l] = Tag(t, FALSE)
          /\ tag' = [tag EXCEPT ![l] = Free]
          /\ UNCHANGED <<pc, mutex>>
       \/ /\ tag[l] # Tag(t, FALSE)
          /\ mutex' = [mutex EXCEPT ![t] = l]
          /\ Goto(t, "unlock")
          /\ UNCHANGED tag
    /\ UNCHANGED <<seen, flag, treeVars, waitVars, refVars, loopVars, termReq, lockVars>>

(* A thread exits in guest code: on its own account, or interrupted since  *)
(* it is to terminate.                                                     *)
Exit(t) ==
    /\ \/ pc[t] = "run" /\ t \in Leavers
       \/ pc[t] \in {"run", "lock", "check", "arbitrate", "unlock"} /\ termReq[t]
    /\ Goto(t, "exited")
    /\ UNCHANGED <<mutex, seen, held, memVars, treeVars, waitVars, refVars, loopVars, termReq,
                   lockVars>>

-----------------------------------------------------------------------------
(* EndWait on each thread of ws, with the timer task cancelled. *)
EndWait(ws, result) ==
    /\ waiting' = waiting \ ws
    /\ timer' = timer \ ws
    /\ waitResult' = [t \in Threads |-> IF t \in ws THEN result ELSE waitResult[t]]

(* A bug: only the next owner leaves the old owner's lock. *)
HandOverLeavesWaiters(t, l, w) ==
    \/ /\ w = NoThread
       /\ WaitersOn(t, l) = {}
       /\ tag' = [tag EXCEPT ![l] = Free]
       /\ UNCHANGED lockVars
    \/ /\ w # NoThread
       /\ IsHighestPriorityWaiter(w, t, l)
       /\ RemoveWaiter(t, w)
       /\ tag' = [tag EXCEPT ![l] = Tag(w, WaitersOn(t, l) # {w})]

(* Mutex l of t goes to its highest-priority waiter w, or is free: the     *)
(* common part of SignalToAddress and Wait.                                *)
HandOver(t, l, w) ==
    \/ /\ w = NoThread
       /\ WaitersOn(t, l) = {}
       /\ tag' = [tag EXCEPT ![l] = Free]
       /\ UNCHANGED lockVars
    \/ /\ w # NoThread
       /\ RemoveWaiterByKey(t, l, w)
       /\ tag' = [tag EXCEPT ![l] = Tag(w, WaitersOn(t, l) # {w})]

(* ArbitrateUnlock: KConditionVariable::SignalToAddress. *)
SignalToAddress(t) ==
    /\ pc[t] = "unlock"
    /\ SchedulerUnlocked
    /\ \E w \in Threads \cup {NoThread} :
          HandOver(t, mutex[t], w) /\ EndWait({w} \cap Threads, "Success")
    /\ ReturnTo(t, "run")
    /\ UNCHANGED <<mutex, seen, held, flag, treeVars, refVars, loopVars, termReq>>

(* ArbitrateLock: KConditionVariable::WaitForAddress.  It returns at once  *)
(* when the thread is to terminate, the word is not what the guest saw or  *)
(* the owner's handle is not valid.                                        *)
MustWait(t) == /\ ~ termReq[t]
               /\ tag[mutex[t]] = Tag(seen[t], TRUE)
               /\ seen[t] \in handles

WaitForAddress(t) ==
    /\ pc[t] = "arbitrate"
    /\ SchedulerUnlocked
    /\ \/ /\ ~ MustWait(t)
          /\ ReturnTo(t, "check")
          /\ UNCHANGED <<waiting, opened, lockVars>>
       \/ /\ MustWait(t)
          /\ AddWaiter(seen[t], t, mutex[t])
          /\ opened' = [opened EXCEPT ![t] = seen[t]]
          /\ waiting' = waiting \cup {t}
          /\ Goto(t, "addressWait")
    /\ seen' = [seen EXCEPT ![t] = NoThread]
    /\ UNCHANGED <<mutex, held, memVars, treeVars, timer, waitResult, handles, crashed,
                   loopVars, termReq>>

WaitForAddressReturns(t) ==
    /\ pc[t] = "addressWait" /\ t \notin waiting
    /\ SchedulerUnlocked
    /\ opened' = [opened EXCEPT ![t] = NoThread]
    /\ ReturnTo(t, "check")
    /\ UNCHANGED <<mutex, seen, held, memVars, treeVars, waitVars, handles, crashed, loopVars,
                   termReq, lockVars>>

-----------------------------------------------------------------------------
(* WaitProcessWideKeyAtomic: KConditionVariable::Wait. *)
CvWaiters(c) == {t \in Threads : condvar[t] = c}

Wait(t, c, timeout) ==
    LET l == CvMutex[c]
    IN  /\ pc[t] = "run" /\ l \in held[t]
        /\ SchedulerUnlocked
        /\ ~ termReq[t]
        /\ \E w \in Threads \cup {NoThread} :
              LET woken == {w} \cap Threads
                  asleep == IF timeout = "zero" THEN {} ELSE {t}
                  timed == IF timeout = "finite" THEN {t} ELSE {}
              IN  /\ HandOver(t, l, w)
                  /\ waiting' = (waiting \ woken) \cup asleep
                  /\ timer' = (timer \ woken) \cup timed
                  /\ waitResult' = [u \in Threads |-> IF u \in woken THEN "Success"
                                                      ELSE waitResult[u]]
        /\ flag' = [flag EXCEPT ![c] = TRUE]
        /\ \/ /\ timeout = "zero"
              /\ ReturnTo(t, "lock")
              /\ UNCHANGED treeVars
           \/ /\ timeout # "zero"
              /\ condvar' = [condvar EXCEPT ![t] = c]
              /\ cvBefore' = InsertedAfter(cvBefore, CvWaiters(c), t)
              /\ Goto(t, "cvWait")
        /\ mutex' = [mutex EXCEPT ![t] = l]
        /\ held' = [held EXCEPT ![t] = @ \ {l}]
        /\ UNCHANGED <<seen, refVars, loopVars, termReq>>

(* Back in the guest the mutex is owned again on success and has to be     *)
(* locked again after a timeout; any other result is an error.             *)
WaitReturns(t) ==
    /\ pc[t] = "cvWait" /\ t \notin waiting
    /\ SchedulerUnlocked
    /\ held' = [held EXCEPT ![t] = IF waitResult[t] = "Success" THEN @ \cup {mutex[t]} ELSE @]
    /\ ReturnTo(t, IF waitResult[t] = "TimedOut" THEN "lock" ELSE "run")
    /\ UNCHANGED <<mutex, seen, memVars, treeVars, waitVars, refVars, loopVars, termReq,
                   lockVars>>

-----------------------------------------------------------------------------
(* m_tree orders the waiters of one key by priority and insertion. *)
TreeBefore(u, w) == \/ prio[u] < prio[w]
                    \/ prio[u] = prio[w] /\ <<u, w>> \in cvBefore

(* i is the iterator to the first thread of ws in m_tree, or end(). *)
IsFirstOf(i, ws) == \/ i = NoThread /\ ws = {}
                    \/ i \in ws /\ \A u \in ws \ {i} : TreeBefore(i, u)

(* SignalProcessWideKey: KConditionVariable::Signal, called by any thread  *)
(* in guest code when the word says there are waiters.  A count that is    *)
(* not positive wakes all of them.                                         *)
Signal(t, c, count) ==
    /\ pc[t] = "run"
    /\ SchedulerUnlocked
    /\ flag[c]
    /\ \E i \in Threads \cup {NoThread} :
          /\ IsFirstOf(i, CvWaiters(c))
          /\ signalling' = [key |-> c, it |-> i,
                            left |-> IF count <= 0 THEN Cardinality(Threads) ELSE count]
    /\ UNCHANGED <<guestVars, memVars, treeVars, waitVars, refVars, cancelling, termReq,
                   lockVars>>

(* Three bugs: w wakes up although the mutex is taken; the handle in the   *)
(* word is not looked up; the word does not say that w waits.              *)
SignalImplWith(w, wait, valid, queued(_)) ==
    LET l == mutex[w]  o == tag[mutex[w]].owner
    IN  \/ /\ tag[l] = Free
           /\ tag' = [tag EXCEPT ![l] = Tag(w, FALSE)]
           /\ EndWait({w}, "Success")
           /\ UNCHANGED lockVars
        \/ /\ tag[l] # Free
           /\ tag' = [tag EXCEPT ![l].wait = @ \/ wait]
           /\ \/ o \in valid /\ queued(o)
              \/ /\ o \notin valid
                 /\ EndWait({w}, "InvalidState")
                 /\ UNCHANGED lockVars
SignalImplWakes(w) ==
    SignalImplWith(w, TRUE, handles, LAMBDA o : EndWait({w}, "Success") /\ UNCHANGED lockVars)
SignalImplAnyOwner(w) ==
    SignalImplWith(w, TRUE, Threads, LAMBDA o : AddWaiter(o, w, mutex[w]) /\ UNCHANGED waitVars)
SignalImplNoWaitBit(w) ==
    SignalImplWith(w, FALSE, handles, LAMBDA o : AddWaiter(o, w, mutex[w]) /\ UNCHANGED waitVars)

(* SignalImpl(w): w gets the mutex if it is free, and otherwise waits for  *)
(* the owner without waking up, unless the word names no thread at all.    *)
SignalImpl(w) ==
    LET l == mutex[w]  o == tag[mutex[w]].owner
    IN  \/ /\ tag[l] = Free
           /\ tag' = [tag EXCEPT ![l] = Tag(w, FALSE)]
           /\ EndWait({w}, "Success")
           /\ UNCHANGED lockVars
        \/ /\ tag[l] # Free
           /\ tag' = [tag EXCEPT ![l].wait = TRUE]
           /\ \/ /\ o \in handles
                 /\ AddWaiter(o, w, l)
                 /\ UNCHANGED waitVars
              \/ /\ o \notin handles
                 /\ EndWait({w}, "InvalidState")
                 /\ UNCHANGED lockVars

(* One iteration of the loop: the iterator moves on to the successor in    *)
(* the tree before SignalImpl is called.                                   *)
SignalIteration(w) ==
    /\ Idle
    /\ signalling.it = w /\ signalling.left > 0
    /\ \E i \in Threads \cup {NoThread} :
          /\ IsFirstOf(i, {u \in CvWaiters(signalling.key) \ {w} : TreeBefore(w, u)})
          /\ signalling' = [signalling EXCEPT !.left = @ - 1, !.it = i]
    /\ condvar' = [condvar EXCEPT ![w] = NoKey]
    /\ cvBefore' = Without(cvBefore, w)
    /\ SignalImpl(w)
    /\ UNCHANGED <<guestVars, flag, refVars, cancelling, termReq>>

(* A bug: the word is cleared whether or not there are waiters left. *)
SignalReturnsClearing ==
    /\ Idle /\ signalling # NoSignal
    /\ signalling.left = 0 \/ signalling.it = NoThread
    /\ flag' = [flag EXCEPT ![signalling.key] = FALSE]
    /\ signalling' = NoSignal
    /\ UNCHANGED <<guestVars, tag, treeVars, waitVars, refVars, cancelling, termReq, lockVars>>

(* After the loop: the word is cleared when the iterator is at the end of  *)
(* the key's waiters.                                                      *)
SignalReturns ==
    /\ Idle /\ signalling # NoSignal
    /\ signalling.left = 0 \/ signalling.it = NoThread
    /\ flag' = [flag EXCEPT ![signalling.key] = @ /\ signalling.it # NoThread]
    /\ signalling' = NoSignal
    /\ UNCHANGED <<guestVars, tag, treeVars, waitVars, refVars, cancelling, termReq, lockVars>>

-----------------------------------------------------------------------------
(* A bug: a thread that Signal has moved stays in the owner's tree. *)
CancelWaitStaysQueued(t, result) ==
    /\ \/ /\ lockOwner[t] # NoThread /\ pc[t] = "addressWait"
          /\ RemoveWaiter(lockOwner[t], t)
       \/ /\ lockOwner[t] = NoThread \/ pc[t] # "addressWait"
          /\ UNCHANGED lockVars
    /\ crashed' = (pc[t] = "addressWait" /\ lockOwner[t] = NoThread)
    /\ condvar' = [condvar EXCEPT ![t] = NoKey]
    /\ cvBefore' = Without(cvBefore, t)
    /\ waiting' = waiting \ {t}
    /\ waitResult' = [waitResult EXCEPT ![t] = result]
    /\ UNCHANGED <<guestVars, memVars, opened, handles>>

(* CancelWait of the two wait queues: a thread leaves the tree of its lock *)
(* owner or m_tree.  The queue of WaitForAddress takes the owner for       *)
(* granted, the one of Wait does not.                                      *)
CancelWait(t, result) ==
    /\ \/ /\ lockOwner[t] # NoThread
          /\ RemoveWaiter(lockOwner[t], t)
       \/ /\ lockOwner[t] = NoThread
          /\ UNCHANGED lockVars
    /\ crashed' = (pc[t] = "addressWait" /\ lockOwner[t] = NoThread)
    /\ condvar' = [condvar EXCEPT ![t] = NoKey]
    /\ cvBefore' = Without(cvBefore, t)
    /\ waiting' = waiting \ {t}
    /\ waitResult' = [waitResult EXCEPT ![t] = result]
    /\ UNCHANGED <<guestVars, memVars, opened, handles>>

(* The hardware timer pops the task of t and calls KThread::OnTimer. *)
OnTimer(t) ==
    /\ t \in timer
    /\ SchedulerUnlocked
    /\ timer' = timer \ {t}
    /\ IF t \in waiting
       THEN CancelWait(t, "TimedOut")
       ELSE UNCHANGED <<guestVars, memVars, treeVars, waiting, waitResult, refVars, lockVars>>
    /\ UNCHANGED <<loopVars, termReq>>

(* KThread::RequestTerminate: first the priority, then the wait. *)
RequestTerminate(t) ==
    /\ SchedulerUnlocked
    /\ ~ termReq[t] /\ pc[t] \notin {"exited", "gone"}
    /\ termReq' = [termReq EXCEPT ![t] = TRUE]
    /\ IF base[t] > TerminatingThreadPriority
       THEN SetBasePriority(t, TerminatingThreadPriority)
       ELSE UNCHANGED lockVars
    /\ cancelling' = IF t \in waiting THEN t ELSE NoThread
    /\ UNCHANGED <<guestVars, memVars, treeVars, waitVars, refVars, signalling>>

TerminateCancelsWait(t) ==
    /\ Idle /\ cancelling = t
    /\ CancelWait(t, "TerminationRequested")
    /\ timer' = timer \ {t}
    /\ cancelling' = NoThread
    /\ UNCHANGED <<termReq, signalling>>

(* A change of base priority, and the iterations of RestorePriority, which *)
(* also move a thread inside m_tree.                                       *)
ChangePriority(t, p) ==
    /\ SchedulerUnlocked
    /\ SetBasePriority(t, p)
    /\ UNCHANGED cvVars

Restore ==
    /\ RestoreStep
    /\ cvBefore' = IF prio' = prio \/ condvar[restoring] = NoKey THEN cvBefore
                   ELSE InsertedAfter(cvBefore, CvWaiters(condvar[restoring]), restoring)
    /\ UNCHANGED <<guestVars, memVars, condvar, waitVars, refVars, loopVars, termReq>>

(* The guest closes the handle of an exited thread, and once no thread in  *)
(* WaitForAddress has a reference to it either, KThread::Finalize takes    *)
(* the waiters out of its locks and cancels their waits.                   *)
CloseHandle(t) ==
    /\ pc[t] = "exited" /\ t \in Leavers
    /\ SchedulerUnlocked
    /\ handles' = handles \ {t}
    /\ UNCHANGED <<guestVars, memVars, treeVars, waitVars, opened, crashed, loopVars, termReq,
                   lockVars>>

Finalize(t) ==
    LET ws == Waiters(t)
    IN  /\ SchedulerUnlocked
        /\ pc[t] = "exited" /\ t \notin handles
        /\ \A u \in Threads : opened[u] # t
        /\ lockOwner' = [u \in Threads |-> IF u \in ws THEN NoThread ELSE lockOwner[u]]
        /\ before' = {p \in before : p[1] \notin ws /\ p[2] \notin ws}
        /\ crashed' = (\E u \in ws : pc[u] = "addressWait")
        /\ EndWait(ws, "InvalidState")
        /\ Goto(t, "gone")
        /\ UNCHANGED <<base, prio, addressKey, numKernelWaiters, restoring, mutex, seen, held,
                       memVars, treeVars, opened, handles, loopVars, termReq>>

-----------------------------------------------------------------------------
Init ==
    /\ LockInit
    /\ tag = [l \in Keys |-> Free]
    /\ flag = [c \in CvKeys |-> FALSE]
    /\ pc = [t \in Threads |-> "run"]
    /\ mutex = [t \in Threads |-> CHOOSE l \in Keys : TRUE]
    /\ seen = [t \in Threads |-> NoThread]
    /\ held = [t \in Threads |-> {}]
    /\ condvar = [t \in Threads |-> NoKey]
    /\ cvBefore = {}
    /\ waiting = {}
    /\ timer = {}
    /\ waitResult = [t \in Threads |-> "NoSynchronizationObject"]
    /\ opened = [t \in Threads |-> NoThread]
    /\ handles = Threads
    /\ termReq = [t \in Threads |-> FALSE]
    /\ signalling = NoSignal
    /\ cancelling = NoThread
    /\ crashed = FALSE

Guest(t) ==
    \/ \E l \in Keys : GuestLock(t, l) \/ GuestUnlock(t, l)
    \/ GuestCheck(t)
    \/ Exit(t)

Calls(t) ==
    \/ SignalToAddress(t)
    \/ WaitForAddress(t) \/ WaitForAddressReturns(t)
    \/ \E c \in CvKeys, timeout \in Timeouts : Wait(t, c, timeout)
    \/ WaitReturns(t)
    \/ \E c \in CvKeys, count \in {0, 1} : t \in Signallers /\ Signal(t, c, count)
    \/ SignalIteration(t)

Others(t) ==
    \/ OnTimer(t)
    \/ t \in Terminable /\ RequestTerminate(t)
    \/ TerminateCancelsWait(t)
    \/ \E p \in Priorities : t \in Reprioritised /\ ChangePriority(t, p)
    \/ CloseHandle(t) \/ Finalize(t)

Next ==
    /\ ~ crashed
    /\ \/ \E t \in Threads : Guest(t) \/ Calls(t) \/ Others(t)
       \/ SignalReturns
       \/ Restore

Spec == Init /\ [][Next]_vars

(* A thread finishes its calls and releases the mutexes it owns; nothing   *)
(* obliges it to lock one, to wait or to signal.  The loops of the kernel  *)
(* run to their end.                                                       *)
FairSpec ==
    /\ Spec
    /\ \A t \in Threads :
          /\ WF_vars(\E l \in Keys : GuestUnlock(t, l))
          /\ WF_vars(pc[t] = "lock" /\ GuestLock(t, mutex[t]))
          /\ WF_vars(GuestCheck(t))
          /\ WF_vars(SignalToAddress(t))
          /\ WF_vars(WaitForAddress(t)) /\ WF_vars(WaitForAddressReturns(t))
          /\ WF_vars(WaitReturns(t))
          /\ WF_vars(SignalIteration(t))
    /\ WF_vars(SignalReturns) /\ WF_vars(Restore)

-----------------------------------------------------------------------------
TypeOK ==
    /\ LockTypeOK
    /\ tag \in [Keys -> [owner : Threads \cup {NoThread}, wait : BOOLEAN]]
    /\ flag \in [CvKeys -> BOOLEAN]
    /\ pc \in [Threads -> {"run", "lock", "arbitrate", "addressWait", "check", "unlock",
                           "cvWait", "exited", "gone"}]
    /\ mutex \in [Threads -> Keys]
    /\ seen \in [Threads -> Threads \cup {NoThread}]
    /\ held \in [Threads -> SUBSET Keys]
    /\ condvar \in [Threads -> CvKeys \cup {NoKey}]
    /\ cvBefore \in SUBSET (Threads \X Threads)
    /\ waiting \in SUBSET Threads
    /\ timer \in SUBSET Threads
    /\ waitResult \in [Threads -> {"NoSynchronizationObject", "Success", "TimedOut",
                                   "TerminationRequested", "InvalidState"}]
    /\ opened \in [Threads -> Threads \cup {NoThread}]
    /\ handles \in SUBSET Threads
    /\ termReq \in [Threads -> BOOLEAN]
    /\ signalling \in [key : CvKeys \cup {NoKey}, left : 0 .. Cardinality(Threads),
                       it : Threads \cup {NoThread}]
    /\ cancelling \in Threads \cup {NoThread}
    /\ crashed \in BOOLEAN

(* A guest mutex excludes: the word names the thread that believes it has  *)
(* locked the mutex, also when it got it back from a condition variable    *)
(* wait that a timeout, a signal and an unlock of the owner raced for.     *)
Owns(t, l) == l \in held[t] \/ (pc[t] = "unlock" /\ mutex[t] = l)
GuestMutualExclusion == \A t \in Threads, l \in Keys : Owns(t, l) => tag[l].owner = t

(* No mutex waiter is stranded: whoever waits in a waiter tree waits for   *)
(* the thread the mutex word names, and the word's wait bit, without which *)
(* the owner would not call ArbitrateUnlock, is set.                       *)
MutexWaiterAnnounced ==
    \A t \in Threads : lockOwner[t] # NoThread =>
                          tag[addressKey[t]] = Tag(lockOwner[t], TRUE)

(* A waiting thread is where somebody will look for it: in WaitForAddress  *)
(* in a waiter tree, in Wait in a waiter tree or in m_tree but not both,   *)
(* although signals, timeouts and termination all move it; and a thread    *)
(* that does not wait is in neither.                                       *)
InOneTree ==
    \A t \in Threads :
       IF t \in waiting
       THEN (lockOwner[t] # NoThread) # (pc[t] = "cvWait" /\ condvar[t] # NoKey)
       ELSE lockOwner[t] = NoThread /\ condvar[t] = NoKey

(* No timer task outlives the wait it was registered for: a task that is   *)
(* left behind would end a later wait of the thread.                       *)
NoStaleTimer == \A t \in timer : pc[t] = "cvWait" /\ t \in waiting

(* No wake-up is lost: while somebody waits for a condition variable, its  *)
(* word says so, and the guest will call Signal.                           *)
WaitersFlagged ==
    \A c \in CvKeys : (CvWaiters(c) # {} /\ signalling = NoSignal) => flag[c]

(* Nobody waits in the tree of a destroyed thread: its handle is invalid   *)
(* before it is finalized, so that neither ArbitrateLock nor Signal can    *)
(* find it, and references keep it alive while they might.                 *)
NoDanglingOwner ==
    \A t \in Threads : lockOwner[t] # NoThread => pc[lockOwner[t]] # "gone"

(* A thread queued for a mutex, whose priority no other thread exceeds,    *)
(* gets it, when the owners of mutexes go on releasing them: it is queued  *)
(* behind its equals only.                                                 *)
QueuedWaiterGranted ==
    \A t \in Threads :
       LET first == \A u \in Threads : prio[t] <= prio[u]
       IN  (lockOwner[t] # NoThread /\ first) ~> (lockOwner[t] = NoThread \/ ~ first)

(* Every waiter is in one tree, its mutex word announces it, and no timer  *)
(* task is left behind, whoever moved it last (k_condition_variable.cpp,   *)
(* the two wait queues).                                                   *)
WaitersPlaced ==
    /\ TypeOK
    /\ InOneTree
    /\ MutexWaiterAnnounced
    /\ NoStaleTimer
=============================================================================

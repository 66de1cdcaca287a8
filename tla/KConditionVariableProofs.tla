---------------------- MODULE KConditionVariableProofs ----------------------
(***************************************************************************)
(* Proofs about KConditionVariable, for every number of threads, mutexes,  *)
(* condition variables and priorities: guest mutexes exclude, every waiter *)
(* is where somebody will look for it, nobody waits for a thread that is   *)
(* gone, and the waiter trees are used as KThreadLocks means them to be.   *)
(***************************************************************************)
EXTENDS KConditionVariable, KThreadLocksProofs, FiniteSetTheorems, TLAPS

Places == {"run", "lock", "arbitrate", "addressWait", "check", "unlock",
           "cvWait", "exited", "gone"}
Results == {"NoSynchronizationObject", "Success", "TimedOut", "TerminationRequested",
            "InvalidState"}

(* Where a thread waits: in m_tree in Wait only, in the waiter tree of its *)
(* mutex in either call, in one of them exactly while it waits.            *)
WaitsInTree ==
    \A t \in Threads :
       /\ condvar[t] # NoKey => pc[t] = "cvWait" /\ t \in waiting /\ lockOwner[t] = NoThread
       /\ lockOwner[t] # NoThread => t \in waiting /\ addressKey[t] = mutex[t]
       /\ t \in waiting => /\ pc[t] \in {"addressWait", "cvWait"}
                           /\ lockOwner[t] # NoThread \/ condvar[t] # NoKey

(* A word without an owner is free, and the word a thread waits on names   *)
(* the thread whose tree it is in and says so.                             *)
WordsNamed == \A l \in Keys : tag[l].owner = NoThread => tag[l].wait = FALSE
WordsAnnounce ==
    \A t \in Threads : lockOwner[t] # NoThread =>
       tag[addressKey[t]].owner = lockOwner[t] /\ tag[addressKey[t]].wait = TRUE

(* A wait that ended well has left the mutex to its thread. *)
Granted ==
    \A t \in Threads : pc[t] = "cvWait" /\ t \notin waiting /\ waitResult[t] = "Success"
                          => tag[mutex[t]].owner = t

(* A mutex that is being released is not held any more. *)
Releasing == \A t \in Threads : pc[t] = "unlock" => mutex[t] \notin held[t]

(* A finalized thread has no handle. *)
GoneUnnamed == \A t \in Threads : pc[t] = "gone" => t \notin handles

(* The loops under the scheduler lock: the iterator of Signal points into  *)
(* m_tree, and the thread to cancel waits.                                 *)
LoopsOK ==
    /\ signalling.it # NoThread => /\ signalling.key # NoKey
                                   /\ condvar[signalling.it] = signalling.key
    /\ cancelling # NoThread => cancelling \in waiting
    /\ signalling = NoSignal \/ (cancelling = NoThread /\ signalling.key # NoKey)

CvInv == /\ TypeOK /\ WaitsInTree /\ NoStaleTimer
         /\ WordsNamed /\ WordsAnnounce
         /\ GuestMutualExclusion /\ Granted /\ Releasing
         /\ GoneUnnamed /\ NoDanglingOwner /\ LoopsOK


-----------------------------------------------------------------------------
(* What the operations on the waiter trees do, whoever calls them. *)
LEMMA WaitersFinite ==
    \A o, k : WaitersOn(o, k) \subseteq Threads /\ Cardinality(WaitersOn(o, k)) \in Nat
<1>1. \A o, k : WaitersOn(o, k) \subseteq Threads
  BY DEF WaitersOn, Waiters
<1> QED
  BY <1>1, ThreadsAssumption, FS_Subset, FS_CardinalityType

(* The sizes RemoveWaiterByKey counts with. *)
LEMMA KernelCounts ==
    \A o, k : KernelCount(k) = 0 /\ KernelWaitersOn(o, k) = 0
<1>1. \A k : KernelCount(k) = 0
  BY CvAssumption DEF KernelCount
<1> QED
  BY <1>1, WaitersFinite DEF KernelWaitersOn

(* t enters the tree of o's lock k. *)
LEMMA AddEffect ==
    ASSUME LockTypeOK, NEW o \in Threads, NEW t \in Threads, NEW k \in Keys, AddWaiter(o, t, k)
    PROVE  /\ LockTypeOK'
           /\ lockOwner'[t] = o /\ addressKey'[t] = k
           /\ \A u \in Threads \ {t} : lockOwner'[u] = lockOwner[u] /\ addressKey'[u] = addressKey[u]
<1>1. /\ base' \in [Threads -> Priorities] /\ prio' \in [Threads -> Priorities]
      /\ lockOwner' \in [Threads -> Threads \cup {NoThread}]
      /\ addressKey' \in [Threads -> Keys] /\ restoring' \in Threads \cup {NoThread}
  BY DEF AddWaiter, LockTypeOK
<1>2. before' \in SUBSET (Threads \X Threads)
  BY WaitersFinite DEF AddWaiter, LockTypeOK, InsertedAfter, Without
<1>3. numKernelWaiters' \in [Threads -> Int]
  BY KernelCounts DEF AddWaiter, LockTypeOK
<1> QED
  BY <1>1, <1>2, <1>3 DEF AddWaiter, LockTypeOK

(* t leaves the tree it is in. *)
LEMMA RemoveEffect ==
    ASSUME LockTypeOK, NEW t \in Threads, lockOwner[t] # NoThread, RemoveWaiter(lockOwner[t], t)
    PROVE  /\ LockTypeOK' /\ addressKey' = addressKey
           /\ lockOwner'[t] = NoThread
           /\ \A u \in Threads \ {t} : lockOwner'[u] = lockOwner[u]
<1>1. /\ base' \in [Threads -> Priorities] /\ prio' \in [Threads -> Priorities]
      /\ lockOwner' \in [Threads -> Threads \cup {NoThread}]
      /\ addressKey' \in [Threads -> Keys] /\ restoring' \in Threads \cup {NoThread}
  BY DEF RemoveWaiter, LockTypeOK
<1>2. before' \in SUBSET (Threads \X Threads)
  BY DEF RemoveWaiter, LockTypeOK, Without
<1>3. numKernelWaiters' \in [Threads -> Int]
  BY KernelCounts DEF RemoveWaiter, LockTypeOK
<1> QED
  BY <1>1, <1>2, <1>3 DEF RemoveWaiter, LockTypeOK

(* The tree of o's lock k passes to its first waiter w. *)
LEMMA ByKeyEffect ==
    ASSUME LockTypeOK, NEW o \in Threads, NEW w \in Threads, NEW k \in Keys,
           RemoveWaiterByKey(o, k, w)
    PROVE  /\ LockTypeOK' /\ addressKey' = addressKey
           /\ w \in WaitersOn(o, k) /\ lockOwner'[w] = NoThread
           /\ \A u \in Threads \ {w} :
                lockOwner'[u] = IF u \in WaitersOn(o, k) THEN w ELSE lockOwner[u]
<1>1. /\ base' \in [Threads -> Priorities] /\ prio' \in [Threads -> Priorities]
      /\ lockOwner' \in [Threads -> Threads \cup {NoThread}]
      /\ addressKey' \in [Threads -> Keys] /\ restoring' \in Threads \cup {NoThread}
  BY DEF RemoveWaiterByKey, LockTypeOK
<1>2. before' \in SUBSET (Threads \X Threads)
  BY DEF RemoveWaiterByKey, LockTypeOK, Without
<1>3. numKernelWaiters' \in [Threads -> Int]
  BY KernelCounts DEF RemoveWaiterByKey, LockTypeOK
<1> QED
  BY <1>1, <1>2, <1>3 DEF RemoveWaiterByKey, LockTypeOK, IsHighestPriorityWaiter

(* Priorities change, waiters stay where they are. *)
LEMMA PriorityEffect ==
    ASSUME LockTypeOK,
           (\E t \in Threads, p \in Priorities : SetBasePriority(t, p)) \/ RestoreStep
    PROVE  LockTypeOK' /\ UNCHANGED <<lockOwner, addressKey>>
<1>1. ASSUME NEW t \in Threads, NEW p \in Priorities, SetBasePriority(t, p)
      PROVE  LockTypeOK' /\ UNCHANGED <<lockOwner, addressKey>>
  BY <1>1 DEF SetBasePriority, LockTypeOK
<1>2. ASSUME RestoreStep
      PROVE  LockTypeOK' /\ UNCHANGED <<lockOwner, addressKey>>
  <2>1. before' \in SUBSET (Threads \X Threads)
    BY <1>2, WaitersFinite DEF RestoreStep, RestoreIteration, LockTypeOK, InsertedAfter, Without
  <2> QED
    BY <1>2, <2>1 DEF RestoreStep, RestoreIteration, LockTypeOK
<1> QED
  BY <1>1, <1>2


-----------------------------------------------------------------------------
(* The steps, action by action. *)
CvAction ==
    \/ \E t \in Threads :
         \/ \E l \in Keys : GuestLock(t, l)
         \/ \E l \in Keys : GuestUnlock(t, l)
         \/ GuestCheck(t)
         \/ Exit(t)
         \/ SignalToAddress(t)
         \/ WaitForAddress(t)
         \/ WaitForAddressReturns(t)
         \/ \E c \in CvKeys, timeout \in Timeouts : Wait(t, c, timeout)
         \/ WaitReturns(t)
         \/ \E c \in CvKeys, count \in {0, 1} : Signal(t, c, count)
         \/ SignalIteration(t)
         \/ OnTimer(t)
         \/ RequestTerminate(t)
         \/ TerminateCancelsWait(t)
         \/ \E p \in Priorities : ChangePriority(t, p)
         \/ CloseHandle(t)
         \/ Finalize(t)
    \/ SignalReturns
    \/ Restore
    \/ UNCHANGED vars

(* The steps of the specification are those of its actions. *)
LEMMA CvCases == [Next]_vars => CvAction
  BY DEF Next, Guest, Calls, Others, CvAction

(* Mutex words. *)
Words == [owner : Threads \cup {NoThread}, wait : BOOLEAN]

(* What a word says. *)
LEMMA WordFacts ==
    /\ Free \in Words /\ Free.owner = NoThread /\ Free.wait = FALSE
    /\ \A o \in Threads \cup {NoThread}, b \in BOOLEAN :
          Tag(o, b) \in Words /\ Tag(o, b).owner = o /\ Tag(o, b).wait = b
    /\ \A x \in Words, o \in Threads \cup {NoThread}, b \in BOOLEAN :
          x.owner = o /\ x.wait = b => x = Tag(o, b)
    /\ \A x \in Words : x.owner = NoThread /\ x.wait = FALSE => x = Free
  BY DEF Tag, Words, Free

(* Writing a word, or its wait bit. *)
LEMMA WordWritten ==
    ASSUME TypeOK, NEW l \in Keys, NEW o \in Threads \cup {NoThread}, NEW b \in BOOLEAN,
           tag' = [tag EXCEPT ![l] = Tag(o, b)]
    PROVE  /\ tag' \in [Keys -> Words] /\ tag'[l].owner = o /\ tag'[l].wait = b
           /\ \A k \in Keys \ {l} : tag'[k] = tag[k]
<1>1. tag \in [Keys -> Words]
  BY DEF TypeOK, Words
<1>2. PICK x : x = Tag(o, b)
  OBVIOUS
<1>3. x \in Words /\ x.owner = o /\ x.wait = b
  BY <1>2, WordFacts
<1>4. tag' = [tag EXCEPT ![l] = x]
  BY <1>2
<1> QED
  BY <1>1, <1>3, <1>4

(* Setting the wait bit. *)
LEMMA WaitBitSet ==
    ASSUME TypeOK, NEW l \in Keys, tag' = [tag EXCEPT ![l].wait = TRUE]
    PROVE  /\ tag' \in [Keys -> Words] /\ tag'[l].owner = tag[l].owner /\ tag'[l].wait = TRUE
           /\ \A k \in Keys \ {l} : tag'[k] = tag[k]
<1>1. tag \in [Keys -> Words] /\ tag[l] \in Words
  BY DEF TypeOK, Words
<1>2. PICK x : x = [tag[l] EXCEPT !.wait = TRUE]
  OBVIOUS
<1>3. x.owner = tag[l].owner /\ x.wait = TRUE /\ x \in Words
  BY <1>1, <1>2 DEF Words
<1>4. tag' = [tag EXCEPT ![l] = x]
  BY <1>2
<1> QED
  BY <1>1, <1>3, <1>4

(* A word is free when it names nobody. *)
LEMMA FreeWords ==
    ASSUME TypeOK, WordsNamed, NEW l \in Keys
    PROVE  tag[l] = Free <=> tag[l].owner = NoThread
<1>1. tag[l] \in Words
  BY DEF TypeOK, Words
<1>2. tag[l].owner = NoThread => tag[l].wait = FALSE
  BY DEF WordsNamed
<1>3. tag[l] = Free => tag[l].owner = NoThread
  BY WordFacts
<1>4. tag[l].owner = NoThread => tag[l] = Free
  BY <1>1, <1>2, WordFacts
<1> QED
  BY <1>3, <1>4

(* Mutex l of t has passed to w, with everyone who waited for it. *)
HandedOver(t, l, w) ==
    /\ LockTypeOK' /\ addressKey' = addressKey
    /\ tag' \in [Keys -> Words]
    /\ tag'[l].owner = w /\ (w = NoThread => tag'[l].wait = FALSE)
    /\ \A k \in Keys \ {l} : tag'[k] = tag[k]
    /\ w \in Threads => lockOwner[w] = t /\ addressKey[w] = l /\ lockOwner'[w] = NoThread
    /\ \A u \in Threads \ {w} :
         \/ /\ lockOwner[u] = t /\ addressKey[u] = l /\ w \in Threads
            /\ lockOwner'[u] = w /\ tag'[l].wait = TRUE
         \/ /\ lockOwner[u] = NoThread \/ addressKey[u] # l
            /\ lockOwner'[u] = lockOwner[u]

(* What handing a mutex over changes. *)
LEMMA HandOverEffect ==
    ASSUME TypeOK, WordsAnnounce, NEW t \in Threads, NEW l \in Keys,
           NEW w \in Threads \cup {NoThread}, tag[l].owner = t, HandOver(t, l, w)
    PROVE  HandedOver(t, l, w)
<1> USE DEF HandedOver
<1>l. LockTypeOK /\ NoThread \notin Threads
  BY ThreadsAssumption DEF TypeOK
<1>w. \A u \in Threads : u \in WaitersOn(t, l) <=> lockOwner[u] # NoThread /\ addressKey[u] = l
  BY <1>l DEF WaitersOn, Waiters, WordsAnnounce
<1>1. CASE w = NoThread
  <2>1. WaitersOn(t, l) = {} /\ tag' = [tag EXCEPT ![l] = Free] /\ UNCHANGED lockVars
    BY <1>1, <1>l DEF HandOver, RemoveWaiterByKey, IsHighestPriorityWaiter, WaitersOn, Waiters
  <2>2. LockTypeOK' /\ UNCHANGED <<lockOwner, addressKey>>
    BY <2>1, <1>l DEF LockTypeOK, lockVars
  <2>3. \A u \in Threads : lockOwner[u] = NoThread \/ addressKey[u] # l
    BY <1>w, <2>1
  <2>4. Free = Tag(NoThread, FALSE)
    BY DEF Free, Tag
  <2>5. /\ tag' \in [Keys -> Words] /\ tag'[l].owner = w /\ tag'[l].wait = FALSE
        /\ \A k \in Keys \ {l} : tag'[k] = tag[k]
    BY <1>1, <2>1, <2>4, WordWritten
  <2> QED
    BY <1>1, <1>l, <2>2, <2>3, <2>5
<1>2. CASE w \in Threads
  <2>1. /\ RemoveWaiterByKey(t, l, w)
        /\ tag' = [tag EXCEPT ![l] = Tag(w, WaitersOn(t, l) # {w})]
    BY <1>2, <1>l DEF HandOver
  <2>2. /\ LockTypeOK' /\ addressKey' = addressKey
        /\ w \in WaitersOn(t, l) /\ lockOwner'[w] = NoThread
        /\ \A u \in Threads \ {w} :
              lockOwner'[u] = IF u \in WaitersOn(t, l) THEN w ELSE lockOwner[u]
    BY <1>2, <1>l, <2>1, ByKeyEffect
  <2>3. PICK b \in BOOLEAN : b = (WaitersOn(t, l) # {w})
    OBVIOUS
  <2>4. /\ tag' \in [Keys -> Words] /\ tag'[l].owner = w /\ tag'[l].wait = b
        /\ \A k \in Keys \ {l} : tag'[k] = tag[k]
    BY <1>2, <2>1, <2>3, WordWritten
  <2>6. lockOwner[w] = t /\ addressKey[w] = l
    BY <2>2 DEF WaitersOn, Waiters
  <2>7. ASSUME NEW u \in Threads \ {w}, u \in WaitersOn(t, l)
        PROVE  /\ lockOwner[u] = t /\ addressKey[u] = l
               /\ lockOwner'[u] = w /\ tag'[l].wait = TRUE
    <3>1. b = TRUE
      BY <2>3, <2>7
    <3>2. lockOwner[u] = t /\ addressKey[u] = l
      BY <2>7 DEF WaitersOn, Waiters
    <3> QED
      BY <2>2, <2>4, <2>7, <3>1, <3>2
  <2>8. ASSUME NEW u \in Threads \ {w}, u \notin WaitersOn(t, l)
        PROVE  (lockOwner[u] = NoThread \/ addressKey[u] # l) /\ lockOwner'[u] = lockOwner[u]
    BY <1>w, <2>2, <2>8
  <2>9. \A u \in Threads \ {w} :
                \/ /\ lockOwner[u] = t /\ addressKey[u] = l /\ w \in Threads
                   /\ lockOwner'[u] = w /\ tag'[l].wait = TRUE
                \/ /\ lockOwner[u] = NoThread \/ addressKey[u] # l
                   /\ lockOwner'[u] = lockOwner[u]
    BY <1>2, <2>7, <2>8
  <2> QED
    BY <1>2, <1>l, <2>2, <2>4, <2>6, <2>9
<1> QED
  BY <1>1, <1>2


-----------------------------------------------------------------------------
(* The guest's steps keep the invariant. *)

(* A guest takes a free mutex, or asks the kernel to wait for it. *)
LEMMA GuestLockKeeps ==
    ASSUME CvInv, NEW t \in Threads, NEW l \in Keys, GuestLock(t, l) PROVE CvInv'
<1>i. TypeOK /\ WaitsInTree /\ NoStaleTimer /\ WordsNamed
      /\ WordsAnnounce /\ GuestMutualExclusion /\ Granted /\ Releasing
      /\ GoneUnnamed /\ NoDanglingOwner /\ LoopsOK
      /\ NoThread \notin Threads
  BY ThreadsAssumption DEF CvInv
<1>y. /\ mutex \in [Threads -> Keys] /\ addressKey \in [Threads -> Keys]
      /\ held \in [Threads -> SUBSET Keys] /\ pc \in [Threads -> Places]
      /\ lockOwner \in [Threads -> Threads \cup {NoThread}]
  BY <1>i DEF TypeOK, LockTypeOK, Places
<1>a. pc[t] \in {"run", "lock"} /\ t \notin waiting /\ lockOwner[t] = NoThread /\ condvar[t] = NoKey
  BY <1>i DEF GuestLock, WaitsInTree
<1>b. tag[l] = Free <=> tag[l].owner = NoThread
  BY <1>i, FreeWords
<1>1. CASE tag[l] = Free
  <2>u. UNCHANGED <<lockVars, flag, seen, condvar, cvBefore, waiting, timer, waitResult,
                  opened, handles, termReq, signalling, cancelling, crashed>>
    BY <1>1 DEF GuestLock, guestVars, memVars, treeVars, waitVars, refVars, loopVars, cvVars,
       vars, lockVars
  <2>l. /\ LockTypeOK'
        /\ UNCHANGED <<base, prio, lockOwner, addressKey, before, numKernelWaiters, restoring>>
    BY <2>u, <1>i DEF TypeOK, LockTypeOK, lockVars
  <2>t. (tag' \in [Keys -> Words]) /\ tag'[l].owner = t /\ tag'[l].wait = FALSE
      /\ (\A k \in Keys \ {l} : tag'[k] = tag[k])
    BY <1>1, <1>i, WordWritten DEF GuestLock
  <2>p. pc' = [pc EXCEPT ![t] = "run"] /\ mutex' = [mutex EXCEPT ![t] = l]
      /\ held' = [held EXCEPT ![t] = @ \cup {l}]
    BY <1>1 DEF GuestLock, Goto
  <2>a. pc[t] \in {"run", "lock"} /\ t \notin waiting /\ lockOwner[t] = NoThread /\ condvar[t] = NoKey
      /\ tag[l].owner = NoThread
    BY <1>a, <1>b, <1>1
  <2>1. TypeOK'
    BY <2>l, <2>u, <2>t, <2>p, <2>a, <1>i DEF TypeOK, Words
  <2>2. WaitsInTree'
    BY <2>l, <2>u, <2>t, <2>p, <2>a, <1>i, <1>y DEF WaitsInTree
  <2>3. NoStaleTimer'
    BY <2>l, <2>u, <2>t, <2>p, <2>a, <1>i, <1>y DEF NoStaleTimer
  <2>4. WordsNamed'
    BY <2>l, <2>u, <2>t, <2>p, <2>a, <1>i, <1>y DEF WordsNamed
  <2>5. WordsAnnounce'
    BY <2>l, <2>u, <2>t, <2>p, <2>a, <1>i, <1>y DEF WordsAnnounce
  <2>6. GuestMutualExclusion'
    BY <2>l, <2>u, <2>t, <2>p, <2>a, <1>i, <1>y DEF GuestMutualExclusion, Owns
  <2>7. Granted'
    BY <2>l, <2>u, <2>t, <2>p, <2>a, <1>i, <1>y DEF Granted
  <2>8. Releasing'
    BY <2>l, <2>u, <2>t, <2>p, <2>a, <1>i, <1>y DEF Releasing
  <2>9. GoneUnnamed'
    BY <2>l, <2>u, <2>t, <2>p, <2>a, <1>i, <1>y DEF GoneUnnamed
  <2>10. NoDanglingOwner'
    BY <2>l, <2>u, <2>t, <2>p, <2>a, <1>i, <1>y DEF NoDanglingOwner
  <2>11. LoopsOK'
    BY <2>u, <2>l, <1>i DEF LoopsOK
  <2> QED
    BY <2>1, <2>2, <2>3, <2>4, <2>5, <2>6, <2>7, <2>8, <2>9, <2>10, <2>11 DEF CvInv
<1>2. CASE tag[l] # Free
  <2>u. UNCHANGED <<lockVars, flag, held, condvar, cvBefore, waiting, timer, waitResult,
                  opened, handles, termReq, signalling, cancelling, crashed>>
    BY <1>2 DEF GuestLock, guestVars, memVars, treeVars, waitVars, refVars, loopVars, cvVars,
       vars, lockVars
  <2>l. /\ LockTypeOK'
        /\ UNCHANGED <<base, prio, lockOwner, addressKey, before, numKernelWaiters, restoring>>
    BY <2>u, <1>i DEF TypeOK, LockTypeOK, lockVars
  <2>t. (tag' \in [Keys -> Words]) /\ tag'[l].owner = tag[l].owner /\ tag'[l].wait = TRUE
      /\ (\A k \in Keys \ {l} : tag'[k] = tag[k])
    BY <1>2, <1>i, WaitBitSet DEF GuestLock
  <2>p. pc' = [pc EXCEPT ![t] = "arbitrate"] /\ mutex' = [mutex EXCEPT ![t] = l]
      /\ seen' = [seen EXCEPT ![t] = tag[l].owner]
    BY <1>2 DEF GuestLock, Goto
  <2>a. pc[t] \in {"run", "lock"} /\ t \notin waiting /\ lockOwner[t] = NoThread /\ condvar[t] = NoKey
      /\ tag[l].owner # NoThread
    BY <1>a, <1>b, <1>2
  <2>1. TypeOK'
    BY <2>l, <2>u, <2>t, <2>p, <2>a, <1>i DEF TypeOK, Words
  <2>2. WaitsInTree'
    BY <2>l, <2>u, <2>t, <2>p, <2>a, <1>i, <1>y DEF WaitsInTree
  <2>3. NoStaleTimer'
    BY <2>l, <2>u, <2>t, <2>p, <2>a, <1>i, <1>y DEF NoStaleTimer
  <2>4. WordsNamed'
    BY <2>l, <2>u, <2>t, <2>p, <2>a, <1>i, <1>y DEF WordsNamed
  <2>5. WordsAnnounce'
    BY <2>l, <2>u, <2>t, <2>p, <2>a, <1>i, <1>y DEF WordsAnnounce
  <2>6. GuestMutualExclusion'
    BY <2>l, <2>u, <2>t, <2>p, <2>a, <1>i, <1>y DEF GuestMutualExclusion, Owns
  <2>7. Granted'
    BY <2>l, <2>u, <2>t, <2>p, <2>a, <1>i, <1>y DEF Granted
  <2>8. Releasing'
    BY <2>l, <2>u, <2>t, <2>p, <2>a, <1>i, <1>y DEF Releasing
  <2>9. GoneUnnamed'
    BY <2>l, <2>u, <2>t, <2>p, <2>a, <1>i, <1>y DEF GoneUnnamed
  <2>10. NoDanglingOwner'
    BY <2>l, <2>u, <2>t, <2>p, <2>a, <1>i, <1>y DEF NoDanglingOwner
  <2>11. LoopsOK'
    BY <2>u, <2>l, <1>i DEF LoopsOK
  <2> QED
    BY <2>1, <2>2, <2>3, <2>4, <2>5, <2>6, <2>7, <2>8, <2>9, <2>10, <2>11 DEF CvInv
<1> QED
  BY <1>1, <1>2

(* A guest reads the mutex word after ArbitrateLock. *)
LEMMA GuestCheckKeeps ==
    ASSUME CvInv, NEW t \in Threads, GuestCheck(t) PROVE CvInv'
<1>i. TypeOK /\ WaitsInTree /\ NoStaleTimer /\ WordsNamed
      /\ WordsAnnounce /\ GuestMutualExclusion /\ Granted /\ Releasing
      /\ GoneUnnamed /\ NoDanglingOwner /\ LoopsOK
      /\ NoThread \notin Threads
  BY ThreadsAssumption DEF CvInv
<1>y. /\ mutex \in [Threads -> Keys] /\ addressKey \in [Threads -> Keys]
      /\ held \in [Threads -> SUBSET Keys] /\ pc \in [Threads -> Places]
      /\ lockOwner \in [Threads -> Threads \cup {NoThread}]
  BY <1>i DEF TypeOK, LockTypeOK, Places
<1>a. pc[t] = "check" /\ t \notin waiting /\ lockOwner[t] = NoThread /\ condvar[t] = NoKey
  BY <1>i DEF GuestCheck, WaitsInTree
<1>1. CASE tag[mutex[t]].owner = t
  <2>u. UNCHANGED <<lockVars, tag, flag, mutex, seen, condvar, cvBefore, waiting, timer,
                  waitResult, opened, handles, termReq, signalling, cancelling, crashed>>
    BY <1>1 DEF GuestCheck, guestVars, memVars, treeVars, waitVars, refVars, loopVars, cvVars,
       vars, lockVars
  <2>l. /\ LockTypeOK'
        /\ UNCHANGED <<base, prio, lockOwner, addressKey, before, numKernelWaiters, restoring>>
    BY <2>u, <1>i DEF TypeOK, LockTypeOK, lockVars
  <2>p. pc' = [pc EXCEPT ![t] = "run"] /\ held' = [held EXCEPT ![t] = @ \cup {mutex[t]}]
    BY <1>1 DEF GuestCheck, Goto
  <2>a. pc[t] = "check" /\ t \notin waiting /\ lockOwner[t] = NoThread /\ condvar[t] = NoKey
      /\ tag[mutex[t]].owner = t
    BY <1>a, <1>1
  <2>1. TypeOK'
    BY <2>l, <2>u, <2>p, <2>a, <1>i DEF TypeOK, Words
  <2>2. WaitsInTree'
    BY <2>l, <2>u, <2>p, <2>a, <1>i, <1>y DEF WaitsInTree
  <2>3. NoStaleTimer'
    BY <2>l, <2>u, <2>p, <2>a, <1>i, <1>y DEF NoStaleTimer
  <2>4. WordsNamed'
    BY <2>u, <2>l, <1>i DEF WordsNamed
  <2>5. WordsAnnounce'
    BY <2>u, <2>l, <1>i DEF WordsAnnounce
  <2>6. GuestMutualExclusion'
    BY <2>l, <2>u, <2>p, <2>a, <1>i, <1>y DEF GuestMutualExclusion, Owns
  <2>7. Granted'
    BY <2>l, <2>u, <2>p, <2>a, <1>i, <1>y DEF Granted
  <2>8. Releasing'
    BY <2>l, <2>u, <2>p, <2>a, <1>i, <1>y DEF Releasing
  <2>9. GoneUnnamed'
    BY <2>l, <2>u, <2>p, <2>a, <1>i, <1>y DEF GoneUnnamed
  <2>10. NoDanglingOwner'
    BY <2>l, <2>u, <2>p, <2>a, <1>i, <1>y DEF NoDanglingOwner
  <2>11. LoopsOK'
    BY <2>u, <2>l, <1>i DEF LoopsOK
  <2> QED
    BY <2>1, <2>2, <2>3, <2>4, <2>5, <2>6, <2>7, <2>8, <2>9, <2>10, <2>11 DEF CvInv
<1>2. CASE tag[mutex[t]].owner # t
  <2>u. UNCHANGED <<lockVars, tag, flag, mutex, seen, held, condvar, cvBefore, waiting,
                  timer, waitResult, opened, handles, termReq, signalling, cancelling,
                  crashed>>
    BY <1>2 DEF GuestCheck, guestVars, memVars, treeVars, waitVars, refVars, loopVars, cvVars,
       vars, lockVars
  <2>l. /\ LockTypeOK'
        /\ UNCHANGED <<base, prio, lockOwner, addressKey, before, numKernelWaiters, restoring>>
    BY <2>u, <1>i DEF TypeOK, LockTypeOK, lockVars
  <2>p. pc' = [pc EXCEPT ![t] = "lock"]
    BY <1>2 DEF GuestCheck, Goto
  <2>a. pc[t] = "check" /\ t \notin waiting /\ lockOwner[t] = NoThread /\ condvar[t] = NoKey
    BY <1>a
  <2>1. TypeOK'
    BY <2>l, <2>u, <2>p, <2>a, <1>i DEF TypeOK, Words
  <2>2. WaitsInTree'
    BY <2>l, <2>u, <2>p, <2>a, <1>i, <1>y DEF WaitsInTree
  <2>3. NoStaleTimer'
    BY <2>l, <2>u, <2>p, <2>a, <1>i, <1>y DEF NoStaleTimer
  <2>4. WordsNamed'
    BY <2>u, <2>l, <1>i DEF WordsNamed
  <2>5. WordsAnnounce'
    BY <2>u, <2>l, <1>i DEF WordsAnnounce
  <2>6. GuestMutualExclusion'
    BY <2>l, <2>u, <2>p, <2>a, <1>i, <1>y DEF GuestMutualExclusion, Owns
  <2>7. Granted'
    BY <2>l, <2>u, <2>p, <2>a, <1>i, <1>y DEF Granted
  <2>8. Releasing'
    BY <2>l, <2>u, <2>p, <2>a, <1>i, <1>y DEF Releasing
  <2>9. GoneUnnamed'
    BY <2>l, <2>u, <2>p, <2>a, <1>i, <1>y DEF GoneUnnamed
  <2>10. NoDanglingOwner'
    BY <2>l, <2>u, <2>p, <2>a, <1>i, <1>y DEF NoDanglingOwner
  <2>11. LoopsOK'
    BY <2>u, <2>l, <1>i DEF LoopsOK
  <2> QED
    BY <2>1, <2>2, <2>3, <2>4, <2>5, <2>6, <2>7, <2>8, <2>9, <2>10, <2>11 DEF CvInv
<1> QED
  BY <1>1, <1>2 DEF GuestCheck

(* A guest frees a mutex nobody waits for, or asks the kernel to. *)
LEMMA GuestUnlockKeeps ==
    ASSUME CvInv, NEW t \in Threads, NEW l \in Keys, GuestUnlock(t, l) PROVE CvInv'
<1>i. TypeOK /\ WaitsInTree /\ NoStaleTimer /\ WordsNamed
      /\ WordsAnnounce /\ GuestMutualExclusion /\ Granted /\ Releasing
      /\ GoneUnnamed /\ NoDanglingOwner /\ LoopsOK
      /\ NoThread \notin Threads
  BY ThreadsAssumption DEF CvInv
<1>y. /\ mutex \in [Threads -> Keys] /\ addressKey \in [Threads -> Keys]
      /\ held \in [Threads -> SUBSET Keys] /\ pc \in [Threads -> Places]
      /\ lockOwner \in [Threads -> Threads \cup {NoThread}]
  BY <1>i DEF TypeOK, LockTypeOK, Places
<1>a. pc[t] = "run" /\ t \notin waiting /\ lockOwner[t] = NoThread /\ condvar[t] = NoKey
  BY <1>i DEF GuestUnlock, WaitsInTree
<1>b. l \in held[t] /\ tag[l].owner = t
  BY <1>i DEF GuestUnlock, GuestMutualExclusion, Owns
<1>1. CASE tag[l] = Tag(t, FALSE)
  <2>u. UNCHANGED <<lockVars, flag, pc, mutex, seen, condvar, cvBefore, waiting, timer,
                  waitResult, opened, handles, termReq, signalling, cancelling, crashed>>
    BY <1>1 DEF GuestUnlock, guestVars, memVars, treeVars, waitVars, refVars, loopVars, cvVars,
       vars, lockVars
  <2>l. /\ LockTypeOK'
        /\ UNCHANGED <<base, prio, lockOwner, addressKey, before, numKernelWaiters, restoring>>
    BY <2>u, <1>i DEF TypeOK, LockTypeOK, lockVars
  <2>t. (tag' \in [Keys -> Words]) /\ tag'[l].owner = NoThread /\ tag'[l].wait = FALSE
      /\ (\A k \in Keys \ {l} : tag'[k] = tag[k])
    <3>1. Free = Tag(NoThread, FALSE)
      BY DEF Free, Tag
    <3>2. tag' = [tag EXCEPT ![l] = Free]
      BY <1>1 DEF GuestUnlock
    <3> QED
      BY <3>1, <3>2, <1>i, WordWritten
  <2>w. tag[l].wait = FALSE
    BY <1>1 DEF Tag
  <2>p. held' = [held EXCEPT ![t] = @ \ {l}]
    BY <1>1 DEF GuestUnlock, Goto
  <2>a. pc[t] = "run" /\ t \notin waiting /\ lockOwner[t] = NoThread /\ condvar[t] = NoKey
      /\ l \in held[t] /\ tag[l].owner = t
    BY <1>a, <1>b
  <2>1. TypeOK'
    BY <2>l, <2>u, <2>t, <2>w, <2>p, <2>a, <1>i DEF TypeOK, Words
  <2>2. WaitsInTree'
    BY <2>u, <2>l, <1>i DEF WaitsInTree
  <2>3. NoStaleTimer'
    BY <2>u, <2>l, <1>i DEF NoStaleTimer
  <2>4. WordsNamed'
    BY <2>l, <2>u, <2>t, <2>w, <2>p, <2>a, <1>i, <1>y DEF WordsNamed
  <2>5. WordsAnnounce'
    BY <2>l, <2>u, <2>t, <2>w, <2>p, <2>a, <1>i, <1>y DEF WordsAnnounce
  <2>6. GuestMutualExclusion'
    BY <2>l, <2>u, <2>t, <2>w, <2>p, <2>a, <1>i, <1>y DEF GuestMutualExclusion, Owns
  <2>7. Granted'
    BY <2>l, <2>u, <2>t, <2>w, <2>p, <2>a, <1>i, <1>y DEF Granted
  <2>8. Releasing'
    BY <2>l, <2>u, <2>t, <2>w, <2>p, <2>a, <1>i, <1>y DEF Releasing
  <2>9. GoneUnnamed'
    BY <2>u, <2>l, <1>i DEF GoneUnnamed
  <2>10. NoDanglingOwner'
    BY <2>u, <2>l, <1>i DEF NoDanglingOwner
  <2>11. LoopsOK'
    BY <2>u, <2>l, <1>i DEF LoopsOK
  <2> QED
    BY <2>1, <2>2, <2>3, <2>4, <2>5, <2>6, <2>7, <2>8, <2>9, <2>10, <2>11 DEF CvInv
<1>2. CASE tag[l] # Tag(t, FALSE)
  <2>u. UNCHANGED <<lockVars, tag, flag, seen, condvar, cvBefore, waiting, timer,
                  waitResult, opened, handles, termReq, signalling, cancelling, crashed>>
    BY <1>2 DEF GuestUnlock, guestVars, memVars, treeVars, waitVars, refVars, loopVars, cvVars,
       vars, lockVars
  <2>l. /\ LockTypeOK'
        /\ UNCHANGED <<base, prio, lockOwner, addressKey, before, numKernelWaiters, restoring>>
    BY <2>u, <1>i DEF TypeOK, LockTypeOK, lockVars
  <2>p. pc' = [pc EXCEPT ![t] = "unlock"] /\ mutex' = [mutex EXCEPT ![t] = l]
      /\ held' = [held EXCEPT ![t] = @ \ {l}]
    BY <1>2 DEF GuestUnlock, Goto
  <2>a. pc[t] = "run" /\ t \notin waiting /\ lockOwner[t] = NoThread /\ condvar[t] = NoKey
      /\ l \in held[t] /\ tag[l].owner = t
    BY <1>a, <1>b
  <2>1. TypeOK'
    BY <2>l, <2>u, <2>p, <2>a, <1>i DEF TypeOK, Words
  <2>2. WaitsInTree'
    BY <2>l, <2>u, <2>p, <2>a, <1>i, <1>y DEF WaitsInTree
  <2>3. NoStaleTimer'
    BY <2>l, <2>u, <2>p, <2>a, <1>i, <1>y DEF NoStaleTimer
  <2>4. WordsNamed'
    BY <2>u, <2>l, <1>i DEF WordsNamed
  <2>5. WordsAnnounce'
    BY <2>u, <2>l, <1>i DEF WordsAnnounce
  <2>6. GuestMutualExclusion'
    BY <2>l, <2>u, <2>p, <2>a, <1>i, <1>y DEF GuestMutualExclusion, Owns
  <2>7. Granted'
    BY <2>l, <2>u, <2>p, <2>a, <1>i, <1>y DEF Granted
  <2>8. Releasing'
    BY <2>l, <2>u, <2>p, <2>a, <1>i, <1>y DEF Releasing
  <2>9. GoneUnnamed'
    BY <2>l, <2>u, <2>p, <2>a, <1>i, <1>y DEF GoneUnnamed
  <2>10. NoDanglingOwner'
    BY <2>l, <2>u, <2>p, <2>a, <1>i, <1>y DEF NoDanglingOwner
  <2>11. LoopsOK'
    BY <2>u, <2>l, <1>i DEF LoopsOK
  <2> QED
    BY <2>1, <2>2, <2>3, <2>4, <2>5, <2>6, <2>7, <2>8, <2>9, <2>10, <2>11 DEF CvInv
<1> QED
  BY <1>1, <1>2

(* A thread exits. *)
LEMMA ExitKeeps ==
    ASSUME CvInv, NEW t \in Threads, Exit(t) PROVE CvInv'
<1>i. TypeOK /\ WaitsInTree /\ NoStaleTimer /\ WordsNamed
      /\ WordsAnnounce /\ GuestMutualExclusion /\ Granted /\ Releasing
      /\ GoneUnnamed /\ NoDanglingOwner /\ LoopsOK
      /\ NoThread \notin Threads
  BY ThreadsAssumption DEF CvInv
<1>y. /\ mutex \in [Threads -> Keys] /\ addressKey \in [Threads -> Keys]
      /\ held \in [Threads -> SUBSET Keys] /\ pc \in [Threads -> Places]
      /\ lockOwner \in [Threads -> Threads \cup {NoThread}]
  BY <1>i DEF TypeOK, LockTypeOK, Places
<1>u. UNCHANGED <<lockVars, tag, flag, mutex, seen, held, condvar, cvBefore, waiting, timer,
                waitResult, opened, handles, termReq, signalling, cancelling, crashed>>
  BY DEF Exit, guestVars, memVars, treeVars, waitVars, refVars, loopVars, cvVars, vars, lockVars
<1>l. /\ LockTypeOK'
      /\ UNCHANGED <<base, prio, lockOwner, addressKey, before, numKernelWaiters, restoring>>
  BY <1>u, <1>i DEF TypeOK, LockTypeOK, lockVars
<1>p. pc' = [pc EXCEPT ![t] = "exited"]
  BY DEF Exit, Goto
<1>a. pc[t] \notin {"addressWait", "cvWait"} /\ t \notin waiting /\ lockOwner[t] = NoThread
      /\ condvar[t] = NoKey
  BY <1>i DEF Exit, WaitsInTree
<1>1. TypeOK'
  BY <1>l, <1>u, <1>p, <1>a, <1>i DEF TypeOK, Words
<1>2. WaitsInTree'
  BY <1>l, <1>u, <1>p, <1>a, <1>i, <1>y DEF WaitsInTree
<1>3. NoStaleTimer'
  BY <1>l, <1>u, <1>p, <1>a, <1>i, <1>y DEF NoStaleTimer
<1>4. WordsNamed'
  BY <1>u, <1>l, <1>i DEF WordsNamed
<1>5. WordsAnnounce'
  BY <1>u, <1>l, <1>i DEF WordsAnnounce
<1>6. GuestMutualExclusion'
  BY <1>l, <1>u, <1>p, <1>a, <1>i, <1>y DEF GuestMutualExclusion, Owns
<1>7. Granted'
  BY <1>l, <1>u, <1>p, <1>a, <1>i, <1>y DEF Granted
<1>8. Releasing'
  BY <1>l, <1>u, <1>p, <1>a, <1>i, <1>y DEF Releasing
<1>9. GoneUnnamed'
  BY <1>l, <1>u, <1>p, <1>a, <1>i, <1>y DEF GoneUnnamed
<1>10. NoDanglingOwner'
  BY <1>l, <1>u, <1>p, <1>a, <1>i, <1>y DEF NoDanglingOwner
<1>11. LoopsOK'
  BY <1>u, <1>l, <1>i DEF LoopsOK
<1> QED
  BY <1>1, <1>2, <1>3, <1>4, <1>5, <1>6, <1>7, <1>8, <1>9, <1>10, <1>11 DEF CvInv


-----------------------------------------------------------------------------
(* So do the calls, up to where they wait, and the changes of priority. *)

(* ArbitrateLock: the thread waits in the owner's tree, or returns. *)
LEMMA WaitForAddressKeeps ==
    ASSUME CvInv, NEW t \in Threads, WaitForAddress(t) PROVE CvInv'
<1>i. TypeOK /\ WaitsInTree /\ NoStaleTimer /\ WordsNamed
      /\ WordsAnnounce /\ GuestMutualExclusion /\ Granted /\ Releasing
      /\ GoneUnnamed /\ NoDanglingOwner /\ LoopsOK
      /\ NoThread \notin Threads
  BY ThreadsAssumption DEF CvInv
<1>y. /\ mutex \in [Threads -> Keys] /\ addressKey \in [Threads -> Keys]
      /\ held \in [Threads -> SUBSET Keys] /\ pc \in [Threads -> Places]
      /\ lockOwner \in [Threads -> Threads \cup {NoThread}]
  BY <1>i DEF TypeOK, LockTypeOK, Places
<1>a. pc[t] = "arbitrate" /\ t \notin waiting /\ lockOwner[t] = NoThread /\ condvar[t] = NoKey
      /\ signalling = NoSignal /\ cancelling = NoThread /\ seen \in [Threads -> Threads \cup {NoThread}]
  BY <1>i DEF WaitForAddress, WaitsInTree, SchedulerUnlocked, TypeOK
<1>1. CASE ~ MustWait(t)
  <2>u. UNCHANGED <<lockVars, tag, flag, mutex, held, condvar, cvBefore, waiting, timer,
                  waitResult, opened, handles, termReq, signalling, cancelling, crashed>>
    BY <1>1 DEF WaitForAddress, guestVars, memVars, treeVars, waitVars, refVars, loopVars, cvVars,
       vars, lockVars
  <2>l. /\ LockTypeOK'
        /\ UNCHANGED <<base, prio, lockOwner, addressKey, before, numKernelWaiters, restoring>>
    BY <2>u, <1>i DEF TypeOK, LockTypeOK, lockVars
  <2>p. \E x \in {"exited", "check"} : pc' = [pc EXCEPT ![t] = x]
    BY <1>1 DEF WaitForAddress, ReturnTo, Goto
  <2>s. seen' = [seen EXCEPT ![t] = NoThread]
    BY DEF WaitForAddress
  <2>a. pc[t] = "arbitrate" /\ t \notin waiting /\ lockOwner[t] = NoThread /\ condvar[t] = NoKey
    BY <1>a
  <2>1. TypeOK'
    BY <2>l, <2>u, <2>p, <2>s, <2>a, <1>i DEF TypeOK, Words
  <2>2. WaitsInTree'
    BY <2>l, <2>u, <2>p, <2>s, <2>a, <1>i, <1>y DEF WaitsInTree
  <2>3. NoStaleTimer'
    BY <2>l, <2>u, <2>p, <2>s, <2>a, <1>i, <1>y DEF NoStaleTimer
  <2>4. WordsNamed'
    BY <2>u, <2>l, <1>i DEF WordsNamed
  <2>5. WordsAnnounce'
    BY <2>u, <2>l, <1>i DEF WordsAnnounce
  <2>6. GuestMutualExclusion'
    BY <2>l, <2>u, <2>p, <2>s, <2>a, <1>i, <1>y DEF GuestMutualExclusion, Owns
  <2>7. Granted'
    BY <2>l, <2>u, <2>p, <2>s, <2>a, <1>i, <1>y DEF Granted
  <2>8. Releasing'
    BY <2>l, <2>u, <2>p, <2>s, <2>a, <1>i, <1>y DEF Releasing
  <2>9. GoneUnnamed'
    BY <2>l, <2>u, <2>p, <2>s, <2>a, <1>i, <1>y DEF GoneUnnamed
  <2>10. NoDanglingOwner'
    BY <2>l, <2>u, <2>p, <2>s, <2>a, <1>i, <1>y DEF NoDanglingOwner
  <2>11. LoopsOK'
    BY <2>u, <2>l, <1>i DEF LoopsOK
  <2> QED
    BY <2>1, <2>2, <2>3, <2>4, <2>5, <2>6, <2>7, <2>8, <2>9, <2>10, <2>11 DEF CvInv
<1>2. CASE MustWait(t)
  <2>o. PICK o \in Threads : o = seen[t] /\ o \in handles /\ tag[mutex[t]] = Tag(o, TRUE)
    BY <1>2, <1>i DEF MustWait, TypeOK
  <2>w. tag[mutex[t]].owner = o /\ tag[mutex[t]].wait = TRUE
    BY <2>o DEF Tag
  <2>k. mutex[t] \in Keys /\ AddWaiter(o, t, mutex[t])
    BY <1>2, <1>y, <2>o DEF WaitForAddress
  <2>u. UNCHANGED <<tag, flag, mutex, held, condvar, cvBefore, timer, waitResult, handles,
                  termReq, signalling, cancelling, crashed>>
    BY <1>2 DEF WaitForAddress, guestVars, memVars, treeVars, waitVars, refVars, loopVars, cvVars,
       vars, lockVars
  <2>p. pc' = [pc EXCEPT ![t] = "addressWait"] /\ waiting' = waiting \cup {t}
      /\ seen' = [seen EXCEPT ![t] = NoThread] /\ opened' = [opened EXCEPT ![t] = o]
    BY <1>2, <2>o DEF WaitForAddress, Goto
  <2>e. LockTypeOK' /\ lockOwner'[t] = o /\ addressKey'[t] = mutex[t]
      /\ (\A u \in Threads \ {t} : lockOwner'[u] = lockOwner[u] /\ addressKey'[u] = addressKey[u])
    BY <2>k, <1>i, AddEffect DEF TypeOK
  <2>a. pc[t] = "arbitrate" /\ t \notin waiting /\ lockOwner[t] = NoThread /\ condvar[t] = NoKey
      /\ o \in Threads /\ signalling = NoSignal /\ cancelling = NoThread /\ mutex[t] \in Keys
    BY <1>a, <1>y
  <2>g. pc[o] # "gone" /\ tag[mutex[t]].owner = o /\ tag[mutex[t]].wait = TRUE
    BY <1>i, <2>o, <2>w DEF GoneUnnamed
  <2>1. TypeOK'
    BY <2>u, <2>p, <2>e, <2>a, <2>g, <1>i DEF TypeOK, Words
  <2>2. WaitsInTree'
    BY <2>u, <2>p, <2>e, <2>a, <2>g, <1>i, <1>y DEF WaitsInTree
  <2>3. NoStaleTimer'
    BY <2>u, <2>p, <2>e, <2>a, <2>g, <1>i, <1>y DEF NoStaleTimer
  <2>4. WordsNamed'
    BY <2>u, <1>i DEF WordsNamed
  <2>5. WordsAnnounce'
    BY <2>u, <2>p, <2>e, <2>a, <2>g, <1>i, <1>y DEF WordsAnnounce
  <2>6. GuestMutualExclusion'
    BY <2>u, <2>p, <2>e, <2>a, <2>g, <1>i, <1>y DEF GuestMutualExclusion, Owns
  <2>7. Granted'
    BY <2>u, <2>p, <2>e, <2>a, <2>g, <1>i, <1>y DEF Granted
  <2>8. Releasing'
    BY <2>u, <2>p, <2>e, <2>a, <2>g, <1>i, <1>y DEF Releasing
  <2>9. GoneUnnamed'
    BY <2>u, <2>p, <2>e, <2>a, <2>g, <1>i, <1>y DEF GoneUnnamed
  <2>10. NoDanglingOwner'
    BY <2>u, <2>p, <2>e, <2>a, <2>g, <1>i, <1>y DEF NoDanglingOwner
  <2>11. LoopsOK'
    BY <2>u, <2>p, <2>e, <2>a, <2>g, <1>i, <1>y DEF LoopsOK
  <2> QED
    BY <2>1, <2>2, <2>3, <2>4, <2>5, <2>6, <2>7, <2>8, <2>9, <2>10, <2>11 DEF CvInv
<1> QED
  BY <1>1, <1>2

(* ArbitrateLock returns after the wait. *)
LEMMA WaitForAddressReturnsKeeps ==
    ASSUME CvInv, NEW t \in Threads, WaitForAddressReturns(t) PROVE CvInv'
<1>i. TypeOK /\ WaitsInTree /\ NoStaleTimer /\ WordsNamed
      /\ WordsAnnounce /\ GuestMutualExclusion /\ Granted /\ Releasing
      /\ GoneUnnamed /\ NoDanglingOwner /\ LoopsOK
      /\ NoThread \notin Threads
  BY ThreadsAssumption DEF CvInv
<1>y. /\ mutex \in [Threads -> Keys] /\ addressKey \in [Threads -> Keys]
      /\ held \in [Threads -> SUBSET Keys] /\ pc \in [Threads -> Places]
      /\ lockOwner \in [Threads -> Threads \cup {NoThread}]
  BY <1>i DEF TypeOK, LockTypeOK, Places
<1>u. UNCHANGED <<lockVars, tag, flag, mutex, seen, held, condvar, cvBefore, waiting, timer,
                waitResult, handles, termReq, signalling, cancelling, crashed>>
  BY DEF WaitForAddressReturns, guestVars, memVars, treeVars, waitVars, refVars, loopVars, cvVars,
     vars, lockVars
<1>l. /\ LockTypeOK'
      /\ UNCHANGED <<base, prio, lockOwner, addressKey, before, numKernelWaiters, restoring>>
  BY <1>u, <1>i DEF TypeOK, LockTypeOK, lockVars
<1>p. \E x \in {"exited", "check"} : pc' = [pc EXCEPT ![t] = x]
  BY DEF WaitForAddressReturns, ReturnTo, Goto
<1>s. opened' = [opened EXCEPT ![t] = NoThread]
  BY DEF WaitForAddressReturns
<1>a. pc[t] = "addressWait" /\ t \notin waiting /\ lockOwner[t] = NoThread /\ condvar[t] = NoKey
  BY <1>i DEF WaitForAddressReturns, WaitsInTree
<1>1. TypeOK'
  BY <1>l, <1>u, <1>p, <1>s, <1>a, <1>i DEF TypeOK, Words
<1>2. WaitsInTree'
  BY <1>l, <1>u, <1>p, <1>s, <1>a, <1>i, <1>y DEF WaitsInTree
<1>3. NoStaleTimer'
  BY <1>l, <1>u, <1>p, <1>s, <1>a, <1>i, <1>y DEF NoStaleTimer
<1>4. WordsNamed'
  BY <1>u, <1>l, <1>i DEF WordsNamed
<1>5. WordsAnnounce'
  BY <1>u, <1>l, <1>i DEF WordsAnnounce
<1>6. GuestMutualExclusion'
  BY <1>l, <1>u, <1>p, <1>s, <1>a, <1>i, <1>y DEF GuestMutualExclusion, Owns
<1>7. Granted'
  BY <1>l, <1>u, <1>p, <1>s, <1>a, <1>i, <1>y DEF Granted
<1>8. Releasing'
  BY <1>l, <1>u, <1>p, <1>s, <1>a, <1>i, <1>y DEF Releasing
<1>9. GoneUnnamed'
  BY <1>l, <1>u, <1>p, <1>s, <1>a, <1>i, <1>y DEF GoneUnnamed
<1>10. NoDanglingOwner'
  BY <1>l, <1>u, <1>p, <1>s, <1>a, <1>i, <1>y DEF NoDanglingOwner
<1>11. LoopsOK'
  BY <1>u, <1>l, <1>i DEF LoopsOK
<1> QED
  BY <1>1, <1>2, <1>3, <1>4, <1>5, <1>6, <1>7, <1>8, <1>9, <1>10, <1>11 DEF CvInv

(* Wait returns: with the mutex after a success, else without it. *)
LEMMA WaitReturnsKeeps ==
    ASSUME CvInv, NEW t \in Threads, WaitReturns(t) PROVE CvInv'
<1>i. TypeOK /\ WaitsInTree /\ NoStaleTimer /\ WordsNamed
      /\ WordsAnnounce /\ GuestMutualExclusion /\ Granted /\ Releasing
      /\ GoneUnnamed /\ NoDanglingOwner /\ LoopsOK
      /\ NoThread \notin Threads
  BY ThreadsAssumption DEF CvInv
<1>y. /\ mutex \in [Threads -> Keys] /\ addressKey \in [Threads -> Keys]
      /\ held \in [Threads -> SUBSET Keys] /\ pc \in [Threads -> Places]
      /\ lockOwner \in [Threads -> Threads \cup {NoThread}]
  BY <1>i DEF TypeOK, LockTypeOK, Places
<1>a. pc[t] = "cvWait" /\ t \notin waiting /\ lockOwner[t] = NoThread /\ condvar[t] = NoKey
  BY <1>i DEF WaitReturns, WaitsInTree
<1>p. \E x \in {"exited", "lock", "run"} : pc' = [pc EXCEPT ![t] = x]
  BY DEF WaitReturns, ReturnTo, Goto
<1>1. CASE waitResult[t] = "Success"
  <2>u. UNCHANGED <<lockVars, tag, flag, mutex, seen, condvar, cvBefore, waiting, timer,
                  waitResult, opened, handles, termReq, signalling, cancelling, crashed>>
    BY <1>1 DEF WaitReturns, guestVars, memVars, treeVars, waitVars, refVars, loopVars, cvVars,
       vars, lockVars
  <2>l. /\ LockTypeOK'
        /\ UNCHANGED <<base, prio, lockOwner, addressKey, before, numKernelWaiters, restoring>>
    BY <2>u, <1>i DEF TypeOK, LockTypeOK, lockVars
  <2>p. \E x \in {"exited", "lock", "run"} : pc' = [pc EXCEPT ![t] = x]
    BY <1>p
  <2>s. held' = [held EXCEPT ![t] = @ \cup {mutex[t]}]
    BY <1>1 DEF WaitReturns
  <2>a. pc[t] = "cvWait" /\ t \notin waiting /\ lockOwner[t] = NoThread /\ condvar[t] = NoKey
      /\ tag[mutex[t]].owner = t
    BY <1>a, <1>1, <1>i DEF Granted
  <2>1. TypeOK'
    BY <2>l, <2>u, <2>p, <2>s, <2>a, <1>i DEF TypeOK, Words
  <2>2. WaitsInTree'
    BY <2>l, <2>u, <2>p, <2>s, <2>a, <1>i, <1>y DEF WaitsInTree
  <2>3. NoStaleTimer'
    BY <2>l, <2>u, <2>p, <2>s, <2>a, <1>i, <1>y DEF NoStaleTimer
  <2>4. WordsNamed'
    BY <2>u, <2>l, <1>i DEF WordsNamed
  <2>5. WordsAnnounce'
    BY <2>u, <2>l, <1>i DEF WordsAnnounce
  <2>6. GuestMutualExclusion'
    BY <2>l, <2>u, <2>p, <2>s, <2>a, <1>i, <1>y DEF GuestMutualExclusion, Owns
  <2>7. Granted'
    BY <2>l, <2>u, <2>p, <2>s, <2>a, <1>i, <1>y DEF Granted
  <2>8. Releasing'
    BY <2>l, <2>u, <2>p, <2>s, <2>a, <1>i, <1>y DEF Releasing
  <2>9. GoneUnnamed'
    BY <2>l, <2>u, <2>p, <2>s, <2>a, <1>i, <1>y DEF GoneUnnamed
  <2>10. NoDanglingOwner'
    BY <2>l, <2>u, <2>p, <2>s, <2>a, <1>i, <1>y DEF NoDanglingOwner
  <2>11. LoopsOK'
    BY <2>u, <2>l, <1>i DEF LoopsOK
  <2> QED
    BY <2>1, <2>2, <2>3, <2>4, <2>5, <2>6, <2>7, <2>8, <2>9, <2>10, <2>11 DEF CvInv
<1>2. CASE waitResult[t] # "Success"
  <2>u. UNCHANGED <<lockVars, tag, flag, mutex, seen, condvar, cvBefore, waiting, timer,
                  waitResult, opened, handles, termReq, signalling, cancelling, crashed>>
    BY <1>2 DEF WaitReturns, guestVars, memVars, treeVars, waitVars, refVars, loopVars, cvVars,
       vars, lockVars
  <2>l. /\ LockTypeOK'
        /\ UNCHANGED <<base, prio, lockOwner, addressKey, before, numKernelWaiters, restoring>>
    BY <2>u, <1>i DEF TypeOK, LockTypeOK, lockVars
  <2>p. \E x \in {"exited", "lock", "run"} : pc' = [pc EXCEPT ![t] = x]
    BY <1>p
  <2>s. held' = held
    BY <1>2, <1>y DEF WaitReturns
  <2>a. pc[t] = "cvWait" /\ t \notin waiting /\ lockOwner[t] = NoThread /\ condvar[t] = NoKey
    BY <1>a
  <2>1. TypeOK'
    BY <2>l, <2>u, <2>p, <2>s, <2>a, <1>i DEF TypeOK, Words
  <2>2. WaitsInTree'
    BY <2>l, <2>u, <2>p, <2>s, <2>a, <1>i, <1>y DEF WaitsInTree
  <2>3. NoStaleTimer'
    BY <2>l, <2>u, <2>p, <2>s, <2>a, <1>i, <1>y DEF NoStaleTimer
  <2>4. WordsNamed'
    BY <2>u, <2>l, <1>i DEF WordsNamed
  <2>5. WordsAnnounce'
    BY <2>u, <2>l, <1>i DEF WordsAnnounce
  <2>6. GuestMutualExclusion'
    BY <2>l, <2>u, <2>p, <2>s, <2>a, <1>i, <1>y DEF GuestMutualExclusion, Owns
  <2>7. Granted'
    BY <2>l, <2>u, <2>p, <2>s, <2>a, <1>i, <1>y DEF Granted
  <2>8. Releasing'
    BY <2>l, <2>u, <2>p, <2>s, <2>a, <1>i, <1>y DEF Releasing
  <2>9. GoneUnnamed'
    BY <2>l, <2>u, <2>p, <2>s, <2>a, <1>i, <1>y DEF GoneUnnamed
  <2>10. NoDanglingOwner'
    BY <2>l, <2>u, <2>p, <2>s, <2>a, <1>i, <1>y DEF NoDanglingOwner
  <2>11. LoopsOK'
    BY <2>u, <2>l, <1>i DEF LoopsOK
  <2> QED
    BY <2>1, <2>2, <2>3, <2>4, <2>5, <2>6, <2>7, <2>8, <2>9, <2>10, <2>11 DEF CvInv
<1> QED
  BY <1>1, <1>2

(* Signal puts its iterator on the first waiter of the key. *)
LEMMA SignalKeeps ==
    ASSUME CvInv, NEW t \in Threads, NEW c \in CvKeys, NEW count \in {0, 1}, Signal(t, c, count) PROVE CvInv'
<1>i. TypeOK /\ WaitsInTree /\ NoStaleTimer /\ WordsNamed
      /\ WordsAnnounce /\ GuestMutualExclusion /\ Granted /\ Releasing
      /\ GoneUnnamed /\ NoDanglingOwner /\ LoopsOK
      /\ NoThread \notin Threads
  BY ThreadsAssumption DEF CvInv
<1>y. /\ mutex \in [Threads -> Keys] /\ addressKey \in [Threads -> Keys]
      /\ held \in [Threads -> SUBSET Keys] /\ pc \in [Threads -> Places]
      /\ lockOwner \in [Threads -> Threads \cup {NoThread}]
  BY <1>i DEF TypeOK, LockTypeOK, Places
<1>n. PICK n : n = (IF count <= 0 THEN Cardinality(Threads) ELSE count)
  OBVIOUS
<1>m. n \in 0 .. Cardinality(Threads)
  <2>1. Cardinality(Threads) \in Nat /\ Cardinality(Threads) # 0
    BY ThreadsAssumption, FS_CardinalityType, FS_EmptySet
  <2> QED
    BY <1>n, <2>1
<1>q. PICK i \in Threads \cup {NoThread} :
         IsFirstOf(i, CvWaiters(c)) /\ signalling' = [key |-> c, it |-> i, left |-> n]
  BY <1>n DEF Signal
<1>u. UNCHANGED <<lockVars, tag, flag, pc, mutex, seen, held, condvar, cvBefore, waiting,
                timer, waitResult, opened, handles, termReq, cancelling, crashed>>
  BY DEF Signal, guestVars, memVars, treeVars, waitVars, refVars, loopVars, cvVars, vars, lockVars
<1>l. /\ LockTypeOK'
      /\ UNCHANGED <<base, prio, lockOwner, addressKey, before, numKernelWaiters, restoring>>
  BY <1>u, <1>i DEF TypeOK, LockTypeOK, lockVars
<1>s. signalling' \in [key : CvKeys \cup {NoKey}, left : 0 .. Cardinality(Threads), it : Threads \cup {NoThread}]
      /\ signalling'.key = c /\ signalling'.it = i
  BY <1>q, <1>m
<1>a. (i # NoThread => condvar[i] = c) /\ cancelling = NoThread /\ c # NoKey
  BY <1>q, CvAssumption DEF IsFirstOf, CvWaiters, Signal, SchedulerUnlocked
<1>1. TypeOK'
  BY <1>l, <1>u, <1>s, <1>a, <1>i DEF TypeOK, Words
<1>2. WaitsInTree'
  BY <1>u, <1>l, <1>i DEF WaitsInTree
<1>3. NoStaleTimer'
  BY <1>u, <1>l, <1>i DEF NoStaleTimer
<1>4. WordsNamed'
  BY <1>u, <1>l, <1>i DEF WordsNamed
<1>5. WordsAnnounce'
  BY <1>u, <1>l, <1>i DEF WordsAnnounce
<1>6. GuestMutualExclusion'
  BY <1>u, <1>l, <1>i DEF GuestMutualExclusion, Owns
<1>7. Granted'
  BY <1>u, <1>l, <1>i DEF Granted
<1>8. Releasing'
  BY <1>u, <1>l, <1>i DEF Releasing
<1>9. GoneUnnamed'
  BY <1>u, <1>l, <1>i DEF GoneUnnamed
<1>10. NoDanglingOwner'
  BY <1>u, <1>l, <1>i DEF NoDanglingOwner
<1>11. LoopsOK'
  BY <1>l, <1>u, <1>s, <1>a, <1>i, <1>y DEF LoopsOK
<1> QED
  BY <1>1, <1>2, <1>3, <1>4, <1>5, <1>6, <1>7, <1>8, <1>9, <1>10, <1>11 DEF CvInv

(* Signal ends. *)
LEMMA SignalReturnsKeeps ==
    ASSUME CvInv, SignalReturns PROVE CvInv'
<1>i. TypeOK /\ WaitsInTree /\ NoStaleTimer /\ WordsNamed
      /\ WordsAnnounce /\ GuestMutualExclusion /\ Granted /\ Releasing
      /\ GoneUnnamed /\ NoDanglingOwner /\ LoopsOK
      /\ NoThread \notin Threads
  BY ThreadsAssumption DEF CvInv
<1>y. /\ mutex \in [Threads -> Keys] /\ addressKey \in [Threads -> Keys]
      /\ held \in [Threads -> SUBSET Keys] /\ pc \in [Threads -> Places]
      /\ lockOwner \in [Threads -> Threads \cup {NoThread}]
  BY <1>i DEF TypeOK, LockTypeOK, Places
<1>u. UNCHANGED <<lockVars, tag, pc, mutex, seen, held, condvar, cvBefore, waiting, timer,
                waitResult, opened, handles, termReq, cancelling, crashed>>
  BY DEF SignalReturns, guestVars, memVars, treeVars, waitVars, refVars, loopVars, cvVars, vars,
     lockVars
<1>l. /\ LockTypeOK'
      /\ UNCHANGED <<base, prio, lockOwner, addressKey, before, numKernelWaiters, restoring>>
  BY <1>u, <1>i DEF TypeOK, LockTypeOK, lockVars
<1>s. signalling' = NoSignal /\ NoSignal.it = NoThread
      /\ NoSignal \in [key : CvKeys \cup {NoKey}, left : 0 .. Cardinality(Threads), it : Threads \cup {NoThread}]
  <2>1. Cardinality(Threads) \in Nat
    BY ThreadsAssumption, FS_CardinalityType
  <2> QED
    BY <2>1 DEF SignalReturns, NoSignal
<1>f. flag' \in [CvKeys -> BOOLEAN]
  BY <1>i DEF SignalReturns, TypeOK
<1>1. TypeOK'
  BY <1>l, <1>u, <1>s, <1>f, <1>i DEF TypeOK, Words
<1>2. WaitsInTree'
  BY <1>u, <1>l, <1>i DEF WaitsInTree
<1>3. NoStaleTimer'
  BY <1>u, <1>l, <1>i DEF NoStaleTimer
<1>4. WordsNamed'
  BY <1>u, <1>l, <1>i DEF WordsNamed
<1>5. WordsAnnounce'
  BY <1>u, <1>l, <1>i DEF WordsAnnounce
<1>6. GuestMutualExclusion'
  BY <1>u, <1>l, <1>i DEF GuestMutualExclusion, Owns
<1>7. Granted'
  BY <1>u, <1>l, <1>i DEF Granted
<1>8. Releasing'
  BY <1>u, <1>l, <1>i DEF Releasing
<1>9. GoneUnnamed'
  BY <1>u, <1>l, <1>i DEF GoneUnnamed
<1>10. NoDanglingOwner'
  BY <1>u, <1>l, <1>i DEF NoDanglingOwner
<1>11. LoopsOK'
  BY <1>l, <1>u, <1>s, <1>f, <1>i, <1>y DEF LoopsOK
<1> QED
  BY <1>1, <1>2, <1>3, <1>4, <1>5, <1>6, <1>7, <1>8, <1>9, <1>10, <1>11 DEF CvInv

(* A thread is asked to terminate. *)
LEMMA RequestTerminateKeeps ==
    ASSUME CvInv, NEW t \in Threads, RequestTerminate(t) PROVE CvInv'
<1>i. TypeOK /\ WaitsInTree /\ NoStaleTimer /\ WordsNamed
      /\ WordsAnnounce /\ GuestMutualExclusion /\ Granted /\ Releasing
      /\ GoneUnnamed /\ NoDanglingOwner /\ LoopsOK
      /\ NoThread \notin Threads
  BY ThreadsAssumption DEF CvInv
<1>y. /\ mutex \in [Threads -> Keys] /\ addressKey \in [Threads -> Keys]
      /\ held \in [Threads -> SUBSET Keys] /\ pc \in [Threads -> Places]
      /\ lockOwner \in [Threads -> Threads \cup {NoThread}]
  BY <1>i DEF TypeOK, LockTypeOK, Places
<1>u. UNCHANGED <<tag, flag, pc, mutex, seen, held, condvar, cvBefore, waiting, timer,
                waitResult, opened, handles, signalling, crashed>>
  BY DEF RequestTerminate, guestVars, memVars, treeVars, waitVars, refVars, loopVars, cvVars,
     vars, lockVars
<1>e. LockTypeOK' /\ UNCHANGED <<lockOwner, addressKey>>
  <2>1. CASE base[t] > TerminatingThreadPriority
    BY <2>1, <1>i, CallersAssumption, PriorityEffect DEF RequestTerminate, TypeOK
  <2>2. CASE ~ (base[t] > TerminatingThreadPriority)
    BY <2>2, <1>i DEF RequestTerminate, TypeOK, LockTypeOK, lockVars
  <2> QED
    BY <2>1, <2>2
<1>c. termReq' \in [Threads -> BOOLEAN] /\ (cancelling' = NoThread \/ (cancelling' = t /\ t \in waiting))
      /\ signalling = NoSignal
  BY <1>i DEF RequestTerminate, TypeOK, SchedulerUnlocked
<1>1. TypeOK'
  BY <1>u, <1>e, <1>c, <1>i DEF TypeOK, Words
<1>2. WaitsInTree'
  BY <1>u, <1>e, <1>c, <1>i DEF WaitsInTree
<1>3. NoStaleTimer'
  BY <1>u, <1>i DEF NoStaleTimer
<1>4. WordsNamed'
  BY <1>u, <1>i DEF WordsNamed
<1>5. WordsAnnounce'
  BY <1>u, <1>e, <1>c, <1>i DEF WordsAnnounce
<1>6. GuestMutualExclusion'
  BY <1>u, <1>i DEF GuestMutualExclusion, Owns
<1>7. Granted'
  BY <1>u, <1>i DEF Granted
<1>8. Releasing'
  BY <1>u, <1>i DEF Releasing
<1>9. GoneUnnamed'
  BY <1>u, <1>i DEF GoneUnnamed
<1>10. NoDanglingOwner'
  BY <1>u, <1>e, <1>c, <1>i DEF NoDanglingOwner
<1>11. LoopsOK'
  BY <1>u, <1>e, <1>c, <1>i, <1>y DEF LoopsOK
<1> QED
  BY <1>1, <1>2, <1>3, <1>4, <1>5, <1>6, <1>7, <1>8, <1>9, <1>10, <1>11 DEF CvInv

(* A base priority is set. *)
LEMMA ChangePriorityKeeps ==
    ASSUME CvInv, NEW t \in Threads, NEW p \in Priorities, ChangePriority(t, p) PROVE CvInv'
<1>i. TypeOK /\ WaitsInTree /\ NoStaleTimer /\ WordsNamed
      /\ WordsAnnounce /\ GuestMutualExclusion /\ Granted /\ Releasing
      /\ GoneUnnamed /\ NoDanglingOwner /\ LoopsOK
      /\ NoThread \notin Threads
  BY ThreadsAssumption DEF CvInv
<1>y. /\ mutex \in [Threads -> Keys] /\ addressKey \in [Threads -> Keys]
      /\ held \in [Threads -> SUBSET Keys] /\ pc \in [Threads -> Places]
      /\ lockOwner \in [Threads -> Threads \cup {NoThread}]
  BY <1>i DEF TypeOK, LockTypeOK, Places
<1>u. UNCHANGED <<tag, flag, pc, mutex, seen, held, condvar, cvBefore, waiting, timer,
                waitResult, opened, handles, termReq, signalling, cancelling, crashed>>
  BY DEF ChangePriority, guestVars, memVars, treeVars, waitVars, refVars, loopVars, cvVars, vars,
     lockVars
<1>e. LockTypeOK' /\ UNCHANGED <<lockOwner, addressKey>>
  BY <1>i, PriorityEffect DEF ChangePriority, TypeOK
<1>1. TypeOK'
  BY <1>u, <1>e, <1>i DEF TypeOK, Words
<1>2. WaitsInTree'
  BY <1>u, <1>e, <1>i DEF WaitsInTree
<1>3. NoStaleTimer'
  BY <1>u, <1>i DEF NoStaleTimer
<1>4. WordsNamed'
  BY <1>u, <1>i DEF WordsNamed
<1>5. WordsAnnounce'
  BY <1>u, <1>e, <1>i DEF WordsAnnounce
<1>6. GuestMutualExclusion'
  BY <1>u, <1>i DEF GuestMutualExclusion, Owns
<1>7. Granted'
  BY <1>u, <1>i DEF Granted
<1>8. Releasing'
  BY <1>u, <1>i DEF Releasing
<1>9. GoneUnnamed'
  BY <1>u, <1>i DEF GoneUnnamed
<1>10. NoDanglingOwner'
  BY <1>u, <1>e, <1>i DEF NoDanglingOwner
<1>11. LoopsOK'
  BY <1>u, <1>i DEF LoopsOK
<1> QED
  BY <1>1, <1>2, <1>3, <1>4, <1>5, <1>6, <1>7, <1>8, <1>9, <1>10, <1>11 DEF CvInv

(* RestorePriority moves on. *)
LEMMA RestoreKeeps ==
    ASSUME CvInv, Restore PROVE CvInv'
<1>i. TypeOK /\ WaitsInTree /\ NoStaleTimer /\ WordsNamed
      /\ WordsAnnounce /\ GuestMutualExclusion /\ Granted /\ Releasing
      /\ GoneUnnamed /\ NoDanglingOwner /\ LoopsOK
      /\ NoThread \notin Threads
  BY ThreadsAssumption DEF CvInv
<1>y. /\ mutex \in [Threads -> Keys] /\ addressKey \in [Threads -> Keys]
      /\ held \in [Threads -> SUBSET Keys] /\ pc \in [Threads -> Places]
      /\ lockOwner \in [Threads -> Threads \cup {NoThread}]
  BY <1>i DEF TypeOK, LockTypeOK, Places
<1>u. UNCHANGED <<tag, flag, pc, mutex, seen, held, condvar, waiting, timer, waitResult,
                opened, handles, termReq, signalling, cancelling, crashed>>
  BY DEF Restore, guestVars, memVars, treeVars, waitVars, refVars, loopVars, cvVars, vars,
     lockVars
<1>e. LockTypeOK' /\ UNCHANGED <<lockOwner, addressKey>>
  BY <1>i, PriorityEffect DEF Restore, TypeOK
<1>c. cvBefore' \in SUBSET (Threads \X Threads)
  <2>1. restoring \in Threads
    BY <1>i DEF Restore, RestoreStep, TypeOK, LockTypeOK
  <2> QED
    BY <1>i, <2>1 DEF Restore, TypeOK, InsertedAfter, Without, CvWaiters
<1>1. TypeOK'
  BY <1>u, <1>e, <1>c, <1>i DEF TypeOK, Words
<1>2. WaitsInTree'
  BY <1>u, <1>e, <1>c, <1>i DEF WaitsInTree
<1>3. NoStaleTimer'
  BY <1>u, <1>i DEF NoStaleTimer
<1>4. WordsNamed'
  BY <1>u, <1>i DEF WordsNamed
<1>5. WordsAnnounce'
  BY <1>u, <1>e, <1>c, <1>i DEF WordsAnnounce
<1>6. GuestMutualExclusion'
  BY <1>u, <1>i DEF GuestMutualExclusion, Owns
<1>7. Granted'
  BY <1>u, <1>i DEF Granted
<1>8. Releasing'
  BY <1>u, <1>i DEF Releasing
<1>9. GoneUnnamed'
  BY <1>u, <1>i DEF GoneUnnamed
<1>10. NoDanglingOwner'
  BY <1>u, <1>e, <1>c, <1>i DEF NoDanglingOwner
<1>11. LoopsOK'
  BY <1>u, <1>i DEF LoopsOK
<1> QED
  BY <1>1, <1>2, <1>3, <1>4, <1>5, <1>6, <1>7, <1>8, <1>9, <1>10, <1>11 DEF CvInv

(* The handle of an exited thread is closed. *)
LEMMA CloseHandleKeeps ==
    ASSUME CvInv, NEW t \in Threads, CloseHandle(t) PROVE CvInv'
<1>i. TypeOK /\ WaitsInTree /\ NoStaleTimer /\ WordsNamed
      /\ WordsAnnounce /\ GuestMutualExclusion /\ Granted /\ Releasing
      /\ GoneUnnamed /\ NoDanglingOwner /\ LoopsOK
      /\ NoThread \notin Threads
  BY ThreadsAssumption DEF CvInv
<1>y. /\ mutex \in [Threads -> Keys] /\ addressKey \in [Threads -> Keys]
      /\ held \in [Threads -> SUBSET Keys] /\ pc \in [Threads -> Places]
      /\ lockOwner \in [Threads -> Threads \cup {NoThread}]
  BY <1>i DEF TypeOK, LockTypeOK, Places
<1>u. UNCHANGED <<lockVars, tag, flag, pc, mutex, seen, held, condvar, cvBefore, waiting,
                timer, waitResult, opened, termReq, signalling, cancelling, crashed>>
  BY DEF CloseHandle, guestVars, memVars, treeVars, waitVars, refVars, loopVars, cvVars, vars,
     lockVars
<1>l. /\ LockTypeOK'
      /\ UNCHANGED <<base, prio, lockOwner, addressKey, before, numKernelWaiters, restoring>>
  BY <1>u, <1>i DEF TypeOK, LockTypeOK, lockVars
<1>h. handles' = handles \ {t}
  BY DEF CloseHandle
<1>1. TypeOK'
  BY <1>l, <1>u, <1>h, <1>i DEF TypeOK, Words
<1>2. WaitsInTree'
  BY <1>u, <1>l, <1>i DEF WaitsInTree
<1>3. NoStaleTimer'
  BY <1>u, <1>l, <1>i DEF NoStaleTimer
<1>4. WordsNamed'
  BY <1>u, <1>l, <1>i DEF WordsNamed
<1>5. WordsAnnounce'
  BY <1>u, <1>l, <1>i DEF WordsAnnounce
<1>6. GuestMutualExclusion'
  BY <1>u, <1>l, <1>i DEF GuestMutualExclusion, Owns
<1>7. Granted'
  BY <1>u, <1>l, <1>i DEF Granted
<1>8. Releasing'
  BY <1>u, <1>l, <1>i DEF Releasing
<1>9. GoneUnnamed'
  BY <1>l, <1>u, <1>h, <1>i, <1>y DEF GoneUnnamed
<1>10. NoDanglingOwner'
  BY <1>u, <1>l, <1>i DEF NoDanglingOwner
<1>11. LoopsOK'
  BY <1>u, <1>l, <1>i DEF LoopsOK
<1> QED
  BY <1>1, <1>2, <1>3, <1>4, <1>5, <1>6, <1>7, <1>8, <1>9, <1>10, <1>11 DEF CvInv


-----------------------------------------------------------------------------
(* And the calls that hand a mutex over. *)

(* ArbitrateUnlock: the mutex goes to its first waiter. *)
LEMMA SignalToAddressKeeps ==
    ASSUME CvInv, NEW t \in Threads, SignalToAddress(t) PROVE CvInv'
<1>i. TypeOK /\ WaitsInTree /\ NoStaleTimer /\ WordsNamed
      /\ WordsAnnounce /\ GuestMutualExclusion /\ Granted /\ Releasing
      /\ GoneUnnamed /\ NoDanglingOwner /\ LoopsOK
      /\ NoThread \notin Threads
  BY ThreadsAssumption DEF CvInv
<1>y. /\ mutex \in [Threads -> Keys] /\ addressKey \in [Threads -> Keys]
      /\ held \in [Threads -> SUBSET Keys] /\ pc \in [Threads -> Places]
      /\ lockOwner \in [Threads -> Threads \cup {NoThread}]
  BY <1>i DEF TypeOK, LockTypeOK, Places, HandedOver
<1>a. pc[t] = "unlock" /\ mutex[t] \in Keys /\ mutex[t] \notin held[t] /\ tag[mutex[t]].owner = t
      /\ t \notin waiting /\ lockOwner[t] = NoThread /\ condvar[t] = NoKey
      /\ signalling = NoSignal /\ cancelling = NoThread
  BY <1>i, <1>y DEF SignalToAddress, SchedulerUnlocked, WaitsInTree, Releasing,
                    GuestMutualExclusion, Owns
<1>w. PICK w \in Threads \cup {NoThread} :
         HandOver(t, mutex[t], w) /\ EndWait({w} \cap Threads, "Success")
  BY DEF SignalToAddress
<1>l. PICK l \in Keys : l = mutex[t]
  BY <1>a
<1>u. UNCHANGED <<flag, mutex, seen, held, condvar, cvBefore, opened, handles, termReq,
                signalling, cancelling, crashed>>
  BY DEF SignalToAddress, EndWait, guestVars, memVars, treeVars, waitVars, refVars, loopVars,
     cvVars, vars, lockVars
<1>p. \E x \in {"exited", "run"} : pc' = [pc EXCEPT ![t] = x]
  BY DEF SignalToAddress, ReturnTo, Goto
<1>e. HandedOver(t, l, w)
  BY ONLY <1>w, <1>l, <1>a, <1>i, HandOverEffect
<1>b. w \in Threads => w # t /\ w \in waiting /\ mutex[w] = l /\ pc[w] \in {"addressWait", "cvWait"}
                            /\ condvar[w] = NoKey
  BY <1>e, <1>a, <1>i DEF WaitsInTree, HandedOver, HandedOver
<1>c. waiting' = waiting \ {w} /\ timer' = timer \ {w} /\ (w \in Threads => waitResult'[w] = "Success")
      /\ (\A u \in Threads \ {w} : waitResult'[u] = waitResult[u])
      /\ waitResult' \in [Threads -> Results]
  BY <1>w, <1>i DEF EndWait, TypeOK, Results
<1>d. w \in Threads \cup {NoThread} /\ l \in Keys /\ l = mutex[t]
  BY <1>w, <1>l
<1>1. TypeOK'
  BY <1>u, <1>p, <1>e, <1>b, <1>c, <1>d, <1>a, <1>i DEF TypeOK, Words, Results, HandedOver
<1>2. WaitsInTree'
  BY <1>u, <1>p, <1>e, <1>b, <1>c, <1>d, <1>a, <1>i, <1>y DEF WaitsInTree, HandedOver
<1>3. NoStaleTimer'
  BY <1>u, <1>p, <1>e, <1>b, <1>c, <1>d, <1>a, <1>i, <1>y DEF NoStaleTimer
<1>4. WordsNamed'
  BY <1>u, <1>p, <1>e, <1>b, <1>c, <1>d, <1>a, <1>i, <1>y DEF WordsNamed, HandedOver
<1>5. WordsAnnounce'
  BY <1>u, <1>p, <1>e, <1>b, <1>c, <1>d, <1>a, <1>i, <1>y DEF WordsAnnounce, HandedOver
<1>6. GuestMutualExclusion'
  BY <1>u, <1>p, <1>e, <1>b, <1>c, <1>d, <1>a, <1>i, <1>y DEF GuestMutualExclusion, Owns,
     HandedOver
<1>7. Granted'
  BY <1>u, <1>p, <1>e, <1>b, <1>c, <1>d, <1>a, <1>i, <1>y DEF Granted, HandedOver
<1>8. Releasing'
  BY <1>u, <1>p, <1>e, <1>b, <1>c, <1>d, <1>a, <1>i, <1>y DEF Releasing
<1>9. GoneUnnamed'
  BY <1>u, <1>p, <1>e, <1>b, <1>c, <1>d, <1>a, <1>i, <1>y DEF GoneUnnamed
<1>10. NoDanglingOwner'
  BY <1>u, <1>p, <1>e, <1>b, <1>c, <1>d, <1>a, <1>i, <1>y DEF NoDanglingOwner, HandedOver
<1>11. LoopsOK'
  BY <1>u, <1>p, <1>e, <1>b, <1>c, <1>d, <1>a, <1>i, <1>y DEF LoopsOK
<1> QED
  BY <1>1, <1>2, <1>3, <1>4, <1>5, <1>6, <1>7, <1>8, <1>9, <1>10, <1>11 DEF CvInv

(* Wait: the mutex goes to its first waiter, and the thread into m_tree. *)
LEMMA WaitKeeps ==
    ASSUME CvInv, NEW t \in Threads, NEW c \in CvKeys, NEW timeout \in Timeouts,
           Wait(t, c, timeout)
    PROVE  CvInv'
<1>i. TypeOK /\ WaitsInTree /\ NoStaleTimer /\ WordsNamed
      /\ WordsAnnounce /\ GuestMutualExclusion /\ Granted /\ Releasing
      /\ GoneUnnamed /\ NoDanglingOwner /\ LoopsOK
      /\ NoThread \notin Threads
  BY ThreadsAssumption DEF CvInv
<1>y. /\ mutex \in [Threads -> Keys] /\ addressKey \in [Threads -> Keys]
      /\ held \in [Threads -> SUBSET Keys] /\ pc \in [Threads -> Places]
      /\ lockOwner \in [Threads -> Threads \cup {NoThread}]
  BY <1>i DEF TypeOK, LockTypeOK, Places, HandedOver
<1>l. PICK l \in Keys : l = CvMutex[c]
  BY CvAssumption
<1>a. pc[t] = "run" /\ l \in held[t] /\ tag[l].owner = t
      /\ t \notin waiting /\ t \notin timer /\ lockOwner[t] = NoThread /\ condvar[t] = NoKey
      /\ signalling = NoSignal /\ cancelling = NoThread /\ c # NoKey
  BY <1>i, <1>y, <1>l, CvAssumption DEF Wait, SchedulerUnlocked, WaitsInTree, NoStaleTimer,
     GuestMutualExclusion, Owns
<1>w. PICK w \in Threads \cup {NoThread} :
         /\ HandOver(t, l, w)
         /\ waiting' = (waiting \ ({w} \cap Threads)) \cup (IF timeout = "zero" THEN {} ELSE {t})
         /\ timer' = (timer \ ({w} \cap Threads)) \cup (IF timeout = "finite" THEN {t} ELSE {})
         /\ waitResult' = [u \in Threads |-> IF u \in {w} \cap Threads THEN "Success"
                                              ELSE waitResult[u]]
  BY <1>l DEF Wait
<1>e. HandedOver(t, l, w)
  BY ONLY <1>w, <1>l, <1>a, <1>i, HandOverEffect
<1>b. w \in Threads => (w # t /\ w \in waiting /\ mutex[w] = l /\ condvar[w] = NoKey
                         /\ pc[w] \in {"addressWait", "cvWait"})
  BY <1>e, <1>a, <1>i DEF WaitsInTree, HandedOver, HandedOver
<1>c. (w \in Threads => waitResult'[w] = "Success")
      /\ (\A u \in Threads \ {w} : waitResult'[u] = waitResult[u])
      /\ waitResult' \in [Threads -> Results]
  BY <1>w, <1>i DEF TypeOK, Results, HandedOver
<1>f. flag' \in [CvKeys -> BOOLEAN] /\ mutex' = [mutex EXCEPT ![t] = l]
      /\ held' = [held EXCEPT ![t] = @ \ {l}]
  BY <1>i, <1>l DEF Wait, TypeOK
<1>d. w \in Threads \cup {NoThread} /\ l \in Keys
  BY <1>w, <1>l
<1>1. CASE timeout = "zero"
  <2>u. UNCHANGED <<seen, condvar, cvBefore, opened, handles, termReq, signalling,
                  cancelling, crashed>>
    BY <1>1 DEF Wait, guestVars, memVars, treeVars, waitVars, refVars, loopVars, cvVars, vars,
       lockVars
  <2>p. \E x \in {"exited", "lock"} : pc' = [pc EXCEPT ![t] = x]
    BY <1>1 DEF Wait, ReturnTo, Goto
  <2>h. waiting' = waiting \ {w} /\ timer' = timer \ {w}
    BY <1>1, <1>w, <1>i DEF TypeOK, HandedOver
  <2>1. TypeOK'
    BY <2>u, <2>p, <2>h, <1>a, <1>b, <1>c, <1>d, <1>e, <1>f, <1>i DEF TypeOK, Words, Results,
       HandedOver
  <2>2. WaitsInTree'
    BY <2>u, <2>p, <2>h, <1>a, <1>b, <1>c, <1>d, <1>e, <1>f, <1>i, <1>y DEF WaitsInTree,
       HandedOver
  <2>3. NoStaleTimer'
    BY <2>u, <2>p, <2>h, <1>a, <1>b, <1>c, <1>d, <1>e, <1>f, <1>i, <1>y DEF NoStaleTimer
  <2>4. WordsNamed'
    BY <2>u, <2>p, <2>h, <1>a, <1>b, <1>c, <1>d, <1>e, <1>f, <1>i, <1>y DEF WordsNamed, HandedOver
  <2>5. WordsAnnounce'
    BY <2>u, <2>p, <2>h, <1>a, <1>b, <1>c, <1>d, <1>e, <1>f, <1>i, <1>y DEF WordsAnnounce,
       HandedOver
  <2>6. GuestMutualExclusion'
    BY <2>u, <2>p, <2>h, <1>a, <1>b, <1>c, <1>d, <1>e, <1>f, <1>i, <1>y DEF GuestMutualExclusion,
       Owns, HandedOver
  <2>7. Granted'
    BY <2>u, <2>p, <2>h, <1>a, <1>b, <1>c, <1>d, <1>e, <1>f, <1>i, <1>y DEF Granted, HandedOver
  <2>8. Releasing'
    BY <2>u, <2>p, <2>h, <1>a, <1>b, <1>c, <1>d, <1>e, <1>f, <1>i, <1>y DEF Releasing
  <2>9. GoneUnnamed'
    BY <2>u, <2>p, <2>h, <1>a, <1>b, <1>c, <1>d, <1>e, <1>f, <1>i, <1>y DEF GoneUnnamed
  <2>10. NoDanglingOwner'
    BY <2>u, <2>p, <2>h, <1>a, <1>b, <1>c, <1>d, <1>e, <1>f, <1>i, <1>y DEF NoDanglingOwner,
       HandedOver
  <2>11. LoopsOK'
    BY <2>u, <2>p, <2>h, <1>a, <1>b, <1>c, <1>d, <1>e, <1>f, <1>i, <1>y DEF LoopsOK
  <2> QED
    BY <2>1, <2>2, <2>3, <2>4, <2>5, <2>6, <2>7, <2>8, <2>9, <2>10, <2>11 DEF CvInv
<1>2. CASE timeout # "zero"
  <2>u. UNCHANGED <<seen, opened, handles, termReq, signalling, cancelling, crashed>>
    BY <1>2 DEF Wait, guestVars, memVars, treeVars, waitVars, refVars, loopVars, cvVars, vars,
       lockVars
  <2>p. pc' = [pc EXCEPT ![t] = "cvWait"] /\ condvar' = [condvar EXCEPT ![t] = c]
      /\ cvBefore' \in SUBSET (Threads \X Threads)
    BY <1>2, <1>i DEF Wait, Goto, TypeOK, InsertedAfter, Without, CvWaiters
  <2>h. waiting' = (waiting \ {w}) \cup {t} /\ timer' \in SUBSET ((timer \ {w}) \cup {t})
    BY <1>2, <1>w, <1>i DEF TypeOK, HandedOver
  <2>1. TypeOK'
    BY <2>u, <2>p, <2>h, <1>a, <1>b, <1>c, <1>d, <1>e, <1>f, <1>i DEF TypeOK, Words, Results,
       HandedOver
  <2>2. WaitsInTree'
    <3> SUFFICES ASSUME NEW u \in Threads
                 PROVE  /\ condvar'[u] # NoKey => pc'[u] = "cvWait" /\ u \in waiting' /\ lockOwner'[u] = NoThread
                        /\ lockOwner'[u] # NoThread => u \in waiting' /\ addressKey'[u] = mutex'[u]
                        /\ u \in waiting' => /\ pc'[u] \in {"addressWait", "cvWait"}
                                             /\ lockOwner'[u] # NoThread \/ condvar'[u] # NoKey
      BY DEF WaitsInTree, HandedOver
    <3>1. CASE u = t
      BY <3>1, <2>p, <2>h, <1>a, <1>b, <1>c, <1>d, <1>e, <1>f, <1>i, <1>y DEF TypeOK, HandedOver
    <3>2. CASE u = w
      BY <3>2, <2>p, <2>h, <1>a, <1>b, <1>c, <1>d, <1>e, <1>f, <1>i, <1>y DEF TypeOK, HandedOver
    <3>3. CASE u # t /\ u # w
      <4>1. (pc'[u] = pc[u]) /\ (condvar'[u] = condvar[u]) /\ (u \in waiting' <=> u \in waiting)
            /\ mutex'[u] = mutex[u] /\ addressKey'[u] = addressKey[u]
        BY <3>3, <2>p, <2>h, <1>a, <1>b, <1>c, <1>d, <1>e, <1>f, <1>i, <1>y DEF TypeOK, HandedOver
      <4>2. (lockOwner'[u] = NoThread) <=> (lockOwner[u] = NoThread)
        BY <3>3, <1>e, <1>i DEF HandedOver
      <4> QED
        BY <4>1, <4>2, <1>i DEF WaitsInTree, HandedOver
    <3> QED
      BY <3>1, <3>2, <3>3
  <2>3. NoStaleTimer'
    BY <2>u, <2>p, <2>h, <1>a, <1>b, <1>c, <1>d, <1>e, <1>f, <1>i, <1>y DEF NoStaleTimer
  <2>4. WordsNamed'
    BY <2>u, <2>p, <2>h, <1>a, <1>b, <1>c, <1>d, <1>e, <1>f, <1>i, <1>y DEF WordsNamed, HandedOver
  <2>5. WordsAnnounce'
    BY <2>u, <2>p, <2>h, <1>a, <1>b, <1>c, <1>d, <1>e, <1>f, <1>i, <1>y DEF WordsAnnounce,
       HandedOver
  <2>6. GuestMutualExclusion'
    BY <2>u, <2>p, <2>h, <1>a, <1>b, <1>c, <1>d, <1>e, <1>f, <1>i, <1>y DEF GuestMutualExclusion,
       Owns, HandedOver
  <2>7. Granted'
    BY <2>u, <2>p, <2>h, <1>a, <1>b, <1>c, <1>d, <1>e, <1>f, <1>i, <1>y DEF Granted, HandedOver
  <2>8. Releasing'
    BY <2>u, <2>p, <2>h, <1>a, <1>b, <1>c, <1>d, <1>e, <1>f, <1>i, <1>y DEF Releasing
  <2>9. GoneUnnamed'
    BY <2>u, <2>p, <2>h, <1>a, <1>b, <1>c, <1>d, <1>e, <1>f, <1>i, <1>y DEF GoneUnnamed
  <2>10. NoDanglingOwner'
    BY <2>u, <2>p, <2>h, <1>a, <1>b, <1>c, <1>d, <1>e, <1>f, <1>i, <1>y DEF NoDanglingOwner,
       HandedOver
  <2>11. LoopsOK'
    BY <2>u, <2>p, <2>h, <1>a, <1>b, <1>c, <1>d, <1>e, <1>f, <1>i, <1>y DEF LoopsOK
  <2> QED
    BY <2>1, <2>2, <2>3, <2>4, <2>5, <2>6, <2>7, <2>8, <2>9, <2>10, <2>11 DEF CvInv
<1> QED
  BY <1>1, <1>2


-----------------------------------------------------------------------------
(* An iteration of Signal, and the ends of waits. *)

(* Signal gives its waiter the mutex, queues it for it, or ends its wait. *)
LEMMA SignalIterationKeeps ==
    ASSUME CvInv, NEW t \in Threads, SignalIteration(t) PROVE CvInv'
<1>i. TypeOK /\ WaitsInTree /\ NoStaleTimer /\ WordsNamed
      /\ WordsAnnounce /\ GuestMutualExclusion /\ Granted /\ Releasing
      /\ GoneUnnamed /\ NoDanglingOwner /\ LoopsOK
      /\ NoThread \notin Threads
  BY ThreadsAssumption DEF CvInv
<1>y. /\ mutex \in [Threads -> Keys] /\ addressKey \in [Threads -> Keys]
      /\ held \in [Threads -> SUBSET Keys] /\ pc \in [Threads -> Places]
      /\ lockOwner \in [Threads -> Threads \cup {NoThread}]
  BY <1>i DEF TypeOK, LockTypeOK, Places
<1>a. signalling.it = t /\ signalling.key # NoKey /\ condvar[t] = signalling.key
      /\ cancelling = NoThread
      /\ pc[t] = "cvWait" /\ t \in waiting /\ lockOwner[t] = NoThread
  BY <1>i DEF SignalIteration, LoopsOK, WaitsInTree, NoSignal
<1>q. PICK i \in Threads \cup {NoThread} :
         /\ IsFirstOf(i, {u \in CvWaiters(signalling.key) \ {t} : TreeBefore(t, u)})
         /\ signalling' = [signalling EXCEPT !.left = @ - 1, !.it = i]
  BY DEF SignalIteration
<1>b. i # NoThread => i # t /\ condvar[i] = signalling.key
  BY <1>q DEF IsFirstOf, CvWaiters
<1>n. signalling.left - 1 \in 0 .. Cardinality(Threads)
  <2>1. Cardinality(Threads) \in Nat
    BY ThreadsAssumption, FS_CardinalityType
  <2>2. signalling.left \in 0 .. Cardinality(Threads) /\ signalling.left > 0
    BY <1>i DEF TypeOK, SignalIteration
  <2> QED
    BY <2>1, <2>2
<1>s. signalling' \in [key : CvKeys \cup {NoKey}, left : 0 .. Cardinality(Threads), it : Threads \cup {NoThread}]
      /\ signalling'.key = signalling.key /\ signalling'.it = i
  <2>1. PICK s : s = [signalling EXCEPT !.left = @ - 1]
    OBVIOUS
  <2>2. s \in [key : CvKeys \cup {NoKey}, left : 0 .. Cardinality(Threads), it : Threads \cup {NoThread}] /\ s.key = signalling.key
    BY <2>1, <1>n, <1>i DEF TypeOK
  <2>3. signalling' = [s EXCEPT !.it = i]
    BY <2>1, <1>q
  <2> QED
    BY <2>2, <2>3
<1>c. condvar'[t] = NoKey /\ (\A u \in Threads \ {t} : condvar'[u] = condvar[u])
      /\ condvar' \in [Threads -> CvKeys \cup {NoKey}] /\ cvBefore' \in SUBSET (Threads \X Threads)
  BY <1>i DEF SignalIteration, TypeOK, Without
<1>l. PICK l \in Keys : l = mutex[t]
  BY <1>y
<1>f. (tag[l] = Free <=> tag[l].owner = NoThread) /\ tag[l].owner \in Threads \cup {NoThread}
  BY <1>i, FreeWords DEF TypeOK
<1>m. SignalImpl(t)
  BY DEF SignalIteration
<1>d. l = mutex[t] /\ l \in Keys /\ i \in Threads \cup {NoThread}
  BY <1>l, <1>q
<1>1. CASE tag[l] = Free
  <2>u. UNCHANGED <<lockVars, flag, pc, mutex, seen, held, opened, handles, termReq,
                  cancelling, crashed>>
    BY <1>1, <1>m, <1>l DEF SignalIteration, SignalImpl, EndWait, guestVars, memVars, treeVars,
       waitVars, refVars, loopVars, cvVars, vars, lockVars
  <2>l. /\ LockTypeOK'
        /\ UNCHANGED <<base, prio, lockOwner, addressKey, before, numKernelWaiters, restoring>>
    BY <2>u, <1>i DEF TypeOK, LockTypeOK, lockVars
  <2>t. (tag' \in [Keys -> Words]) /\ tag'[l].owner = t /\ tag'[l].wait = FALSE
      /\ (\A k \in Keys \ {l} : tag'[k] = tag[k])
    BY <1>1, <1>m, <1>l, <1>i, WordWritten DEF SignalImpl
  <2>e. waiting' = waiting \ {t} /\ timer' = timer \ {t} /\ waitResult'[t] = "Success"
      /\ (\A u \in Threads \ {t} : waitResult'[u] = waitResult[u]) /\ waitResult' \in [Threads -> Results]
    BY <1>1, <1>m, <1>l, <1>i DEF SignalImpl, EndWait, TypeOK, Results
  <2>h. tag[l].owner = NoThread
    BY <1>1, <1>f
  <2>1. TypeOK'
    BY <2>l, <2>u, <2>t, <2>e, <2>h, <1>a, <1>b, <1>c, <1>d, <1>s, <1>i DEF TypeOK, Words, Results
  <2>2. WaitsInTree'
    BY <2>l, <2>u, <2>t, <2>e, <2>h, <1>a, <1>b, <1>c, <1>d, <1>s, <1>i, <1>y DEF WaitsInTree
  <2>3. NoStaleTimer'
    BY <2>l, <2>u, <2>t, <2>e, <2>h, <1>a, <1>b, <1>c, <1>d, <1>s, <1>i, <1>y DEF NoStaleTimer
  <2>4. WordsNamed'
    BY <2>l, <2>u, <2>t, <2>e, <2>h, <1>a, <1>b, <1>c, <1>d, <1>s, <1>i, <1>y DEF WordsNamed
  <2>5. WordsAnnounce'
    BY <2>l, <2>u, <2>t, <2>e, <2>h, <1>a, <1>b, <1>c, <1>d, <1>s, <1>i, <1>y DEF WordsAnnounce
  <2>6. GuestMutualExclusion'
    BY <2>u, <2>t, <2>h, <1>a, <1>b, <1>c, <1>d, <1>s, <1>i DEF GuestMutualExclusion, Owns
  <2>7. Granted'
    BY <2>l, <2>u, <2>t, <2>e, <2>h, <1>a, <1>b, <1>c, <1>d, <1>s, <1>i, <1>y DEF Granted
  <2>8. Releasing'
    BY <2>u, <2>l, <1>i DEF Releasing
  <2>9. GoneUnnamed'
    BY <2>u, <2>l, <1>i DEF GoneUnnamed
  <2>10. NoDanglingOwner'
    BY <2>u, <2>l, <1>i DEF NoDanglingOwner
  <2>11. LoopsOK'
    BY <2>l, <2>u, <2>t, <2>e, <2>h, <1>a, <1>b, <1>c, <1>d, <1>s, <1>i, <1>y DEF LoopsOK
  <2> QED
    BY <2>1, <2>2, <2>3, <2>4, <2>5, <2>6, <2>7, <2>8, <2>9, <2>10, <2>11 DEF CvInv
<1>2. CASE tag[l] # Free /\ tag[l].owner \in handles
  <2>u. UNCHANGED <<flag, pc, mutex, seen, held, waiting, timer, waitResult, opened,
                  handles, termReq, cancelling, crashed>>
    BY <1>2, <1>m, <1>l DEF SignalIteration, SignalImpl, EndWait, guestVars, memVars, treeVars,
       waitVars, refVars, loopVars, cvVars, vars, lockVars
  <2>t. (tag' \in [Keys -> Words]) /\ tag'[l].owner = tag[l].owner /\ tag'[l].wait = TRUE
      /\ (\A k \in Keys \ {l} : tag'[k] = tag[k])
    BY <1>2, <1>m, <1>l, <1>i, WaitBitSet DEF SignalImpl
  <2>o. tag[l].owner \in Threads /\ tag[l].owner # NoThread
    BY <1>2, <1>i DEF TypeOK
  <2>e. LockTypeOK' /\ lockOwner'[t] = tag[l].owner /\ addressKey'[t] = l
      /\ (\A u \in Threads \ {t} : lockOwner'[u] = lockOwner[u] /\ addressKey'[u] = addressKey[u])
    <3>1. AddWaiter(tag[l].owner, t, l)
      BY <1>2, <1>m, <1>l DEF SignalImpl
    <3> QED
      BY <3>1, <2>o, <1>i, AddEffect DEF TypeOK
  <2>g. pc[tag[l].owner] # "gone"
    BY <1>2, <2>o, <1>i DEF GoneUnnamed
  <2>h. tag[l].owner # NoThread
    BY <2>o
  <2>1. TypeOK'
    BY <2>u, <2>t, <2>o, <2>e, <2>g, <2>h, <1>a, <1>b, <1>c, <1>d, <1>s, <1>i DEF TypeOK, Words,
       Results
  <2>2. WaitsInTree'
    BY <2>u, <2>t, <2>o, <2>e, <2>g, <2>h, <1>a, <1>b, <1>c, <1>d, <1>s, <1>i, <1>y DEF
       WaitsInTree
  <2>3. NoStaleTimer'
    BY <2>u, <1>i DEF NoStaleTimer
  <2>4. WordsNamed'
    BY <2>u, <2>t, <2>o, <2>e, <2>g, <2>h, <1>a, <1>b, <1>c, <1>d, <1>s, <1>i, <1>y DEF WordsNamed
  <2>5. WordsAnnounce'
    <3> SUFFICES ASSUME NEW u \in Threads, lockOwner'[u] # NoThread
                 PROVE  tag'[addressKey'[u]].owner = lockOwner'[u] /\ tag'[addressKey'[u]].wait = TRUE
      BY DEF WordsAnnounce
    <3>1. CASE u = t
      BY <3>1, <2>t, <2>e
    <3>2. CASE u # t /\ addressKey[u] = l
      BY <3>2, <2>t, <2>e, <1>i DEF WordsAnnounce
    <3>3. CASE u # t /\ addressKey[u] # l
      BY <3>3, <2>t, <2>e, <1>i, <1>y DEF WordsAnnounce
    <3> QED
      BY <3>1, <3>2, <3>3
  <2>6. GuestMutualExclusion'
    BY <2>u, <2>t, <2>o, <2>e, <2>g, <2>h, <1>a, <1>b, <1>c, <1>d, <1>s, <1>i, <1>y DEF
       GuestMutualExclusion, Owns
  <2>7. Granted'
    BY <2>u, <2>t, <2>o, <2>e, <2>g, <2>h, <1>a, <1>b, <1>c, <1>d, <1>s, <1>i, <1>y DEF Granted
  <2>8. Releasing'
    BY <2>u, <1>i DEF Releasing
  <2>9. GoneUnnamed'
    BY <2>u, <1>i DEF GoneUnnamed
  <2>10. NoDanglingOwner'
    BY <2>u, <2>t, <2>o, <2>e, <2>g, <2>h, <1>a, <1>b, <1>c, <1>d, <1>s, <1>i, <1>y DEF
       NoDanglingOwner
  <2>11. LoopsOK'
    BY <2>u, <2>t, <2>o, <2>e, <2>g, <2>h, <1>a, <1>b, <1>c, <1>d, <1>s, <1>i, <1>y DEF LoopsOK
  <2> QED
    BY <2>1, <2>2, <2>3, <2>4, <2>5, <2>6, <2>7, <2>8, <2>9, <2>10, <2>11 DEF CvInv
<1>3. CASE tag[l] # Free /\ tag[l].owner \notin handles
  <2>u. UNCHANGED <<lockVars, flag, pc, mutex, seen, held, opened, handles, termReq,
                  cancelling, crashed>>
    BY <1>3, <1>m, <1>l DEF SignalIteration, SignalImpl, EndWait, guestVars, memVars, treeVars,
       waitVars, refVars, loopVars, cvVars, vars, lockVars
  <2>l. /\ LockTypeOK'
        /\ UNCHANGED <<base, prio, lockOwner, addressKey, before, numKernelWaiters, restoring>>
    BY <2>u, <1>i DEF TypeOK, LockTypeOK, lockVars
  <2>t. (tag' \in [Keys -> Words]) /\ tag'[l].owner = tag[l].owner /\ tag'[l].wait = TRUE
      /\ (\A k \in Keys \ {l} : tag'[k] = tag[k])
    BY <1>3, <1>m, <1>l, <1>i, WaitBitSet DEF SignalImpl
  <2>e. waiting' = waiting \ {t} /\ timer' = timer \ {t} /\ waitResult'[t] = "InvalidState"
      /\ (\A u \in Threads \ {t} : waitResult'[u] = waitResult[u]) /\ waitResult' \in [Threads -> Results]
    BY ZenonT(60), <1>3, <1>m, <1>l, <1>i DEF SignalImpl, EndWait, TypeOK, Results
  <2>h. tag[l].owner # NoThread
    BY <1>3, <1>f
  <2>1. TypeOK'
    BY <2>l, <2>u, <2>t, <2>e, <2>h, <1>a, <1>b, <1>c, <1>d, <1>s, <1>i DEF TypeOK, Words, Results
  <2>2. WaitsInTree'
    BY <2>l, <2>u, <2>t, <2>e, <2>h, <1>a, <1>b, <1>c, <1>d, <1>s, <1>i, <1>y DEF WaitsInTree
  <2>3. NoStaleTimer'
    BY <2>l, <2>u, <2>t, <2>e, <2>h, <1>a, <1>b, <1>c, <1>d, <1>s, <1>i, <1>y DEF NoStaleTimer
  <2>4. WordsNamed'
    BY <2>l, <2>u, <2>t, <2>e, <2>h, <1>a, <1>b, <1>c, <1>d, <1>s, <1>i, <1>y DEF WordsNamed
  <2>5. WordsAnnounce'
    BY <2>l, <2>u, <2>t, <2>e, <2>h, <1>a, <1>b, <1>c, <1>d, <1>s, <1>i, <1>y DEF WordsAnnounce
  <2>6. GuestMutualExclusion'
    BY <2>l, <2>u, <2>t, <2>e, <2>h, <1>a, <1>b, <1>c, <1>d, <1>s, <1>i, <1>y DEF
       GuestMutualExclusion, Owns
  <2>7. Granted'
    BY <2>l, <2>u, <2>t, <2>e, <2>h, <1>a, <1>b, <1>c, <1>d, <1>s, <1>i, <1>y DEF Granted
  <2>8. Releasing'
    BY <2>u, <2>l, <1>i DEF Releasing
  <2>9. GoneUnnamed'
    BY <2>u, <2>l, <1>i DEF GoneUnnamed
  <2>10. NoDanglingOwner'
    BY <2>u, <2>l, <1>i DEF NoDanglingOwner
  <2>11. LoopsOK'
    BY <2>l, <2>u, <2>t, <2>e, <2>h, <1>a, <1>b, <1>c, <1>d, <1>s, <1>i, <1>y DEF LoopsOK
  <2> QED
    BY <2>1, <2>2, <2>3, <2>4, <2>5, <2>6, <2>7, <2>8, <2>9, <2>10, <2>11 DEF CvInv
<1> QED
  BY <1>1, <1>2, <1>3

(* CancelWait takes a thread out of whichever tree it is in. *)
LEMMA CancelEffect ==
    ASSUME TypeOK, NEW t \in Threads, NEW r \in Results, CancelWait(t, r)
    PROVE  /\ LockTypeOK' /\ addressKey' = addressKey /\ lockOwner'[t] = NoThread
           /\ \A u \in Threads \ {t} : lockOwner'[u] = lockOwner[u]
           /\ condvar' \in [Threads -> CvKeys \cup {NoKey}] /\ condvar'[t] = NoKey
           /\ \A u \in Threads \ {t} : condvar'[u] = condvar[u]
           /\ waiting' = waiting \ {t}
           /\ waitResult' = [waitResult EXCEPT ![t] = r]
           /\ cvBefore' \in SUBSET (Threads \X Threads) /\ crashed' \in BOOLEAN
<1>1. LockTypeOK
  BY DEF TypeOK
<1>2. /\ LockTypeOK' /\ addressKey' = addressKey /\ lockOwner'[t] = NoThread
      /\ \A u \in Threads \ {t} : lockOwner'[u] = lockOwner[u]
  <2>1. CASE lockOwner[t] # NoThread
    BY <2>1, <1>1, RemoveEffect DEF CancelWait
  <2>2. CASE lockOwner[t] = NoThread
    BY <2>2, <1>1 DEF CancelWait, LockTypeOK, lockVars
  <2> QED
    BY <2>1, <2>2
<1>3. /\ cvBefore' \in SUBSET (Threads \X Threads) /\ crashed' \in BOOLEAN
      /\ condvar' \in [Threads -> CvKeys \cup {NoKey}] /\ condvar'[t] = NoKey
      /\ \A u \in Threads \ {t} : condvar'[u] = condvar[u]
  BY DEF TypeOK, CancelWait, Without
<1> QED
  BY <1>2, <1>3 DEF CancelWait

(* A timeout ends a wait. *)
LEMMA OnTimerKeeps ==
    ASSUME CvInv, NEW t \in Threads, OnTimer(t) PROVE CvInv'
<1>i. TypeOK /\ WaitsInTree /\ NoStaleTimer /\ WordsNamed
      /\ WordsAnnounce /\ GuestMutualExclusion /\ Granted /\ Releasing
      /\ GoneUnnamed /\ NoDanglingOwner /\ LoopsOK
      /\ NoThread \notin Threads
  BY ThreadsAssumption DEF CvInv
<1>y. /\ mutex \in [Threads -> Keys] /\ addressKey \in [Threads -> Keys]
      /\ held \in [Threads -> SUBSET Keys] /\ pc \in [Threads -> Places]
      /\ lockOwner \in [Threads -> Threads \cup {NoThread}]
  BY <1>i DEF TypeOK, LockTypeOK, Places
<1>w. t \in waiting /\ cancelling = NoThread /\ signalling = NoSignal /\ signalling.it = NoThread
  BY <1>i DEF NoSignal, OnTimer, NoStaleTimer, SchedulerUnlocked
<1>u. UNCHANGED <<tag, flag, pc, mutex, seen, held, opened, handles, termReq, signalling,
                cancelling>>
  BY <1>w DEF OnTimer, CancelWait, guestVars, memVars, treeVars, waitVars, refVars, loopVars,
     cvVars, vars, lockVars
<1>e. LockTypeOK' /\ addressKey' = addressKey /\ lockOwner'[t] = NoThread
      /\ (\A u \in Threads \ {t} : lockOwner'[u] = lockOwner[u])
      /\ condvar' \in [Threads -> CvKeys \cup {NoKey}] /\ condvar'[t] = NoKey
      /\ (\A u \in Threads \ {t} : condvar'[u] = condvar[u])
      /\ waiting' = waiting \ {t}
      /\ waitResult' = [waitResult EXCEPT ![t] = "TimedOut"]
      /\ cvBefore' \in SUBSET (Threads \X Threads) /\ crashed' \in BOOLEAN
  <2>1. "TimedOut" \in Results /\ CancelWait(t, "TimedOut")
    BY <1>w DEF OnTimer, Results
  <2> QED
    BY <2>1, <1>i, CancelEffect
<1>d. timer' = timer \ {t} /\ waitResult'[t] # "Success"
  BY <1>e, <1>i DEF OnTimer, TypeOK
<1>1. TypeOK'
  BY <1>u, <1>e, <1>d, <1>w, <1>i DEF TypeOK, Words, Results
<1>2. WaitsInTree'
  BY <1>u, <1>e, <1>d, <1>w, <1>i, <1>y DEF WaitsInTree
<1>3. NoStaleTimer'
  BY <1>u, <1>e, <1>d, <1>w, <1>i, <1>y DEF NoStaleTimer
<1>4. WordsNamed'
  BY <1>u, <1>i DEF WordsNamed
<1>5. WordsAnnounce'
  BY <1>u, <1>e, <1>d, <1>w, <1>i, <1>y DEF WordsAnnounce
<1>6. GuestMutualExclusion'
  BY <1>u, <1>i DEF GuestMutualExclusion, Owns
<1>7. Granted'
  BY <1>u, <1>e, <1>d, <1>w, <1>i, <1>y DEF Granted
<1>8. Releasing'
  BY <1>u, <1>i DEF Releasing
<1>9. GoneUnnamed'
  BY <1>u, <1>i DEF GoneUnnamed
<1>10. NoDanglingOwner'
  BY <1>u, <1>e, <1>d, <1>w, <1>i, <1>y DEF NoDanglingOwner
<1>11. LoopsOK'
  BY <1>u, <1>e, <1>d, <1>w, <1>i, <1>y DEF LoopsOK
<1> QED
  BY <1>1, <1>2, <1>3, <1>4, <1>5, <1>6, <1>7, <1>8, <1>9, <1>10, <1>11 DEF CvInv

(* A termination ends a wait. *)
LEMMA TerminateCancelsWaitKeeps ==
    ASSUME CvInv, NEW t \in Threads, TerminateCancelsWait(t) PROVE CvInv'
<1>i. TypeOK /\ WaitsInTree /\ NoStaleTimer /\ WordsNamed
      /\ WordsAnnounce /\ GuestMutualExclusion /\ Granted /\ Releasing
      /\ GoneUnnamed /\ NoDanglingOwner /\ LoopsOK
      /\ NoThread \notin Threads
  BY ThreadsAssumption DEF CvInv
<1>y. /\ mutex \in [Threads -> Keys] /\ addressKey \in [Threads -> Keys]
      /\ held \in [Threads -> SUBSET Keys] /\ pc \in [Threads -> Places]
      /\ lockOwner \in [Threads -> Threads \cup {NoThread}]
  BY <1>i DEF TypeOK, LockTypeOK, Places
<1>w. t \in waiting /\ cancelling = t /\ signalling = NoSignal /\ signalling.it = NoThread
  BY <1>i DEF NoSignal, TerminateCancelsWait, LoopsOK
<1>u. UNCHANGED <<tag, flag, pc, mutex, seen, held, opened, handles, termReq, signalling>>
  BY <1>w DEF TerminateCancelsWait, CancelWait, guestVars, memVars, treeVars, waitVars, refVars,
     loopVars, cvVars, vars, lockVars
<1>e. LockTypeOK' /\ addressKey' = addressKey /\ lockOwner'[t] = NoThread
      /\ (\A u \in Threads \ {t} : lockOwner'[u] = lockOwner[u])
      /\ condvar' \in [Threads -> CvKeys \cup {NoKey}] /\ condvar'[t] = NoKey
      /\ (\A u \in Threads \ {t} : condvar'[u] = condvar[u])
      /\ waiting' = waiting \ {t}
      /\ waitResult' = [waitResult EXCEPT ![t] = "TerminationRequested"]
      /\ cvBefore' \in SUBSET (Threads \X Threads) /\ crashed' \in BOOLEAN
  <2>1. "TerminationRequested" \in Results /\ CancelWait(t, "TerminationRequested")
    BY <1>w DEF TerminateCancelsWait, Results
  <2> QED
    BY <2>1, <1>i, CancelEffect
<1>d. timer' = timer \ {t} /\ waitResult'[t] # "Success"
  BY <1>e, <1>i DEF TerminateCancelsWait, TypeOK
<1>f. cancelling' = NoThread
  BY DEF TerminateCancelsWait
<1>1. TypeOK'
  BY <1>u, <1>e, <1>d, <1>w, <1>f, <1>i DEF TypeOK, Words, Results
<1>2. WaitsInTree'
  BY <1>u, <1>e, <1>d, <1>w, <1>f, <1>i, <1>y DEF WaitsInTree
<1>3. NoStaleTimer'
  BY <1>u, <1>e, <1>d, <1>w, <1>f, <1>i, <1>y DEF NoStaleTimer
<1>4. WordsNamed'
  BY <1>u, <1>i DEF WordsNamed
<1>5. WordsAnnounce'
  BY <1>u, <1>e, <1>d, <1>w, <1>f, <1>i, <1>y DEF WordsAnnounce
<1>6. GuestMutualExclusion'
  BY <1>u, <1>i DEF GuestMutualExclusion, Owns
<1>7. Granted'
  BY <1>u, <1>e, <1>d, <1>w, <1>f, <1>i, <1>y DEF Granted
<1>8. Releasing'
  BY <1>u, <1>i DEF Releasing
<1>9. GoneUnnamed'
  BY <1>u, <1>i DEF GoneUnnamed
<1>10. NoDanglingOwner'
  BY <1>u, <1>e, <1>d, <1>w, <1>f, <1>i, <1>y DEF NoDanglingOwner
<1>11. LoopsOK'
  BY <1>u, <1>e, <1>d, <1>w, <1>f, <1>i, <1>y DEF LoopsOK
<1> QED
  BY <1>1, <1>2, <1>3, <1>4, <1>5, <1>6, <1>7, <1>8, <1>9, <1>10, <1>11 DEF CvInv

(* A thread nobody can name any more is finalized. *)
LEMMA FinalizeKeeps ==
    ASSUME CvInv, NEW t \in Threads, Finalize(t) PROVE CvInv'
<1>i. TypeOK /\ WaitsInTree /\ NoStaleTimer /\ WordsNamed
      /\ WordsAnnounce /\ GuestMutualExclusion /\ Granted /\ Releasing
      /\ GoneUnnamed /\ NoDanglingOwner /\ LoopsOK
      /\ NoThread \notin Threads
  BY ThreadsAssumption DEF CvInv
<1>y. /\ mutex \in [Threads -> Keys] /\ addressKey \in [Threads -> Keys]
      /\ held \in [Threads -> SUBSET Keys] /\ pc \in [Threads -> Places]
      /\ lockOwner \in [Threads -> Threads \cup {NoThread}]
  BY <1>i DEF TypeOK, LockTypeOK, Places
<1>w. \A u \in Threads : u \in Waiters(t) <=> lockOwner[u] = t
  BY DEF Waiters
<1>p. Waiters(t) \subseteq Threads
  BY DEF Waiters
<1>a. pc[t] = "exited" /\ t \notin handles /\ t \notin waiting /\ condvar[t] = NoKey /\ lockOwner[t] = NoThread
      /\ signalling = NoSignal /\ cancelling = NoThread
  BY <1>i DEF Finalize, SchedulerUnlocked, WaitsInTree
<1>u. UNCHANGED <<tag, flag, mutex, seen, held, condvar, cvBefore, opened, handles, termReq,
                signalling, cancelling>>
  BY DEF Finalize, EndWait, guestVars, memVars, treeVars, waitVars, refVars, loopVars, cvVars,
     vars, lockVars
<1>e. LockTypeOK' /\ addressKey' = addressKey
      /\ (\A u \in Threads : lockOwner'[u] = IF lockOwner[u] = t THEN NoThread ELSE lockOwner[u])
  BY <1>w, <1>p, <1>i DEF Finalize, TypeOK, LockTypeOK
<1>c. crashed' \in BOOLEAN /\ pc' = [pc EXCEPT ![t] = "gone"]
      /\ waiting' = waiting \ Waiters(t) /\ timer' = timer \ Waiters(t)
  BY DEF Finalize, EndWait, Goto
<1>r. waitResult' \in [Threads -> Results]
      /\ (\A u \in Threads : waitResult'[u] = IF lockOwner[u] = t THEN "InvalidState" ELSE waitResult[u])
  BY <1>w, <1>i DEF Finalize, EndWait, TypeOK, Results
<1>1. TypeOK'
  BY <1>u, <1>e, <1>c, <1>r, <1>a, <1>w, <1>i DEF TypeOK, Words, Results
<1>2. WaitsInTree'
  BY <1>u, <1>e, <1>c, <1>r, <1>a, <1>w, <1>i, <1>y DEF WaitsInTree
<1>3. NoStaleTimer'
  BY <1>u, <1>e, <1>c, <1>r, <1>a, <1>w, <1>i, <1>y DEF NoStaleTimer
<1>4. WordsNamed'
  BY <1>u, <1>i DEF WordsNamed
<1>5. WordsAnnounce'
  BY <1>u, <1>e, <1>c, <1>r, <1>a, <1>w, <1>i, <1>y DEF WordsAnnounce
<1>6. GuestMutualExclusion'
  BY <1>u, <1>e, <1>c, <1>r, <1>a, <1>w, <1>i, <1>y DEF GuestMutualExclusion, Owns
<1>7. Granted'
  BY <1>u, <1>e, <1>c, <1>r, <1>a, <1>w, <1>i, <1>y DEF Granted
<1>8. Releasing'
  BY <1>u, <1>e, <1>c, <1>r, <1>a, <1>w, <1>i, <1>y DEF Releasing
<1>9. GoneUnnamed'
  BY <1>u, <1>e, <1>c, <1>r, <1>a, <1>w, <1>i, <1>y DEF GoneUnnamed
<1>10. NoDanglingOwner'
  BY <1>u, <1>e, <1>c, <1>r, <1>a, <1>w, <1>i, <1>y DEF NoDanglingOwner
<1>11. LoopsOK'
  BY <1>u, <1>e, <1>c, <1>r, <1>a, <1>w, <1>i, <1>y DEF LoopsOK
<1> QED
  BY <1>1, <1>2, <1>3, <1>4, <1>5, <1>6, <1>7, <1>8, <1>9, <1>10, <1>11 DEF CvInv


-----------------------------------------------------------------------------
(* The invariant holds at the start, when nobody waits or owns anything. *)
LEMMA CvInit == Init => CvInv
<1> SUFFICES ASSUME Init PROVE CvInv
  OBVIOUS
<1>0. NoThread \notin Threads /\ (CHOOSE k \in Keys : TRUE) \in Keys
  BY ThreadsAssumption, KeysAssumption
<1>1. LockTypeOK /\ (\A t \in Threads : lockOwner[t] = NoThread)
  BY <1>0 DEF Init, LockInit, LockTypeOK
<1>2. NoSignal \in [key : CvKeys \cup {NoKey}, left : 0 .. Cardinality(Threads),
                    it : Threads \cup {NoThread}] /\ NoSignal.it = NoThread
  <2>1. Cardinality(Threads) \in Nat
    BY ThreadsAssumption, FS_CardinalityType
  <2> QED
    BY <2>1 DEF NoSignal
<1>3. \A l \in Keys : tag[l] \in Words /\ tag[l].owner = NoThread /\ tag[l].wait = FALSE
  BY WordFacts DEF Init
<1>4. TypeOK
  BY <1>0, <1>1, <1>2, WordFacts DEF Init, TypeOK, Words
<1>5. WaitsInTree /\ NoStaleTimer
  BY <1>1 DEF Init, WaitsInTree, NoStaleTimer
<1>6. WordsNamed /\ WordsAnnounce
  BY <1>1, <1>3 DEF WordsNamed, WordsAnnounce
<1>7. GuestMutualExclusion /\ Granted /\ Releasing
  BY DEF Init, GuestMutualExclusion, Owns, Granted, Releasing
<1>8. GoneUnnamed /\ NoDanglingOwner /\ LoopsOK
  BY <1>1, <1>2 DEF Init, GoneUnnamed, NoDanglingOwner, LoopsOK
<1> QED
  BY <1>4, <1>5, <1>6, <1>7, <1>8 DEF CvInv

(* No step breaks it. *)
LEMMA CvStep == CvInv /\ [Next]_vars => CvInv'
<1> SUFFICES ASSUME CvInv, CvAction PROVE CvInv'
  BY CvCases
<1>1. CASE UNCHANGED vars
  BY <1>1 DEF CvInv, TypeOK, LockTypeOK, WaitsInTree, NoStaleTimer, WordsNamed,
       WordsAnnounce, GuestMutualExclusion, Owns, Granted, Releasing, GoneUnnamed,
       NoDanglingOwner, LoopsOK, vars, cvVars, lockVars, guestVars, memVars, treeVars,
       waitVars, refVars, loopVars
<1>2. CASE ~ UNCHANGED vars
  BY <1>2, GuestLockKeeps, GuestUnlockKeeps, GuestCheckKeeps, ExitKeeps,
       SignalToAddressKeeps, WaitForAddressKeeps, WaitForAddressReturnsKeeps, WaitKeeps,
       WaitReturnsKeeps, SignalKeeps, SignalIterationKeeps, OnTimerKeeps,
       RequestTerminateKeeps, TerminateCancelsWaitKeeps, ChangePriorityKeeps,
       CloseHandleKeeps, FinalizeKeeps, SignalReturnsKeeps, RestoreKeeps
     DEF CvAction
<1> QED
  BY <1>1, <1>2

(* The inductive invariant of process-wide keys.  Whatever the guest       *)
(* threads do, and whatever timeouts, terminations, changes of priority    *)
(* and closed handles come in between (k_condition_variable.cpp), the      *)
(* mutex words agree with the waiter trees and the trees with the waits.   *)
THEOREM CvInvariant == Spec => []CvInv
<1>1. CvInv /\ [Next]_vars => CvInv'
  BY CvStep
<1> QED
  BY CvInit, <1>1, PTL DEF Spec

(* A guest mutex excludes: the word names the thread that believes it has  *)
(* locked the mutex, also after a condition variable wait that a timeout,  *)
(* a signal and an unlock raced for (SignalToAddress, SignalImpl, Wait).   *)
THEOREM CvMutualExclusion == Spec => []GuestMutualExclusion
<1>1. CvInv => GuestMutualExclusion
  BY DEF CvInv
<1> QED
  BY CvInvariant, <1>1, PTL

(* A waiting thread is in exactly one tree, the word of the mutex it is    *)
(* queued for names that tree's owner and has the wait bit set, and no     *)
(* timer task is left behind (the two wait queues' EndWait, CancelWait).   *)
THEOREM CvWaitersPlaced == Spec => []WaitersPlaced
<1>1. CvInv => WaitersPlaced
  <2> SUFFICES ASSUME CvInv PROVE WaitersPlaced
    OBVIOUS
  <2>1. TypeOK /\ WaitsInTree /\ WordsAnnounce /\ NoStaleTimer
    BY DEF CvInv
  <2>2. InOneTree
    BY <2>1 DEF WaitsInTree, InOneTree
  <2>3. MutexWaiterAnnounced
    <3> SUFFICES ASSUME NEW t \in Threads, lockOwner[t] # NoThread
                 PROVE  tag[addressKey[t]] = Tag(lockOwner[t], TRUE)
      BY DEF MutexWaiterAnnounced
    <3>1. addressKey[t] \in Keys /\ tag[addressKey[t]] \in Words /\ lockOwner[t] \in Threads
      BY <2>1 DEF TypeOK, LockTypeOK, Words
    <3>2. tag[addressKey[t]].owner = lockOwner[t] /\ tag[addressKey[t]].wait = TRUE
      BY <2>1 DEF WordsAnnounce
    <3> QED
      BY <3>1, <3>2 DEF Words, Tag
  <2> QED
    BY <2>1, <2>2, <2>3 DEF WaitersPlaced
<1> QED
  BY CvInvariant, <1>1, PTL

(* Nobody waits in the tree of a destroyed thread: its handle is closed    *)
(* before KThread::Finalize, and neither ArbitrateLock nor Signal names a  *)
(* thread without a handle.                                                *)
THEOREM CvNoDanglingOwner == Spec => []NoDanglingOwner
<1>1. CvInv => NoDanglingOwner
  BY DEF CvInv
<1> QED
  BY CvInvariant, <1>1, PTL

-----------------------------------------------------------------------------
(* Process-wide keys use the waiter trees of KThread as those are meant to *)
(* be used: every step of KConditionVariable is a step of KThreadLocks, so *)
(* that what KThreadLocksProofs shows of priority inheritance and of the   *)
(* order of the waiters holds for guest mutexes, waits that Signal moves   *)
(* from m_tree to a waiter tree included.  KThreadLocks assumes that a     *)
(* thread waits neither for itself nor for a thread that waits for the     *)
(* same lock; here that follows from the mutex words.                      *)
(*                                                                         *)
(* The theorems are about programs that close no thread's handle while the *)
(* thread may still own a mutex (Leavers = {}): KThread::Finalize takes    *)
(* waiters out of a tree without restoring a priority, which is no step of *)
(* KThreadLocks.                                                           *)

(* The thread that a word names knows: it holds the mutex, is releasing    *)
(* it, is about to find out that it got it, or has exited with it.         *)
Knows(t, l) ==
    \/ l \in held[t]
    \/ pc[t] = "exited"
    \/ /\ mutex[t] = l
       /\ \/ pc[t] = "unlock"
          \/ pc[t] \in {"addressWait", "check"} /\ t \notin waiting
          \/ pc[t] = "cvWait" /\ t \notin waiting /\ waitResult[t] = "Success"
OwnerKnows == \A t \in Threads, l \in Keys : tag[l].owner = t => Knows(t, l)

(* A thread does not hold the mutex it is locking, releasing or has given  *)
(* up in Wait.                                                             *)
Between == {"lock", "arbitrate", "addressWait", "check", "unlock", "cvWait"}
NotHeldBetween == \A t \in Threads : pc[t] \in Between => mutex[t] \notin held[t]

OwnerInv == handles = Threads /\ OwnerKnows /\ NotHeldBetween

-----------------------------------------------------------------------------
(* The facts of the condition variable invariant that the steps need. *)
LEMMA CvFacts ==
    ASSUME CvInv
    PROVE  /\ TypeOK /\ LockTypeOK /\ WordsAnnounce /\ WordsNamed /\ WaitsInTree /\ Granted
           /\ GuestMutualExclusion /\ LoopsOK /\ NoStaleTimer /\ NoThread \notin Threads
           /\ mutex \in [Threads -> Keys] /\ held \in [Threads -> SUBSET Keys]
           /\ pc \in [Threads -> Places] /\ waitResult \in [Threads -> Results]
           /\ tag \in [Keys -> Words] /\ waiting \subseteq Threads
  BY ThreadsAssumption DEF CvInv, TypeOK, Places, Results, Words

(* Every step keeps the owners informed. *)
LEMMA OwnerStep ==
    ASSUME Leavers = {}, CvInv, OwnerInv, [Next]_vars
    PROVE  OwnerInv'
<1>i. /\ handles = Threads /\ OwnerKnows /\ NotHeldBetween
  BY DEF OwnerInv
<1>f. /\ TypeOK /\ LockTypeOK /\ WordsAnnounce /\ WordsNamed /\ WaitsInTree /\ Granted
      /\ GuestMutualExclusion /\ LoopsOK /\ NoStaleTimer /\ NoThread \notin Threads
      /\ mutex \in [Threads -> Keys] /\ held \in [Threads -> SUBSET Keys]
      /\ pc \in [Threads -> Places] /\ waitResult \in [Threads -> Results]
      /\ tag \in [Keys -> Words] /\ waiting \subseteq Threads
  BY CvFacts
<1>1. ASSUME NEW t \in Threads, NEW l \in Keys, GuestLock(t, l) PROVE OwnerInv'
  <2>1. CASE tag[l] = Free
    <3>u. UNCHANGED <<waiting, waitResult, handles>>
      BY <1>1, <2>1 DEF GuestLock, guestVars, memVars, treeVars, waitVars, refVars, loopVars,
         cvVars, lockVars
    <3>t. (tag' \in [Keys -> Words]) /\ tag'[l].owner = t
        /\ (\A k \in Keys \ {l} : tag'[k] = tag[k])
      BY <1>1, <2>1, <1>f, WordWritten DEF GuestLock
    <3>p. pc' = [pc EXCEPT ![t] = "run"] /\ mutex' = [mutex EXCEPT ![t] = l]
        /\ held' = [held EXCEPT ![t] = @ \cup {l}]
      BY <1>1, <2>1 DEF GuestLock, Goto
    <3>a. pc[t] \in {"run", "lock"}
      BY <1>1 DEF GuestLock
    <3>1. OwnerKnows'
      BY <3>u, <3>t, <3>p, <3>a, <1>i, <1>f DEF OwnerKnows, Knows
    <3>2. NotHeldBetween'
      BY <3>u, <3>t, <3>p, <3>a, <1>i, <1>f DEF NotHeldBetween, Between
    <3> QED
      BY <3>1, <3>2, <3>u, <1>i DEF OwnerInv
  <2>2. CASE tag[l] # Free
    <3>u. UNCHANGED <<waiting, waitResult, handles, held>>
      BY <1>1, <2>2 DEF GuestLock, guestVars, memVars, treeVars, waitVars, refVars, loopVars,
         cvVars, lockVars
    <3>t. (tag' \in [Keys -> Words]) /\ tag'[l].owner = tag[l].owner
        /\ (\A k \in Keys \ {l} : tag'[k] = tag[k])
      BY <1>1, <2>2, <1>f, WaitBitSet DEF GuestLock
    <3>p. pc' = [pc EXCEPT ![t] = "arbitrate"] /\ mutex' = [mutex EXCEPT ![t] = l]
      BY <1>1, <2>2 DEF GuestLock, Goto
    <3>a. (pc[t] = "run" /\ l \notin held[t]) \/ (pc[t] = "lock" /\ mutex[t] = l)
      BY <1>1 DEF GuestLock
    <3>1. OwnerKnows'
      BY <3>u, <3>t, <3>p, <3>a, <1>i, <1>f DEF OwnerKnows, Knows
    <3>2. NotHeldBetween'
      BY <3>u, <3>t, <3>p, <3>a, <1>i, <1>f DEF NotHeldBetween, Between
    <3> QED
      BY <3>1, <3>2, <3>u, <1>i DEF OwnerInv
  <2> QED
    BY <2>1, <2>2
<1>2. ASSUME NEW t \in Threads, NEW l \in Keys, GuestUnlock(t, l) PROVE OwnerInv'
  <2>a. pc[t] = "run" /\ l \in held[t] /\ tag[l].owner = t
    BY <1>2, <1>f DEF GuestUnlock, GuestMutualExclusion, Owns
  <2>1. CASE tag[l] = Tag(t, FALSE)
    <3>u. UNCHANGED <<waiting, waitResult, handles, pc, mutex>>
      BY <1>2, <2>1 DEF GuestUnlock, guestVars, memVars, treeVars, waitVars, refVars, loopVars,
         cvVars, lockVars
    <3>t. (tag' \in [Keys -> Words]) /\ tag'[l].owner = NoThread
        /\ (\A k \in Keys \ {l} : tag'[k] = tag[k])
      <4>1. Free = Tag(NoThread, FALSE)
        BY DEF Free, Tag
      <4>2. tag' = [tag EXCEPT ![l] = Free]
        BY <1>2, <2>1 DEF GuestUnlock
      <4> QED
        BY <4>1, <4>2, <1>f, WordWritten
    <3>p. held' = [held EXCEPT ![t] = @ \ {l}]
      BY <1>2 DEF GuestUnlock
    <3>a. pc[t] = "run"
      BY <2>a
    <3>1. OwnerKnows'
      BY <3>u, <3>t, <3>p, <3>a, <1>i, <1>f DEF OwnerKnows, Knows
    <3>2. NotHeldBetween'
      BY <3>u, <3>t, <3>p, <3>a, <1>i, <1>f DEF NotHeldBetween, Between
    <3> QED
      BY <3>1, <3>2, <3>u, <1>i DEF OwnerInv
  <2>2. CASE tag[l] # Tag(t, FALSE)
    <3>u. UNCHANGED <<waiting, waitResult, handles, tag>>
      BY <1>2, <2>2 DEF GuestUnlock, guestVars, memVars, treeVars, waitVars, refVars, loopVars,
         cvVars, lockVars
    <3>p. pc' = [pc EXCEPT ![t] = "unlock"] /\ mutex' = [mutex EXCEPT ![t] = l]
        /\ held' = [held EXCEPT ![t] = @ \ {l}]
      BY <1>2, <2>2 DEF GuestUnlock, Goto
    <3>a. pc[t] = "run"
      BY <2>a
    <3>1. OwnerKnows'
      BY <3>u, <3>p, <3>a, <1>i, <1>f DEF OwnerKnows, Knows
    <3>2. NotHeldBetween'
      BY <3>u, <3>p, <3>a, <1>i, <1>f DEF NotHeldBetween, Between
    <3> QED
      BY <3>1, <3>2, <3>u, <1>i DEF OwnerInv
  <2> QED
    BY <2>1, <2>2
<1>3. ASSUME NEW t \in Threads, GuestCheck(t) PROVE OwnerInv'
  <2>1. CASE tag[mutex[t]].owner = t
    <3>u. UNCHANGED <<waiting, waitResult, handles, tag, mutex>>
      BY <1>3, <2>1 DEF GuestCheck, guestVars, memVars, treeVars, waitVars, refVars, loopVars,
         cvVars, lockVars
    <3>p. pc' = [pc EXCEPT ![t] = "run"] /\ held' = [held EXCEPT ![t] = @ \cup {mutex[t]}]
      BY <1>3, <2>1 DEF GuestCheck, Goto
    <3>a. pc[t] = "check"
      BY <1>3 DEF GuestCheck
    <3>1. OwnerKnows'
      BY <3>u, <3>p, <3>a, <1>i, <1>f DEF OwnerKnows, Knows
    <3>2. NotHeldBetween'
      BY <3>u, <3>p, <3>a, <1>i, <1>f DEF NotHeldBetween, Between
    <3> QED
      BY <3>1, <3>2, <3>u, <1>i DEF OwnerInv
  <2>2. CASE tag[mutex[t]].owner # t
    <3>u. UNCHANGED <<waiting, waitResult, handles, tag, mutex, held>>
      BY <1>3, <2>2 DEF GuestCheck, guestVars, memVars, treeVars, waitVars, refVars, loopVars,
         cvVars, lockVars
    <3>p. pc' = [pc EXCEPT ![t] = "lock"]
      BY <1>3, <2>2 DEF GuestCheck, Goto
    <3>a. pc[t] = "check" /\ tag[mutex[t]].owner # t
      BY <1>3, <2>2 DEF GuestCheck
    <3>1. OwnerKnows'
      BY <3>u, <3>p, <3>a, <1>i, <1>f DEF OwnerKnows, Knows
    <3>2. NotHeldBetween'
      BY <3>u, <3>p, <3>a, <1>i, <1>f DEF NotHeldBetween, Between
    <3> QED
      BY <3>1, <3>2, <3>u, <1>i DEF OwnerInv
  <2> QED
    BY <2>1, <2>2
<1>4. ASSUME NEW t \in Threads, Exit(t) PROVE OwnerInv'
  <2>u. UNCHANGED <<waiting, waitResult, handles, tag, mutex, held>>
    BY <1>4 DEF Exit, guestVars, memVars, treeVars, waitVars, refVars, loopVars, cvVars, lockVars
  <2>p. pc' = [pc EXCEPT ![t] = "exited"]
    BY <1>4 DEF Exit, Goto
  <2>1. OwnerKnows'
    BY <2>u, <2>p, <1>i, <1>f DEF OwnerKnows, Knows
  <2>2. NotHeldBetween'
    BY <2>u, <2>p, <1>i, <1>f DEF NotHeldBetween, Between
  <2> QED
    BY <2>1, <2>2, <2>u, <1>i DEF OwnerInv
<1>5. ASSUME NEW t \in Threads, SignalToAddress(t) PROVE OwnerInv'
  <2>a. pc[t] = "unlock" /\ mutex[t] \in Keys /\ tag[mutex[t]].owner = t /\ mutex[t] \notin held[t]
    BY <1>5, <1>f, <1>i DEF SignalToAddress, GuestMutualExclusion, Owns, NotHeldBetween, Between
  <2>w. PICK w \in Threads \cup {NoThread} :
           HandOver(t, mutex[t], w) /\ EndWait({w} \cap Threads, "Success")
    BY <1>5 DEF SignalToAddress
  <2>l. PICK l \in Keys : l = mutex[t]
    BY <2>a
  <2>e. HandedOver(t, l, w)
    BY ONLY <2>w, <2>l, <2>a, <1>f, HandOverEffect
  <2>u. UNCHANGED <<handles, mutex, held>>
    BY <1>5 DEF SignalToAddress, guestVars, memVars, treeVars, waitVars, refVars, loopVars,
       cvVars, lockVars
  <2>p. \E x \in {"exited", "run"} : pc' = [pc EXCEPT ![t] = x]
    BY <1>5 DEF SignalToAddress, ReturnTo, Goto
  <2>t. (tag' \in [Keys -> Words]) /\ tag'[l].owner = w
        /\ (\A k \in Keys \ {l} : tag'[k] = tag[k])
    BY <2>e DEF HandedOver
  <2>b. w \in Threads => (w # t /\ mutex[w] = l /\ pc[w] \in {"addressWait", "cvWait"})
    BY <2>a, <2>e, <1>f DEF HandedOver, WaitsInTree
  <2>c. waiting' = waiting \ {w} /\ (w \in Threads => waitResult'[w] = "Success")
        /\ (\A u \in Threads \ {w} : waitResult'[u] = waitResult[u])
    BY <2>w, <1>f DEF EndWait
  <2>d. w \in Threads \cup {NoThread} /\ l \in Keys /\ l = mutex[t] /\ pc[t] = "unlock"
    BY <2>a, <2>w, <2>l
  <2>1. OwnerKnows'
    BY <2>u, <2>p, <2>t, <2>b, <2>c, <2>d, <1>i, <1>f DEF OwnerKnows, Knows
  <2>2. NotHeldBetween'
    BY <2>u, <2>p, <2>t, <2>b, <2>c, <2>d, <1>i, <1>f DEF NotHeldBetween, Between
  <2> QED
    BY <2>1, <2>2, <2>u, <1>i DEF OwnerInv
<1>6. ASSUME NEW t \in Threads, WaitForAddress(t) PROVE OwnerInv'
  <2>a. pc[t] = "arbitrate" /\ t \notin waiting
    BY <1>6, <1>f DEF WaitForAddress, WaitsInTree
  <2>b. tag[mutex[t]].owner # t
    BY <2>a, <1>i, <1>f DEF OwnerKnows, Knows, NotHeldBetween, Between
  <2>u. UNCHANGED <<waitResult, handles, tag, mutex, held>>
    BY <1>6 DEF WaitForAddress, guestVars, memVars, treeVars, waitVars, refVars, loopVars, cvVars,
       lockVars
  <2>p. \E x \in {"exited", "check", "addressWait"} : pc' = [pc EXCEPT ![t] = x]
    BY <1>6 DEF WaitForAddress, ReturnTo, Goto
  <2>w. waiting \subseteq waiting' /\ waiting' \subseteq waiting \cup {t}
    BY <1>6 DEF WaitForAddress
  <2>c. pc[t] = "arbitrate" /\ t \notin waiting /\ tag[mutex[t]].owner # t
    BY <2>a, <2>b
  <2>1. OwnerKnows'
    BY <2>u, <2>p, <2>w, <2>c, <1>i, <1>f DEF OwnerKnows, Knows
  <2>2. NotHeldBetween'
    BY <2>u, <2>p, <2>w, <2>c, <1>i, <1>f DEF NotHeldBetween, Between
  <2> QED
    BY <2>1, <2>2, <2>u, <1>i DEF OwnerInv
<1>7. ASSUME NEW t \in Threads, WaitForAddressReturns(t) PROVE OwnerInv'
  <2>u. UNCHANGED <<waiting, waitResult, handles, tag, mutex, held>>
    BY <1>7 DEF WaitForAddressReturns, guestVars, memVars, treeVars, waitVars, refVars, loopVars,
       cvVars, lockVars
  <2>p. \E x \in {"exited", "check"} : pc' = [pc EXCEPT ![t] = x]
    BY <1>7 DEF WaitForAddressReturns, ReturnTo, Goto
  <2>c. pc[t] = "addressWait" /\ t \notin waiting
    BY <1>7 DEF WaitForAddressReturns
  <2>1. OwnerKnows'
    BY <2>u, <2>p, <2>c, <1>i, <1>f DEF OwnerKnows, Knows
  <2>2. NotHeldBetween'
    BY <2>u, <2>p, <2>c, <1>i, <1>f DEF NotHeldBetween, Between
  <2> QED
    BY <2>1, <2>2, <2>u, <1>i DEF OwnerInv
<1>8. ASSUME NEW t \in Threads, NEW c \in CvKeys, NEW timeout \in Timeouts, Wait(t, c, timeout)
      PROVE  OwnerInv'
  <2>l. PICK l \in Keys : l = CvMutex[c]
    BY CvAssumption
  <2>a. pc[t] = "run" /\ l \in held[t] /\ tag[l].owner = t
    BY <1>8, <1>f, <2>l DEF Wait, GuestMutualExclusion, Owns
  <2>w. PICK w \in Threads \cup {NoThread} :
           /\ HandOver(t, l, w)
           /\ waiting' = (waiting \ ({w} \cap Threads)) \cup (IF timeout = "zero" THEN {} ELSE {t})
           /\ waitResult' = [u \in Threads |-> IF u \in {w} \cap Threads THEN "Success"
                                                ELSE waitResult[u]]
    BY <1>8, <2>l DEF Wait
  <2>e. HandedOver(t, l, w)
    BY ONLY <2>w, <2>l, <2>a, <1>f, HandOverEffect
  <2>u. UNCHANGED <<handles>>
    BY <1>8 DEF Wait, guestVars, memVars, treeVars, waitVars, refVars, loopVars, cvVars, lockVars
  <2>p. \E x \in {"exited", "lock", "cvWait"} : pc' = [pc EXCEPT ![t] = x]
    BY <1>8 DEF Wait, ReturnTo, Goto
  <2>t. (tag' \in [Keys -> Words]) /\ tag'[l].owner = w
        /\ (\A k \in Keys \ {l} : tag'[k] = tag[k])
    BY <2>e DEF HandedOver
  <2>b. w \in Threads => (w # t /\ mutex[w] = l /\ pc[w] \in {"addressWait", "cvWait"})
    BY <2>a, <2>e, <1>f DEF HandedOver, WaitsInTree
  <2>c. (\A u \in Threads \ {t} : u \in waiting' <=> u \in waiting \ {w})
        /\ (w \in Threads => waitResult'[w] = "Success")
        /\ (\A u \in Threads \ {w} : waitResult'[u] = waitResult[u])
    BY <2>w, <1>f
  <2>m. mutex' = [mutex EXCEPT ![t] = l] /\ held' = [held EXCEPT ![t] = @ \ {l}]
    BY <1>8, <2>l DEF Wait
  <2>d. w \in Threads \cup {NoThread} /\ l \in Keys /\ pc[t] = "run"
    BY <2>a, <2>w, <2>l
  <2>1. OwnerKnows'
    BY <2>u, <2>p, <2>t, <2>b, <2>c, <2>m, <2>d, <1>i, <1>f DEF OwnerKnows, Knows
  <2>2. NotHeldBetween'
    BY <2>u, <2>p, <2>t, <2>b, <2>c, <2>m, <2>d, <1>i, <1>f DEF NotHeldBetween, Between
  <2> QED
    BY <2>1, <2>2, <2>u, <1>i DEF OwnerInv
<1>9. ASSUME NEW t \in Threads, WaitReturns(t) PROVE OwnerInv'
  <2>p. \E x \in {"exited", "lock", "run"} : pc' = [pc EXCEPT ![t] = x]
    BY <1>9 DEF WaitReturns, ReturnTo, Goto
  <2>1. CASE waitResult[t] = "Success"
    <3>u. UNCHANGED <<waiting, waitResult, handles, tag, mutex>>
      BY <1>9, <2>1 DEF WaitReturns, guestVars, memVars, treeVars, waitVars, refVars, loopVars,
         cvVars, lockVars
    <3>p. \E x \in {"exited", "run"} : pc' = [pc EXCEPT ![t] = x]
      BY <1>9, <2>1 DEF WaitReturns, ReturnTo, Goto
    <3>h. held' = [held EXCEPT ![t] = @ \cup {mutex[t]}]
      BY <1>9, <2>1 DEF WaitReturns
    <3>c. pc[t] = "cvWait"
      BY <1>9 DEF WaitReturns
    <3>1. OwnerKnows'
      BY <3>u, <3>p, <3>h, <3>c, <1>i, <1>f DEF OwnerKnows, Knows
    <3>2. NotHeldBetween'
      BY <3>u, <3>p, <3>h, <3>c, <1>i, <1>f DEF NotHeldBetween, Between
    <3> QED
      BY <3>1, <3>2, <3>u, <1>i DEF OwnerInv
  <2>2. CASE waitResult[t] # "Success"
    <3>u. UNCHANGED <<waiting, waitResult, handles, tag, mutex>>
      BY <1>9, <2>2 DEF WaitReturns, guestVars, memVars, treeVars, waitVars, refVars, loopVars,
         cvVars, lockVars
    <3>p. \E x \in {"exited", "lock", "run"} : pc' = [pc EXCEPT ![t] = x]
      BY <2>p
    <3>h. held' = held
      BY <1>9, <2>2, <1>f DEF WaitReturns
    <3>c. pc[t] = "cvWait" /\ waitResult[t] # "Success"
      BY <1>9, <2>2 DEF WaitReturns
    <3>1. OwnerKnows'
      BY <3>u, <3>p, <3>h, <3>c, <1>i, <1>f DEF OwnerKnows, Knows
    <3>2. NotHeldBetween'
      BY <3>u, <3>p, <3>h, <3>c, <1>i, <1>f DEF NotHeldBetween, Between
    <3> QED
      BY <3>1, <3>2, <3>u, <1>i DEF OwnerInv
  <2> QED
    BY <2>1, <2>2
<1>10. ASSUME NEW t \in Threads, NEW c \in CvKeys, NEW count \in {0, 1}, Signal(t, c, count)
      PROVE  OwnerInv'
  <2>1. UNCHANGED <<handles, pc, mutex, held, tag, waiting, waitResult>>
    BY <1>10 DEF Signal, guestVars, memVars, treeVars, waitVars, refVars, loopVars, cvVars,
       lockVars
  <2> QED
    BY <2>1, <1>i DEF OwnerInv, OwnerKnows, Knows, NotHeldBetween
<1>11. ASSUME NEW t \in Threads, SignalIteration(t) PROVE OwnerInv'
  <2>a. pc[t] = "cvWait" /\ t \in waiting
    BY <1>11, <1>f DEF SignalIteration, LoopsOK, WaitsInTree
  <2>l. PICK l \in Keys : l = mutex[t]
    BY <1>f
  <2>m. SignalImpl(t)
    BY <1>11 DEF SignalIteration
  <2>1. CASE tag[l] = Free
    <3>u. UNCHANGED <<handles, pc, mutex, held>>
      BY <1>11 DEF SignalIteration, guestVars, memVars, treeVars, waitVars, refVars, loopVars,
         cvVars, lockVars
    <3>t. (tag' \in [Keys -> Words]) /\ tag'[l].owner = t
        /\ (\A k \in Keys \ {l} : tag'[k] = tag[k])
      BY <2>1, <2>m, <2>l, <1>f, WordWritten DEF SignalImpl
    <3>e. waiting' = waiting \ {t} /\ waitResult'[t] = "Success"
        /\ (\A u \in Threads \ {t} : waitResult'[u] = waitResult[u])
      BY <2>1, <2>m, <2>l, <1>f DEF SignalImpl, EndWait
    <3>d. pc[t] = "cvWait" /\ l = mutex[t] /\ l \in Keys
      BY <2>a, <2>l
    <3>1. OwnerKnows'
      BY <3>u, <3>t, <3>e, <3>d, <1>i, <1>f DEF OwnerKnows, Knows
    <3>2. NotHeldBetween'
      BY <3>u, <3>t, <3>e, <3>d, <1>i, <1>f DEF NotHeldBetween, Between
    <3> QED
      BY <3>1, <3>2, <3>u, <1>i DEF OwnerInv
  <2>2. CASE tag[l] # Free
    <3>u. UNCHANGED <<handles, pc, mutex, held>>
      BY <1>11 DEF SignalIteration, guestVars, memVars, treeVars, waitVars, refVars, loopVars,
         cvVars, lockVars
    <3>t. (tag' \in [Keys -> Words]) /\ tag'[l].owner = tag[l].owner
        /\ (\A k \in Keys \ {l} : tag'[k] = tag[k])
      BY <2>2, <2>m, <2>l, <1>f, WaitBitSet DEF SignalImpl
    <3>o. tag[l].owner \in Threads
      BY <2>2, <2>l, <1>f, FreeWords DEF Words
    <3>e. UNCHANGED <<waiting, waitResult>>
      BY <2>2, <2>m, <2>l, <3>o, <1>i DEF SignalImpl, waitVars
    <3>1. OwnerKnows'
      BY <3>u, <3>t, <3>o, <3>e, <1>i, <1>f DEF OwnerKnows, Knows
    <3>2. NotHeldBetween'
      BY <3>u, <3>t, <3>o, <3>e, <1>i, <1>f DEF NotHeldBetween, Between
    <3> QED
      BY <3>1, <3>2, <3>u, <1>i DEF OwnerInv
  <2> QED
    BY <2>1, <2>2
<1>12. ASSUME NEW t \in Threads, OnTimer(t) PROVE OwnerInv'
  <2>a. t \in waiting
    BY <1>12, <1>f DEF OnTimer, NoStaleTimer
  <2>u. UNCHANGED <<handles, pc, mutex, held, tag>>
    BY <1>12, <2>a DEF OnTimer, CancelWait, guestVars, memVars, treeVars, waitVars, refVars,
       loopVars, cvVars, lockVars
  <2>w. waiting' = waiting \ {t} /\ (\A u \in Threads \ {t} : waitResult'[u] = waitResult[u])
    BY <1>12, <2>a, <1>f DEF OnTimer, CancelWait
  <2>c. pc[t] \in {"addressWait", "cvWait"} /\ t \in waiting
    BY <2>a, <1>f DEF WaitsInTree
  <2>1. OwnerKnows'
    BY <2>u, <2>w, <2>c, <1>i, <1>f DEF OwnerKnows, Knows
  <2>2. NotHeldBetween'
    BY <2>u, <2>w, <2>c, <1>i, <1>f DEF NotHeldBetween, Between
  <2> QED
    BY <2>1, <2>2, <2>u, <1>i DEF OwnerInv
<1>13. ASSUME NEW t \in Threads, RequestTerminate(t) PROVE OwnerInv'
  <2>1. UNCHANGED <<handles, pc, mutex, held, tag, waiting, waitResult>>
    BY <1>13 DEF RequestTerminate, guestVars, memVars, treeVars, waitVars, refVars, loopVars,
       cvVars, lockVars
  <2> QED
    BY <2>1, <1>i DEF OwnerInv, OwnerKnows, Knows, NotHeldBetween
<1>14. ASSUME NEW t \in Threads, TerminateCancelsWait(t) PROVE OwnerInv'
  <2>a. t \in waiting
    BY <1>14, <1>f DEF TerminateCancelsWait, LoopsOK
  <2>u. UNCHANGED <<handles, pc, mutex, held, tag>>
    BY <1>14, <2>a DEF TerminateCancelsWait, CancelWait, guestVars, memVars, treeVars, waitVars,
       refVars, loopVars, cvVars, lockVars
  <2>w. waiting' = waiting \ {t} /\ (\A u \in Threads \ {t} : waitResult'[u] = waitResult[u])
    BY <1>14, <2>a, <1>f DEF TerminateCancelsWait, CancelWait
  <2>c. pc[t] \in {"addressWait", "cvWait"} /\ t \in waiting
    BY <2>a, <1>f DEF WaitsInTree
  <2>1. OwnerKnows'
    BY <2>u, <2>w, <2>c, <1>i, <1>f DEF OwnerKnows, Knows
  <2>2. NotHeldBetween'
    BY <2>u, <2>w, <2>c, <1>i, <1>f DEF NotHeldBetween, Between
  <2> QED
    BY <2>1, <2>2, <2>u, <1>i DEF OwnerInv
<1>15. ASSUME NEW t \in Threads, NEW p \in Priorities, ChangePriority(t, p) PROVE OwnerInv'
  <2>1. UNCHANGED <<handles, pc, mutex, held, tag, waiting, waitResult>>
    BY <1>15 DEF ChangePriority, guestVars, memVars, treeVars, waitVars, refVars, loopVars,
       cvVars, lockVars
  <2> QED
    BY <2>1, <1>i DEF OwnerInv, OwnerKnows, Knows, NotHeldBetween
<1>16. ASSUME NEW t \in Threads, CloseHandle(t) PROVE OwnerInv'
  BY <1>16 DEF CloseHandle
<1>17. ASSUME NEW t \in Threads, Finalize(t) PROVE OwnerInv'
  BY <1>17, <1>i DEF Finalize
<1>18. ASSUME SignalReturns PROVE OwnerInv'
  <2>1. UNCHANGED <<handles, pc, mutex, held, tag, waiting, waitResult>>
    BY <1>18 DEF SignalReturns, guestVars, memVars, treeVars, waitVars, refVars, loopVars, cvVars,
       lockVars
  <2> QED
    BY <2>1, <1>i DEF OwnerInv, OwnerKnows, Knows, NotHeldBetween
<1>19. ASSUME Restore PROVE OwnerInv'
  <2>1. UNCHANGED <<handles, pc, mutex, held, tag, waiting, waitResult>>
    BY <1>19 DEF Restore, guestVars, memVars, treeVars, waitVars, refVars, loopVars, cvVars,
       lockVars
  <2> QED
    BY <2>1, <1>i DEF OwnerInv, OwnerKnows, Knows, NotHeldBetween
<1>20. CASE UNCHANGED vars
  BY <1>i, <1>20 DEF OwnerInv, OwnerKnows, Knows, NotHeldBetween, vars, guestVars, memVars,
     treeVars, waitVars, refVars, loopVars, cvVars, lockVars
<1> QED
  BY CvCases,
     <1>1, <1>2, <1>3, <1>4, <1>5, <1>6, <1>7, <1>8, <1>9, <1>10, <1>11, <1>12, <1>13,
     <1>14, <1>15, <1>16, <1>17, <1>18, <1>19, <1>20 DEF CvAction


-----------------------------------------------------------------------------
(* A thread that starts to wait may: the word it waits on names somebody   *)
(* who knows, so neither itself nor another waiter of the same mutex.      *)
LEMMA MayQueue ==
    ASSUME CvInv, OwnerInv, NEW t \in Threads, NEW l \in Keys, l = mutex[t],
           NEW o \in Threads, tag[l].owner = o, lockOwner[t] = NoThread,
           pc[t] \in {"arbitrate", "cvWait"}, pc[t] = "cvWait" => t \in waiting
    PROVE  MayWaitFor(t, o, l)
<1>f. /\ LockTypeOK /\ WordsAnnounce /\ WaitsInTree /\ NoThread \notin Threads
      /\ mutex \in [Threads -> Keys] /\ held \in [Threads -> SUBSET Keys]
  BY CvFacts
<1>1. t # o
  BY <1>f DEF OwnerInv, OwnerKnows, Knows, NotHeldBetween, Between
<1>2. WaitersOn(t, l) = {}
  BY <1>1, <1>f DEF WaitersOn, Waiters, WordsAnnounce
<1>3. ASSUME lockOwner[o] # NoThread, addressKey[o] = l PROVE FALSE
  <2>1. lockOwner[o] = o
    BY <1>3, <1>f DEF WordsAnnounce
  <2>2. o \in waiting /\ mutex[o] = l /\ pc[o] \in {"addressWait", "cvWait"}
    BY <1>3, <1>f DEF WaitsInTree
  <2> QED
    BY <2>2, <1>f DEF OwnerInv, OwnerKnows, Knows, NotHeldBetween, Between
<1> QED
  BY <1>1, <1>2, <1>3 DEF MayWaitFor

(* Handing a mutex over is a step of the waiter trees. *)
LEMMA HandOverLocks ==
    ASSUME Idle, NEW t \in Threads, NEW l \in Keys, NEW w \in Threads \cup {NoThread},
           HandOver(t, l, w)
    PROVE  [LockNext]_lockVars
<1>1. CASE w = NoThread
  BY <1>1, ThreadsAssumption DEF HandOver
<1>2. CASE w \in Threads
  <2>1. RemoveWaiterByKey(t, l, w)
    BY <1>2, ThreadsAssumption DEF HandOver
  <2> QED
    BY <1>2, <2>1 DEF LockNext
<1> QED
  BY <1>1, <1>2

(* Cancelling a wait is one, too. *)
LEMMA CancelLocks ==
    ASSUME Idle, LockTypeOK, NEW t \in Threads, NEW r, CancelWait(t, r)
    PROVE  [LockNext]_lockVars
<1>1. CASE lockOwner[t] = NoThread
  BY <1>1 DEF CancelWait
<1>2. CASE lockOwner[t] # NoThread
  <2>1. RemoveWaiter(lockOwner[t], t) /\ lockOwner[t] \in Threads
    BY <1>2 DEF CancelWait, LockTypeOK
  <2> QED
    BY <2>1 DEF LockNext
<1> QED
  BY <1>1, <1>2

(* Every step of KConditionVariable is a step of KThreadLocks. *)
LEMMA LocksStep ==
    ASSUME Leavers = {}, CvInv, OwnerInv, [Next]_vars
    PROVE  [LockNext]_lockVars
<1>i. handles = Threads
  BY DEF OwnerInv
<1>f. /\ TypeOK /\ LockTypeOK /\ WordsAnnounce /\ WordsNamed /\ WaitsInTree
      /\ LoopsOK /\ NoStaleTimer /\ NoThread \notin Threads
      /\ mutex \in [Threads -> Keys] /\ tag \in [Keys -> Words]
  BY CvFacts
<1>1. ASSUME NEW t \in Threads, NEW l \in Keys, GuestLock(t, l) PROVE [LockNext]_lockVars
  BY <1>1 DEF GuestLock
<1>2. ASSUME NEW t \in Threads, NEW l \in Keys, GuestUnlock(t, l) PROVE [LockNext]_lockVars
  BY <1>2 DEF GuestUnlock
<1>3. ASSUME NEW t \in Threads, GuestCheck(t) PROVE [LockNext]_lockVars
  BY <1>3 DEF GuestCheck
<1>4. ASSUME NEW t \in Threads, Exit(t) PROVE [LockNext]_lockVars
  BY <1>4 DEF Exit
<1>5. ASSUME NEW t \in Threads, SignalToAddress(t) PROVE [LockNext]_lockVars
  <2>1. PICK w \in Threads \cup {NoThread} : HandOver(t, mutex[t], w)
    BY <1>5 DEF SignalToAddress
  <2>2. Idle /\ mutex[t] \in Keys
    BY <1>5, <1>f DEF SignalToAddress, SchedulerUnlocked
  <2> QED
    BY <2>1, <2>2, HandOverLocks
<1>6. ASSUME NEW t \in Threads, WaitForAddress(t) PROVE [LockNext]_lockVars
  <2>1. CASE ~ MustWait(t)
    BY <1>6, <2>1 DEF WaitForAddress
  <2>2. CASE MustWait(t)
    <3>1. PICK o \in Threads : o = seen[t] /\ tag[mutex[t]] = Tag(o, TRUE)
      BY <2>2, <1>i DEF MustWait
    <3>2. tag[mutex[t]].owner = o
      BY <3>1 DEF Tag
    <3>3. Idle /\ AddWaiter(o, t, mutex[t]) /\ mutex[t] \in Keys
      BY <1>6, <2>2, <3>1, <1>f DEF WaitForAddress, SchedulerUnlocked
    <3>4. pc[t] = "arbitrate" /\ lockOwner[t] = NoThread
      BY <1>6, <1>f DEF WaitForAddress, WaitsInTree
    <3>5. MayWaitFor(t, o, mutex[t])
      BY <3>2, <3>3, <3>4, MayQueue
    <3> QED
      BY <3>3, <3>5 DEF LockNext
  <2> QED
    BY <2>1, <2>2
<1>7. ASSUME NEW t \in Threads, WaitForAddressReturns(t) PROVE [LockNext]_lockVars
  BY <1>7 DEF WaitForAddressReturns
<1>8. ASSUME NEW t \in Threads, NEW c \in CvKeys, NEW timeout \in Timeouts, Wait(t, c, timeout)
      PROVE  [LockNext]_lockVars
  <2>1. PICK w \in Threads \cup {NoThread} : HandOver(t, CvMutex[c], w)
    BY <1>8 DEF Wait
  <2>2. Idle /\ CvMutex[c] \in Keys
    BY <1>8, CvAssumption DEF Wait, SchedulerUnlocked
  <2> QED
    BY <2>1, <2>2, HandOverLocks
<1>9. ASSUME NEW t \in Threads, WaitReturns(t) PROVE [LockNext]_lockVars
  BY <1>9 DEF WaitReturns
<1>10. ASSUME NEW t \in Threads, NEW c \in CvKeys, NEW count \in {0, 1}, Signal(t, c, count)
      PROVE  [LockNext]_lockVars
  BY <1>10 DEF Signal
<1>11. ASSUME NEW t \in Threads, SignalIteration(t) PROVE [LockNext]_lockVars
  <2>1. Idle /\ SignalImpl(t) /\ mutex[t] \in Keys
    BY <1>11, <1>f DEF SignalIteration
  <2>2. pc[t] = "cvWait" /\ t \in waiting /\ lockOwner[t] = NoThread
    BY <1>11, <1>f DEF SignalIteration, LoopsOK, WaitsInTree
  <2>3. CASE tag[mutex[t]] = Free
    BY <2>1, <2>3 DEF SignalImpl
  <2>4. CASE tag[mutex[t]] # Free
    <3>1. PICK o \in Threads : o = tag[mutex[t]].owner
      BY <2>1, <2>4, <1>f, FreeWords DEF Words
    <3>2. AddWaiter(o, t, mutex[t])
      BY <2>1, <2>4, <3>1, <1>i DEF SignalImpl
    <3>3. MayWaitFor(t, o, mutex[t])
      BY <2>1, <2>2, <3>1, MayQueue
    <3> QED
      BY <2>1, <3>2, <3>3 DEF LockNext
  <2> QED
    BY <2>3, <2>4
<1>12. ASSUME NEW t \in Threads, OnTimer(t) PROVE [LockNext]_lockVars
  <2>1. Idle /\ CancelWait(t, "TimedOut")
    BY <1>12, <1>f DEF OnTimer, NoStaleTimer, SchedulerUnlocked
  <2> QED
    BY <2>1, <1>f, CancelLocks
<1>13. ASSUME NEW t \in Threads, RequestTerminate(t) PROVE [LockNext]_lockVars
  <2>1. CASE base[t] > TerminatingThreadPriority
    BY <1>13, <2>1, CallersAssumption DEF RequestTerminate, SchedulerUnlocked, LockNext
  <2>2. CASE ~ (base[t] > TerminatingThreadPriority)
    BY <1>13, <2>2 DEF RequestTerminate
  <2> QED
    BY <2>1, <2>2
<1>14. ASSUME NEW t \in Threads, TerminateCancelsWait(t) PROVE [LockNext]_lockVars
  <2>1. Idle /\ CancelWait(t, "TerminationRequested")
    BY <1>14 DEF TerminateCancelsWait
  <2> QED
    BY <2>1, <1>f, CancelLocks
<1>15. ASSUME NEW t \in Threads, NEW p \in Priorities, ChangePriority(t, p)
      PROVE  [LockNext]_lockVars
  BY <1>15 DEF ChangePriority, SchedulerUnlocked, LockNext
<1>16. ASSUME NEW t \in Threads, CloseHandle(t) PROVE [LockNext]_lockVars
  BY <1>16 DEF CloseHandle
<1>17. ASSUME NEW t \in Threads, Finalize(t) PROVE [LockNext]_lockVars
  BY <1>17, <1>i DEF Finalize
<1>18. ASSUME SignalReturns PROVE [LockNext]_lockVars
  BY <1>18 DEF SignalReturns
<1>19. ASSUME Restore PROVE [LockNext]_lockVars
  BY <1>19 DEF Restore, LockNext
<1>20. CASE UNCHANGED vars
  BY <1>20 DEF vars
<1> QED
  BY CvCases,
     <1>1, <1>2, <1>3, <1>4, <1>5, <1>6, <1>7, <1>8, <1>9, <1>10, <1>11, <1>12, <1>13,
     <1>14, <1>15, <1>16, <1>17, <1>18, <1>19, <1>20 DEF CvAction

-----------------------------------------------------------------------------
(* Guest mutexes and condition variables use the waiter trees of KThread   *)
(* as LockNext allows: no call of AddWaiter, RemoveWaiter or               *)
(* RemoveWaiterByKey from k_condition_variable.cpp puts a thread behind    *)
(* itself, or behind a thread that waits for the same mutex.               *)
THEOREM CvImplementsLocks == Leavers = {} => (Spec => LockSpec)
<1> SUFFICES ASSUME Leavers = {} PROVE Spec => LockSpec
  OBVIOUS
<1>1. Init => LockInit /\ OwnerInv
  BY ThreadsAssumption, WordFacts
     DEF Init, OwnerInv, OwnerKnows, Knows, NotHeldBetween, Between
<1>2. CvInv /\ OwnerInv /\ [Next]_vars => OwnerInv'
  BY OwnerStep
<1>3. CvInv /\ OwnerInv /\ [Next]_vars => [LockNext]_lockVars
  BY LocksStep
<1> QED
  BY CvInvariant, <1>1, <1>2, <1>3, PTL DEF Spec, LockSpec

(* So the owner of a guest mutex inherits the best priority of the threads *)
(* it blocks, those included that Signal moves to its tree from a          *)
(* condition variable (RestorePriority, SignalImpl).                       *)
THEOREM CvPriorityInheritance == Leavers = {} => (Spec => []PriorityInheritance)
  BY CvImplementsLocks, PriorityInheritanceCorrect, PTL

(* And of the threads that wait for those, through any chain of mutexes.   *)
THEOREM CvTransitiveInheritance == Leavers = {} => (Spec => []TransitiveInheritance)
  BY CvImplementsLocks, TransitiveInheritanceCorrect, PTL

(* And a mutex goes to its waiters of equal priority in the order in which *)
(* they were queued, by ArbitrateLock or by Signal.                        *)
THEOREM CvWaitOrder == Leavers = {} => (Spec => []WaitOrder)
  BY CvImplementsLocks, WaitOrderCorrect, PTL

-----------------------------------------------------------------------------
(* Condition variable words.  Signal may clear one although a thread waits *)
(* for it, when a thread in m_tree owns a mutex: SignalImpl queues behind  *)
(* that owner, RestorePriority moves it in m_tree, and the iterator of     *)
(* Signal has passed its new place.  That is the only way: as long as      *)
(* nobody in m_tree owns a mutex, the iterator is at the first waiter.     *)
OwnsNothingInTree == \A t \in Threads, l \in Keys : condvar[t] # NoKey => tag[l].owner # t

(* The word of each thread in m_tree is set; during Signal it is still     *)
(* set, the iterator is at the first waiter of the key, and a priority is  *)
(* restored only of a thread that others wait for.                         *)
KeysFlagged == \A t \in Threads : condvar[t] # NoKey => flag[condvar[t]]
AtFirst ==
    signalling # NoSignal =>
       /\ flag[signalling.key]
       /\ IsFirstOf(signalling.it, CvWaiters(signalling.key))
       /\ restoring # NoThread => \E u \in Threads : lockOwner[u] = restoring
FlagInv == KeysFlagged /\ AtFirst

(* The first thread in a part of m_tree depends on the places in that part. *)
LEMMA FirstDependsOn ==
    ASSUME NEW i, NEW ws \in SUBSET Threads, IsFirstOf(i, ws),
           \A u, w \in ws : TreeBefore(u, w) => TreeBefore(u, w)'
    PROVE  IsFirstOf(i, ws)'
  BY DEF IsFirstOf

(* Steps outside Signal that set the word of each thread they put into     *)
(* m_tree keep the words.                                                  *)
LEMMA FlagsOutsideSignal ==
    ASSUME KeysFlagged, signalling' = NoSignal,
           \A t \in Threads : \/ condvar'[t] = NoKey
                              \/ condvar'[t] = condvar[t] /\ flag'[condvar[t]] = flag[condvar[t]]
                              \/ flag'[condvar'[t]] = TRUE
    PROVE  FlagInv'
<1>1. AtFirst'
  BY DEF AtFirst
<1>2. KeysFlagged'
  BY DEF KeysFlagged
<1> QED
  BY <1>1, <1>2 DEF FlagInv

(* Steps that concern neither words nor trees keep them. *)
LEMMA FlagsElsewhere ==
    ASSUME FlagInv, UNCHANGED <<flag, condvar, cvBefore, signalling, lockVars>>
    PROVE  FlagInv'
<1>1. KeysFlagged'
  BY DEF FlagInv, KeysFlagged
<1>2. IsFirstOf(signalling.it, CvWaiters(signalling.key))
         <=> IsFirstOf(signalling.it, CvWaiters(signalling.key))'
  BY DEF IsFirstOf, CvWaiters, TreeBefore, lockVars
<1>3. AtFirst'
  BY <1>2 DEF FlagInv, AtFirst, lockVars
<1> QED
  BY <1>1, <1>3 DEF FlagInv

(* Signal starts at the first waiter. *)
LEMMA SignalFlags ==
    ASSUME CvInv, FlagInv, NEW t \in Threads, NEW c \in CvKeys, NEW count, Signal(t, c, count)
    PROVE  FlagInv'
<1>1. KeysFlagged'
  BY DEF Signal, FlagInv, KeysFlagged, memVars, treeVars
<1>2. PICK i \in Threads \cup {NoThread} :
         IsFirstOf(i, CvWaiters(c)) /\ signalling'.key = c /\ signalling'.it = i
  BY DEF Signal
<1>3. IsFirstOf(i, CvWaiters(c))'
  BY <1>2 DEF Signal, IsFirstOf, CvWaiters, TreeBefore, lockVars, treeVars
<1>4. flag'[c] /\ restoring' = NoThread
  BY DEF Signal, memVars, SchedulerUnlocked, lockVars, Idle
<1>5. AtFirst'
  BY <1>2, <1>3, <1>4 DEF AtFirst
<1> QED
  BY <1>1, <1>5 DEF FlagInv

(* An iteration takes the first waiter out and leaves the iterator at the   *)
(* first of the rest; only the owner that the waiter queues behind may have *)
(* its priority restored.                                                   *)
LEMMA SignalIterationFlags ==
    ASSUME CvInv, FlagInv, NEW w \in Threads, SignalIteration(w)
    PROVE  FlagInv'
<1>1. /\ signalling.it = w /\ w # NoThread /\ signalling.key # NoKey
      /\ condvar[w] = signalling.key /\ signalling # NoSignal
      /\ condvar \in [Threads -> CvKeys \cup {NoKey}]
      /\ mutex[w] \in Keys /\ lockOwner \in [Threads -> Threads \cup {NoThread}]
      /\ cvBefore \in SUBSET (Threads \X Threads) /\ NoThread \notin Threads
  BY ThreadsAssumption DEF SignalIteration, CvInv, LoopsOK, TypeOK, NoSignal, LockTypeOK
<1>2. PICK c : c = signalling.key
  OBVIOUS
<1>3. PICK ws : ws = CvWaiters(c)
  OBVIOUS
<1>4. flag[c] /\ IsFirstOf(w, ws) /\ w \in ws
  BY <1>1, <1>2, <1>3 DEF FlagInv, AtFirst, IsFirstOf, CvWaiters
<1>5. {u \in ws \ {w} : TreeBefore(w, u)} = ws \ {w}
  BY <1>1, <1>4 DEF IsFirstOf
<1>6. PICK i \in Threads \cup {NoThread} :
         /\ IsFirstOf(i, {u \in CvWaiters(signalling.key) \ {w} : TreeBefore(w, u)})
         /\ signalling' = [signalling EXCEPT !.left = @ - 1, !.it = i]
  BY DEF SignalIteration
<1>7. IsFirstOf(i, ws \ {w}) /\ signalling'.it = i /\ signalling'.key = c
  BY <1>2, <1>3, <1>5, <1>6 DEF CvInv, TypeOK
<1>8. /\ condvar' = [condvar EXCEPT ![w] = NoKey] /\ cvBefore' = Without(cvBefore, w)
      /\ SignalImpl(w) /\ flag' = flag /\ restoring = NoThread
  BY DEF SignalIteration, Idle
<1>9. prio' = prio
  BY <1>8 DEF SignalImpl, AddWaiter, lockVars
<1>10. CvWaiters(c)' = ws \ {w}
  BY <1>1, <1>2, <1>3, <1>8 DEF CvWaiters
<1>11. \A u, v \in ws \ {w} : TreeBefore(u, v) => TreeBefore(u, v)'
  <2> SUFFICES ASSUME NEW u \in ws \ {w}, NEW v \in ws \ {w}, TreeBefore(u, v)
               PROVE  TreeBefore(u, v)'
    OBVIOUS
  <2>1. <<u, v>> \in cvBefore => <<u, v>> \in cvBefore'
    BY <1>8, WithoutPair
  <2> QED
    BY <1>9, <2>1 DEF TreeBefore
<1>12. PICK vs : vs = ws \ {w}
  OBVIOUS
<1>13. vs \in SUBSET Threads
  BY <1>3, <1>12 DEF CvWaiters
<1>14. IsFirstOf(i, vs)'
  BY <1>7, <1>11, <1>12, <1>13, FirstDependsOn
<1>15. restoring' # NoThread => \E u \in Threads : lockOwner'[u] = restoring'
  BY <1>1, <1>8 DEF SignalImpl, AddWaiter, lockVars
<1>16. IsFirstOf(signalling.it, CvWaiters(signalling.key))'
  BY <1>7, <1>10, <1>12, <1>14
<1>17. AtFirst'
  BY <1>4, <1>7, <1>8, <1>15, <1>16 DEF AtFirst
<1>18. KeysFlagged'
  BY <1>1, <1>8 DEF KeysFlagged, FlagInv
<1> QED
  BY <1>17, <1>18 DEF FlagInv

(* Signal clears the word when the iterator is at the end, and then nobody  *)
(* waits for it.                                                            *)
LEMMA SignalReturnsFlags ==
    ASSUME CvInv, FlagInv, SignalReturns
    PROVE  FlagInv'
<1>1. /\ flag \in [CvKeys -> BOOLEAN] /\ condvar \in [Threads -> CvKeys \cup {NoKey}]
      /\ signalling.key \in CvKeys /\ NoThread \notin Threads /\ NoKey \notin CvKeys
  BY ThreadsAssumption, CvAssumption DEF SignalReturns, CvInv, LoopsOK, TypeOK
<1>2. IsFirstOf(signalling.it, CvWaiters(signalling.key)) /\ signalling' = NoSignal
  BY DEF SignalReturns, FlagInv, AtFirst
<1>3. ASSUME NEW t \in Threads, condvar[t] # NoKey
      PROVE  condvar'[t] = condvar[t] /\ flag'[condvar[t]] = flag[condvar[t]]
  <2>1. CASE signalling.it = NoThread
    <3>1. CvWaiters(signalling.key) = {}
      BY <1>1, <1>2, <2>1 DEF IsFirstOf, CvWaiters
    <3>2. condvar[t] # signalling.key
      BY <3>1 DEF CvWaiters
    <3> QED
      BY <1>1, <1>3, <3>2 DEF SignalReturns, treeVars
  <2>2. CASE signalling.it # NoThread
    BY <1>1, <1>3, <2>2 DEF SignalReturns, treeVars
  <2> QED
    BY <2>1, <2>2
<1>4. \A t \in Threads : condvar[t] = NoKey => condvar'[t] = NoKey
  BY DEF SignalReturns, treeVars
<1>5. KeysFlagged
  BY DEF FlagInv
<1> QED
  BY <1>2, <1>3, <1>4, <1>5, FlagsOutsideSignal

(* While Signal runs, RestorePriority only passes through owners of         *)
(* mutexes, and these are not in m_tree.                                    *)
LEMMA RestoreFlags ==
    ASSUME CvInv, FlagInv, OwnsNothingInTree, Restore
    PROVE  FlagInv'
<1>1. /\ restoring \in Threads /\ lockOwner' = lockOwner
      /\ lockOwner \in [Threads -> Threads \cup {NoThread}]
      /\ prio \in [Threads -> Priorities]
      /\ \A u \in Threads \ {restoring} : prio'[u] = prio[u]
      /\ restoring' \in {NoThread, lockOwner[restoring]}
  BY DEF Restore, RestoreStep, RestoreIteration, CvInv, TypeOK, LockTypeOK
<1>2. UNCHANGED <<flag, condvar, signalling>>
  BY DEF Restore, memVars, loopVars
<1>3. KeysFlagged'
  BY <1>2 DEF FlagInv, KeysFlagged
<1>4. ASSUME signalling # NoSignal
      PROVE  IsFirstOf(signalling.it, CvWaiters(signalling.key))'
  <2>1. PICK u \in Threads : lockOwner[u] = restoring
    BY <1>1, <1>4, ThreadsAssumption DEF FlagInv, AtFirst
  <2>2. addressKey[u] \in Keys /\ tag[addressKey[u]].owner = restoring
    BY <1>1, <2>1, ThreadsAssumption DEF CvInv, WordsAnnounce, TypeOK, LockTypeOK
  <2>3. condvar[restoring] = NoKey
    BY <1>1, <2>2 DEF OwnsNothingInTree
  <2>4. cvBefore' = cvBefore
    BY <2>3 DEF Restore
  <2>5. PICK ws : ws = CvWaiters(signalling.key)
    OBVIOUS
  <2>6. ws \in SUBSET Threads /\ restoring \notin ws
    <3>1. signalling.key # NoKey
      BY <1>4 DEF CvInv, LoopsOK
    <3> QED
      BY <2>3, <2>5, <3>1 DEF CvWaiters
  <2>7. \A v, w \in ws : TreeBefore(v, w) => TreeBefore(v, w)'
    BY <1>1, <2>4, <2>6 DEF TreeBefore
  <2>8. PICK i : i = signalling.it
    OBVIOUS
  <2>9. IsFirstOf(i, ws)
    BY <1>4, <2>5, <2>8 DEF FlagInv, AtFirst
  <2>10. IsFirstOf(i, ws)'
    BY <2>6, <2>7, <2>9, FirstDependsOn
  <2>11. CvWaiters(signalling.key)' = ws /\ signalling'.it = i
    BY <1>2, <2>5, <2>8 DEF CvWaiters
  <2> QED
    BY <2>10, <2>11
<1>5. restoring' # NoThread => \E u \in Threads : lockOwner'[u] = restoring'
  BY <1>1
<1>6. AtFirst'
  BY <1>2, <1>4, <1>5 DEF AtFirst, FlagInv
<1> QED
  BY <1>3, <1>6 DEF FlagInv

(* Every step keeps the words, as long as no thread in m_tree owns a mutex. *)
LEMMA FlagStep ==
    ASSUME CvInv, FlagInv, OwnsNothingInTree, [Next]_vars
    PROVE  FlagInv'
<1>i. /\ KeysFlagged /\ flag \in [CvKeys -> BOOLEAN] /\ NoKey \notin CvKeys
      /\ condvar \in [Threads -> CvKeys \cup {NoKey}]
  BY CvAssumption DEF FlagInv, CvInv, TypeOK
<1>1. ASSUME NEW t \in Threads,
             (\E l \in Keys : GuestLock(t, l) \/ GuestUnlock(t, l)) \/ GuestCheck(t) \/ Exit(t)
      PROVE  FlagInv'
  <2>1. UNCHANGED <<flag, condvar, cvBefore, signalling, lockVars>>
    BY <1>1 DEF GuestLock, GuestUnlock, GuestCheck, Exit, memVars, treeVars, loopVars
  <2> QED
    BY <2>1, FlagsElsewhere
<1>2. ASSUME NEW t \in Threads,
             \/ SignalToAddress(t) \/ WaitForAddress(t) \/ WaitForAddressReturns(t)
             \/ WaitReturns(t) \/ RequestTerminate(t) \/ CloseHandle(t) \/ Finalize(t)
             \/ \E p \in Priorities : ChangePriority(t, p)
      PROVE  FlagInv'
  <2>1. UNCHANGED <<flag, condvar>> /\ signalling' = NoSignal
    BY <1>2 DEF SignalToAddress, WaitForAddress, WaitForAddressReturns, WaitReturns,
                RequestTerminate, CloseHandle, Finalize, ChangePriority, SchedulerUnlocked,
                cvVars, memVars, treeVars, loopVars
  <2> QED
    BY <1>i, <2>1, FlagsOutsideSignal
<1>3. ASSUME NEW t \in Threads, NEW c \in CvKeys, NEW timeout \in Timeouts, Wait(t, c, timeout)
      PROVE  FlagInv'
  <2>1. flag' = [flag EXCEPT ![c] = TRUE] /\ signalling' = NoSignal
    BY <1>3 DEF Wait, SchedulerUnlocked, loopVars
  <2>2. condvar' = condvar \/ condvar' = [condvar EXCEPT ![t] = c]
    BY <1>3 DEF Wait, treeVars
  <2>3. ASSUME NEW u \in Threads, condvar'[u] # NoKey
        PROVE  \/ condvar'[u] = condvar[u] /\ flag'[condvar[u]] = flag[condvar[u]]
               \/ flag'[condvar'[u]] = TRUE
    <3>1. CASE condvar'[u] = c
      BY <1>i, <2>1, <3>1
    <3>2. CASE condvar'[u] # c
      BY <1>i, <2>1, <2>2, <2>3, <3>2
    <3> QED
      BY <3>1, <3>2
  <2> QED
    BY <1>i, <2>1, <2>3, FlagsOutsideSignal
<1>4. ASSUME NEW t \in Threads, OnTimer(t) \/ TerminateCancelsWait(t)
      PROVE  FlagInv'
  <2>1. flag' = flag /\ (condvar' = condvar \/ condvar' = [condvar EXCEPT ![t] = NoKey])
    BY <1>4 DEF OnTimer, TerminateCancelsWait, CancelWait, memVars, treeVars
  <2>2. signalling' = NoSignal
    BY <1>4, ThreadsAssumption
       DEF OnTimer, TerminateCancelsWait, SchedulerUnlocked, loopVars, CvInv, LoopsOK
  <2>3. \A u \in Threads : condvar'[u] = NoKey \/ condvar'[u] = condvar[u]
    BY <1>i, <2>1
  <2> QED
    BY <1>i, <2>1, <2>2, <2>3, FlagsOutsideSignal
<1>5. ASSUME UNCHANGED vars
      PROVE  FlagInv'
  <2>1. UNCHANGED <<flag, condvar, cvBefore, signalling, lockVars>>
    BY <1>5 DEF vars, cvVars, memVars, treeVars, loopVars
  <2> QED
    BY <2>1, FlagsElsewhere
<1> QED
  BY CvCases, <1>1, <1>2, <1>3, <1>4, <1>5, SignalFlags, SignalIterationFlags,
     SignalReturnsFlags, RestoreFlags DEF CvAction

(* The words say that there are waiters. *)
LEMMA FlaggedKeys == FlagInv => WaitersFlagged
  BY CvAssumption DEF FlagInv, KeysFlagged, WaitersFlagged, CvWaiters

(* No wake-up is lost in programs whose threads wait for a condition       *)
(* variable with no other mutex locked: Signal clears the word (the write  *)
(* of zero after its loop) only if nobody waits for it.                    *)
THEOREM CvWaitersFlagged == Spec /\ []OwnsNothingInTree => []WaitersFlagged
<1>1. Init => FlagInv
  BY ThreadsAssumption DEF Init, FlagInv, KeysFlagged, AtFirst
<1>2. CvInv /\ FlagInv /\ OwnsNothingInTree /\ [Next]_vars => FlagInv'
  BY FlagStep
<1> QED
  BY CvInvariant, FlaggedKeys, <1>1, <1>2, PTL DEF Spec

(* Which mutexes a thread has to do with: the ones it uses, be it that it  *)
(* holds one, is in a call about it, or is named by its word; and a thread *)
(* in m_tree has given up the mutex it waits with.                         *)
UsesOnly ==
    \A t \in Threads :
       /\ held[t] \subseteq Uses[t]
       /\ pc[t] \in Between => mutex[t] \in Uses[t]
       /\ \A l \in Keys : tag[l].owner = t => l \in Uses[t]
       /\ condvar[t] # NoKey => tag[mutex[t]].owner # t

(* A step keeps this that names only threads that use the mutex and are    *)
(* not in m_tree.                                                          *)
LEMMA UsesKeeps ==
    ASSUME CvInv, UsesOnly, mutex' \in [Threads -> Keys],
           \A u \in Threads : held'[u] \subseteq Uses[u],
           \A u \in Threads : pc'[u] \in Between => mutex'[u] \in Uses[u],
           \A u \in Threads : condvar'[u] # NoKey =>
              condvar[u] # NoKey /\ mutex'[u] = mutex[u],
           \A u \in Threads, l \in Keys : tag'[l].owner = u =>
              tag[l].owner = u \/ (l \in Uses[u] /\ condvar'[u] = NoKey)
    PROVE  UsesOnly'
<1> SUFFICES ASSUME NEW t \in Threads
             PROVE  /\ held'[t] \subseteq Uses[t]
                    /\ pc'[t] \in Between => mutex'[t] \in Uses[t]
                    /\ \A l \in Keys : tag'[l].owner = t => l \in Uses[t]
                    /\ condvar'[t] # NoKey => tag'[mutex'[t]].owner # t
  BY DEF UsesOnly
<1>1. \A l \in Keys : tag'[l].owner = t => l \in Uses[t]
  BY DEF UsesOnly
<1>2. condvar'[t] # NoKey => tag'[mutex'[t]].owner # t
  <2>1. mutex'[t] \in Keys
    OBVIOUS
  <2> QED
    BY <2>1 DEF UsesOnly
<1> QED
  BY <1>1, <1>2

(* Steps that change neither mutexes nor words, and put nobody into m_tree. *)
LEMMA UsesElsewhere ==
    ASSUME CvInv, UsesOnly, UNCHANGED <<mutex, held, tag>>,
           \A u \in Threads : condvar'[u] \in {NoKey, condvar[u]},
           \A u \in Threads : pc'[u] \in Between => pc[u] \in Between
    PROVE  UsesOnly'
<1>1. mutex' \in [Threads -> Keys]
  BY DEF CvInv, TypeOK
<1> QED
  BY <1>1 DEF UsesOnly

(* Every step keeps it. *)
LEMMA UsesStep ==
    ASSUME CvInv, UsesOnly, [Next]_vars
    PROVE  UsesOnly'
<1>f. /\ TypeOK /\ LockTypeOK /\ WordsAnnounce /\ WordsNamed /\ WaitsInTree
      /\ GuestMutualExclusion /\ LoopsOK /\ NoThread \notin Threads
      /\ mutex \in [Threads -> Keys] /\ held \in [Threads -> SUBSET Keys]
      /\ pc \in [Threads -> Places] /\ tag \in [Keys -> Words]
      /\ condvar \in [Threads -> CvKeys \cup {NoKey}]
  BY CvFacts DEF TypeOK
<1>u. \A t \in Threads :
         /\ held[t] \subseteq Uses[t] /\ (pc[t] \in Between => mutex[t] \in Uses[t])
         /\ \A l \in Keys : tag[l].owner = t => l \in Uses[t]
  BY DEF UsesOnly
<1>b. {"lock", "arbitrate", "addressWait", "check", "unlock", "cvWait"} = Between
  BY DEF Between
<1>1. ASSUME NEW t \in Threads, NEW l \in Keys, GuestLock(t, l) PROVE UsesOnly'
  <2>1. l \in Uses[t] /\ mutex' = [mutex EXCEPT ![t] = l] /\ condvar' = condvar /\ condvar[t] = NoKey
    BY <1>1, <1>f, <1>u, <1>b DEF GuestLock, treeVars, WaitsInTree
  <2>2. /\ \A u \in Threads \ {t} : held'[u] = held[u] /\ pc'[u] = pc[u]
        /\ held'[t] \subseteq held[t] \cup {l}
    BY <1>1, <1>f DEF GuestLock, Goto
  <2>3. \A u \in Threads, k \in Keys : tag'[k].owner = u => tag[k].owner = u \/ (k = l /\ u = t)
    <3>1. CASE tag[l] = Free
      <4>1. tag' = [tag EXCEPT ![l] = Tag(t, FALSE)]
        BY <1>1, <3>1 DEF GuestLock
      <4> QED
        BY <1>f, <4>1, WordWritten
    <3>2. CASE tag[l] # Free
      <4>1. tag' = [tag EXCEPT ![l].wait = TRUE]
        BY <1>1, <3>2 DEF GuestLock
      <4> QED
        BY <1>f, <4>1, WaitBitSet
    <3> QED
      BY <3>1, <3>2
  <2> QED
    BY <1>f, <1>u, <2>1, <2>2, <2>3, UsesKeeps
<1>2. ASSUME NEW t \in Threads, NEW l \in Keys, GuestUnlock(t, l) PROVE UsesOnly'
  <2>1. l \in Uses[t] /\ condvar' = condvar /\ condvar[t] = NoKey /\ pc[t] = "run"
    BY <1>2, <1>f, <1>u DEF GuestUnlock, treeVars, WaitsInTree
  <2>2. /\ \A u \in Threads : held'[u] \subseteq held[u]
        /\ (pc' = pc /\ mutex' = mutex)
             \/ (mutex' = [mutex EXCEPT ![t] = l] /\ pc' = [pc EXCEPT ![t] = "unlock"])
    BY <1>2, <1>f DEF GuestUnlock, Goto
  <2>3. \A u \in Threads, k \in Keys : tag'[k].owner = u => tag[k].owner = u
    <3>1. tag' = tag \/ tag' = [tag EXCEPT ![l] = Free]
      BY <1>2 DEF GuestUnlock
    <3>2. Free.owner = NoThread
      BY WordFacts
    <3> QED
      BY <1>f, <3>1, <3>2
  <2>4. /\ mutex' \in [Threads -> Keys]
        /\ \A u \in Threads : pc'[u] \in Between => mutex'[u] \in Uses[u]
        /\ \A u \in Threads : condvar'[u] # NoKey => mutex'[u] = mutex[u]
    BY <1>f, <1>u, <2>1, <2>2
  <2> QED
    BY <1>f, <1>u, <2>1, <2>2, <2>3, <2>4, UsesKeeps
<1>3. ASSUME NEW t \in Threads, GuestCheck(t) \/ WaitReturns(t) PROVE UsesOnly'
  <2>1. UNCHANGED <<mutex, tag, condvar>> /\ mutex[t] \in Uses[t]
    BY <1>3, <1>u, <1>b DEF GuestCheck, WaitReturns, memVars, treeVars
  <2>2. /\ \A u \in Threads \ {t} : held'[u] = held[u] /\ pc'[u] = pc[u]
        /\ held'[t] \subseteq held[t] \cup {mutex[t]}
    BY <1>3, <1>f DEF GuestCheck, WaitReturns, Goto, ReturnTo
  <2>3. \A u \in Threads : pc'[u] \in Between => mutex'[u] \in Uses[u]
    BY <1>u, <2>1, <2>2
  <2>4. \A u \in Threads : held'[u] \subseteq Uses[u]
    BY <1>u, <2>1, <2>2
  <2> QED
    BY <1>f, <2>1, <2>3, <2>4, UsesKeeps
<1>4. ASSUME NEW t \in Threads,
             Exit(t) \/ WaitForAddress(t) \/ WaitForAddressReturns(t) \/ Finalize(t)
      PROVE  UsesOnly'
  <2>1. UNCHANGED <<mutex, held, tag, condvar>>
    BY <1>4 DEF Exit, WaitForAddress, WaitForAddressReturns, Finalize, memVars, treeVars
  <2>2. /\ \A u \in Threads \ {t} : pc'[u] = pc[u]
        /\ pc'[t] \in {"exited", "gone"} \/ pc[t] \in {"arbitrate", "addressWait"}
    BY <1>4, <1>f DEF Exit, WaitForAddress, WaitForAddressReturns, Finalize, Goto, ReturnTo
  <2>3. \A u \in Threads : pc'[u] \in Between => pc[u] \in Between
    BY <2>2 DEF Between
  <2> QED
    BY <2>1, <2>3, UsesElsewhere
<1>5. ASSUME NEW t \in Threads,
             \/ OnTimer(t) \/ TerminateCancelsWait(t) \/ RequestTerminate(t) \/ CloseHandle(t)
             \/ \E p \in Priorities : ChangePriority(t, p)
             \/ \E c \in CvKeys, count \in {0, 1} : Signal(t, c, count)
      PROVE  UsesOnly'
  <2>1. UNCHANGED <<mutex, held, tag, pc>>
    BY <1>5 DEF OnTimer, TerminateCancelsWait, RequestTerminate, CloseHandle, ChangePriority,
                Signal, CancelWait, guestVars, memVars, cvVars
  <2>2. condvar' = condvar \/ condvar' = [condvar EXCEPT ![t] = NoKey]
    BY <1>5 DEF OnTimer, TerminateCancelsWait, RequestTerminate, CloseHandle, ChangePriority,
                Signal, CancelWait, treeVars, cvVars
  <2>3. \A u \in Threads : condvar'[u] \in {NoKey, condvar[u]}
    BY <1>f, <2>2
  <2> QED
    BY <2>1, <2>3, UsesElsewhere
<1>6. ASSUME SignalReturns \/ Restore \/ UNCHANGED vars PROVE UsesOnly'
  <2>1. UNCHANGED <<mutex, held, tag, pc, condvar>>
    BY <1>6 DEF SignalReturns, Restore, guestVars, memVars, treeVars, cvVars, vars
  <2> QED
    BY <2>1, UsesElsewhere
<1>h. ASSUME NEW t \in Threads, NEW l \in Keys, NEW w \in Threads \cup {NoThread},
             tag[l].owner = t, HandOver(t, l, w)
      PROVE  /\ w \in Threads => w \in waiting /\ l \in Uses[w] /\ condvar[w] = NoKey
             /\ tag'[l].owner = w /\ \A k \in Keys \ {l} : tag'[k] = tag[k]
  <2>1. HandedOver(t, l, w)
    BY <1>f, <1>h, HandOverEffect
  <2>2. w \in Threads => lockOwner[w] # NoThread /\ addressKey[w] = l
    BY <1>f, <2>1 DEF HandedOver
  <2>3. w \in Threads => /\ w \in waiting /\ mutex[w] = l /\ condvar[w] = NoKey
                         /\ pc[w] \in {"addressWait", "cvWait"}
    BY <1>f, <2>2 DEF WaitsInTree
  <2>4. w \in Threads => l \in Uses[w]
    BY <1>u, <1>b, <2>3
  <2> QED
    BY <2>1, <2>3, <2>4 DEF HandedOver
<1>7. ASSUME NEW t \in Threads, SignalToAddress(t) PROVE UsesOnly'
  <2>1. PICK w \in Threads \cup {NoThread} : HandOver(t, mutex[t], w)
    BY <1>7 DEF SignalToAddress
  <2>2. PICK l \in Keys : l = mutex[t]
    BY <1>f
  <2>3. tag[l].owner = t
    BY <1>7, <1>f, <2>2 DEF SignalToAddress, GuestMutualExclusion, Owns
  <2>4. UNCHANGED <<mutex, held, condvar>>
    BY <1>7 DEF SignalToAddress, treeVars
  <2>5. \A u \in Threads : pc'[u] \in Between => pc[u] \in Between
    BY <1>7, <1>f DEF SignalToAddress, ReturnTo, Goto, Between
  <2>6. \A u \in Threads, k \in Keys : tag'[k].owner = u =>
              tag[k].owner = u \/ (k \in Uses[u] /\ condvar'[u] = NoKey)
    BY <1>f, <1>h, <2>1, <2>2, <2>3, <2>4
  <2> QED
    BY <1>f, <1>u, <2>4, <2>5, <2>6, UsesKeeps
<1>8. ASSUME NEW t \in Threads, NEW c \in CvKeys, NEW timeout \in Timeouts, Wait(t, c, timeout)
      PROVE  UsesOnly'
  <2>1. PICK l \in Keys : l = CvMutex[c]
    BY CvAssumption
  <2>2. pc[t] = "run" /\ l \in held[t] /\ l \in Uses[t] /\ tag[l].owner = t /\ t \notin waiting
    BY <1>8, <1>f, <1>u, <2>1 DEF Wait, GuestMutualExclusion, Owns, WaitsInTree
  <2>3. PICK w \in Threads \cup {NoThread} : HandOver(t, l, w)
    BY <1>8, <2>1 DEF Wait
  <2>4. /\ w \in Threads => w # t /\ l \in Uses[w] /\ condvar[w] = NoKey
        /\ tag'[l].owner = w /\ \A k \in Keys \ {l} : tag'[k] = tag[k]
    BY <1>h, <2>2, <2>3
  <2>5. /\ mutex' = [mutex EXCEPT ![t] = l] /\ \A u \in Threads : held'[u] \subseteq held[u]
        /\ \A u \in Threads \ {t} : condvar'[u] = condvar[u] /\ pc'[u] = pc[u]
    BY <1>8, <1>f, <2>1 DEF Wait, treeVars, Goto, ReturnTo
  <2>6. tag'[l].owner # t
    BY <1>f, <2>4
  <2>7. ASSUME NEW u \in Threads
        PROVE  /\ held'[u] \subseteq Uses[u]
               /\ pc'[u] \in Between => mutex'[u] \in Uses[u]
               /\ \A k \in Keys : tag'[k].owner = u => k \in Uses[u]
    BY <1>f, <1>u, <2>2, <2>4, <2>5
  <2>8. ASSUME NEW u \in Threads, condvar'[u] # NoKey
        PROVE  tag'[mutex'[u]].owner # u
    <3>1. CASE u = t
      BY <1>f, <2>5, <2>6, <3>1
    <3>2. CASE u # t
      <4>1. condvar[u] # NoKey /\ mutex'[u] = mutex[u] /\ mutex[u] \in Keys
        BY <1>f, <2>5, <2>8, <3>2
      <4>2. tag[mutex[u]].owner # u
        BY <4>1 DEF UsesOnly
      <4> QED
        BY <2>4, <4>1, <4>2
    <3> QED
      BY <3>1, <3>2
  <2> QED
    BY <2>7, <2>8 DEF UsesOnly
<1>9. ASSUME NEW t \in Threads, SignalIteration(t) PROVE UsesOnly'
  <2>1. condvar[t] # NoKey /\ pc[t] = "cvWait" /\ mutex[t] \in Uses[t]
    BY <1>9, <1>f, <1>u, <1>b DEF SignalIteration, LoopsOK, WaitsInTree
  <2>2. /\ UNCHANGED <<mutex, held, pc>> /\ condvar' = [condvar EXCEPT ![t] = NoKey]
        /\ SignalImpl(t)
    BY <1>9 DEF SignalIteration, guestVars
  <2>3. PICK l \in Keys : l = mutex[t]
    BY <1>f
  <2>4. \A u \in Threads, k \in Keys : tag'[k].owner = u => tag[k].owner = u \/ (k = l /\ u = t)
    <3>1. CASE tag[l] = Free
      <4>1. tag' = [tag EXCEPT ![l] = Tag(t, FALSE)]
        BY <2>2, <2>3, <3>1 DEF SignalImpl
      <4> QED
        BY <1>f, <4>1, WordWritten
    <3>2. CASE tag[l] # Free
      <4>1. tag' = [tag EXCEPT ![l].wait = TRUE]
        BY <2>2, <2>3, <3>2 DEF SignalImpl
      <4> QED
        BY <1>f, <4>1, WaitBitSet
    <3> QED
      BY <3>1, <3>2
  <2>5. condvar'[t] = NoKey /\ \A u \in Threads \ {t} : condvar'[u] = condvar[u]
    BY <1>f, <2>2
  <2> QED
    BY <1>f, <1>u, <2>1, <2>2, <2>3, <2>4, <2>5, UsesKeeps
<1> QED
  BY CvCases, <1>1, <1>2, <1>3, <1>4, <1>5, <1>6, <1>7, <1>8, <1>9 DEF CvAction

(* Programs whose threads use one mutex each. *)
OneMutexEach == \A t \in Threads : \A k, l \in Uses[t] : k = l

(* Such programs have nothing to fear from the way Signal walks m_tree:    *)
(* for any number of threads, mutexes and condition variables, with        *)
(* timeouts, changes of priority, terminations and exits at any time, the  *)
(* word of a condition variable says so while somebody waits for it.       *)
THEOREM CvFlaggedOneMutex == OneMutexEach => (Spec => []WaitersFlagged)
<1> SUFFICES ASSUME OneMutexEach
             PROVE  Spec => []WaitersFlagged
  OBVIOUS
<1>1. Init => UsesOnly
  BY WordFacts, ThreadsAssumption DEF Init, UsesOnly, Between
<1>2. CvInv /\ UsesOnly /\ [Next]_vars => UsesOnly'
  BY UsesStep
<1>3. CvInv /\ UsesOnly => OwnsNothingInTree
  <2> SUFFICES ASSUME CvInv, UsesOnly, NEW t \in Threads, NEW l \in Keys,
                      condvar[t] # NoKey, tag[l].owner = t
               PROVE  FALSE
    BY DEF OwnsNothingInTree
  <2>1. pc[t] = "cvWait"
    BY DEF CvInv, WaitsInTree
  <2>2. l \in Uses[t] /\ mutex[t] \in Uses[t] /\ tag[mutex[t]].owner # t
    BY <2>1 DEF UsesOnly, Between
  <2>3. l = mutex[t]
    BY <2>2 DEF OneMutexEach
  <2> QED
    BY <2>2, <2>3
<1> QED
  BY CvInvariant, CvWaitersFlagged, <1>1, <1>2, <1>3, PTL DEF Spec

=============================================================================

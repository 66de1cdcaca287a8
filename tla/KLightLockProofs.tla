------------------------- MODULE KLightLockProofs -------------------------
(***************************************************************************)
(* Proofs about KLightLock, for every number of threads, locks and         *)
(* suspend types: it uses the waiter trees of KThreadLocks correctly, and, *)
(* as long as no thread is terminated, it is a mutual exclusion lock.      *)
(***************************************************************************)
EXTENDS KLightLock, KThreadLocksProofs

(* t has the lock l, or has been given it and is about to return from      *)
(* Lock(), or has been woken from waiting for it by termination.           *)
Involved(t, l) == Owns(t, l) \/ (pc[t] = "wait" /\ t \notin waiting /\ cur[t] = l)

(* The types of the variables of this module alone. *)
LightTypeOK ==
    /\ tag \in [Keys -> [owner : Threads \cup {NoThread}, wait : BOOLEAN]]
    /\ pc \in [Threads -> {"run", "lockSlow", "retry", "wait", "unlockSlow"}]
    /\ cur \in [Threads -> Keys]
    /\ seen \in [Threads -> Threads \cup {NoThread}]
    /\ held \in [Threads -> SUBSET Keys]
    /\ waiting \in SUBSET Threads
    /\ suspendReq \in [Threads -> SUBSET SuspendTypes]
    /\ suspendAllowed \in [Threads -> BOOLEAN]
    /\ suspended \in [Threads -> SUBSET SuspendTypes]
    /\ termReq \in [Threads -> BOOLEAN]
    /\ cancelling \in Threads \cup {NoThread}

(* What ties the control state of the threads to the waiter trees. *)
WaitingConsistent ==
    \A t \in Threads :
       /\ t \in waiting <=> lockOwner[t] # NoThread
       /\ t \in waiting => pc[t] = "wait" /\ addressKey[t] = cur[t]
       /\ pc[t] # "run" => cur[t] \notin held[t]
       /\ pc[t] = "lockSlow" => seen[t] \in Threads
       /\ cancelling = t => t \in waiting
OwnersInvolved ==
    \A t \in Threads : lockOwner[t] # NoThread => Involved(lockOwner[t], addressKey[t])
WordOwnerInvolved ==
    \A l \in Keys : /\ tag[l].owner # NoThread => Involved(tag[l].owner, l)
                    /\ tag[l].owner = NoThread => tag[l].wait = FALSE

WaiterBitSet ==
    \A t \in Threads :
       lockOwner[t] # NoThread /\ tag[addressKey[t]].owner = lockOwner[t]
          => tag[addressKey[t]].wait = TRUE

(* The inductive invariant. *)
LightInv == /\ LockTypeOK
            /\ LightTypeOK
            /\ WaitingConsistent
            /\ OwnersInvolved
            /\ WordOwnerInvolved
            /\ WaiterBitSet

(* The invariant holds initially. *)
LEMMA LightInit == Init => LightInv
<1> SUFFICES ASSUME Init PROVE LightInv
  OBVIOUS
<1>1. LockTypeOK
  BY LockTypeInit DEF Init
<1>2. (CHOOSE l \in Keys : TRUE) \in Keys
  BY LocksAssumption
<1> QED
  BY <1>1, <1>2, ThreadsAssumption
     DEF Init, LockInit, LightInv, LightTypeOK, Free, WaitingConsistent, OwnersInvolved,
         WordOwnerInvolved, WaiterBitSet

-----------------------------------------------------------------------------
(* The steps of the module, one name for each kind. *)
Unfolded ==
    \/ \E t \in Threads, l \in Keys : LockUncontended(t, l)
    \/ \E t \in Threads, l \in Keys : LockContended(t, l)
    \/ \E t \in Threads : LockSlowPath(t)
    \/ \E t \in Threads : LockSlowPathReturns(t)
    \/ \E t \in Threads, l \in Keys : UnlockUncontended(t, l)
    \/ \E t \in Threads, l \in Keys : UnlockContended(t, l)
    \/ \E t \in Threads : UnlockSlowPath(t)
    \/ \E t \in Threads, type \in SuspendTypes : RequestSuspend(t, type)
    \/ \E t \in Threads, type \in SuspendTypes : Resume(t, type)
    \/ \E t \in Terminable : RequestTerminate(t)
    \/ \E t \in Threads : CancelWait(t)
    \/ RestoreStep /\ UNCHANGED <<llVars, threadVars>>
    \/ UNCHANGED vars

(* The steps of the specification are those of its actions. *)
LEMMA LightCases == [Next]_vars => Unfolded
BY DEF Next, Unlock, Unfolded

(* A thread that enters the waiter tree of the owner it read from the lock *)
(* word does so by the rules of KThreadLocks.                              *)
LEMMA WaiterMayWait ==
    ASSUME LightInv, NEW t \in Threads, pc[t] = "lockSlow",
           tag[cur[t]] = Tag(seen[t], TRUE)
    PROVE  MayWaitFor(t, seen[t], cur[t])
<1> DEFINE o == seen[t]  k == cur[t]
<1>1. o \in Threads /\ k \in Keys /\ tag[k].owner = o /\ k \notin held[t]
  BY DEF LightInv, LightTypeOK, WaitingConsistent, Tag
<1>2. Involved(o, k)
  BY <1>1, ThreadsAssumption DEF LightInv, WordOwnerInvolved
<1>3. t # o
  BY <1>1, <1>2 DEF Involved, Owns
<1>4. lockOwner[t] = NoThread
  BY DEF LightInv, WaitingConsistent
<1>5. WaitersOn(t, k) = {}
  <2>1. ASSUME NEW u \in WaitersOn(t, k) PROVE FALSE
    <3>1. u \in Threads /\ lockOwner[u] = t /\ addressKey[u] = k
      BY DEF WaitersOn, Waiters
    <3>2. Involved(t, k)
      BY <3>1, ThreadsAssumption DEF LightInv, OwnersInvolved
    <3> QED
      BY <3>2, <1>1 DEF Involved, Owns
  <2> QED
    BY <2>1
<1>6. ~ (lockOwner[o] # NoThread /\ addressKey[o] = k)
  BY <1>1, <1>2 DEF LightInv, WaitingConsistent, Involved, Owns
<1> QED
  BY <1>3, <1>4, <1>5, <1>6 DEF MayWaitFor

(* Every step is, for the waiter trees, a step of KThreadLocks. *)
LEMMA LightStepRefines == LightInv /\ [Next]_vars => [LockNext]_lockVars
<1> SUFFICES ASSUME LightInv, Unfolded PROVE [LockNext]_lockVars
  BY LightCases
<1>1. ASSUME NEW t \in Threads, LockSlowPath(t) PROVE [LockNext]_lockVars
  <2>1. CASE tag[cur[t]] # Tag(seen[t], TRUE)
    BY <1>1, <2>1 DEF LockSlowPath
  <2>2. CASE tag[cur[t]] = Tag(seen[t], TRUE)
    <3>1. MayWaitFor(t, seen[t], cur[t])
      BY <1>1, <2>2, WaiterMayWait DEF LockSlowPath
    <3>2. seen[t] \in Threads /\ cur[t] \in Keys
      BY <1>1 DEF LightInv, LightTypeOK, WaitingConsistent, LockSlowPath
    <3>3. Idle /\ AddWaiter(seen[t], t, cur[t])
      BY <1>1, <2>2 DEF LockSlowPath, SchedulerUnlocked
    <3> QED
      BY <3>1, <3>2, <3>3 DEF LockNext
  <2> QED
    BY <2>1, <2>2
<1>2. ASSUME NEW t \in Threads, UnlockSlowPath(t) PROVE [LockNext]_lockVars
  <2>1. cur[t] \in Keys
    BY DEF LightInv, LightTypeOK
  <2> QED
    BY <1>2, <2>1 DEF UnlockSlowPath, SchedulerUnlocked, LockNext
<1>3. ASSUME NEW t \in Terminable, RequestTerminate(t) PROVE [LockNext]_lockVars
  BY <1>3, TerminateAssumption DEF RequestTerminate, SchedulerUnlocked, LockNext
<1>4. ASSUME NEW t \in Threads, CancelWait(t) PROVE [LockNext]_lockVars
  BY <1>4 DEF CancelWait, LockNext
<1>5. CASE RestoreStep
  BY <1>5 DEF LockNext
<1>6. ASSUME NEW t \in Threads, NEW l \in Keys,
             LockUncontended(t, l) \/ LockContended(t, l)
                \/ UnlockUncontended(t, l) \/ UnlockContended(t, l)
      PROVE  UNCHANGED lockVars
  BY <1>6 DEF LockUncontended, LockContended, UnlockUncontended, UnlockContended
<1>7. ASSUME NEW t \in Threads, NEW type \in SuspendTypes,
             RequestSuspend(t, type) \/ Resume(t, type)
      PROVE  UNCHANGED lockVars
  BY <1>7 DEF RequestSuspend, Resume
<1>8. ASSUME NEW t \in Threads, LockSlowPathReturns(t) PROVE UNCHANGED lockVars
  BY <1>8 DEF LockSlowPathReturns
<1>9. CASE UNCHANGED vars
  BY <1>9 DEF vars
<1> QED
  BY <1>1, <1>2, <1>3, <1>4, <1>5, <1>6, <1>7, <1>8, <1>9 DEF Unfolded

-----------------------------------------------------------------------------
(* Every step keeps the types. *)
LEMMA LightTypeStep == LightInv /\ [Next]_vars => LightTypeOK'
<1> SUFFICES ASSUME LightInv, Unfolded PROVE LightTypeOK'
  BY LightCases
<1> USE ThreadsAssumption DEF LightInv, LightTypeOK, threadVars, llVars, Goto
<1>1. ASSUME NEW t \in Threads, NEW l \in Keys, LockUncontended(t, l) PROVE LightTypeOK'
  BY <1>1 DEF LockUncontended, Tag
<1>2. ASSUME NEW t \in Threads, NEW l \in Keys, LockContended(t, l) PROVE LightTypeOK'
  BY ZenonT(60), <1>2 DEF LockContended
<1>3. ASSUME NEW t \in Threads, LockSlowPath(t) PROVE LightTypeOK'
  BY <1>3 DEF LockSlowPath, ContinueIfHasKernelWaiters, Continue
<1>4. ASSUME NEW t \in Threads, LockSlowPathReturns(t) PROVE LightTypeOK'
  BY <1>4 DEF LockSlowPathReturns
<1>5. ASSUME NEW t \in Threads, NEW l \in Keys, UnlockUncontended(t, l) PROVE LightTypeOK'
  BY <1>5 DEF UnlockUncontended, Free
<1>6. ASSUME NEW t \in Threads, NEW l \in Keys, UnlockContended(t, l) PROVE LightTypeOK'
  BY <1>6 DEF UnlockContended
<1>7. ASSUME NEW t \in Threads, UnlockSlowPath(t) PROVE LightTypeOK'
  <2>1. \A w : SuspendedAfterUnlock(t, w) \in [Threads -> SUBSET SuspendTypes]
    BY DEF SuspendedAfterUnlock, SuspendFlags
  <2>2. PICK w \in Threads \cup {NoThread}, b \in BOOLEAN :
           /\ tag' = [tag EXCEPT ![cur[t]] = Tag(w, b)]
           /\ waiting' \in SUBSET waiting
           /\ suspended' = SuspendedAfterUnlock(t, w)
    <3>1. CASE WaitersOn(t, cur[t]) = {} /\ tag' = [tag EXCEPT ![cur[t]] = Free]
      BY <1>7, <3>1 DEF UnlockSlowPath, Free, Tag, RemoveWaiterByKey, IsHighestPriorityWaiter
    <3>2. ASSUME NEW w \in Threads,
                 tag' = [tag EXCEPT ![cur[t]] = Tag(w, WaitersOn(t, cur[t]) # {w})],
                 waiting' = waiting \ {w}, suspended' = SuspendedAfterUnlock(t, w)
          PROVE  \E x \in Threads \cup {NoThread}, b \in BOOLEAN :
                    /\ tag' = [tag EXCEPT ![cur[t]] = Tag(x, b)]
                    /\ waiting' \in SUBSET waiting
                    /\ suspended' = SuspendedAfterUnlock(t, x)
      <4>1. (WaitersOn(t, cur[t]) # {w}) \in BOOLEAN
        OBVIOUS
      <4>2. waiting' \in SUBSET waiting
        BY <3>2
      <4> QED
        BY <3>2, <4>1, <4>2
    <3> QED
      BY <1>7, <3>1, <3>2 DEF UnlockSlowPath
  <2>3. UNCHANGED <<cur, seen, held, suspendReq, suspendAllowed, termReq, cancelling>>
    BY <1>7 DEF UnlockSlowPath
  <2>4. pc' = [pc EXCEPT ![t] = "run"]
    BY <1>7 DEF UnlockSlowPath
  <2> QED
    BY <2>1, <2>2, <2>3, <2>4 DEF Tag
<1>8. ASSUME NEW t \in Threads, NEW type \in SuspendTypes, RequestSuspend(t, type)
      PROVE  LightTypeOK'
  BY <1>8 DEF RequestSuspend, TrySuspend, UpdateState
<1>9. ASSUME NEW t \in Threads, NEW type \in SuspendTypes, Resume(t, type)
      PROVE  LightTypeOK'
  BY <1>9 DEF Resume, UpdateState
<1>10. ASSUME NEW t \in Terminable, RequestTerminate(t) PROVE LightTypeOK'
  BY <1>10, TerminateAssumption DEF RequestTerminate
<1>11. ASSUME NEW t \in Threads, CancelWait(t) PROVE LightTypeOK'
  BY <1>11 DEF CancelWait
<1>12. CASE UNCHANGED <<llVars, threadVars>>
  BY <1>12
<1>13. CASE UNCHANGED vars
  BY <1>13 DEF vars
<1> QED
  BY <1>1, <1>2, <1>3, <1>4, <1>5, <1>6, <1>7, <1>8, <1>9, <1>10, <1>11, <1>12, <1>13
     DEF Unfolded

-----------------------------------------------------------------------------
(* The parts of LightInv that relate threads, words and waiter trees.      *)
LightRel == WaitingConsistent /\ OwnersInvolved /\ WordOwnerInvolved /\ WaiterBitSet

(* What UnlockSlowPath does, with the two cases of has_waiters merged: w   *)
(* is the new owner, or NoThread.                                          *)
LEMMA UnlockSlowEffect ==
    ASSUME LightInv, NEW t \in Threads, UnlockSlowPath(t)
    PROVE  \E w \in Threads \cup {NoThread} :
              /\ w = NoThread => WaitersOn(t, cur[t]) = {}
              /\ w # NoThread => w \in WaitersOn(t, cur[t])
              /\ tag' = [tag EXCEPT ![cur[t]] =
                            Tag(w, w # NoThread /\ WaitersOn(t, cur[t]) # {w})]
              /\ waiting' = waiting \ {w}
              /\ \A u \in Threads :
                    lockOwner'[u] = IF u = w THEN NoThread
                                    ELSE IF u \in WaitersOn(t, cur[t]) THEN w
                                    ELSE lockOwner[u]
              /\ UNCHANGED addressKey
<1>1. CASE /\ WaitersOn(t, cur[t]) = {}
           /\ tag' = [tag EXCEPT ![cur[t]] = Free]
           /\ UNCHANGED <<lockVars, waiting>>
  <2>1. waiting' = waiting \ {NoThread}
    BY <1>1, ThreadsAssumption DEF LightInv, LightTypeOK
  <2>2. Free = Tag(NoThread, NoThread # NoThread /\ WaitersOn(t, cur[t]) # {NoThread})
    BY DEF Free, Tag
  <2>3. \A u \in Threads : u # NoThread
    BY ThreadsAssumption
  <2> QED
    BY <1>1, <2>1, <2>2, <2>3 DEF lockVars
<1>2. ASSUME NEW w \in Threads,
             RemoveWaiterByKey(t, cur[t], w),
             tag' = [tag EXCEPT ![cur[t]] = Tag(w, WaitersOn(t, cur[t]) # {w})],
             waiting' = waiting \ {w}
      PROVE  \E x \in Threads \cup {NoThread} :
              /\ x = NoThread => WaitersOn(t, cur[t]) = {}
              /\ x # NoThread => x \in WaitersOn(t, cur[t])
              /\ tag' = [tag EXCEPT ![cur[t]] =
                            Tag(x, x # NoThread /\ WaitersOn(t, cur[t]) # {x})]
              /\ waiting' = waiting \ {x}
              /\ \A u \in Threads :
                    lockOwner'[u] = IF u = x THEN NoThread
                                    ELSE IF u \in WaitersOn(t, cur[t]) THEN x
                                    ELSE lockOwner[u]
              /\ UNCHANGED addressKey
  <2>1. w # NoThread /\ w \in WaitersOn(t, cur[t])
    BY <1>2, ThreadsAssumption DEF RemoveWaiterByKey, IsHighestPriorityWaiter
  <2>2. Tag(w, WaitersOn(t, cur[t]) # {w}) =
           Tag(w, w # NoThread /\ WaitersOn(t, cur[t]) # {w})
    BY <2>1
  <2>3. /\ \A u \in Threads : lockOwner'[u] = IF u = w THEN NoThread
                                    ELSE IF u \in WaitersOn(t, cur[t]) THEN w
                                    ELSE lockOwner[u]
        /\ UNCHANGED addressKey
    BY <1>2 DEF RemoveWaiterByKey
  <2> QED
    BY <1>2, <2>1, <2>2, <2>3
<1> QED
  BY <1>1, <1>2 DEF UnlockSlowPath

(* Every step keeps the tag, the owner and the waiters in agreement. *)
LEMMA LightRelStep == LightInv /\ [Next]_vars => LightRel'
<1> SUFFICES ASSUME LightInv, Unfolded PROVE LightRel'
  BY LightCases
<1> USE ThreadsAssumption
<1>l. /\ lockOwner \in [Threads -> Threads \cup {NoThread}]
      /\ addressKey \in [Threads -> Keys]
  BY DEF LightInv, LockTypeOK
<1>i. LightTypeOK /\ WaitingConsistent /\ OwnersInvolved /\ WordOwnerInvolved /\ WaiterBitSet
  BY DEF LightInv
<1>1. ASSUME NEW t \in Threads, NEW l \in Keys, LockUncontended(t, l) PROVE LightRel'
  <2>1. /\ l \notin held[t]
        /\ pc[t] = "run" \/ (pc[t] = "retry" /\ cur[t] = l)
        /\ tag[l].owner = NoThread
        /\ held' = [held EXCEPT ![t] = @ \cup {l}]
        /\ pc' = [pc EXCEPT ![t] = "run"]
        /\ UNCHANGED <<cur, seen, waiting, cancelling, lockOwner, addressKey>>
    BY <1>1, <1>i, LocksAssumption
       DEF LockUncontended, Calls, Goto, Free, lockVars, threadVars, LightTypeOK,
       WaitingConsistent
  <2>2. /\ tag'[l].owner = t /\ tag'[l].wait = FALSE
        /\ \A m \in Keys \ {l} : tag'[m] = tag[m]
    BY <1>1, <1>i DEF LockUncontended, Tag, LightTypeOK
  <2>3. \A u \in Threads : ~ (lockOwner[u] = t /\ addressKey[u] = l)
    BY <2>1, <1>i DEF OwnersInvolved, Involved, Owns, WaitingConsistent
  <2>41. WaitingConsistent'
    BY <1>l, <1>i, <2>1 DEF LightTypeOK, WaitingConsistent
  <2>42. OwnersInvolved'
    BY <1>l, <1>i, <2>1 DEF LightTypeOK, WaitingConsistent, OwnersInvolved, Involved, Owns
  <2>43. WordOwnerInvolved'
    <3> SUFFICES ASSUME NEW m \in Keys
                 PROVE  /\ tag'[m].owner # NoThread => Involved(tag[m].owner, m)'
                        /\ tag'[m].owner = NoThread => tag'[m].wait = FALSE
      BY DEF WordOwnerInvolved
    <3>1. CASE m = l
      BY <3>1, <2>1, <2>2, <1>i DEF Involved, Owns, LightTypeOK
    <3>2. CASE m # l
      <4>1. tag'[m] = tag[m]
        BY <3>2, <2>2
      <4> QED
        BY <4>1, <2>1, <1>i DEF WordOwnerInvolved, Involved, Owns, LightTypeOK
    <3> QED
      BY <3>1, <3>2
  <2>44. WaiterBitSet'
    <3> SUFFICES ASSUME NEW u \in Threads, lockOwner[u] # NoThread,
                        tag'[addressKey[u]].owner = lockOwner[u]
                 PROVE  tag'[addressKey[u]].wait = TRUE
      BY <2>1 DEF WaiterBitSet
    <3>1. addressKey[u] # l
      BY <2>2, <2>3
    <3>2. tag'[addressKey[u]] = tag[addressKey[u]]
      BY <3>1, <2>2, <1>l
    <3> QED
      BY <3>2, <1>i DEF WaiterBitSet
  <2> QED
    BY <2>41, <2>42, <2>43, <2>44 DEF LightRel
<1>2. ASSUME NEW t \in Threads, NEW l \in Keys, LockContended(t, l) PROVE LightRel'
  <2>1. /\ l \notin held[t]
        /\ pc[t] = "run" \/ (pc[t] = "retry" /\ cur[t] = l)
        /\ tag[l].owner # NoThread
        /\ tag' = [tag EXCEPT ![l].wait = TRUE]
        /\ cur' = [cur EXCEPT ![t] = l]
        /\ seen' = [seen EXCEPT ![t] = tag[l].owner]
        /\ pc' = [pc EXCEPT ![t] = "lockSlow"]
        /\ UNCHANGED <<held, waiting, cancelling, lockOwner, addressKey>>
    <3>1. tag[l] # Free => tag[l].owner # NoThread
      BY <1>i DEF Free, WordOwnerInvolved, LightTypeOK
    <3> QED
      BY <1>2, <3>1, <1>i, LocksAssumption
         DEF LockContended, Calls, Goto, lockVars, threadVars, LightTypeOK, WaitingConsistent
  <2>2. /\ tag'[l].owner = tag[l].owner /\ tag'[l].wait = TRUE
        /\ \A m \in Keys \ {l} : tag'[m] = tag[m]
    BY <2>1, <1>i DEF LightTypeOK
  <2>31. WaitingConsistent'
    BY <1>l, <1>i, <2>1, <2>2 DEF LightTypeOK, WaitingConsistent
  <2>32. OwnersInvolved'
    BY <1>l, <1>i, <2>1, <2>2 DEF LightTypeOK, WaitingConsistent, OwnersInvolved, Involved, Owns
  <2>33. WordOwnerInvolved'
    BY <1>l, <1>i, <2>1, <2>2
       DEF LightTypeOK, WaitingConsistent, WordOwnerInvolved, Involved, Owns
  <2>34. WaiterBitSet'
    BY <1>l, <1>i, <2>1, <2>2
       DEF LightTypeOK, WaitingConsistent, OwnersInvolved, Involved, Owns, WaiterBitSet
  <2> QED
    BY <2>31, <2>32, <2>33, <2>34 DEF LightRel
<1>3. ASSUME NEW t \in Threads, LockSlowPath(t) PROVE LightRel'
  <2>1. CASE tag[cur[t]] # Tag(seen[t], TRUE)
    <3>1. /\ pc[t] = "lockSlow"
          /\ pc' = [pc EXCEPT ![t] = "retry"]
          /\ seen' = [seen EXCEPT ![t] = NoThread]
          /\ UNCHANGED <<tag, cur, held, waiting, cancelling, lockOwner, addressKey>>
      BY <1>3, <2>1 DEF LockSlowPath, Goto, lockVars
    <3>21. WaitingConsistent'
      BY <1>l, <1>i, <3>1 DEF LightTypeOK, WaitingConsistent
    <3>22. OwnersInvolved'
      BY <1>l, <1>i, <3>1 DEF LightTypeOK, WaitingConsistent, OwnersInvolved, Involved, Owns
    <3>23. WordOwnerInvolved'
      BY <1>l, <1>i, <3>1 DEF LightTypeOK, WaitingConsistent, WordOwnerInvolved, Involved, Owns
    <3>24. WaiterBitSet'
      BY <1>l, <1>i, <3>1
         DEF LightTypeOK, WaitingConsistent, OwnersInvolved, Involved, Owns, WaiterBitSet
    <3> QED
      BY <3>21, <3>22, <3>23, <3>24 DEF LightRel
  <2>2. CASE tag[cur[t]] = Tag(seen[t], TRUE)
    <3> DEFINE o == seen[t]  k == cur[t]
    <3>1. MayWaitFor(t, o, k)
      BY <1>3, <2>2, WaiterMayWait DEF LockSlowPath
    <3>2. /\ o \in Threads /\ k \in Keys
          /\ pc[t] = "lockSlow" /\ t \notin waiting
          /\ lockOwner' = [lockOwner EXCEPT ![t] = o]
          /\ addressKey' = [addressKey EXCEPT ![t] = k]
          /\ waiting' = waiting \cup {t}
          /\ pc' = [pc EXCEPT ![t] = "wait"]
          /\ seen' = [seen EXCEPT ![t] = NoThread]
          /\ UNCHANGED <<tag, cur, held, cancelling>>
      BY <1>3, <1>i, <2>2
         DEF LockSlowPath, AddWaiter, Goto, LightTypeOK, WaitingConsistent
    <3>3. tag[k].owner = o /\ tag[k].wait = TRUE /\ o # t
      BY <2>2, <3>1 DEF Tag, MayWaitFor
    <3>4. Involved(o, k)
      BY <3>2, <3>3, <1>i DEF WordOwnerInvolved
    <3>51. WaitingConsistent'
      BY <1>l, <1>i, <3>2, <3>3, <3>4 DEF LightTypeOK, WaitingConsistent
    <3>52. OwnersInvolved'
      BY <1>l, <1>i, <3>2, <3>3, <3>4
         DEF LightTypeOK, WaitingConsistent, OwnersInvolved, Involved, Owns
    <3>53. WordOwnerInvolved'
      BY <1>l, <1>i, <3>2, <3>3, <3>4
         DEF LightTypeOK, WaitingConsistent, WordOwnerInvolved, Involved, Owns
    <3>54. WaiterBitSet'
      BY <1>l, <1>i, <3>2, <3>3, <3>4
         DEF LightTypeOK, WaitingConsistent, OwnersInvolved, Involved, Owns, WaiterBitSet
    <3> QED
      BY <3>51, <3>52, <3>53, <3>54 DEF LightRel
  <2> QED
    BY <2>1, <2>2
<1>4. ASSUME NEW t \in Threads, LockSlowPathReturns(t) PROVE LightRel'
  <2>1. /\ pc[t] = "wait" /\ t \notin waiting
        /\ held' = [held EXCEPT ![t] = @ \cup {cur[t]}]
        /\ pc' = [pc EXCEPT ![t] = "run"]
        /\ UNCHANGED <<tag, cur, seen, waiting, cancelling, lockOwner, addressKey>>
    BY <1>4 DEF LockSlowPathReturns, Goto, lockVars, threadVars
  <2>21. WaitingConsistent'
    BY <1>l, <1>i, <2>1 DEF LightTypeOK, WaitingConsistent
  <2>22. OwnersInvolved'
    BY <1>l, <1>i, <2>1 DEF LightTypeOK, WaitingConsistent, OwnersInvolved, Involved, Owns
  <2>23. WordOwnerInvolved'
    BY <1>l, <1>i, <2>1 DEF LightTypeOK, WaitingConsistent, WordOwnerInvolved, Involved, Owns
  <2>24. WaiterBitSet'
    BY <1>l, <1>i, <2>1
       DEF LightTypeOK, WaitingConsistent, OwnersInvolved, Involved, Owns, WaiterBitSet
  <2> QED
    BY <2>21, <2>22, <2>23, <2>24 DEF LightRel
<1>5. ASSUME NEW t \in Threads, NEW l \in Keys, UnlockUncontended(t, l) PROVE LightRel'
  <2>1. /\ pc[t] = "run" /\ l \in held[t]
        /\ tag[l].owner = t /\ tag[l].wait = FALSE
        /\ tag' = [tag EXCEPT ![l] = Free]
        /\ held' = [held EXCEPT ![t] = @ \ {l}]
        /\ UNCHANGED <<pc, cur, seen, waiting, cancelling, lockOwner, addressKey>>
    BY <1>5 DEF UnlockUncontended, Tag, lockVars, threadVars
  <2>2. Free.owner = NoThread /\ Free.wait = FALSE
    BY DEF Free
  <2>3. \A u \in Threads : ~ (lockOwner[u] = t /\ addressKey[u] = l)
    BY <2>1, <1>i DEF WaiterBitSet
  <2>41. WaitingConsistent'
    BY <1>l, <1>i, <2>1, <2>2, <2>3 DEF LightTypeOK, WaitingConsistent
  <2>42. OwnersInvolved'
    BY <1>l, <1>i, <2>1, <2>2, <2>3
       DEF LightTypeOK, WaitingConsistent, OwnersInvolved, Involved, Owns
  <2>43. WordOwnerInvolved'
    BY <1>l, <1>i, <2>1, <2>2, <2>3
       DEF LightTypeOK, WaitingConsistent, WordOwnerInvolved, Involved, Owns
  <2>44. WaiterBitSet'
    BY <1>l, <1>i, <2>1, <2>2, <2>3
       DEF LightTypeOK, WaitingConsistent, OwnersInvolved, Involved, Owns, WaiterBitSet
  <2> QED
    BY <2>41, <2>42, <2>43, <2>44 DEF LightRel
<1>6. ASSUME NEW t \in Threads, NEW l \in Keys, UnlockContended(t, l) PROVE LightRel'
  <2>1. /\ pc[t] = "run" /\ l \in held[t]
        /\ cur' = [cur EXCEPT ![t] = l]
        /\ held' = [held EXCEPT ![t] = @ \ {l}]
        /\ pc' = [pc EXCEPT ![t] = "unlockSlow"]
        /\ UNCHANGED <<tag, seen, waiting, cancelling, lockOwner, addressKey>>
    BY <1>6 DEF UnlockContended, Goto, lockVars, threadVars
  <2>21. WaitingConsistent'
    BY <1>l, <1>i, <2>1 DEF LightTypeOK, WaitingConsistent
  <2>22. OwnersInvolved'
    BY <1>l, <1>i, <2>1 DEF LightTypeOK, WaitingConsistent, OwnersInvolved, Involved, Owns
  <2>23. WordOwnerInvolved'
    BY <1>l, <1>i, <2>1 DEF LightTypeOK, WaitingConsistent, WordOwnerInvolved, Involved, Owns
  <2>24. WaiterBitSet'
    BY <1>l, <1>i, <2>1
       DEF LightTypeOK, WaitingConsistent, OwnersInvolved, Involved, Owns, WaiterBitSet
  <2> QED
    BY <2>21, <2>22, <2>23, <2>24 DEF LightRel
<1>7. ASSUME NEW t \in Threads, UnlockSlowPath(t) PROVE LightRel'
  <2> DEFINE ws == WaitersOn(t, cur[t])
  <2>1. PICK w \in Threads \cup {NoThread} :
           /\ w = NoThread => ws = {}
           /\ w # NoThread => w \in ws
           /\ tag' = [tag EXCEPT ![cur[t]] = Tag(w, w # NoThread /\ ws # {w})]
           /\ waiting' = waiting \ {w}
           /\ \A u \in Threads : lockOwner'[u] = IF u = w THEN NoThread
                                                  ELSE IF u \in ws THEN w
                                                  ELSE lockOwner[u]
           /\ UNCHANGED addressKey
    BY <1>7, UnlockSlowEffect
  <2>2. /\ pc[t] = "unlockSlow" /\ cancelling = NoThread
        /\ pc' = [pc EXCEPT ![t] = "run"]
        /\ UNCHANGED <<cur, seen, held, cancelling>>
    BY <1>7 DEF UnlockSlowPath, SchedulerUnlocked, Goto
  <2>3. \A u \in Threads : u \in ws <=> lockOwner[u] = t /\ addressKey[u] = cur[t]
    BY DEF WaitersOn, Waiters
  <2>4. /\ tag'[cur[t]].owner = w
        /\ w = NoThread => tag'[cur[t]].wait = FALSE
        /\ w # NoThread /\ ws # {w} => tag'[cur[t]].wait = TRUE
        /\ \A m \in Keys \ {cur[t]} : tag'[m] = tag[m]
    BY <2>1, <1>i DEF Tag, LightTypeOK
  <2>6. w # NoThread => \A u \in Threads : ~ (lockOwner[u] = w /\ addressKey[u] = cur[t])
    BY <2>1, <2>3, <1>i DEF OwnersInvolved, Involved, Owns, WaitingConsistent
  <2>7. \A u \in ws : u # w => ws # {w}
    OBVIOUS
  <2>8. cur[t] \in Keys
    BY <1>i DEF LightTypeOK
  <2> HIDE DEF ws
  <2>51. WaitingConsistent'
    BY <1>l, <1>i, <2>1, <2>2, <2>3, <2>4, <2>6, <2>7, <2>8 DEF LightTypeOK, WaitingConsistent
  <2>52. OwnersInvolved'
    BY <1>l, <1>i, <2>1, <2>2, <2>3, <2>4, <2>6, <2>7, <2>8
       DEF LightTypeOK, WaitingConsistent, OwnersInvolved, Involved, Owns
  <2>53. WordOwnerInvolved'
    BY <1>l, <1>i, <2>1, <2>2, <2>3, <2>4, <2>6, <2>7, <2>8
       DEF LightTypeOK, WaitingConsistent, WordOwnerInvolved, Involved, Owns
  <2>54. WaiterBitSet'
    BY <1>l, <1>i, <2>1, <2>2, <2>3, <2>4, <2>6, <2>7, <2>8
       DEF LightTypeOK, WaitingConsistent, OwnersInvolved, Involved, Owns, WaiterBitSet
  <2> QED
    BY <2>51, <2>52, <2>53, <2>54 DEF LightRel
<1>8. ASSUME NEW t \in Threads, NEW type \in SuspendTypes,
             RequestSuspend(t, type) \/ Resume(t, type)
      PROVE  LightRel'
  <2>1. UNCHANGED <<tag, pc, cur, seen, held, waiting, cancelling, lockOwner, addressKey>>
    BY <1>8 DEF RequestSuspend, Resume, llVars, lockVars
  <2>21. WaitingConsistent'
    BY <1>i, <2>1 DEF LightTypeOK, WaitingConsistent
  <2>22. OwnersInvolved'
    BY <1>i, <2>1 DEF LightTypeOK, WaitingConsistent, OwnersInvolved, Involved, Owns
  <2>23. WordOwnerInvolved'
    BY <1>i, <2>1 DEF LightTypeOK, WaitingConsistent, WordOwnerInvolved, Involved, Owns
  <2>24. WaiterBitSet'
    BY <1>i, <2>1 DEF LightTypeOK, WaitingConsistent, OwnersInvolved, Involved, Owns, WaiterBitSet
  <2> QED
    BY <2>21, <2>22, <2>23, <2>24 DEF LightRel
<1>9. ASSUME NEW t \in Terminable, RequestTerminate(t) PROVE LightRel'
  <2>1. /\ UNCHANGED <<tag, pc, cur, seen, held, waiting, lockOwner, addressKey>>
        /\ cancelling' = IF t \in waiting THEN t ELSE NoThread
    BY <1>9 DEF RequestTerminate, SetBasePriority, llVars, lockVars
  <2>21. WaitingConsistent'
    BY <1>i, <2>1 DEF LightTypeOK, WaitingConsistent
  <2>22. OwnersInvolved'
    BY <1>i, <2>1 DEF LightTypeOK, WaitingConsistent, OwnersInvolved, Involved, Owns
  <2>23. WordOwnerInvolved'
    BY <1>i, <2>1 DEF LightTypeOK, WaitingConsistent, WordOwnerInvolved, Involved, Owns
  <2>24. WaiterBitSet'
    BY <1>i, <2>1 DEF LightTypeOK, WaitingConsistent, OwnersInvolved, Involved, Owns, WaiterBitSet
  <2> QED
    BY <2>21, <2>22, <2>23, <2>24 DEF LightRel
<1>10. ASSUME NEW t \in Threads, CancelWait(t) PROVE LightRel'
  <2>1. /\ cancelling = t /\ cancelling' = NoThread
        /\ lockOwner' = [lockOwner EXCEPT ![t] = NoThread]
        /\ waiting' = waiting \ {t}
        /\ UNCHANGED <<tag, pc, cur, seen, held, addressKey>>
    BY <1>10 DEF CancelWait, RemoveWaiter
  <2>21. WaitingConsistent'
    BY <1>l, <1>i, <2>1 DEF LightTypeOK, WaitingConsistent
  <2>22. OwnersInvolved'
    BY <1>l, <1>i, <2>1 DEF LightTypeOK, WaitingConsistent, OwnersInvolved, Involved, Owns
  <2>23. WordOwnerInvolved'
    BY <1>l, <1>i, <2>1 DEF LightTypeOK, WaitingConsistent, WordOwnerInvolved, Involved, Owns
  <2>24. WaiterBitSet'
    BY <1>l, <1>i, <2>1
       DEF LightTypeOK, WaitingConsistent, OwnersInvolved, Involved, Owns, WaiterBitSet
  <2> QED
    BY <2>21, <2>22, <2>23, <2>24 DEF LightRel
<1>11. CASE RestoreStep /\ UNCHANGED <<llVars, threadVars>>
  <2>1. UNCHANGED <<tag, pc, cur, seen, held, waiting, cancelling, lockOwner, addressKey>>
    BY <1>11 DEF RestoreStep, RestoreIteration, llVars, threadVars
  <2>21. WaitingConsistent'
    BY <1>i, <2>1 DEF LightTypeOK, WaitingConsistent
  <2>22. OwnersInvolved'
    BY <1>i, <2>1 DEF LightTypeOK, WaitingConsistent, OwnersInvolved, Involved, Owns
  <2>23. WordOwnerInvolved'
    BY <1>i, <2>1 DEF LightTypeOK, WaitingConsistent, WordOwnerInvolved, Involved, Owns
  <2>24. WaiterBitSet'
    BY <1>i, <2>1 DEF LightTypeOK, WaitingConsistent, OwnersInvolved, Involved, Owns, WaiterBitSet
  <2> QED
    BY <2>21, <2>22, <2>23, <2>24 DEF LightRel
<1>12. CASE UNCHANGED vars
  <2>1. UNCHANGED <<tag, pc, cur, seen, held, waiting, cancelling, lockOwner, addressKey>>
    BY <1>12 DEF vars, llVars, threadVars, lockVars
  <2>21. WaitingConsistent'
    BY <1>i, <2>1 DEF LightTypeOK, WaitingConsistent
  <2>22. OwnersInvolved'
    BY <1>i, <2>1 DEF LightTypeOK, WaitingConsistent, OwnersInvolved, Involved, Owns
  <2>23. WordOwnerInvolved'
    BY <1>i, <2>1 DEF LightTypeOK, WaitingConsistent, WordOwnerInvolved, Involved, Owns
  <2>24. WaiterBitSet'
    BY <1>i, <2>1 DEF LightTypeOK, WaitingConsistent, OwnersInvolved, Involved, Owns, WaiterBitSet
  <2> QED
    BY <2>21, <2>22, <2>23, <2>24 DEF LightRel
<1> QED
  BY <1>1, <1>2, <1>3, <1>4, <1>5, <1>6, <1>7, <1>8, <1>9, <1>10, <1>11, <1>12
     DEF Unfolded

(* Every step preserves the invariant. *)
LEMMA LightInvStep == LightInv /\ [Next]_vars => LightInv'
<1>1. LightInv => LockTypeOK
  BY DEF LightInv
<1> QED
  BY <1>1, LightTypeStep, LightRelStep, LightStepRefines, LockTypeStep DEF LightInv, LightRel

(* LightInv is an invariant of KLightLock: the tag word, the waiter lists  *)
(* and where each thread is always agree.                                  *)
LEMMA LightInvariant == Spec => []LightInv
BY LightInit, LightInvStep, PTL DEF Spec

(* The variables of KLightLock have their types, terminations included. *)
THEOREM LightTypeCorrect == Spec => []TypeOK
<1>1. LightInv => TypeOK
  BY DEF LightInv, LightTypeOK, TypeOK
<1> QED
  BY <1>1, LightInvariant, PTL

(* KLightLock implements KThreadLocks: light locks, suspension requests    *)
(* and terminations only ever use the waiter trees by their rules.         *)
THEOREM LightImplementsLocks == Spec => LockSpec
<1>1. Init => LockInit
  BY DEF Init
<1>2. LightInv /\ [Next]_vars => [LockNext]_lockVars
  BY LightStepRefines
<1> QED
  BY <1>1, <1>2, LightInvariant, PTL DEF Spec, LockSpec

(* Therefore priority inheritance through light locks is exact, and the    *)
(* counter that decides about suspension counts their waiters.             *)
THEOREM LightPriorityInheritance == Spec => [](PriorityInheritance /\ KernelWaiterCount)
BY LightImplementsLocks, PriorityInheritanceCorrect, KernelWaiterCountCorrect, PTL

(* It reaches through chains of light locks: the owner of a lock runs at   *)
(* the best base priority of all threads that wait for it, directly or     *)
(* through owners that wait themselves.                                    *)
THEOREM LightTransitiveInheritance == Spec => []TransitiveInheritance
BY LightImplementsLocks, TransitiveInheritanceCorrect, PTL

(* A lock word never names a thread that has gone: even with terminations  *)
(* its owner holds the lock, is releasing it or is returning from Lock().  *)
THEOREM LightOwnerIsAlive == Spec => []OwnerIsAlive
<1>1. LightInv => OwnerIsAlive
  BY DEF LightInv, WordOwnerInvolved, Involved, OwnerIsAlive
<1> QED
  BY <1>1, LightInvariant, PTL

-----------------------------------------------------------------------------
(* Mutual exclusion.  It is lost when a thread is terminated while it      *)
(* waits for a light lock, so it is claimed until the first termination.   *)
MutexInv == /\ cancelling = NoThread
            /\ \A t \in Threads, l \in Keys : Involved(t, l) => tag[l].owner = t
            /\ \A t \in waiting : /\ tag[addressKey[t]].owner = lockOwner[t]
                                 /\ tag[addressKey[t]].wait = TRUE

(* Termination requests are never taken back, and RequestTerminate is the  *)
(* only step that makes one.                                               *)
LEMMA TerminationStays ==
    ASSUME LightTypeOK, Unfolded, NoTermination'
    PROVE  NoTermination /\ ~ \E t \in Terminable : RequestTerminate(t)
<1>1. ASSUME NEW t \in Terminable, RequestTerminate(t) PROVE FALSE
  BY <1>1, TerminateAssumption DEF RequestTerminate, LightTypeOK, NoTermination
<1>2. CASE termReq' = termReq
  BY <1>1, <1>2 DEF NoTermination
<1> QED
  BY <1>1, <1>2
     DEF Unfolded, LockUncontended, LockContended, LockSlowPath, LockSlowPathReturns,
         UnlockUncontended, UnlockContended, UnlockSlowPath, RequestSuspend, Resume, CancelWait,
         threadVars, vars

(* No step lets a second thread in. *)
LEMMA MutexStep ==
    LightInv /\ (NoTermination => MutexInv) /\ [Next]_vars => (NoTermination => MutexInv)'
<1> SUFFICES ASSUME LightInv, NoTermination => MutexInv, Unfolded, NoTermination'
             PROVE  MutexInv'
  BY LightCases
<1>t. ~ \E t \in Terminable : RequestTerminate(t)
  BY TerminationStays DEF LightInv
<1> SUFFICES ASSUME MutexInv PROVE MutexInv'
  BY TerminationStays DEF LightInv
<1> USE ThreadsAssumption
<1>l. /\ lockOwner \in [Threads -> Threads \cup {NoThread}]
      /\ addressKey \in [Threads -> Keys]
      /\ LightTypeOK /\ WaitingConsistent /\ OwnersInvolved /\ WordOwnerInvolved
  BY DEF LightInv, LockTypeOK
<1> USE DEF LightTypeOK, MutexInv, Involved, Owns
<1>1. ASSUME NEW t \in Threads, NEW l \in Keys, LockUncontended(t, l) PROVE MutexInv'
  <2>1. /\ pc[t] = "run" \/ (pc[t] = "retry" /\ cur[t] = l)
        /\ tag[l].owner = NoThread
        /\ held' = [held EXCEPT ![t] = @ \cup {l}]
        /\ pc' = [pc EXCEPT ![t] = "run"]
        /\ UNCHANGED <<cur, seen, waiting, cancelling, lockOwner, addressKey>>
    BY <1>1 DEF LockUncontended, Calls, Goto, Free, lockVars, threadVars
  <2>2. /\ tag'[l].owner = t
        /\ \A m \in Keys \ {l} : tag'[m] = tag[m]
    BY <1>1, <1>l DEF LockUncontended, Tag
  <2>3. \A u \in waiting : addressKey[u] # l
    BY <1>l, <2>1 DEF WaitingConsistent
  <2>4. \A u \in Threads : ~ Involved(u, l)
    BY <2>1
  <2>5. \A u \in Threads, m \in Keys : Involved(u, m)' => tag'[m].owner = u
    BY <2>1, <2>2, <2>4, <1>l
  <2>6. \A u \in waiting : tag'[addressKey[u]] = tag[addressKey[u]]
    BY <2>2, <2>3, <1>l
  <2> QED
    BY <2>1, <2>5, <2>6
<1>2. ASSUME NEW t \in Threads, NEW l \in Keys, LockContended(t, l) PROVE MutexInv'
  <2>1. /\ pc[t] \in {"run", "retry"}
        /\ pc' = [pc EXCEPT ![t] = "lockSlow"]
        /\ cur' = [cur EXCEPT ![t] = l]
        /\ UNCHANGED <<held, waiting, cancelling, lockOwner, addressKey>>
    BY <1>2 DEF LockContended, Calls, Goto, lockVars, threadVars
  <2>2. /\ tag'[l].owner = tag[l].owner /\ tag'[l].wait = TRUE
        /\ \A m \in Keys \ {l} : tag'[m] = tag[m]
    BY <1>2, <1>l DEF LockContended
  <2>3. \A m \in Keys : tag'[m].owner = tag[m].owner
    BY <2>2
  <2>4. \A u \in Threads, m \in Keys : Involved(u, m)' => Involved(u, m)
    BY <2>1, <1>l
  <2>5. \A u \in waiting : tag'[addressKey[u]].wait = TRUE
    BY <2>2, <1>l
  <2> QED
    BY <2>1, <2>3, <2>4, <2>5, <1>l
<1>3. ASSUME NEW t \in Threads, LockSlowPath(t) PROVE MutexInv'
  <2>1. CASE tag[cur[t]] # Tag(seen[t], TRUE)
    <3>1. /\ pc[t] = "lockSlow"
          /\ pc' = [pc EXCEPT ![t] = "retry"]
          /\ UNCHANGED <<tag, cur, held, waiting, cancelling, lockOwner, addressKey>>
      BY <1>3, <2>1 DEF LockSlowPath, Goto, lockVars
    <3> QED
      BY <3>1, <1>l
  <2>2. CASE tag[cur[t]] = Tag(seen[t], TRUE)
    <3>1. /\ pc[t] = "lockSlow"
          /\ lockOwner' = [lockOwner EXCEPT ![t] = seen[t]]
          /\ addressKey' = [addressKey EXCEPT ![t] = cur[t]]
          /\ waiting' = waiting \cup {t}
          /\ pc' = [pc EXCEPT ![t] = "wait"]
          /\ UNCHANGED <<tag, cur, held, cancelling>>
      BY <1>3, <2>2 DEF LockSlowPath, AddWaiter, Goto
    <3>2. tag[cur[t]].owner = seen[t] /\ tag[cur[t]].wait = TRUE
      BY <2>2 DEF Tag
    <3> QED
      BY <3>1, <3>2, <1>l
  <2> QED
    BY <2>1, <2>2
<1>4. ASSUME NEW t \in Threads, LockSlowPathReturns(t) PROVE MutexInv'
  BY <1>4, <1>l DEF LockSlowPathReturns, Goto, lockVars, threadVars
<1>5. ASSUME NEW t \in Threads, NEW l \in Keys, UnlockUncontended(t, l) PROVE MutexInv'
  <2>1. /\ pc[t] = "run" /\ l \in held[t]
        /\ tag[l].owner = t /\ tag[l].wait = FALSE
        /\ held' = [held EXCEPT ![t] = @ \ {l}]
        /\ UNCHANGED <<pc, cur, waiting, cancelling, lockOwner, addressKey>>
    BY <1>5 DEF UnlockUncontended, Tag, lockVars, threadVars
  <2>2. \A m \in Keys \ {l} : tag'[m] = tag[m]
    BY <1>5, <1>l DEF UnlockUncontended
  <2>3. \A u \in waiting : addressKey[u] # l
    BY <2>1
  <2>4. \A u \in Threads : ~ Involved(u, l)'
    BY <2>1, <1>l
  <2>5. \A u \in Threads, m \in Keys : Involved(u, m)' => tag'[m].owner = u
    BY <2>1, <2>2, <2>4, <1>l
  <2>6. \A u \in waiting : tag'[addressKey[u]] = tag[addressKey[u]]
    BY <2>2, <2>3, <1>l
  <2> QED
    BY <2>1, <2>5, <2>6
<1>6. ASSUME NEW t \in Threads, NEW l \in Keys, UnlockContended(t, l) PROVE MutexInv'
  BY <1>6, <1>l DEF UnlockContended, Goto, lockVars, threadVars
<1>7. ASSUME NEW t \in Threads, UnlockSlowPath(t) PROVE MutexInv'
  <2> DEFINE ws == WaitersOn(t, cur[t])
  <2>1. PICK w \in Threads \cup {NoThread} :
           /\ w = NoThread => ws = {}
           /\ w # NoThread => w \in ws
           /\ tag' = [tag EXCEPT ![cur[t]] = Tag(w, w # NoThread /\ ws # {w})]
           /\ waiting' = waiting \ {w}
           /\ \A u \in Threads : lockOwner'[u] = IF u = w THEN NoThread
                                                  ELSE IF u \in ws THEN w
                                                  ELSE lockOwner[u]
           /\ UNCHANGED addressKey
    BY <1>7, UnlockSlowEffect
  <2>2. /\ pc[t] = "unlockSlow"
        /\ pc' = [pc EXCEPT ![t] = "run"]
        /\ UNCHANGED <<cur, held, cancelling>>
    BY <1>7 DEF UnlockSlowPath, Goto
  <2>3. \A u \in Threads : u \in ws <=> lockOwner[u] = t /\ addressKey[u] = cur[t]
    BY DEF WaitersOn, Waiters
  <2>4. /\ tag'[cur[t]].owner = w
        /\ w # NoThread /\ ws # {w} => tag'[cur[t]].wait = TRUE
        /\ \A m \in Keys \ {cur[t]} : tag'[m] = tag[m]
    BY <2>1, <1>l DEF Tag
  <2>5. \A u \in ws : u # w => ws # {w}
    OBVIOUS
  <2>6. cur[t] \in Keys /\ tag[cur[t]].owner = t
    BY <2>2, <1>l
  <2>7. \A u \in Threads : u \in waiting /\ addressKey[u] = cur[t] => u \in ws
    BY <2>3, <2>6
  <2> HIDE DEF ws
  <2>8. ASSUME NEW u \in Threads, NEW m \in Keys, Involved(u, m)'
        PROVE  tag'[m].owner = u
    <3>1. CASE u = w
      <4>1. w \in waiting /\ cur[w] = cur[t] /\ pc[w] = "wait"
        BY <3>1, <2>1, <2>3, <1>l DEF WaitingConsistent
      <4>2. m = cur[t] \/ Involved(w, m)
        BY <2>8, <3>1, <4>1, <2>2, <1>l
      <4>3. m # cur[t] => tag'[m] = tag[m]
        BY <2>4
      <4> QED
        BY <3>1, <4>2, <4>3, <2>4
    <3>2. CASE u # w
      <4>1. Involved(u, m)
        BY <2>8, <3>2, <2>1, <2>2, <1>l
      <4>2. m # cur[t]
        BY <2>8, <4>1, <2>2, <2>6, <1>l DEF WaitingConsistent
      <4> QED
        BY <4>1, <4>2, <2>4
    <3> QED
      BY <3>1, <3>2
  <2>9. ASSUME NEW u \in waiting'
        PROVE  tag'[addressKey'[u]].owner = lockOwner'[u] /\ tag'[addressKey'[u]].wait = TRUE
    <3>0. u \in Threads /\ u \in waiting /\ u # w /\ addressKey[u] \in Keys
      BY <2>1, <1>l
    <3>1. CASE addressKey[u] = cur[t]
      BY <3>0, <3>1, <2>1, <2>4, <2>5, <2>7
    <3>2. CASE addressKey[u] # cur[t]
      BY <3>0, <3>2, <2>1, <2>3, <2>4
    <3> QED
      BY <3>1, <3>2
  <2> QED
    BY <2>2, <2>8, <2>9
<1>8. ASSUME NEW t \in Threads, NEW type \in SuspendTypes,
             RequestSuspend(t, type) \/ Resume(t, type)
      PROVE  MutexInv'
  BY <1>8 DEF RequestSuspend, Resume, llVars, lockVars
<1>9. ASSUME NEW t \in Threads, CancelWait(t) PROVE FALSE
  BY <1>9 DEF CancelWait
<1>10. CASE RestoreStep /\ UNCHANGED <<llVars, threadVars>>
  BY <1>10 DEF RestoreStep, RestoreIteration, llVars, threadVars
<1>11. CASE UNCHANGED vars
  BY <1>11 DEF vars, llVars, threadVars, lockVars
<1> QED
  BY <1>t, <1>1, <1>2, <1>3, <1>4, <1>5, <1>6, <1>7, <1>8, <1>9, <1>10, <1>11
     DEF Unfolded

(* Mutual exclusion of light locks, for any number of threads and locks:   *)
(* when Lock() has returned and until Unlock() is done, the lock word      *)
(* names this thread, and every waiter waits for the thread it names.      *)
THEOREM LightMutualExclusion == Spec => [](MutualExclusion /\ WaiterIsAnnounced)
<1>1. Init => MutexInv
  BY ThreadsAssumption
     DEF Init, LockInit, MutexInv, Involved, Owns, Free
<1>2. LightInv /\ (NoTermination => MutexInv) /\ [Next]_vars => (NoTermination => MutexInv)'
  BY MutexStep
<1>3. LightInv /\ (NoTermination => MutexInv) => MutualExclusion /\ WaiterIsAnnounced
  <2> SUFFICES ASSUME LightInv, MutexInv
               PROVE  /\ OwnsHeldLocks
                      /\ \A t \in waiting : /\ lockOwner[t] # NoThread
                                            /\ tag[addressKey[t]] = Tag(lockOwner[t], TRUE)
    BY DEF MutualExclusion, WaiterIsAnnounced
  <2>1. OwnsHeldLocks
    BY DEF MutexInv, OwnsHeldLocks, Involved
  <2>2. ASSUME NEW t \in waiting
        PROVE  lockOwner[t] # NoThread /\ tag[addressKey[t]] = Tag(lockOwner[t], TRUE)
    <3>1. t \in Threads /\ addressKey[t] \in Keys /\ lockOwner[t] # NoThread
      BY DEF LightInv, LightTypeOK, LockTypeOK, WaitingConsistent
    <3>2. /\ tag[addressKey[t]].owner = lockOwner[t]
          /\ tag[addressKey[t]].wait = TRUE
      BY DEF MutexInv
    <3>3. tag[addressKey[t]] \in [owner : Threads \cup {NoThread}, wait : BOOLEAN]
      BY <3>1 DEF LightInv, LightTypeOK
    <3> QED
      BY <3>1, <3>2, <3>3 DEF Tag
  <2> QED
    BY <2>1, <2>2
<1> QED
  BY <1>1, <1>2, <1>3, LightInvariant, PTL DEF Spec

-----------------------------------------------------------------------------
(* Suspension.  A thread that is not in the state its requests call for    *)
(* owns a lock whose word announces a waiter.                              *)
Announces(t) == \E l \in Keys : tag[l].owner = t /\ tag[l].wait = TRUE
SuspendInv ==
    \A t \in Threads : /\ suspendAllowed[t] = TRUE
                       /\ suspended[t] \subseteq suspendReq[t]
                       /\ suspendReq[t] # suspended[t] => Announces(t)

(* A thread whose counter is positive has a waiter, and the word of the    *)
(* lock it waits for says so.                                              *)
LEMMA CountedWaiterAnnounced ==
    LightInv /\ MutexInv /\ KernelWaiterCount =>
       \A t \in Threads : /\ numKernelWaiters[t] \in Nat
                          /\ numKernelWaiters[t] > 0 => Announces(t)
<1> SUFFICES ASSUME LightInv, MutexInv, KernelWaiterCount, NEW t \in Threads
             PROVE  /\ numKernelWaiters[t] \in Nat
                    /\ numKernelWaiters[t] > 0 => Announces(t)
  OBVIOUS
<1>1. numKernelWaiters[t] = Cardinality(KernelWaiters(t))
  BY DEF KernelWaiterCount
<1>2. IsFiniteSet(KernelWaiters(t))
  BY ThreadsAssumption, FS_Subset DEF KernelWaiters, Waiters
<1>3. Cardinality(KernelWaiters(t)) \in Nat
  BY <1>2, FS_CardinalityType
<1>4. ASSUME numKernelWaiters[t] > 0 PROVE Announces(t)
  <2>1. KernelWaiters(t) # {}
    BY <1>1, <1>4, FS_EmptySet
  <2>2. PICK u \in Threads : lockOwner[u] = t
    BY <2>1 DEF KernelWaiters, Waiters
  <2>3. u \in waiting /\ addressKey[u] \in Keys
    BY <2>2, ThreadsAssumption DEF LightInv, LockTypeOK, WaitingConsistent
  <2> QED
    BY <2>2, <2>3 DEF MutexInv, Announces
<1> QED
  BY <1>1, <1>3, <1>4

(* No step lets a suspended thread run on in the kernel. *)
LEMMA SuspendStep ==
    /\ LightInv /\ LightInv'
    /\ NoTermination => MutexInv /\ SuspendInv
    /\ (NoTermination => MutexInv)'
    /\ KernelWaiterCount /\ KernelWaiterCount'
    /\ [Next]_vars
    => (NoTermination => SuspendInv)'
<1> SUFFICES ASSUME LightInv, LightInv', NoTermination => MutexInv /\ SuspendInv,
                    (NoTermination => MutexInv)', KernelWaiterCount, KernelWaiterCount',
                    Unfolded, NoTermination'
             PROVE  SuspendInv'
  BY LightCases
<1>t. NoTermination /\ ~ \E t \in Terminable : RequestTerminate(t)
  BY TerminationStays DEF LightInv
<1>m. MutexInv /\ SuspendInv /\ MutexInv'
  BY <1>t
<1>c. \A t \in Threads : numKernelWaiters[t] \in Nat /\ (numKernelWaiters[t] > 0 => Announces(t))
  BY <1>m, CountedWaiterAnnounced
<1>p. (LightInv /\ MutexInv /\ KernelWaiterCount =>
         \A t \in Threads : /\ numKernelWaiters[t] \in Nat
                            /\ numKernelWaiters[t] > 0 => Announces(t))'
  BY CountedWaiterAnnounced, PTL
<1>d. \A t \in Threads : numKernelWaiters'[t] \in Nat /\ (numKernelWaiters'[t] > 0 => Announces(t)')
  BY <1>m, <1>p
<1>l. LightTypeOK /\ LightTypeOK' /\ lockOwner \in [Threads -> Threads \cup {NoThread}]
  BY DEF LightInv, LockTypeOK
<1>k. \A t \in Threads : suspended[t] = {} \/ IsSuspended(t)
  BY <1>m DEF SuspendInv, IsSuspended, SuspendFlags
<1> USE ThreadsAssumption DEF LightTypeOK, SuspendInv
<1>1. ASSUME UNCHANGED <<suspendReq, suspendAllowed, suspended>>,
             \A u \in Threads : Announces(u) => Announces(u)'
      PROVE  SuspendInv'
  BY <1>1, <1>m
<1>2. ASSUME NEW t \in Threads, NEW l \in Keys, LockUncontended(t, l) PROVE SuspendInv'
  <2>1. tag[l] = Free /\ tag' = [tag EXCEPT ![l] = Tag(t, FALSE)]
    BY <1>2 DEF LockUncontended
  <2>2. tag[l].owner = NoThread /\ \A m \in Keys \ {l} : tag'[m] = tag[m]
    BY <2>1, <1>l DEF Free
  <2>3. \A u \in Threads : Announces(u) => Announces(u)'
    BY <2>2 DEF Announces
  <2> QED
    BY <1>2, <2>3, <1>1 DEF LockUncontended, threadVars
<1>3. ASSUME NEW t \in Threads, NEW l \in Keys, LockContended(t, l) PROVE SuspendInv'
  <2>1. tag' = [tag EXCEPT ![l].wait = TRUE]
    BY <1>3 DEF LockContended
  <2>2. \A u \in Threads : Announces(u) => Announces(u)'
    BY <2>1, <1>l DEF Announces
  <2> QED
    BY <1>3, <2>2, <1>1 DEF LockContended, threadVars
<1>4. ASSUME NEW t \in Threads, LockSlowPath(t) PROVE SuspendInv'
  <2>1. UNCHANGED <<tag, suspendReq, suspendAllowed>>
    BY <1>4 DEF LockSlowPath
  <2>2. \A u \in Threads : Announces(u) => Announces(u)'
    BY <2>1 DEF Announces
  <2>3. \/ UNCHANGED suspended
        \/ seen[t] \in Threads /\ numKernelWaiters'[seen[t]] > 0
           /\ suspended' = [suspended EXCEPT ![seen[t]] = {}]
    BY <1>4 DEF LockSlowPath, ContinueIfHasKernelWaiters, Continue, LightInv, WaitingConsistent
  <2> QED
    BY <2>1, <2>2, <2>3, <1>1, <1>d, <1>m, <1>l
<1>5. ASSUME NEW t \in Threads, LockSlowPathReturns(t) PROVE SuspendInv'
  BY <1>5, <1>1 DEF LockSlowPathReturns, threadVars, Announces
<1>6. ASSUME NEW t \in Threads, NEW l \in Keys, UnlockUncontended(t, l) PROVE SuspendInv'
  <2>1. tag[l] = Tag(t, FALSE) /\ tag' = [tag EXCEPT ![l] = Free]
    BY <1>6 DEF UnlockUncontended
  <2>2. \A u \in Threads : Announces(u) => Announces(u)'
    BY <2>1, <1>l DEF Announces, Tag
  <2> QED
    BY <1>6, <2>2, <1>1 DEF UnlockUncontended, threadVars
<1>7. ASSUME NEW t \in Threads, NEW l \in Keys, UnlockContended(t, l) PROVE SuspendInv'
  BY <1>7, <1>1 DEF UnlockContended, threadVars, Announces
<1>8. ASSUME NEW t \in Threads, UnlockSlowPath(t) PROVE SuspendInv'
  <2>1. UNCHANGED <<suspendReq, suspendAllowed>> /\ pc[t] = "unlockSlow"
    BY <1>8 DEF UnlockSlowPath
  <2>2. PICK w \in Threads \cup {NoThread} : suspended' = SuspendedAfterUnlock(t, w)
    BY <1>8 DEF UnlockSlowPath
  <2>3. tag[cur[t]].owner = t /\ \A l \in Keys \ {cur[t]} : tag'[l] = tag[l]
    BY <1>8, <2>1, <1>l, <1>m, UnlockSlowEffect DEF MutexInv, Involved, Owns
  <2>4. \A u \in Threads \ {t} : Announces(u) => Announces(u)'
    BY <2>3 DEF Announces
  <2>5. ASSUME NEW u \in Threads
        PROVE  /\ suspended'[u] \subseteq suspendReq'[u]
               /\ suspendReq'[u] # suspended'[u] => Announces(u)'
    <3>1. CASE u = t /\ IsSuspended(u) /\ numKernelWaiters'[u] <= 0
      BY <3>1, <2>1, <2>2, <1>m DEF SuspendedAfterUnlock, SuspendFlags
    <3>2. CASE u = t /\ ~ (IsSuspended(u) /\ numKernelWaiters'[u] <= 0)
      <4>1. suspended'[u] = suspended[u]
        BY <3>2, <2>2 DEF SuspendedAfterUnlock
      <4>2. CASE numKernelWaiters'[u] > 0
        BY <4>1, <4>2, <1>d, <1>m, <2>1
      <4>3. CASE ~ IsSuspended(u)
        BY <4>1, <4>3, <1>k, <1>m, <2>1 DEF IsSuspended, SuspendFlags
      <4> QED
        BY <3>2, <4>2, <4>3, <1>d
    <3>3. CASE u # t /\ u = w /\ IsSuspended(u) /\ numKernelWaiters'[u] > 0
      <4>1. suspended'[u] = {}
        BY <3>3, <2>2 DEF SuspendedAfterUnlock
      <4> QED
        BY <3>3, <4>1, <1>d
    <3>4. CASE u # t /\ ~ (u = w /\ IsSuspended(u) /\ numKernelWaiters'[u] > 0)
      <4>1. suspended'[u] = suspended[u]
        BY <3>4, <2>2 DEF SuspendedAfterUnlock
      <4> QED
        BY <3>4, <4>1, <2>1, <2>4, <1>m
    <3> QED
      BY <3>1, <3>2, <3>3, <3>4
  <2> QED
    BY <2>1, <2>5, <1>m
<1>9. ASSUME NEW t \in Threads, NEW type \in SuspendTypes, RequestSuspend(t, type)
      PROVE  SuspendInv'
  <2>1. UNCHANGED <<tag, suspendAllowed, numKernelWaiters>>
        /\ suspendReq' = [suspendReq EXCEPT ![t] = @ \cup {type}]
    BY <1>9 DEF RequestSuspend, llVars, lockVars
  <2>2. \A u \in Threads : Announces(u)' <=> Announces(u)
    BY <2>1 DEF Announces
  <2>3. \/ numKernelWaiters[t] > 0 /\ UNCHANGED suspended
        \/ suspended' = [suspended EXCEPT ![t] = suspendReq'[t]]
    BY <1>9, <2>1, <1>m DEF RequestSuspend, TrySuspend, UpdateState
  <2> QED
    BY <2>1, <2>2, <2>3, <1>c, <1>m, <1>l
<1>10. ASSUME NEW t \in Threads, NEW type \in SuspendTypes, Resume(t, type)
       PROVE  SuspendInv'
  <2>1. UNCHANGED <<tag, suspendAllowed>>
        /\ suspendReq' = [suspendReq EXCEPT ![t] = @ \ {type}]
        /\ suspended' = [suspended EXCEPT ![t] = suspendReq'[t]]
    BY <1>10, <1>m DEF Resume, llVars, UpdateState
  <2>2. \A u \in Threads : Announces(u)' <=> Announces(u)
    BY <2>1 DEF Announces
  <2> QED
    BY <2>1, <2>2, <1>m, <1>l
<1>11. ASSUME NEW t \in Threads, CancelWait(t) PROVE FALSE
  BY <1>11, <1>m DEF CancelWait, MutexInv
<1>12. CASE RestoreStep /\ UNCHANGED <<llVars, threadVars>>
  BY <1>12, <1>1 DEF llVars, threadVars, Announces
<1>13. CASE UNCHANGED vars
  BY <1>13, <1>1 DEF vars, llVars, threadVars, Announces
<1> QED
  BY <1>t, <1>2, <1>3, <1>4, <1>5, <1>6, <1>7, <1>8, <1>9, <1>10, <1>11, <1>12, <1>13
     DEF Unfolded

(* A suspension that had to be put off is not forgotten: until the first   *)
(* termination, a thread that is not in the suspension state requested of  *)
(* it owns a lock whose waiter bit is set, whose Unlock() will suspend it. *)
THEOREM LightSuspendHonoured == Spec => []SuspendHonoured
<1>1. Init => (NoTermination => MutexInv /\ SuspendInv)
  BY ThreadsAssumption
     DEF Init, LockInit, MutexInv, Involved, Owns, Free, SuspendInv
<1>2. LightInv /\ (NoTermination => MutexInv) /\ [Next]_vars => (NoTermination => MutexInv)'
  BY MutexStep
<1>3. LightInv /\ (NoTermination => MutexInv /\ SuspendInv) => SuspendHonoured
  <2> SUFFICES ASSUME LightInv, SuspendInv, NEW t \in Threads, SuspendFlags(t) # suspended[t]
               PROVE  \E l \in Keys : tag[l] = Tag(t, TRUE)
    BY DEF SuspendHonoured
  <2>1. PICK l \in Keys : tag[l].owner = t /\ tag[l].wait = TRUE
    BY DEF SuspendInv, SuspendFlags, Announces
  <2>2. tag[l] \in [owner : Threads \cup {NoThread}, wait : BOOLEAN]
    BY DEF LightInv, LightTypeOK
  <2> QED
    BY <2>1, <2>2 DEF Tag
<1>4. (NoTermination => MutexInv /\ SuspendInv) <=>
         (NoTermination => MutexInv) /\ (NoTermination => SuspendInv)
  OBVIOUS
<1> QED
  BY <1>1, <1>2, <1>3, <1>4, SuspendStep, LightInvariant, LightPriorityInheritance, PTL DEF Spec

-----------------------------------------------------------------------------
(* The state shows only suspensions that are requested and allowed.        *)
FlagsInv == \A t \in Threads : suspended[t] \subseteq SuspendFlags(t)

(* What a step does to the suspended threads that block others. *)
BlockerKept == FlagsInv' /\ \A t \in Threads : BlockerContinued(t)

(* No step suspends a thread that blocks others, but a Resume that leaves  *)
(* other requests.                                                         *)
LEMMA BlockerStep ==
    /\ LightInv /\ FlagsInv
    /\ KernelWaiterCount /\ KernelWaiterCount'
    /\ [Next]_vars
    => BlockerKept
<1> SUFFICES ASSUME LightInv, FlagsInv, KernelWaiterCount, KernelWaiterCount', Unfolded
             PROVE  BlockerKept
  BY LightCases
<1>l. LightTypeOK /\ LockTypeOK /\ WaitingConsistent
  BY DEF LightInv
<1>f. \A o \in Threads, k \in Keys : KernelWaitersOn(o, k) \in Nat
  <2>1. ASSUME NEW o \in Threads, NEW k \in Keys PROVE KernelWaitersOn(o, k) \in Nat
    <3>1. IsFiniteSet(WaitersOn(o, k))
      BY ThreadsAssumption, FS_Subset DEF WaitersOn, Waiters
    <3>2. Cardinality(WaitersOn(o, k)) \in Nat
      BY <3>1, FS_CardinalityType
    <3> QED
      BY <3>2 DEF KernelWaitersOn, KernelCount
  <2> QED
    BY <2>1
<1>i. \A u \in Threads : numKernelWaiters[u] \in Int
  BY <1>l DEF LockTypeOK
<1> USE ThreadsAssumption DEF LightTypeOK, FlagsInv, BlockerKept, BlockerContinued, BlockerSuspended,
                           SuspendFlags
<1>1. ASSUME UNCHANGED <<suspendReq, suspendAllowed, suspended, numKernelWaiters>>
      PROVE  BlockerKept
  BY <1>1, <1>i
<1>2. ASSUME NEW t \in Threads, NEW l \in Keys,
             LockUncontended(t, l) \/ LockContended(t, l) \/ UnlockUncontended(t, l)
                \/ UnlockContended(t, l)
      PROVE  BlockerKept
  BY <1>1, <1>2
     DEF LockUncontended, LockContended, UnlockUncontended, UnlockContended, threadVars, lockVars
<1>3. ASSUME NEW t \in Threads, LockSlowPathReturns(t) PROVE BlockerKept
  BY <1>1, <1>3 DEF LockSlowPathReturns, threadVars, lockVars
<1>4. ASSUME NEW t \in Threads, LockSlowPath(t) PROVE BlockerKept
  <2>1. CASE UNCHANGED <<suspended, lockVars>>
    BY <1>1, <1>4, <2>1 DEF LockSlowPath, lockVars
  <2>2. CASE AddWaiter(seen[t], t, cur[t]) /\ ContinueIfHasKernelWaiters(seen[t])
    <3> DEFINE o == seen[t]
    <3>1. o \in Threads /\ UNCHANGED <<suspendReq, suspendAllowed>>
      BY <1>4, <1>l DEF LockSlowPath, WaitingConsistent
    <3>2. \A u \in Threads \ {o} : numKernelWaiters'[u] = numKernelWaiters[u]
      BY <2>2, <1>l DEF AddWaiter, LockTypeOK
    <3>3. \A u \in Threads \ {o} : suspended'[u] = suspended[u]
      BY <2>2, <1>l DEF ContinueIfHasKernelWaiters, Continue
    <3>4. suspended'[o] = {} \/ suspended'[o] = suspended[o]
      BY <2>2, <3>1, <1>l DEF ContinueIfHasKernelWaiters, Continue
    <3>5. numKernelWaiters'[o] > 0 => suspended'[o] = {}
      BY <2>2, <3>1, <1>l DEF ContinueIfHasKernelWaiters, Continue, IsSuspended
    <3> QED
      BY <3>1, <3>2, <3>3, <3>4, <3>5, <1>i
  <2> QED
    BY <1>4, <2>1, <2>2 DEF LockSlowPath
<1>5. ASSUME NEW t \in Threads, UnlockSlowPath(t) PROVE BlockerKept
  <2>1. UNCHANGED <<suspendReq, suspendAllowed>> /\ pc[t] = "unlockSlow"
    BY <1>5 DEF UnlockSlowPath
  <2>2. PICK w \in Threads \cup {NoThread} :
           /\ suspended' = SuspendedAfterUnlock(t, w)
           /\ \/ w = NoThread /\ UNCHANGED numKernelWaiters
              \/ w \in Threads /\ RemoveWaiterByKey(t, cur[t], w)
    BY <1>5 DEF UnlockSlowPath, lockVars
  <2>3. w # t
    BY <2>1, <2>2, <1>l
       DEF RemoveWaiterByKey, IsHighestPriorityWaiter, WaitersOn, Waiters, WaitingConsistent
  <2>4. /\ numKernelWaiters'[t] <= numKernelWaiters[t]
        /\ \A u \in Threads \ {t, w} : numKernelWaiters'[u] = numKernelWaiters[u]
    BY <2>2, <2>3, <1>l, <1>f DEF RemoveWaiterByKey, LockTypeOK
  <2>5. \A u \in Threads : numKernelWaiters[u] \in Int
    BY <1>l DEF LockTypeOK
  <2>6. numKernelWaiters'[t] \in Int
    BY <2>2, <2>3, <1>l, <1>f DEF RemoveWaiterByKey, LockTypeOK
  <2>7. ASSUME NEW u \in Threads
        PROVE  /\ suspended'[u] \subseteq SuspendFlags(u)'
               /\ BlockerContinued(u)
    <3>1. CASE u = t
      <4>1. \/ suspended'[u] = SuspendFlags(u) /\ numKernelWaiters'[u] <= 0
            \/ suspended'[u] = suspended[u]
        BY <2>2, <3>1 DEF SuspendedAfterUnlock
      <4> QED
        BY <4>1, <3>1, <2>1, <2>4, <2>5, <2>6
    <3>2. CASE u # t /\ u = w
      <4>1. \/ suspended'[u] = {}
            \/ suspended'[u] = suspended[u] /\ ~ (IsSuspended(u) /\ numKernelWaiters'[u] > 0)
        BY <2>2, <3>2 DEF SuspendedAfterUnlock
      <4> QED
        BY <4>1, <2>1 DEF IsSuspended
    <3>3. CASE u # t /\ u # w
      <4>1. suspended'[u] = suspended[u]
        BY <2>2, <3>3 DEF SuspendedAfterUnlock
      <4> QED
        BY <4>1, <3>3, <2>1, <2>4, <2>5
    <3> QED
      BY <3>1, <3>2, <3>3
  <2> QED
    BY <2>7
<1>6. ASSUME NEW t \in Threads, NEW type \in SuspendTypes, RequestSuspend(t, type)
      PROVE  BlockerKept
  <2>1. UNCHANGED <<suspendAllowed, numKernelWaiters>>
        /\ suspendReq' = [suspendReq EXCEPT ![t] = @ \cup {type}]
    BY <1>6 DEF RequestSuspend, lockVars
  <2>2. \/ UNCHANGED suspended
        \/ /\ ~ (numKernelWaiters[t] > 0)
           /\ suspended' = [suspended EXCEPT ![t] = IF suspendAllowed[t] THEN suspendReq'[t] ELSE {}]
    BY <1>6 DEF RequestSuspend, TrySuspend, UpdateState
  <2> QED
    BY <2>1, <2>2, <1>l, <1>i
<1>7. ASSUME NEW t \in Threads, NEW type \in SuspendTypes, Resume(t, type)
      PROVE  BlockerKept
  <2>1. UNCHANGED <<suspendAllowed, numKernelWaiters>>
        /\ suspendReq' = [suspendReq EXCEPT ![t] = @ \ {type}]
        /\ suspended' = [suspended EXCEPT ![t] = IF suspendAllowed[t] THEN suspendReq'[t] ELSE {}]
    BY <1>7 DEF Resume, lockVars, UpdateState
  <2>2. suspended'[t] # {} => ResumeLeaves(t)
    BY <1>7, <2>1, <1>l DEF ResumeLeaves
  <2>3. FlagsInv'
    BY <2>1, <1>l
  <2>4. ASSUME NEW u \in Threads \ {t} PROVE BlockerContinued(u)
    BY <2>1, <1>l, <1>i
  <2> QED
    BY <2>2, <2>3, <2>4
<1>8. ASSUME NEW t \in Threads, RequestTerminate(t) PROVE BlockerKept
  <2>1. UNCHANGED <<suspendReq, numKernelWaiters>>
        /\ suspendAllowed' = [suspendAllowed EXCEPT ![t] = @ /\ ~ IsSuspended(t)]
        /\ suspended' = [suspended EXCEPT ![t] = IF IsSuspended(t) THEN {} ELSE @]
    BY <1>8 DEF RequestTerminate, SetBasePriority, lockVars
  <2>2. suspended'[t] = {}
    BY <2>1, <1>l DEF IsSuspended
  <2> QED
    BY <2>1, <2>2, <1>l, <1>i
<1>9. ASSUME NEW t \in Threads, CancelWait(t) PROVE BlockerKept
  <2>1. PICK o \in Threads : RemoveWaiter(o, t)
    BY <1>9 DEF CancelWait
  <2>2. addressKey[t] \in Keys /\ KernelCount(addressKey[t]) \in {0, 1}
    BY <1>l DEF LockTypeOK, KernelCount
  <2>3. \A u \in Threads : /\ numKernelWaiters'[u] <= numKernelWaiters[u]
                           /\ numKernelWaiters[u] \in Int /\ numKernelWaiters'[u] \in Int
    BY <2>1, <2>2, <1>l DEF RemoveWaiter, LockTypeOK
  <2>4. UNCHANGED <<suspendReq, suspendAllowed, suspended>>
    BY <1>9 DEF CancelWait
  <2> QED
    BY <2>3, <2>4
<1>10. CASE RestoreStep /\ UNCHANGED <<llVars, threadVars>>
  BY <1>1, <1>10 DEF RestoreStep, RestoreIteration, threadVars
<1>11. CASE UNCHANGED vars
  BY <1>1, <1>11 DEF vars, threadVars, lockVars
<1> QED
  BY <1>2, <1>3, <1>4, <1>5, <1>6, <1>7, <1>8, <1>9, <1>10, <1>11, TerminateAssumption
     DEF Unfolded

(* No thread that others wait for on a kernel lock is suspended, or left   *)
(* suspended when it gets another waiter, with any number of threads,      *)
(* locks and suspend types and with terminations; Resume() is the one step *)
(* of the code that does so, when other requests for the thread are left.  *)
THEOREM LightBlockersContinue == Spec => BlockersContinue
<1>1. Init => FlagsInv
  BY DEF Init, FlagsInv
<1>2. BlockerKept => FlagsInv' /\ [\A t \in Threads : BlockerContinued(t)]_vars
  BY DEF BlockerKept
<1> QED
  BY <1>1, <1>2, BlockerStep, LightInvariant, LightPriorityInheritance, PTL
     DEF Spec, BlockersContinue
=============================================================================

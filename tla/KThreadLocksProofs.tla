------------------------ MODULE KThreadLocksProofs ------------------------
(***************************************************************************)
(* Proofs about KThreadLocks, for every number of threads, lock keys and   *)
(* priorities.                                                             *)
(***************************************************************************)
EXTENDS KThreadLocks, TLAPS, FiniteSetTheorems, WellFoundedInduction

USE DEF Idle

(* The disjuncts of LockNext, with their bound variables made explicit. *)
AddStep == \E o, t \in Threads, k \in Keys :
              Idle /\ MayWaitFor(t, o, k) /\ AddWaiter(o, t, k)
RemoveStep == \E o, t \in Threads :
              Idle /\ lockOwner[t] = o /\ RemoveWaiter(o, t)
HandOverStep == \E o, w \in Threads, k \in Keys : Idle /\ RemoveWaiterByKey(o, k, w)
BaseStep == \E t \in Threads, p \in Priorities : Idle /\ SetBasePriority(t, p)

(* Every step that changes something is one of five kinds.  *)
LEMMA LockCases ==
    [LockNext]_lockVars =>
       AddStep \/ RemoveStep \/ HandOverStep \/ BaseStep \/ RestoreStep
          \/ UNCHANGED lockVars
BY DEF LockNext, AddStep, RemoveStep, HandOverStep, BaseStep, IncreaseBasePriority

-----------------------------------------------------------------------------
(* The types of the variables are preserved by every operation. *)
LEMMA LockTypeInit == LockInit => LockTypeOK
BY ThreadsAssumption, KeysAssumption DEF LockInit, LockTypeOK

(* Every step keeps the types. *)
LEMMA LockTypeStep == LockTypeOK /\ [LockNext]_lockVars => LockTypeOK'
<1> SUFFICES ASSUME LockTypeOK, [LockNext]_lockVars PROVE LockTypeOK'
  OBVIOUS
<1> USE ThreadsAssumption, PrioritiesAssumption
<1>k. \A k \in Keys : KernelCount(k) \in {0, 1}
  BY DEF KernelCount
<1>w. \A o, k : WaitersOn(o, k) \subseteq Threads /\ IsFiniteSet(WaitersOn(o, k))
  BY FS_Subset DEF WaitersOn, Waiters
<1>c. \A o, k : Cardinality(WaitersOn(o, k)) \in Nat
  BY <1>w, FS_CardinalityType
<1>1. CASE AddStep
  BY <1>1, <1>k, <1>w DEF AddStep, AddWaiter, LockTypeOK, InsertedAfter, Without
<1>2. CASE RemoveStep
  BY <1>2, <1>k DEF RemoveStep, RemoveWaiter, LockTypeOK, Without
<1>3. CASE HandOverStep
  BY <1>3, <1>k, <1>c DEF HandOverStep, RemoveWaiterByKey, KernelWaitersOn, LockTypeOK, Without
<1>4. CASE BaseStep
  BY <1>4 DEF BaseStep, SetBasePriority, LockTypeOK
<1>5. CASE RestoreStep
  BY <1>5, <1>w DEF RestoreStep, RestoreIteration, LockTypeOK, InsertedAfter, Without
<1>6. CASE UNCHANGED lockVars
  BY <1>6 DEF lockVars, LockTypeOK
<1> QED
  BY LockCases, <1>1, <1>2, <1>3, <1>4, <1>5, <1>6

(* Every reachable state of the lock bookkeeping is well typed. *)
THEOREM LockTypeCorrect == LockSpec => []LockTypeOK
BY LockTypeInit, LockTypeStep, PTL DEF LockSpec

-----------------------------------------------------------------------------
(* Priority inheritance.  The steps below name what each operation does to *)
(* the set of priorities a thread may inherit.                             *)
LEMMA InheritanceInit == LockInit => PriorityInheritance
BY ThreadsAssumption, PrioritiesAssumption
   DEF LockInit, PriorityInheritance, Inherits, InheritablePriorities, Waiters

(* RestorePriority leaves every priority inherited. *)
LEMMA InheritanceStep ==
    LockTypeOK /\ PriorityInheritance /\ [LockNext]_lockVars => PriorityInheritance'
<1> SUFFICES ASSUME LockTypeOK, PriorityInheritance, [LockNext]_lockVars,
                    NEW u \in Threads, u # restoring'
             PROVE  Inherits(u, prio[u])'
  BY DEF PriorityInheritance
<1> USE ThreadsAssumption, PrioritiesAssumption
<1>t. prio \in [Threads -> Int] /\ base \in [Threads -> Int]
  BY DEF LockTypeOK
<1>1. CASE AddStep
  <2>1. PICK o \in Threads, t \in Threads, k \in Keys :
           restoring = NoThread /\ MayWaitFor(t, o, k) /\ AddWaiter(o, t, k)
    BY <1>1 DEF AddStep
  <2>2. Inherits(u, prio[u])
    BY <2>1 DEF PriorityInheritance
  <2>3. u = o => prio[o] <= prio[t]
    BY <2>1, <1>t DEF AddWaiter
  <2> QED
    BY <2>1, <2>2, <2>3, <1>t
       DEF AddWaiter, MayWaitFor, Inherits, InheritablePriorities, Waiters, LockTypeOK
<1>2. CASE RemoveStep
  <2>1. PICK o \in Threads, t \in Threads :
           restoring = NoThread /\ lockOwner[t] = o /\ RemoveWaiter(o, t)
    BY <1>2 DEF RemoveStep
  <2>2. Inherits(u, prio[u])
    BY <2>1 DEF PriorityInheritance
  <2>3. u = o => prio[o] # prio[t] \/ prio[o] = base[o]
    BY <2>1, <2>2, <1>t DEF RemoveWaiter, MayHaveInherited, Inherits, InheritablePriorities
  <2> QED
    BY <2>1, <2>2, <2>3, <1>t
       DEF RemoveWaiter, Inherits, InheritablePriorities, Waiters, LockTypeOK
<1>3. CASE HandOverStep
  <2>1. PICK o \in Threads, w \in Threads, k \in Keys :
           restoring = NoThread /\ RemoveWaiterByKey(o, k, w)
    BY <1>3 DEF HandOverStep
  <2>2. Inherits(u, prio[u])
    BY <2>1 DEF PriorityInheritance
  <2>h. IsHighestPriorityWaiter(w, o, k)
    BY <2>1 DEF RemoveWaiterByKey
  <2>s. WaitersOn(o, k) \subseteq Threads
    BY DEF WaitersOn, Waiters
  <2>3. lockOwner[w] = o /\ \A x \in WaitersOn(o, k) : prio[w] <= prio[x]
    <3>1. lockOwner[w] = o
      BY <2>h DEF IsHighestPriorityWaiter, WaitersOn, Waiters
    <3>2. ASSUME NEW x \in WaitersOn(o, k) PROVE prio[w] <= prio[x]
      <4>1. prio[w] \in Int /\ prio[x] \in Int
        BY <2>s, <1>t
      <4>2. x = w \/ prio[w] < prio[x] \/ prio[w] = prio[x]
        BY <2>h DEF IsHighestPriorityWaiter
      <4> QED
        BY <4>1, <4>2
    <3> QED
      BY <3>1, <3>2
  <2>4. u = o => prio[o] < prio[w] \/ prio[o] = base[o]
    BY <2>1, <2>2, <2>3, <1>t
       DEF RemoveWaiterByKey, MayHaveInherited, Inherits, InheritablePriorities, Waiters
  <2>5. Waiters(u)' = CASE u = w -> (Waiters(u) \cup WaitersOn(o, k)) \ {w}
                        [] u # w /\ u = o -> Waiters(u) \ WaitersOn(o, k)
                        [] OTHER -> Waiters(u)
    BY <2>1, <2>3 DEF RemoveWaiterByKey, WaitersOn, Waiters, IsHighestPriorityWaiter
  <2>6. UNCHANGED <<prio, base>>
    BY <2>1 DEF RemoveWaiterByKey
  <2> QED
    BY <2>2, <2>3, <2>4, <2>5, <2>6, <1>t
       DEF Inherits, InheritablePriorities, Waiters, WaitersOn
<1>4. CASE BaseStep
  BY <1>4, <1>t DEF BaseStep, SetBasePriority, PriorityInheritance, Inherits,
                    InheritablePriorities, Waiters, LockTypeOK
<1>5. CASE RestoreStep
  <2> DEFINE r == restoring
  <2>1. PICK p \in Priorities :
           /\ r \in Threads
           /\ Inherits(r, p)
           /\ \/ p = prio[r] /\ restoring' = NoThread /\ UNCHANGED prio
              \/ p # prio[r] /\ prio' = [prio EXCEPT ![r] = p] /\ restoring' = lockOwner[r]
           /\ UNCHANGED <<base, lockOwner>>
    BY <1>5 DEF RestoreStep, RestoreIteration, LockTypeOK
  <2>2. u # r => Inherits(u, prio[u])
    BY DEF PriorityInheritance
  <2>3. CASE p = prio[r]
    BY <2>1, <2>2, <2>3 DEF Inherits, InheritablePriorities, Waiters
  <2>4. CASE p # prio[r]
    <3>1. Waiters(u)' = Waiters(u) /\ r \notin Waiters(u)
      BY <2>1, <2>4 DEF Waiters
    <3>2. InheritablePriorities(u)' = InheritablePriorities(u)
      BY <2>1, <2>4, <3>1 DEF InheritablePriorities, Waiters, LockTypeOK
    <3>3. prio'[u] = IF u = r THEN p ELSE prio[u]
      BY <2>1, <2>4 DEF LockTypeOK
    <3> QED
      BY <2>1, <2>2, <3>2, <3>3 DEF Inherits
  <2> QED
    BY <2>3, <2>4
<1>6. CASE UNCHANGED lockVars
  BY <1>6 DEF lockVars, PriorityInheritance, Inherits, InheritablePriorities, Waiters
<1> QED
  BY LockCases, <1>1, <1>2, <1>3, <1>4, <1>5, <1>6

(* Priority inheritance is exact for any number of threads and locks: the  *)
(* conditions under which AddWaiter, RemoveWaiter and RemoveWaiterByKey    *)
(* call RestorePriority are sufficient, and each iteration of its loop     *)
(* leaves at most the next owner up the chain to be mended.                *)
THEOREM PriorityInheritanceCorrect == LockSpec => []PriorityInheritance
<1>1. LockInit => LockTypeOK /\ PriorityInheritance
  BY LockTypeInit, InheritanceInit
<1>2. LockTypeOK /\ PriorityInheritance /\ [LockNext]_lockVars
         => (LockTypeOK /\ PriorityInheritance)'
  BY LockTypeStep, InheritanceStep
<1> QED
  BY <1>1, <1>2, PTL DEF LockSpec

-----------------------------------------------------------------------------
(* A non-empty set of natural numbers has a least element. *)
LEMMA LeastOfNumbers ==
    ASSUME NEW T \in SUBSET Nat, T # {}
    PROVE  \E x \in T : \A y \in T : x <= y
<1>1. PICK R : R = OpToRel(<, Nat)
  BY Zenon
<1>2. IsWellFoundedOn(R, Nat)
  BY <1>1, NatLessThanWellFounded, Zenon
<1>3. \E x \in T : \A y \in T : ~ (<<y, x>> \in R)
  BY <1>2, WFMin, Zenon
<1>4. PICK x \in T : \A y \in T : ~ (<<y, x>> \in R)
  BY <1>3
<1>5. \A y \in T : ~ (y < x)
  BY <1>4, <1>1 DEF OpToRel
<1> QED
  BY <1>5

(* The threads blocked by o: o itself, with a thread its waiters, and nothing more *)
(* than any set that is closed in this way.                                        *)
LEMMA BlockedByLeast ==
    ASSUME NEW o \in Threads
    PROVE  /\ BlockedBy(o) \in SUBSET Threads /\ o \in BlockedBy(o)
           /\ HoldsItsWaiters(BlockedBy(o))
           /\ \A U \in SUBSET Threads :
                 o \in U /\ HoldsItsWaiters(U) => BlockedBy(o) \subseteq U
<1>1. BlockedBy(o) \in SUBSET Threads /\ o \in BlockedBy(o)
  BY DEF BlockedBy
<1>2. ASSUME NEW t \in Threads, lockOwner[t] \in BlockedBy(o)
      PROVE  t \in BlockedBy(o)
  BY <1>2 DEF BlockedBy, HoldsItsWaiters
<1>3. HoldsItsWaiters(BlockedBy(o))
  BY <1>2 DEF HoldsItsWaiters
<1>4. ASSUME NEW U \in SUBSET Threads, o \in U, HoldsItsWaiters(U)
      PROVE  BlockedBy(o) \subseteq U
  BY <1>4 DEF BlockedBy
<1> QED
  BY <1>1, <1>3, <1>4

(* What a waiter blocks, its owner blocks; unless they are on a cycle, the waiter *)
(* blocks fewer threads.                                                          *)
LEMMA WaiterBlocksFewer ==
    ASSUME NEW t \in Threads, NEW w \in Threads, lockOwner[w] = t, ~ OnCycle(w)
    PROVE  /\ Cardinality(BlockedBy(w)) \in Nat /\ Cardinality(BlockedBy(t)) \in Nat
           /\ Cardinality(BlockedBy(w)) < Cardinality(BlockedBy(t))
<1>1. /\ w \in BlockedBy(t) /\ t \in BlockedBy(t)
      /\ BlockedBy(t) \in SUBSET Threads /\ BlockedBy(w) \subseteq BlockedBy(t)
  <2>1. w \in BlockedBy(t)
    BY BlockedByLeast DEF HoldsItsWaiters
  <2> QED
    BY <2>1, BlockedByLeast
<1>2. t \notin BlockedBy(w)
  BY DEF OnCycle
<1>3. IsFiniteSet(BlockedBy(t)) /\ IsFiniteSet(BlockedBy(w))
  BY <1>1, FS_Subset, ThreadsAssumption
<1>4. BlockedBy(w) # BlockedBy(t)
  BY <1>1, <1>2
<1> QED
  BY <1>1, <1>3, <1>4, FS_Subset, FS_CardinalityType

(* Outside the loop of RestorePriority, no thread runs at less than the priority of *)
(* a thread that it blocks.                                                         *)
LEMMA NoInversion ==
    ASSUME LockTypeOK, PriorityInheritance, Idle,
           NEW o \in Threads, NEW t \in BlockedBy(o)
    PROVE  prio[o] <= prio[t]
<1>1. PICK U : U = {u \in Threads : prio[o] <= prio[u]}
  OBVIOUS
<1>2. prio \in [Threads -> Int]
  BY PrioritiesAssumption DEF LockTypeOK
<1>3. ASSUME NEW u \in Threads, lockOwner[u] \in U
      PROVE  u \in U
  <2>1. lockOwner[u] \in Threads /\ prio[o] <= prio[lockOwner[u]]
    BY <1>1, <1>3
  <2>2. prio[lockOwner[u]] <= prio[u]
    BY <2>1, ThreadsAssumption DEF PriorityInheritance, Inherits, InheritablePriorities, Waiters
  <2> QED
    BY <1>1, <1>2, <2>1, <2>2
<1>4. HoldsItsWaiters(U)
  BY <1>3 DEF HoldsItsWaiters
<1>5. U \in SUBSET Threads /\ o \in U
  BY <1>1, <1>2
<1>6. BlockedBy(o) \subseteq U
  BY <1>4, <1>5, BlockedByLeast
<1> QED
  BY <1>1, <1>6

(* What each thread inherits from its own waiters adds up: the priority of a thread *)
(* is the best base priority among all that wait for it, through however many       *)
(* owners.  A thread that runs at this priority and blocks the fewest threads has   *)
(* it from its own base priority.                                                   *)
LEMMA InheritanceAddsUp ==
    LockTypeOK /\ PriorityInheritance => TransitiveInheritance
<1> SUFFICES ASSUME LockTypeOK, PriorityInheritance, Idle, NEW o \in Threads
             PROVE  /\ \A t \in BlockedBy(o) : prio[o] <= base[t]
                    /\ \/ \E t \in BlockedBy(o) : prio[o] = base[t]
                       \/ \E t \in BlockedBy(o) : OnCycle(t)
  BY DEF TransitiveInheritance
<1>1. prio \in [Threads -> Int] /\ base \in [Threads -> Int]
  BY PrioritiesAssumption DEF LockTypeOK
<1>2. /\ BlockedBy(o) \in SUBSET Threads /\ o \in BlockedBy(o)
      /\ HoldsItsWaiters(BlockedBy(o))
  BY BlockedByLeast
<1>3. \A t \in Threads : Inherits(t, prio[t])
  BY ThreadsAssumption DEF PriorityInheritance
<1>4. ASSUME NEW t \in BlockedBy(o)
      PROVE  prio[o] <= base[t]
  <2>1. t \in Threads /\ prio[o] <= prio[t]
    BY <1>2, NoInversion
  <2>2. prio[t] <= base[t]
    BY <1>3, <2>1 DEF Inherits, InheritablePriorities
  <2> QED
    BY <1>1, <2>1, <2>2
<1>5. ASSUME \A t \in BlockedBy(o) : ~ OnCycle(t)
      PROVE  \E t \in BlockedBy(o) : prio[o] = base[t]
  <2>1. PICK C : C = {t \in BlockedBy(o) : prio[t] = prio[o]}
    OBVIOUS
  <2>2. PICK T : T = {Cardinality(BlockedBy(t)) : t \in C}
    OBVIOUS
  <2>3. \A t \in Threads : Cardinality(BlockedBy(t)) \in Nat
    BY BlockedByLeast, FS_Subset, FS_CardinalityType, ThreadsAssumption
  <2>4. T \in SUBSET Nat /\ T # {}
    BY <1>2, <2>1, <2>2, <2>3
  <2>5. PICK x \in T : \A y \in T : x <= y
    BY <2>4, LeastOfNumbers
  <2>6. PICK t \in C : x = Cardinality(BlockedBy(t))
    BY <2>2, <2>5
  <2>7. t \in BlockedBy(o) /\ t \in Threads /\ prio[t] = prio[o]
    BY <1>2, <2>1
  <2>8. ASSUME NEW w \in Threads, lockOwner[w] = t, prio[w] = prio[t]
        PROVE  FALSE
    <3>1. w \in BlockedBy(o)
      BY <1>2, <2>7, <2>8 DEF HoldsItsWaiters
    <3>2. w \in C
      BY <2>1, <2>7, <2>8, <3>1
    <3>3. x <= Cardinality(BlockedBy(w))
      BY <2>2, <2>5, <3>2
    <3>4. ~ OnCycle(w)
      BY <1>5, <3>1
    <3>5. /\ Cardinality(BlockedBy(w)) \in Nat /\ Cardinality(BlockedBy(t)) \in Nat
          /\ Cardinality(BlockedBy(w)) < Cardinality(BlockedBy(t))
      BY <2>7, <2>8, <3>4, WaiterBlocksFewer
    <3> QED
      BY <2>6, <3>3, <3>5
  <2>9. prio[t] = base[t]
    BY <1>3, <2>7, <2>8 DEF Inherits, InheritablePriorities, Waiters
  <2> QED
    BY <2>7, <2>9
<1> QED
  BY <1>4, <1>5

(* No priority inversion at a distance, for any number of threads: whenever no      *)
(* restoration runs, a thread has the best base priority among itself and all that  *)
(* wait for it through chains of owners.                                            *)
THEOREM TransitiveInheritanceCorrect == LockSpec => []TransitiveInheritance
BY LockTypeCorrect, PriorityInheritanceCorrect, InheritanceAddsUp, PTL

-----------------------------------------------------------------------------
(* The shape of the waiter trees: OwnerNotQueued and WaitOrder. *)
LEMMA OwnerNotQueuedStep ==
    LockTypeOK /\ OwnerNotQueued /\ [LockNext]_lockVars => OwnerNotQueued'
<1> SUFFICES ASSUME LockTypeOK, OwnerNotQueued, [LockNext]_lockVars
             PROVE  OwnerNotQueued'
  OBVIOUS
<1> USE ThreadsAssumption
<1>1. CASE AddStep
  BY <1>1 DEF AddStep, AddWaiter, MayWaitFor, WaitersOn, Waiters, OwnerNotQueued, LockTypeOK
<1>2. CASE RemoveStep
  BY <1>2 DEF RemoveStep, RemoveWaiter, OwnerNotQueued, LockTypeOK
<1>3. CASE HandOverStep
  <2>1. PICK o \in Threads, w \in Threads, k \in Keys :
           /\ w \in WaitersOn(o, k)
           /\ lockOwner' = [t \in Threads |-> IF t = w THEN NoThread
                                              ELSE IF t \in WaitersOn(o, k) THEN w
                                              ELSE lockOwner[t]]
           /\ UNCHANGED addressKey
    BY <1>3 DEF HandOverStep, RemoveWaiterByKey, IsHighestPriorityWaiter
  <2> QED
    BY <2>1 DEF WaitersOn, Waiters, OwnerNotQueued, LockTypeOK
<1>4. CASE BaseStep
  BY <1>4 DEF BaseStep, SetBasePriority, OwnerNotQueued
<1>5. CASE RestoreStep
  BY <1>5 DEF RestoreStep, RestoreIteration, OwnerNotQueued
<1>6. CASE UNCHANGED lockVars
  BY <1>6 DEF lockVars, OwnerNotQueued
<1> QED
  BY LockCases, <1>1, <1>2, <1>3, <1>4, <1>5, <1>6

(* Two waiters of a list without a third were two waiters of the list. *)
LEMMA WithoutPair ==
    ASSUME NEW rel, NEW t, NEW a, NEW b
    PROVE  <<a, b>> \in Without(rel, t) <=> <<a, b>> \in rel /\ a # t /\ b # t
BY DEF Without

(* Two waiters of a list into which one was inserted. *)
LEMMA InsertedAfterPair ==
    ASSUME NEW rel, NEW ws, NEW t, NEW a, NEW b
    PROVE  <<a, b>> \in InsertedAfter(rel, ws, t) <=>
              \/ <<a, b>> \in rel /\ a # t /\ b # t
              \/ a \in ws /\ a # t /\ b = t
BY WithoutPair DEF InsertedAfter

(* The waiters of a lock stay in the order of their arrival. *)
LEMMA WaitOrderStep ==
    LockTypeOK /\ OwnerNotQueued /\ WaitOrder /\ [LockNext]_lockVars => WaitOrder'
<1> SUFFICES ASSUME LockTypeOK, OwnerNotQueued, WaitOrder, [LockNext]_lockVars,
                    NEW a \in Threads, NEW b \in Threads
             PROVE  /\ SameLock(a, b)' <=> (<<a, b>> \in before' \/ <<b, a>> \in before')
                    /\ ~ (<<a, b>> \in before' /\ <<b, a>> \in before')
  BY DEF WaitOrder
<1> USE ThreadsAssumption
<1>w. /\ SameLock(a, b) <=> (<<a, b>> \in before \/ <<b, a>> \in before)
      /\ ~ (<<a, b>> \in before /\ <<b, a>> \in before)
  BY DEF WaitOrder
<1>1. CASE AddStep
  <2>1. PICK o \in Threads, t \in Threads, k \in Keys :
           /\ lockOwner[t] = NoThread
           /\ lockOwner' = [lockOwner EXCEPT ![t] = o]
           /\ addressKey' = [addressKey EXCEPT ![t] = k]
           /\ before' = InsertedAfter(before, WaitersOn(o, k), t)
    BY <1>1 DEF AddStep, AddWaiter, MayWaitFor
  <2>2. /\ <<a, b>> \in before' <=> \/ <<a, b>> \in before /\ a # t /\ b # t
                                    \/ a \in WaitersOn(o, k) /\ a # t /\ b = t
        /\ <<b, a>> \in before' <=> \/ <<b, a>> \in before /\ b # t /\ a # t
                                    \/ b \in WaitersOn(o, k) /\ b # t /\ a = t
    BY <2>1, InsertedAfterPair
  <2> QED
    BY <2>1, <2>2, <1>w DEF SameLock, WaitersOn, Waiters, LockTypeOK
<1>2. CASE RemoveStep
  <2>1. PICK t \in Threads :
           /\ lockOwner' = [lockOwner EXCEPT ![t] = NoThread]
           /\ before' = Without(before, t)
           /\ UNCHANGED addressKey
    BY <1>2 DEF RemoveStep, RemoveWaiter
  <2>2. /\ <<a, b>> \in before' <=> <<a, b>> \in before /\ a # t /\ b # t
        /\ <<b, a>> \in before' <=> <<b, a>> \in before /\ b # t /\ a # t
    BY <2>1, WithoutPair
  <2> QED
    BY <2>1, <2>2, <1>w DEF SameLock, LockTypeOK
<1>3. CASE HandOverStep
  <2>1. PICK o \in Threads, w \in Threads, k \in Keys :
           /\ w \in WaitersOn(o, k)
           /\ lockOwner' = [t \in Threads |-> IF t = w THEN NoThread
                                              ELSE IF t \in WaitersOn(o, k) THEN w
                                              ELSE lockOwner[t]]
           /\ before' = Without(before, w)
           /\ UNCHANGED addressKey
    BY <1>3 DEF HandOverStep, RemoveWaiterByKey, IsHighestPriorityWaiter
  <2>2. /\ <<a, b>> \in before' <=> <<a, b>> \in before /\ a # w /\ b # w
        /\ <<b, a>> \in before' <=> <<b, a>> \in before /\ b # w /\ a # w
    BY <2>1, WithoutPair
  <2>3. \A t \in Threads : ~ (lockOwner[t] = w /\ addressKey[t] = k)
    BY <2>1 DEF OwnerNotQueued, WaitersOn, Waiters
  <2> QED
    BY <2>1, <2>2, <2>3, <1>w DEF SameLock, WaitersOn, Waiters, LockTypeOK
<1>4. CASE BaseStep
  BY <1>4, <1>w DEF BaseStep, SetBasePriority, SameLock
<1>5. CASE RestoreStep
  <2>1. PICK t \in Threads :
           /\ \/ UNCHANGED before
              \/ /\ lockOwner[t] # NoThread
                 /\ before' = InsertedAfter(before, WaitersOn(lockOwner[t], addressKey[t]), t)
           /\ UNCHANGED <<lockOwner, addressKey>>
    BY <1>5 DEF RestoreStep, RestoreIteration, LockTypeOK
  <2>2. CASE UNCHANGED before
    BY <2>1, <2>2, <1>w DEF SameLock
  <2>3. CASE /\ lockOwner[t] # NoThread
             /\ before' = InsertedAfter(before, WaitersOn(lockOwner[t], addressKey[t]), t)
    <3> DEFINE ws == WaitersOn(lockOwner[t], addressKey[t])
    <3>1. /\ <<a, b>> \in before' <=> \/ <<a, b>> \in before /\ a # t /\ b # t
                                      \/ a \in ws /\ a # t /\ b = t
          /\ <<b, a>> \in before' <=> \/ <<b, a>> \in before /\ b # t /\ a # t
                                      \/ b \in ws /\ b # t /\ a = t
      BY <2>3, InsertedAfterPair
    <3> QED
      BY <2>1, <2>3, <3>1, <1>w DEF SameLock, WaitersOn, Waiters
  <2> QED
    BY <2>1, <2>2, <2>3
<1>6. CASE UNCHANGED lockVars
  BY <1>6, <1>w DEF lockVars, SameLock
<1> QED
  BY LockCases, <1>1, <1>2, <1>3, <1>4, <1>5, <1>6

(* Waiter trees are never merged, and each stays totally ordered by        *)
(* insertion through hand-overs and changes of priority.                   *)
THEOREM WaitOrderCorrect == LockSpec => []WaitOrder
<1>1. LockInit => LockTypeOK /\ OwnerNotQueued /\ WaitOrder
  BY LockTypeInit, ThreadsAssumption DEF LockInit, OwnerNotQueued, WaitOrder, SameLock
<1>2. LockTypeOK /\ OwnerNotQueued /\ WaitOrder /\ [LockNext]_lockVars
         => (LockTypeOK /\ OwnerNotQueued /\ WaitOrder)'
  BY LockTypeStep, OwnerNotQueuedStep, WaitOrderStep
<1> QED
  BY <1>1, <1>2, PTL DEF LockSpec

-----------------------------------------------------------------------------
(* The kernel waiter counter. *)
LEMMA FiniteWaiters ==
    ASSUME NEW o, NEW k
    PROVE  /\ IsFiniteSet(KernelWaiters(o)) /\ IsFiniteSet(WaitersOn(o, k))
           /\ Cardinality(KernelWaiters(o)) \in Nat /\ Cardinality(WaitersOn(o, k)) \in Nat
<1>1. KernelWaiters(o) \subseteq Threads /\ WaitersOn(o, k) \subseteq Threads
  BY DEF KernelWaiters, WaitersOn, Waiters
<1> QED
  BY <1>1, ThreadsAssumption, FS_Subset, FS_CardinalityType

(* The count of kernel waiters stays exact. *)
LEMMA KernelWaiterCountStep ==
    LockTypeOK /\ OwnerNotQueued /\ KernelWaiterCount /\ [LockNext]_lockVars
       => KernelWaiterCount'
<1> SUFFICES ASSUME LockTypeOK, OwnerNotQueued, KernelWaiterCount, [LockNext]_lockVars,
                    NEW u \in Threads
             PROVE  numKernelWaiters'[u] = Cardinality(KernelWaiters(u)')
  BY DEF KernelWaiterCount
<1> USE ThreadsAssumption
<1>n. numKernelWaiters[u] = Cardinality(KernelWaiters(u)) /\ numKernelWaiters[u] \in Int
  BY DEF KernelWaiterCount, LockTypeOK
<1>f. IsFiniteSet(KernelWaiters(u)) /\ Cardinality(KernelWaiters(u)) \in Nat
  BY FiniteWaiters
<1>1. CASE AddStep
  <2>1. PICK o \in Threads, t \in Threads, k \in Keys :
           /\ lockOwner[t] = NoThread
           /\ lockOwner' = [lockOwner EXCEPT ![t] = o]
           /\ addressKey' = [addressKey EXCEPT ![t] = k]
           /\ numKernelWaiters' = [numKernelWaiters EXCEPT ![o] = @ + KernelCount(k)]
    BY <1>1 DEF AddStep, AddWaiter, MayWaitFor
  <2>2. t \notin KernelWaiters(u)
    BY <2>1 DEF KernelWaiters, Waiters
  <2>3. CASE u = o /\ k \in KernelKeys
    <3>1. KernelWaiters(u)' = KernelWaiters(u) \cup {t}
      BY <2>1, <2>3 DEF KernelWaiters, Waiters, LockTypeOK
    <3>2. numKernelWaiters'[u] = numKernelWaiters[u] + 1
      BY <2>1, <2>3 DEF KernelCount, LockTypeOK
    <3> QED
      BY <3>1, <3>2, <2>2, <1>n, <1>f, FS_AddElement
  <2>4. CASE ~ (u = o /\ k \in KernelKeys)
    <3>1. KernelWaiters(u)' = KernelWaiters(u)
      BY <2>1, <2>4 DEF KernelWaiters, Waiters, LockTypeOK
    <3>2. numKernelWaiters'[u] = numKernelWaiters[u]
      BY <2>1, <2>4, <1>n DEF KernelCount, LockTypeOK
    <3> QED
      BY <3>1, <3>2, <1>n
  <2> QED
    BY <2>3, <2>4
<1>2. CASE RemoveStep
  <2>1. PICK o \in Threads, t \in Threads :
           /\ lockOwner[t] = o
           /\ lockOwner' = [lockOwner EXCEPT ![t] = NoThread]
           /\ numKernelWaiters' =
                 [numKernelWaiters EXCEPT ![o] = @ - KernelCount(addressKey[t])]
           /\ UNCHANGED addressKey
    BY <1>2 DEF RemoveStep, RemoveWaiter
  <2>2. KernelWaiters(u)' = KernelWaiters(u) \ {t}
    BY <2>1 DEF KernelWaiters, Waiters, LockTypeOK
  <2>3. t \in KernelWaiters(u) <=> u = o /\ addressKey[t] \in KernelKeys
    BY <2>1 DEF KernelWaiters, Waiters
  <2>4. numKernelWaiters'[u] =
           IF t \in KernelWaiters(u) THEN numKernelWaiters[u] - 1 ELSE numKernelWaiters[u]
    BY <2>1, <2>3, <1>n DEF KernelCount, LockTypeOK
  <2>5. Cardinality(KernelWaiters(u) \ {t}) =
           IF t \in KernelWaiters(u) THEN Cardinality(KernelWaiters(u)) - 1
                                     ELSE Cardinality(KernelWaiters(u))
    BY <1>f, FS_RemoveElement
  <2> QED
    BY <2>2, <2>4, <2>5, <1>n
<1>3. CASE HandOverStep
  <2>1. PICK o \in Threads, w \in Threads, k \in Keys :
           /\ w \in WaitersOn(o, k)
           /\ lockOwner' = [t \in Threads |-> IF t = w THEN NoThread
                                              ELSE IF t \in WaitersOn(o, k) THEN w
                                              ELSE lockOwner[t]]
           /\ numKernelWaiters' =
                 [numKernelWaiters EXCEPT
                    ![o] = @ - KernelWaitersOn(o, k),
                    ![w] = @ + KernelWaitersOn(o, k) - KernelCount(k)]
           /\ UNCHANGED addressKey
    BY ZenonT(60), <1>3 DEF HandOverStep, RemoveWaiterByKey, IsHighestPriorityWaiter
  <2> DEFINE ws == WaitersOn(o, k)
  <2>2. o # w /\ lockOwner[w] = o /\ addressKey[w] = k
    BY <2>1 DEF OwnerNotQueued, WaitersOn, Waiters
  <2>f. IsFiniteSet(ws) /\ Cardinality(ws) \in Nat
    BY FiniteWaiters
  <2>3. CASE k \notin KernelKeys \/ u \notin {o, w}
    <3>1. KernelWaiters(u)' = KernelWaiters(u)
      BY <2>1, <2>2, <2>3 DEF KernelWaiters, WaitersOn, Waiters, LockTypeOK
    <3>2. numKernelWaiters'[u] = numKernelWaiters[u]
      BY <2>1, <2>2, <2>3, <2>f, <1>n DEF KernelWaitersOn, KernelCount, LockTypeOK
    <3> QED
      BY <3>1, <3>2, <1>n
  <2>4. CASE k \in KernelKeys /\ u = o
    <3>1. KernelWaiters(u)' = KernelWaiters(u) \ ws /\ KernelWaiters(u) \cap ws = ws
      BY <2>1, <2>2, <2>4 DEF KernelWaiters, WaitersOn, Waiters, LockTypeOK
    <3>2. numKernelWaiters'[u] = numKernelWaiters[u] - Cardinality(ws)
      BY <2>1, <2>2, <2>4, <2>f, <1>n DEF KernelWaitersOn, KernelCount, LockTypeOK
    <3>3. Cardinality(KernelWaiters(u) \ ws) =
             Cardinality(KernelWaiters(u)) - Cardinality(KernelWaiters(u) \cap ws)
      BY <1>f, FS_Difference
    <3> QED
      BY <3>1, <3>2, <3>3, <1>n
  <2>5. CASE k \in KernelKeys /\ u = w
    <3> DEFINE rest == ws \ {w}
    <3>1. KernelWaiters(u)' = KernelWaiters(u) \cup rest /\ KernelWaiters(u) \cap rest = {}
      BY <2>1, <2>2, <2>5 DEF KernelWaiters, WaitersOn, Waiters, LockTypeOK
    <3>2. IsFiniteSet(rest) /\ Cardinality(rest) = Cardinality(ws) - 1
      BY <2>1, <2>f, FS_RemoveElement
    <3>3. numKernelWaiters'[u] = numKernelWaiters[u] + Cardinality(ws) - 1
      BY <2>1, <2>2, <2>5, <2>f, <1>n DEF KernelWaitersOn, KernelCount, LockTypeOK
    <3>4. Cardinality(KernelWaiters(u) \cup rest) =
             Cardinality(KernelWaiters(u)) + Cardinality(rest)
                - Cardinality(KernelWaiters(u) \cap rest)
      BY <1>f, <3>2, FS_Union
    <3>5. Cardinality(KernelWaiters(u) \cap rest) = 0
      BY <3>1, FS_EmptySet
    <3>6. Cardinality(KernelWaiters(u) \cup rest) =
             Cardinality(KernelWaiters(u)) + Cardinality(ws) - 1
      BY <3>2, <3>4, <3>5, <2>f, <1>f
    <3> QED
      BY <3>1, <3>3, <3>6, <1>n
  <2> QED
    BY <2>3, <2>4, <2>5
<1>4. CASE BaseStep
  BY <1>4, <1>n DEF BaseStep, SetBasePriority, KernelWaiters, Waiters
<1>5. CASE RestoreStep
  BY <1>5, <1>n DEF RestoreStep, RestoreIteration, KernelWaiters, Waiters
<1>6. CASE UNCHANGED lockVars
  BY <1>6, <1>n DEF lockVars, KernelWaiters, Waiters
<1> QED
  BY LockCases, <1>1, <1>2, <1>3, <1>4, <1>5, <1>6

(* m_num_kernel_waiters counts exactly the threads blocked on this         *)
(* thread's kernel locks, for any number of threads.                       *)
THEOREM KernelWaiterCountCorrect == LockSpec => []KernelWaiterCount
<1>1. LockInit => LockTypeOK /\ OwnerNotQueued /\ KernelWaiterCount
  <2>1. ASSUME LockInit, NEW o \in Threads PROVE KernelWaiters(o) = {}
    BY <2>1, ThreadsAssumption DEF LockInit, KernelWaiters, Waiters
  <2> QED
    BY <2>1, LockTypeInit, ThreadsAssumption, FS_EmptySet
       DEF LockInit, OwnerNotQueued, KernelWaiterCount
<1>2. LockTypeOK /\ OwnerNotQueued /\ KernelWaiterCount /\ [LockNext]_lockVars
         => (LockTypeOK /\ OwnerNotQueued /\ KernelWaiterCount)'
  BY LockTypeStep, OwnerNotQueuedStep, KernelWaiterCountStep
<1> QED
  BY <1>1, <1>2, PTL DEF LockSpec

-----------------------------------------------------------------------------
(* RestorePriority ends.  Its loop has no bound of its own, and the owners *)
(* of locks may form a cycle; but all iterations of one call move          *)
(* priorities in the same direction.  RestoreVariant counts how far the    *)
(* priorities of all threads can still move in that direction, and is zero *)
(* at the iteration that finds nothing to mend.                            *)
Raises == \E p \in InheritablePriorities(restoring) : p < prio[restoring]
Better == {x \in Threads \X Priorities : x[2] < prio[x[1]]}
Worse == {x \in Threads \X Priorities : prio[x[1]] < x[2]}
RestoreVariant == IF Inherits(restoring, prio[restoring]) THEN 0
                  ELSE IF Raises THEN 1 + Cardinality(Better)
                  ELSE 1 + Cardinality(Worse)

(* Each iteration of RestorePriority but the last leaves less to do: while *)
(* the loop goes on, a natural number decreases.                           *)
RestoreProgress ==
    restoring # NoThread /\ restoring' # NoThread =>
       RestoreVariant \in Nat /\ RestoreVariant' \in Nat /\ RestoreVariant' < RestoreVariant

(* When one priority moves and the others stay, there is less room left in  *)
(* that direction.                                                          *)
LEMMA LessRoom ==
    ASSUME IsFiniteSet(Priorities), LockTypeOK, NEW t \in Threads, NEW p \in Priorities,
           prio' = [prio EXCEPT ![t] = p]
    PROVE  /\ Cardinality(Better) \in Nat /\ Cardinality(Worse) \in Nat
           /\ Cardinality(Better') \in Nat /\ Cardinality(Worse') \in Nat
           /\ p < prio[t] => Cardinality(Better') < Cardinality(Better)
           /\ prio[t] < p => Cardinality(Worse') < Cardinality(Worse)
<1>1. IsFiniteSet(Threads \X Priorities)
  BY ThreadsAssumption, FS_Product
<1>2. /\ IsFiniteSet(Better) /\ IsFiniteSet(Worse) /\ IsFiniteSet(Better') /\ IsFiniteSet(Worse')
  BY <1>1, FS_Subset DEF Better, Worse
<1>3. prio \in [Threads -> Int] /\ prio' \in [Threads -> Int] /\ p \in Int
      /\ Priorities \subseteq Int /\ prio'[t] = p
      /\ \A u \in Threads \ {t} : prio'[u] = prio[u]
  BY PrioritiesAssumption DEF LockTypeOK
<1>4. ASSUME p < prio[t]
      PROVE  Better' \subseteq Better /\ <<t, p>> \in Better /\ <<t, p>> \notin Better'
  <2>1. ASSUME NEW x \in Better' PROVE x \in Better
    <3>1. x \in Threads \X Priorities /\ x[1] \in Threads /\ x[2] \in Int /\ x[2] < prio'[x[1]]
      BY <1>3, <2>1 DEF Better
    <3>2. prio'[x[1]] <= prio[x[1]]
      BY <1>3, <1>4, <3>1
    <3>3. x[2] < prio[x[1]]
      BY <1>3, <3>1, <3>2
    <3> QED
      BY <3>1, <3>3 DEF Better
  <2> QED
    BY <1>3, <1>4, <2>1 DEF Better
<1>5. ASSUME prio[t] < p
      PROVE  Worse' \subseteq Worse /\ <<t, p>> \in Worse /\ <<t, p>> \notin Worse'
  <2>1. ASSUME NEW x \in Worse' PROVE x \in Worse
    <3>1. x \in Threads \X Priorities /\ x[1] \in Threads /\ x[2] \in Int /\ prio'[x[1]] < x[2]
      BY <1>3, <2>1 DEF Worse
    <3>2. prio[x[1]] <= prio'[x[1]]
      BY <1>3, <1>5, <3>1
    <3>3. prio[x[1]] < x[2]
      BY <1>3, <3>1, <3>2
    <3> QED
      BY <3>1, <3>3 DEF Worse
  <2> QED
    BY <1>3, <1>5, <2>1 DEF Worse
<1>6. \A S, T : IsFiniteSet(S) /\ T \subseteq S /\ T # S => Cardinality(T) < Cardinality(S)
  BY FS_Subset, FS_CardinalityType
<1>7. p < prio[t] => Cardinality(Better') < Cardinality(Better)
  BY <1>2, <1>4, <1>6
<1>8. prio[t] < p => Cardinality(Worse') < Cardinality(Worse)
  BY <1>2, <1>5, <1>6
<1> QED
  BY <1>2, <1>7, <1>8, FS_CardinalityType

(* What an iteration leaves for the next one, at the owner o of the lock   *)
(* that t waits for: nothing, or a move in the direction t has moved in.   *)
LEMMA SameDirection ==
    ASSUME LockTypeOK, OwnerNotQueued, PriorityInheritance,
           NEW t \in Threads, NEW p \in Priorities, t = restoring, p # prio[t],
           Inherits(t, p), prio' = [prio EXCEPT ![t] = p],
           UNCHANGED <<base, lockOwner>>, restoring' = lockOwner[t], restoring' # NoThread
    PROVE  \/ Inherits(restoring, prio[restoring])'
           \/ p < prio[t] /\ Raises'
           \/ prio[t] < p /\ ~ Raises'
<1>1. PICK o \in Threads : o = lockOwner[t]
  BY DEF LockTypeOK
<1>2. o # t
  BY <1>1, ThreadsAssumption DEF OwnerNotQueued
<1>3. Inherits(o, prio[o]) /\ prio'[o] = prio[o] /\ prio'[t] = p /\ t \in Waiters(o)
      /\ base'[o] = base[o] /\ Waiters(o)' = Waiters(o) /\ Waiters(o) \subseteq Threads
      /\ \A u \in Threads \ {t} : prio'[u] = prio[u]
  BY <1>1, <1>2 DEF PriorityInheritance, LockTypeOK, Waiters
<1>4. prio \in [Threads -> Int] /\ p \in Int /\ base \in [Threads -> Int]
  BY PrioritiesAssumption DEF LockTypeOK
<1>5. /\ prio[o] = base[o] \/ \E w \in Waiters(o) : prio[o] = prio[w]
      /\ prio[o] <= base[o] /\ \A w \in Waiters(o) : prio[o] <= prio[w]
  BY <1>3 DEF Inherits, InheritablePriorities
<1>6. InheritablePriorities(o)' = {base[o]} \cup {prio'[w] : w \in Waiters(o)}
  BY <1>3 DEF InheritablePriorities
<1>7. CASE p < prio[t] /\ p < prio[o]
  <2>1. p \in InheritablePriorities(o)'
    BY <1>3, <1>6
  <2>2. Raises'
    BY <1>1, <1>3, <1>7, <2>1 DEF Raises
  <2> QED
    BY <1>7, <2>2
<1>8. CASE p < prio[t] /\ ~ (p < prio[o])
  <2>1. \A w \in Waiters(o) : prio[o] <= prio'[w]
    BY <1>3, <1>4, <1>5, <1>8
  <2>2. prio[o] = base[o] \/ \E w \in Waiters(o) : prio[o] = prio'[w]
    BY <1>3, <1>4, <1>5, <1>8
  <2>3. Inherits(o, prio[o])'
    BY <1>3, <1>5, <1>6, <2>1, <2>2 DEF Inherits
  <2> QED
    BY <1>1, <2>3
<1>9. CASE prio[t] < p
  <2>1. \A w \in Waiters(o) : prio[o] <= prio'[w]
    BY <1>3, <1>4, <1>5, <1>9
  <2>2. ASSUME NEW q \in InheritablePriorities(o)' PROVE prio[o] <= q
    BY <1>5, <1>6, <2>1
  <2>3. ~ Raises'
    <3>1. \A q \in InheritablePriorities(o)' : q \in Int
      <4>1. \A w \in Waiters(o) : prio'[w] \in Int
        BY <1>3, <1>4
      <4> QED
        BY <1>4, <1>6, <4>1
    <3>2. \A q \in InheritablePriorities(o)' : ~ (q < prio'[o])
      BY <1>3, <1>4, <2>2, <3>1
    <3> QED
      BY <1>1, <3>2 DEF Raises
  <2> QED
    BY <1>9, <2>3
<1> QED
  BY <1>4, <1>7, <1>8, <1>9

(* RestorePriority makes progress, whether or not the owners form a cycle:  *)
(* one call has at most one iteration more than there are pairs of a thread *)
(* and a priority.                                                          *)
THEOREM RestoreMakesProgress ==
    IsFiniteSet(Priorities) => (LockSpec => [][RestoreProgress]_lockVars)
<1> SUFFICES ASSUME IsFiniteSet(Priorities)
             PROVE  LockSpec => [][RestoreProgress]_lockVars
  OBVIOUS
<1>1. ASSUME LockTypeOK, PriorityInheritance, OwnerNotQueued, [LockNext]_lockVars
      PROVE  [RestoreProgress]_lockVars
  <2> SUFFICES ASSUME restoring # NoThread, restoring' # NoThread, ~ UNCHANGED lockVars
               PROVE  /\ RestoreVariant \in Nat /\ RestoreVariant' \in Nat
                      /\ RestoreVariant' < RestoreVariant
    BY DEF RestoreProgress
  <2>1. RestoreIteration(restoring)
    BY <1>1, LockCases DEF AddStep, RemoveStep, HandOverStep, BaseStep, RestoreStep
  <2>2. PICK t \in Threads : t = restoring
    BY <1>1 DEF LockTypeOK
  <2>3. PICK p \in Priorities :
           /\ Inherits(t, p) /\ p # prio[t] /\ prio' = [prio EXCEPT ![t] = p]
           /\ restoring' = lockOwner[t] /\ UNCHANGED <<base, lockOwner>>
    BY <2>1, <2>2 DEF RestoreIteration
  <2>4. \/ Inherits(restoring, prio[restoring])'
        \/ p < prio[t] /\ Raises'
        \/ prio[t] < p /\ ~ Raises'
    BY <1>1, <2>2, <2>3, SameDirection
  <2>5. /\ Cardinality(Better) \in Nat /\ Cardinality(Worse) \in Nat
        /\ Cardinality(Better') \in Nat /\ Cardinality(Worse') \in Nat
        /\ p < prio[t] => Cardinality(Better') < Cardinality(Better)
        /\ prio[t] < p => Cardinality(Worse') < Cardinality(Worse)
    BY <1>1, <2>3, LessRoom
  <2>6. p \in Int /\ prio[t] \in Int /\ p \in InheritablePriorities(t)
        /\ \A q \in InheritablePriorities(t) : p <= q
    BY <1>1, <2>3, PrioritiesAssumption DEF LockTypeOK, Inherits
  <2>7. ~ Inherits(t, prio[t])
    BY <2>3, <2>6 DEF Inherits
  <2>8. Raises <=> p < prio[t]
    <3>1. \A q \in InheritablePriorities(t) : q \in Int
      BY <1>1, PrioritiesAssumption DEF InheritablePriorities, LockTypeOK, Waiters
    <3> QED
      BY <2>2, <2>6, <3>1 DEF Raises
  <2>9. RestoreVariant = IF p < prio[t] THEN 1 + Cardinality(Better) ELSE 1 + Cardinality(Worse)
    BY <2>2, <2>7, <2>8 DEF RestoreVariant
  <2>10. \/ RestoreVariant' = 0
         \/ p < prio[t] /\ RestoreVariant' = 1 + Cardinality(Better')
         \/ prio[t] < p /\ RestoreVariant' = 1 + Cardinality(Worse')
    BY <2>4 DEF RestoreVariant
  <2> QED
    BY <2>5, <2>6, <2>9, <2>10
<1>2. LockInit => OwnerNotQueued
  BY ThreadsAssumption DEF LockInit, OwnerNotQueued
<1>3. LockTypeOK /\ OwnerNotQueued /\ [LockNext]_lockVars => OwnerNotQueued'
  BY OwnerNotQueuedStep
<1> QED
  BY <1>1, <1>2, <1>3, LockTypeCorrect, PriorityInheritanceCorrect, PTL DEF LockSpec

=============================================================================

----------------------- MODULE KSynchronizationObject -----------------------
(***************************************************************************)
(* Waiting for several objects at once                                     *)
(* (core/hle/kernel/k_synchronization_object.cpp) and the events that end  *)
(* such waits (k_event.cpp, k_readable_event.cpp), with the three others   *)
(* that may end them: the timer, CancelSynchronization and termination.    *)
(*                                                                         *)
(* Every object has a singly linked list of nodes, and a thread in Wait    *)
(* has one node on its stack for each object it waits for.  The loop of    *)
(* NotifyAvailable follows the next pointers of nodes that its own body    *)
(* takes out of the list; its iterations are steps, and no other step      *)
(* under the scheduler lock comes between them.                            *)
(***************************************************************************)
EXTENDS Integers, FiniteSets, Sequences, SequencesExt

CONSTANTS Threads,
          Objects,
          Null,       \* nullptr
          WaitLists,  \* the sequences of objects that threads wait for
          ArgumentHandleCountMax, \* the most objects in one wait
          Timeouts,   \* of Wait: "zero", "finite", "infinite"
          Terminable  \* threads RequestTerminate may be called on

ASSUME WaitListsAssumption == /\ ArgumentHandleCountMax \in Nat
                              /\ \A os \in WaitLists : /\ os \in Seq(Objects)
                                                      /\ Len(os) <= ArgumentHandleCountMax
ASSUME WaitersAssumption == /\ IsFiniteSet(Threads) /\ Terminable \subseteq Threads
                            /\ Timeouts \subseteq {"zero", "finite", "infinite"}

VARIABLES signaled,      \* m_is_signaled of each readable event
          lists,         \* m_thread_list_head and _tail, and next of each node
          pc,            \* where each thread is: "run", "wait" or "exited"
          objects,       \* m_objects: the argument of Wait
          result,        \* m_wait_result
          syncedIndex,   \* m_synced_index
          waiting,       \* threads in ThreadState::Waiting
          cancellable,   \* threads with m_cancellable
          waitCancelled, \* threads with m_wait_cancelled
          timer,         \* threads with a task in the hardware timer
          termReq,       \* threads with m_termination_requested
          notifying      \* cur_node in NotifyAvailable, and the object

callVars == <<pc, objects, result>>
threadVars == <<syncedIndex, waiting, cancellable, waitCancelled, timer, termReq>>
vars == <<signaled, lists, callVars, threadVars, notifying>>

NotNotifying == [object |-> Null, node |-> Null]
SchedulerUnlocked == notifying = NotNotifying

Nodes == Threads \X (0 .. ArgumentHandleCountMax - 1)
ASSUME NullAssumption == Null \notin Nodes
Indices(os) == 0 .. Len(os) - 1

-----------------------------------------------------------------------------
(* The nodes in the list of o, from the head along the next pointers. *)
Linked(L, o) ==
    LET most == Cardinality(Nodes) + 1
        at[k \in 1 .. most] == IF k = 1 THEN L.head[o]
                               ELSE IF at[k - 1] = Null THEN Null ELSE L.next[at[k - 1]]
    IN  [k \in {j \in 1 .. most : at[j] # Null} |-> at[k]]

(* LinkNode, after thread_nodes[i].next = nullptr. *)
LinkNode(L, o, n) ==
    LET last == L.tail[o]
    IN  [head |-> IF last = Null THEN [L.head EXCEPT ![o] = n] ELSE L.head,
         tail |-> [L.tail EXCEPT ![o] = n],
         next |-> [m \in Nodes |-> IF m = n THEN Null ELSE IF m = last THEN n ELSE L.next[m]]]

(* Two bugs: the tail still points to the node; the node is cleaned up. *)
UnlinkNodeKeepsTail(L, o, n) ==
    LET ns == Linked(L, o)
        k == CHOOSE j \in DOMAIN ns : ns[j] = n
        prev == IF k = 1 THEN Null ELSE ns[k - 1]
    IN  [L EXCEPT !.head[o] = IF prev = Null THEN L.next[n] ELSE @,
                  !.next = [m \in Nodes |-> IF m = prev THEN L.next[n] ELSE L.next[m]]]
UnlinkNodeClears(L, o, n) ==
    LET ns == Linked(L, o)
        k == CHOOSE j \in DOMAIN ns : ns[j] = n
        prev == IF k = 1 THEN Null ELSE ns[k - 1]
    IN  [head |-> IF prev = Null THEN [L.head EXCEPT ![o] = L.next[n]] ELSE L.head,
         tail |-> IF L.tail[o] = n THEN [L.tail EXCEPT ![o] = prev] ELSE L.tail,
         next |-> [m \in Nodes |-> IF m = n THEN Null
                                   ELSE IF m = prev THEN L.next[n] ELSE L.next[m]]]

(* UnlinkNode: the node before n, or the head, skips n; n.next stays. *)
UnlinkNode(L, o, n) ==
    LET ns == Linked(L, o)
        k == CHOOSE j \in DOMAIN ns : ns[j] = n
        prev == IF k = 1 THEN Null ELSE ns[k - 1]
    IN  [head |-> IF prev = Null THEN [L.head EXCEPT ![o] = L.next[n]] ELSE L.head,
         tail |-> IF L.tail[o] = n THEN [L.tail EXCEPT ![o] = prev] ELSE L.tail,
         next |-> [m \in Nodes |-> IF m = prev THEN L.next[n] ELSE L.next[m]]]

(* The loops of Wait, NotifyAvailable and CancelWait over the objects. *)
LinkAll(L, t, os) ==
    LET loop[i \in 0 .. Len(os)] ==
           IF i = 0 THEN L ELSE LinkNode(loop[i - 1], os[i], <<t, i - 1>>)
    IN  loop[Len(os)]
UnlinkAll(L, t, os) ==
    LET loop[i \in 0 .. Len(os)] ==
           IF i = 0 THEN L ELSE UnlinkNode(loop[i - 1], os[i], <<t, i - 1>>)
    IN  loop[Len(os)]

-----------------------------------------------------------------------------
(* Back from a call: a thread that is to terminate runs no guest code. *)
Return(t) == pc' = [pc EXCEPT ![t] = IF t \in termReq THEN "exited" ELSE "run"]

(* The entries of a wait list whose object is signaled. *)
Ready(os) == {i \in Indices(os) : signaled[os[i + 1]]}

(* A bug: a cancellation that came before the wait is not looked at. *)
MustReturnWhateverCancelled(t, os, timeout) ==
    t \in termReq \/ Ready(os) # {} \/ timeout = "zero"

MustReturn(t, os, timeout) ==
    t \in termReq \/ Ready(os) # {} \/ timeout = "zero" \/ t \in waitCancelled

(* The first part of Wait.  It returns at once when the thread is to       *)
(* terminate, when an object is signaled (with the index of the first such *)
(* object), when it must not block, and last when a cancellation is left   *)
(* over, which only then is used up.                                       *)
WaitReturnsAtOnce(t, os, timeout) ==
    /\ MustReturn(t, os, timeout)
    /\ waitCancelled' = IF t \in termReq \/ Ready(os) # {} \/ timeout = "zero"
                        THEN waitCancelled ELSE waitCancelled \ {t}
    /\ Return(t)
    /\ UNCHANGED <<lists, objects, result, syncedIndex, waiting, cancellable, timer>>

WaitBlocks(t, os, timeout) ==
    /\ ~ MustReturn(t, os, timeout)
    /\ lists' = LinkAll(lists, t, os)
    /\ objects' = [objects EXCEPT ![t] = os]
    /\ cancellable' = cancellable \cup {t}
    /\ syncedIndex' = [syncedIndex EXCEPT ![t] = -1]
    /\ waiting' = waiting \cup {t}
    /\ timer' = IF timeout = "finite" THEN timer \cup {t} ELSE timer
    /\ pc' = [pc EXCEPT ![t] = "wait"]
    /\ UNCHANGED <<result, waitCancelled>>

(* KSynchronizationObject::Wait. *)
Wait(t, os, timeout) ==
    /\ pc[t] = "run"
    /\ SchedulerUnlocked
    /\ WaitReturnsAtOnce(t, os, timeout) \/ WaitBlocks(t, os, timeout)
    /\ UNCHANGED <<signaled, termReq, notifying>>

(* The end of Wait, once the thread runs again: it returns m_wait_result   *)
(* and m_synced_index, which nobody reads again.  Its nodes go with it.    *)
WaitReturns(t) ==
    /\ pc[t] = "wait" /\ t \notin waiting
    /\ SchedulerUnlocked
    /\ lists' = [lists EXCEPT !.next = [n \in Nodes |-> IF n[1] = t THEN Null ELSE @[n]]]
    /\ objects' = [objects EXCEPT ![t] = <<>>]
    /\ result' = [result EXCEPT ![t] = "NoSynchronizationObject"]
    /\ syncedIndex' = [syncedIndex EXCEPT ![t] = -1]
    /\ Return(t)
    /\ UNCHANGED <<signaled, waiting, cancellable, waitCancelled, timer, termReq, notifying>>

-----------------------------------------------------------------------------
(* The base class's EndWait, or its CancelWait with cancel_timer_task. *)
EndWait(t, r) ==
    /\ waiting' = waiting \ {t}
    /\ result' = [result EXCEPT ![t] = r]
    /\ cancellable' = cancellable \ {t}
    /\ timer' = timer \ {t}

(* A bug: the last entry of the wait list counts. *)
SyncIndexLast(t, o) == Len(objects[t]) - 1
(* The first entry of the wait list for the signaled object. *)
SyncIndex(t, o) ==
    CHOOSE i \in Indices(objects[t]) : /\ objects[t][i + 1] = o
                                       /\ \A j \in Indices(objects[t]) :
                                             objects[t][j + 1] = o => i <= j

(* cur_node = cur_node->next, after the body of the loop has unlinked it. *)
NextNode(L, n) == L.next[n]

(* One iteration of the loop of NotifyAvailable(). *)
NotifyAvailable ==
    LET o == notifying.object  n == notifying.node  t == n[1]
    IN  /\ ~ SchedulerUnlocked
        /\ \/ /\ t \in waiting
              /\ lists' = UnlinkAll(lists, t, objects[t])
              /\ syncedIndex' = [syncedIndex EXCEPT ![t] = SyncIndex(t, o)]
              /\ EndWait(t, "Success")
           \/ /\ t \notin waiting
              /\ UNCHANGED <<lists, syncedIndex, waiting, result, cancellable, timer>>
        /\ notifying' = LET next == NextNode(lists', n)
                        IN  IF next = Null THEN NotNotifying ELSE [notifying EXCEPT !.node = next]
        /\ UNCHANGED <<signaled, pc, objects, waitCancelled, termReq>>

(* KEvent::Signal: nothing happens if the event is signaled already. *)
Signal(o) ==
    /\ SchedulerUnlocked
    /\ ~ signaled[o]
    /\ signaled' = [signaled EXCEPT ![o] = TRUE]
    /\ notifying' = IF lists.head[o] = Null THEN NotNotifying
                    ELSE [object |-> o, node |-> lists.head[o]]
    /\ UNCHANGED <<lists, callVars, threadVars>>

(* KEvent::Clear and ResetSignal. *)
Reset(o) ==
    /\ SchedulerUnlocked
    /\ signaled[o]
    /\ signaled' = [signaled EXCEPT ![o] = FALSE]
    /\ UNCHANGED <<lists, callVars, threadVars, notifying>>

-----------------------------------------------------------------------------
(* ThreadQueueImplForKSynchronizationObjectWait::CancelWait. *)
CancelWait(t, r) ==
    /\ lists' = UnlinkAll(lists, t, objects[t])
    /\ EndWait(t, r)
    /\ UNCHANGED <<signaled, pc, objects, syncedIndex, notifying>>

(* The timer has taken the task out of its tree and calls OnTimer. *)
OnTimer(t) ==
    /\ SchedulerUnlocked
    /\ t \in timer
    /\ IF t \in waiting
       THEN CancelWait(t, "TimedOut")
       ELSE /\ timer' = timer \ {t}
            /\ UNCHANGED <<signaled, lists, callVars, syncedIndex, waiting, cancellable, notifying>>
    /\ UNCHANGED <<waitCancelled, termReq>>

(* CancelSynchronization: KThread::WaitCancel. *)
WaitCancel(t) ==
    /\ SchedulerUnlocked
    /\ pc[t] # "exited"
    /\ \/ /\ t \in waiting /\ t \in cancellable
          /\ waitCancelled' = waitCancelled \ {t}
          /\ CancelWait(t, "Cancelled")
       \/ /\ ~ (t \in waiting /\ t \in cancellable)
          /\ waitCancelled' = waitCancelled \cup {t}
          /\ UNCHANGED <<signaled, lists, callVars, syncedIndex, waiting, cancellable, timer,
                         notifying>>
    /\ UNCHANGED termReq

(* KThread::RequestTerminate, first request. *)
RequestTerminate(t) ==
    /\ SchedulerUnlocked
    /\ pc[t] # "exited" /\ t \notin termReq
    /\ termReq' = termReq \cup {t}
    /\ \/ /\ t \in waiting
          /\ CancelWait(t, "TerminationRequested")
       \/ /\ t \notin waiting
          /\ UNCHANGED <<signaled, lists, callVars, syncedIndex, waiting, cancellable, timer,
                         notifying>>
    /\ UNCHANGED waitCancelled

-----------------------------------------------------------------------------
Init ==
    /\ signaled = [o \in Objects |-> FALSE]
    /\ lists = [head |-> [o \in Objects |-> Null],
                tail |-> [o \in Objects |-> Null],
                next |-> [n \in Nodes |-> Null]]
    /\ pc = [t \in Threads |-> "run"]
    /\ objects = [t \in Threads |-> <<>>]
    /\ result = [t \in Threads |-> "NoSynchronizationObject"]
    /\ syncedIndex = [t \in Threads |-> -1]
    /\ waiting = {}
    /\ cancellable = {}
    /\ waitCancelled = {}
    /\ timer = {}
    /\ termReq = {}
    /\ notifying = NotNotifying

Next ==
    \/ \E t \in Threads :
          \/ \E os \in WaitLists, timeout \in Timeouts : Wait(t, os, timeout)
          \/ WaitReturns(t)
          \/ OnTimer(t)
          \/ WaitCancel(t)
          \/ t \in Terminable /\ RequestTerminate(t)
    \/ \E o \in Objects : Signal(o) \/ Reset(o)
    \/ NotifyAvailable

Spec == Init /\ [][Next]_vars

-----------------------------------------------------------------------------
Results == {"NoSynchronizationObject", "Success", "TimedOut", "Cancelled",
            "TerminationRequested"}

TypeOK ==
    /\ signaled \in [Objects -> BOOLEAN]
    /\ lists \in [head : [Objects -> Nodes \cup {Null}],
                  tail : [Objects -> Nodes \cup {Null}],
                  next : [Nodes -> Nodes \cup {Null}]]
    /\ pc \in [Threads -> {"run", "wait", "exited"}]
    /\ objects \in [Threads -> WaitLists \cup {<<>>}]
    /\ result \in [Threads -> Results]
    /\ syncedIndex \in [Threads -> -1 .. ArgumentHandleCountMax - 1]
    /\ waiting \in SUBSET Threads
    /\ cancellable \in SUBSET Threads
    /\ waitCancelled \in SUBSET Threads
    /\ timer \in SUBSET Threads
    /\ termReq \in SUBSET Threads
    /\ notifying \in [object : Objects \cup {Null}, node : Nodes \cup {Null}]

(* The list of an object holds each node of the threads that wait for it   *)
(* exactly once, and no node of a thread that has been woken, whose stack  *)
(* is about to go; its tail is where the next node will be linked.  So     *)
(* UnlinkNode always finds its node, whoever ends the wait.                *)
WaitNodes(o) == {n \in Nodes : /\ n[1] \in waiting
                               /\ n[2] \in Indices(objects[n[1]])
                               /\ objects[n[1]][n[2] + 1] = o}
ListIntegrity ==
    \A o \in Objects :
       LET ns == Linked(lists, o)
       IN  /\ IsInjective(ns)
           /\ ToSet(ns) = WaitNodes(o)
           /\ lists.tail[o] = IF ns = <<>> THEN Null ELSE Last(ns)

(* No wake-up is lost: once NotifyAvailable is done nobody waits for an    *)
(* object that is signaled, although the loop walks along nodes that it    *)
(* has taken out of the list, twice for an object that is listed twice.    *)
NoWaiterOnSignaled ==
    SchedulerUnlocked =>
       \A t \in waiting : Ready(objects[t]) = {}

(* The index a woken thread reports is that of an object that was signaled *)
(* when it was woken, and every other way to end a wait reports none.      *)
WokenBySignaled ==
    [][\A t \in waiting \ waiting' :
          IF result'[t] = "Success"
          THEN syncedIndex'[t] \in Ready(objects[t])
          ELSE syncedIndex'[t] = -1]_vars

(* CancelSynchronization is not lost: no thread sits in a cancellable wait *)
(* while a cancellation is left over from before.                          *)
CancelNotLost == waiting \cap waitCancelled = {}

(* No timer task outlives the wait it was registered for. *)
NoStaleTimer == timer \subseteq waiting

(* Lists and timer tasks belong to the threads that wait, whoever ends a   *)
(* wait (k_synchronization_object.cpp, the wait queue).                    *)
WaitsConsistent ==
    /\ TypeOK
    /\ ListIntegrity
    /\ NoStaleTimer
=============================================================================

# Verification of the emulator's kernel

This directory holds TLA+ models of the core of Citron Neo: its reimplementation of
the Horizon kernel in `src/src/core/hle/kernel`.  Guest threads run on emulated cores
and call into this kernel; host threads (services, the timing thread) call into it too.
The models cover what is hard to test there: threads that block on locks, condition
variables, events and resource limits, the trees and lists they are kept in, and the
signals, timeouts, suspensions, cancellations and terminations that race to take them
out again; the timer behind the timeouts; and the sessions and ports through which
processes talk, with the references, counters and reservations that must come out even
however they are closed.

Contents

1. [The system](#1-the-system): inventory of components
2. [The modules](#2-the-modules): which module models what, and how
3. [The runs](#3-the-runs): what TLC checks, with which bounds, and what it shows
4. [Fairness](#4-fairness)
5. [The proofs](#5-the-proofs)
6. [Disagreements between the code and what it says of itself](#6-disagreements)
7. [What the environment is assumed to do](#7-the-environment)
8. [Not modelled](#8-not-modelled)
9. [Plan](#9-plan)

Source paths below are relative to `src/src/core/hle/kernel/` unless they say more.
`PROJECT.json` maps every definition to the lines it stands for.

## 1. The system

### What runs at the same time

A kernel thread (`KThread`) is a host fibre; up to four physical cores run guest
threads, and host threads of services enter the kernel as dummy threads.  Three
mechanisms keep them apart:

* the **scheduler lock** (`k_scheduler_lock.h`): one global spin lock.  Nearly all state
  of threads, trees, lists and wait queues changes under it, so a critical section is
  one step of a model.  Where a critical section contains a loop whose later iterations
  can see what the earlier ones changed (`RestorePriority`,
  `KConditionVariable::Signal`, `KSynchronizationObject::NotifyAvailable`,
  `KLightServerSession::CleanupRequests`), every
  iteration is a step, a variable holds the loop's state, and no other critical section
  is enabled while it is set;
* **atomic words**: `KLightLock::m_tag`, and the mutex and condition variable words in
  guest memory.  Their fast paths take no lock, and are steps of their own;
* **light locks**, which block threads, for longer critical sections (page tables,
  handle operations, resource limits, sessions).  `KLightLock` models them; the modules
  of their users take them as mutual exclusion.

`core_timing.cpp` has locks of its own (`basic_lock`, `advance_lock`) and a host thread
whose callback takes the scheduler lock; the counters of ports and the states of
sessions and ports are read and written with no lock at all.

### Components

| Component | State it keeps | Operations | Interaction | What makes it correct |
|---|---|---|---|---|
| Lock waiters and priority inheritance (`k_thread.cpp`, `k_thread.h`) | per thread: base and current priority, held lock infos with their waiter trees, lock it waits for, kernel waiter count | `AddWaiter`, `RemoveWaiter`, `RemoveWaiterByKey`, `SetBasePriority`, `IncreaseBasePriority`, `RestorePriority` | used by light locks, condition variables, process termination; reorders `m_tree` of condition variables and arbiters | a thread has exactly the priority it inherits; order of waiters; counters; the restore loop ends |
| Light lock (`k_light_lock.cpp`) | one word: owner and waiter bit | `Lock`, `Unlock` and their slow paths | waiter trees (kernel keys), suspension, termination | exclusion; no lost waiter; a thread that others wait for goes on running |
| Suspension and termination (`k_thread.cpp`) | request and allowed flags, state bits, termination flag | `RequestSuspend`, `TrySuspend`, `Continue`, `Resume`, `UpdateState`, `RequestTerminate`, `Exit`, `Finalize` | cancels any wait; puts off suspension for kernel waiters | no suspension forgotten; no thread lost or freed while referenced |
| Condition variables and address locks (`k_condition_variable.cpp`) | `m_tree`; words in guest memory | `SignalToAddress`, `WaitForAddress`, `Signal`, `Wait`, two wait queues | waiter trees (user keys), hardware timer, handle table | guest mutexes exclude; no wake-up lost; a waiter is in exactly one tree |
| Synchronization objects, events (`k_synchronization_object.cpp`, `k_readable_event.cpp`, `k_event.cpp`) | list of nodes per object; signaled flag | `Wait`, `NotifyAvailable`, `Signal`, `Clear`, `Reset`, `WaitCancel` | hardware timer; sessions, ports, threads and processes are objects | no signal or cancellation lost; lists intact; right index reported |
| Address arbiter (`k_address_arbiter.cpp`) | `m_tree` | three kinds of signal, three kinds of wait | as condition variables | value test and wait are one step; counts of woken threads |
| Resource limits, light condition variables (`k_resource_limit.cpp`, `k_light_condition_variable.cpp`) | per resource: current, hint, peak, limit; waiters | `Reserve` with timeout, two-phase `Release`, `SetLimitValue` | light lock, timer | current never above limit; nothing leaks; a waiter that fits is woken |
| Sessions and requests (`k_server_session.cpp`, `k_session.cpp`, ...) | request list, current request, closed flags | send, receive, reply, close at either end | synchronization objects, threads, termination | every request answered exactly once |
| Ports (`k_port.cpp`, `k_client_port.cpp`, `k_server_port.cpp`) | session counter and peak, queue of sessions not yet accepted, state | create session, accept, close at either end | resource limits, sessions, slab heaps, synchronization objects | counters exact, never above the maximum; what a failed call took is given back; no queued session stranded |
| Light sessions (`k_light_server_session.cpp`, ...) | request list, current request, waiting server thread | send, reply and receive, close at either end | threads, termination | every queued client answered when an end closes |
| Scheduler (`k_scheduler.cpp`, `k_priority_queue.h`) | per-core priority queues, interrupt flags, current threads | update, reschedule, yield, migrate | everything | the highest threads run; no runnable thread forgotten |
| Hardware timer, core timing (`k_hardware_timer*`, `core/core_timing.cpp`) | task tree, wake-up time, event heap | register, cancel, interrupt | every timed wait | a task fires once, not before its time, and does fire |
| Handle table, object references (`k_handle_table.cpp`, `k_auto_object.h`) | slots, free list, reference counts | add, reserve, register, remove, find | every system call | no object freed while referenced |
| Processes, thread life cycle (`k_process.cpp`, `k_worker_task_manager.cpp`) | state, pinned threads, exception thread | run, exit, terminate, pin, suspend | all of the above | termination ends all threads |
| Memory management (`k_page_table_base.cpp`, `k_memory_block_manager.cpp`, ...) | page tables, block tree, heaps | map, unmap, permissions | light lock, resource limits | blocks partition the address space |
| Services (`core/hle/service`) | one state per service; the server manager's event loop | several hundred commands | sessions | |
| Buffer queues (`core/hle/service/nvnflinger`) | slot states, queue | dequeue, queue, acquire, release, cancel | producer and consumer threads | slots never shared or lost |
| GPU, shader recompiler, audio, input, file systems, loaders, network, frontends, CPU emulation | | | | data transformation and I/O |

The behaviours that are hard, each with the line where it bites, are the hazards of
`PROJECT.json`.  In short: values read before the scheduler lock is taken and used
after it; shortcuts that skip a recomputation; iterators and next pointers held across
calls that rearrange the structure; two or three parties racing to end one wait;
termination and destruction in the middle of all this.

## 2. The modules

    KThreadLocks
       |    \
       |     KThreadLocksProofs ------------------------------+
       |               \                                      |
       +-- KLightLock --+-- KLightLockProofs                  |
       |        \                                             |
       |         MCKLightLock                                 |
       +-- KConditionVariable -- MCKConditionVariable, MCKConditionVariableRoles
                    \                                         |
                     +----------------------- KConditionVariableProofs
    KSynchronizationObject -- MCKSynchronizationObject, KSynchronizationObjectProofs
    CoreTiming -- KHardwareTimer -- MCKHardwareTimer, KHardwareTimerProofs
                    : implements TimerService
    KResourceLimit -- MCKResourceLimit, KResourceLimitProofs
        : implements ResourceBudget
    KClientPort -- MCKClientPort, KClientPortProofs
        : uses ResourceBudget
    KServerSession -- MCKServerSession, KServerSessionProofs
    KLightServerSession -- MCKLightServerSession

`KThreadLocks` is used in two ways.  Its actions are the operations that the modules
above it perform inside their own, so they are composed with it; and its specification
`LockSpec`, the waiter trees under their most general caller, is the abstract
specification that those modules are shown to implement.  `ResourceBudget` likewise: a
`KResourceLimit` implements it, and a port takes its reservations from it.
`TimerService` is what every timed wait relies on.

### KThreadLocks

A `LockWithPriorityInheritanceInfo` exists exactly while it has a waiter, so it is not a
value of its own: `lockOwner[t]` and `addressKey[t]` say which lock `t` waits for, and
the waiter tree of lock `k` of `o` is `WaitersOn(o, k)`, ordered by priority and, among
equals, by insertion (`before`, a relation; an intrusive tree inserts behind its
equals).  `m_num_kernel_waiters` is kept as the counter it is.

`AddWaiter`, `RemoveWaiter`, `RemoveWaiterByKey` and `SetBasePriority` end in a call of
`RestorePriority` or skip it on a comparison; `restoring` is the thread the loop has
reached, and `RestoreIteration` is one turn of it.  A thread whose priority changes
leaves its tree and enters it again, behind its new equals.

### KLightLock

`tag[l]` is `m_tag`.  `LockUncontended`/`LockContended` are the two outcomes of the
compare-and-swap loop of `Lock()`, `LockSlowPath` the critical section that either gives
up (the word changed) or waits, `LockSlowPathReturns` the rest; `Unlock` and
`UnlockSlowPath` likewise.  `seen[t]` is the owner that was read before the scheduler
lock was taken.  `RequestSuspend` (with `TrySuspend` and
`UpdateState`), `Resume`, `RequestTerminate` and `CancelWait` are the
operations of `KThread` that interfere: the model keeps request flags, allowed flags and
the flags in the thread state apart, because the code updates them at different times.
`RequestTerminate` first raises the priority (a chain of restore steps) and then cancels
the wait, which is a second step (`cancelling`).

### KConditionVariable

The kernel side of guest mutexes and condition variables, with the guest side that the
kernel relies on (external: a compare-and-swap loop that calls `ArbitrateLock`, looks at
the word again afterwards, calls `ArbitrateUnlock` when the wait bit is set, and calls
`SignalProcessWideKey` only when the condition variable's word is set).  `condvar[t]`
and `cvBefore` are `m_tree`.  `Signal` sets up the loop, `SignalIteration` handles the
thread at the iterator, after the iterator has moved on, and `SignalReturns` clears the
word if the iterator is at the end.  `CancelWait` is both wait queues' `CancelWait`;
`OnTimer`, `TerminateCancelsWait` and `Finalize` call it.  `opened` and `handles` are the
references that keep an owner alive; `Finalize` runs when there are none.  `crashed`
records a dereference of a null lock owner.

### KSynchronizationObject

The node lists are modelled as pointers (`lists.head`, `.tail`, `.next`), since
`NotifyAvailable` walks along nodes that its own body takes out of the list.
`UnlinkNode` finds its node by walking from the head, as the code does, and leaves the
`next` pointer of the node alone.  The loops over the objects of one wait, `LinkAll` and
`UnlinkAll`, and the walk `Linked` are recursive functions of the number of turns; a
wait has at most `ArgumentHandleCountMax` objects.  `Wait` has the code's order of early returns:
termination, a signaled object, a zero timeout, and only then a cancellation left over
from before, which is used up only then.

### CoreTiming, KHardwareTimer and TimerService

`CoreTiming` is the timing thread (`tpc`): it takes an event out of the queue under
`basic_lock`, runs its callback without it, puts a looping event back unless it was
removed meanwhile (`outdated`), and sleeps until the next event (`target`) or until
`eventSet`.  Two host threads call it.  The emulation thread (`hpc`) pauses, resumes,
schedules and unschedules a looping event and shuts down; a service thread (`spc`)
stalls the application while it waits for the GPU and leaves it paused if the user has
paused it (`isPaused`).  `sync` says where each of them is in `SyncPause`: its test and
the store to `paused`, the two events, the spin on `paused_set`.  `suspend_guard` excludes
the calls from each other, but `ShutdownMainProcess` does not take it
(`core.cpp:492-505`), so a stall and a shutdown may be in `SyncPause` at the same time;
`CloseServices` then waits for the service threads.  `Suspended` is what
`SuspendEmulation` does to the cores: they register no tasks meanwhile.  `Advance` lets go
of an event whose type has expired without popping it (`core_timing.cpp:210`) and would
meet it again for ever; the owners unschedule before they drop the type, and the branch
is left out.  `KHardwareTimer` adds the task tree, the
absolute wake-up time and the interrupt: `EnableInterrupt` is three steps
(`armPc`: unschedule, schedule, set the event), all under the scheduler lock, and the
callback waits for that lock.  The task tree is `deadline` (`m_time`, 0 outside the tree)
with the relation `order`, which of two tasks was inserted first: the tree sorts by
time and inserts behind its equals.

`TimerService` has the registered deadlines, a clock, whether an interrupt has come and
is not yet served, and whether the service is on, stopping or off.  A task leaves it in
two ways only: it is cancelled, which takes one task at a time and no interrupt, or an
interrupt is served, which takes all tasks that are due and no other (`SafeSpec`).  When
the service is off nothing changes any more, and it goes off only with no interrupt
pending.  A task that is due and stays registered is served as long as the service is
on.  The mapping takes the clock, the deadlines, "the timing thread is in the timer's
callback and has not run `DoTask`" for the interrupt, and the progress of the shutdown
for the status.

### KResourceLimit and ResourceBudget

One resource: `current`, `hint`, `limit`, `peak` and `waiterCount`.  `Reserve` is the
loop of the code, an iteration at a time; `m_cond_var.Wait` is the light lock given up
under the scheduler lock (`"unlocked"`), then the list (`"asleep"`), then the light lock
taken again (`"relock"`).  A release lowers the values and then broadcasts.  Integers
wrap at `IntMax`, as `s64` does.  `own` and `announced` are what the callers hold and
have announced to give back (`KScopedResourceReservation` and the two-phase release of
`KThread`).  In `ResourceBudget` an amount is taken only while it fits.

### KServerSession

Requests are numbered; `req[r]` has the reference count, the owner, whether it has an
event, and whether its thread is still bound.  A thread carries the request it handles
in `arg`.  The steps are the points where another thread can come in: the scheduler
lock, `m_lock`, the unsynchronised state of `KSession`, and every `Close`.  The message
itself succeeds or fails.  `opened` counts the references to client threads.

### KClientPort

`num` and `peak` with their compare-and-swap loops (a load and an attempt are two
steps), the session objects of the slab (`free`, `new`, `live`) with their counts, the
reservation, the queue of the server port, and the closing of all of it: closing a
session end may finalize the session, which notifies and closes the port, which may
finalize the port.  `back[t]` is where a thread returns to from that.

### KLightServerSession

`list` holds the waiting clients; the one being served (`current`) stays in it until it
is answered.  `it` is the iterator of `CleanupRequests`; `NextNode` is `++it` on the
intrusive list, where a node that was unlinked points to itself.

## 3. The runs

| Run | Checks | Instance |
|---|---|---|
| `locks` | `PriorityInheritance`, `TransitiveInheritance`, `WaitOrder`, `KernelWaiterCount`, `RestoreTerminates` | 3 threads, a user and a kernel key, 3 priorities |
| `light_lock` | `MutualExclusion`, `SuspendHonoured`, `BlockersContinue`, refinement `LockSpec`, `WaiterWoken` | 3 threads, 1 lock, 2 priorities, 2 suspend types, two threads may be suspended and one of them terminated; fairness |
| `light_lock_lost` | `OwnsHeldLocks` is violated | 3 threads, 1 lock, terminations |
| `condvar` | `GuestMutualExclusion`, `WaitersPlaced` (types, `InOneTree`, `MutexWaiterAnnounced`, `NoStaleTimer`), `WaitersFlagged`, `NoDanglingOwner` | 3 threads, 1 mutex, 1 condition variable, 2 priorities, zero and finite timeouts; one thread changes priority, may be terminated at any time, or exit owning the mutex, and is then destroyed |
| `condvar_live` | refinement `LockSpec`, `QueuedWaiterGranted` | 3 threads of 2 priorities, 1 mutex, one thread signals; fairness |
| `condvar_skip` | `WaitersFlagged` is violated | 5 threads in fixed roles, 2 mutexes, 2 priorities |
| `sync` | `WaitsConsistent` (types, `ListIntegrity`, `NoStaleTimer`), `NoWaiterOnSignaled`, `CancelNotLost`, `WokenBySignaled` | 3 threads, 2 events, waits of up to 2 objects, for both and for one listed twice, zero and finite timeouts, one thread may be terminated |
| `timer` | `QuietAfterUnschedule`, `DeadlineCovered` (types, `NoOversleep`, `InterruptEnabled`), refinement `TimerServiceSpec`, `HostReturns` | 2 threads with deadlines, a looping event of period 1, pause and shutdown by the emulation thread, stalls by a service thread, time up to 2; fairness |
| `resource_limit` | `ValuesAccountedFor`, `NoMissedRelease` (types, `WaitersListed`, `SleeperDoesNotFit`), refinement `BudgetSpec`, `ReserveReturns` | 3 threads, amounts and limits 1 and 3, integers up to 3, one thread may be terminated; fairness |
| `session` | `ReferencesExact` (types, `RequestReferences`, `ThreadReferences`, `SessionOutlivesUse`), `WaiterAttended`, `AnsweredOnce`, `ServerAwake`, `ClientsReleased`, `SessionReclaimed` | 2 clients, one of which may be terminated, 2 server threads, 2 requests, synchronous or not; fairness |
| `port` | `CountersExact` (types, `SessionsCounted`, `PeakCoversCount`), `ReservationsExact`, `NoStrandedSession`, `SleepersHaveReason`, `PortOutlivesUse`, `PortReclaimed` | 2 clients, 1 server, at most 2 sessions, a limit of 3, 3 objects, an allocation may fail at any time; fairness |
| `light_session` | `CleanupRepliesToAll` is violated | 2 clients, 1 server; fairness |

What they show:

* **`locks`**.  The shortcuts of `AddWaiter`, `RemoveWaiter` and `RemoveWaiterByKey`
  never leave a wrong priority behind, on chains, trees and even cycles of owners
  (guests can deadlock).  `PriorityInheritance` is the local statement;
  `TransitiveInheritance` is the global one: `BlockedBy(o)`, the threads that wait for
  `o` through any chain, is the least set that contains `o` and the waiters of its
  members.  Three threads give chains of length two, trees with two waiters and
  cycles; three priorities give a value strictly between two others, which is what the
  early exit of the loop depends on.  Two keys, one of them a kernel key, give an owner
  of two locks and a kernel waiter count that differs from the waiter count.
* **`light_lock`**.  The words and the trees stay consistent although the fast paths
  ignore the scheduler lock.  Exclusion is stated for behaviours up to the first
  termination request, since afterwards it is false (section 6); the refinement and
  `BlockersContinue` hold regardless.  With two suspend types a thread that others wait
  for can end up suspended all the same, by a `Resume` that leaves another request
  (section 6, observations); `BlockersContinue` says that nothing else does it, and
  `WaiterWoken` that waiters wake up unless it has happened.  The types, `OwnerIsAlive`
  and `WaiterIsAnnounced` are proved (section 5) and not run.
  Three threads give an owner, a waiter that is handed the lock and a waiter that must
  move to it.  The instance has one lock; the theorems of section 5 cover any number.
* **`condvar`, `condvar_live`**.  A timeout, a signal and an unlock race for one waiter
  in every order; the waiter may be in `m_tree`, in a waiter tree, or woken with the
  mutex in its name.  Termination may come at any point of this, and the destruction of
  an owner.  `LockSpec` is checked without exits: `Finalize` empties a tree in one step,
  which no operation of `KThreadLocks` does.
* **`sync`**.  A thread listed in two lists, or twice in one, is taken out by whoever
  comes first; the loop that walks over the nodes reaches everyone who must wake up.
  The third thread is there so that a node stands behind and in front of the two nodes
  of one thread.
* **`timer`**.  Neither the early-exit test of `ScheduleEvent` nor the interrupt that a
  cancelled task leaves behind makes a timeout late; a callback that waits for the
  scheduler lock while a core cancels the interrupt under it does not deadlock, because
  that unscheduling does not wait.  `HostReturns` holds of every call except where a
  stall and the shutdown overrule each other for good (section 6, observations).  Time
  up to 2 gives a task before, at and after another's deadline and the looping event's.
  Three bounds are in the guards of `HostCalls`: no call but `Run` begins when the clock
  has stopped, and a stall begins only while there is no looping event, and the other
  way round.  `Pause` goes through the same code with a looping event.
* **`resource_limit`**.  No release is missed between the moment a reservation gives up
  the lock and the moment it is in the list.  `IntMax` 3 with amounts of 3 makes the
  sums wrap.  Two things the run taught: a **terminating thread spins** in `Reserve`
  with `m_lock` held until its deadline, since its wait returns at once
  (`k_light_condition_variable.cpp:52`), so `ReserveReturns` rests on every caller
  passing a deadline; and a **raised limit wakes nobody** (`SetLimitValue` does not
  broadcast), which is why `SleeperDoesNotFit` speaks of the limit a reservation went to
  sleep with.
* **`session`**.  Requests, threads and the session itself are released exactly once
  in every race of reply, failure, close of either end and termination.  `AnsweredOnce`
  names the one request whose event is never signalled: it was current when the client
  end closed, and its sender is being terminated (`k_server_session.cpp:1475-1478`).  `ServerAwake`
  and the two liveness properties name the exceptions the code has: a request is
  popped under the scheduler lock but becomes current later, and a server thread asleep
  on the session keeps it open after its handle is closed, so that clients wait for
  it.  Two requests suffice for one current and one queued, or one being answered
  while the next is announced.
* **`port`**.  The failure paths of `CreateSession` and the chain of finalizers come out
  even.  One slab of sessions serves all resource limits of the system
  (`init_slab_setup.cpp:83`, `kernel.cpp:244`), so a reservation does not mean that there
  is an object: `KSession::Create` may fail at any time (`k_client_port.cpp:70`).  A limit
  above the maximum lets a call fail after the reservation, a limit reached lets it fail before.

Runs with symmetry check no liveness property.  A run that says `CHECK_DEADLOCK FALSE`
is one where all threads may have exited, or may wait with no timeout for somebody
who, as far as the kernel knows, need never come.

Every property has a mutant in `PROJECT.json`: a definition that models code, replaced
by one that a plausible slip in that code would give (`...KeepsTimer`, `...Unchecked`
and so on, each defined before what it stands in for), under which TLC finds the
property violated.

## 4. Fairness

* `RestoreStep`: a loop under the scheduler lock is not interrupted.
* In `KLightLock`, a thread that is inside `Lock()` or `Unlock()` continues, and one
  that holds a lock releases it, **unless it is suspended**: a thread whose state has a
  suspend flag is not scheduled, and nobody is obliged to resume it.  That waiters wake
  up all the same is the point of `WaiterWoken`.  Nobody is obliged to call `Lock()`.
* In `KConditionVariable`, threads finish their calls, release the mutexes they own and
  continue the guest's lock loop; nobody is obliged to lock, wait or signal, and timers
  need never fire.
* In `KHardwareTimer`, the timing thread, the clock and a core inside
  `EnableInterrupt` go on, the host threads finish what they began, the GPU lets a stall
  end, and the emulation is not left paused.  Nobody is obliged to register or cancel.
  Spinning on `paused_set` is not progress: `SyncPauseReturns` is enabled only while the
  flag has the value that the caller asked for.
* In `KResourceLimit`, `KServerSession` and `KLightServerSession`, a thread inside the
  kernel goes on, with **strong** fairness, because the locks are handed to their
  waiters (`KLightLock`) or are fair (the scheduler lock): a thread that finds the lock
  free again and again gets it.  In `KClientPort` weak fairness is enough.  No thread is
  obliged to make a call or to close a handle, and a sleep need not be cancelled.

The cores run every runnable thread of the best priority on some core; threads of
worse priority may wait for ever.  `WaiterWoken` and `QueuedWaiterGranted` are therefore
stated for a waiter whose priority nobody exceeds: it is queued behind its equals and
before the rest.

`WaiterWoken` is moreover stated for the innermost lock.  A waiter of an outer lock
waits for an owner that may itself be overtaken for ever in the retry loop of `Lock()`
for the inner lock, which is what a compare-and-swap loop allows under weak fairness.

## 5. The proofs

`tlapm` checks the theorems of the eight `...Proofs` modules.  They hold for every value
of the constants that satisfies the named `ASSUME`s, which say no more than what the
constants stand for: sets of threads are finite and do not contain `NoThread`, kernel
keys are keys, priorities are integers, light locks are ordered by integers (the order
in which nested locks are taken), times and limits are natural numbers, amounts fit in
an integer, each condition variable is used with one mutex.  No bound on the number of
threads, locks, mutexes, objects of a wait, sessions, requests or reservations remains.

Every component has one inductive invariant, `LightInv`, `CvInv`, `TimerInv`, `LimitInv`,
`PortInv`, `SessionInv`, `Inv` of `KSynchronizationObjectProofs`, and a lemma per action; TLC
checked each invariant before it was proved.  The properties of the runs follow from it.
Every safety property of a run that passes is stated by a theorem.

**Waiter trees** (`KThreadLocksProofs`).

* `LockTypeCorrect`: `LockTypeOK` is inductive.
* `PriorityInheritanceCorrect`: `PriorityInheritance` is inductive together with the
  type invariant.  It excepts the thread that the loop has reached, and that exception
  is what makes it inductive: a step of the loop repairs one thread and can only spoil
  the owner of the lock that thread waits for, which is where the loop goes next.  Each
  shortcut is one case: the comparison that lets the code skip the loop has to imply
  that the minimum did not change.
* `TransitiveInheritanceCorrect`: what each thread inherits from its own waiters adds up
  along chains of any length (`InheritanceAddsUp`).  That nobody runs at less than a
  thread it blocks follows since `BlockedBy` is the least closed set (`NoInversion`).  For
  the converse, take among the threads blocked by `o` that have its priority one that
  blocks the fewest: had it inherited that priority, it would be from a waiter which,
  without a cycle, blocks fewer still (`WaiterBlocksFewer`).
* `RestoreMakesProgress`, the safety half of `RestoreTerminates`: in one call of
  `RestorePriority` all priorities move in one direction (`SameDirection`), so the number
  of moves that are left, `RestoreVariant`, decreases from each iteration to the next.
  It supposes finitely many priorities (the code has 64) and allows cycles of owners.
* `WaitOrderCorrect` needs `OwnerNotQueued`: hand-over moves the rest of a tree to
  the new owner, and the order would be torn if that owner already had waiters on the
  same key.
* `KernelWaiterCountCorrect` needs `OwnerNotQueued` too, and cardinality facts about
  moving a set of waiters from one owner to another.

**Light locks** (`KLightLockProofs`).  `LightInv` consists of the types and four
relations between the threads' control state, the words and the trees:

* `WaitingConsistent`: a thread is waiting exactly if it is in a tree, and then it is in
  `LockSlowPath` for the key the tree says; a thread inside a call does not hold the
  lock it called on; a wait that is about to be cancelled exists;
* `OwnersInvolved` and `WordOwnerInvolved`: the owner of a tree, and the owner named by
  a word, holds that lock, is releasing it, or has been woken and is about to return
  from `Lock()`;
* `WaiterBitSet`: when word and tree agree on the owner, the waiter bit is set.

They are needed because the waiter trees take for granted that an owner does not wait
for its own lock (`MayWaitFor`); `LightInv` shows that a thread which enters a tree
after reading the word again under the scheduler lock satisfies this.  From it follow

* `LightTypeCorrect`, `LightOwnerIsAlive`;
* `LightImplementsLocks`: `Spec => LockSpec`, every step of the light locks, with
  suspension and termination, is a step or a stutter of the waiter trees (the mapping is
  the identity on their variables), and so, without further work,
* `LightPriorityInheritance`, `LightTransitiveInheritance`: the theorems about the trees
  hold for light locks;
* `LightMutualExclusion`: `MutualExclusion` and `WaiterIsAnnounced`.  The additional
  invariant `MutexInv` says that word, trees and held locks agree completely.  It is
  stable only until the first termination request, so it is proved as
  `NoTermination => MutexInv`, with a lemma that termination requests are never taken
  back.

* `LightSuspendHonoured`: a suspension that was put off is not forgotten.  `SuspendInv`
  strengthens it: suspension stays allowed, the flags in the state are among the
  requests, and where they differ the thread owns a word that announces a waiter.  Like
  `MutexInv` it is proved up to the first termination request.
* `LightBlockersContinue`: with any number of locks and suspend types and with
  terminations, a thread that has kernel waiters is not suspended by any step but a
  `Resume` that leaves it another request, and a new waiter never finds its owner
  suspended and leaves it so.  The argument goes through each action: the suspending ones
  look at the waiter count, and those that raise it call `Continue`.

**Condition variables** (`KConditionVariableProofs`).
`CvInv` holds with timeouts, terminations, changes of priority, exits and destruction:

* a thread waits exactly if it is in one tree, and a timer task belongs to a waiter
  (`WaitsInTree`, `NoStaleTimer`);
* the word of a mutex with waiters names the owner of their tree and has the wait bit
  (`WordsNamed`, `WordsAnnounce`);
* who believes to hold a mutex is named by its word, and so is who was woken with it or
  is releasing it (`GuestMutualExclusion`, `Granted`, `Releasing`);
* a destroyed thread is named nowhere (`GoneUnnamed`, `NoDanglingOwner`); the iterators
  of a signal and of a cancelled wait are where the loops need them (`LoopsOK`).

From it: `CvMutualExclusion`, `CvWaitersPlaced`, `CvNoDanglingOwner`.
`CvImplementsLocks` is the refinement of the waiter trees, with the converse of exclusion, `OwnerInv`: the
thread that a word names knows that it owns the mutex, so it never queues behind
itself.  It is stated for `Leavers = {}`: a thread that exits owning a mutex is later
destroyed, and `KThread::Finalize` empties its tree in one step without restoring
priorities, which `LockSpec` does not do.  `CvPriorityInheritance`, `CvTransitiveInheritance`
and `CvWaitOrder` follow from the refinement and the theorems about the trees.

`WaitersFlagged` is false in general (`condvar_skip`).  `CvWaitersFlagged` gives a condition
under which it holds: `Spec /\ []OwnsNothingInTree => []WaitersFlagged`, as long as no thread in
`m_tree` is named by a mutex word.  `FlagInv` is the reason: during `Signal` the iterator is
at the first waiter of the key, because `RestorePriority` then passes only through threads
that others wait for, which own a mutex and so are not in `m_tree`.  `CvFlaggedOneMutex`
gives the condition in terms of the program: threads that use one mutex each
(`OneMutexEach`) never lose a wake-up, with `UsesOnly` as the invariant that a word names
only threads that use the mutex and do not wait for it in `m_tree`.

**Synchronization objects** (`KSynchronizationObjectProofs`).  The lists are pointers and
the operations on them are loops, so the proofs need induction, over positions of a list
and turns of a loop.  It comes from the least-number principle (`LeastNumber`, from
the well-foundedness of the naturals): the set of numbers for which a fact is not yet
known would have a least element (`InductionUpTo`).  On this rest, in order,

* the recursive functions of the model, which have the values their definitions say
  (`LinkAllLoop`, `UnlinkAllLoop`, `LinkedIsList`);
* one list: `ListHolds(L, o, N)`, a path of pointers from `head` to `tail` visits each node
  of `N` once.  `LinkNodeHolds` and `UnlinkNodeHolds` say that linking adds one node and
  unlinking takes out one, wherever it stands and whatever the pointers of nodes outside
  the list are; that a walk ends is a pigeonhole argument (`ListLength`);
* all lists: `ListsHold(L, W)`, and `LinkAllLists`, `UnlinkAllLists` for all nodes of a wait;
* `LeadsTo(L, n, h, D)`: from node `n`, pointers lead through nodes of `D` to `h`.

The inductive invariant `Inv` says that each list holds the nodes of the threads that
wait for its object (`WaitSets`); what a waiting thread's call looks like (`WaitersInv`);
that from the node `NotifyAvailable` will look at next, pointers lead through nodes of
threads that no longer wait (`DeadNodes`) to the present head of the list
(`NotifyingInv`); and that a thread which waits for a signaled object waits for the one
being notified (`ReadyInv`).  `NotifyingInv` is what the loop depends on: it follows the
`next` pointer of a node that its own body, or the unlinking of the woken thread's other
nodes, has taken out of the list, and still reaches the head of what is left.
Theorems: `WaitsStayConsistent`, `NoLostWakeUp`, `CancelReachesWaiter`, `WokenForASignal`.

**Hardware timer and core timing** (`KHardwareTimerProofs`).  `TimerInv` says where the
timing thread is, with which event and lock (`ThreadAt`); that the looping event is
queued once, and its callback runs for the queued event unless the host is still in
`UnscheduleEvent` (`LoopOnce`); that nothing is left after `ClearPendingEvents`
(`NothingLeft`); that there is one timer event (`OneTimer`) and `m_next_task` is the first
task (`NextFirst`); and the chain that makes a timeout fire: no task is earlier than the
interrupt (`ArmedInTime`), the interrupt is in the queue or being put there
(`WakeupQueued`), and the thread sleeps no longer than to the first event of the queue or
has been told to look again (`NoOversleep`).  `SyncAt` says that a host thread is in
`SyncPause` exactly during the calls that use it, which the shutdown's progress depends
on.  Theorems: `TimerQuietAfterUnschedule`, `TimerDeadlineCovered`, and
`TimerImplementsService`, the safety part of the refinement.  Its two interesting steps
are `DoTask`, where `NextFirst` shows that the tasks from `m_next_task` on are all tasks, so
that what fires is exactly what is due, and `DoTaskIgnored`, where `ArmedInTime` shows that
an interrupt taken back leaves no task at all.

**Resource limits** (`KResourceLimitProofs`).  `LimitInv` adds to the two properties what
each place in `Reserve` and `Release` implies for the amounts of that thread
(`AmountsMatch`), who has `m_lock` (`LocksHeld`), and a form of "the sleeper does not fit"
that also covers the moment between giving up the lock and entering the list
(`WaiterDoesNotFit`).  A total over threads is the cardinality of a set of units, one
per thread and unit held, so that a changed amount changes the total by as much
(`TotalChange`) without induction.  The sums wrap as `s64` does; that they are compared
correctly all the same is part of the proof.  Theorems: `LimitValuesCorrect`,
`LimitNoMissedRelease` and `LimitImplementsBudget`, the full refinement of
`ResourceBudget`.

**Ports** (`KClientPortProofs`).  `PortInv` says in whose hand each session is (a call that
creates it, the queue, a client and a server, a finalizer) and which stage and
reference count that implies, and that each hand holds one (`SessionsInHand`, `OneUser`,
`SessionsHanded`, `QueueInjective`); that counter, peak and reservations are exact; that
the references to each end and to the port are the handles, calls and sessions that
exist, with one destroyer each (`ClientRefs`, `ServerRefs`, `OneDestroyer`, `PortRefs`); and
that a port whose queue takes sessions will be cleaned up (`QueueLives`).  The exact
counts are needed because the finalizers run when a count reaches zero: only from
them does it follow that they run once and after the last use.  Theorems:
`PortCountersExact`, `PortReservationsExact`, `PortNoStrandedSession`,
`PortSleepersHaveReason`, `PortOutlivesItsUse`.

**Sessions** (`KServerSessionProofs`).  `SessionInv` consists of

* the places: which program counters have `m_lock` (`LockHeld`) and a request in hand
  (`ArgsHeld`), and that the queue, the current request and the hands exclude each other
  (`ListInjective`, `Exclusive`), except that `OnClientClosed` looks at the current request
  while it stays current, and that a request which `OnRequest` has not queued is in its
  sender's hand alone (`Unsent`);
* the counts: a request's references are the queue, the current request, its sender and
  its handler (`RefCount`); those of an end are its handle and its calls, and whoever
  dropped the last one destroys it, once (`EndRefs`, `OneCloser`); a client's thread is
  referred to by its bound requests and by the server that receives from it
  (`ThreadRefs`);
* `CutOff`: only the request that `OnClientClosed` looked at has lost its thread, and then
  no client is in a call and no other request becomes current, since `m_lock` is held
  from the look to the end.  Without it a reply could find its request unbound while the
  client waits;
* `WaitersAttended`, `EventsSignalled`: a waiting client's request, and an accepted one
  with an event that was not signalled, is queued, current or about to be answered, and
  a closed session that still has a queue is being cleaned up; `SleepersAwaited`: a server
  that sleeps although there is something to do will be woken.

Steps of the holder of `m_lock` share lemmas (`OneHand`, `ExclusiveStep`, `EventsStep` and
others): while it moves, nobody else has a request from the queue in hand.  The clients'
steps `SendRequest`, `OnRequest` and the return of a call interleave with it and are
argued from `Unsent` and from the owner of a request.  Theorems: `SessionReferences`,
`SessionWaiters`, `SessionAnswers`, `SessionServers`.

**What TLC alone checks.**

* Liveness, with the fairness of section 4: `RestoreTerminates`, `WaiterWoken`,
  `QueuedWaiterGranted`, `HostReturns`, `ReserveReturns`, `ClientsReleased`,
  `SessionReclaimed`, `PortReclaimed`, and the liveness part of `TimerServiceSpec`.
  Liveness under fairness and `ENABLED` are beyond the prover.
  Of `RestoreTerminates` the decreasing variant is proved, of `TimerServiceSpec` the
  safety part.
* `WaitersFlagged` where threads hold a second mutex while they wait: it is false
  (`condvar_skip`), and the theorems state the condition.
* `KLightServerSession`: its run ends in a violation.

## 6. Disagreements

Three runs are expected to end in a violation.  Each shows the code doing something that
a comment or an assertion in the repository rules out.

* `light_lock_lost`: `RequestTerminate` cancels the wait of a thread in
  `LockSlowPath`, which then returns as if it had been handed the lock
  (`k_light_lock.cpp:102`).  Two threads are in the critical section, and the
  terminated one's `Unlock()` overwrites the word of the real owner.
  `k_page_table_base.cpp:700` asserts `IsLockedByCurrentThread()`.
* `condvar_skip`: `Signal` keeps an iterator into `m_tree` while `SignalImpl` restores
  priorities; a lock owner that waits for the same key with another mutex held is
  inserted in front of the iterator, is not signalled, and the word is cleared although
  it waits (`k_condition_variable.cpp:254` and `:262`).
* `light_session`: `CleanupRequests` replies to "all other requests"
  (`k_light_server_session.cpp:235`) in a range-for whose body unlinks the node the
  iterator stands on.  The unlinked node points to itself
  (`common/intrusive_list.h:69-76`), `EndWait` of a thread that no longer waits does
  nothing, and the loop spins with the scheduler lock held.  One queued request that is
  not the current one is enough; with two, the second client is never answered.

**Observations.**  Behaviours that the models show and no run records:

* `Resume` of one suspension type, while another is requested, suspends a thread that
  others wait for (`k_thread.cpp:773`), which `TrySuspend` takes care not to do
  (`k_thread.cpp:793`).  It need not even be a type that was requested:
  `SuspendEmulation(false)` resumes every thread (`kernel.cpp:1296`).  The waiters then
  wait until somebody undoes the other suspension.  No line of the repository says that
  this does not happen, so it is an exception named in `BlockersContinue` and
  `WaiterWoken`, which the run `light_lock` reaches, and not a run of its own.
* `ShutdownMainProcess` calls `SyncPause(false)` without `suspend_guard`
  (`core.cpp:505`), and a service thread may be in `SyncPause(true)` of
  `StallApplication` (`nvhost_ctrl.cpp:148`).  If the shutdown stores `paused` last before
  the timing thread looks, the stall spins on `paused_set` for ever
  (`core_timing.cpp:93`), and `CloseServices` waits for its thread for ever.  If the stall
  stores last while the user has paused the emulation, `UnstallApplication` does not
  resume (`core.cpp:308`), and the shutdown spins.  `HostReturns` names the case
  (`Overruled`), and the run `timer` reaches it.  `ShutdownMainProcess` also calls
  `SuspendEmulation` without the lock that `kernel.cpp:1306` asks for.
* `Finalize` takes a waiter out of the lock and then cancels its wait, and the queue of
  `WaitForAddress` calls `RemoveWaiter` on the owner it no longer has
  (`k_thread.cpp:369-375`, `k_condition_variable.cpp:70`): `crashed` becomes true when
  the mutex passes to a thread that exits with it.
* `KLightServerSession::Destroy` cleans up first and marks the session closed afterwards
  (`k_light_server_session.cpp:80-82`); a request that arrives in between is queued on a
  session without a server and waits for ever.

## 7. The environment

What the models take for granted about code that is not in them:

* light locks that nest are taken in one order; a thread does not lock a light lock it
  holds; nobody unlocks a lock that is not its own, except by the first disagreement
  above;
* the guest follows the mutex protocol described under KConditionVariable, uses one
  mutex with each condition variable, and does not pass its own handle as the owner;
* `ReadFromUser` and `WriteToUser` succeed, as they do in the code;
* a closed handle is not used again for another thread;
* a suspended thread may go on running until its next scheduling point, so suspension
  disables no step; it only removes fairness;
* threads are not pinned, and dummy threads, which block on a host condition variable
  instead of the scheduler, behave like others;
* in the modules other than `KHardwareTimer`, a timer task may fire at any time while it
  is registered; `TimerService` says what they may rely on beyond that;
* callers of `KResourceLimit` release what they reserved and pass deadlines, as all of
  them do in the code;
* the reservation of a handle slot, which precedes the creation of a session, succeeds;
* `m_lock` of a session and of a resource limit excludes also when threads are
  terminated, which the first disagreement shows a light lock need not do;
* a thread inside a system call holds the object its handle named
  (`KScopedAutoObject`), so an end of a session or port is destroyed under nobody.

Bounds are given by constants only: the sets of threads, keys, priorities, timeouts
and wait lists, `ArgumentHandleCountMax` (objects in one wait; 64 in the code), `MaxTime`
(the clock stops there), `MaxRequests` (requests created in one session), and the size of
integers, `IntMax`.  The one state constraint, `UrgentLockers` in `condvar_skip`, cuts
down the search for a counterexample and proves nothing.

## 8. Not modelled

Components without a module are listed in `PROJECT.json` with the reason.  Within the
modelled ones: core masks, pinning, `Sleep`, context save and restore of `KThread`;
threads and processes as synchronization objects, and the destruction of a readable
event under its `KEvent`; single-core mode, the sleep path of Windows and callbacks that
change their own period in core timing; the translation of messages (some 900 lines of
`k_server_session.cpp` that copy and map data) and the event loop that serves sessions.

The models cover a small share of the repository's 700,000 lines.  Most of those are
font tables, vendored libraries, generated loaders, shader translation, drawing, audio,
file formats and user interface: data, data transformation and I/O, with no protocol to
check.  What has one and is not modelled yet is the rest of the kernel and the buffer
queues (section 9).

## 9. Plan

In this order; each module extends what exists where it can.

1. **KAddressArbiter**, on the wait state of KConditionVariable, whose tree it shares.
2. **KThreadLifecycle**: run, exit, terminate, pin, process termination, worker tasks.
3. **KScheduler**: priority queue, highest thread per core, migration, interrupts.
4. **KHandleTable** with reference counts; the memory block manager; buffer queues.
5. The server manager's loop on KServerSession.

Theorems to come: for `KLightServerSession`, that requests are answered as long as no
end is closed; for the address arbiter, what `CvInv` says of `m_tree`.

--------------------------- MODULE KHardwareTimer ---------------------------
(***************************************************************************)
(* KHardwareTimer (core/hle/kernel/k_hardware_timer.cpp and the headers it *)
(* is made of) on top of CoreTiming: the timeouts of waiting threads.      *)
(*                                                                         *)
(* Kernel threads register and cancel their tasks under the scheduler      *)
(* lock; the timing thread's callback needs the same lock while it holds   *)
(* advance_lock.  The timer's own spin lock is only taken under the        *)
(* scheduler lock and is left out.  A thread's task is named by the thread. *)
(***************************************************************************)
EXTENDS CoreTiming

CONSTANTS Threads, NoThread, Timing

ASSUME ThreadAssumption == NoThread \notin Threads /\ Timing \notin Threads \cup {NoThread}

VARIABLES deadline,   \* KTimerTask::m_time, 0 if it is not registered
          order,      \* m_task_tree, as far as m_time leaves its order open
          nextTask,   \* m_next_task
          wakeup,     \* m_wakeup_time
          scheduler,  \* who holds the scheduler lock between two steps
          armPc,      \* where that thread is in EnableInterrupt
          armTime     \* its argument

taskVars == <<deadline, order, nextTask>>
armVars == <<wakeup, scheduler, armPc, armTime>>
vars == <<timingVars, taskVars, armVars>>

TimerEvent(time) == [type |-> "timer", time |-> time]
SchedulerUnlocked == scheduler = NoThread

-----------------------------------------------------------------------------
(* The task tree: the tasks by time, and in the order of their insertion   *)
(* where the times are the same.                                           *)
Tasks == {t \in Threads : deadline[t] > 0}
TaskBefore(t, u) ==
    \/ deadline[t] < deadline[u]
    \/ deadline[t] = deadline[u] /\ <<t, u>> \in order
TasksAfter(t) == {u \in Tasks : TaskBefore(t, u)}
IsFirstTask(t, tasks) ==
    \/ tasks = {} /\ t = NoThread
    \/ t \in tasks /\ \A u \in tasks \ {t} : TaskBefore(t, u)

Inserted(t) == order \cup {<<u, t>> : u \in Tasks}
Erased(tasks) == {p \in order : p[1] \notin tasks /\ p[2] \notin tasks}

RemoveTaskFromTree(t) ==
    /\ order' = Erased({t})
    /\ deadline' = [deadline EXCEPT ![t] = 0]
    /\ \E u \in Threads \cup {NoThread} :
          /\ IF nextTask = t THEN IsFirstTask(u, TasksAfter(t)) ELSE u = nextTask
          /\ nextTask' = u

(* EnableInterrupt(time), called with the scheduler lock by `who'. *)
EnableInterrupt(who, time) ==
    /\ scheduler' = who
    /\ armPc' = "unschedule"
    /\ armTime' = time

(* KScopedSchedulerLockAndSleep of a thread that begins a timed wait.  Its *)
(* deadline lies ahead when it is computed and may have come by now.  The  *)
(* bounded clock also bounds the registrations: at MaxTime deadlines would *)
(* no longer lie ahead.                                                    *)
RegisterAbsoluteTask(t, d) ==
    /\ ~ Suspended
    /\ SchedulerUnlocked /\ deadline[t] = 0 /\ d > 0 /\ now < MaxTime
    /\ order' = Inserted(t)
    /\ deadline' = [deadline EXCEPT ![t] = d]
    /\ LET earliest == nextTask = NoThread \/ d < deadline[nextTask]
       IN  /\ nextTask' = IF earliest THEN t ELSE nextTask
           /\ IF earliest /\ d <= wakeup
              THEN EnableInterrupt(t, d) /\ UNCHANGED wakeup
              ELSE UNCHANGED armVars
    /\ UNCHANGED timingVars

(* Somebody ends the wait of t (KThreadQueue::EndWait and CancelWait). The *)
(* interrupt stays as it is.                                               *)
CancelTask(t) ==
    /\ ~ CoresStopped
    /\ SchedulerUnlocked /\ deadline[t] > 0
    /\ RemoveTaskFromTree(t)
    /\ UNCHANGED <<timingVars, armVars>>

-----------------------------------------------------------------------------
(* EnableInterrupt, the same steps for a kernel thread and for DoTask.     *)
(* DisableInterrupt unschedules without waiting for advance_lock: the      *)
(* timing thread may hold it and want the scheduler lock.                  *)
DisableInterrupt ==
    /\ armPc = "unschedule" /\ ~ BasicLocked
    /\ RemoveType("timer")
    /\ armPc' = "schedule"
    /\ wakeup' = Forever
    /\ UNCHANGED <<taskVars, scheduler, armTime, now, eventSet, tpc, globalTimer,
                   running, target, pauseVars, hostVars>>

(* The scheduler lock is released; in the timing thread DoTask and the     *)
(* callback end.                                                           *)
Armed ==
    /\ armPc' = "none"
    /\ scheduler' = NoThread
    /\ armTime' = 0
    /\ IF scheduler = Timing THEN CallbackReturns ELSE UNCHANGED threadVars

ArmFurther(next) ==
    /\ armPc' = next
    /\ UNCHANGED <<scheduler, armTime, threadVars>>

(* A bug: the comparison wakes the timing thread for later events only. *)
ScheduleEventLate ==
    /\ armPc = "schedule" /\ ~ BasicLocked
    /\ wakeup' = armTime
    /\ Insert(TimerEvent(armTime))
    /\ IF \A e \in queue : armTime > e.time THEN ArmFurther("set") ELSE Armed
    /\ UNCHANGED <<taskVars, now, eventSet, pauseVars, hostVars>>

ScheduleEvent ==
    /\ armPc = "schedule" /\ ~ BasicLocked
    /\ wakeup' = armTime
    /\ Insert(TimerEvent(armTime))
    /\ IF IsEarliest(armTime) THEN ArmFurther("set") ELSE Armed
    /\ UNCHANGED <<taskVars, now, eventSet, pauseVars, hostVars>>

ScheduleEventSets ==
    /\ armPc = "set"
    /\ eventSet' = TRUE
    /\ Armed
    /\ UNCHANGED <<taskVars, wakeup, now, queue, pauseVars, hostVars>>

-----------------------------------------------------------------------------
(* DoTask, the callback.  An interrupt that was taken back in the meantime *)
(* is ignored.                                                             *)
DoTaskIgnored ==
    /\ tpc = "callback" /\ running.type = "timer"
    /\ SchedulerUnlocked
    /\ wakeup = Forever
    /\ CallbackReturns
    /\ UNCHANGED <<taskVars, armVars, now, queue, eventSet, pauseVars, hostVars>>

(* DoInterruptTaskImpl: the tasks from m_next_task on that are due, whose  *)
(* OnTimer ends a wait, and the one behind them.                           *)
TasksFromNext == {t \in Tasks : nextTask # NoThread /\ (t = nextTask \/ TaskBefore(nextTask, t))}

(* A bug: the interrupt is taken to be that of m_next_task, though it may   *)
(* have been enabled for a task that was cancelled.                         *)
DueTasksTrusting == {t \in TasksFromNext : t = nextTask \/ deadline[t] <= now}

DueTasks == {t \in TasksFromNext : deadline[t] <= now}

DoTask ==
    /\ tpc = "callback" /\ running.type = "timer"
    /\ SchedulerUnlocked
    /\ wakeup # Forever
    /\ order' = Erased(DueTasks)
    /\ deadline' = [t \in Threads |-> IF t \in DueTasks THEN 0 ELSE deadline[t]]
    /\ \E next \in Threads \cup {NoThread} :
          /\ IsFirstTask(next, TasksFromNext \ DueTasks)
          /\ nextTask' = next
          /\ IF next = NoThread
             THEN CallbackReturns /\ UNCHANGED <<scheduler, armPc, armTime>>
             ELSE /\ EnableInterrupt(Timing, deadline[next])
                  /\ tpc' = "arming"
                  /\ UNCHANGED <<globalTimer, running, outdated, target>>
    /\ wakeup' = Forever
    /\ UNCHANGED <<now, queue, eventSet, pauseVars, hostVars>>

-----------------------------------------------------------------------------
Init ==
    /\ TimingInit
    /\ deadline = [t \in Threads |-> 0]
    /\ order = {} /\ nextTask = NoThread
    /\ wakeup = Forever
    /\ scheduler = NoThread /\ armPc = "none" /\ armTime = 0

TimingThread == ThreadLoop \/ Advance
Arm == DisableInterrupt \/ ScheduleEvent \/ ScheduleEventSets

(* What the host threads begin.  The bounded clock bounds their calls as it *)
(* bounds the registrations; and the looping event and the stall, which    *)
(* meet the same code in Pause and Run, are not there at the same time.    *)
NoCore == scheduler \notin Threads
Closing == (CloseServices /\ NoCore) \/ (ClearPendingEvents /\ SchedulerUnlocked)
HostCalls ==
    \/ now < MaxTime /\ \/ Pause \/ ShutdownMainProcess
                        \/ spc = "idle" /\ ScheduleLoopingEvent
                        \/ UnscheduleEvent
                        \/ LoopEvents = {} /\ StallApplication /\ NoCore
    \/ Run
Hosting == HostCalls \/ Closing \/ EmulationProgress \/ ServiceProgress

Next ==
    \/ \E t \in Threads : CancelTask(t) \/ \E d \in now..MaxTime : RegisterAbsoluteTask(t, d)
    \/ Arm
    \/ DoTask \/ DoTaskIgnored
    \/ (TimingThread \/ Hosting \/ Tick) /\ UNCHANGED <<taskVars, armVars>>

Spec == Init /\ [][Next]_vars

(* The timing thread, the clock and a core in EnableInterrupt go on; the   *)
(* host threads finish what they began, the GPU lets a stall end, and the  *)
(* emulation is not left paused.  Weak fairness is enough although all of  *)
(* them compete for locks, because every contender's calls are finite.     *)
Fairness ==
    /\ WF_tpc(TimingThread)
    /\ WF_now(Tick)
    /\ WF_<<armVars, tpc>>(DoTask \/ DoTaskIgnored \/ Arm)
    /\ WF_<<hpc, sync, isPaused>>(EmulationProgress \/ Run \/ Closing)
    /\ WF_<<spc, sync>>(ServiceProgress)

FairSpec == Spec /\ Fairness

-----------------------------------------------------------------------------
TypeOK ==
    /\ TimingTypeOK
    /\ deadline \in [Threads -> 0..MaxTime]
    /\ order \subseteq Threads \X Threads
    /\ nextTask \in Threads \cup {NoThread}
    /\ wakeup \in 1..Forever
    /\ scheduler \in Threads \cup {NoThread, Timing}
    /\ armPc \in {"none", "unschedule", "schedule", "set"}
    /\ armTime \in 0..MaxTime

(* The timing thread never oversleeps: while it sleeps, no queued event is *)
(* earlier than the end of its sleep, unless event is set or whoever       *)
(* scheduled that event has yet to set it.  Scheduling sets it only for    *)
(* what looks like the earliest event, outside basic_lock.                 *)
NoOversleep ==
    (tpc = "asleep" /\ ~ eventSet /\ armPc # "set" /\ hpc # "loopSet")
       => \A e \in queue : target <= e.time

(* The interrupt is enabled for the earliest task: unless somebody is      *)
(* about to enable it or the callback is about to run DoTask, the queue    *)
(* holds one timer event, for a time no later than any task's.             *)
(* m_next_task, which is not recomputed, is the first task of the tree.    *)
InterruptEnabled ==
    /\ IsFirstTask(nextTask, Tasks)
    /\ \A e, f \in queue \ Without("timer") : e = f
    /\ (armPc = "none" /\ ~ Cleared /\ (running = NoEvent \/ running.type # "timer"))
          => \A t \in Threads : deadline[t] > 0 =>
                \E e \in queue : e = TimerEvent(wakeup) /\ e.time <= deadline[t]

(* The hardware timer and core timing implement the timer service: a task  *)
(* leaves the tree by being cancelled or because an interrupt found it     *)
(* due, which happens exactly to the tasks that are due and to none after  *)
(* ClearPendingEvents; and a task that stays registered and is due is      *)
(* served, unless the emulation shuts down (k_hardware_timer_base.h        *)
(* DoInterruptTaskImpl, core_timing.cpp Advance).                          *)
Interrupted == tpc = "callback" /\ running.type = "timer"
Status == IF Cleared THEN "off" ELSE IF ShuttingDown THEN "stopping" ELSE "on"
Service == INSTANCE TimerService WITH clock <- now, interrupt <- Interrupted, status <- Status
TimerServiceSpec == Service!Spec

(* No task is late: an interrupt is enabled for the earliest one and the   *)
(* timing thread does not sleep through it (k_hardware_timer.cpp,          *)
(* core_timing.cpp).                                                       *)
DeadlineCovered ==
    /\ TypeOK
    /\ NoOversleep
    /\ InterruptEnabled
=============================================================================

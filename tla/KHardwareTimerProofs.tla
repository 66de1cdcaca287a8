------------------------ MODULE KHardwareTimerProofs ------------------------
(***************************************************************************)
(* Proofs about the hardware timer on top of core timing, for any threads, *)
(* any bound of the clock and any period of the looping event: timeouts    *)
(* are never slept through, UnscheduleEvent leaves no callback behind, and *)
(* the two implement the timer service.                                    *)
(***************************************************************************)
EXTENDS KHardwareTimer, TLAPS

Runs(type) == running # NoEvent /\ running.type = type

(* Where the timing thread is, and with it the event it runs and the       *)
(* scheduler lock it holds in DoTask.                                      *)
ThreadAt ==
    /\ running # NoEvent <=> tpc \in {"callback", "arming", "reschedule"}
    /\ running # NoEvent => running.time <= MaxTime
    /\ tpc = "arming" <=> scheduler = Timing
    /\ tpc = "arming" => running.type = "timer"
    /\ tpc = "reschedule" => running.type = "loop"
    /\ armPc = "none" <=> scheduler = NoThread

(* The looping event is queued once; its callback runs for the queued      *)
(* event, or the host thread is still in UnscheduleEvent.                  *)
LoopOnce ==
    /\ \A e, f \in queue : e.type = "loop" /\ f.type = "loop" => e = f
    /\ Runs("loop") /\ ~ outdated => running \in queue
    /\ Runs("loop") /\ outdated => running \notin queue /\ hpc = "barrier"

(* After ClearPendingEvents nothing is left to run, and nobody to schedule *)
(* anything.                                                               *)
NothingLeft == Cleared => running = NoEvent /\ queue = {} /\ armPc = "none"

(* There is one timer event, which EnableInterrupt takes back first. *)
OneTimer ==
    /\ \A e, f \in queue : e.type = "timer" /\ f.type = "timer" => e = f
    /\ armPc = "schedule" => \A e \in queue : e.type # "timer"

(* No task is earlier than the interrupt that is being enabled, or than    *)
(* the one that is.                                                        *)
ArmedInTime ==
    /\ armPc \in {"unschedule", "schedule"}
          => armTime > 0 /\ \A t \in Tasks : armTime <= deadline[t]
    /\ armPc \in {"none", "set"} => \A t \in Tasks : wakeup <= deadline[t]

(* An enabled interrupt has its event in the queue, or its callback is     *)
(* about to take the scheduler lock.                                       *)
WakeupQueued ==
    (armPc \in {"none", "set"} /\ ~ Cleared /\ wakeup # Forever)
       => TimerEvent(wakeup) \in queue \/ (tpc = "callback" /\ running.type = "timer")

(* m_next_task is the first task of the tree, which holds no task twice. *)
NextFirst ==
    /\ IsFirstTask(nextTask, Tasks)
    /\ \A t \in Threads : <<t, t>> \notin order

TimerInv ==
    /\ TypeOK
    /\ ThreadAt
    /\ LoopOnce
    /\ NothingLeft
    /\ OneTimer
    /\ NextFirst
    /\ ArmedInTime
    /\ WakeupQueued
    /\ NoOversleep

-----------------------------------------------------------------------------
(* Times and events. *)
LEMMA TimeFacts ==
    /\ MaxTime \in Nat /\ Period \in Nat /\ Forever \in Nat /\ MaxTime < Forever
    /\ \A d : d \in 0 .. MaxTime => d \in Times /\ d \in Nat /\ d <= MaxTime
    /\ \A d \in 0 .. MaxTime : d + Period \in Times
    /\ \A d \in 1 .. Forever : d \in Times /\ d > 0
    /\ \A d \in Times : d \in Nat /\ d <= Forever
  BY TimeAssumption DEF Times, Forever

(* An event is its type and its time. *)
LEMMA EventFacts ==
    /\ NoEvent \notin Events
    /\ \A e \in Events : e.type \in {"timer", "loop"} /\ e.time \in Times
    /\ \A e, f \in Events : e.type = f.type /\ e.time = f.time => e = f
    /\ \A d \in Times : /\ TimerEvent(d) \in Events /\ LoopEvent(d) \in Events
                        /\ TimerEvent(d).type = "timer" /\ TimerEvent(d).time = d
                        /\ LoopEvent(d).type = "loop" /\ LoopEvent(d).time = d
<1>1. \A e, f \in Events : e.type = f.type /\ e.time = f.time => e = f
  BY DEF Events
<1> QED
  BY <1>1, EventAssumption DEF Events, TimerEvent, LoopEvent

(* What the first task of the tree is. *)
LEMMA FirstTask ==
    ASSUME TypeOK, NextFirst
    PROVE  /\ Tasks # {} => nextTask \in Tasks
           /\ Tasks = {} => nextTask = NoThread
           /\ \A u \in Tasks : u # nextTask => TaskBefore(nextTask, u)
           /\ \A u \in Tasks : deadline[nextTask] <= deadline[u]
<1>1. /\ Tasks # {} => nextTask \in Tasks
      /\ Tasks = {} => nextTask = NoThread
      /\ \A u \in Tasks : u # nextTask => TaskBefore(nextTask, u)
  BY DEF NextFirst, IsFirstTask
<1>2. \A u \in Tasks : deadline[u] \in Nat
  BY TimeFacts DEF Tasks, TypeOK
<1>3. ASSUME NEW u \in Tasks PROVE deadline[nextTask] <= deadline[u]
  <2>1. nextTask \in Tasks
    BY <1>1
  <2>2. deadline[nextTask] \in Nat /\ deadline[u] \in Nat
    BY <2>1, <1>2
  <2>3. u = nextTask \/ TaskBefore(nextTask, u)
    BY <1>1
  <2> QED
    BY <2>2, <2>3 DEF TaskBefore
<1> QED
  BY <1>1, <1>3

(* The steps of the specification are those of its actions. *)
HostMoves ==
    \/ ScheduleLoopingEventSets \/ UnscheduleEventWaits \/ CloseServices \/ Reset
    \/ \E h \in Hosts : SyncPauseSteps(h)
    \/ Pause \/ Run \/ ShutdownMainProcess \/ StallApplication \/ UnstallApplication

TimerAction ==
    \/ \E t \in Threads : CancelTask(t)
    \/ \E t \in Threads, d \in 1 .. MaxTime : RegisterAbsoluteTask(t, d)
    \/ DisableInterrupt \/ ScheduleEvent \/ ScheduleEventSets
    \/ DoTask \/ DoTaskIgnored
    \/ ThreadLoop /\ UNCHANGED <<taskVars, armVars>>
    \/ /\ \/ AdvanceEnter \/ AdvanceReturns \/ LoopCallback \/ Reschedule
          \/ \E e \in queue : AdvanceRuns(e)
       /\ UNCHANGED <<now, eventSet, pauseVars, hostVars, taskVars, armVars>>
    \/ (HostMoves \/ ScheduleLoopingEvent \/ UnscheduleEvent \/ Tick)
          /\ UNCHANGED <<taskVars, armVars>>
    \/ ClearPendingEvents /\ SchedulerUnlocked /\ UNCHANGED <<taskVars, armVars>>
    \/ UNCHANGED vars

LEMMA TimerCases == TypeOK /\ [Next]_vars => TimerAction
<1> SUFFICES ASSUME TypeOK, [Next]_vars PROVE TimerAction
  OBVIOUS
<1>1. now \in 0 .. MaxTime /\ MaxTime \in Nat
  BY TimeFacts DEF TypeOK, TimingTypeOK
<1>2. ASSUME NEW t \in Threads, NEW d \in now .. MaxTime, RegisterAbsoluteTask(t, d)
      PROVE  TimerAction
  <2>1. d \in 1 .. MaxTime
    BY <1>1, <1>2 DEF RegisterAbsoluteTask
  <2> QED
    BY <1>2, <2>1 DEF TimerAction
<1>3. CASE (TimingThread \/ Hosting \/ Tick) /\ UNCHANGED <<taskVars, armVars>>
  BY <1>3, Zenon DEF TimingThread, Advance, Hosting, HostCalls, Closing, EmulationProgress,
     ServiceProgress, Hosts, HostMoves, TimerAction, taskVars, armVars
<1> QED
  BY <1>2, <1>3, Zenon DEF Next, Arm, TimerAction

-----------------------------------------------------------------------------
(* Where the host threads are in SyncPause agrees with the call they make. *)
SyncAt ==
    /\ sync \in [Hosts -> {"none", "pauseSet", "eventSet", "spin"}]
    /\ spc \in {"idle", "stall", "stalled", "unstall"}
    /\ sync["emulation"] # "none" <=> hpc \in {"pause", "run", "shutdown"}
    /\ sync["service"] # "none" <=> spc \in {"stall", "unstall"}

(* What a step of a host thread leaves alone. *)
HostLeaves ==
    /\ UNCHANGED <<now, queue, tpc, globalTimer, running, outdated, target, pausedSet>>
    /\ eventSet' \in {eventSet, TRUE}
    /\ pauseEnd' \in {pauseEnd, now}
    /\ hpc' # hpc => /\ hpc' \in {"idle", "pause", "run", "shutdown", "close", "clear",
                                  "resetFlag", "resetPauseEvent", "resetEvent", "join", "gone"}
                     /\ hpc = "barrier" => ~ Advancing
                     /\ hpc = "loopSet" => eventSet'
    /\ Cleared' <=> Cleared
    /\ ShuttingDown => ShuttingDown'

(* SyncPause begins, in a call of a thread that is not in it yet. *)
LEMMA SyncPauseBegins ==
    ASSUME SyncAt, NEW h \in Hosts, NEW call, SyncPause(h, call),
           \/ h = "emulation" /\ hpc = "idle" /\ call \in {"pause", "run", "shutdown"}
           \/ h = "service" /\ call \in {"stall", "unstall"}
    PROVE  SyncAt' /\ HostLeaves
<1>1. CASE h = "emulation"
  BY <1>1 DEF SyncAt, HostLeaves, SyncPause, SyncReturn, HostAt, SyncStep, After, Hosts, Cleared,
     ShuttingDown, CoresStopped, threadVars
<1>2. CASE h = "service"
  BY <1>2 DEF SyncAt, HostLeaves, SyncPause, SyncReturn, HostAt, SyncStep, After, Hosts, Cleared,
     ShuttingDown, CoresStopped, threadVars
<1> QED
  BY <1>1, <1>2 DEF Hosts

(* SyncPause goes on. *)
LEMMA SyncPauseGoesOn ==
    ASSUME SyncAt, NEW h \in Hosts, SyncPauseSteps(h) PROVE SyncAt' /\ HostLeaves
<1>1. CASE PauseSetsPauseEvent(h)
  BY <1>1 DEF SyncAt, HostLeaves, PauseSetsPauseEvent, SyncStep, Hosts, Cleared, ShuttingDown,
     CoresStopped, threadVars
<1>2. CASE SyncPauseSetsEvent(h)
  BY <1>2 DEF SyncAt, HostLeaves, SyncPauseSetsEvent, SyncStep, Hosts, Cleared, ShuttingDown,
     CoresStopped, threadVars
<1>3. CASE SyncPauseReturns(h)
  <2>1. CASE h = "emulation"
    BY <1>3, <2>1 DEF SyncAt, HostLeaves, SyncPauseReturns, SyncReturn, HostAt, SyncStep, After,
       Call, Hosts, Cleared, ShuttingDown, CoresStopped, threadVars
  <2>2. CASE h = "service"
    BY <1>3, <2>2 DEF SyncAt, HostLeaves, SyncPauseReturns, SyncReturn, HostAt, SyncStep, After,
       Call, Hosts, Cleared, ShuttingDown, CoresStopped, threadVars
  <2> QED
    BY <2>1, <2>2 DEF Hosts
<1> QED
  BY <1>1, <1>2, <1>3 DEF SyncPauseSteps

(* The other steps of the host threads. *)
LEMMA HostFacts == ASSUME SyncAt, HostMoves PROVE SyncAt' /\ HostLeaves
<1>1. CASE ScheduleLoopingEventSets \/ UnscheduleEventWaits \/ CloseServices \/ Reset
  BY <1>1 DEF ScheduleLoopingEventSets, UnscheduleEventWaits, CloseServices, Reset, ResetPauses,
     ResetShutsDown, ResetSetsPauseEvent, ResetSetsEvent, ResetJoins, SyncAt, HostLeaves, Cleared,
     ShuttingDown, CoresStopped, threadVars, pauseVars
<1>2. CASE \E h \in Hosts : SyncPauseSteps(h)
  BY <1>2, SyncPauseGoesOn
<1>3. CASE Pause \/ Run \/ ShutdownMainProcess
  <2>1. /\ "emulation" \in Hosts /\ hpc = "idle"
        /\ \E call \in {"pause", "run", "shutdown"} : SyncPause("emulation", call)
    BY <1>3 DEF Pause, Run, ShutdownMainProcess, Hosts
  <2> QED
    BY <2>1, SyncPauseBegins
<1>4. CASE StallApplication \/ \E call \in {"unstall"} : SyncPause("service", call)
  <2>1. /\ "service" \in Hosts
        /\ \E call \in {"stall", "unstall"} : SyncPause("service", call)
    BY <1>4 DEF StallApplication, Hosts
  <2> QED
    BY <2>1, SyncPauseBegins
<1>5. CASE UnstallApplication
  <2>1. CASE SyncPause("service", "unstall")
    BY <1>4, <2>1
  <2>2. CASE /\ spc = "stalled" /\ spc' = "idle"
             /\ UNCHANGED <<now, queue, eventSet, threadVars, pauseVars, hpc, sync, isPaused>>
    BY <2>2 DEF SyncAt, HostLeaves, Cleared, ShuttingDown, CoresStopped, threadVars, pauseVars
  <2> QED
    BY <1>5, <2>1, <2>2 DEF UnstallApplication
<1> QED
  BY <1>1, <1>2, <1>3, <1>4, <1>5 DEF HostMoves

(* ThreadLoop outside Advance and the sleep. *)
LEMMA ThreadLoopKeeps ==
    ASSUME TimerInv, ThreadLoop, UNCHANGED <<taskVars, armVars>>
    PROVE  TimerInv'
<1>i. /\ TypeOK /\ ThreadAt /\ LoopOnce /\ NothingLeft /\ OneTimer /\ NextFirst
      /\ ArmedInTime /\ WakeupQueued /\ NoOversleep
  BY DEF TimerInv
<1>f. /\ UNCHANGED <<now, queue, globalTimer, running, outdated, hpc, spc, sync, isPaused,
                     deadline, order, nextTask, wakeup, scheduler, armPc, armTime>>
      /\ tpc \in {"outer", "inner", "start", "asleep", "pausing", "pauseWait"}
      /\ tpc' \in {"done", "inner", "pausing", "start", "advance", "pauseWait", "outer"}
      /\ UNCHANGED <<paused, pauseEnd, shuttingDown>>
      /\ target' \in {target, 0}
  BY DEF ThreadLoop, Outer, Inner, Start, Asleep, Pausing, PauseWait, threadVars, pauseVars,
     hostVars, timingVars, taskVars, armVars
<1>b. eventSet' \in BOOLEAN /\ pauseSet' \in BOOLEAN /\ pausedSet' \in BOOLEAN
  BY <1>i, Zenon
     DEF TypeOK, TimingTypeOK, ThreadLoop, Outer, Inner, Start, Asleep, Pausing, PauseWait, pauseVars
<1>1. TypeOK'
  BY <1>f, <1>i, <1>b, TimeFacts DEF TypeOK, TimingTypeOK
<1>2. ThreadAt'
  BY <1>f, <1>i, TimeFacts, EventFacts DEF ThreadAt, TypeOK, TimingTypeOK
<1>3. LoopOnce'
  BY <1>f, <1>i, TimeFacts, EventFacts DEF LoopOnce, Runs, TypeOK, TimingTypeOK
<1>4. NothingLeft'
  BY <1>f, <1>i, TimeFacts, EventFacts DEF NothingLeft, Cleared, TypeOK, TimingTypeOK
<1>5. OneTimer'
  BY <1>f, <1>i, TimeFacts, EventFacts DEF OneTimer, TypeOK, TimingTypeOK
<1>6. NextFirst'
  BY <1>f, <1>i, TimeFacts, EventFacts DEF NextFirst, IsFirstTask, Tasks, TaskBefore, TypeOK,
     TimingTypeOK
<1>7. ArmedInTime'
  BY <1>f, <1>i, TimeFacts, EventFacts DEF ArmedInTime, Tasks, TypeOK, TimingTypeOK
<1>8. WakeupQueued'
  BY <1>f, <1>i, TimeFacts, EventFacts DEF WakeupQueued, Cleared, TypeOK, TimingTypeOK
<1>9. NoOversleep'
  BY <1>f, <1>i, TimeFacts, EventFacts DEF NoOversleep, TypeOK, TimingTypeOK
<1> QED
  BY <1>1, <1>2, <1>3, <1>4, <1>5, <1>6, <1>7, <1>8, <1>9 DEF TimerInv

(* The flags stay flags. *)
LEMMA HostBooleans ==
    ASSUME TypeOK, HostMoves
    PROVE  /\ eventSet' \in BOOLEAN /\ pauseSet' \in BOOLEAN /\ paused' \in BOOLEAN
           /\ shuttingDown' \in BOOLEAN /\ isPaused' \in BOOLEAN
<1>i. /\ eventSet \in BOOLEAN /\ pauseSet \in BOOLEAN /\ paused \in BOOLEAN
      /\ shuttingDown \in BOOLEAN /\ isPaused \in BOOLEAN
  BY DEF TypeOK, TimingTypeOK
<1>a. \A call : Asking(call) \in BOOLEAN
  BY DEF Asking
<1>1. CASE ScheduleLoopingEventSets \/ UnscheduleEventWaits \/ CloseServices \/ Reset
  BY <1>1, <1>i, Zenon DEF ScheduleLoopingEventSets, UnscheduleEventWaits, CloseServices, Reset,
     ResetPauses, ResetShutsDown, ResetSetsPauseEvent, ResetSetsEvent, ResetJoins, pauseVars
<1>2. ASSUME NEW h, SyncPauseSteps(h)
      PROVE  /\ eventSet' \in BOOLEAN /\ pauseSet' \in BOOLEAN /\ paused' \in BOOLEAN
             /\ shuttingDown' \in BOOLEAN /\ isPaused' \in BOOLEAN
  <2>1. CASE PauseSetsPauseEvent(h)
    BY <2>1, <1>i, Zenon DEF PauseSetsPauseEvent
  <2>2. CASE SyncPauseSetsEvent(h)
    BY <2>2, <1>i, Zenon DEF SyncPauseSetsEvent
  <2>3. CASE SyncPauseReturns(h)
    <3>1. isPaused' = Asking(Call(h)) \/ isPaused' = isPaused
      BY <2>3, Zenon DEF SyncPauseReturns, SyncReturn
    <3>2. isPaused' \in BOOLEAN
      BY <3>1, <1>i, <1>a
    <3> QED
      BY <2>3, <3>2, <1>i, Zenon DEF SyncPauseReturns
  <2> QED
    BY <1>2, <2>1, <2>2, <2>3 DEF SyncPauseSteps
<1>3. ASSUME NEW h, NEW call, SyncPause(h, call)
      PROVE  /\ eventSet' \in BOOLEAN /\ pauseSet' \in BOOLEAN /\ paused' \in BOOLEAN
             /\ shuttingDown' \in BOOLEAN /\ isPaused' \in BOOLEAN
  <2>1. isPaused' = Asking(call) \/ isPaused' = isPaused
    BY <1>3, Zenon DEF SyncPause, SyncReturn
  <2>2. paused' = Asking(call) \/ paused' = paused
    BY <1>3, Zenon DEF SyncPause
  <2>3. isPaused' \in BOOLEAN /\ paused' \in BOOLEAN
    BY <2>1, <2>2, <1>i, <1>a
  <2> QED
    BY <1>3, <2>3, <1>i, Zenon DEF SyncPause
<1>4. CASE UnstallApplication
  BY <1>3, <1>4, <1>i, Zenon DEF UnstallApplication, pauseVars
<1> QED
  BY <1>1, <1>2, <1>3, <1>4, Zenon
     DEF HostMoves, Pause, Run, ShutdownMainProcess, StallApplication

(* The host threads pause, resume, stall and shut down. *)
LEMMA HostKeeps ==
    ASSUME TimerInv, SyncAt, HostMoves, UNCHANGED <<taskVars, armVars>>
    PROVE  TimerInv'
<1>i. /\ TypeOK /\ ThreadAt /\ LoopOnce /\ NothingLeft /\ OneTimer /\ NextFirst
      /\ ArmedInTime /\ WakeupQueued /\ NoOversleep
  BY DEF TimerInv
<1>f. /\ HostLeaves /\ SyncAt'
      /\ UNCHANGED <<deadline, order, nextTask, wakeup, scheduler, armPc, armTime>>
  BY HostFacts DEF taskVars, armVars
<1>b. /\ eventSet' \in BOOLEAN /\ pauseSet' \in BOOLEAN /\ paused' \in BOOLEAN
      /\ shuttingDown' \in BOOLEAN /\ isPaused' \in BOOLEAN
  BY <1>i, HostBooleans DEF TypeOK, TimingTypeOK
<1>1. TypeOK'
  BY <1>f, <1>i, <1>b, TimeFacts DEF TypeOK, TimingTypeOK, HostLeaves, SyncAt
<1>2. ThreadAt'
  BY <1>f, <1>i, TimeFacts, EventFacts DEF ThreadAt, TypeOK, TimingTypeOK, HostLeaves
<1>3. LoopOnce'
  BY <1>f, <1>i DEF LoopOnce, Runs, Advancing, ThreadAt, HostLeaves
<1>4. NothingLeft'
  BY <1>f, <1>i DEF NothingLeft, HostLeaves
<1>5. OneTimer'
  BY <1>f, <1>i DEF OneTimer, HostLeaves
<1>6. NextFirst'
  BY <1>f, <1>i DEF NextFirst, IsFirstTask, Tasks, TaskBefore
<1>7. ArmedInTime'
  BY <1>f, <1>i DEF ArmedInTime, Tasks
<1>8. WakeupQueued'
  BY <1>f, <1>i DEF WakeupQueued, HostLeaves
<1>9. NoOversleep'
  BY <1>f, <1>i DEF NoOversleep, HostLeaves
<1> QED
  BY <1>1, <1>2, <1>3, <1>4, <1>5, <1>6, <1>7, <1>8, <1>9 DEF TimerInv

(* Time passes. *)
LEMMA TickKeeps ==
    ASSUME TimerInv, Tick, UNCHANGED <<taskVars, armVars>>
    PROVE  TimerInv'
<1>i. /\ TypeOK /\ ThreadAt /\ LoopOnce /\ NothingLeft /\ OneTimer /\ NextFirst
      /\ ArmedInTime /\ WakeupQueued /\ NoOversleep
  BY DEF TimerInv
<1>f. /\ UNCHANGED <<queue, eventSet, tpc, globalTimer, running, outdated, target, paused,
                     pausedSet, pauseEnd, shuttingDown, pauseSet, hpc, spc, sync, isPaused,
                     deadline, order, nextTask, wakeup, scheduler, armPc, armTime>>
      /\ now < MaxTime
      /\ now' = now + 1
  BY DEF Tick, threadVars, pauseVars, hostVars, timingVars, taskVars, armVars
<1>1. TypeOK'
  BY <1>f, <1>i, TimeFacts, EventFacts DEF TypeOK, TimingTypeOK
<1>2. ThreadAt'
  BY <1>f, <1>i, TimeFacts, EventFacts DEF ThreadAt, TypeOK, TimingTypeOK
<1>3. LoopOnce'
  BY <1>f, <1>i, TimeFacts, EventFacts DEF LoopOnce, Runs, TypeOK, TimingTypeOK
<1>4. NothingLeft'
  BY <1>f, <1>i, TimeFacts, EventFacts DEF NothingLeft, Cleared, TypeOK, TimingTypeOK
<1>5. OneTimer'
  BY <1>f, <1>i, TimeFacts, EventFacts DEF OneTimer, TypeOK, TimingTypeOK
<1>6. NextFirst'
  BY <1>f, <1>i, TimeFacts, EventFacts DEF NextFirst, IsFirstTask, Tasks, TaskBefore, TypeOK,
     TimingTypeOK
<1>7. ArmedInTime'
  BY <1>f, <1>i, TimeFacts, EventFacts DEF ArmedInTime, Tasks, TypeOK, TimingTypeOK
<1>8. WakeupQueued'
  BY <1>f, <1>i, TimeFacts, EventFacts DEF WakeupQueued, Cleared, TypeOK, TimingTypeOK
<1>9. NoOversleep'
  BY <1>f, <1>i, TimeFacts, EventFacts DEF NoOversleep, TypeOK, TimingTypeOK
<1> QED
  BY <1>1, <1>2, <1>3, <1>4, <1>5, <1>6, <1>7, <1>8, <1>9 DEF TimerInv

(* Advance begins. *)
LEMMA AdvanceEnterKeeps ==
    ASSUME TimerInv, AdvanceEnter, UNCHANGED <<now, eventSet, pauseVars, hostVars, taskVars, armVars>>
    PROVE  TimerInv'
<1>i. /\ TypeOK /\ ThreadAt /\ LoopOnce /\ NothingLeft /\ OneTimer /\ NextFirst
      /\ ArmedInTime /\ WakeupQueued /\ NoOversleep
  BY DEF TimerInv
<1>f. /\ UNCHANGED <<now, queue, eventSet, running, outdated, target, paused, pausedSet,
                     pauseEnd, shuttingDown, pauseSet, hpc, spc, sync, isPaused, deadline, order,
                     nextTask, wakeup, scheduler, armPc, armTime>>
      /\ tpc = "advance"
      /\ tpc' = "loop"
      /\ globalTimer' = now
  BY DEF AdvanceEnter, threadVars, pauseVars, hostVars, timingVars, taskVars, armVars
<1>1. TypeOK'
  BY <1>f, <1>i, TimeFacts, EventFacts DEF TypeOK, TimingTypeOK
<1>2. ThreadAt'
  BY <1>f, <1>i, TimeFacts, EventFacts DEF ThreadAt, TypeOK, TimingTypeOK
<1>3. LoopOnce'
  BY <1>f, <1>i, TimeFacts, EventFacts DEF LoopOnce, Runs, TypeOK, TimingTypeOK
<1>4. NothingLeft'
  BY <1>f, <1>i, TimeFacts, EventFacts DEF NothingLeft, Cleared, TypeOK, TimingTypeOK
<1>5. OneTimer'
  BY <1>f, <1>i, TimeFacts, EventFacts DEF OneTimer, TypeOK, TimingTypeOK
<1>6. NextFirst'
  BY <1>f, <1>i, TimeFacts, EventFacts DEF NextFirst, IsFirstTask, Tasks, TaskBefore, TypeOK,
     TimingTypeOK
<1>7. ArmedInTime'
  BY <1>f, <1>i, TimeFacts, EventFacts DEF ArmedInTime, Tasks, TypeOK, TimingTypeOK
<1>8. WakeupQueued'
  BY <1>f, <1>i, TimeFacts, EventFacts DEF WakeupQueued, Cleared, TypeOK, TimingTypeOK
<1>9. NoOversleep'
  BY <1>f, <1>i, TimeFacts, EventFacts DEF NoOversleep, TypeOK, TimingTypeOK
<1> QED
  BY <1>1, <1>2, <1>3, <1>4, <1>5, <1>6, <1>7, <1>8, <1>9 DEF TimerInv

(* The callback of a looping event returns. *)
LEMMA LoopCallbackKeeps ==
    ASSUME TimerInv, LoopCallback, UNCHANGED <<now, eventSet, pauseVars, hostVars, taskVars, armVars>>
    PROVE  TimerInv'
<1>i. /\ TypeOK /\ ThreadAt /\ LoopOnce /\ NothingLeft /\ OneTimer /\ NextFirst
      /\ ArmedInTime /\ WakeupQueued /\ NoOversleep
  BY DEF TimerInv
<1>f. /\ UNCHANGED <<now, queue, eventSet, globalTimer, running, outdated, target, paused,
                     pausedSet, pauseEnd, shuttingDown, pauseSet, hpc, spc, sync, isPaused,
                     deadline, order, nextTask, wakeup, scheduler, armPc, armTime>>
      /\ tpc = "callback"
      /\ running.type = "loop"
      /\ tpc' = "reschedule"
  BY DEF LoopCallback, threadVars, pauseVars, hostVars, timingVars, taskVars, armVars
<1>1. TypeOK'
  BY <1>f, <1>i, TimeFacts, EventFacts DEF TypeOK, TimingTypeOK
<1>2. ThreadAt'
  BY <1>f, <1>i, TimeFacts, EventFacts DEF ThreadAt, TypeOK, TimingTypeOK
<1>3. LoopOnce'
  BY <1>f, <1>i, TimeFacts, EventFacts DEF LoopOnce, Runs, TypeOK, TimingTypeOK
<1>4. NothingLeft'
  BY <1>f, <1>i, TimeFacts, EventFacts DEF NothingLeft, Cleared, TypeOK, TimingTypeOK
<1>5. OneTimer'
  BY <1>f, <1>i, TimeFacts, EventFacts DEF OneTimer, TypeOK, TimingTypeOK
<1>6. NextFirst'
  BY <1>f, <1>i, TimeFacts, EventFacts DEF NextFirst, IsFirstTask, Tasks, TaskBefore, TypeOK,
     TimingTypeOK
<1>7. ArmedInTime'
  BY <1>f, <1>i, TimeFacts, EventFacts DEF ArmedInTime, Tasks, TypeOK, TimingTypeOK
<1>8. WakeupQueued'
  BY <1>f, <1>i, TimeFacts, EventFacts DEF WakeupQueued, Cleared, TypeOK, TimingTypeOK
<1>9. NoOversleep'
  BY <1>f, <1>i, TimeFacts, EventFacts DEF NoOversleep, TypeOK, TimingTypeOK
<1> QED
  BY <1>1, <1>2, <1>3, <1>4, <1>5, <1>6, <1>7, <1>8, <1>9 DEF TimerInv

(* Advance calls the callback of the earliest event that is due. *)
LEMMA AdvanceRunsKeeps ==
    ASSUME TimerInv, NEW e \in queue, AdvanceRuns(e),
           UNCHANGED <<now, eventSet, pauseVars, hostVars, taskVars, armVars>>
    PROVE  TimerInv'
<1>i. /\ TypeOK /\ ThreadAt /\ LoopOnce /\ NothingLeft /\ OneTimer /\ NextFirst
      /\ ArmedInTime /\ WakeupQueued /\ NoOversleep
  BY DEF TimerInv
<1>f. /\ UNCHANGED <<now, eventSet, globalTimer, target, paused, pausedSet, pauseEnd,
                     shuttingDown, pauseSet, hpc, spc, sync, isPaused, deadline, order, nextTask,
                     wakeup, scheduler, armPc, armTime>>
      /\ tpc = "loop"
      /\ tpc' = "callback"
      /\ running' = e
      /\ outdated' = FALSE
      /\ e.time <= globalTimer
      /\ e.type = "loop" => queue' = queue
      /\ e.type # "loop" => queue' = queue \ {e}
  BY DEF AdvanceRuns, IsTop, threadVars, pauseVars, hostVars, timingVars, taskVars, armVars
<1>e. e \in Events /\ e # NoEvent
  BY <1>i, EventFacts DEF TypeOK, TimingTypeOK
<1>q. /\ queue' \subseteq Events /\ running' \in Events \cup {NoEvent}
      /\ outdated' \in BOOLEAN /\ tpc' = "callback"
  BY <1>f, <1>e, <1>i DEF TypeOK, TimingTypeOK
<1>1. TypeOK'
  BY <1>f, <1>q, <1>i DEF TypeOK, TimingTypeOK
<1>2. ThreadAt'
  BY <1>f, <1>e, <1>i, TimeFacts, EventFacts DEF ThreadAt, TypeOK, TimingTypeOK
<1>3. LoopOnce'
  BY <1>f, <1>e, <1>i, TimeFacts, EventFacts DEF LoopOnce, Runs, TypeOK, TimingTypeOK, ThreadAt
<1>4. NothingLeft'
  BY <1>f, <1>e, <1>i, TimeFacts, EventFacts DEF NothingLeft, Cleared, TypeOK, TimingTypeOK,
     ThreadAt
<1>5. OneTimer'
  BY <1>f, <1>i, TimeFacts, EventFacts DEF OneTimer, TypeOK, TimingTypeOK
<1>6. NextFirst'
  BY <1>f, <1>i, TimeFacts, EventFacts DEF NextFirst, IsFirstTask, Tasks, TaskBefore, TypeOK,
     TimingTypeOK
<1>7. ArmedInTime'
  BY <1>f, <1>i, TimeFacts, EventFacts DEF ArmedInTime, Tasks, TypeOK, TimingTypeOK
<1>8. WakeupQueued'
  BY <1>f, <1>e, <1>i, TimeFacts, EventFacts DEF WakeupQueued, Cleared, TypeOK, TimingTypeOK,
     ThreadAt
<1>9. NoOversleep'
  BY <1>f, <1>i, TimeFacts, EventFacts DEF NoOversleep, TypeOK, TimingTypeOK
<1> QED
  BY <1>1, <1>2, <1>3, <1>4, <1>5, <1>6, <1>7, <1>8, <1>9 DEF TimerInv

(* Nothing is due: the timing thread goes to sleep until the next event. *)
LEMMA AdvanceReturnsKeeps ==
    ASSUME TimerInv, AdvanceReturns, UNCHANGED <<now, eventSet, pauseVars, hostVars, taskVars, armVars>>
    PROVE  TimerInv'
<1>i. /\ TypeOK /\ ThreadAt /\ LoopOnce /\ NothingLeft /\ OneTimer /\ NextFirst
      /\ ArmedInTime /\ WakeupQueued /\ NoOversleep
  BY DEF TimerInv
<1>f. /\ UNCHANGED <<now, queue, eventSet, running, outdated, paused, pausedSet, pauseEnd,
                     shuttingDown, pauseSet, hpc, spc, sync, isPaused, deadline, order, nextTask,
                     wakeup, scheduler, armPc, armTime>>
      /\ tpc = "loop"
      /\ tpc' \in {"inner", "asleep"}
      /\ globalTimer' = 0
  BY DEF AdvanceReturns, threadVars, pauseVars, hostVars, timingVars, taskVars, armVars
<1>t. target' \in Times /\ (tpc' = "asleep" => \A e \in queue : target' <= e.time)
  BY <1>i, TimeFacts, EventFacts DEF AdvanceReturns, IsNextTime, IsTop, TypeOK, TimingTypeOK
<1>1. TypeOK'
  BY <1>f, <1>t, <1>i, TimeFacts DEF TypeOK, TimingTypeOK
<1>2. ThreadAt'
  BY <1>f, <1>i, TimeFacts, EventFacts DEF ThreadAt, TypeOK, TimingTypeOK
<1>3. LoopOnce'
  BY <1>f, <1>i, TimeFacts, EventFacts DEF LoopOnce, Runs, TypeOK, TimingTypeOK
<1>4. NothingLeft'
  BY <1>f, <1>i, TimeFacts, EventFacts DEF NothingLeft, Cleared, TypeOK, TimingTypeOK
<1>5. OneTimer'
  BY <1>f, <1>i, TimeFacts, EventFacts DEF OneTimer, TypeOK, TimingTypeOK
<1>6. NextFirst'
  BY <1>f, <1>i, TimeFacts, EventFacts DEF NextFirst, IsFirstTask, Tasks, TaskBefore, TypeOK,
     TimingTypeOK
<1>7. ArmedInTime'
  BY <1>f, <1>i, TimeFacts, EventFacts DEF ArmedInTime, Tasks, TypeOK, TimingTypeOK
<1>8. WakeupQueued'
  BY <1>f, <1>i, TimeFacts, EventFacts DEF WakeupQueued, Cleared, TypeOK, TimingTypeOK
<1>9. NoOversleep'
  BY <1>f, <1>t DEF NoOversleep
<1> QED
  BY <1>1, <1>2, <1>3, <1>4, <1>5, <1>6, <1>7, <1>8, <1>9 DEF TimerInv

(* ClearPendingEvents empties the queue. *)
LEMMA ClearPendingEventsKeeps ==
    ASSUME TimerInv, ClearPendingEvents, SchedulerUnlocked, UNCHANGED <<taskVars, armVars>>
    PROVE  TimerInv'
<1>i. /\ TypeOK /\ ThreadAt /\ LoopOnce /\ NothingLeft /\ OneTimer /\ NextFirst
      /\ ArmedInTime /\ WakeupQueued /\ NoOversleep
  BY DEF TimerInv
<1>f. /\ UNCHANGED <<now, tpc, globalTimer, running, outdated, target, paused, pausedSet,
                     pauseEnd, shuttingDown, pauseSet, spc, sync, isPaused, deadline, order, nextTask,
                     wakeup, scheduler, armPc, armTime>>
      /\ hpc = "clear" /\ ~ Advancing
      /\ queue' = {}
      /\ eventSet' = TRUE
      /\ hpc' = "reset"
      /\ scheduler = NoThread
  BY DEF ClearPendingEvents, SchedulerUnlocked, threadVars, pauseVars, hostVars, timingVars,
     taskVars, armVars
<1>1. TypeOK'
  BY <1>f, <1>i, TimeFacts, EventFacts DEF TypeOK, TimingTypeOK
<1>2. ThreadAt'
  BY <1>f, <1>i, TimeFacts, EventFacts DEF ThreadAt, TypeOK, TimingTypeOK
<1>3. LoopOnce'
  BY <1>f, <1>i DEF LoopOnce, Runs, Advancing, ThreadAt
<1>4. NothingLeft'
  BY <1>f, <1>i DEF NothingLeft, Advancing, ThreadAt
<1>5. OneTimer'
  BY <1>f, <1>i, TimeFacts, EventFacts DEF OneTimer, TypeOK, TimingTypeOK
<1>6. NextFirst'
  BY <1>f, <1>i, TimeFacts, EventFacts DEF NextFirst, IsFirstTask, Tasks, TaskBefore, TypeOK,
     TimingTypeOK
<1>7. ArmedInTime'
  BY <1>f, <1>i, TimeFacts, EventFacts DEF ArmedInTime, Tasks, TypeOK, TimingTypeOK
<1>8. WakeupQueued'
  BY <1>f, <1>i, TimeFacts, EventFacts DEF WakeupQueued, Cleared, TypeOK, TimingTypeOK
<1>9. NoOversleep'
  BY <1>f, <1>i, TimeFacts, EventFacts DEF NoOversleep, TypeOK, TimingTypeOK
<1> QED
  BY <1>1, <1>2, <1>3, <1>4, <1>5, <1>6, <1>7, <1>8, <1>9 DEF TimerInv

(* ScheduleLoopingEvent, while no looping event is queued. *)
LEMMA ScheduleLoopingEventKeeps ==
    ASSUME TimerInv, ScheduleLoopingEvent, UNCHANGED <<taskVars, armVars>>
    PROVE  TimerInv'
<1>i. /\ TypeOK /\ ThreadAt /\ LoopOnce /\ NothingLeft /\ OneTimer /\ NextFirst
      /\ ArmedInTime /\ WakeupQueued /\ NoOversleep
  BY DEF TimerInv
<1>f. /\ UNCHANGED <<now, eventSet, tpc, globalTimer, running, outdated, target, paused,
                     pausedSet, pauseEnd, shuttingDown, pauseSet, spc, sync, isPaused, deadline, order,
                     nextTask, wakeup, scheduler, armPc, armTime>>
      /\ hpc = "idle" /\ ~ BasicLocked
      /\ \A e \in queue : e.type # "loop"
      /\ queue' = queue \cup {LoopEvent(now + Period)}
      /\ hpc' \in {"idle", "loopSet"}
      /\ hpc' = "idle" => ~ IsEarliest(now + Period)
  BY DEF ScheduleLoopingEvent, Without, Insert, threadVars, pauseVars, hostVars, timingVars,
     taskVars, armVars
<1>e. /\ now + Period \in Times /\ LoopEvent(now + Period) \in Events
      /\ LoopEvent(now + Period).type = "loop" /\ LoopEvent(now + Period).time = now + Period
  BY <1>i, TimeFacts, EventFacts DEF TypeOK, TimingTypeOK
<1>1. TypeOK'
  BY <1>f, <1>e, <1>i DEF TypeOK, TimingTypeOK
<1>2. ThreadAt'
  BY <1>f, <1>i, TimeFacts, EventFacts DEF ThreadAt, TypeOK, TimingTypeOK
<1>3. LoopOnce'
  BY <1>f, <1>e, <1>i DEF LoopOnce, Runs
<1>4. NothingLeft'
  BY <1>f, <1>i DEF NothingLeft, Cleared
<1>5. OneTimer'
  BY <1>f, <1>e, <1>i DEF OneTimer
<1>6. NextFirst'
  BY <1>f, <1>i, TimeFacts, EventFacts DEF NextFirst, IsFirstTask, Tasks, TaskBefore, TypeOK,
     TimingTypeOK
<1>7. ArmedInTime'
  BY <1>f, <1>i, TimeFacts, EventFacts DEF ArmedInTime, Tasks, TypeOK, TimingTypeOK
<1>8. WakeupQueued'
  BY <1>f, <1>i, TimeFacts, EventFacts DEF WakeupQueued, Cleared, TypeOK, TimingTypeOK
<1>9. NoOversleep'
  BY <1>f, <1>e, <1>i, TimeFacts, EventFacts DEF NoOversleep, IsEarliest, TypeOK, TimingTypeOK
<1> QED
  BY <1>1, <1>2, <1>3, <1>4, <1>5, <1>6, <1>7, <1>8, <1>9 DEF TimerInv

(* UnscheduleEvent, up to its wait for advance_lock. *)
LEMMA UnscheduleEventKeeps ==
    ASSUME TimerInv, UnscheduleEvent, UNCHANGED <<taskVars, armVars>>
    PROVE  TimerInv'
<1>i. /\ TypeOK /\ ThreadAt /\ LoopOnce /\ NothingLeft /\ OneTimer /\ NextFirst
      /\ ArmedInTime /\ WakeupQueued /\ NoOversleep
  BY DEF TimerInv
<1>f. /\ UNCHANGED <<now, eventSet, tpc, globalTimer, running, target, paused, pausedSet,
                     pauseEnd, shuttingDown, pauseSet, spc, sync, isPaused, deadline, order, nextTask,
                     wakeup, scheduler, armPc, armTime>>
      /\ hpc = "idle" /\ hpc' = "barrier"
      /\ queue' = {e \in queue : e.type # "loop"}
      /\ outdated' = (outdated \/ Runs("loop"))
  BY DEF UnscheduleEvent, RemoveType, Without, Runs, threadVars, pauseVars, hostVars, timingVars,
     taskVars, armVars
<1>b. outdated' \in BOOLEAN /\ (Runs("loop") => outdated')
  BY <1>f, Zenon
<1>1. TypeOK'
  BY <1>f, <1>b, <1>i DEF TypeOK, TimingTypeOK
<1>2. ThreadAt'
  BY <1>f, <1>i, TimeFacts, EventFacts DEF ThreadAt, TypeOK, TimingTypeOK
<1>3. LoopOnce'
  BY <1>f, <1>b, <1>i DEF LoopOnce, Runs
<1>4. NothingLeft'
  BY <1>f, <1>i, TimeFacts, EventFacts DEF NothingLeft, Cleared, TypeOK, TimingTypeOK
<1>5. OneTimer'
  BY <1>f, <1>i, TimeFacts, EventFacts DEF OneTimer, TypeOK, TimingTypeOK
<1>6. NextFirst'
  BY <1>f, <1>i, TimeFacts, EventFacts DEF NextFirst, IsFirstTask, Tasks, TaskBefore, TypeOK,
     TimingTypeOK
<1>7. ArmedInTime'
  BY <1>f, <1>i, TimeFacts, EventFacts DEF ArmedInTime, Tasks, TypeOK, TimingTypeOK
<1>8. WakeupQueued'
  BY <1>f, <1>i, TimeFacts, EventFacts DEF WakeupQueued, Cleared, TypeOK
<1>9. NoOversleep'
  BY <1>f, <1>i, TimeFacts, EventFacts DEF NoOversleep, TypeOK, TimingTypeOK
<1> QED
  BY <1>1, <1>2, <1>3, <1>4, <1>5, <1>6, <1>7, <1>8, <1>9 DEF TimerInv

(* A looping event is put off, unless it was unscheduled meanwhile. *)
LEMMA RescheduleKeeps ==
    ASSUME TimerInv, Reschedule, UNCHANGED <<now, eventSet, pauseVars, hostVars, taskVars, armVars>>
    PROVE  TimerInv'
<1>i. /\ TypeOK /\ ThreadAt /\ LoopOnce /\ NothingLeft /\ OneTimer /\ NextFirst
      /\ ArmedInTime /\ WakeupQueued /\ NoOversleep
  BY DEF TimerInv
<1>f. /\ UNCHANGED <<now, eventSet, target, paused, pausedSet, pauseEnd, shuttingDown,
                     pauseSet, hpc, spc, sync, isPaused, deadline, order, nextTask, wakeup, scheduler,
                     armPc, armTime>>
      /\ tpc = "reschedule"
      /\ tpc' = "loop"
      /\ running' = NoEvent
      /\ outdated' = FALSE
      /\ globalTimer' \in {globalTimer, now}
  BY DEF Reschedule, CallbackReturns, threadVars, pauseVars, hostVars, timingVars, taskVars,
     armVars
<1>r. running \in Events /\ running.type = "loop" /\ running.time \in 0 .. MaxTime
  BY <1>f, <1>i, TimeFacts, EventFacts DEF ThreadAt, TypeOK, TimingTypeOK, Times
<1>q. \/ queue' = queue
      \/ \E d \in Times : /\ queue' = (queue \ {running}) \cup {LoopEvent(d)}
                          /\ ~ outdated
  BY <1>r, <1>i, TimeFacts DEF Reschedule, CallbackReturns, TypeOK, TimingTypeOK
<1>o. ~ outdated => running \in queue
  BY <1>f, <1>r, <1>i DEF LoopOnce, Runs, ThreadAt
<1>l. \/ queue' = queue
      \/ /\ \A e \in queue' : e \in Events
         /\ \A e, f \in queue' : e.type = "loop" /\ f.type = "loop" => e = f
         /\ \A e \in Events : e.type = "timer" => (e \in queue <=> e \in queue')
  BY <1>q, <1>r, <1>o, <1>i, EventFacts DEF LoopOnce, TypeOK, TimingTypeOK
<1>t. /\ queue' \subseteq Events /\ running' \in Events \cup {NoEvent}
      /\ globalTimer' \in 0 .. MaxTime /\ outdated' \in BOOLEAN
  BY <1>f, <1>l, <1>i DEF TypeOK, TimingTypeOK
<1>1. TypeOK'
  BY <1>f, <1>i, <1>t DEF TypeOK, TimingTypeOK
<1>2. ThreadAt'
  BY <1>f, <1>i, TimeFacts, EventFacts DEF ThreadAt, TypeOK, TimingTypeOK
<1>3. LoopOnce'
  BY <1>f, <1>i, <1>l, TimeFacts, EventFacts DEF LoopOnce, Runs, TypeOK, TimingTypeOK
<1>4. NothingLeft'
  BY <1>f, <1>i, TimeFacts, EventFacts DEF NothingLeft, Cleared, TypeOK, TimingTypeOK, ThreadAt
<1>5. OneTimer'
  BY <1>f, <1>i, <1>l, TimeFacts, EventFacts DEF OneTimer, TypeOK, TimingTypeOK
<1>6. NextFirst'
  BY <1>f, <1>i, TimeFacts, EventFacts DEF NextFirst, IsFirstTask, Tasks, TaskBefore, TypeOK,
     TimingTypeOK
<1>7. ArmedInTime'
  BY <1>f, <1>i, TimeFacts, EventFacts DEF ArmedInTime, Tasks, TypeOK, TimingTypeOK
<1>8. WakeupQueued'
  BY <1>f, <1>i, <1>l, <1>r, TimeFacts, EventFacts DEF WakeupQueued, Cleared, TypeOK, TimingTypeOK
<1>9. NoOversleep'
  BY <1>f, <1>i, TimeFacts, EventFacts DEF NoOversleep, TypeOK, TimingTypeOK
<1> QED
  BY <1>1, <1>2, <1>3, <1>4, <1>5, <1>6, <1>7, <1>8, <1>9 DEF TimerInv

(* EnableInterrupt takes the timer event back, without waiting. *)
LEMMA DisableInterruptKeeps ==
    ASSUME TimerInv, DisableInterrupt
    PROVE  TimerInv'
<1>i. /\ TypeOK /\ ThreadAt /\ LoopOnce /\ NothingLeft /\ OneTimer /\ NextFirst
      /\ ArmedInTime /\ WakeupQueued /\ NoOversleep
  BY DEF TimerInv
<1>f. /\ UNCHANGED <<now, eventSet, tpc, globalTimer, running, target, paused, pausedSet,
                     pauseEnd, shuttingDown, pauseSet, hpc, spc, sync, isPaused, deadline, order,
                     nextTask, scheduler, armTime>>
      /\ armPc = "unschedule"
      /\ armPc' = "schedule"
      /\ wakeup' = Forever
      /\ queue' = {e \in queue : e.type # "timer"}
      /\ outdated' = (outdated \/ Runs("timer"))
  BY DEF DisableInterrupt, RemoveType, Without, Runs, threadVars, pauseVars, hostVars, timingVars,
     taskVars, armVars
<1>b. outdated' \in BOOLEAN /\ (Runs("loop") /\ outdated' => outdated) /\ (outdated => outdated')
  <2>1. Runs("timer") => ~ Runs("loop")
    BY DEF Runs
  <2> QED
    BY <1>f, <2>1, Zenon
<1>r. Runs("loop") => (running \in queue' <=> running \in queue)
  BY <1>f DEF Runs
<1>1. TypeOK'
  BY <1>f, <1>i, <1>b, TimeFacts, EventFacts DEF TypeOK, TimingTypeOK
<1>2. ThreadAt'
  BY <1>f, <1>i, TimeFacts, EventFacts DEF ThreadAt, TypeOK, TimingTypeOK
<1>3. LoopOnce'
  BY <1>f, <1>i, <1>b, <1>r DEF LoopOnce, Runs
<1>4. NothingLeft'
  BY <1>f, <1>i, TimeFacts, EventFacts DEF NothingLeft, Cleared, TypeOK, TimingTypeOK
<1>5. OneTimer'
  BY <1>f, <1>i, TimeFacts, EventFacts DEF OneTimer, TypeOK, TimingTypeOK
<1>6. NextFirst'
  BY <1>f, <1>i, TimeFacts, EventFacts DEF NextFirst, IsFirstTask, Tasks, TaskBefore, TypeOK,
     TimingTypeOK
<1>7. ArmedInTime'
  BY <1>f, <1>i, TimeFacts, EventFacts DEF ArmedInTime, Tasks, TypeOK, TimingTypeOK
<1>8. WakeupQueued'
  BY <1>f, <1>i, TimeFacts, EventFacts DEF WakeupQueued, Cleared, TypeOK, TimingTypeOK
<1>9. NoOversleep'
  BY <1>f, <1>i, TimeFacts, EventFacts DEF NoOversleep, TypeOK, TimingTypeOK
<1> QED
  BY <1>1, <1>2, <1>3, <1>4, <1>5, <1>6, <1>7, <1>8, <1>9 DEF TimerInv

(* EnableInterrupt schedules the timer event. *)
LEMMA ScheduleEventKeeps ==
    ASSUME TimerInv, ScheduleEvent
    PROVE  TimerInv'
<1>i. /\ TypeOK /\ ThreadAt /\ LoopOnce /\ NothingLeft /\ OneTimer /\ NextFirst
      /\ ArmedInTime /\ WakeupQueued /\ NoOversleep
  BY DEF TimerInv
<1>f. /\ UNCHANGED <<now, eventSet, paused, pausedSet, pauseEnd, shuttingDown, pauseSet,
                     hpc, spc, sync, isPaused, deadline, order, nextTask>>
      /\ armPc = "schedule" /\ ~ BasicLocked
      /\ wakeup' = armTime
      /\ queue' = queue \cup {TimerEvent(armTime)}
      /\ IsEarliest(armTime) => armPc' = "set" /\ UNCHANGED <<scheduler, armTime>>
      /\ ~ IsEarliest(armTime) => armPc' = "none" /\ scheduler' = NoThread /\ armTime' = 0
      /\ (IsEarliest(armTime) \/ scheduler # Timing)
            => UNCHANGED <<tpc, globalTimer, running, outdated>>
      /\ (~ IsEarliest(armTime) /\ scheduler = Timing)
            => tpc' = "loop" /\ globalTimer' = now /\ running' = NoEvent /\ outdated' = FALSE
      /\ target' = target
  BY DEF ScheduleEvent, Insert, Armed, ArmFurther, CallbackReturns, threadVars, pauseVars,
     hostVars, timingVars, taskVars, armVars
<1>e. /\ armTime \in Times /\ armTime \in 1 .. Forever /\ TimerEvent(armTime) \in Events
      /\ TimerEvent(armTime).type = "timer" /\ TimerEvent(armTime).time = armTime
  BY <1>f, <1>i, TimeFacts, EventFacts DEF ArmedInTime, TypeOK
<1>c. ~ Cleared
  BY <1>f, <1>i DEF NothingLeft
<1>b. outdated' \in BOOLEAN
  BY <1>f, <1>i DEF TypeOK, TimingTypeOK
<1>1. TypeOK'
  BY <1>f, <1>i, <1>e, <1>b, TimeFacts DEF TypeOK, TimingTypeOK
<1>2. ThreadAt'
  BY <1>f, <1>i, ThreadAssumption, TimeFacts, EventFacts DEF ThreadAt, TypeOK, TimingTypeOK
<1>3. LoopOnce'
  BY <1>f, <1>i, <1>e DEF LoopOnce, Runs
<1>4. NothingLeft'
  BY <1>f, <1>c DEF NothingLeft, Cleared
<1>5. OneTimer'
  BY <1>f, <1>i, <1>e DEF OneTimer
<1>6. NextFirst'
  BY <1>f, <1>i, TimeFacts, EventFacts DEF NextFirst, IsFirstTask, Tasks, TaskBefore, TypeOK,
     TimingTypeOK
<1>7. ArmedInTime'
  BY <1>f, <1>i DEF ArmedInTime, Tasks
<1>8. WakeupQueued'
  BY <1>f DEF WakeupQueued
<1>9. NoOversleep'
  <2> SUFFICES ASSUME tpc' = "asleep", ~ eventSet', armPc' # "set", hpc' # "loopSet"
               PROVE  \A e \in queue' : target' <= e.time
    BY DEF NoOversleep
  <2>1. ~ IsEarliest(armTime) /\ tpc = "asleep" /\ armPc # "set" /\ ~ eventSet /\ hpc # "loopSet"
    BY <1>f
  <2>2. \A e \in queue : target <= e.time
    BY <2>1, <1>i DEF NoOversleep
  <2>3. PICK e \in queue : ~ (armTime < e.time)
    BY <2>1 DEF IsEarliest
  <2>n. target \in Nat /\ armTime \in Nat /\ e.time \in Nat
    <3>1. e \in Events /\ target \in Times
      BY <1>i DEF TypeOK, TimingTypeOK
    <3> QED
      BY <3>1, <1>e, TimeFacts, EventFacts
  <2>4. target <= armTime
    BY <2>2, <2>3, <2>n
  <2> QED
    BY <2>2, <2>4, <1>f, <1>e
<1> QED
  BY <1>1, <1>2, <1>3, <1>4, <1>5, <1>6, <1>7, <1>8, <1>9 DEF TimerInv

(* It wakes the timing thread. *)
LEMMA ScheduleEventSetsKeeps ==
    ASSUME TimerInv, ScheduleEventSets
    PROVE  TimerInv'
<1>i. /\ TypeOK /\ ThreadAt /\ LoopOnce /\ NothingLeft /\ OneTimer /\ NextFirst
      /\ ArmedInTime /\ WakeupQueued /\ NoOversleep
  BY DEF TimerInv
<1>f. /\ UNCHANGED <<now, queue, paused, pausedSet, pauseEnd, shuttingDown, pauseSet, hpc,
                     spc, sync, isPaused, deadline, order, nextTask, wakeup>>
      /\ armPc = "set"
      /\ eventSet' = TRUE
      /\ armPc' = "none" /\ scheduler' = NoThread /\ armTime' = 0
      /\ scheduler # Timing => UNCHANGED <<tpc, globalTimer, running, outdated>>
      /\ scheduler = Timing
            => tpc' = "loop" /\ globalTimer' = now /\ running' = NoEvent /\ outdated' = FALSE
      /\ target' = target
  BY DEF ScheduleEventSets, Armed, CallbackReturns, threadVars, pauseVars, hostVars, timingVars,
     taskVars, armVars
<1>b. outdated' \in BOOLEAN
  BY <1>f, <1>i DEF TypeOK, TimingTypeOK
<1>1. TypeOK'
  BY <1>f, <1>i, <1>b, TimeFacts, EventFacts DEF TypeOK, TimingTypeOK
<1>2. ThreadAt'
  BY <1>f, <1>i, ThreadAssumption, TimeFacts, EventFacts DEF ThreadAt, TypeOK, TimingTypeOK
<1>3. LoopOnce'
  BY <1>f, <1>i, TimeFacts, EventFacts DEF LoopOnce, Runs, TypeOK, TimingTypeOK
<1>4. NothingLeft'
  BY <1>f, <1>i, TimeFacts, EventFacts DEF NothingLeft, Cleared, TypeOK, TimingTypeOK
<1>5. OneTimer'
  BY <1>f, <1>i, TimeFacts, EventFacts DEF OneTimer, TypeOK, TimingTypeOK
<1>6. NextFirst'
  BY <1>f, <1>i, TimeFacts, EventFacts DEF NextFirst, IsFirstTask, Tasks, TaskBefore, TypeOK,
     TimingTypeOK
<1>7. ArmedInTime'
  BY <1>f, <1>i, TimeFacts, EventFacts DEF ArmedInTime, Tasks, TypeOK, TimingTypeOK
<1>8. WakeupQueued'
  BY <1>f, <1>i, TimeFacts, EventFacts DEF WakeupQueued, Cleared, TypeOK, TimingTypeOK, ThreadAt
<1>9. NoOversleep'
  BY <1>f, <1>i, TimeFacts, EventFacts DEF NoOversleep, TypeOK, TimingTypeOK
<1> QED
  BY <1>1, <1>2, <1>3, <1>4, <1>5, <1>6, <1>7, <1>8, <1>9 DEF TimerInv

(* An interrupt that was taken back is ignored. *)
LEMMA DoTaskIgnoredKeeps ==
    ASSUME TimerInv, DoTaskIgnored
    PROVE  TimerInv'
<1>i. /\ TypeOK /\ ThreadAt /\ LoopOnce /\ NothingLeft /\ OneTimer /\ NextFirst
      /\ ArmedInTime /\ WakeupQueued /\ NoOversleep
  BY DEF TimerInv
<1>f. /\ UNCHANGED <<now, queue, eventSet, target, paused, pausedSet, pauseEnd,
                     shuttingDown, pauseSet, hpc, spc, sync, isPaused, deadline, order, nextTask,
                     wakeup, scheduler, armPc, armTime>>
      /\ tpc = "callback" /\ running.type = "timer"
      /\ scheduler = NoThread /\ wakeup = Forever
      /\ tpc' = "loop"
      /\ globalTimer' = now
      /\ running' = NoEvent
      /\ outdated' = FALSE
  BY DEF DoTaskIgnored, SchedulerUnlocked, CallbackReturns, threadVars, pauseVars, hostVars,
     timingVars, taskVars, armVars
<1>t. /\ running' \in Events \cup {NoEvent}
      /\ globalTimer' \in 0 .. MaxTime /\ outdated' \in BOOLEAN
  BY <1>f, <1>i DEF TypeOK, TimingTypeOK
<1>1. TypeOK'
  BY <1>f, <1>i, <1>t DEF TypeOK, TimingTypeOK
<1>2. ThreadAt'
  BY <1>f, <1>i, ThreadAssumption, TimeFacts, EventFacts DEF ThreadAt, TypeOK, TimingTypeOK
<1>3. LoopOnce'
  BY <1>f, <1>i, TimeFacts, EventFacts DEF LoopOnce, Runs, TypeOK, TimingTypeOK
<1>4. NothingLeft'
  BY <1>f, <1>i, TimeFacts, EventFacts DEF NothingLeft, Cleared, TypeOK, TimingTypeOK
<1>5. OneTimer'
  BY <1>f, <1>i, TimeFacts, EventFacts DEF OneTimer, TypeOK, TimingTypeOK
<1>6. NextFirst'
  BY <1>f, <1>i, TimeFacts, EventFacts DEF NextFirst, IsFirstTask, Tasks, TaskBefore, TypeOK,
     TimingTypeOK
<1>7. ArmedInTime'
  BY <1>f, <1>i, TimeFacts, EventFacts DEF ArmedInTime, Tasks, TypeOK, TimingTypeOK
<1>8. WakeupQueued'
  BY <1>f, <1>i, TimeFacts, EventFacts DEF WakeupQueued, Cleared, TypeOK, TimingTypeOK
<1>9. NoOversleep'
  BY <1>f, <1>i, TimeFacts, EventFacts DEF NoOversleep, TypeOK, TimingTypeOK
<1> QED
  BY <1>1, <1>2, <1>3, <1>4, <1>5, <1>6, <1>7, <1>8, <1>9 DEF TimerInv

(* A wait ends before its timeout. *)
LEMMA CancelTaskKeeps ==
    ASSUME TimerInv, NEW t \in Threads, CancelTask(t)
    PROVE  TimerInv'
<1>i. /\ TypeOK /\ ThreadAt /\ LoopOnce /\ NothingLeft /\ OneTimer /\ NextFirst
      /\ ArmedInTime /\ WakeupQueued /\ NoOversleep
  BY DEF TimerInv
<1>f. /\ UNCHANGED <<now, queue, eventSet, tpc, globalTimer, running, outdated, target,
                     paused, pausedSet, pauseEnd, shuttingDown, pauseSet, hpc, spc, sync, isPaused,
                     wakeup, scheduler, armPc, armTime>>
      /\ ~ CoresStopped
      /\ scheduler = NoThread /\ deadline[t] > 0
      /\ order' = Erased({t})
      /\ deadline' = [deadline EXCEPT ![t] = 0]
      /\ nextTask = t => IsFirstTask(nextTask', TasksAfter(t))
      /\ nextTask # t => nextTask' = nextTask
      /\ nextTask' \in Threads \cup {NoThread}
  BY DEF CancelTask, SchedulerUnlocked, RemoveTaskFromTree, threadVars, pauseVars, hostVars,
     timingVars, taskVars, armVars
<1>c. /\ Tasks # {} => nextTask \in Tasks
      /\ Tasks = {} => nextTask = NoThread
      /\ \A u \in Tasks : u # nextTask => TaskBefore(nextTask, u)
      /\ \A u \in Tasks : deadline[nextTask] <= deadline[u]
  BY <1>i, FirstTask
<1>d. /\ deadline' \in [Threads -> 0 .. MaxTime] /\ deadline'[t] = 0
      /\ \A u \in Threads \ {t} : deadline'[u] = deadline[u]
  BY <1>f, <1>i, TimeFacts DEF TypeOK
<1>t. Tasks' = Tasks \ {t}
  BY <1>d DEF Tasks
<1>o. order' \subseteq order /\ \A u, v \in Threads \ {t} : <<u, v>> \in order => <<u, v>> \in order'
  BY <1>f DEF Erased
<1>b. \A u, v \in Tasks \ {t} : TaskBefore(u, v) => TaskBefore(u, v)'
  BY <1>d, <1>o DEF TaskBefore, Tasks
<1>1. TypeOK'
  <2>1. order' \subseteq Threads \X Threads
    BY <1>o, <1>i DEF TypeOK
  <2>2. TimingTypeOK'
    BY <1>f, <1>i DEF TypeOK, TimingTypeOK
  <2> QED
    BY <2>1, <2>2, <1>f, <1>d, <1>i DEF TypeOK
<1>2. ThreadAt'
  BY <1>f, <1>i, TimeFacts, EventFacts DEF ThreadAt, TypeOK, TimingTypeOK
<1>3. LoopOnce'
  BY <1>f, <1>i, TimeFacts, EventFacts DEF LoopOnce, Runs, TypeOK, TimingTypeOK
<1>4. NothingLeft'
  BY <1>f, <1>i, TimeFacts, EventFacts DEF NothingLeft, Cleared, TypeOK, TimingTypeOK
<1>5. OneTimer'
  BY <1>f, <1>i, TimeFacts, EventFacts DEF OneTimer, TypeOK, TimingTypeOK
<1>6. NextFirst'
  <2>1. IsFirstTask(nextTask', Tasks \ {t})
    <3>1. CASE nextTask = t
      <4>1. TasksAfter(t) = Tasks \ {t}
        BY <3>1, <1>c, <1>i, TimeFacts DEF TasksAfter, TaskBefore, Tasks, TypeOK, NextFirst
      <4> QED
        BY <3>1, <4>1, <1>f
    <3>2. CASE nextTask # t
      BY <3>2, <1>c, <1>f DEF IsFirstTask, Tasks
    <3> QED
      BY <3>1, <3>2
  <2> QED
    BY <2>1, <1>t, <1>b, <1>o, <1>i DEF NextFirst, IsFirstTask
<1>7. ArmedInTime'
  BY <1>f, <1>d, <1>t, <1>i DEF ArmedInTime, Tasks
<1>8. WakeupQueued'
  BY <1>f, <1>i, TimeFacts, EventFacts DEF WakeupQueued, Cleared, TypeOK, TimingTypeOK
<1>9. NoOversleep'
  BY <1>f, <1>i, TimeFacts, EventFacts DEF NoOversleep, TypeOK, TimingTypeOK
<1> QED
  BY <1>1, <1>2, <1>3, <1>4, <1>5, <1>6, <1>7, <1>8, <1>9 DEF TimerInv

(* A timed wait begins. *)
LEMMA RegisterAbsoluteTaskKeeps ==
    ASSUME TimerInv, NEW t \in Threads, NEW d \in 1 .. MaxTime, RegisterAbsoluteTask(t, d)
    PROVE  TimerInv'
<1>i. /\ TypeOK /\ ThreadAt /\ LoopOnce /\ NothingLeft /\ OneTimer /\ NextFirst
      /\ ArmedInTime /\ WakeupQueued /\ NoOversleep
  BY DEF TimerInv
<1>f. /\ UNCHANGED <<now, queue, eventSet, tpc, globalTimer, running, outdated, target,
                     paused, pausedSet, pauseEnd, shuttingDown, pauseSet, hpc, spc, sync, isPaused,
                     wakeup>>
      /\ ~ CoresStopped
      /\ scheduler = NoThread /\ deadline[t] = 0
      /\ order' = Inserted(t)
      /\ deadline' = [deadline EXCEPT ![t] = d]
      /\ (nextTask = NoThread \/ d < deadline[nextTask]) => nextTask' = t
      /\ ~ (nextTask = NoThread \/ d < deadline[nextTask]) 
            => nextTask' = nextTask /\ UNCHANGED <<scheduler, armPc, armTime>>
      /\ (nextTask = NoThread \/ d < deadline[nextTask]) /\ d <= wakeup
            => scheduler' = t /\ armPc' = "unschedule" /\ armTime' = d
      /\ ~ (d <= wakeup) => UNCHANGED <<scheduler, armPc, armTime>>
  BY DEF RegisterAbsoluteTask, Suspended, SchedulerUnlocked, EnableInterrupt, threadVars, pauseVars,
     hostVars, timingVars, taskVars, armVars
<1>c. /\ Tasks # {} => nextTask \in Tasks
      /\ Tasks = {} => nextTask = NoThread
      /\ \A u \in Tasks : u # nextTask => TaskBefore(nextTask, u)
      /\ \A u \in Tasks : deadline[nextTask] <= deadline[u]
  BY <1>i, FirstTask
<1>d. /\ deadline' \in [Threads -> 0 .. MaxTime] /\ deadline'[t] = d
      /\ \A u \in Threads \ {t} : deadline'[u] = deadline[u]
  BY <1>f, <1>i, TimeFacts DEF TypeOK
<1>t. Tasks' = Tasks \cup {t} /\ t \notin Tasks /\ \A u \in Tasks : u \in Threads \ {t}
  BY <1>d, <1>f, TimeFacts DEF Tasks
<1>o. /\ order' \subseteq Threads \X Threads
      /\ \A u, v \in Threads : <<u, v>> \in order => <<u, v>> \in order'
      /\ \A u \in Tasks : <<u, t>> \in order'
      /\ \A u \in Threads : <<u, u>> \notin order'
  BY <1>f, <1>t, <1>i DEF Inserted, NextFirst, TypeOK
<1>n. /\ d \in Nat /\ wakeup \in Nat
      /\ \A u \in Tasks : deadline[u] \in Nat
  BY <1>i, TimeFacts DEF TypeOK, Tasks
<1>z. \/ /\ nextTask' = t /\ (\A u \in Tasks : d < deadline[u])
         /\ d <= wakeup /\ scheduler' = t /\ armPc' = "unschedule" /\ armTime' = d
      \/ /\ nextTask' = t /\ (\A u \in Tasks : d < deadline[u])
         /\ wakeup < d /\ UNCHANGED <<scheduler, armPc, armTime>>
      \/ /\ nextTask' = nextTask /\ nextTask \in Tasks /\ deadline[nextTask] <= d
         /\ UNCHANGED <<scheduler, armPc, armTime>>
  <2>1. CASE nextTask = NoThread
    <3>1. Tasks = {}
      BY <2>1, <1>c, ThreadAssumption DEF Tasks
    <3> QED
      BY <2>1, <3>1, <1>f, <1>n
  <2>2. CASE nextTask # NoThread
    <3>1. nextTask \in Tasks
      BY <2>2, <1>c
    <3> QED
      BY <2>2, <3>1, <1>c, <1>f, <1>n
  <2> QED
    BY <2>1, <2>2
<1>1. TypeOK'
  <2>1. /\ nextTask' \in Threads \cup {NoThread} /\ scheduler' \in Threads \cup {NoThread, Timing}
        /\ armPc' \in {"none", "unschedule", "schedule", "set"} /\ armTime' \in 0 .. MaxTime
    BY <1>z, <1>i, TimeFacts DEF TypeOK
  <2> QED
    BY <2>1, <1>f, <1>d, <1>o, <1>i DEF TypeOK, TimingTypeOK
<1>2. ThreadAt'
  BY <1>f, <1>z, <1>i, ThreadAssumption DEF ThreadAt
<1>3. LoopOnce'
  BY <1>f, <1>i, TimeFacts, EventFacts DEF LoopOnce, Runs, TypeOK, TimingTypeOK
<1>4. NothingLeft'
  BY <1>f, <1>z, <1>i DEF NothingLeft, Cleared, CoresStopped
<1>5. OneTimer'
  BY <1>f, <1>z, <1>i DEF OneTimer, ThreadAt
<1>6. NextFirst'
  <2>1. ASSUME NEW u \in Tasks', u # nextTask' PROVE TaskBefore(nextTask, u)'
    <3>1. CASE nextTask' = t
      BY <2>1, <3>1, <1>z, <1>t, <1>d, <1>c, <1>n DEF TaskBefore
    <3>2. CASE nextTask' = nextTask /\ nextTask \in Tasks /\ deadline[nextTask] <= d
      <4>1. CASE u = t
        BY <2>1, <3>2, <4>1, <1>t, <1>d, <1>o, <1>n DEF TaskBefore
      <4>2. CASE u # t
        <5>1. TaskBefore(nextTask, u)
          BY <2>1, <3>2, <4>2, <1>t, <1>c
        <5> QED
          BY <2>1, <3>2, <4>2, <5>1, <1>t, <1>d, <1>o DEF TaskBefore
      <4> QED
        BY <4>1, <4>2
    <3> QED
      BY <3>1, <3>2, <1>z
  <2>2. nextTask' \in Tasks'
    BY <1>z, <1>t
  <2> QED
    BY <2>1, <2>2, <1>o DEF NextFirst, IsFirstTask
<1>7. ArmedInTime'
  <2>1. armPc \in {"none", "set"} /\ \A u \in Tasks : wakeup <= deadline[u]
    BY <1>f, <1>i DEF ArmedInTime, ThreadAt
  <2>2. \A u \in Tasks : deadline'[u] = deadline[u]
    BY <1>t, <1>d
  <2>3. armPc' \in {"none", "set"} => \A u \in Tasks' : wakeup' <= deadline'[u]
    BY <2>1, <2>2, <1>z, <1>t, <1>d, <1>n, <1>f
  <2>4. armPc' \in {"unschedule", "schedule"}
           => armTime' > 0 /\ \A u \in Tasks' : armTime' <= deadline'[u]
    BY <2>1, <2>2, <1>z, <1>t, <1>d, <1>n, TimeFacts
  <2> QED
    BY <2>3, <2>4 DEF ArmedInTime
<1>8. WakeupQueued'
  BY <1>f, <1>z, <1>i DEF WakeupQueued, Cleared, ThreadAt
<1>9. NoOversleep'
  BY <1>f, <1>z, <1>i DEF NoOversleep, ThreadAt
<1> QED
  BY <1>1, <1>2, <1>3, <1>4, <1>5, <1>6, <1>7, <1>8, <1>9 DEF TimerInv

(* DoTask fires the tasks that are due and enables the interrupt for the next. *)
LEMMA DoTaskKeeps ==
    ASSUME TimerInv, DoTask
    PROVE  TimerInv'
<1>i. /\ TypeOK /\ ThreadAt /\ LoopOnce /\ NothingLeft /\ OneTimer /\ NextFirst
      /\ ArmedInTime /\ WakeupQueued /\ NoOversleep
  BY DEF TimerInv
<1>f. /\ UNCHANGED <<now, queue, eventSet, target, paused, pausedSet, pauseEnd,
                     shuttingDown, pauseSet, hpc, spc, sync, isPaused>>
      /\ tpc = "callback" /\ running.type = "timer"
      /\ scheduler = NoThread
      /\ wakeup' = Forever
      /\ order' = Erased(DueTasks)
      /\ deadline' = [u \in Threads |-> IF u \in DueTasks THEN 0 ELSE deadline[u]]
  BY DEF DoTask, SchedulerUnlocked, CallbackReturns, EnableInterrupt, threadVars, pauseVars,
     hostVars, timingVars, taskVars, armVars
<1>c. /\ Tasks # {} => nextTask \in Tasks
      /\ Tasks = {} => nextTask = NoThread
      /\ \A u \in Tasks : u # nextTask => TaskBefore(nextTask, u)
      /\ \A u \in Tasks : deadline[nextTask] <= deadline[u]
  BY <1>i, FirstTask
<1>s. TasksFromNext = Tasks /\ Tasks \subseteq Threads
  BY <1>c, ThreadAssumption DEF TasksFromNext, Tasks
<1>d. /\ deadline' \in [Threads -> 0 .. MaxTime] /\ \A u \in DueTasks : deadline'[u] = 0
      /\ \A u \in Threads \ DueTasks : deadline'[u] = deadline[u]
  BY <1>f, <1>s, <1>i, TimeFacts DEF TypeOK, DueTasks
<1>t. Tasks' = Tasks \ DueTasks
  BY <1>d, <1>s DEF Tasks, DueTasks
<1>o. /\ order' \subseteq order
      /\ \A u, v \in Threads \ DueTasks : <<u, v>> \in order => <<u, v>> \in order'
  BY <1>f DEF Erased
<1>b. \A u, v \in Tasks \ DueTasks : TaskBefore(u, v) => TaskBefore(u, v)'
  BY <1>d, <1>o DEF TaskBefore, Tasks
<1>n. IsFirstTask(nextTask', Tasks')
  BY <1>s, <1>t DEF DoTask
<1>z. \/ /\ Tasks' = {} /\ UNCHANGED <<scheduler, armPc, armTime>> /\ nextTask' = NoThread
         /\ tpc' = "loop" /\ globalTimer' = now /\ running' = NoEvent /\ outdated' = FALSE
      \/ /\ nextTask' \in Tasks'
         /\ scheduler' = Timing /\ armPc' = "unschedule" /\ armTime' = deadline'[nextTask']
         /\ tpc' = "arming" /\ UNCHANGED <<globalTimer, running, outdated>>
  <2>1. CASE nextTask' = NoThread
    BY <2>1, <1>n, <1>t, <1>s, ThreadAssumption DEF DoTask, CallbackReturns, IsFirstTask
  <2>2. CASE nextTask' # NoThread
    <3>1. nextTask' \in Tasks' /\ deadline'[nextTask'] = deadline[nextTask']
      BY <2>2, <1>n, <1>t, <1>s, <1>d DEF IsFirstTask
    <3> QED
      BY <2>2, <3>1 DEF DoTask, EnableInterrupt
  <2> QED
    BY <2>1, <2>2
<1>r. running # NoEvent /\ running.type = "timer" /\ armPc = "none" /\ ~ Cleared
  BY <1>f, <1>i DEF ThreadAt, NothingLeft
<1>1. TypeOK'
  <2>1. order' \subseteq Threads \X Threads
    BY <1>o, <1>i DEF TypeOK
  <2>2. /\ scheduler' \in Threads \cup {NoThread, Timing} /\ nextTask' \in Threads \cup {NoThread}
        /\ armPc' \in {"none", "unschedule", "schedule", "set"} /\ armTime' \in 0 .. MaxTime
    BY <1>z, <1>t, <1>s, <1>d, <1>i DEF TypeOK
  <2>3. /\ running' \in Events \cup {NoEvent} /\ globalTimer' \in 0 .. MaxTime
        /\ outdated' \in BOOLEAN /\ tpc' \in {"loop", "arming"}
    BY <1>z, <1>i DEF TypeOK, TimingTypeOK
  <2>4. wakeup' \in 1 .. Forever
    BY <1>f, TimeFacts
  <2> QED
    BY <2>1, <2>2, <2>3, <2>4, <1>f, <1>d, <1>i DEF TypeOK, TimingTypeOK
<1>2. ThreadAt'
  BY <1>f, <1>z, <1>r, <1>i, ThreadAssumption DEF ThreadAt
<1>3. LoopOnce'
  BY <1>f, <1>z, <1>r, <1>i DEF LoopOnce, Runs
<1>4. NothingLeft'
  BY <1>f, <1>r DEF NothingLeft, Cleared
<1>5. OneTimer'
  BY <1>f, <1>z, <1>r, <1>i DEF OneTimer
<1>6. NextFirst'
  BY <1>n, <1>t, <1>b, <1>o, <1>i DEF NextFirst, IsFirstTask
<1>7. ArmedInTime'
  <2>1. CASE Tasks' = {} /\ armPc' = "none"
    BY <2>1 DEF ArmedInTime
  <2>2. CASE nextTask' \in Tasks' /\ armPc' = "unschedule" /\ armTime' = deadline'[nextTask']
    <3>1. \A u \in Tasks' : deadline'[u] \in Nat /\ deadline'[u] > 0
      BY <1>d, TimeFacts DEF Tasks
    <3>2. \A u \in Tasks' : u = nextTask' \/ deadline'[nextTask'] <= deadline'[u]
      <4> SUFFICES ASSUME NEW u \in Tasks', u # nextTask' PROVE deadline'[nextTask'] <= deadline'[u]
        OBVIOUS
      <4>1. TaskBefore(nextTask', u) /\ nextTask' \in Threads \ DueTasks /\ u \in Threads \ DueTasks
        BY <2>2, <1>n, <1>t, <1>s DEF IsFirstTask
      <4>2. deadline[nextTask'] = deadline'[nextTask'] /\ deadline[u] = deadline'[u]
        BY <4>1, <1>d
      <4> QED
        BY <4>1, <4>2, <3>1, <2>2 DEF TaskBefore
    <3> QED
      BY <2>2, <3>1, <3>2 DEF ArmedInTime
  <2> QED
    BY <2>1, <2>2, <1>z, <1>r
<1>8. WakeupQueued'
  BY <1>f DEF WakeupQueued
<1>9. NoOversleep'
  BY <1>z DEF NoOversleep
<1> QED
  BY <1>1, <1>2, <1>3, <1>4, <1>5, <1>6, <1>7, <1>8, <1>9 DEF TimerInv

-----------------------------------------------------------------------------
(* The invariant holds initially. *)
LEMMA TimerInit == Init => TimerInv /\ SyncAt
<1> SUFFICES ASSUME Init PROVE TimerInv /\ SyncAt
  OBVIOUS
<1>1. TypeOK
  <2>1. /\ 0 \in 0 .. MaxTime /\ 0 \in Times /\ Forever \in 1 .. Forever
        /\ deadline \in [Threads -> 0 .. MaxTime]
    BY TimeFacts DEF Init, Times
  <2> QED
    BY <2>1 DEF Init, TimingInit, TypeOK, TimingTypeOK, Hosts
<1>2. Tasks = {}
  BY DEF Init, Tasks
<1>3. ThreadAt /\ LoopOnce /\ NothingLeft /\ OneTimer
  BY ThreadAssumption
     DEF Init, TimingInit, ThreadAt, LoopOnce, Runs, NothingLeft, Cleared, OneTimer
<1>4. NextFirst /\ ArmedInTime /\ WakeupQueued /\ NoOversleep
  BY <1>2 DEF Init, TimingInit, NextFirst, IsFirstTask, ArmedInTime, WakeupQueued, NoOversleep
<1>5. SyncAt
  BY DEF Init, TimingInit, SyncAt, Hosts
<1> QED
  BY <1>1, <1>3, <1>4, <1>5 DEF TimerInv

(* Every step preserves it. *)
LEMMA TimerStep == TimerInv /\ SyncAt /\ [Next]_vars => TimerInv'
<1> SUFFICES ASSUME TimerInv, SyncAt, [Next]_vars PROVE TimerInv'
  OBVIOUS
<1>1. TimerAction
  BY TimerCases DEF TimerInv
<1>2. CASE UNCHANGED vars
  <2>1. UNCHANGED <<timingVars, taskVars, armVars, threadVars, pauseVars, hostVars>>
    BY <1>2 DEF vars, timingVars
  <2> QED
    BY <2>1
       DEF timingVars, taskVars, armVars, threadVars, pauseVars, hostVars,
           TimerInv, TypeOK, TimingTypeOK, ThreadAt, LoopOnce, Runs, NothingLeft, Cleared,
           OneTimer, NextFirst, IsFirstTask, Tasks, TaskBefore, ArmedInTime, WakeupQueued,
           NoOversleep
<1>3. CASE \/ DisableInterrupt \/ ScheduleEvent \/ ScheduleEventSets \/ DoTask \/ DoTaskIgnored
           \/ \E t \in Threads : CancelTask(t)
           \/ \E t \in Threads, d \in 1 .. MaxTime : RegisterAbsoluteTask(t, d)
  BY <1>3, DisableInterruptKeeps, ScheduleEventKeeps, ScheduleEventSetsKeeps, DoTaskKeeps,
     DoTaskIgnoredKeeps, CancelTaskKeeps, RegisterAbsoluteTaskKeeps
<1>4. CASE /\ \/ AdvanceEnter \/ AdvanceReturns \/ LoopCallback \/ Reschedule
              \/ \E e \in queue : AdvanceRuns(e)
           /\ UNCHANGED <<now, eventSet, pauseVars, hostVars, taskVars, armVars>>
  BY <1>4, AdvanceEnterKeeps, AdvanceReturnsKeeps, LoopCallbackKeeps, RescheduleKeeps,
     AdvanceRunsKeeps
<1>5. CASE /\ ThreadLoop \/ HostMoves \/ ScheduleLoopingEvent \/ UnscheduleEvent \/ Tick
           /\ UNCHANGED <<taskVars, armVars>>
  BY <1>5, ThreadLoopKeeps, HostKeeps, ScheduleLoopingEventKeeps, UnscheduleEventKeeps, TickKeeps
<1>6. CASE ClearPendingEvents /\ SchedulerUnlocked /\ UNCHANGED <<taskVars, armVars>>
  BY <1>6, ClearPendingEventsKeeps
<1> QED
  BY <1>1, <1>2, <1>3, <1>4, <1>5, <1>6 DEF TimerAction

-----------------------------------------------------------------------------
(* No other step moves the host threads in or out of SyncPause. *)
LEMMA SyncAtStep == TypeOK /\ SyncAt /\ [Next]_vars => SyncAt'
<1> SUFFICES ASSUME TypeOK, SyncAt, [Next]_vars PROVE SyncAt'
  OBVIOUS
<1>1. CASE HostMoves
  BY <1>1, HostFacts
<1>2. CASE ScheduleLoopingEvent \/ UnscheduleEvent \/ ClearPendingEvents
  BY <1>2 DEF ScheduleLoopingEvent, UnscheduleEvent, ClearPendingEvents, SyncAt
<1>3. CASE UNCHANGED hostVars
  BY <1>3 DEF hostVars, SyncAt
<1>4. \/ HostMoves \/ ScheduleLoopingEvent \/ UnscheduleEvent \/ ClearPendingEvents
      \/ UNCHANGED hostVars
  BY TimerCases, Zenon DEF TimerAction, CancelTask, RegisterAbsoluteTask, DisableInterrupt,
     ScheduleEvent, ScheduleEventSets, DoTask, DoTaskIgnored, ThreadLoop, Tick, vars, timingVars
<1> QED
  BY <1>1, <1>2, <1>3, <1>4

(* TimerInv is an invariant of KHardwareTimer, for any threads, whatever   *)
(* they register and cancel while the host threads pause, stall, schedule  *)
(* and shut down, also in SyncPause at the same time.                      *)
THEOREM TimerInvariant == Spec => [](TimerInv /\ SyncAt)
<1>1. TimerInv => TypeOK
  BY DEF TimerInv
<1> QED
  BY <1>1, TimerInit, TimerStep, SyncAtStep, PTL DEF Spec

(* When UnscheduleEvent or ClearPendingEvents has returned, no callback of *)
(* what they removed is under way, and a looping event that nobody removed *)
(* is queued exactly once (CoreTiming::Advance, UnscheduleEvent).          *)
THEOREM TimerQuietAfterUnschedule == Spec => []QuietAfterUnschedule
<1>1. TimerInv => QuietAfterUnschedule
  <2> SUFFICES ASSUME TimerInv PROVE QuietAfterUnschedule
    OBVIOUS
  <2>1. LoopEvents = {e \in queue : e.type = "loop"}
    BY EventFacts DEF LoopEvents, Without, TimerInv, TypeOK, TimingTypeOK
  <2>2. \A e, f \in LoopEvents : e = f
    BY <2>1 DEF TimerInv, LoopOnce
  <2>3. (running # NoEvent /\ running.type = "loop") => (running \in queue) # outdated
    BY Zenon DEF TimerInv, LoopOnce, Runs, TypeOK, TimingTypeOK
  <2>4. (hpc = "idle" /\ LoopEvents = {}) => (running = NoEvent \/ running.type # "loop")
    BY <2>1 DEF TimerInv, LoopOnce, Runs
  <2>5. Cleared => running = NoEvent
    BY DEF TimerInv, NothingLeft
  <2> QED
    BY <2>2, <2>3, <2>4, <2>5 DEF QuietAfterUnschedule
<1> QED
  BY <1>1, TimerInvariant, PTL

(* No timeout is slept through: the queue holds an event no later than the *)
(* earliest task and the timing thread sleeps no longer than to its first  *)
(* event (RegisterAbsoluteTask, EnableInterrupt, ScheduleEvent, Advance).  *)
THEOREM TimerDeadlineCovered == Spec => []DeadlineCovered
<1>1. TimerInv => DeadlineCovered
  <2> SUFFICES ASSUME TimerInv PROVE InterruptEnabled
    BY DEF DeadlineCovered, TimerInv
  <2>1. queue \ Without("timer") = {e \in queue : e.type = "timer"}
    BY EventFacts DEF Without, TimerInv, TypeOK, TimingTypeOK
  <2>2. \A e, f \in queue \ Without("timer") : e = f
    BY <2>1 DEF TimerInv, OneTimer
  <2>3. ASSUME armPc = "none", ~ Cleared, running = NoEvent \/ running.type # "timer",
               NEW t \in Threads, deadline[t] > 0
        PROVE  \E e \in queue : e = TimerEvent(wakeup) /\ e.time <= deadline[t]
    <3>1. /\ wakeup <= deadline[t] /\ deadline[t] \in 0 .. MaxTime
          /\ wakeup \in 1 .. Forever /\ wakeup \in Times
      BY <2>3, TimeFacts DEF TimerInv, ArmedInTime, Tasks, TypeOK
    <3>2. wakeup # Forever
      BY <3>1, TimeFacts
    <3>3. TimerEvent(wakeup) \in queue
      BY <2>3, <3>2 DEF TimerInv, WakeupQueued, ThreadAt
    <3> QED
      BY <3>1, <3>3, EventFacts
  <2> QED
    BY <2>2, <2>3 DEF InterruptEnabled, TimerInv, NextFirst
<1> QED
  BY <1>1, TimerInvariant, PTL

-----------------------------------------------------------------------------
(* DoTask fires exactly the tasks that are due. *)
LEMMA DueTasksAre ==
    ASSUME TypeOK, NextFirst PROVE DueTasks = {t \in Threads : deadline[t] > 0 /\ deadline[t] <= now}
<1>1. TasksFromNext = Tasks
  BY FirstTask, ThreadAssumption DEF TasksFromNext, Tasks
<1> QED
  BY <1>1 DEF DueTasks, Tasks

(* What the service shows of the timer. *)
LEMMA StatusFacts ==
    /\ Status = IF Cleared THEN "off" ELSE IF ShuttingDown THEN "stopping" ELSE "on"
    /\ Cleared => ShuttingDown
  BY DEF Status, ShuttingDown, CoresStopped

(* A step that leaves the host threads alone, the clock and the tasks too, *)
(* is a step of the service if it does not change whether an interrupt is  *)
(* being served.                                                           *)
LEMMA ServiceStutters ==
    ASSUME UNCHANGED <<now, deadline, hpc>>, Interrupted' <=> Interrupted
    PROVE  UNCHANGED Service!vars
<1>1. Interrupted' = Interrupted
  BY SMT DEF Interrupted
<1>2. Status' = Status
  BY DEF Status, Cleared, ShuttingDown, CoresStopped
<1> QED
  BY <1>1, <1>2 DEF Service!vars

(* Every step of the timer is one of the service, or none. *)
LEMMA ServiceStep == TimerInv /\ SyncAt /\ [Next]_vars => [Service!Next]_(Service!vars)
<1> SUFFICES ASSUME TimerInv, SyncAt, [Next]_vars PROVE [Service!Next]_(Service!vars)
  OBVIOUS
<1>1. TimerAction
  BY TimerCases DEF TimerInv
<1>2. ASSUME UNCHANGED hpc PROVE Status' = Status
  BY <1>2 DEF Status, Cleared, ShuttingDown, CoresStopped
<1>3. ASSUME UNCHANGED <<tpc, running>> PROVE Interrupted' = Interrupted
  BY <1>3 DEF Interrupted
<1>4. ASSUME NEW t \in Threads, CancelTask(t) PROVE Service!Next
  <2>1. UNCHANGED <<now, hpc, tpc, running>> /\ Status # "off"
    BY <1>4 DEF CancelTask, timingVars, threadVars, hostVars, Status, CoresStopped
  <2> QED
    BY <1>2, <1>3, <1>4, <2>1 DEF CancelTask, RemoveTaskFromTree, Service!Next, Service!Cancel
<1>5. ASSUME NEW t \in Threads, NEW d \in 1 .. MaxTime, RegisterAbsoluteTask(t, d)
      PROVE  Service!Next
  <2>1. UNCHANGED <<now, hpc, tpc, running>> /\ Status # "off"
    BY <1>5 DEF RegisterAbsoluteTask, timingVars, threadVars, hostVars, Status, Suspended,
                CoresStopped
  <2> QED
    BY <1>2, <1>3, <1>5, <2>1 DEF RegisterAbsoluteTask, Service!Next, Service!Register
<1>6. ASSUME DoTask \/ DoTaskIgnored PROVE Service!Next
  <2>1. Service!Due = DueTasks
    BY DueTasksAre DEF TimerInv, Service!Due
  <2>2. deadline' = [u \in Threads |-> IF u \in Service!Due THEN 0 ELSE deadline[u]]
    <3>1. CASE DoTask
      BY <3>1, <2>1 DEF DoTask
    <3>2. CASE DoTaskIgnored
      <4>1. \A u \in Tasks : wakeup <= deadline[u] /\ deadline[u] \in 0 .. MaxTime
        BY <3>2 DEF DoTaskIgnored, SchedulerUnlocked, TimerInv, ArmedInTime, ThreadAt, TypeOK, Tasks
      <4>2. wakeup = Forever /\ deadline' = deadline
        BY <3>2 DEF DoTaskIgnored, taskVars
      <4>3. Tasks = {}
        BY <4>1, <4>2, TimeFacts
      <4>4. Service!Due = {}
        BY <4>3 DEF Service!Due, Tasks
      <4> QED
        BY <4>2, <4>4 DEF TimerInv, TypeOK
    <3> QED
      BY <1>6, <3>1, <3>2
  <2>3. UNCHANGED <<now, hpc>> /\ tpc = "callback" /\ running.type = "timer" /\ tpc' # "callback"
    BY <1>6 DEF DoTask, DoTaskIgnored, CallbackReturns, hostVars
  <2>4. Interrupted = TRUE /\ Interrupted' = FALSE
    BY <2>3 DEF Interrupted
  <2>5. Status # "off"
    BY <2>3 DEF Status, TimerInv, NothingLeft, ThreadAt
  <2>6. Service!TimeOut
    BY <1>2, <2>2, <2>3, <2>4, <2>5 DEF Service!TimeOut
  <2> QED
    BY <2>6 DEF Service!Next
<1>7. ASSUME Tick, UNCHANGED <<taskVars, armVars>> PROVE Service!Next
  <2>1. UNCHANGED <<deadline, hpc, tpc, running>>
    BY <1>7 DEF Tick, taskVars, threadVars, hostVars
  <2> QED
    BY <1>2, <1>3, <1>7, <2>1 DEF Tick, Service!Next, Service!Tick
<1>8. ASSUME ClearPendingEvents, SchedulerUnlocked, UNCHANGED <<taskVars, armVars>>
      PROVE  Service!Next
  <2>1. UNCHANGED <<now, deadline, tpc, running>> /\ ~ Advancing /\ hpc = "clear" /\ hpc' = "reset"
    BY <1>8 DEF ClearPendingEvents, taskVars, threadVars
  <2>2. Status = "stopping" /\ Status' = "off"
    BY <2>1 DEF Status, Cleared, ShuttingDown, CoresStopped
  <2>3. Interrupted = FALSE
    BY <2>1 DEF Interrupted, Advancing
  <2> QED
    BY <1>3, <2>1, <2>2, <2>3 DEF Service!Next, Service!Stop
<1>9. ASSUME HostMoves, UNCHANGED <<taskVars, armVars>> PROVE [Service!Next]_(Service!vars)
  <2>1. /\ UNCHANGED <<now, deadline, tpc, running>>
        /\ (Cleared' <=> Cleared) /\ (ShuttingDown => ShuttingDown')
    BY <1>9, HostFacts DEF taskVars, HostLeaves
  <2>2. \/ Status' = Status
        \/ Status = "on" /\ Status' = "stopping"
    BY <2>1, StatusFacts DEF Status
  <2> QED
    BY <1>3, <2>1, <2>2 DEF Service!vars, Service!Next, Service!Stop
<1>10. ASSUME ScheduleLoopingEvent \/ UnscheduleEvent, UNCHANGED <<taskVars, armVars>>
       PROVE  UNCHANGED Service!vars
  <2>1. /\ UNCHANGED <<now, deadline, tpc, running>>
        /\ hpc = "idle" /\ hpc' \in {"idle", "loopSet", "barrier"}
    BY <1>10 DEF ScheduleLoopingEvent, UnscheduleEvent, taskVars, threadVars
  <2>2. Status' = Status
    BY <2>1 DEF Status, Cleared, ShuttingDown, CoresStopped
  <2> QED
    BY <1>3, <2>1, <2>2 DEF Service!vars
<1>11. ASSUME NEW e \in queue, AdvanceRuns(e),
              UNCHANGED <<now, eventSet, pauseVars, hostVars, taskVars, armVars>>
       PROVE  [Service!Next]_(Service!vars)
  <2>1. UNCHANGED <<now, deadline, hpc>> /\ tpc = "loop" /\ tpc' = "callback" /\ running' = e
    BY <1>11 DEF AdvanceRuns, taskVars, hostVars
  <2>2. Interrupted = FALSE
    BY <2>1 DEF Interrupted
  <2>3. Status # "off"
    BY <1>11 DEF Status, TimerInv, NothingLeft
  <2>4. CASE e.type = "timer"
    <3>1. Interrupted' = TRUE
      BY <2>1, <2>4 DEF Interrupted
    <3> QED
      BY <1>2, <2>1, <2>2, <2>3, <3>1 DEF Service!Next, Service!Interrupt
  <2>5. CASE e.type # "timer"
    <3>1. Interrupted' <=> Interrupted
      BY <2>1, <2>2, <2>5 DEF Interrupted
    <3> QED
      BY <2>1, <3>1, ServiceStutters
  <2> QED
    BY <2>4, <2>5
<1>12. ASSUME \/ DisableInterrupt \/ ScheduleEvent \/ ScheduleEventSets
              \/ ThreadLoop /\ UNCHANGED <<taskVars, armVars>>
              \/ /\ AdvanceEnter \/ AdvanceReturns \/ LoopCallback \/ Reschedule
                 /\ UNCHANGED <<now, eventSet, pauseVars, hostVars, taskVars, armVars>>
              \/ UNCHANGED vars
       PROVE  UNCHANGED Service!vars
  <2>1. UNCHANGED <<now, deadline, hpc>>
    BY <1>12
       DEF DisableInterrupt, ScheduleEvent, ScheduleEventSets, ThreadLoop,
           vars, timingVars, taskVars, hostVars
  <2>2. UNCHANGED <<tpc, running>> \/ (~ Interrupted /\ ~ Interrupted')
    BY <1>12
       DEF DisableInterrupt, ScheduleEvent, ScheduleEventSets, Armed, ArmFurther, CallbackReturns,
           ThreadLoop, Outer, Inner, Start, Asleep, Pausing, PauseWait, AdvanceEnter,
           AdvanceReturns, LoopCallback, Reschedule, Interrupted, TimerInv, ThreadAt,
           vars, timingVars, threadVars
  <2> QED
    BY <2>1, <2>2, <1>3, ServiceStutters
<1> QED
  BY <1>1, <1>4, <1>5, <1>6, <1>7, <1>8, <1>9, <1>10, <1>11, <1>12 DEF TimerAction

(* The hardware timer and core timing implement the timer service, up to   *)
(* its liveness: a task that was not cancelled leaves the tree only when   *)
(* an interrupt is served that finds it due, every task that is due then   *)
(* does, and none does after ClearPendingEvents (DoTask, Advance).         *)
THEOREM TimerImplementsService == Spec => Service!SafeSpec
<1>1. Init => Service!Init
  <2> SUFFICES ASSUME Init PROVE Service!Init
    OBVIOUS
  <2>1. Interrupted = FALSE /\ Status = "on"
    BY DEF Init, TimingInit, Interrupted, Status, Cleared, ShuttingDown, CoresStopped
  <2> QED
    BY <2>1 DEF Init, TimingInit, Service!Init
<1> QED
  BY <1>1, ServiceStep, TimerInvariant, PTL DEF Spec, Service!SafeSpec

=============================================================================

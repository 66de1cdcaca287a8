----------------------------- MODULE CoreTiming -----------------------------
(***************************************************************************)
(* CoreTiming (core/core_timing.cpp): the host thread that runs timed      *)
(* events, and the calls other threads make on it.                         *)
(*                                                                         *)
(* A step is a section under basic_lock or one operation on an atomic or a *)
(* Common::Event.  advance_lock is held while Advance is under way, also   *)
(* around the callbacks, which run without basic_lock.                     *)
(*                                                                         *)
(* Two host threads call SyncPause.  The emulation thread pauses, resumes  *)
(* and shuts down, and owns a looping event.  A service thread stalls the  *)
(* application while it waits for the GPU (nvhost_ctrl.cpp).  System's     *)
(* suspend_guard keeps their calls apart, except that shutting down does   *)
(* not take it (core.cpp).  What else is scheduled, and what its callback  *)
(* does, is left to the module that uses this one.                         *)
(***************************************************************************)
EXTENDS Naturals

CONSTANTS MaxTime,    \* the clock stops there
          Period,     \* of the looping event
          NoEvent

ASSUME TimeAssumption == MaxTime \in Nat \ {0} /\ Period \in Nat \ {0}

VARIABLES now,          \* GetGlobalTimeNs()
          queue,        \* event_queue
          eventSet,     \* event.is_set
          pauseSet,     \* pause_event.is_set
          paused, pausedSet, pauseEnd, shuttingDown,
          tpc,          \* where the timing thread is
          globalTimer,  \* global_timer while Advance runs, 0 otherwise
          running,      \* the event whose callback runs
          outdated,     \* its type was unscheduled meanwhile (sequence_number)
          target,       \* what Advance returned, 0 when it is no longer needed
          hpc, spc,     \* where the emulation and the service thread are
          sync,         \* where each of them is in SyncPause
          isPaused      \* System's is_paused

threadVars == <<tpc, globalTimer, running, outdated, target>>
pauseVars == <<paused, pausedSet, pauseEnd, shuttingDown, pauseSet>>
hostVars == <<hpc, spc, sync, isPaused>>
timingVars == <<now, queue, eventSet, threadVars, pauseVars, hostVars>>

(* s64 max, and the sleep of a thread that only an event ends. *)
Forever == MaxTime + 2 * Period + 1
Times == 0..Forever
Events == [type : {"timer", "loop"}, time : Times]
LoopEvent(time) == [type |-> "loop", time |-> time]

ASSUME EventAssumption == NoEvent \notin Events

IsTop(e) == e \in queue /\ \A f \in queue : e.time <= f.time
IsEarliest(time) == \A e \in queue : time < e.time
Without(type) == {e \in queue : e.type # type}

(* advance_lock is held by the timing thread, and basic_lock. *)
Advancing == tpc \in {"loop", "callback", "arming", "reschedule"}
BasicLocked == tpc = "loop"

-----------------------------------------------------------------------------
(* ThreadLoop.                                                             *)
Outer ==
    /\ tpc = "outer"
    /\ tpc' = IF shuttingDown THEN "done" ELSE "inner"
    /\ UNCHANGED <<globalTimer, running, outdated, target, eventSet, pauseVars>>

Inner ==
    /\ tpc = "inner"
    /\ tpc' = IF paused THEN "pausing" ELSE "start"
    /\ UNCHANGED <<globalTimer, running, outdated, target, eventSet, pauseVars>>

Start ==
    /\ tpc = "start"
    /\ pausedSet' = FALSE
    /\ tpc' = "advance"
    /\ UNCHANGED <<globalTimer, running, outdated, target, eventSet,
                   paused, pauseEnd, shuttingDown, pauseSet>>

(* The sleep in WaitFor or Wait. *)
Asleep ==
    /\ tpc = "asleep"
    /\ eventSet \/ target <= now
    /\ eventSet' = FALSE
    /\ tpc' = "inner"
    /\ target' = 0
    /\ UNCHANGED <<globalTimer, running, outdated, pauseVars>>

Pausing ==
    /\ tpc = "pausing"
    /\ pausedSet' = TRUE
    /\ tpc' = "pauseWait"
    /\ UNCHANGED <<globalTimer, running, outdated, target, eventSet,
                   paused, pauseEnd, shuttingDown, pauseSet>>

PauseWait ==
    /\ tpc = "pauseWait"
    /\ pauseSet
    /\ pauseSet' = FALSE
    /\ tpc' = "outer"
    /\ UNCHANGED <<globalTimer, running, outdated, target, eventSet,
                   paused, pausedSet, pauseEnd, shuttingDown>>

ThreadLoop ==
    /\ Outer \/ Inner \/ Start \/ Asleep \/ Pausing \/ PauseWait
    /\ UNCHANGED <<now, queue, hostVars>>

-----------------------------------------------------------------------------
(* Advance.                                                                *)
AdvanceEnter ==
    /\ tpc = "advance"
    /\ tpc' = "loop"
    /\ globalTimer' = now
    /\ UNCHANGED <<running, outdated, target, queue>>

(* The next due event: a one-shot event is popped before its callback      *)
(* runs, a looping one stays in the queue.  The type of a queued event     *)
(* exists, as owners unschedule before they let go of it; the branch for   *)
(* an expired one, which would leave the event in the queue and meet it    *)
(* again for ever, is left out.                                            *)
AdvanceRuns(e) ==
    /\ tpc = "loop"
    /\ IsTop(e) /\ e.time <= globalTimer
    /\ queue' = IF e.type = "loop" THEN queue ELSE queue \ {e}
    /\ running' = e
    /\ outdated' = FALSE
    /\ tpc' = "callback"
    /\ UNCHANGED <<globalTimer, target>>

(* Nothing is due: return the time of the next event, if there is one, for *)
(* ThreadLoop to sleep until then, unless it has come already.             *)
IsNextTime(time) == \/ queue = {} /\ time = Forever
                    \/ \E e \in queue : IsTop(e) /\ time = e.time
AdvanceReturns ==
    /\ tpc = "loop"
    /\ \A e \in queue : e.time > globalTimer
    /\ \E time \in Times :
          /\ IsNextTime(time)
          /\ IF time <= now THEN tpc' = "inner" /\ UNCHANGED target
                            ELSE tpc' = "asleep" /\ target' = time
    /\ globalTimer' = 0
    /\ UNCHANGED <<running, outdated, queue>>

(* The end of a callback: basic_lock again, and the loop goes on with a    *)
(* fresh global_timer.                                                     *)
CallbackReturns ==
    /\ tpc' = "loop"
    /\ globalTimer' = now
    /\ running' = NoEvent
    /\ outdated' = FALSE
    /\ UNCHANGED target

LoopCallback ==
    /\ tpc = "callback" /\ running.type = "loop"
    /\ tpc' = "reschedule"
    /\ UNCHANGED <<globalTimer, running, outdated, target, queue>>

(* The looping event's next time, counted from the end of a pause that it  *)
(* slept through, unless its handle is no longer valid.                    *)
Reschedule ==
    /\ tpc = "reschedule"
    /\ IF outdated
       THEN /\ tpc' = "loop"
            /\ running' = NoEvent
            /\ outdated' = FALSE
            /\ UNCHANGED <<queue, globalTimer, target>>
       ELSE /\ LET base == IF running.time < pauseEnd THEN pauseEnd ELSE running.time
               IN  queue' = (queue \ {running}) \cup {LoopEvent(base + Period)}
            /\ CallbackReturns

Advance ==
    /\ \/ AdvanceEnter \/ AdvanceReturns \/ LoopCallback \/ Reschedule
       \/ \E e \in queue : AdvanceRuns(e)
    /\ UNCHANGED <<now, eventSet, pauseVars, hostVars>>

-----------------------------------------------------------------------------
(* The calls.  ScheduleEvent is the insertion, under basic_lock, and then, *)
(* outside it, event.Set() if the event was the earliest: in between the   *)
(* caller is at `next'.                                                    *)
Insert(e) == queue' = queue \cup {e}

(* UnscheduleEvent, up to the wait for advance_lock. *)
RemoveType(type) ==
    /\ queue' = Without(type)
    /\ outdated' = (outdated \/ (running # NoEvent /\ running.type = type))

(* ScheduleLoopingEvent by the emulation thread. *)
ScheduleLoopingEvent ==
    /\ hpc = "idle" /\ Without("loop") = queue /\ ~ BasicLocked
    /\ Insert(LoopEvent(now + Period))
    /\ hpc' = IF IsEarliest(now + Period) THEN "loopSet" ELSE "idle"
    /\ UNCHANGED <<now, eventSet, threadVars, pauseVars, spc, sync, isPaused>>

ScheduleLoopingEventSets ==
    /\ hpc = "loopSet"
    /\ eventSet' = TRUE
    /\ hpc' = "idle"
    /\ UNCHANGED <<now, queue, threadVars, pauseVars, spc, sync, isPaused>>

(* UnscheduleEvent with UnscheduleEventType::Wait. *)
UnscheduleEvent ==
    /\ hpc = "idle" /\ Without("loop") # queue /\ ~ BasicLocked
    /\ RemoveType("loop")
    /\ hpc' = "barrier"
    /\ UNCHANGED <<now, eventSet, tpc, globalTimer, running, target, pauseVars,
                   spc, sync, isPaused>>

(* A bug: the call does not wait for a callback in progress. *)
UnscheduleEventNoWait ==
    /\ hpc = "barrier"
    /\ hpc' = "idle"
    /\ UNCHANGED <<now, queue, eventSet, threadVars, pauseVars, spc, sync, isPaused>>

UnscheduleEventWaits ==
    /\ hpc = "barrier" /\ ~ Advancing
    /\ hpc' = "idle"
    /\ UNCHANGED <<now, queue, eventSet, threadVars, pauseVars, spc, sync, isPaused>>

-----------------------------------------------------------------------------
(* SyncPause(is_paused) by either host thread, in one of the calls of      *)
(* System: what it asks for, and where the caller is afterwards.           *)
Hosts == {"emulation", "service"}
Asking(call) == call \in {"pause", "stall"}
After(call) == CASE call = "shutdown" -> "close"
                 [] call = "stall" -> "stalled"
                 [] OTHER -> "idle"
Call(h) == IF h = "emulation" THEN hpc ELSE spc
Asks(h) == Asking(Call(h))

HostAt(h, place) ==
    /\ hpc' = IF h = "emulation" THEN place ELSE hpc
    /\ spc' = IF h = "service" THEN place ELSE spc
SyncStep(h, there) == sync' = [sync EXCEPT ![h] = there]

(* It returns; Pause and Run then set is_paused. *)
SyncReturn(h, call) ==
    /\ HostAt(h, After(call)) /\ SyncStep(h, "none")
    /\ isPaused' = IF call \in {"pause", "run"} THEN Asking(call) ELSE isPaused

(* The test at its beginning, and the store with which Pause begins.  They *)
(* are one step here, in which the test may fail although what was asked   *)
(* for has come true: it may have done so after the test.                  *)
SyncPause(h, call) ==
    /\ \/ /\ Asking(call) = paused /\ pausedSet = paused
          /\ SyncReturn(h, call)
          /\ UNCHANGED paused
       \/ /\ HostAt(h, call) /\ SyncStep(h, "pauseSet")
          /\ paused' = Asking(call)
          /\ UNCHANGED isPaused
    /\ UNCHANGED <<now, queue, eventSet, threadVars, pausedSet, pauseEnd, shuttingDown, pauseSet>>

PauseSetsPauseEvent(h) ==
    /\ sync[h] = "pauseSet"
    /\ pauseSet' = TRUE
    /\ pauseEnd' = IF Asks(h) THEN pauseEnd ELSE now
    /\ SyncStep(h, "eventSet")
    /\ UNCHANGED <<now, queue, eventSet, threadVars, paused, pausedSet, shuttingDown,
                   hpc, spc, isPaused>>

(* A bug: the timing thread is not woken up. *)
SyncPauseSetsNoEvent(h) ==
    /\ sync[h] = "eventSet"
    /\ pauseSet' = (pauseSet \/ ~ Asks(h))
    /\ SyncStep(h, "spin")
    /\ UNCHANGED <<now, queue, eventSet, threadVars, paused, pausedSet, pauseEnd, shuttingDown,
                   hpc, spc, isPaused>>

SyncPauseSetsEvent(h) ==
    /\ sync[h] = "eventSet"
    /\ pauseSet' = (pauseSet \/ ~ Asks(h))
    /\ eventSet' = TRUE
    /\ SyncStep(h, "spin")
    /\ UNCHANGED <<now, queue, threadVars, paused, pausedSet, pauseEnd, shuttingDown,
                   hpc, spc, isPaused>>

SyncPauseReturns(h) ==
    /\ sync[h] = "spin"
    /\ pausedSet = Asks(h)
    /\ pauseEnd' = IF Asks(h) THEN pauseEnd ELSE now
    /\ SyncReturn(h, Call(h))
    /\ UNCHANGED <<now, queue, eventSet, threadVars, paused, pausedSet, shuttingDown, pauseSet>>

SyncPauseSteps(h) == PauseSetsPauseEvent(h) \/ SyncPauseSetsEvent(h) \/ SyncPauseReturns(h)

-----------------------------------------------------------------------------
(* The calls of System.  They also suspend and resume the guest's threads  *)
(* (Suspended, below).  Pause and Run hold suspend_guard until they        *)
(* return, the service thread holds it until it has undone its stall.      *)
SuspendGuardFree == hpc \notin {"pause", "run"} /\ spc = "idle"

Pause ==
    /\ hpc = "idle" /\ SuspendGuardFree
    /\ SyncPause("emulation", "pause")

(* A call that would change nothing is left out. *)
Run ==
    /\ hpc = "idle" /\ SuspendGuardFree
    /\ paused \/ pausedSet \/ isPaused
    /\ SyncPause("emulation", "run")

(* The end of the emulation: SyncPause(false) without suspend_guard, then  *)
(* CloseServices waits for the service threads, then ClearPendingEvents    *)
(* takes both locks, then Reset stops the timing thread and joins it.      *)
ShutdownMainProcess == hpc = "idle" /\ SyncPause("emulation", "shutdown")

CloseServices ==
    /\ hpc = "close" /\ spc = "idle"
    /\ hpc' = "clear"
    /\ UNCHANGED <<now, queue, eventSet, threadVars, pauseVars, spc, sync, isPaused>>

ClearPendingEvents ==
    /\ hpc = "clear" /\ ~ Advancing
    /\ queue' = {}
    /\ eventSet' = TRUE
    /\ hpc' = "reset"
    /\ UNCHANGED <<now, threadVars, pauseVars, spc, sync, isPaused>>

ResetPauses ==
    /\ hpc = "reset"
    /\ paused' = TRUE
    /\ hpc' = "resetFlag"
    /\ UNCHANGED <<now, queue, eventSet, threadVars, pausedSet, pauseEnd, shuttingDown, pauseSet,
                   spc, sync, isPaused>>

ResetShutsDown ==
    /\ hpc = "resetFlag"
    /\ shuttingDown' = TRUE
    /\ hpc' = "resetPauseEvent"
    /\ UNCHANGED <<now, queue, eventSet, threadVars, paused, pausedSet, pauseEnd, pauseSet,
                   spc, sync, isPaused>>

ResetSetsPauseEvent ==
    /\ hpc = "resetPauseEvent"
    /\ pauseSet' = TRUE
    /\ hpc' = "resetEvent"
    /\ UNCHANGED <<now, queue, eventSet, threadVars, paused, pausedSet, pauseEnd, shuttingDown,
                   spc, sync, isPaused>>

ResetSetsEvent ==
    /\ hpc = "resetEvent"
    /\ eventSet' = TRUE
    /\ hpc' = "join"
    /\ UNCHANGED <<now, queue, threadVars, pauseVars, spc, sync, isPaused>>

ResetJoins ==
    /\ hpc = "join" /\ tpc = "done"
    /\ hpc' = "gone"
    /\ UNCHANGED <<now, queue, eventSet, threadVars, pauseVars, spc, sync, isPaused>>

Reset == ResetPauses \/ ResetShutsDown \/ ResetSetsPauseEvent \/ ResetSetsEvent \/ ResetJoins

Cleared == hpc \in {"reset", "resetFlag", "resetPauseEvent", "resetEvent", "join", "gone"}
CoresStopped == hpc = "clear" \/ Cleared
ShuttingDown == hpc \in {"shutdown", "close"} \/ CoresStopped

(* The service thread waits for the GPU with the application stalled, and  *)
(* leaves it paused if the user has paused it.                             *)
StallApplication ==
    /\ spc = "idle" /\ SuspendGuardFree /\ ~ CoresStopped
    /\ SyncPause("service", "stall")

UnstallApplication ==
    /\ spc = "stalled"
    /\ \/ ~ isPaused /\ SyncPause("service", "unstall")
       \/ /\ isPaused /\ spc' = "idle"
          /\ UNCHANGED <<now, queue, eventSet, threadVars, pauseVars, hpc, sync, isPaused>>

(* SuspendEmulation has stopped the cores, as Pause, Stall and the shutdown *)
(* ask for; what one of them stops, a call of another may set off again.    *)
Suspended == (isPaused /\ hpc # "run") \/ spc # "idle" \/ CoresStopped

(* What the two threads do once they have begun. *)
EmulationProgress ==
    \/ ScheduleLoopingEventSets \/ UnscheduleEventWaits
    \/ SyncPauseSteps("emulation")
    \/ Reset
ServiceProgress == SyncPauseSteps("service") \/ UnstallApplication

Tick == /\ now < MaxTime
        /\ now' = now + 1
        /\ UNCHANGED <<queue, eventSet, threadVars, pauseVars, hostVars>>

(* Initialize, whose Reset leaves it paused and both events set. *)
TimingInit ==
    /\ now = 0 /\ queue = {} /\ eventSet = TRUE
    /\ pauseSet = TRUE /\ paused = TRUE /\ pausedSet = FALSE
    /\ pauseEnd = 0 /\ shuttingDown = FALSE
    /\ tpc = "outer" /\ globalTimer = 0 /\ target = 0
    /\ running = NoEvent /\ outdated = FALSE
    /\ hpc = "idle" /\ spc = "idle" /\ sync = [h \in Hosts |-> "none"]
    /\ isPaused = FALSE

-----------------------------------------------------------------------------
TimingTypeOK ==
    /\ now \in 0..MaxTime
    /\ queue \subseteq Events
    /\ eventSet \in BOOLEAN /\ pauseSet \in BOOLEAN
    /\ paused \in BOOLEAN /\ pausedSet \in BOOLEAN /\ shuttingDown \in BOOLEAN
    /\ outdated \in BOOLEAN /\ isPaused \in BOOLEAN
    /\ pauseEnd \in 0..MaxTime /\ globalTimer \in 0..MaxTime
    /\ target \in Times
    /\ tpc \in {"outer", "inner", "start", "advance", "loop", "callback", "arming",
                "reschedule", "asleep", "pausing", "pauseWait", "done"}
    /\ running \in Events \cup {NoEvent}
    /\ hpc \in {"idle", "loopSet", "barrier", "pause", "run", "shutdown", "close", "clear",
                "reset", "resetFlag", "resetPauseEvent", "resetEvent", "join", "gone"}
    /\ spc \in {"idle", "stall", "stalled", "unstall"}
    /\ sync \in [Hosts -> {"none", "pauseSet", "eventSet", "spin"}]

(* A looping event that nobody unscheduled is in the queue exactly once,   *)
(* although its callback runs without basic_lock while the host thread     *)
(* unschedules it and schedules it again; and once UnscheduleEvent or      *)
(* ClearPendingEvents has returned, no callback of it is under way (`Force *)
(* any in-progress events to finish', and the order of the shutdown in     *)
(* core.cpp depends on it).                                                *)
LoopEvents == queue \ Without("loop")
QuietAfterUnschedule ==
    /\ \A e, f \in LoopEvents : e = f
    /\ (running # NoEvent /\ running.type = "loop")
          => (running \in queue) # outdated
    /\ (hpc = "idle" /\ LoopEvents = {}) => (running = NoEvent \/ running.type # "loop")
    /\ Cleared => running = NoEvent

(* ShutdownMainProcess and StallApplication have overruled each other: one *)
(* is past its store to paused in SyncPause, which no longer says what it  *)
(* asked for.                                                              *)
Overruled ==
    /\ hpc \in {"shutdown", "close"}
    /\ \E h \in Hosts : sync[h] # "none" /\ paused # Asks(h)

(* Every call of the two host threads returns, whatever the timing thread  *)
(* was doing and whatever it missed: SyncPause, UnscheduleEvent, and the   *)
(* shutdown up to the join in Reset; so each of them is idle, or gone, time *)
(* and again.  There is one exception.  Shutting down does not take        *)
(* suspend_guard, so that it may overrule a stall or be overruled by it,   *)
(* and the loser may then spin on paused_set for ever (core_timing.cpp     *)
(* SyncPause, core.cpp ShutdownMainProcess), and the shutdown with it.     *)
HostReturns ==
    \/ <>[]Overruled
    \/ []<>(hpc \in {"idle", "gone"}) /\ []<>(spc = "idle")
=============================================================================

--------------------------- MODULE KResourceLimit ---------------------------
(***************************************************************************)
(* One resource of a KResourceLimit and the KLightConditionVariable its    *)
(* reservations wait on (core/hle/kernel/k_resource_limit.cpp,             *)
(* k_light_condition_variable.cpp, k_scoped_resource_reservation.h).       *)
(*                                                                         *)
(* m_lock is plain mutual exclusion.  The wait gives it up while it holds  *)
(* the scheduler lock and joins the list afterwards, so a release may come *)
(* in between.  Values are integers of the width of IntMax, as s64 in the  *)
(* code; every caller passes a deadline.                                   *)
(***************************************************************************)
EXTENDS Integers, Sequences, SequencesExt, FiniteSets, FiniteSetsExt

CONSTANTS Threads, Terminable,
          Values,     \* the amounts reserved
          Limits,     \* the values SetLimitValue is called with
          IntMax,     \* the largest value of the integer type
          MaxTime,    \* bound on the clock; deadlines lie within it
          NoThread

ASSUME LimitAssumption ==
    /\ IsFiniteSet(Threads) /\ NoThread \notin Threads /\ Terminable \subseteq Threads
    /\ IntMax \in Nat /\ MaxTime \in Nat
    /\ Values \subseteq 1 .. IntMax /\ Limits \subseteq 0 .. IntMax /\ Limits # {}

VARIABLES current, hint,   \* m_current_values, m_current_hints
          limit, peak,     \* m_limit_values, m_peak_values
          waiterCount,     \* m_waiter_count
          waitList,        \* m_cond_var.m_wait_list
          mlock, slock,    \* holders of m_lock and of the scheduler lock
          now,             \* GetTick
          doomed,          \* threads whose termination was requested
          own,             \* what a thread has reserved and committed
          announced,       \* the part of it announced to be given back
          pc, arg          \* where a thread is, and its call's arguments

valueVars == <<current, hint, limit, peak>>
waitVars == <<waiterCount, waitList>>
ownVars == <<own, announced>>
vars == <<valueVars, waitVars, mlock, slock, now, doomed, ownVars, pc, arg>>

NoCall == [value |-> 0, hint |-> 0, deadline |-> 0, limit |-> 0]

Init ==
    /\ current = 0 /\ hint = 0 /\ limit \in Limits /\ peak = 0
    /\ waiterCount = 0 /\ waitList = <<>>
    /\ mlock = NoThread /\ slock = NoThread
    /\ now = 0 /\ doomed = {}
    /\ own = [t \in Threads |-> 0] /\ announced = [t \in Threads |-> 0]
    /\ pc = [t \in Threads |-> "user"] /\ arg = [t \in Threads |-> NoCall]

-----------------------------------------------------------------------------
Goto(t, there) == pc' = [pc EXCEPT ![t] = there]

WrappingAdd(x, y) == IF x + y > IntMax THEN x + y - 2 * (IntMax + 1) ELSE x + y
Overflows(v) == WrappingAdd(current, v) <= current
Fits(v) == WrappingAdd(current, v) <= limit
MayFit(v) == hint + v <= limit

Tick ==
    /\ now < MaxTime
    /\ now' = now + 1
    /\ UNCHANGED <<valueVars, waitVars, mlock, slock, doomed, ownVars, pc, arg>>

(* The lock is taken at the beginning of a call, and again after a wait.   *)
Lock(t) ==
    /\ pc[t] \in {"reserve", "release", "relock"} /\ mlock = NoThread
    /\ mlock' = t
    /\ waiterCount' = waiterCount - (IF pc[t] = "relock" THEN 1 ELSE 0)
    /\ Goto(t, CASE pc[t] = "reserve" -> "first check" [] pc[t] = "release" -> "releasing"
                 [] pc[t] = "relock" -> "loop")
    /\ UNCHANGED <<valueVars, waitList, slock, now, doomed, ownVars, arg>>

Return(t) == /\ mlock' = NoThread
             /\ Goto(t, "user") /\ arg' = [arg EXCEPT ![t] = NoCall]

-----------------------------------------------------------------------------
(* Reserve.                                                                *)
Reserve(t, v, d) ==
    /\ pc[t] = "user" /\ t \notin doomed /\ d > now
    /\ arg' = [arg EXCEPT ![t] = [NoCall EXCEPT !.value = v, !.deadline = d]]
    /\ Goto(t, "reserve")
    /\ UNCHANGED <<valueVars, waitVars, mlock, slock, now, doomed, ownVars>>

FirstCheck(t) ==
    /\ pc[t] = "first check"
    /\ IF hint >= limit THEN Return(t) ELSE Goto(t, "loop") /\ UNCHANGED <<mlock, arg>>
    /\ UNCHANGED <<valueVars, waitVars, slock, now, doomed, ownVars>>

(* A bug: the hint is compared instead of the value.                       *)
ReserveTakesHinted(t) ==
    LET v == arg[t].value IN
    /\ pc[t] = "loop" /\ ~Overflows(v) /\ MayFit(v)
    /\ current' = current + v /\ hint' = hint + v
    /\ peak' = Max({peak, current'})
    /\ own' = [own EXCEPT ![t] = @ + v]
    /\ Return(t)
    /\ UNCHANGED <<limit, waitVars, slock, now, doomed, announced>>

ReserveTakes(t) ==
    LET v == arg[t].value IN
    /\ pc[t] = "loop" /\ ~Overflows(v) /\ Fits(v)
    /\ current' = current + v /\ hint' = hint + v
    /\ peak' = Max({peak, current'})
    /\ own' = [own EXCEPT ![t] = @ + v]
    /\ Return(t)
    /\ UNCHANGED <<limit, waitVars, slock, now, doomed, announced>>

(* A bug: the deadline is not looked at again.                             *)
ReserveGivesUpOnlyIfHopeless(t) ==
    LET v == arg[t].value IN
    /\ pc[t] = "loop"
    /\ Overflows(v) \/ (~Fits(v) /\ ~MayFit(v))
    /\ Return(t)
    /\ UNCHANGED <<valueVars, waitVars, slock, now, doomed, ownVars>>

ReserveGivesUp(t) ==
    LET v == arg[t].value IN
    /\ pc[t] = "loop"
    /\ Overflows(v) \/ (~Fits(v) /\ (~MayFit(v) \/ now >= arg[t].deadline))
    /\ Return(t)
    /\ UNCHANGED <<valueVars, waitVars, slock, now, doomed, ownVars>>

(* KLightConditionVariable::Wait up to lock->Unlock().  A terminating      *)
(* thread returns from it at once and goes round the loop with m_lock      *)
(* held: nothing changes until its deadline.                               *)
ReserveWaits(t) ==
    LET v == arg[t].value IN
    /\ pc[t] = "loop" /\ slock = NoThread /\ t \notin doomed
    /\ ~Overflows(v) /\ ~Fits(v) /\ MayFit(v) /\ now < arg[t].deadline
    /\ slock' = t
    /\ mlock' = NoThread
    /\ waiterCount' = waiterCount + 1
    /\ arg' = [arg EXCEPT ![t].limit = limit]
    /\ Goto(t, "unlocked")
    /\ UNCHANGED <<valueVars, waitList, now, doomed, ownVars>>

(* It joins the list and sleeps with a timer.                              *)
WaitSleeps(t) ==
    /\ pc[t] = "unlocked"
    /\ waitList' = Append(waitList, t)
    /\ slock' = NoThread
    /\ Goto(t, "asleep")
    /\ UNCHANGED <<valueVars, waiterCount, mlock, now, doomed, ownVars, arg>>

(* CancelWait, of the timer or of a termination.                           *)
TimerExpires(t) ==
    /\ pc[t] = "asleep" /\ now >= arg[t].deadline /\ slock = NoThread
    /\ waitList' = RemoveFirst(waitList, t)
    /\ Goto(t, "relock")
    /\ UNCHANGED <<valueVars, waiterCount, mlock, slock, now, doomed, ownVars, arg>>

RequestTerminate(t) ==
    /\ t \in Terminable \ doomed /\ slock = NoThread
    /\ doomed' = doomed \cup {t}
    /\ waitList' = RemoveFirst(waitList, t)
    /\ Goto(t, IF pc[t] = "asleep" THEN "relock" ELSE pc[t])
    /\ UNCHANGED <<valueVars, waiterCount, mlock, slock, now, ownVars, arg>>

-----------------------------------------------------------------------------
(* Release(value, hint): of a reservation, of part of one (Shrink), of the *)
(* hint alone (an exiting thread), or of the value announced that way.     *)
Release(t, v, h) ==
    /\ pc[t] = "user" /\ v + h > 0
    /\ \/ v = h /\ v <= own[t] - announced[t]
       \/ v = 0 /\ h <= own[t] - announced[t]
       \/ h = 0 /\ v <= announced[t]
    /\ own' = [own EXCEPT ![t] = @ - v]
    /\ announced' = [announced EXCEPT ![t] = @ + h - v]
    /\ arg' = [arg EXCEPT ![t] = [NoCall EXCEPT !.value = v, !.hint = h]]
    /\ Goto(t, "release")
    /\ UNCHANGED <<valueVars, waitVars, mlock, slock, now, doomed>>

(* Bugs: whether to broadcast is decided by the list, which a waiter joins *)
(* after it gave up the lock; the hint is lowered by the value.            *)
ReleaseChecksList(t) ==
    /\ pc[t] = "releasing"
    /\ current' = current - arg[t].value /\ hint' = hint - arg[t].hint
    /\ IF waitList # <<>> THEN Goto(t, "broadcast") /\ UNCHANGED <<mlock, arg>> ELSE Return(t)
    /\ UNCHANGED <<limit, peak, waitVars, slock, now, doomed, ownVars>>

ReleaseIgnoresHint(t) ==
    /\ pc[t] = "releasing"
    /\ current' = current - arg[t].value /\ hint' = hint - arg[t].value
    /\ IF waiterCount # 0 THEN Goto(t, "broadcast") /\ UNCHANGED <<mlock, arg>> ELSE Return(t)
    /\ UNCHANGED <<limit, peak, waitVars, slock, now, doomed, ownVars>>

ReleaseUpdates(t) ==
    /\ pc[t] = "releasing"
    /\ current' = current - arg[t].value /\ hint' = hint - arg[t].hint
    /\ IF waiterCount # 0 THEN Goto(t, "broadcast") /\ UNCHANGED <<mlock, arg>> ELSE Return(t)
    /\ UNCHANGED <<limit, peak, waitVars, slock, now, doomed, ownVars>>

Broadcast(t) ==
    /\ pc[t] = "broadcast" /\ slock = NoThread
    /\ waitList' = <<>>
    /\ mlock' = NoThread
    /\ pc' = [u \in Threads |-> IF u = t THEN "user"
                                ELSE IF u \in ToSet(waitList) THEN "relock" ELSE pc[u]]
    /\ arg' = [arg EXCEPT ![t] = NoCall]
    /\ UNCHANGED <<valueVars, waiterCount, slock, now, doomed, ownVars>>

(* SetLimitValue wakes nobody.                                             *)
SetLimitValue(l) ==
    /\ mlock = NoThread /\ current <= l
    /\ limit' = l /\ peak' = current
    /\ UNCHANGED <<current, hint, waitVars, mlock, slock, now, doomed, ownVars, pc, arg>>

-----------------------------------------------------------------------------
Step(t) ==
    \/ Lock(t) \/ FirstCheck(t) \/ ReserveTakes(t) \/ ReserveGivesUp(t)
    \/ ReserveWaits(t) \/ WaitSleeps(t) \/ TimerExpires(t)
    \/ ReleaseUpdates(t) \/ Broadcast(t)

Next ==
    \/ Tick
    \/ \E l \in Limits : SetLimitValue(l)
    \/ \E t \in Threads :
         \/ \E v \in Values, d \in 1 .. MaxTime : Reserve(t, v, d)
         \/ \E v, h \in Values \cup {0} : Release(t, v, h)
         \/ RequestTerminate(t)
         \/ Step(t)

Spec == Init /\ [][Next]_vars

(* Time passes; a thread in the kernel goes on.  Strong fairness because   *)
(* m_lock is handed to its waiters.                                        *)
FairSpec == Spec /\ WF_vars(Tick) /\ \A t \in Threads : SF_vars(Step(t))

-----------------------------------------------------------------------------
TypeOK ==
    /\ {current, hint, limit, peak} \subseteq -(IntMax + 1) .. IntMax
    /\ waiterCount \in 0 .. Cardinality(Threads)
    /\ waitList \in Seq(Threads)
    /\ mlock \in Threads \cup {NoThread} /\ slock \in Threads \cup {NoThread}
    /\ now \in 0 .. MaxTime /\ doomed \subseteq Terminable
    /\ own \in [Threads -> 0 .. IntMax] /\ announced \in [Threads -> 0 .. IntMax]

(* The sum of what the threads have, as the number of the units.           *)
Units(amount) == UNION {{t} \X (1 .. amount[t]) : t \in Threads}
Total(amount) == Cardinality(Units(amount))

(* Committed amounts, and those of releases that have yet to take effect.  *)
Pending(t) == pc[t] \in {"release", "releasing"}
ValueOf == [t \in Threads |-> own[t] + IF Pending(t) THEN arg[t].value ELSE 0]
HintOf == [t \in Threads |-> own[t] - announced[t] + IF Pending(t) THEN arg[t].hint ELSE 0]

(* The values the assertions of every function check: what is in use is    *)
(* what the owners hold, the hint is that without what they announced, and *)
(* neither exceeds the limit (k_resource_limit.cpp).                       *)
ValuesAccountedFor ==
    /\ current = Total(ValueOf) /\ hint = Total(HintOf)
    /\ 0 <= hint /\ hint <= current /\ current <= limit /\ current <= peak

(* The threads that m_waiter_count stands for are those between lowering   *)
(* and taking m_lock again, and the list holds the sleepers among them: no *)
(* stale node is left by a timeout or a termination.                       *)
WaitersListed ==
    /\ waiterCount = Cardinality({t \in Threads : pc[t] \in {"unlocked", "asleep", "relock"}})
    /\ ToSet(waitList) = {t \in Threads : pc[t] = "asleep"}
    /\ IsInjective(waitList)

(* No lost wake-up: a reservation sleeps only while it does not fit in the *)
(* limit it went to sleep with, or a broadcast is on its way.  (It is not  *)
(* woken by a raised limit.)                                               *)
SleeperDoesNotFit ==
    \A t \in Threads : pc[t] = "asleep" =>
       \/ current + arg[t].value > arg[t].limit
       \/ \E u \in Threads : pc[u] = "broadcast"

(* It implements a budget: amounts are only taken while they fit, though   *)
(* the announced ones let others wait for them.                            *)
Budget == INSTANCE ResourceBudget WITH used <- current
BudgetSpec == Budget!Spec

(* Every reservation is answered, by its deadline at the latest, also that *)
(* of a terminating thread and of those that wait for the lock it spins    *)
(* with.                                                                   *)
ReserveReturns ==
    \A t \in Threads : [](pc[t] # "user" => <>(pc[t] = "user"))

(* A reservation that waits is counted and listed, and woken when it fits  *)
(* (k_light_condition_variable.cpp).                                       *)
NoMissedRelease ==
    /\ TypeOK
    /\ WaitersListed
    /\ SleeperDoesNotFit
=============================================================================

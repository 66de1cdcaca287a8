---------------------------- MODULE TimerService ----------------------------
(***************************************************************************)
(* What the rest of the kernel relies on when it registers a timeout: a    *)
(* task that is not cancelled times out, once, after its deadline and not  *)
(* before.  k_hardware_timer.h and k_thread_queue.cpp are its users.       *)
(***************************************************************************)
EXTENDS Naturals

CONSTANTS Threads, MaxTime

VARIABLES clock,
          deadline,   \* of a thread's task, 0 if it has none
          interrupt,  \* the timer's interrupt has come and is not yet served
          status      \* "on", "stopping" or "off"

vars == <<clock, deadline, interrupt, status>>

Init ==
    /\ clock = 0
    /\ deadline = [t \in Threads |-> 0]
    /\ interrupt = FALSE
    /\ status = "on"

Register(t, d) ==
    /\ status # "off"
    /\ deadline[t] = 0
    /\ deadline' = [deadline EXCEPT ![t] = d]
    /\ UNCHANGED <<clock, interrupt, status>>

(* The wait of t ends for another reason. *)
Cancel(t) ==
    /\ status # "off"
    /\ deadline[t] > 0
    /\ deadline' = [deadline EXCEPT ![t] = 0]
    /\ UNCHANGED <<clock, interrupt, status>>

(* An interrupt may come for a task that has been cancelled. *)
Interrupt ==
    /\ status # "off"
    /\ ~ interrupt /\ interrupt' = TRUE
    /\ UNCHANGED <<clock, deadline, status>>

(* Serving it times out every task that is due, and no other. *)
Due == {t \in Threads : deadline[t] > 0 /\ deadline[t] <= clock}
TimeOut ==
    /\ status # "off"
    /\ interrupt /\ interrupt' = FALSE
    /\ deadline' = [t \in Threads |-> IF t \in Due THEN 0 ELSE deadline[t]]
    /\ UNCHANGED <<clock, status>>

Tick == clock' = clock + 1 /\ UNCHANGED <<deadline, interrupt, status>>

(* The service stops in two steps; an interrupt that has come is served    *)
(* before the second.                                                      *)
Stop ==
    /\ \/ status = "on" /\ status' = "stopping"
       \/ status = "stopping" /\ ~ interrupt /\ status' = "off"
    /\ UNCHANGED <<clock, deadline, interrupt>>

Next ==
    \/ \E t \in Threads : Cancel(t) \/ \E d \in 1..MaxTime : Register(t, d)
    \/ Interrupt \/ TimeOut
    \/ Tick
    \/ Stop

SafeSpec == Init /\ [][Next]_vars

(* A task that is due is interrupted for and served, unless the service is *)
(* being stopped.                                                          *)
Spec == SafeSpec /\ WF_vars(status = "on" /\ Due # {} /\ (Interrupt \/ TimeOut))
=============================================================================

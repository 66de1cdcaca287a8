---------------------------- MODULE KClientPort ----------------------------
(***************************************************************************)
(* A port and the sessions opened through it: KClientPort, KServerPort and *)
(* KPort (core/hle/kernel/k_client_port.cpp, k_server_port.cpp,            *)
(* k_port.cpp) with the life of a KSession (k_session.cpp, slab_helpers.h) *)
(* and the session resource of the process (ResourceBudget).               *)
(*                                                                         *)
(* Sections under the scheduler lock are one step, except for              *)
(* OnSessionFinalized: CreateSession counts sessions without that lock, so *)
(* its compare-and-swap may come between the decrement and the             *)
(* notification.  A light port runs the same code over KLightSession.  The *)
(* calls of svc_port.cpp that find no handle free before they reach the    *)
(* port are left out: they take and drop a reference to it, as Wait does.  *)
(***************************************************************************)
EXTENDS Integers, Sequences, SequencesExt, FiniteSets, FiniteSetsExt

CONSTANTS Clients,      \* threads that connect to the port
          Servers,      \* threads that accept sessions
          MaxSessions,  \* m_max_sessions
          SessionLimit, \* the limit of LimitableResource::SessionCountMax
          SlabSize,     \* number of KSession objects this port may ever use
          NoThread

Threads == Clients \cup Servers
Sessions == 1 .. SlabSize
NoSession == 0

ASSUME PortAssumption ==
    /\ IsFiniteSet(Clients) /\ IsFiniteSet(Servers)
    /\ Clients \cap Servers = {} /\ NoThread \notin Threads
    /\ MaxSessions \in Nat \ {0}
    /\ SessionLimit \in Nat /\ SlabSize \in Nat

VARIABLES portState,  \* KPort::m_state
          queue,      \* KServerPort::m_session_list
          num, peak,  \* m_num_sessions, m_peak_sessions
          reserved,   \* the session resource in use
          session,    \* the slab: an object's stage and reference count
          refs,       \* reference counts of the KPort and of its two ends
          handles,    \* handles of the two ends of the port
          held,       \* sessions whose client end has a handle
          served,     \* sessions whose server end has a handle
          slock,      \* holder of the scheduler lock between two steps
          pc, arg,    \* where a thread is, and the session it works on
          seen,       \* cur_sessions or peak, new_sessions of CreateSession
          back        \* where it goes on after closing a session

portVars == <<portState, queue, refs, handles>>
countVars == <<num, peak>>
ownVars == <<held, served>>
localVars == <<pc, arg, seen, back>>
vars == <<portVars, countVars, reserved, session, ownVars, slock, localVars>>

Budget == INSTANCE ResourceBudget WITH used <- reserved, limit <- SessionLimit

FreeObject == [stage |-> "free", ref |-> 0]
FreeObjects == {s \in Sessions : session[s].stage = "free"}

Init ==
    /\ portState = "Normal" /\ queue = <<>>
    /\ num = 0 /\ peak = 0 /\ reserved = 0
    /\ session = [s \in Sessions |-> FreeObject]
    /\ refs = [port |-> 2, client |-> 1, server |-> 1]
    /\ handles = {"client", "server"}
    /\ held = {} /\ served = {}
    /\ slock = NoThread
    /\ pc = [t \in Threads |-> "user"] /\ arg = [t \in Threads |-> NoSession]
    /\ seen = [t \in Threads |-> [old |-> 0, new |-> 0]]
    /\ back = [t \in Threads |-> "user"]

-----------------------------------------------------------------------------
Goto(t, there) == pc' = [pc EXCEPT ![t] = there]
Unlocked == slock = NoThread

(* Where a thread sleeps on an end of the port, leaves and destroys it.    *)
AsleepOn(end) == IF end = "client" THEN "client asleep" ELSE "server asleep"
Leaving(end) == IF end = "client" THEN "client leave" ELSE "server leave"
Destroying(end) == IF end = "client" THEN "client destroy" ELSE "server destroy"

(* NotifyAvailable: the sleepers on an end return.                         *)
Woken(p, end) == [t \in Threads |-> IF p[t] = AsleepOn(end) THEN Leaving(end) ELSE p[t]]

(* Close of one end of a port by t, who then goes on to `there'; the last  *)
(* reference runs Destroy.                                                 *)
ClosePortEnd(t, end, there) ==
    /\ refs' = [refs EXCEPT ![end] = @ - 1]
    /\ back' = [back EXCEPT ![t] = there]
    /\ Goto(t, IF refs[end] = 1 THEN Destroying(end) ELSE there)

(* Close of one end of session s: it closes its parent, whose last         *)
(* reference finalizes the session (k_client_session.cpp,                  *)
(* k_server_session.cpp Destroy).                                          *)
CloseSessionEnd(t, s, there) ==
    /\ session' = [session EXCEPT ![s].ref = @ - 1]
    /\ IF session[s].ref = 1
       THEN /\ Goto(t, "finalize")
            /\ arg' = [arg EXCEPT ![t] = s] /\ back' = [back EXCEPT ![t] = there]
       ELSE Goto(t, there) /\ UNCHANGED <<arg, back>>

-----------------------------------------------------------------------------
(* KClientPort::CreateSession.  The caller holds a reference to the port.  *)
ConnectToPort(c) ==
    /\ pc[c] = "user" /\ "client" \in handles
    /\ refs' = [refs EXCEPT !.client = @ + 1]
    /\ Goto(c, "reserve")
    /\ UNCHANGED <<portState, queue, handles, countVars, reserved, session, ownVars,
                   slock, arg, seen, back>>

(* Sessions are released with as much hint as value, so that Reserve never *)
(* waits for one.                                                          *)
Reserve(c) ==
    /\ pc[c] = "reserve"
    /\ \/ Budget!Take(1) /\ Goto(c, "create")
       \/ ~(reserved + 1 <= SessionLimit) /\ Goto(c, "client leave") /\ UNCHANGED reserved
    /\ UNCHANGED <<portVars, countVars, session, ownVars, slock, arg, seen, back>>

(* KSession::Create.  It may fail whatever the limit says, since the slab  *)
(* also serves sessions charged to the other resource limits; then the     *)
(* reservation is undone.                                                  *)
Create(c) ==
    /\ pc[c] = "create"
    /\ \/ /\ back' = [back EXCEPT ![c] = "client leave"] /\ Goto(c, "release")
          /\ UNCHANGED <<session, arg>>
       \/ \E s \in FreeObjects :
             /\ session' = [session EXCEPT ![s] = [stage |-> "new", ref |-> 1]]
             /\ arg' = [arg EXCEPT ![c] = s]
             /\ Goto(c, "load") /\ UNCHANGED back
    /\ UNCHANGED <<portVars, countVars, reserved, ownVars, slock, seen>>

LoadSessions(c) ==
    /\ pc[c] = "load"
    /\ seen' = [seen EXCEPT ![c].old = num]
    /\ Goto(c, "count")
    /\ UNCHANGED <<portVars, countVars, reserved, session, ownVars, slock, arg, back>>

(* ResultOutOfSessions: the session, which is not initialised, is only     *)
(* freed, and the reservation released.                                    *)
(* A bug: the session is not freed.                                        *)
OutOfSessionsKeepsObject(c) ==
    /\ pc[c] = "count" /\ seen[c].old >= MaxSessions
    /\ back' = [back EXCEPT ![c] = "client leave"]
    /\ Goto(c, "release")
    /\ UNCHANGED <<portVars, countVars, reserved, session, ownVars, slock, arg, seen>>

OutOfSessions(c) ==
    /\ pc[c] = "count" /\ seen[c].old >= MaxSessions
    /\ back' = [back EXCEPT ![c] = "client leave"]
    /\ seen' = [seen EXCEPT ![c].old = 0]
    /\ Goto(c, "free")
    /\ UNCHANGED <<portVars, countVars, reserved, session, ownVars, slock, arg>>

(* The compare-and-swap; a failed one reloads.                             *)
(* A bug: an unconditional store.                                          *)
CountSessionBlindly(c) ==
    /\ pc[c] = "count" /\ seen[c].old < MaxSessions
    /\ num' = seen[c].old + 1
    /\ seen' = [seen EXCEPT ![c].new = seen[c].old + 1]
    /\ Goto(c, "load peak")
    /\ UNCHANGED <<portVars, peak, reserved, session, ownVars, slock, arg, back>>

CountSession(c) ==
    /\ pc[c] = "count" /\ seen[c].old < MaxSessions
    /\ IF num = seen[c].old
       THEN /\ num' = num + 1
            /\ seen' = [seen EXCEPT ![c].new = num + 1]
            /\ Goto(c, "load peak")
       ELSE /\ seen' = [seen EXCEPT ![c].old = num] /\ UNCHANGED <<num, pc>>
    /\ UNCHANGED <<portVars, peak, reserved, session, ownVars, slock, arg, back>>

LoadPeak(c) ==
    /\ pc[c] = "load peak"
    /\ seen' = [seen EXCEPT ![c].old = peak]
    /\ Goto(c, "peak")
    /\ UNCHANGED <<portVars, countVars, reserved, session, ownVars, slock, arg, back>>

UpdatePeak(c) ==
    /\ pc[c] = "peak"
    /\ IF seen[c].old >= seen[c].new \/ peak = seen[c].old
       THEN /\ peak' = IF seen[c].old >= seen[c].new THEN peak ELSE seen[c].new
            /\ seen' = [seen EXCEPT ![c] = [old |-> 0, new |-> 0]]
            /\ Goto(c, "initialize")
       ELSE seen' = [seen EXCEPT ![c].old = peak] /\ UNCHANGED <<peak, pc>>
    /\ UNCHANGED <<portVars, num, reserved, session, ownVars, slock, arg, back>>

(* KSession::Initialize with a reference to the port; the reservation is   *)
(* committed, and so belongs to the session.                               *)
(* A bug: the session holds no reference to the port.                      *)
InitializeUnreferenced(c) ==
    /\ pc[c] = "initialize"
    /\ session' = [session EXCEPT ![arg[c]] = [stage |-> "live", ref |-> 2]]
    /\ Goto(c, "enqueue")
    /\ UNCHANGED <<portVars, countVars, reserved, ownVars, slock, arg, seen, back>>

Initialize(c) ==
    /\ pc[c] = "initialize"
    /\ session' = [session EXCEPT ![arg[c]] = [stage |-> "live", ref |-> 2]]
    /\ refs' = [refs EXCEPT !.client = @ + 1]
    /\ Goto(c, "enqueue")
    /\ UNCHANGED <<portState, queue, handles, countVars, reserved, ownVars, slock,
                   arg, seen, back>>

(* KPort::EnqueueSession.                                                  *)
(* A bug: a closed port still takes the session.                           *)
EnqueueWhenClosed(c) ==
    /\ pc[c] = "enqueue" /\ Unlocked
    /\ queue' = Append(queue, arg[c])
    /\ held' = held \cup {arg[c]}
    /\ pc' = [(IF queue = <<>> THEN Woken(pc, "server") ELSE pc) EXCEPT ![c] = "client leave"]
    /\ arg' = [arg EXCEPT ![c] = NoSession]
    /\ UNCHANGED <<portState, refs, handles, countVars, reserved, session, served,
                   slock, seen, back>>

EnqueueSession(c) ==
    /\ pc[c] = "enqueue" /\ Unlocked
    /\ portState = "Normal"
    /\ queue' = Append(queue, arg[c])
    /\ held' = held \cup {arg[c]}
    /\ pc' = [(IF queue = <<>> THEN Woken(pc, "server") ELSE pc) EXCEPT ![c] = "client leave"]
    /\ arg' = [arg EXCEPT ![c] = NoSession]
    /\ UNCHANGED <<portState, refs, handles, countVars, reserved, session, served,
                   slock, seen, back>>

(* ResultPortClosed: both ends of the new session are closed.              *)
EnqueueRefused(c) ==
    /\ pc[c] = "enqueue" /\ Unlocked
    /\ portState # "Normal"
    /\ Goto(c, "refused")
    /\ UNCHANGED <<portVars, countVars, reserved, session, ownVars, slock, arg, seen, back>>

RefusedClosesClient(c) ==
    /\ pc[c] = "refused"
    /\ CloseSessionEnd(c, arg[c], "refused server")
    /\ UNCHANGED <<portVars, countVars, reserved, ownVars, slock, seen>>

RefusedClosesServer(c) ==
    /\ pc[c] = "refused server"
    /\ CloseSessionEnd(c, arg[c], "client leave")
    /\ UNCHANGED <<portVars, countVars, reserved, ownVars, slock, seen>>

-----------------------------------------------------------------------------
(* The end of a session: KAutoObjectWithSlabHeapAndContainer::Destroy.     *)

(* KSession::Finalize, KClientPort::OnSessionFinalized.                    *)
(* A bug: the waiters are notified when the port becomes empty.            *)
OnSessionFinalizedNotifiesEmpty(t) ==
    /\ pc[t] = "finalize" /\ Unlocked
    /\ num' = num - 1
    /\ IF num = 1 THEN Goto(t, "notify") /\ slock' = t
                  ELSE Goto(t, "close port") /\ UNCHANGED slock
    /\ UNCHANGED <<portVars, peak, reserved, session, ownVars, arg, seen, back>>

OnSessionFinalized(t) ==
    /\ pc[t] = "finalize" /\ Unlocked
    /\ num' = num - 1
    /\ IF num = MaxSessions THEN Goto(t, "notify") /\ slock' = t
                            ELSE Goto(t, "close port") /\ UNCHANGED slock
    /\ UNCHANGED <<portVars, peak, reserved, session, ownVars, arg, seen, back>>

(* NotifyAvailable asks IsSignaled again.                                  *)
NotifyAvailable(t) ==
    /\ pc[t] = "notify"
    /\ slock' = NoThread
    /\ pc' = [(IF num < MaxSessions THEN Woken(pc, "client") ELSE pc) EXCEPT ![t] = "close port"]
    /\ UNCHANGED <<portVars, countVars, reserved, session, ownVars, arg, seen, back>>

(* m_port->Close(), and the client port's Destroy if it was the last.      *)
FinalizeClosesPort(t) ==
    /\ pc[t] = "close port"
    /\ refs.client = 1 => Unlocked
    /\ refs' = [refs EXCEPT !.client = @ - 1,
                            !.port = IF refs.client = 1 THEN @ - 1 ELSE @]
    /\ portState' = IF refs.client = 1 /\ portState = "Normal" THEN "ClientClosed" ELSE portState
    /\ Goto(t, "free")
    /\ UNCHANGED <<queue, handles, countVars, reserved, session, ownVars, slock, arg, seen, back>>

Free(t) ==
    /\ pc[t] = "free"
    /\ session' = [session EXCEPT ![arg[t]] = FreeObject]
    /\ arg' = [arg EXCEPT ![t] = NoSession]
    /\ Goto(t, "release")
    /\ UNCHANGED <<portVars, countVars, reserved, ownVars, slock, seen, back>>

(* KSession::PostDestroy, and the destructor of an uncommitted reservation. *)
Release(t) ==
    /\ pc[t] = "release"
    /\ Budget!Give(1)
    /\ Goto(t, back[t]) /\ back' = [back EXCEPT ![t] = "user"]
    /\ UNCHANGED <<portVars, countVars, session, ownVars, slock, arg, seen>>

-----------------------------------------------------------------------------
(* The handles of sessions, and the server's side.                         *)
CloseClientSession(t, s) ==
    /\ t \in Clients /\ pc[t] = "user" /\ s \in held
    /\ held' = held \ {s}
    /\ CloseSessionEnd(t, s, "user")
    /\ UNCHANGED <<portVars, countVars, reserved, served, slock, seen>>

CloseServerSession(t, s) ==
    /\ t \in Servers /\ pc[t] = "user" /\ s \in served
    /\ served' = served \ {s}
    /\ CloseSessionEnd(t, s, "user")
    /\ UNCHANGED <<portVars, countVars, reserved, held, slock, seen>>

(* WaitSynchronization on an end of the port, which it refers to.          *)
Wait(t, end) ==
    /\ pc[t] = "user" /\ end \in handles /\ Unlocked
    /\ t \in IF end = "client" THEN Clients ELSE Servers
    /\ refs' = [refs EXCEPT ![end] = @ + 1]
    /\ LET signaled == IF end = "client" THEN num < MaxSessions ELSE queue # <<>>
       IN  Goto(t, IF signaled THEN Leaving(end) ELSE AsleepOn(end))
    /\ UNCHANGED <<portState, queue, handles, countVars, reserved, session, ownVars,
                   slock, arg, seen, back>>

(* svc::AcceptSession, atomic but for its reference to the port.           *)
AcceptSession(s) ==
    /\ pc[s] = "user" /\ "server" \in handles /\ Unlocked /\ queue # <<>>
    /\ queue' = Tail(queue)
    /\ served' = served \cup {Head(queue)}
    /\ refs' = [refs EXCEPT !.server = @ + 1]
    /\ Goto(s, "server leave")
    /\ UNCHANGED <<portState, handles, countVars, reserved, session, held, slock,
                   arg, seen, back>>

(* A call returns and closes its reference to the end of the port.         *)
Leave(t, end) ==
    /\ pc[t] = Leaving(end)
    /\ ClosePortEnd(t, end, "user")
    /\ UNCHANGED <<portState, queue, handles, countVars, reserved, session, ownVars,
                   slock, arg, seen>>

CloseHandle(t, end) ==
    /\ pc[t] = "user" /\ end \in handles
    /\ t \in IF end = "client" THEN Clients ELSE Servers
    /\ handles' = handles \ {end}
    /\ ClosePortEnd(t, end, "user")
    /\ UNCHANGED <<portState, queue, countVars, reserved, session, ownVars, slock, arg, seen>>

(* KClientPort::Destroy: OnClientClosed, and the KPort's reference.        *)
DestroyClientPort(t) ==
    /\ pc[t] = "client destroy" /\ Unlocked
    /\ portState' = IF portState = "Normal" THEN "ClientClosed" ELSE portState
    /\ refs' = [refs EXCEPT !.port = @ - 1]
    /\ Goto(t, back[t])
    /\ UNCHANGED <<queue, handles, countVars, reserved, session, ownVars, slock,
                   arg, seen, back>>

(* KServerPort::Destroy: OnServerClosed, then CleanupSessions pops the     *)
(* queued sessions one by one and closes them, then the KPort's reference. *)
OnServerClosed(t) ==
    /\ pc[t] = "server destroy" /\ Unlocked
    /\ portState' = IF portState = "Normal" THEN "ServerClosed" ELSE portState
    /\ Goto(t, "cleanup")
    /\ UNCHANGED <<queue, refs, handles, countVars, reserved, session, ownVars, slock,
                   arg, seen, back>>

CleanupPop(t) ==
    /\ pc[t] = "cleanup" /\ Unlocked /\ queue # <<>>
    /\ queue' = Tail(queue)
    /\ arg' = [arg EXCEPT ![t] = Head(queue)]
    /\ Goto(t, "cleanup close")
    /\ UNCHANGED <<portState, refs, handles, countVars, reserved, session, ownVars,
                   slock, seen, back>>

(* A bug: the session is dropped without being closed.                     *)
CleanupCloseForgets(t) ==
    /\ pc[t] = "cleanup close"
    /\ Goto(t, "cleanup")
    /\ UNCHANGED <<portVars, countVars, reserved, session, ownVars, slock, arg, seen, back>>

CleanupClose(t) ==
    /\ pc[t] = "cleanup close"
    /\ CloseSessionEnd(t, arg[t], "cleanup")
    /\ UNCHANGED <<portVars, countVars, reserved, ownVars, slock, seen>>

CleanupReturns(t) ==
    /\ pc[t] = "cleanup" /\ Unlocked /\ queue = <<>>
    /\ refs' = [refs EXCEPT !.port = @ - 1]
    /\ arg' = [arg EXCEPT ![t] = NoSession]
    /\ Goto(t, "user")
    /\ UNCHANGED <<portState, queue, handles, countVars, reserved, session, ownVars,
                   slock, seen, back>>

-----------------------------------------------------------------------------
Step(t) ==
    \/ t \in Clients /\ \/ Reserve(t) \/ Create(t) \/ LoadSessions(t) \/ OutOfSessions(t)
                        \/ CountSession(t) \/ LoadPeak(t) \/ UpdatePeak(t) \/ Initialize(t)
                        \/ EnqueueSession(t) \/ EnqueueRefused(t)
                        \/ RefusedClosesClient(t) \/ RefusedClosesServer(t)
                        \/ Leave(t, "client") \/ DestroyClientPort(t)
    \/ t \in Servers /\ \/ Leave(t, "server") \/ OnServerClosed(t)
                        \/ CleanupPop(t) \/ CleanupClose(t) \/ CleanupReturns(t)
    \/ OnSessionFinalized(t) \/ NotifyAvailable(t) \/ FinalizeClosesPort(t)
    \/ Free(t) \/ Release(t)

Next ==
    \/ \E c \in Clients : ConnectToPort(c)
    \/ \E s \in Servers : AcceptSession(s)
    \/ \E t \in Threads : \/ \E s \in Sessions : CloseClientSession(t, s) \/ CloseServerSession(t, s)
                          \/ \E end \in {"client", "server"} : Wait(t, end) \/ CloseHandle(t, end)
                          \/ Step(t)

Spec == Init /\ [][Next]_vars
FairSpec == Spec /\ \A t \in Threads : WF_vars(Step(t))

-----------------------------------------------------------------------------
TypeOK ==
    /\ portState \in {"Normal", "ClientClosed", "ServerClosed"}
    /\ queue \in Seq(Sessions)
    /\ num \in 0 .. MaxSessions /\ peak \in 0 .. MaxSessions
    /\ reserved \in 0 .. SessionLimit
    /\ session \in [Sessions -> [stage : {"free", "new", "live"}, ref : 0 .. 2]]
    /\ refs \in [port : Nat, client : Nat, server : Nat]
    /\ handles \subseteq {"client", "server"}
    /\ held \subseteq Sessions /\ served \subseteq Sessions
    /\ slock \in Threads \cup {NoThread}
    /\ arg \in [Threads -> Sessions \cup {NoSession}]

At(places) == {t \in Threads : pc[t] \in places}
Allocated == {s \in Sessions : session[s].stage # "free"}
Live == {s \in Sessions : session[s].stage = "live"}

(* m_num_sessions is the number of sessions opened through the port and    *)
(* not yet finalized, though it is raised without the lock under which it  *)
(* is lowered (k_client_port.cpp CreateSession, OnSessionFinalized).       *)
Finalized(s) == \E t \in At({"notify", "close port", "free"}) : arg[t] = s
SessionsCounted ==
    num = Cardinality({s \in Live : ~Finalized(s)})
          + Cardinality(At({"load peak", "peak", "initialize"}))

(* The resource in use is exactly what the allocated sessions and the      *)
(* calls that hold a reservation stand for, whichever way CreateSession    *)
(* fails (no object, port full, port closed): no path releases it twice or *)
(* forgets it.                                                             *)
ReservationsExact ==
    reserved = Cardinality(Allocated) + Cardinality(At({"create", "release"}))

(* The peak covers the count, except that of a thread that has yet to      *)
(* record its own.                                                         *)
PeakCoversCount ==
    At({"load peak", "peak"}) = {} => num <= peak

(* Once the server port is closed no session is left in its queue, where   *)
(* nobody would close it, unless CleanupSessions is still at work.         *)
NoStrandedSession ==
    queue # <<>> => refs.server > 0 \/ At({"server destroy", "cleanup", "cleanup close"}) # {}
                    \/ \E t \in Threads : back[t] = "cleanup"

(* Nobody sleeps on a port that has what he waits for.  A client sleeps    *)
(* through a free place only while the finalizing thread is about to       *)
(* notify it.                                                              *)
SleepersHaveReason ==
    /\ At({"server asleep"}) # {} => queue = <<>>
    /\ At({"client asleep"}) # {} => num = MaxSessions \/ At({"notify"}) # {}

(* The port outlives its sessions and the calls on it; only freeing a      *)
(* finalized session and releasing its reservation may come later.         *)
PortOutlivesUse ==
    \/ refs.port > 0
    \/ At({"user", "free", "release"}) = Threads /\ \A s \in Live : session[s].ref = 0

Idle == handles = {} /\ held = {} /\ served = {}
Asleep == At({"client asleep", "server asleep"}) # {}

(* Once every handle is closed the port, its sessions and the resource are *)
(* given back, unless a thread still sleeps on an end of the port.         *)
PortReclaimed ==
    [](Idle => <>(~Idle \/ Asleep \/ (refs.port = 0 /\ Allocated = {} /\ reserved = 0)))

(* The two counters of the port, changed with no lock, are exact and       *)
(* within their bounds (TypeOK).                                           *)
CountersExact ==
    /\ TypeOK
    /\ SessionsCounted
    /\ PeakCoversCount
=============================================================================

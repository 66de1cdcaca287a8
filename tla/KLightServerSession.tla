------------------------ MODULE KLightServerSession ------------------------
(***************************************************************************)
(* A light session: KLightSession and its two ends, KLightServerSession    *)
(* and KLightClientSession (core/hle/kernel/k_light_server_session.cpp,    *)
(* k_light_session.cpp, k_light_client_session.cpp, svc/svc_light_ipc.cpp).*)
(*                                                                         *)
(* A section under the scheduler lock is one step, with one exception: the *)
(* loop of CleanupRequests over the request list, which holds the lock     *)
(* from its first step to its last and is walked node by node, because it  *)
(* follows the links of nodes that its own body takes out of the list.     *)
(* The seven words of a message are left out.                              *)
(***************************************************************************)
EXTENDS Naturals, Sequences, SequencesExt, FiniteSets

CONSTANTS Clients,      \* threads of the client process
          Servers,      \* threads of the server process
          Terminable,   \* threads whose termination may be requested
          NoThread

Threads == Clients \cup Servers
Ends == {"client", "server"}
EndOf(t) == IF t \in Clients THEN "client" ELSE "server"

VARIABLES state,          \* KLightSession::m_state
          list,           \* m_request_list
          current,        \* m_current_request
          serverId,       \* m_server_thread_id
          serverThread,   \* m_server_thread
          sched,          \* the thread that holds the scheduler lock in a cleanup
          it,             \* the iterator of its loop
          refs,           \* reference counts of the session and of its two ends
          handles,        \* the ends a handle table still refers to
          pc, doomed      \* where a thread is; the ones asked to terminate

requestVars == <<list, current, serverId, serverThread>>
cleanupVars == <<sched, it>>
objectVars == <<refs, handles>>
vars == <<state, requestVars, cleanupVars, objectVars, pc, doomed>>

Init ==
    /\ state = "Normal"
    /\ list = <<>> /\ current = NoThread
    /\ serverId = NoThread /\ serverThread = NoThread
    /\ sched = NoThread /\ it = NoThread
    /\ refs = [session |-> 2, client |-> 1, server |-> 1] /\ handles = Ends
    /\ pc = [t \in Threads |-> "user"] /\ doomed = {}

-----------------------------------------------------------------------------
IsClosed == state # "Normal"
Goto(t, there) == pc' = [pc EXCEPT ![t] = there]
Unlocked == sched = NoThread

(* A waiting client is linked in the list.  EndWait and CancelWait of      *)
(* ThreadQueueImplForKLightServerSessionRequest take it out.               *)
Waiting(c) == pc[c] = "waiting"
Erase(c) == SelectSeq(list, LAMBDA x : x # c)

(* ++it.  IntrusiveListNode::Unlink leaves a node that points to itself;   *)
(* NoThread stands for end().                                              *)
NextNode(c, l) ==
    IF ~Contains(l, c) THEN c
    ELSE LET i == CHOOSE i \in DOMAIN l : l[i] = c
         IN  IF i = Len(l) THEN NoThread ELSE l[i + 1]

(* KAutoObject::Close of an end; the last reference runs Destroy.          *)
CloseEnd(t) ==
    /\ refs' = [refs EXCEPT ![EndOf(t)] = @ - 1]
    /\ Goto(t, IF refs[EndOf(t)] = 1 THEN EndOf(t) \o " destroy" ELSE "user")

(* The SVCs find the end through its handle and hold it until they return. *)
Call(t, there) ==
    /\ pc[t] = "user" /\ EndOf(t) \in handles /\ t \notin doomed
    /\ refs' = [refs EXCEPT ![EndOf(t)] = @ + 1]
    /\ Goto(t, there)
    /\ UNCHANGED <<state, requestVars, cleanupVars, handles, doomed>>

Return(t) ==
    /\ pc[t] = "return"
    /\ CloseEnd(t)
    /\ UNCHANGED <<state, requestVars, cleanupVars, handles, doomed>>

CloseHandle(t) ==
    /\ pc[t] = "user" /\ EndOf(t) \in handles
    /\ handles' = handles \ {EndOf(t)}
    /\ CloseEnd(t)
    /\ UNCHANGED <<state, requestVars, cleanupVars, doomed>>

(* KThread::RequestTerminate cancels a wait.                               *)
RequestTerminate(t) ==
    /\ Unlocked /\ t \in Terminable \ doomed
    /\ doomed' = doomed \cup {t}
    /\ Goto(t, IF pc[t] \in {"waiting", "asleep"} THEN "return" ELSE pc[t])
    /\ list' = Erase(t)
    /\ serverThread' = IF serverThread = t THEN NoThread ELSE serverThread
    /\ UNCHANGED <<state, current, serverId, cleanupVars, objectVars>>

-----------------------------------------------------------------------------
(* KLightServerSession::OnRequest.                                         *)
SendSyncRequest(c) == Call(c, "request")

OnRequestRefused(c) ==
    /\ Unlocked /\ pc[c] = "request" /\ (IsClosed \/ c \in doomed)
    /\ Goto(c, "return")
    /\ UNCHANGED <<state, requestVars, cleanupVars, objectVars, doomed>>

OnRequest(c) ==
    /\ Unlocked /\ pc[c] = "request" /\ ~IsClosed /\ c \notin doomed
    /\ list' = Append(list, c)
    /\ pc' = [t \in Threads |-> IF t = c THEN "waiting"
                                ELSE IF t = serverThread THEN "receive" ELSE pc[t]]
    /\ serverThread' = NoThread
    /\ UNCHANGED <<state, current, serverId, cleanupVars, objectVars, doomed>>

-----------------------------------------------------------------------------
(* KLightServerSession::ReplyAndReceive, with and without ReplyFlag.       *)
ReplyAndReceive(s) == \E there \in {"reply", "receive"} : Call(s, there)

CanReply(s) == ~IsClosed /\ current # NoThread /\ serverId = s

ReplyFails(s) ==
    /\ Unlocked /\ pc[s] = "reply" /\ ~CanReply(s)
    /\ Goto(s, "return")
    /\ UNCHANGED <<state, requestVars, cleanupVars, objectVars, doomed>>

Reply(s) ==
    /\ Unlocked /\ pc[s] = "reply" /\ CanReply(s)
    /\ LET ends == current \notin doomed /\ Waiting(current) IN
       /\ list' = IF ends THEN Erase(current) ELSE list
       /\ pc' = [pc EXCEPT ![s] = "receive", ![current] = IF ends THEN "return" ELSE @]
    /\ current' = NoThread /\ serverId' = NoThread
    /\ UNCHANGED <<state, serverThread, cleanupVars, objectVars, doomed>>

MayReceive(s) ==
    serverThread = NoThread /\ serverId = NoThread /\ ~IsClosed /\ s \notin doomed

ReceiveFails(s) ==
    /\ Unlocked /\ pc[s] = "receive" /\ ~MayReceive(s)
    /\ Goto(s, "return")
    /\ UNCHANGED <<state, requestVars, cleanupVars, objectVars, doomed>>

(* The request stays in the list until it is answered.                     *)
Receive(s) ==
    /\ Unlocked /\ pc[s] = "receive" /\ MayReceive(s) /\ list # <<>>
    /\ current' = Head(list) /\ serverId' = s
    /\ Goto(s, "return")
    /\ UNCHANGED <<state, list, serverThread, cleanupVars, objectVars, doomed>>

ReceiveWaits(s) ==
    /\ Unlocked /\ pc[s] = "receive" /\ MayReceive(s) /\ list = <<>>
    /\ serverThread' = s
    /\ Goto(s, "asleep")
    /\ UNCHANGED <<state, list, current, serverId, cleanupVars, objectVars, doomed>>

(* svcCancelSynchronization ends the wait, or had left its flag.           *)
ReceiveCancelled(s) ==
    /\ Unlocked
    /\ \/ pc[s] = "asleep"
       \/ pc[s] = "receive" /\ MayReceive(s) /\ list = <<>>
    /\ serverThread' = NoThread
    /\ Goto(s, "return")
    /\ UNCHANGED <<state, list, current, serverId, cleanupVars, objectVars, doomed>>

-----------------------------------------------------------------------------
(* KLightServerSession::CleanupRequests, called by t.  First the current   *)
(* request: its client is answered, unless it is terminating.              *)
CleanupCurrent(t) ==
    /\ Unlocked /\ pc[t] \in {"server destroy", "client cleanup"}
    /\ LET ends == current # NoThread /\ current \notin doomed /\ Waiting(current)
           l == IF ends THEN Erase(current) ELSE list
       IN  /\ list' = l
           /\ it' = IF l = <<>> THEN NoThread ELSE Head(l)
           /\ pc' = [c \in Threads |-> IF ends /\ c = current THEN "return"
                                       ELSE IF c = t THEN EndOf(t) \o " loop" ELSE pc[c]]
    /\ sched' = t
    /\ current' = NoThread /\ serverId' = NoThread
    /\ UNCHANGED <<state, serverThread, objectVars, doomed>>

(* Then `for (auto& thread : m_request_list) thread.EndWait(...)'.         *)
CleanupNext(t) ==
    /\ sched = t /\ it # NoThread
    /\ list' = Erase(it)
    /\ Goto(it, IF Waiting(it) THEN "return" ELSE pc[it])
    /\ it' = NextNode(it, Erase(it))
    /\ UNCHANGED <<state, current, serverId, serverThread, sched, objectVars, doomed>>

(* Last the server thread that waits for a request, with a failing result. *)
CleanupReturns(t) ==
    /\ sched = t /\ it = NoThread
    /\ pc' = [s \in Threads |-> IF s = t THEN EndOf(t) \o " closed"
                                ELSE IF s = serverThread THEN "return" ELSE pc[s]]
    /\ serverThread' = NoThread /\ sched' = NoThread
    /\ UNCHANGED <<state, list, current, serverId, it, objectVars, doomed>>

-----------------------------------------------------------------------------
(* Destroy of the client end: KLightSession::OnClientClosed tests the      *)
(* state, sets it with no lock, and has the server end clean up.           *)
DestroyClient(t) ==
    /\ pc[t] = "client destroy"
    /\ Goto(t, IF IsClosed THEN "client closed" ELSE "client closing")
    /\ UNCHANGED <<state, requestVars, cleanupVars, objectVars, doomed>>

OnClientClosed(t) ==
    /\ pc[t] = "client closing"
    /\ state' = "ClientClosed"
    /\ Goto(t, "client cleanup")
    /\ UNCHANGED <<requestVars, cleanupVars, objectVars, doomed>>

(* Destroy of the server end: the cleanup comes first, then                *)
(* KLightSession::OnServerClosed.                                          *)
OnServerClosed(t) ==
    /\ pc[t] = "server closed"
    /\ state' = IF IsClosed THEN state ELSE "ServerClosed"
    /\ Goto(t, "closed")
    /\ UNCHANGED <<requestVars, cleanupVars, objectVars, doomed>>

CloseSession(t) ==
    /\ pc[t] \in {"client closed", "closed"}
    /\ refs' = [refs EXCEPT !.session = @ - 1]
    /\ Goto(t, "user")
    /\ UNCHANGED <<state, requestVars, cleanupVars, handles, doomed>>

-----------------------------------------------------------------------------
ClientStep(c) == OnRequest(c) \/ OnRequestRefused(c)

ServerStep(s) ==
    \/ Reply(s) \/ ReplyFails(s)
    \/ Receive(s) \/ ReceiveFails(s) \/ ReceiveWaits(s) \/ ReceiveCancelled(s)

CloseStep(t) ==
    \/ Return(t)
    \/ CleanupCurrent(t) \/ CleanupNext(t) \/ CleanupReturns(t)
    \/ DestroyClient(t) \/ OnClientClosed(t) \/ OnServerClosed(t)
    \/ CloseSession(t)

Next ==
    \/ \E c \in Clients : SendSyncRequest(c) \/ ClientStep(c)
    \/ \E s \in Servers : ReplyAndReceive(s) \/ ServerStep(s)
    \/ \E t \in Threads : CloseStep(t) \/ CloseHandle(t) \/ RequestTerminate(t)

Spec == Init /\ [][Next]_vars

(* A thread inside the kernel runs on; the scheduler lock is fair.  No     *)
(* thread needs to make a call, and no wait needs to be cancelled.         *)
FairSpec ==
    /\ Spec
    /\ \A c \in Clients : SF_vars(ClientStep(c))
    /\ \A s \in Servers : SF_vars(ServerStep(s) /\ pc[s] # "asleep")
    /\ \A t \in Threads : SF_vars(CloseStep(t))

-----------------------------------------------------------------------------
(* Every client whose request is queued when CleanupRequests takes the     *)
(* scheduler lock is answered: '// Reply to all other requests.'           *)
CleanupRepliesToAll ==
    \A c \in Clients : (sched # NoThread /\ Waiting(c)) ~> ~Waiting(c)
=============================================================================

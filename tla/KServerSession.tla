--------------------------- MODULE KServerSession ---------------------------
(***************************************************************************)
(* An IPC session: KSession and its two ends, KServerSession and           *)
(* KClientSession, with the KSessionRequests that pass between them        *)
(* (core/hle/kernel/k_session.cpp, k_server_session.cpp,                   *)
(* k_client_session.cpp, k_session_request.h, svc/svc_ipc.cpp).            *)
(*                                                                         *)
(* A section under the scheduler lock is one step.  Everything else that   *)
(* two threads may interleave is a step of its own: the unsynchronised     *)
(* test and assignment of the session's state, the light lock m_lock (here *)
(* plain mutual exclusion), m_current_request set outside the scheduler    *)
(* lock, the reply after the request was taken, every Close.  Requests are *)
(* numbered in the order of their creation and never reused.               *)
(***************************************************************************)
EXTENDS Naturals, Sequences, SequencesExt, FiniteSets

CONSTANTS Clients,      \* threads of the client process
          Servers,      \* threads of the server process
          Terminable,   \* clients whose process may be terminated
          MaxRequests,  \* bound on the requests created
          NoRequest, NoThread

Threads == Clients \cup Servers
Requests == 1 .. MaxRequests

ASSUME SessionAssumption ==
    /\ IsFiniteSet(Clients) /\ IsFiniteSet(Servers)
    /\ Clients \cap Servers = {} /\ Terminable \subseteq Clients
    /\ NoThread \notin Threads
    /\ MaxRequests \in Nat /\ NoRequest \notin Requests

VARIABLES state,      \* KSession::m_atomic_state
          list,       \* m_request_list
          current,    \* m_current_request
          mlock,      \* the holder of m_lock
          refs,       \* reference counts of the KSession and of its two ends
          handles,    \* the ends a handle table still refers to
          req,        \* the KSessionRequests
          created,    \* how many there have been
          pc, arg,    \* where a thread is, and the request it holds
          prev,       \* prev_request of KServerSession::OnClientClosed
          doomed,     \* threads whose termination was requested
          accepted,   \* asynchronous requests whose sender was told they were accepted
          opened,     \* references to client threads held by this session
          signals     \* how often a request's event was signalled

queueVars == <<list, current, mlock>>
objectVars == <<refs, handles>>
clientVars == <<doomed, accepted, opened, signals>>
vars == <<state, queueVars, objectVars, req, created, pc, arg, prev, clientVars>>

(* A request before Initialize; `bound' says that m_thread is not null.    *)
NewRequest == [ref |-> 0, owner |-> NoThread, event |-> FALSE, bound |-> FALSE]
Freed(r) == req[r].owner # NoThread /\ req[r].ref = 0

Init ==
    /\ state = "Normal"
    /\ list = <<>> /\ current = NoRequest /\ mlock = NoThread
    /\ refs = [session |-> 2, client |-> 1, server |-> 1]
    /\ handles = {"client", "server"}
    /\ req = [r \in Requests |-> NewRequest] /\ created = 0
    /\ pc = [t \in Threads |-> "user"] /\ arg = [t \in Threads |-> NoRequest]
    /\ prev = NoRequest
    /\ doomed = {} /\ accepted = {}
    /\ opened = [c \in Clients |-> 0] /\ signals = [r \in Requests |-> 0]

-----------------------------------------------------------------------------
(* Building blocks.                                                        *)
Goto(t, there) == pc' = [pc EXCEPT ![t] = there]
Destroying(end) == IF end = "client" THEN "client_destroy" ELSE "server_destroy"
Closing(end) == IF end = "client" THEN "client_closing" ELSE "server_closing"
Cleaning(end) == IF end = "client" THEN "client_cleanup" ELSE "server_cleanup"
IsClosed(s) == s # "Normal"

IsSignaled(s, l, c) == IsClosed(s) \/ (l # <<>> /\ c = NoRequest)

(* The program counters after NotifyAvailable, when the object has become  *)
(* (s, l, c): a successful wait goes on to receive, a failed one returns.  *)
Notified(p, s, l, c, outcome) ==
    IF IsSignaled(s, l, c)
    THEN [t \in Threads |->
            IF p[t] # "asleep" THEN p[t]
            ELSE IF outcome = "Success" THEN "receive" ELSE "server_done"]
    ELSE p

(* The current request was taken: a server is told of the requests behind  *)
(* it, if there are any.                                                   *)
NextAnnounced == IF list # <<>> THEN Notified(pc, state, list, NoRequest, "Success") ELSE pc

(* KSessionRequest::Close, and at zero Finalize and Free.                  *)
CloseRequest(r, rq) ==
    /\ req' = [rq EXCEPT ![r].ref = @ - 1]
    /\ opened' = IF rq[r].ref = 1 /\ rq[r].bound
                 THEN [opened EXCEPT ![rq[r].owner] = @ - 1] ELSE opened

(* KAutoObject::Close of one end by t; whoever drops the last reference    *)
(* runs Destroy.                                                           *)
CloseEnd(t, end) ==
    /\ refs' = [refs EXCEPT ![end] = @ - 1]
    /\ Goto(t, IF refs[end] = 1 THEN Destroying(end) ELSE "user")

(* m_parent->Close(), the last thing an end does; at zero the KSession     *)
(* itself goes away.                                                       *)
CloseParent == refs' = [refs EXCEPT !.session = @ - 1]

(* The client's answer, whatever its result: the event of an asynchronous  *)
(* request, the end of the wait of a synchronous one unless its thread is  *)
(* terminating.  Thread t goes on to `there'.                              *)
Answer(r, t, there) ==
    LET c == req[r].owner
        ends == ~req[r].event /\ c \notin doomed /\ pc[c] = "waiting"
    IN  /\ pc' = [pc EXCEPT ![t] = there, ![c] = IF ends THEN "sent" ELSE @]
        /\ signals' = [signals EXCEPT ![r] = IF req[r].event THEN @ + 1 ELSE @]

-----------------------------------------------------------------------------
(* The client.                                                             *)

(* SendSyncRequest and SendAsyncRequest up to OnRequest: references to the *)
(* end and to its parent, and a new request with one reference.            *)
SendRequest(c, async) ==
    /\ pc[c] = "user" /\ "client" \in handles /\ c \notin doomed
    /\ created < MaxRequests
    /\ created' = created + 1
    /\ refs' = [refs EXCEPT !.client = @ + 1, !.session = @ + 1]
    /\ req' = [req EXCEPT ![created + 1] =
                 [ref |-> 1, owner |-> c, event |-> async, bound |-> TRUE]]
    /\ opened' = [opened EXCEPT ![c] = @ + 1]
    /\ arg' = [arg EXCEPT ![c] = created + 1]
    /\ Goto(c, "send")
    /\ UNCHANGED <<state, queueVars, handles, prev, doomed, accepted, signals>>

OnRequestRefused(c) ==
    /\ pc[c] = "send"
    /\ IsClosed(state) \/ c \in doomed
    /\ Goto(c, "sent")
    /\ UNCHANGED <<state, queueVars, objectVars, req, created, arg, prev, clientVars>>

(* R_SUCCEED_IF: the sender of an asynchronous request is told at once.    *)
Accept(r) == accepted' = IF req[r].event THEN accepted \cup {r} ELSE accepted

(* A bug: a closed session still accepts.                                  *)
OnRequestWhenClosed(c) ==
    /\ pc[c] = "send" /\ c \notin doomed
    /\ LET l == Append(list, arg[c])
           p == IF list = <<>> THEN Notified(pc, state, l, current, "Success") ELSE pc
       IN  /\ list' = l
           /\ pc' = [p EXCEPT ![c] = IF req[arg[c]].event THEN "sent" ELSE "waiting"]
    /\ req' = [req EXCEPT ![arg[c]].ref = @ + 1]
    /\ Accept(arg[c])
    /\ UNCHANGED <<state, current, mlock, objectVars, created, arg, prev, doomed, opened, signals>>

OnRequest(c) ==
    /\ pc[c] = "send" /\ ~IsClosed(state) /\ c \notin doomed
    /\ LET l == Append(list, arg[c])
           p == IF list = <<>> THEN Notified(pc, state, l, current, "Success") ELSE pc
       IN  /\ list' = l
           /\ pc' = [p EXCEPT ![c] = IF req[arg[c]].event THEN "sent" ELSE "waiting"]
    /\ req' = [req EXCEPT ![arg[c]].ref = @ + 1]
    /\ Accept(arg[c])
    /\ UNCHANGED <<state, current, mlock, objectVars, created, arg, prev, doomed, opened, signals>>

(* The scope exit of SendSyncRequest closes the request; the scoped        *)
(* objects of SendSyncRequestImpl close the parent, then the end.          *)
SendReturns(c) ==
    /\ pc[c] = "sent"
    /\ CloseRequest(arg[c], req)
    /\ arg' = [arg EXCEPT ![c] = NoRequest]
    /\ refs' = [refs EXCEPT !.session = @ - 1, !.client = @ - 1]
    /\ Goto(c, IF refs.client = 1 THEN "client_destroy" ELSE "user")
    /\ UNCHANGED <<state, queueVars, handles, created, prev, doomed, accepted, signals>>

(* KThread::RequestTerminate: a waiting client's wait is cancelled, its    *)
(* request stays where it is.                                              *)
RequestTerminate(c) ==
    /\ c \in Terminable \ doomed
    /\ doomed' = doomed \cup {c}
    /\ Goto(c, IF pc[c] = "waiting" THEN "sent" ELSE pc[c])
    /\ UNCHANGED <<state, queueVars, objectVars, req, created, arg, prev, accepted, opened, signals>>

(* svc::CloseHandle of either end, by a thread of its process.             *)
CloseHandle(t, end) ==
    /\ pc[t] = "user" /\ end \in handles
    /\ t \in IF end = "client" THEN Clients ELSE Servers
    /\ handles' = handles \ {end}
    /\ CloseEnd(t, end)
    /\ UNCHANGED <<state, queueVars, req, created, arg, prev, clientVars>>

-----------------------------------------------------------------------------
(* The server.  A call holds a reference to the server session.            *)
Wait(s) ==
    /\ pc[s] = "user" /\ "server" \in handles
    /\ refs' = [refs EXCEPT !.server = @ + 1]
    /\ Goto(s, IF IsSignaled(state, list, current) THEN "receive" ELSE "asleep")
    /\ UNCHANGED <<state, queueVars, handles, req, created, arg, prev, clientVars>>

(* A wait that loops after ResultNotFound keeps its references.            *)
WaitAgain(s) ==
    /\ pc[s] = "again"
    /\ Goto(s, IF IsSignaled(state, list, current) THEN "receive" ELSE "asleep")
    /\ UNCHANGED <<state, queueVars, objectVars, req, created, arg, prev, clientVars>>

(* The wait ends for another reason: a timeout, a cancellation.            *)
WaitEnds(s) ==
    /\ pc[s] = "asleep"
    /\ Goto(s, "server_done")
    /\ UNCHANGED <<state, queueVars, objectVars, req, created, arg, prev, clientVars>>

Reply(s) ==
    /\ pc[s] = "user" /\ "server" \in handles
    /\ refs' = [refs EXCEPT !.server = @ + 1]
    /\ Goto(s, "reply")
    /\ UNCHANGED <<state, queueVars, handles, req, created, arg, prev, clientVars>>

ServerReturns(s) ==
    /\ pc[s] = "server_done"
    /\ CloseEnd(s, "server")
    /\ UNCHANGED <<state, queueVars, handles, req, created, arg, prev, clientVars>>

(* KScopedLightLock lk{m_lock}, in the four functions that take it.        *)
Lock(t) ==
    /\ \/ pc[t] = "receive" /\ Goto(t, "receive_locked")
       \/ pc[t] = "reply" /\ Goto(t, "reply_locked")
       \/ pc[t] = "server_cleanup" /\ Goto(t, "server_cleanup_locked")
       \/ pc[t] = "client_cleanup" /\ Goto(t, "client_cleanup_locked")
    /\ mlock = NoThread
    /\ mlock' = t
    /\ UNCHANGED <<state, list, current, objectVars, req, created, arg, prev, clientVars>>

(* ReceiveRequest: the early returns under the scheduler lock.             *)
ReceiveNothing(s) ==
    /\ pc[s] = "receive_locked"
    /\ IsClosed(state) \/ current # NoRequest \/ list = <<>>
    /\ mlock' = NoThread
    /\ Goto(s, IF IsClosed(state) THEN "server_done" ELSE "again")
    /\ UNCHANGED <<state, list, current, objectVars, req, created, arg, prev, clientVars>>

(* It takes the first request and a reference to its thread.  A request of *)
(* the list always has its thread, so the return for a null one is moot.   *)
ReceivePop(s) ==
    /\ pc[s] = "receive_locked"
    /\ ~IsClosed(state) /\ current = NoRequest /\ list # <<>>
    /\ list' = Tail(list)
    /\ arg' = [arg EXCEPT ![s] = Head(list)]
    /\ opened' = [opened EXCEPT ![req[Head(list)].owner] = @ + 1]
    /\ Goto(s, "received")
    /\ UNCHANGED <<state, current, mlock, objectVars, req, created, prev,
                   doomed, accepted, signals>>

ReceiveSetCurrent(s) ==
    /\ pc[s] = "received"
    /\ current' = arg[s]
    /\ Goto(s, "receiving")
    /\ UNCHANGED <<state, list, mlock, objectVars, req, created, arg, prev, clientVars>>

(* The message was received (always so for an HLE server).                 *)
ReceiveSucceeds(s) ==
    /\ pc[s] = "receiving"
    /\ opened' = [opened EXCEPT ![req[arg[s]].owner] = @ - 1]
    /\ arg' = [arg EXCEPT ![s] = NoRequest]
    /\ mlock' = NoThread
    /\ Goto(s, "server_done")
    /\ UNCHANGED <<state, list, current, objectVars, req, created, prev,
                   doomed, accepted, signals>>

(* ReceiveMessage failed: the request is given up and the next announced.  *)
ReceiveFails(s) ==
    /\ pc[s] = "receiving"
    /\ current' = NoRequest
    /\ pc' = [NextAnnounced EXCEPT ![s] = "receive_failed"]
    /\ UNCHANGED <<state, list, mlock, objectVars, req, created, arg, prev, clientVars>>

ReceiveFailsAnswer(s) ==
    /\ pc[s] = "receive_failed"
    /\ Answer(arg[s], s, "receive_answered")
    /\ UNCHANGED <<state, queueVars, objectVars, req, created, arg, prev, doomed, accepted, opened>>

(* The request is closed, the reference to its thread too; the caller      *)
(* retries, or returns ResultReceiveListBroken.                            *)
ReceiveFailsReturns(s) ==
    /\ pc[s] = "receive_answered"
    /\ LET r == arg[s] IN
       /\ req' = [req EXCEPT ![r].ref = @ - 1]
       /\ opened' = [opened EXCEPT ![req[r].owner] =
                       @ - (IF req[r].ref = 1 /\ req[r].bound THEN 2 ELSE 1)]
    /\ arg' = [arg EXCEPT ![s] = NoRequest]
    /\ mlock' = NoThread
    /\ \E broken \in BOOLEAN : Goto(s, IF broken THEN "server_done" ELSE "again")
    /\ UNCHANGED <<state, list, current, objectVars, created, prev, doomed, accepted, signals>>

(* SendReply.                                                              *)
ReplyNothing(s) ==
    /\ pc[s] = "reply_locked" /\ current = NoRequest
    /\ mlock' = NoThread
    /\ Goto(s, "server_done")
    /\ UNCHANGED <<state, list, current, objectVars, req, created, arg, prev, clientVars>>

(* Bugs: the current request stays current while it is answered; the       *)
(* requests behind it are not announced.                                   *)
ReplyKeepsCurrent(s) ==
    /\ pc[s] = "reply_locked" /\ current # NoRequest
    /\ arg' = [arg EXCEPT ![s] = current]
    /\ Goto(s, "replying")
    /\ UNCHANGED <<state, list, current, mlock, objectVars, req, created, prev, clientVars>>

ReplyTakeWithoutNotify(s) ==
    /\ pc[s] = "reply_locked" /\ current # NoRequest
    /\ arg' = [arg EXCEPT ![s] = current]
    /\ current' = NoRequest
    /\ Goto(s, "replying")
    /\ UNCHANGED <<state, list, mlock, objectVars, req, created, prev, clientVars>>

ReplyTake(s) ==
    /\ pc[s] = "reply_locked" /\ current # NoRequest
    /\ arg' = [arg EXCEPT ![s] = current]
    /\ current' = NoRequest
    /\ pc' = [NextAnnounced EXCEPT ![s] = "replying"]
    /\ UNCHANGED <<state, list, mlock, objectVars, req, created, prev, clientVars>>

(* The message and the answer; a request whose thread was cleared has      *)
(* nobody to be answered to.  SendMessage may fail.                        *)
ReplyAnswer(s) ==
    /\ pc[s] = "replying"
    /\ IF req[arg[s]].bound
       THEN Answer(arg[s], s, "replied")
       ELSE Goto(s, "replied") /\ UNCHANGED signals
    /\ UNCHANGED <<state, queueVars, objectVars, req, created, arg, prev, doomed, accepted, opened>>

ReplyReturns(s) ==
    /\ pc[s] = "replied"
    /\ CloseRequest(arg[s], req)
    /\ arg' = [arg EXCEPT ![s] = NoRequest]
    /\ mlock' = NoThread
    /\ Goto(s, "server_done")
    /\ UNCHANGED <<state, list, current, objectVars, created, prev, doomed, accepted, signals>>

-----------------------------------------------------------------------------
(* Closing an end.  KSession::OnServerClosed and OnClientClosed test the   *)
(* state and assign it with no lock.                                       *)
(* A bug: a server end that closes last leaves its requests alone.         *)
DestroyUnlessClosed(t, end) ==
    /\ pc[t] = Destroying(end)
    /\ IF IsClosed(state)
       THEN CloseParent /\ Goto(t, "user")
       ELSE Goto(t, Closing(end)) /\ UNCHANGED refs
    /\ UNCHANGED <<state, queueVars, handles, req, created, arg, prev, clientVars>>

Destroy(t, end) ==
    /\ pc[t] = Destroying(end)
    /\ IF IsClosed(state) /\ end = "client"
       THEN CloseParent /\ Goto(t, "user")
       ELSE /\ Goto(t, IF IsClosed(state) THEN Cleaning(end) ELSE Closing(end))
            /\ UNCHANGED refs
    /\ UNCHANGED <<state, queueVars, handles, req, created, arg, prev, clientVars>>

SetClosed(t, end) ==
    /\ pc[t] = Closing(end)
    /\ state' = IF end = "server" THEN "ServerClosed" ELSE "ClientClosed"
    /\ Goto(t, Cleaning(end))
    /\ UNCHANGED <<queueVars, objectVars, req, created, arg, prev, clientVars>>

(* CleanupRequests: the current request first, then the queue.             *)
(* A bug: only the queue is cleaned up.                                    *)
CleanupTakeQueueOnly(t) ==
    /\ pc[t] = "server_cleanup_locked" /\ list # <<>>
    /\ list' = Tail(list) /\ arg' = [arg EXCEPT ![t] = Head(list)]
    /\ Goto(t, "cleaning")
    /\ UNCHANGED <<state, current, mlock, objectVars, req, created, prev, clientVars>>

CleanupTake(t) ==
    /\ pc[t] = "server_cleanup_locked"
    /\ \/ /\ current # NoRequest
          /\ arg' = [arg EXCEPT ![t] = current]
          /\ current' = NoRequest /\ UNCHANGED list
       \/ /\ current = NoRequest /\ list # <<>>
          /\ arg' = [arg EXCEPT ![t] = Head(list)]
          /\ list' = Tail(list) /\ UNCHANGED current
    /\ Goto(t, "cleaning")
    /\ UNCHANGED <<state, mlock, objectVars, req, created, prev, clientVars>>

CleanupAnswer(t) ==
    /\ pc[t] = "cleaning"
    /\ IF req[arg[t]].bound
       THEN Answer(arg[t], t, "cleaned")
       ELSE Goto(t, "cleaned") /\ UNCHANGED signals
    /\ UNCHANGED <<state, queueVars, objectVars, req, created, arg, prev, doomed, accepted, opened>>

CleanupClose(t) ==
    /\ pc[t] = "cleaned"
    /\ CloseRequest(arg[t], req)
    /\ arg' = [arg EXCEPT ![t] = NoRequest]
    /\ Goto(t, "server_cleanup_locked")
    /\ UNCHANGED <<state, queueVars, objectVars, created, prev, doomed, accepted, signals>>

CleanupReturns(t) ==
    /\ pc[t] = "server_cleanup_locked"
    /\ current = NoRequest /\ list = <<>>
    /\ mlock' = NoThread
    /\ CloseParent
    /\ Goto(t, "user")
    /\ UNCHANGED <<state, list, current, handles, req, created, arg, prev, clientVars>>

(* KServerSession::OnClientClosed: the current request is only looked at,  *)
(* once, under a reference of its own; the thread of a terminating client  *)
(* is cut off from it.                                                     *)
(* A bug: the request keeps the thread whose reference is closed.          *)
ClientClosedCurrentKeepsThread(t) ==
    /\ pc[t] = "client_cleanup_locked"
    /\ current \notin {NoRequest, prev}
    /\ prev' = current /\ arg' = [arg EXCEPT ![t] = current]
    /\ LET cut == req[current].owner \in doomed
       IN  /\ req' = [req EXCEPT ![current].ref = @ + 1]
           /\ Goto(t, IF cut THEN "cut_off" ELSE "looked_at")
    /\ UNCHANGED <<state, queueVars, objectVars, created, clientVars>>

ClientClosedCurrent(t) ==
    /\ pc[t] = "client_cleanup_locked"
    /\ current \notin {NoRequest, prev}
    /\ prev' = current /\ arg' = [arg EXCEPT ![t] = current]
    /\ LET cut == req[current].owner \in doomed
       IN  /\ req' = [req EXCEPT ![current].ref = @ + 1,
                                 ![current].bound = ~cut,
                                 ![current].event = @ /\ ~cut]
           /\ Goto(t, IF cut THEN "cut_off" ELSE "looked_at")
    /\ UNCHANGED <<state, queueVars, objectVars, created, clientVars>>

ClientClosedPop(t) ==
    /\ pc[t] = "client_cleanup_locked"
    /\ current \in {NoRequest, prev} /\ list # <<>>
    /\ list' = Tail(list) /\ arg' = [arg EXCEPT ![t] = Head(list)]
    /\ Goto(t, IF req[Head(list)].event THEN "refusing" ELSE "looked_at")
    /\ UNCHANGED <<state, current, mlock, objectVars, req, created, prev, clientVars>>

(* A queued asynchronous request fails.                                    *)
ClientClosedSignal(t) ==
    /\ pc[t] = "refusing"
    /\ signals' = [signals EXCEPT ![arg[t]] = @ + 1]
    /\ Goto(t, "looked_at")
    /\ UNCHANGED <<state, queueVars, objectVars, req, created, arg, prev, doomed, accepted, opened>>

(* The references of a cut-off request to its thread and event.            *)
ClientClosedCutOff(t) ==
    /\ pc[t] = "cut_off"
    /\ opened' = [opened EXCEPT ![req[arg[t]].owner] = @ - 1]
    /\ Goto(t, "looked_at")
    /\ UNCHANGED <<state, queueVars, objectVars, req, created, arg, prev, doomed, accepted, signals>>

ClientClosedClose(t) ==
    /\ pc[t] = "looked_at"
    /\ CloseRequest(arg[t], req)
    /\ arg' = [arg EXCEPT ![t] = NoRequest]
    /\ Goto(t, "client_cleanup_locked")
    /\ UNCHANGED <<state, queueVars, objectVars, created, prev, doomed, accepted, signals>>

ClientClosedNotify(t) ==
    /\ pc[t] = "client_cleanup_locked"
    /\ current \in {NoRequest, prev} /\ list = <<>>
    /\ mlock' = NoThread
    /\ pc' = [Notified(pc, state, list, current, "SessionClosed") EXCEPT ![t] = "user"]
    /\ CloseParent
    /\ UNCHANGED <<state, list, current, handles, req, created, arg, prev, clientVars>>

-----------------------------------------------------------------------------
(* What a thread does once it is in the kernel.                            *)
Step(t) ==
    \/ t \in Clients /\ \/ OnRequestRefused(t) \/ OnRequest(t) \/ SendReturns(t)
    \/ t \in Servers /\ \/ WaitAgain(t) \/ ServerReturns(t)
                        \/ ReceiveNothing(t) \/ ReceivePop(t) \/ ReceiveSetCurrent(t)
                        \/ ReceiveSucceeds(t) \/ ReceiveFails(t)
                        \/ ReceiveFailsAnswer(t) \/ ReceiveFailsReturns(t)
                        \/ ReplyNothing(t) \/ ReplyTake(t) \/ ReplyAnswer(t) \/ ReplyReturns(t)
    \/ \E end \in {"client", "server"} : Destroy(t, end) \/ SetClosed(t, end)
    \/ CleanupTake(t) \/ CleanupAnswer(t) \/ CleanupClose(t) \/ CleanupReturns(t)
    \/ ClientClosedCurrent(t) \/ ClientClosedPop(t) \/ ClientClosedSignal(t)
    \/ ClientClosedCutOff(t) \/ ClientClosedClose(t) \/ ClientClosedNotify(t)
    \/ Lock(t)

Next ==
    \/ \E c \in Clients : \/ \E async \in BOOLEAN : SendRequest(c, async)
                          \/ RequestTerminate(c)
    \/ \E s \in Servers : Wait(s) \/ WaitEnds(s) \/ Reply(s)
    \/ \E t \in Threads : \/ \E end \in {"client", "server"} : CloseHandle(t, end)
                          \/ Step(t)

Spec == Init /\ [][Next]_vars

(* A thread in the kernel goes on.  Strong fairness because of m_lock: it  *)
(* is handed to its waiters, so one that waits for it gets it.             *)
FairSpec == Spec /\ \A t \in Threads : SF_vars(Step(t))

-----------------------------------------------------------------------------
TypeOK ==
    /\ state \in {"Normal", "ClientClosed", "ServerClosed"}
    /\ list \in Seq(Requests) /\ current \in Requests \cup {NoRequest}
    /\ mlock \in Threads \cup {NoThread}
    /\ refs \in [{"session", "client", "server"} -> Nat]
    /\ handles \subseteq {"client", "server"}
    /\ req \in [Requests -> [ref : Nat, owner : Clients \cup {NoThread},
                             event : BOOLEAN, bound : BOOLEAN]]
    /\ created \in 0 .. MaxRequests
    /\ arg \in [Threads -> Requests \cup {NoRequest}] /\ prev \in Requests \cup {NoRequest}
    /\ doomed \subseteq Terminable /\ accepted \subseteq Requests
    /\ opened \in [Clients -> Nat] /\ signals \in [Requests -> Nat]

(* The places that refer to request r and hold a reference for it.         *)
Holders(r) ==
    Cardinality({i \in DOMAIN list : list[i] = r})
    + (IF current = r THEN 1 ELSE 0)
    + Cardinality({t \in Threads : arg[t] = r /\ pc[t] # "receiving"})

(* A request's reference count is exactly the number of places that refer  *)
(* to it: it is freed once, when the last one lets go, and none of them    *)
(* uses it afterwards (k_server_session.cpp, every request->Close).        *)
RequestReferences ==
    \A r \in Requests : req[r].ref = Holders(r)

(* The client's threads are referred to by their unfinished requests and   *)
(* by the servers receiving from them, and by nobody else: the thread that *)
(* OnClientClosed cuts off is let go exactly once.                         *)
ThreadReferences ==
    \A c \in Clients :
       opened[c] = Cardinality({r \in Requests :
                       /\ req[r].owner = c /\ req[r].ref > 0
                       /\ req[r].bound \/ \E t \in Threads : arg[t] = r /\ pc[t] = "cut_off"})
                 + Cardinality({s \in Servers : /\ arg[s] # NoRequest /\ req[arg[s]].owner = c
                                                /\ pc[s] \in {"received", "receiving",
                                                      "receive_failed", "receive_answered"}})

(* A client that waits for its reply has a request somebody will answer:   *)
(* it is queued, current, or in the hands of a thread that is about to     *)
(* answer it.                                                              *)
WaiterAttended ==
    \A c \in Clients : pc[c] = "waiting" =>
       LET r == arg[c] IN
       \/ r \in ToSet(list) /\ (IsClosed(state) => \E t \in Threads : pc[t] \in
             {"server_cleanup", "server_cleanup_locked", "cleaning", "cleaned"})
       \/ r = current /\ req[r].bound
       \/ \E t \in Servers : arg[t] = r /\ pc[t] \in {"received", "receive_failed",
                                                      "replying", "cleaning"}

(* OnClientClosed took the thread and the event of request r away, since   *)
(* its sender is being terminated.                                         *)
IsCutOff(r) == req[r].owner \in doomed /\ ~req[r].bound

(* The event of an asynchronous request the session accepted is never      *)
(* signalled twice.  When the request is freed it has been signalled, with *)
(* exactly one exception: a request that was current when the client end   *)
(* closed and whose sender is being terminated loses its event there       *)
(* (k_server_session.cpp, ClearEvent in OnClientClosed) and is freed       *)
(* without a signal.                                                       *)
AnsweredOnce ==
    \A r \in Requests :
       /\ signals[r] <= 1
       /\ Freed(r) /\ r \in accepted => (signals[r] = 1 <=> ~IsCutOff(r))

(* A server thread sleeps on a session with something to do only while     *)
(* another one is between taking a request and recording it, or while the  *)
(* closing client has yet to notify it.                                    *)
ServerAwake ==
    \A s \in Servers : pc[s] = "asleep" /\ IsSignaled(state, list, current) =>
       \E t \in Threads : \/ pc[t] = "received"
                          \/ IsClosed(state) /\ (pc[t] \in {"client_cleanup",
                               "client_cleanup_locked", "cut_off", "looked_at", "refusing"})

(* A thread is inside the session's code only while the session exists:    *)
(* the count cannot reach zero under a caller, however the two ends close  *)
(* (k_session.cpp, k_auto_object.h Close).                                 *)
SessionOutlivesUse ==
    (\E t \in Threads : pc[t] # "user") => refs.session > 0

(* The session is gone and every request was given back.                   *)
Reclaimed == refs.session = 0 /\ list = <<>> /\ current = NoRequest
             /\ \A r \in Requests : req[r].ref = 0

SleepsOnSession == \E s \in Servers : pc[s] = "asleep"

(* Once the server's handle is closed every waiting client is released,    *)
(* unless a server thread still sleeps on the session: its reference keeps *)
(* the session open (svc_ipc.cpp, k_server_session.cpp Destroy).           *)
ClientsReleased ==
    []("server" \notin handles =>
         <>(SleepsOnSession \/ \A c \in Clients : pc[c] # "waiting"))

(* Once both handles are closed everything is given back, with the same    *)
(* exception.                                                              *)
SessionReclaimed ==
    [](handles = {} => <>(SleepsOnSession \/ Reclaimed))

(* Requests, the threads that sent them and the session itself are         *)
(* referred to exactly as often as they are used, in every race of reply,  *)
(* close and termination.                                                  *)
ReferencesExact ==
    /\ TypeOK
    /\ RequestReferences
    /\ ThreadReferences
    /\ SessionOutlivesUse
=============================================================================

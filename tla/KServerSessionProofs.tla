------------------------ MODULE KServerSessionProofs ------------------------
(***************************************************************************)
(* Proofs about sessions, for any number of clients, servers and requests: *)
(* requests, threads and the session are referred to exactly as often as   *)
(* they are used, every waiting client is attended to, every event is      *)
(* signalled once unless its request was cut off, and no server sleeps     *)
(* through a request.                                                      *)
(***************************************************************************)
EXTENDS KServerSession, FiniteSetTheorems, SequenceTheorems, TLAPS

(* Where a thread is: in SendSyncRequest or SendAsyncRequest, in a call on *)
(* the server end, or destroying an end.                                   *)
Sending == {"send", "waiting", "sent"}
Receiving == {"received", "receiving", "receive_failed", "receive_answered"}
ServerCalling == {"asleep", "receive", "receive_locked", "again", "server_done",
                  "reply", "reply_locked", "replying", "replied"} \cup Receiving
ClientLooking == {"cut_off", "looked_at", "refusing"}
ClientCleaning == {"client_cleanup", "client_cleanup_locked"} \cup ClientLooking
ClientClosing == {"client_destroy", "client_closing"} \cup ClientCleaning
ServerCleaning == {"server_cleanup", "server_cleanup_locked", "cleaning", "cleaned"}
ServerClosing == {"server_destroy", "server_closing"} \cup ServerCleaning

ClientPlaces == {"user"} \cup Sending \cup ClientClosing
ServerPlaces == {"user"} \cup ServerCalling \cup ServerClosing

(* The places with m_lock held, those with a request in hand, and among    *)
(* them those before the client is answered.                               *)
Handling == Receiving \cup {"replying", "replied", "cleaning", "cleaned"} \cup ClientLooking
LockedPlaces == Handling \cup {"receive_locked", "reply_locked", "server_cleanup_locked",
                               "client_cleanup_locked"}
Taken == Handling \ {"receiving", "cut_off", "looked_at"}
Answering == {"received", "receive_failed", "replying", "cleaning", "refusing"}

PlacesOK ==
    /\ pc \in [Threads -> ClientPlaces \cup ServerPlaces]
    /\ \A c \in Clients : pc[c] \in ClientPlaces
    /\ \A s \in Servers : pc[s] \in ServerPlaces

LockHeld == \A t \in Threads : mlock = t <=> pc[t] \in LockedPlaces

ArgsHeld == \A t \in Threads : arg[t] # NoRequest <=> pc[t] \in Sending \/ pc[t] \in Handling

(* A request exists once it was created; a sender has its own in hand.     *)
Created ==
    /\ \A r \in Requests : r > created => /\ req[r].owner = NoThread /\ req[r].ref = 0
                                          /\ r \notin accepted /\ signals[r] = 0
    /\ \A r \in Requests : r <= created => req[r].owner \in Clients
    /\ \A c \in Clients : pc[c] \in Sending => req[arg[c]].owner = c

ListInjective == IsInjective(list)
InList(r) == r \in ToSet(list)

(* The places a request can be in exclude each other; only OnClientClosed  *)
(* looks at the current request while it stays current.                    *)
Exclusive ==
    /\ ~ InList(current)
    /\ \A t \in Threads :
          /\ pc[t] \in Handling => ~ InList(arg[t])
          /\ pc[t] \in Taken => arg[t] # current
          /\ pc[t] = "receiving" => arg[t] = current
          /\ pc[t] = "received" => current = NoRequest

(* A request that OnRequest has not queued is in one hand. *)
Unsent ==
    \A c \in Clients : pc[c] = "send" =>
       /\ ~ InList(arg[c]) /\ arg[c] # current /\ arg[c] \notin accepted /\ signals[arg[c]] = 0
       /\ \A t \in Threads : arg[t] = arg[c] => t = c

(* A request's reference count, by the places that refer to it. *)
One(b) == IF b THEN 1 ELSE 0
Sent(r) == \E c \in Clients : pc[c] \in Sending /\ arg[c] = r
Handled(r) == \E t \in Threads : pc[t] \in Handling /\ pc[t] # "receiving" /\ arg[t] = r
RefCount ==
    \A r \in Requests :
       req[r].ref = One(InList(r)) + One(current = r) + One(Sent(r)) + One(Handled(r))

(* The ends: a count is what the handle and the calls hold; the thread     *)
(* that dropped the last reference destroys the end, once.                 *)
Senders == {c \in Clients : pc[c] \in Sending}
Callers == {s \in Servers : pc[s] \in ServerCalling}
ClientAlive == refs["client"] > 0 \/ \E t \in Threads : pc[t] \in ClientClosing
ServerAlive == refs["server"] > 0 \/ \E t \in Threads : pc[t] \in ServerClosing
EndRefs ==
    /\ refs["client"] = One("client" \in handles) + Cardinality(Senders)
    /\ refs["server"] = One("server" \in handles) + Cardinality(Callers)
    /\ refs["session"] = One(ClientAlive) + One(ServerAlive) + Cardinality(Senders)
OneCloser ==
    /\ \A t \in Threads : pc[t] \in ClientClosing => refs["client"] = 0
    /\ \A t \in Threads : pc[t] \in ServerClosing => refs["server"] = 0
    /\ \A t, u \in Threads : pc[t] \in ClientClosing /\ pc[u] \in ClientClosing => t = u
    /\ \A t, u \in Threads : pc[t] \in ServerClosing /\ pc[u] \in ServerClosing => t = u
    /\ state = "ClientClosed" => refs["client"] = 0
    /\ state = "ServerClosed" => refs["server"] = 0

(* OnClientClosed cuts off at most one request, the one it looked at, when *)
(* no client is left in a call; it holds m_lock throughout, so that no     *)
(* other request becomes the current one.                                  *)
CutOff ==
    /\ prev # NoRequest => refs["client"] = 0
    /\ prev # NoRequest => \A t \in Threads : pc[t] \in ClientClosing => pc[t] \in LockedPlaces
    /\ \A t \in Threads : pc[t] \in ClientClosing /\ pc[t] \in LockedPlaces =>
                            prev \in {NoRequest, current}
    /\ \A r \in Requests : r <= created /\ ~ req[r].bound => r = prev /\ ~ req[r].event
    /\ \A t \in Threads : pc[t] = "cut_off" => ~ req[arg[t]].bound

(* The references to a client's thread. *)
BoundTo(c) ==
    {r \in Requests : /\ req[r].owner = c /\ req[r].ref > 0
                      /\ req[r].bound \/ \E t \in Threads : arg[t] = r /\ pc[t] = "cut_off"}
ReceivedFrom(c) == \E s \in Servers : pc[s] \in Receiving /\ req[arg[s]].owner = c
ThreadRefs == \A c \in Clients : opened[c] = Cardinality(BoundTo(c)) + One(ReceivedFrom(c))

(* A request is pending while it is queued, current or about to be         *)
(* answered.  A client waits for a pending synchronous request; a session  *)
(* whose server is gone is being cleaned up.                               *)
Pending(r) ==
    InList(r) \/ current = r \/ \E t \in Threads : pc[t] \in Answering /\ arg[t] = r
WaitersAttended ==
    /\ \A c \in Clients : pc[c] = "waiting" =>
          ~ req[arg[c]].event /\ c \notin doomed /\ Pending(arg[c])
    /\ state = "ServerClosed" /\ list # <<>> => \E t \in Threads : pc[t] \in ServerCleaning

(* A request with an event that was accepted is pending or was signalled,  *)
(* and never both.                                                         *)
EventsSignalled ==
    \A r \in Requests :
       /\ signals[r] <= 1
       /\ Pending(r) => signals[r] = 0
       /\ req[r].event /\ r \in accepted => signals[r] = 1 \/ Pending(r)

(* A server that sleeps has nothing to do, or will be woken. *)
SleepersAwaited ==
    \A s \in Servers : pc[s] = "asleep" =>
       /\ IsClosed(state) => \E t \in Threads : pc[t] \in ClientCleaning
       /\ list # <<>> /\ current = NoRequest /\ ~ IsClosed(state) =>
             \E t \in Threads : pc[t] = "received"

SessionInv ==
    /\ TypeOK /\ PlacesOK /\ LockHeld /\ ArgsHeld
    /\ Created /\ ListInjective /\ Exclusive /\ Unsent /\ RefCount
    /\ EndRefs /\ OneCloser /\ CutOff /\ ThreadRefs
    /\ WaitersAttended /\ EventsSignalled /\ SleepersAwaited

-----------------------------------------------------------------------------
(* What Append and Tail make of a list without repetitions. *)
LEMMA ListAppend ==
    ASSUME NEW q \in Seq(Requests), IsInjective(q), NEW e \in Requests, e \notin ToSet(q)
    PROVE  /\ Append(q, e) \in Seq(Requests)
           /\ IsInjective(Append(q, e))
           /\ ToSet(Append(q, e)) = ToSet(q) \cup {e}
<1> DEFINE n == Len(q)
           r == Append(q, e)
<1>1. /\ r \in Seq(Requests) /\ Len(r) = n + 1
      /\ \A j \in 1 .. n : r[j] = q[j]
      /\ r[n + 1] = e
  BY AppendProperties
<1>2. DOMAIN q = 1 .. n /\ DOMAIN r = 1 .. n + 1 /\ n \in Nat
  BY <1>1, LenProperties
<1> HIDE DEF r, n
<1>3. 1 .. n + 1 = (1 .. n) \cup {n + 1}
  BY <1>2
<1> QED
  BY <1>1, <1>2, <1>3 DEF ToSet, IsInjective, r

(* What is left of a list without repetitions. *)
LEMMA ListTail ==
    ASSUME NEW q \in Seq(Requests), IsInjective(q), q # <<>>
    PROVE  /\ Head(q) \in ToSet(q) /\ Head(q) \in Requests
           /\ Tail(q) \in Seq(Requests)
           /\ IsInjective(Tail(q))
           /\ ToSet(Tail(q)) = ToSet(q) \ {Head(q)}
<1> DEFINE n == Len(q)
           r == Tail(q)
<1>1. /\ r \in Seq(Requests) /\ Len(r) = n - 1
      /\ \A j \in 1 .. Len(r) : r[j] = q[j + 1]
      /\ Head(q) = q[1]
  BY HeadTailProperties
<1>2. DOMAIN q = 1 .. n /\ DOMAIN r = 1 .. n - 1 /\ n \in Nat /\ n >= 1
  BY <1>1, LenProperties, EmptySeq
<1> HIDE DEF r, n
<1>3. 1 \in 1 .. n /\ \A j \in 1 .. n - 1 : j + 1 \in 1 .. n /\ j + 1 # 1 /\ r[j] = q[j + 1]
  BY <1>1, <1>2
<1>4. \A i \in 1 .. n : i # 1 => i - 1 \in 1 .. n - 1 /\ r[i - 1] = q[i]
  BY <1>1, <1>2
<1>5. Head(q) \in ToSet(q) /\ Head(q) \in Requests
  BY <1>1, <1>2, <1>3 DEF ToSet
<1>6. IsInjective(r)
  <2> SUFFICES ASSUME NEW i \in 1 .. n - 1, NEW j \in 1 .. n - 1, r[i] = r[j] PROVE i = j
    BY <1>2 DEF IsInjective
  <2>1. i + 1 = j + 1
    BY <1>2, <1>3 DEF IsInjective
  <2> QED
    BY <2>1
<1>7. ASSUME NEW x \in ToSet(r) PROVE x \in ToSet(q) \ {Head(q)}
  <2>1. PICK j \in 1 .. n - 1 : x = r[j]
    BY <1>2, <1>7 DEF ToSet
  <2>2. j + 1 \in 1 .. n /\ j + 1 # 1 /\ x = q[j + 1] /\ 1 \in 1 .. n
    BY <1>3, <2>1
  <2>3. x # q[1]
    BY <1>2, <2>2 DEF IsInjective
  <2> QED
    BY <1>1, <1>2, <2>2, <2>3 DEF ToSet
<1>8. ASSUME NEW x \in ToSet(q) \ {Head(q)} PROVE x \in ToSet(r)
  <2>1. PICK i \in 1 .. n : x = q[i]
    BY <1>2, <1>8 DEF ToSet
  <2> QED
    BY <1>1, <1>2, <1>4, <1>8, <2>1 DEF ToSet
<1> QED
  BY <1>1, <1>5, <1>6, <1>7, <1>8 DEF r

-----------------------------------------------------------------------------
(* While t moves, other threads stay where they are, are woken by a        *)
(* notification, or are answered.                                          *)
Others(t) ==
    \A u \in Threads \ {t} :
       \/ pc'[u] = pc[u]
       \/ pc[u] = "asleep" /\ pc'[u] \in {"receive", "server_done"}
       \/ pc[u] = "waiting" /\ pc'[u] = "sent"

(* The places that matter are then the same: what a thread has in hand,    *)
(* its part in the counts of the ends, and whether it has the lock.        *)
SameHand(u) ==
    /\ pc'[u] \in Sending <=> pc[u] \in Sending
    /\ pc'[u] \in Handling <=> pc[u] \in Handling
    /\ pc'[u] \in Receiving <=> pc[u] \in Receiving
    /\ pc'[u] \in Taken <=> pc[u] \in Taken
    /\ pc'[u] \in Answering <=> pc[u] \in Answering
    /\ pc'[u] = "received" <=> pc[u] = "received"
    /\ pc'[u] = "receiving" <=> pc[u] = "receiving"
    /\ pc'[u] = "cut_off" <=> pc[u] = "cut_off"
    /\ pc'[u] = "send" => pc[u] = "send"
SameEnds(u) ==
    /\ pc'[u] \in Sending <=> pc[u] \in Sending
    /\ pc'[u] \in ServerCalling <=> pc[u] \in ServerCalling
    /\ pc'[u] \in ClientClosing <=> pc[u] \in ClientClosing
    /\ pc'[u] \in ServerClosing <=> pc[u] \in ServerClosing
SameRest(u) ==
    /\ pc'[u] \in ClientCleaning <=> pc[u] \in ClientCleaning
    /\ pc'[u] \in ServerCleaning <=> pc[u] \in ServerCleaning
    /\ pc'[u] \in LockedPlaces <=> pc[u] \in LockedPlaces
    /\ pc'[u] \in ClientPlaces <=> pc[u] \in ClientPlaces
    /\ pc'[u] \in ServerPlaces <=> pc[u] \in ServerPlaces
    /\ pc'[u] = "asleep" => pc[u] = "asleep"
    /\ pc'[u] = "waiting" => pc[u] = "waiting"
SamePlaces(u) == SameHand(u) /\ SameEnds(u) /\ SameRest(u)

(* So it is for every thread but t. *)
LEMMA OthersStay ==
    ASSUME NEW t, Others(t) PROVE \A u \in Threads \ {t} : SamePlaces(u)
<1> SUFFICES ASSUME NEW u \in Threads \ {t} PROVE SamePlaces(u)
  OBVIOUS
<1> USE DEF SamePlaces, SameHand, SameEnds, SameRest, Sending, Receiving, ServerCalling,
            ClientLooking, ClientCleaning, ClientClosing, ServerCleaning, ServerClosing,
            Handling, LockedPlaces, Taken, Answering, ClientPlaces, ServerPlaces
<1>1. CASE pc'[u] = pc[u]
  BY <1>1
<1>2. CASE pc[u] = "asleep" /\ pc'[u] = "receive"
  BY <1>2
<1>3. CASE pc[u] = "asleep" /\ pc'[u] = "server_done"
  BY <1>3
<1>4. CASE pc[u] = "waiting" /\ pc'[u] = "sent"
  BY <1>4
<1> QED
  BY <1>1, <1>2, <1>3, <1>4 DEF Others

(* The types, field by field. *)
LEMMA Typed ==
    ASSUME TypeOK
    PROVE  /\ list \in Seq(Requests) /\ arg \in [Threads -> Requests \cup {NoRequest}]
           /\ refs \in [{"session", "client", "server"} -> Nat]
           /\ refs["session"] \in Nat /\ refs["client"] \in Nat /\ refs["server"] \in Nat
           /\ \A r \in Requests : /\ req[r].ref \in Nat /\ req[r].owner \in Clients \cup {NoThread}
                                  /\ req[r].event \in BOOLEAN /\ req[r].bound \in BOOLEAN
           /\ created \in Nat /\ opened \in [Clients -> Nat] /\ signals \in [Requests -> Nat]
           /\ current # NoRequest => current \in Requests
           /\ NoRequest \notin Requests /\ NoThread \notin Threads
           /\ \A r \in Requests : r \in Nat
<1>1. \A r \in Requests : req[r] \in [ref : Nat, owner : Clients \cup {NoThread},
                                      event : BOOLEAN, bound : BOOLEAN]
  BY DEF TypeOK
<1>2. \A r \in Requests : /\ req[r].ref \in Nat /\ req[r].owner \in Clients \cup {NoThread}
                          /\ req[r].event \in BOOLEAN /\ req[r].bound \in BOOLEAN
  BY <1>1, Zenon
<1>3. created \in Nat /\ \A r \in Requests : r \in Nat
  BY SessionAssumption DEF TypeOK, Requests
<1> QED
  BY <1>2, <1>3, SessionAssumption DEF TypeOK

(* The sets that are counted are finite. *)
LEMMA CountedFinite ==
    /\ IsFiniteSet(Threads) /\ IsFiniteSet(Senders) /\ IsFiniteSet(Callers)
    /\ \A c : IsFiniteSet(BoundTo(c)) /\ Cardinality(BoundTo(c)) \in Nat
    /\ Cardinality(Senders) \in Nat /\ Cardinality(Callers) \in Nat
<1>1. IsFiniteSet(Threads)
  BY SessionAssumption, FS_Union DEF Threads
<1>2. IsFiniteSet(Requests)
  BY SessionAssumption, FS_Interval DEF Requests
<1>3. Senders \subseteq Clients /\ Callers \subseteq Servers
  BY DEF Senders, Callers
<1>4. \A c : BoundTo(c) \subseteq Requests
  BY DEF BoundTo
<1> QED
  BY <1>1, <1>2, <1>3, <1>4, SessionAssumption, FS_Subset, FS_CardinalityType

-----------------------------------------------------------------------------
(* Steps that leave the requests alone. *)
DataInv == /\ Created /\ ListInjective /\ Exclusive /\ Unsent /\ RefCount
           /\ ThreadRefs /\ EventsSignalled

dataVars == <<list, current, req, created, arg, accepted, opened, signals>>

(* Such a step keeps every part of the invariant about requests. *)
LEMMA DataKept ==
    ASSUME TypeOK, DataInv, \A u \in Threads : SameHand(u), UNCHANGED dataVars
    PROVE  DataInv'
<1>u. UNCHANGED <<list, current, req, created, arg, accepted, opened, signals>>
  BY DEF dataVars
<1>c. /\ \A c \in Clients : c \in Threads /\ SameHand(c)
      /\ \A s \in Servers : s \in Threads /\ SameHand(s)
  BY DEF Threads
<1>i. /\ Created /\ ListInjective /\ Exclusive /\ Unsent /\ RefCount
      /\ ThreadRefs /\ EventsSignalled
  BY DEF DataInv
<1>l. \A r : InList(r)' <=> InList(r)
  BY <1>u DEF InList
<1>1. Created'
  BY <1>u, <1>c, <1>i DEF Created, SameHand
<1>2. ListInjective'
  BY <1>u, <1>i DEF ListInjective
<1>3. Exclusive'
  BY <1>u, <1>i, <1>l DEF Exclusive, SameHand
<1>4. Unsent'
  BY <1>u, <1>c, <1>i, <1>l DEF Unsent, SameHand
<1>5. RefCount'
  <2>1. \A r : Sent(r)' <=> Sent(r)
    BY <1>u, <1>c DEF Sent, SameHand
  <2>2. \A r : Handled(r)' <=> Handled(r)
    BY <1>u DEF Handled, SameHand
  <2> QED
    BY <1>u, <1>i, <1>l, <2>1, <2>2 DEF RefCount, One
<1>6. ThreadRefs'
  <2>1. \A c : BoundTo(c)' = BoundTo(c)
    BY <1>u DEF BoundTo, SameHand
  <2>2. \A c : ReceivedFrom(c)' <=> ReceivedFrom(c)
    BY <1>u, <1>c DEF ReceivedFrom, SameHand
  <2> QED
    BY <1>u, <1>i, <2>1, <2>2 DEF ThreadRefs, One
<1>7. EventsSignalled'
  BY <1>u, <1>i, <1>l DEF EventsSignalled, Pending, SameHand
<1> QED
  BY <1>1, <1>2, <1>3, <1>4, <1>5, <1>6, <1>7 DEF DataInv

(* Steps that leave the counts of the ends alone. *)
LEMMA EndsKept ==
    ASSUME EndRefs, OneCloser, \A u \in Threads : SameEnds(u), UNCHANGED <<refs, handles>>
    PROVE  /\ EndRefs'
           /\ UNCHANGED state => OneCloser'
<1>c. /\ \A c \in Clients : c \in Threads /\ SameEnds(c)
      /\ \A s \in Servers : s \in Threads /\ SameEnds(s)
  BY DEF Threads
<1>1. Senders' = Senders /\ Callers' = Callers
  BY <1>c DEF Senders, Callers, SameEnds
<1>2. (ClientAlive' <=> ClientAlive) /\ (ServerAlive' <=> ServerAlive)
  BY DEF ClientAlive, ServerAlive, SameEnds
<1>3. EndRefs'
  BY <1>1, <1>2 DEF EndRefs, One
<1>4. UNCHANGED state => OneCloser'
  BY DEF OneCloser, SameEnds
<1> QED
  BY <1>3, <1>4

-----------------------------------------------------------------------------
(* OnRequest refuses: the sender returns. *)
LEMMA OnRequestRefusedKeeps ==
    ASSUME SessionInv, NEW c \in Clients, OnRequestRefused(c)
    PROVE  SessionInv'
<1>i. /\ TypeOK /\ PlacesOK /\ LockHeld /\ ArgsHeld /\ DataInv /\ EndRefs /\ OneCloser
      /\ CutOff /\ WaitersAttended /\ SleepersAwaited
  BY DEF SessionInv, DataInv
<1>f. /\ UNCHANGED <<state, list, current, mlock, refs, handles, req, created, arg, prev,
                     doomed, accepted, opened, signals>>
  BY DEF OnRequestRefused, Goto, queueVars, objectVars, clientVars
<1>p. /\ c \in Threads
      /\ pc[c] = "send" /\ pc'[c] = "sent"
      /\ \A u \in Threads \ {c} : pc'[u] = pc[u]
      /\ pc' = [u \in Threads |-> pc'[u]]
  BY <1>i DEF OnRequestRefused, Goto, PlacesOK, Threads
<1>m. /\ SameHand(c) /\ SameEnds(c) /\ SameRest(c) /\ pc[c] \notin ClientClosing
      /\ pc'[c] \notin ClientClosing
  BY <1>p DEF SameHand, SameEnds, SameRest, Sending, Receiving, ServerCalling, ClientLooking,
     ClientCleaning, ClientClosing, ServerCleaning, ServerClosing, Handling, LockedPlaces,
     Taken, Answering, ClientPlaces, ServerPlaces
<1>o. \A u \in Threads \ {c} : SamePlaces(u)
  BY <1>p, OthersStay DEF Others
<1>1. TypeOK'
  BY <1>i, <1>f DEF TypeOK
<1>2. PlacesOK'
  BY <1>i, <1>p, <1>m, <1>o, SessionAssumption DEF PlacesOK, SamePlaces, SameRest, Threads
<1>3. LockHeld'
  BY <1>i, <1>f, <1>p, <1>m, <1>o, SessionAssumption DEF LockHeld, TypeOK, SamePlaces,
     SameRest
<1>4. ArgsHeld'
  BY <1>i, <1>f, <1>p, <1>m, <1>o DEF ArgsHeld, SamePlaces, SameHand
<1>5. DataInv'
  BY <1>i, <1>f, <1>m, <1>o, DataKept DEF SamePlaces, dataVars
<1>6. EndRefs'
  BY <1>i, <1>f, <1>m, <1>o, EndsKept DEF SamePlaces
<1>7. OneCloser'
  BY <1>i, <1>f, <1>m, <1>o, EndsKept DEF SamePlaces
<1>8. CutOff'
  BY <1>i, <1>f, <1>p, <1>m, <1>o DEF CutOff, SamePlaces, SameHand, SameEnds, SameRest
<1>9. WaitersAttended'
  BY <1>i, <1>f, <1>p, <1>m, <1>o DEF WaitersAttended, Pending, InList, SamePlaces, SameHand,
     SameRest, Threads
<1>10. SleepersAwaited'
  BY <1>i, <1>f, <1>p, <1>m, <1>o DEF SleepersAwaited, IsSignaled, IsClosed, SamePlaces,
     SameHand, SameRest, Threads
<1> QED
  BY <1>1, <1>2, <1>3, <1>4, <1>5, <1>6, <1>7, <1>8, <1>9, <1>10 DEF SessionInv, DataInv

(* A server waits again, without sleeping if there is something to do. *)
LEMMA WaitAgainKeeps ==
    ASSUME SessionInv, NEW s \in Servers, WaitAgain(s)
    PROVE  SessionInv'
<1>i. /\ TypeOK /\ PlacesOK /\ LockHeld /\ ArgsHeld /\ DataInv /\ EndRefs /\ OneCloser
      /\ CutOff /\ WaitersAttended /\ SleepersAwaited
  BY DEF SessionInv, DataInv
<1>f. /\ UNCHANGED <<state, list, current, mlock, refs, handles, req, created, arg, prev,
                     doomed, accepted, opened, signals>>
  BY DEF WaitAgain, Goto, queueVars, objectVars, clientVars
<1>p. /\ s \in Threads
      /\ pc[s] = "again" /\ pc'[s] \in {"asleep", "receive"}
      /\ pc'[s] = "asleep" => ~ IsSignaled(state, list, current)
      /\ \A u \in Threads \ {s} : pc'[u] = pc[u]
      /\ pc' = [u \in Threads |-> pc'[u]]
  BY <1>i DEF WaitAgain, Goto, PlacesOK, Threads
<1>m. /\ SameHand(s) /\ SameEnds(s) /\ pc[s] \notin ClientClosing
      /\ pc'[s] \notin ClientClosing /\ pc[s] \notin ClientCleaning
      /\ pc'[s] \notin ClientCleaning /\ pc[s] \notin ServerCleaning
      /\ pc'[s] \notin ServerCleaning /\ pc[s] \notin LockedPlaces
      /\ pc'[s] \notin LockedPlaces /\ pc[s] \notin ClientPlaces
      /\ pc'[s] \notin ClientPlaces /\ pc[s] \in ServerPlaces /\ pc'[s] \in ServerPlaces
      /\ pc'[s] # "received" /\ pc'[s] # "receiving" /\ pc'[s] # "cut_off"
      /\ pc'[s] # "send" /\ pc'[s] # "waiting"
  BY <1>p DEF SameHand, SameEnds, SameRest, Sending, Receiving, ServerCalling, ClientLooking,
     ClientCleaning, ClientClosing, ServerCleaning, ServerClosing, Handling, LockedPlaces,
     Taken, Answering, ClientPlaces, ServerPlaces
<1>o. \A u \in Threads \ {s} : SamePlaces(u)
  BY <1>p, OthersStay DEF Others
<1>1. TypeOK'
  BY <1>i, <1>f DEF TypeOK
<1>2. PlacesOK'
  BY <1>i, <1>p, <1>m, <1>o, SessionAssumption DEF PlacesOK, SamePlaces, SameRest, Threads
<1>3. LockHeld'
  BY <1>i, <1>f, <1>p, <1>m, <1>o, SessionAssumption DEF LockHeld, TypeOK, SamePlaces,
     SameRest
<1>4. ArgsHeld'
  BY <1>i, <1>f, <1>p, <1>m, <1>o DEF ArgsHeld, SamePlaces, SameHand
<1>5. DataInv'
  BY <1>i, <1>f, <1>m, <1>o, DataKept DEF SamePlaces, dataVars
<1>6. EndRefs'
  BY <1>i, <1>f, <1>m, <1>o, EndsKept DEF SamePlaces
<1>7. OneCloser'
  BY <1>i, <1>f, <1>m, <1>o, EndsKept DEF SamePlaces
<1>8. CutOff'
  BY <1>i, <1>f, <1>p, <1>m, <1>o DEF CutOff, SamePlaces, SameHand, SameEnds, SameRest
<1>9. WaitersAttended'
  BY <1>i, <1>f, <1>p, <1>m, <1>o DEF WaitersAttended, Pending, InList, SamePlaces, SameHand,
     SameRest, Threads
<1>10. SleepersAwaited'
  BY <1>i, <1>f, <1>p, <1>m, <1>o DEF SleepersAwaited, IsSignaled, IsClosed, SamePlaces,
     SameHand, SameRest, Threads
<1> QED
  BY <1>1, <1>2, <1>3, <1>4, <1>5, <1>6, <1>7, <1>8, <1>9, <1>10 DEF SessionInv, DataInv

(* A wait ends. *)
LEMMA WaitEndsKeeps ==
    ASSUME SessionInv, NEW s \in Servers, WaitEnds(s)
    PROVE  SessionInv'
<1>i. /\ TypeOK /\ PlacesOK /\ LockHeld /\ ArgsHeld /\ DataInv /\ EndRefs /\ OneCloser
      /\ CutOff /\ WaitersAttended /\ SleepersAwaited
  BY DEF SessionInv, DataInv
<1>f. /\ UNCHANGED <<state, list, current, mlock, refs, handles, req, created, arg, prev,
                     doomed, accepted, opened, signals>>
  BY DEF WaitEnds, Goto, queueVars, objectVars, clientVars
<1>p. /\ s \in Threads
      /\ pc[s] = "asleep" /\ pc'[s] = "server_done"
      /\ \A u \in Threads \ {s} : pc'[u] = pc[u]
      /\ pc' = [u \in Threads |-> pc'[u]]
  BY <1>i DEF WaitEnds, Goto, PlacesOK, Threads
<1>m. /\ SameHand(s) /\ SameEnds(s) /\ SameRest(s) /\ pc[s] \notin ClientClosing
      /\ pc'[s] \notin ClientClosing
  BY <1>p DEF SameHand, SameEnds, SameRest, Sending, Receiving, ServerCalling, ClientLooking,
     ClientCleaning, ClientClosing, ServerCleaning, ServerClosing, Handling, LockedPlaces,
     Taken, Answering, ClientPlaces, ServerPlaces
<1>o. \A u \in Threads \ {s} : SamePlaces(u)
  BY <1>p, OthersStay DEF Others
<1>1. TypeOK'
  BY <1>i, <1>f DEF TypeOK
<1>2. PlacesOK'
  BY <1>i, <1>p, <1>m, <1>o, SessionAssumption DEF PlacesOK, SamePlaces, SameRest, Threads
<1>3. LockHeld'
  BY <1>i, <1>f, <1>p, <1>m, <1>o, SessionAssumption DEF LockHeld, TypeOK, SamePlaces,
     SameRest
<1>4. ArgsHeld'
  BY <1>i, <1>f, <1>p, <1>m, <1>o DEF ArgsHeld, SamePlaces, SameHand
<1>5. DataInv'
  BY <1>i, <1>f, <1>m, <1>o, DataKept DEF SamePlaces, dataVars
<1>6. EndRefs'
  BY <1>i, <1>f, <1>m, <1>o, EndsKept DEF SamePlaces
<1>7. OneCloser'
  BY <1>i, <1>f, <1>m, <1>o, EndsKept DEF SamePlaces
<1>8. CutOff'
  BY <1>i, <1>f, <1>p, <1>m, <1>o DEF CutOff, SamePlaces, SameHand, SameEnds, SameRest
<1>9. WaitersAttended'
  BY <1>i, <1>f, <1>p, <1>m, <1>o DEF WaitersAttended, Pending, InList, SamePlaces, SameHand,
     SameRest, Threads
<1>10. SleepersAwaited'
  BY <1>i, <1>f, <1>p, <1>m, <1>o DEF SleepersAwaited, IsSignaled, IsClosed, SamePlaces,
     SameHand, SameRest, Threads
<1> QED
  BY <1>1, <1>2, <1>3, <1>4, <1>5, <1>6, <1>7, <1>8, <1>9, <1>10 DEF SessionInv, DataInv

(* ReceiveRequest finds nothing. *)
LEMMA ReceiveNothingKeeps ==
    ASSUME SessionInv, NEW s \in Servers, ReceiveNothing(s)
    PROVE  SessionInv'
<1>i. /\ TypeOK /\ PlacesOK /\ LockHeld /\ ArgsHeld /\ DataInv /\ EndRefs /\ OneCloser
      /\ CutOff /\ WaitersAttended /\ SleepersAwaited
  BY DEF SessionInv, DataInv
<1>f. /\ UNCHANGED <<state, list, current, refs, handles, req, created, arg, prev, doomed,
                     accepted, opened, signals>>
      /\ mlock' = NoThread
  BY DEF ReceiveNothing, Goto, queueVars, objectVars, clientVars
<1>p. /\ s \in Threads
      /\ pc[s] = "receive_locked" /\ pc'[s] \in {"again", "server_done"}
      /\ \A u \in Threads \ {s} : pc'[u] = pc[u]
      /\ pc' = [u \in Threads |-> pc'[u]]
  BY <1>i DEF ReceiveNothing, Goto, PlacesOK, Threads
<1>m. /\ SameHand(s) /\ SameEnds(s) /\ pc[s] \notin ClientClosing
      /\ pc'[s] \notin ClientClosing /\ pc[s] \notin ClientCleaning
      /\ pc'[s] \notin ClientCleaning /\ pc[s] \notin ServerCleaning
      /\ pc'[s] \notin ServerCleaning /\ pc[s] \in LockedPlaces
      /\ pc'[s] \notin LockedPlaces /\ pc[s] \notin ClientPlaces
      /\ pc'[s] \notin ClientPlaces /\ pc[s] \in ServerPlaces /\ pc'[s] \in ServerPlaces
      /\ pc'[s] # "received" /\ pc'[s] # "receiving" /\ pc'[s] # "cut_off"
      /\ pc'[s] # "send" /\ pc'[s] # "asleep" /\ pc'[s] # "waiting"
  BY <1>p DEF SameHand, SameEnds, SameRest, Sending, Receiving, ServerCalling, ClientLooking,
     ClientCleaning, ClientClosing, ServerCleaning, ServerClosing, Handling, LockedPlaces,
     Taken, Answering, ClientPlaces, ServerPlaces
<1>o. \A u \in Threads \ {s} : SamePlaces(u)
  BY <1>p, OthersStay DEF Others
<1>1. TypeOK'
  BY <1>i, <1>f DEF TypeOK
<1>2. PlacesOK'
  BY <1>i, <1>p, <1>m, <1>o, SessionAssumption DEF PlacesOK, SamePlaces, SameRest, Threads
<1>3. LockHeld'
  BY <1>i, <1>f, <1>p, <1>m, <1>o, SessionAssumption DEF LockHeld, TypeOK, SamePlaces,
     SameRest
<1>4. ArgsHeld'
  BY <1>i, <1>f, <1>p, <1>m, <1>o DEF ArgsHeld, SamePlaces, SameHand
<1>5. DataInv'
  BY <1>i, <1>f, <1>m, <1>o, DataKept DEF SamePlaces, dataVars
<1>6. EndRefs'
  BY <1>i, <1>f, <1>m, <1>o, EndsKept DEF SamePlaces
<1>7. OneCloser'
  BY <1>i, <1>f, <1>m, <1>o, EndsKept DEF SamePlaces
<1>8. CutOff'
  BY <1>i, <1>f, <1>p, <1>m, <1>o DEF CutOff, SamePlaces, SameHand, SameEnds, SameRest
<1>9. WaitersAttended'
  BY <1>i, <1>f, <1>p, <1>m, <1>o DEF WaitersAttended, Pending, InList, SamePlaces, SameHand,
     SameRest, Threads
<1>10. SleepersAwaited'
  BY <1>i, <1>f, <1>p, <1>m, <1>o DEF SleepersAwaited, IsSignaled, IsClosed, SamePlaces,
     SameHand, SameRest, Threads
<1> QED
  BY <1>1, <1>2, <1>3, <1>4, <1>5, <1>6, <1>7, <1>8, <1>9, <1>10 DEF SessionInv, DataInv

(* SendReply finds no current request. *)
LEMMA ReplyNothingKeeps ==
    ASSUME SessionInv, NEW s \in Servers, ReplyNothing(s)
    PROVE  SessionInv'
<1>i. /\ TypeOK /\ PlacesOK /\ LockHeld /\ ArgsHeld /\ DataInv /\ EndRefs /\ OneCloser
      /\ CutOff /\ WaitersAttended /\ SleepersAwaited
  BY DEF SessionInv, DataInv
<1>f. /\ UNCHANGED <<state, list, current, refs, handles, req, created, arg, prev, doomed,
                     accepted, opened, signals>>
      /\ mlock' = NoThread
  BY DEF ReplyNothing, Goto, queueVars, objectVars, clientVars
<1>p. /\ s \in Threads
      /\ pc[s] = "reply_locked" /\ pc'[s] = "server_done"
      /\ \A u \in Threads \ {s} : pc'[u] = pc[u]
      /\ pc' = [u \in Threads |-> pc'[u]]
  BY <1>i DEF ReplyNothing, Goto, PlacesOK, Threads
<1>m. /\ SameHand(s) /\ SameEnds(s) /\ pc[s] \notin ClientClosing
      /\ pc'[s] \notin ClientClosing /\ pc[s] \notin ClientCleaning
      /\ pc'[s] \notin ClientCleaning /\ pc[s] \notin ServerCleaning
      /\ pc'[s] \notin ServerCleaning /\ pc[s] \in LockedPlaces
      /\ pc'[s] \notin LockedPlaces /\ pc[s] \notin ClientPlaces
      /\ pc'[s] \notin ClientPlaces /\ pc[s] \in ServerPlaces /\ pc'[s] \in ServerPlaces
  BY <1>p DEF SameHand, SameEnds, SameRest, Sending, Receiving, ServerCalling, ClientLooking,
     ClientCleaning, ClientClosing, ServerCleaning, ServerClosing, Handling, LockedPlaces,
     Taken, Answering, ClientPlaces, ServerPlaces
<1>o. \A u \in Threads \ {s} : SamePlaces(u)
  BY <1>p, OthersStay DEF Others
<1>1. TypeOK'
  BY <1>i, <1>f DEF TypeOK
<1>2. PlacesOK'
  BY <1>i, <1>p, <1>m, <1>o, SessionAssumption DEF PlacesOK, SamePlaces, SameRest, Threads
<1>3. LockHeld'
  BY <1>i, <1>f, <1>p, <1>m, <1>o, SessionAssumption DEF LockHeld, TypeOK, SamePlaces,
     SameRest
<1>4. ArgsHeld'
  BY <1>i, <1>f, <1>p, <1>m, <1>o DEF ArgsHeld, SamePlaces, SameHand
<1>5. DataInv'
  BY <1>i, <1>f, <1>m, <1>o, DataKept DEF SamePlaces, dataVars
<1>6. EndRefs'
  BY <1>i, <1>f, <1>m, <1>o, EndsKept DEF SamePlaces
<1>7. OneCloser'
  BY <1>i, <1>f, <1>m, <1>o, EndsKept DEF SamePlaces
<1>8. CutOff'
  BY <1>i, <1>f, <1>p, <1>m, <1>o DEF CutOff, SamePlaces, SameHand, SameEnds, SameRest
<1>9. WaitersAttended'
  BY <1>i, <1>f, <1>p, <1>m, <1>o DEF WaitersAttended, Pending, InList, SamePlaces, SameHand,
     SameRest, Threads
<1>10. SleepersAwaited'
  BY <1>i, <1>f, <1>p, <1>m, <1>o DEF SleepersAwaited, IsSignaled, IsClosed, SamePlaces,
     SameHand, SameRest, Threads
<1> QED
  BY <1>1, <1>2, <1>3, <1>4, <1>5, <1>6, <1>7, <1>8, <1>9, <1>10 DEF SessionInv, DataInv

-----------------------------------------------------------------------------
(* What calls on the ends and their handles do to the counts. *)
EndTypes == {"session", "client", "server"}

(* Whoever is in a call, or closing an end, has a reference. *)
LEMMA CountsPositive ==
    ASSUME TypeOK, EndRefs
    PROVE  /\ refs["client"] \in Nat /\ refs["server"] \in Nat /\ refs["session"] \in Nat
           /\ "client" \in handles => refs["client"] > 0
           /\ "server" \in handles => refs["server"] > 0
           /\ refs["client"] > 0 => refs["session"] > 0
           /\ refs["server"] > 0 => refs["session"] > 0
           /\ \A c \in Clients : pc[c] \in Sending => refs["client"] > 0
           /\ \A s \in Servers : pc[s] \in ServerCalling => refs["server"] > 0
           /\ \A t \in Threads : pc[t] \in ClientClosing \/ pc[t] \in ServerClosing =>
                                  refs["session"] > 0
<1>1. /\ refs["client"] \in Nat /\ refs["server"] \in Nat /\ refs["session"] \in Nat
      /\ Cardinality(Senders) \in Nat /\ Cardinality(Callers) \in Nat
  BY Typed, CountedFinite
<1>2. /\ \A c \in Clients : pc[c] \in Sending => Senders # {}
      /\ \A s \in Servers : pc[s] \in ServerCalling => Callers # {}
  BY DEF Senders, Callers
<1>3. /\ Senders # {} => Cardinality(Senders) # 0
      /\ Callers # {} => Cardinality(Callers) # 0
  BY CountedFinite, FS_EmptySet
<1>4. /\ refs["client"] > 0 => ClientAlive
      /\ refs["server"] > 0 => ServerAlive
      /\ \A t \in Threads : pc[t] \in ClientClosing => ClientAlive
      /\ \A t \in Threads : pc[t] \in ServerClosing => ServerAlive
  BY DEF ClientAlive, ServerAlive
<1>5. /\ ClientAlive \/ ServerAlive => refs["session"] > 0
      /\ "client" \in handles => refs["client"] > 0
      /\ "server" \in handles => refs["server"] > 0
      /\ Cardinality(Senders) # 0 => refs["client"] > 0
      /\ Cardinality(Callers) # 0 => refs["server"] > 0
  BY <1>1 DEF EndRefs, One
<1> QED
  BY <1>1, <1>2, <1>3, <1>4, <1>5

(* A call takes a reference to the server end. *)
LEMMA ServerCallBegins ==
    ASSUME TypeOK, EndRefs, OneCloser, NEW s \in Servers,
           "server" \in handles, refs'["server"] = refs["server"] + 1,
           refs'["client"] = refs["client"],
           refs'["session"] = refs["session"], refs' = [e \in EndTypes |-> refs'[e]],
           UNCHANGED <<handles, state>>,
           pc[s] = "user", pc'[s] \in {"receive", "asleep", "reply"},
           \A u \in Threads \ {s} : SameEnds(u)
    PROVE  EndRefs' /\ OneCloser' /\ refs' \in [EndTypes -> Nat]
<1>t. /\ refs \in [EndTypes -> Nat] /\ refs["client"] \in Nat /\ refs["server"] \in Nat
      /\ refs["session"] \in Nat
      /\ Cardinality(Senders) \in Nat /\ Cardinality(Callers) \in Nat
  BY Typed, CountedFinite DEF EndTypes
<1>c. /\ \A x \in Clients : x \in Threads
      /\ \A x \in Servers : x \in Threads
      /\ Clients \cap Servers = {}
  BY SessionAssumption DEF Threads
<1>m. /\ pc[s] \notin ServerCalling /\ pc'[s] \in ServerCalling
      /\ pc[s] \notin ClientClosing /\ pc'[s] \notin ClientClosing
      /\ pc[s] \notin ServerClosing /\ pc'[s] \notin ServerClosing
  BY DEF ServerCalling, Receiving, ClientClosing, ClientCleaning, ClientLooking, ServerClosing,
         ServerCleaning
<1>0. refs["server"] > 0 /\ refs["session"] > 0
  BY CountsPositive
<1>1. refs' \in [EndTypes -> Nat]
  <2>1. refs'["server"] \in Nat /\ refs'["client"] \in Nat /\ refs'["session"] \in Nat
    BY <1>0, <1>t
  <2>2. \A e \in EndTypes : refs'[e] \in Nat
    BY <2>1 DEF EndTypes
  <2> QED
    BY <2>2
<1>2. Callers' = Callers \cup {s} /\ s \notin Callers /\ Senders' = Senders
  BY <1>m, <1>c DEF Callers, Senders, SameEnds
<1>3. Cardinality(Callers') = Cardinality(Callers) + 1
  BY <1>2, CountedFinite, FS_AddElement
<1>4. (ClientAlive' <=> ClientAlive) /\ ServerAlive /\ ServerAlive'
  BY <1>0, <1>1, <1>m, <1>c, <1>t DEF ClientAlive, ServerAlive, SameEnds
<1>5. EndRefs'
  BY <1>t, <1>0, <1>1, <1>2, <1>3, <1>4 DEF EndRefs, One
<1>6. OneCloser'
  BY <1>t, <1>0, <1>1, <1>m, <1>c DEF OneCloser, SameEnds
<1> QED
  BY <1>1, <1>5, <1>6

(* A client takes references to its end and to the session. *)
LEMMA SendBegins ==
    ASSUME TypeOK, EndRefs, OneCloser, NEW c \in Clients,
           "client" \in handles,
           refs'["server"] = refs["server"], refs'["client"] = refs["client"] + 1,
           refs'["session"] = refs["session"] + 1, refs' = [e \in EndTypes |-> refs'[e]],
           UNCHANGED <<handles, state>>,
           pc[c] = "user", pc'[c] = "send",
           \A u \in Threads \ {c} : SameEnds(u)
    PROVE  EndRefs' /\ OneCloser' /\ refs' \in [EndTypes -> Nat]
<1>t. /\ refs \in [EndTypes -> Nat] /\ refs["client"] \in Nat /\ refs["server"] \in Nat
      /\ refs["session"] \in Nat
      /\ Cardinality(Senders) \in Nat /\ Cardinality(Callers) \in Nat
  BY Typed, CountedFinite DEF EndTypes
<1>c. /\ \A x \in Clients : x \in Threads
      /\ \A x \in Servers : x \in Threads
      /\ Clients \cap Servers = {}
  BY SessionAssumption DEF Threads
<1>m. /\ pc[c] \notin Sending /\ pc'[c] \in Sending
      /\ pc[c] \notin ClientClosing /\ pc'[c] \notin ClientClosing
      /\ pc[c] \notin ServerClosing /\ pc'[c] \notin ServerClosing
  BY DEF Sending, ClientClosing, ClientCleaning, ClientLooking, ServerClosing,
         ServerCleaning
<1>0. refs["client"] > 0 /\ refs["session"] > 0
  BY CountsPositive
<1>1. refs' \in [EndTypes -> Nat]
  <2>1. refs'["server"] \in Nat /\ refs'["client"] \in Nat /\ refs'["session"] \in Nat
    BY <1>0, <1>t
  <2>2. \A e \in EndTypes : refs'[e] \in Nat
    BY <2>1 DEF EndTypes
  <2> QED
    BY <2>2
<1>2. Senders' = Senders \cup {c} /\ c \notin Senders /\ Callers' = Callers
  BY <1>m, <1>c DEF Callers, Senders, SameEnds
<1>3. Cardinality(Senders') = Cardinality(Senders) + 1
  BY <1>2, CountedFinite, FS_AddElement
<1>4. (ServerAlive' <=> ServerAlive) /\ ClientAlive /\ ClientAlive'
  BY <1>0, <1>1, <1>m, <1>c, <1>t DEF ClientAlive, ServerAlive, SameEnds
<1>5. EndRefs'
  BY <1>t, <1>0, <1>1, <1>2, <1>3, <1>4 DEF EndRefs, One
<1>6. OneCloser'
  BY <1>t, <1>0, <1>1, <1>m, <1>c DEF OneCloser, SameEnds
<1> QED
  BY <1>1, <1>5, <1>6

(* A call drops its reference to the server end, perhaps the last one. *)
LEMMA ServerCallEnds ==
    ASSUME TypeOK, EndRefs, OneCloser, NEW s \in Servers,
           refs'["server"] = refs["server"] - 1, refs'["client"] = refs["client"],
           refs'["session"] = refs["session"],
           refs' = [e \in EndTypes |-> refs'[e]], UNCHANGED <<handles, state>>,
           pc[s] \in ServerCalling,
           refs["server"] = 1 => pc'[s] = "server_destroy", refs["server"] # 1 => pc'[s] = "user",
           \A u \in Threads \ {s} : SameEnds(u)
    PROVE  EndRefs' /\ OneCloser' /\ refs' \in [EndTypes -> Nat]
<1>t. /\ refs \in [EndTypes -> Nat] /\ refs["client"] \in Nat /\ refs["server"] \in Nat
      /\ refs["session"] \in Nat
      /\ Cardinality(Senders) \in Nat /\ Cardinality(Callers) \in Nat
  BY Typed, CountedFinite DEF EndTypes
<1>c. /\ \A x \in Clients : x \in Threads
      /\ \A x \in Servers : x \in Threads
      /\ Clients \cap Servers = {}
  BY SessionAssumption DEF Threads
<1>m. /\ pc'[s] \notin ServerCalling
      /\ pc[s] \notin ClientClosing /\ pc'[s] \notin ClientClosing
      /\ pc[s] \notin ServerClosing /\ (pc'[s] \in ServerClosing <=> refs["server"] = 1)
  BY DEF ServerCalling, Receiving, ClientClosing, ClientCleaning, ClientLooking, ServerClosing,
         ServerCleaning
<1>0. refs["server"] > 0 /\ refs["session"] > 0
  BY CountsPositive
<1>1. refs' \in [EndTypes -> Nat]
  <2>1. refs'["server"] \in Nat /\ refs'["client"] \in Nat /\ refs'["session"] \in Nat
    BY <1>0, <1>t
  <2>2. \A e \in EndTypes : refs'[e] \in Nat
    BY <2>1 DEF EndTypes
  <2> QED
    BY <2>2
<1>2. Callers' = Callers \ {s} /\ s \in Callers /\ Senders' = Senders
  BY <1>m, <1>c DEF Callers, Senders, SameEnds
<1>3. Cardinality(Callers') = Cardinality(Callers) - 1
  BY <1>2, CountedFinite, FS_RemoveElement
<1>4. (ClientAlive' <=> ClientAlive) /\ ServerAlive /\ ServerAlive'
  <2>1. (ClientAlive' <=> ClientAlive) /\ ServerAlive
    BY <1>0, <1>1, <1>m, <1>c, <1>t DEF ClientAlive, ServerAlive, SameEnds
  <2>2. CASE refs["server"] = 1
    BY <2>1, <2>2, <1>m, <1>c DEF ServerAlive
  <2>3. CASE refs["server"] # 1
    BY <2>1, <2>3, <1>0, <1>1, <1>t DEF ServerAlive
  <2> QED
    BY <2>2, <2>3
<1>5. EndRefs'
  BY <1>t, <1>0, <1>1, <1>2, <1>3, <1>4 DEF EndRefs, One
<1>6. OneCloser'
  <2>1. \A t \in Threads : pc[t] \notin ServerClosing
    BY <1>0, <1>t DEF OneCloser
  <2> QED
    BY <1>t, <1>0, <1>1, <1>m, <1>c, <2>1 DEF OneCloser, SameEnds
<1> QED
  BY <1>1, <1>5, <1>6

(* A client drops its references to its end, perhaps the last, and to the session. *)
LEMMA SendEnds ==
    ASSUME TypeOK, EndRefs, OneCloser, NEW c \in Clients,
           refs'["server"] = refs["server"], refs'["client"] = refs["client"] - 1,
           refs'["session"] = refs["session"] - 1, refs' = [e \in EndTypes |-> refs'[e]],
           UNCHANGED <<handles, state>>,
           pc[c] \in Sending,
           refs["client"] = 1 => pc'[c] = "client_destroy", refs["client"] # 1 => pc'[c] = "user",
           \A u \in Threads \ {c} : SameEnds(u)
    PROVE  EndRefs' /\ OneCloser' /\ refs' \in [EndTypes -> Nat]
<1>t. /\ refs \in [EndTypes -> Nat] /\ refs["client"] \in Nat /\ refs["server"] \in Nat
      /\ refs["session"] \in Nat
      /\ Cardinality(Senders) \in Nat /\ Cardinality(Callers) \in Nat
  BY Typed, CountedFinite DEF EndTypes
<1>c. /\ \A x \in Clients : x \in Threads
      /\ \A x \in Servers : x \in Threads
      /\ Clients \cap Servers = {}
  BY SessionAssumption DEF Threads
<1>m. /\ pc'[c] \notin Sending
      /\ pc[c] \notin ClientClosing /\ (pc'[c] \in ClientClosing <=> refs["client"] = 1)
      /\ pc[c] \notin ServerClosing /\ pc'[c] \notin ServerClosing
  BY DEF Sending, ClientClosing, ClientCleaning, ClientLooking, ServerClosing,
         ServerCleaning
<1>0. refs["client"] > 0 /\ refs["session"] > 0
  BY CountsPositive
<1>1. refs' \in [EndTypes -> Nat]
  <2>1. refs'["server"] \in Nat /\ refs'["client"] \in Nat /\ refs'["session"] \in Nat
    BY <1>0, <1>t
  <2>2. \A e \in EndTypes : refs'[e] \in Nat
    BY <2>1 DEF EndTypes
  <2> QED
    BY <2>2
<1>2. Senders' = Senders \ {c} /\ c \in Senders /\ Callers' = Callers
  BY <1>m, <1>c DEF Callers, Senders, SameEnds
<1>3. Cardinality(Senders') = Cardinality(Senders) - 1
  BY <1>2, CountedFinite, FS_RemoveElement
<1>4. (ServerAlive' <=> ServerAlive) /\ ClientAlive /\ ClientAlive'
  <2>1. (ServerAlive' <=> ServerAlive) /\ ClientAlive
    BY <1>0, <1>1, <1>m, <1>c, <1>t DEF ClientAlive, ServerAlive, SameEnds
  <2>2. CASE refs["client"] = 1
    BY <2>1, <2>2, <1>m, <1>c DEF ClientAlive
  <2>3. CASE refs["client"] # 1
    BY <2>1, <2>3, <1>0, <1>1, <1>t DEF ClientAlive
  <2> QED
    BY <2>2, <2>3
<1>5. EndRefs'
  BY <1>t, <1>0, <1>1, <1>2, <1>3, <1>4 DEF EndRefs, One
<1>6. OneCloser'
  <2>1. \A t \in Threads : pc[t] \notin ClientClosing
    BY <1>0, <1>t DEF OneCloser
  <2> QED
    BY <1>t, <1>0, <1>1, <1>m, <1>c, <2>1 DEF OneCloser, SameEnds
<1> QED
  BY <1>1, <1>5, <1>6

(* The handle of the client end is closed. *)
LEMMA ClientHandleCloses ==
    ASSUME TypeOK, EndRefs, OneCloser, NEW t \in Clients,
           "client" \in handles, handles' = handles \ {"client"},
           refs'["client"] = refs["client"] - 1, refs'["server"] = refs["server"],
           refs'["session"] = refs["session"],
           refs' = [e \in EndTypes |-> refs'[e]], UNCHANGED state,
           pc[t] = "user",
           refs["client"] = 1 => pc'[t] = "client_destroy", refs["client"] # 1 => pc'[t] = "user",
           \A u \in Threads \ {t} : SameEnds(u)
    PROVE  EndRefs' /\ OneCloser' /\ refs' \in [EndTypes -> Nat]
<1>t. /\ refs \in [EndTypes -> Nat] /\ refs["client"] \in Nat /\ refs["server"] \in Nat
      /\ refs["session"] \in Nat
      /\ Cardinality(Senders) \in Nat /\ Cardinality(Callers) \in Nat
  BY Typed, CountedFinite DEF EndTypes
<1>c. /\ \A x \in Clients : x \in Threads
      /\ \A x \in Servers : x \in Threads
      /\ Clients \cap Servers = {}
  BY SessionAssumption DEF Threads
<1>m. /\ pc[t] \notin Sending /\ pc'[t] \notin Sending
      /\ pc[t] \notin ServerCalling /\ pc'[t] \notin ServerCalling
      /\ pc[t] \notin ClientClosing /\ (pc'[t] \in ClientClosing <=> refs["client"] = 1)
      /\ pc[t] \notin ServerClosing /\ pc'[t] \notin ServerClosing
  BY DEF Sending, ServerCalling, Receiving, ClientClosing, ClientCleaning, ClientLooking,
         ServerClosing, ServerCleaning
<1>0. refs["client"] > 0 /\ refs["session"] > 0
  BY CountsPositive
<1>1. refs' \in [EndTypes -> Nat]
  <2>1. refs'["server"] \in Nat /\ refs'["client"] \in Nat /\ refs'["session"] \in Nat
    BY <1>0, <1>t
  <2>2. \A e \in EndTypes : refs'[e] \in Nat
    BY <2>1 DEF EndTypes
  <2> QED
    BY <2>2
<1>2. Callers' = Callers /\ Senders' = Senders
  BY <1>m, <1>c DEF Callers, Senders, SameEnds
<1>4. (ServerAlive' <=> ServerAlive) /\ ClientAlive /\ ClientAlive'
  <2>1. (ServerAlive' <=> ServerAlive) /\ ClientAlive
    BY <1>0, <1>1, <1>m, <1>c, <1>t DEF ClientAlive, ServerAlive, SameEnds
  <2>2. CASE refs["client"] = 1
    BY <2>1, <2>2, <1>m, <1>c DEF ClientAlive
  <2>3. CASE refs["client"] # 1
    BY <2>1, <2>3, <1>0, <1>1, <1>t DEF ClientAlive
  <2> QED
    BY <2>2, <2>3
<1>5. EndRefs'
  BY <1>t, <1>0, <1>1, <1>2, <1>4 DEF EndRefs, One
<1>6. OneCloser'
  <2>1. \A u \in Threads : pc[u] \notin ClientClosing
    BY <1>0, <1>t DEF OneCloser
  <2> QED
    BY <1>t, <1>0, <1>1, <1>m, <1>c, <2>1 DEF OneCloser, SameEnds
<1> QED
  BY <1>1, <1>5, <1>6

(* The handle of the server end is closed. *)
LEMMA ServerHandleCloses ==
    ASSUME TypeOK, EndRefs, OneCloser, NEW t \in Servers,
           "server" \in handles, handles' = handles \ {"server"},
           refs'["server"] = refs["server"] - 1, refs'["client"] = refs["client"],
           refs'["session"] = refs["session"],
           refs' = [e \in EndTypes |-> refs'[e]], UNCHANGED state,
           pc[t] = "user",
           refs["server"] = 1 => pc'[t] = "server_destroy", refs["server"] # 1 => pc'[t] = "user",
           \A u \in Threads \ {t} : SameEnds(u)
    PROVE  EndRefs' /\ OneCloser' /\ refs' \in [EndTypes -> Nat]
<1>t. /\ refs \in [EndTypes -> Nat] /\ refs["client"] \in Nat /\ refs["server"] \in Nat
      /\ refs["session"] \in Nat
      /\ Cardinality(Senders) \in Nat /\ Cardinality(Callers) \in Nat
  BY Typed, CountedFinite DEF EndTypes
<1>c. /\ \A x \in Clients : x \in Threads
      /\ \A x \in Servers : x \in Threads
      /\ Clients \cap Servers = {}
  BY SessionAssumption DEF Threads
<1>m. /\ pc[t] \notin Sending /\ pc'[t] \notin Sending
      /\ pc[t] \notin ServerCalling /\ pc'[t] \notin ServerCalling
      /\ pc[t] \notin ServerClosing /\ (pc'[t] \in ServerClosing <=> refs["server"] = 1)
      /\ pc[t] \notin ClientClosing /\ pc'[t] \notin ClientClosing
  BY DEF Sending, ServerCalling, Receiving, ClientClosing, ClientCleaning, ClientLooking,
         ServerClosing, ServerCleaning
<1>0. refs["server"] > 0 /\ refs["session"] > 0
  BY CountsPositive
<1>1. refs' \in [EndTypes -> Nat]
  <2>1. refs'["server"] \in Nat /\ refs'["client"] \in Nat /\ refs'["session"] \in Nat
    BY <1>0, <1>t
  <2>2. \A e \in EndTypes : refs'[e] \in Nat
    BY <2>1 DEF EndTypes
  <2> QED
    BY <2>2
<1>2. Callers' = Callers /\ Senders' = Senders
  BY <1>m, <1>c DEF Callers, Senders, SameEnds
<1>4. (ClientAlive' <=> ClientAlive) /\ ServerAlive /\ ServerAlive'
  <2>1. (ClientAlive' <=> ClientAlive) /\ ServerAlive
    BY <1>0, <1>1, <1>m, <1>c, <1>t DEF ClientAlive, ServerAlive, SameEnds
  <2>2. CASE refs["server"] = 1
    BY <2>1, <2>2, <1>m, <1>c DEF ServerAlive
  <2>3. CASE refs["server"] # 1
    BY <2>1, <2>3, <1>0, <1>1, <1>t DEF ServerAlive
  <2> QED
    BY <2>2, <2>3
<1>5. EndRefs'
  BY <1>t, <1>0, <1>1, <1>2, <1>4 DEF EndRefs, One
<1>6. OneCloser'
  <2>1. \A u \in Threads : pc[u] \notin ServerClosing
    BY <1>0, <1>t DEF OneCloser
  <2> QED
    BY <1>t, <1>0, <1>1, <1>m, <1>c, <2>1 DEF OneCloser, SameEnds
<1> QED
  BY <1>1, <1>5, <1>6

(* The client end is destroyed. *)
LEMMA ClientEndGone ==
    ASSUME TypeOK, EndRefs, OneCloser, NEW t \in Threads,
           refs'["server"] = refs["server"], refs'["client"] = refs["client"],
           refs'["session"] = refs["session"] - 1,
           refs' = [e \in EndTypes |-> refs'[e]], UNCHANGED <<handles, state>>,
           pc[t] \in ClientClosing, pc'[t] = "user",
           \A u \in Threads \ {t} : SameEnds(u)
    PROVE  EndRefs' /\ OneCloser' /\ refs' \in [EndTypes -> Nat]
<1>t. /\ refs \in [EndTypes -> Nat] /\ refs["client"] \in Nat /\ refs["server"] \in Nat
      /\ refs["session"] \in Nat
      /\ Cardinality(Senders) \in Nat /\ Cardinality(Callers) \in Nat
  BY Typed, CountedFinite DEF EndTypes
<1>c. /\ \A x \in Clients : x \in Threads
      /\ \A x \in Servers : x \in Threads
      /\ Clients \cap Servers = {}
  BY SessionAssumption DEF Threads
<1>m. /\ pc[t] \notin Sending /\ pc'[t] \notin Sending
      /\ pc[t] \notin ServerCalling /\ pc'[t] \notin ServerCalling
      /\ pc'[t] \notin ClientClosing
      /\ pc[t] \notin ServerClosing /\ pc'[t] \notin ServerClosing
  BY DEF Sending, ServerCalling, Receiving, ClientClosing, ClientCleaning, ClientLooking,
         ServerClosing, ServerCleaning
<1>0. refs["session"] > 0 /\ refs["client"] = 0
  BY CountsPositive DEF OneCloser
<1>1. refs' \in [EndTypes -> Nat]
  <2>1. refs'["server"] \in Nat /\ refs'["client"] \in Nat /\ refs'["session"] \in Nat
    BY <1>0, <1>t
  <2>2. \A e \in EndTypes : refs'[e] \in Nat
    BY <2>1 DEF EndTypes
  <2> QED
    BY <2>2
<1>2. Callers' = Callers /\ Senders' = Senders
  BY <1>m, <1>c DEF Callers, Senders, SameEnds
<1>3. \A u \in Threads \ {t} : pc[u] \notin ClientClosing
  BY DEF OneCloser
<1>4. (ServerAlive' <=> ServerAlive) /\ ClientAlive /\ ~ ClientAlive'
  BY <1>0, <1>1, <1>3, <1>m, <1>c, <1>t DEF ClientAlive, ServerAlive, SameEnds
<1>5. EndRefs'
  BY <1>t, <1>0, <1>1, <1>2, <1>4 DEF EndRefs, One
<1>6. OneCloser'
  BY <1>t, <1>0, <1>1, <1>m, <1>c, <1>3 DEF OneCloser, SameEnds
<1> QED
  BY <1>1, <1>5, <1>6

(* The server end is destroyed. *)
LEMMA ServerEndGone ==
    ASSUME TypeOK, EndRefs, OneCloser, NEW t \in Threads,
           refs'["server"] = refs["server"], refs'["client"] = refs["client"],
           refs'["session"] = refs["session"] - 1,
           refs' = [e \in EndTypes |-> refs'[e]], UNCHANGED <<handles, state>>,
           pc[t] \in ServerClosing, pc'[t] = "user",
           \A u \in Threads \ {t} : SameEnds(u)
    PROVE  EndRefs' /\ OneCloser' /\ refs' \in [EndTypes -> Nat]
<1>t. /\ refs \in [EndTypes -> Nat] /\ refs["client"] \in Nat /\ refs["server"] \in Nat
      /\ refs["session"] \in Nat
      /\ Cardinality(Senders) \in Nat /\ Cardinality(Callers) \in Nat
  BY Typed, CountedFinite DEF EndTypes
<1>c. /\ \A x \in Clients : x \in Threads
      /\ \A x \in Servers : x \in Threads
      /\ Clients \cap Servers = {}
  BY SessionAssumption DEF Threads
<1>m. /\ pc[t] \notin Sending /\ pc'[t] \notin Sending
      /\ pc[t] \notin ServerCalling /\ pc'[t] \notin ServerCalling
      /\ pc'[t] \notin ServerClosing
      /\ pc[t] \notin ClientClosing /\ pc'[t] \notin ClientClosing
  BY DEF Sending, ServerCalling, Receiving, ClientClosing, ClientCleaning, ClientLooking,
         ServerClosing, ServerCleaning
<1>0. refs["session"] > 0 /\ refs["server"] = 0
  BY CountsPositive DEF OneCloser
<1>1. refs' \in [EndTypes -> Nat]
  <2>1. refs'["server"] \in Nat /\ refs'["client"] \in Nat /\ refs'["session"] \in Nat
    BY <1>0, <1>t
  <2>2. \A e \in EndTypes : refs'[e] \in Nat
    BY <2>1 DEF EndTypes
  <2> QED
    BY <2>2
<1>2. Callers' = Callers /\ Senders' = Senders
  BY <1>m, <1>c DEF Callers, Senders, SameEnds
<1>3. \A u \in Threads \ {t} : pc[u] \notin ServerClosing
  BY DEF OneCloser
<1>4. (ClientAlive' <=> ClientAlive) /\ ServerAlive /\ ~ ServerAlive'
  BY <1>0, <1>1, <1>3, <1>m, <1>c, <1>t DEF ClientAlive, ServerAlive, SameEnds
<1>5. EndRefs'
  BY <1>t, <1>0, <1>1, <1>2, <1>4 DEF EndRefs, One
<1>6. OneCloser'
  BY <1>t, <1>0, <1>1, <1>m, <1>c, <1>3 DEF OneCloser, SameEnds
<1> QED
  BY <1>1, <1>5, <1>6

-----------------------------------------------------------------------------
(* Calls, handles and the lock. *)
(* A thread takes m_lock. *)
LEMMA LockKeeps ==
    ASSUME SessionInv, NEW t \in Threads, Lock(t)
    PROVE  SessionInv'
<1>i. /\ TypeOK /\ PlacesOK /\ LockHeld /\ ArgsHeld /\ DataInv /\ EndRefs /\ OneCloser
      /\ CutOff /\ WaitersAttended /\ SleepersAwaited
  BY DEF SessionInv, DataInv
<1>f. /\ UNCHANGED <<state, list, current, refs, handles, req, created, arg, prev, doomed,
                     accepted, opened, signals>>
      /\ mlock = NoThread /\ mlock' = t
  BY DEF Lock, Goto, queueVars, objectVars, clientVars
<1>p. /\ t \in Threads
      /\ \/ pc[t] = "receive" /\ pc'[t] = "receive_locked"
         \/ pc[t] = "reply" /\ pc'[t] = "reply_locked"
         \/ pc[t] = "server_cleanup" /\ pc'[t] = "server_cleanup_locked"
         \/ pc[t] = "client_cleanup" /\ pc'[t] = "client_cleanup_locked"
      /\ \A u \in Threads \ {t} : pc'[u] = pc[u]
      /\ pc' = [u \in Threads |-> pc'[u]]
  BY <1>i DEF Lock, Goto, PlacesOK, Threads
<1>m. /\ SameHand(t) /\ SameEnds(t)
      /\ (pc'[t] \in ClientClosing <=> pc[t] \in ClientClosing)
      /\ (pc'[t] \in ClientCleaning <=> pc[t] \in ClientCleaning)
      /\ (pc'[t] \in ServerCleaning <=> pc[t] \in ServerCleaning)
      /\ pc[t] \notin LockedPlaces /\ pc'[t] \in LockedPlaces
      /\ (pc'[t] \in ClientPlaces <=> pc[t] \in ClientPlaces)
      /\ (pc'[t] \in ServerPlaces <=> pc[t] \in ServerPlaces) /\ pc[t] # "received"
      /\ pc'[t] # "received" /\ pc[t] # "receiving" /\ pc'[t] # "receiving"
      /\ pc[t] # "cut_off" /\ pc'[t] # "cut_off" /\ pc[t] # "send" /\ pc'[t] # "send"
      /\ pc[t] # "asleep" /\ pc'[t] # "asleep" /\ pc[t] # "waiting" /\ pc'[t] # "waiting"
  BY <1>p DEF SameHand, SameEnds, SameRest, Sending, Receiving, ServerCalling, ClientLooking,
     ClientCleaning, ClientClosing, ServerCleaning, ServerClosing, Handling, LockedPlaces,
     Taken, Answering, ClientPlaces, ServerPlaces
<1>o. \A u \in Threads \ {t} : SamePlaces(u)
  BY <1>p, OthersStay DEF Others
<1>1. TypeOK'
  BY <1>i, <1>f DEF TypeOK
<1>2. PlacesOK'
  BY <1>i, <1>p, <1>m, <1>o, SessionAssumption DEF PlacesOK, SamePlaces, SameRest, Threads
<1>3. LockHeld'
  BY <1>i, <1>f, <1>p, <1>m, <1>o, SessionAssumption DEF LockHeld, TypeOK, SamePlaces,
     SameRest
<1>4. ArgsHeld'
  BY <1>i, <1>f, <1>p, <1>m, <1>o DEF ArgsHeld, SamePlaces, SameHand
<1>5. DataInv'
  BY <1>i, <1>f, <1>m, <1>o, DataKept DEF SamePlaces, dataVars
<1>6. EndRefs'
  BY <1>i, <1>f, <1>m, <1>o, EndsKept DEF SamePlaces
<1>7. OneCloser'
  BY <1>i, <1>f, <1>m, <1>o, EndsKept DEF SamePlaces
<1>8. CutOff'
  BY <1>i, <1>f, <1>p, <1>m, <1>o DEF CutOff, SamePlaces, SameHand, SameEnds, SameRest
<1>9. WaitersAttended'
  BY <1>i, <1>f, <1>p, <1>m, <1>o DEF WaitersAttended, Pending, InList, SamePlaces, SameHand,
     SameRest, Threads
<1>10. SleepersAwaited'
  BY <1>i, <1>f, <1>p, <1>m, <1>o DEF SleepersAwaited, IsSignaled, IsClosed, SamePlaces,
     SameHand, SameRest, Threads
<1> QED
  BY <1>1, <1>2, <1>3, <1>4, <1>5, <1>6, <1>7, <1>8, <1>9, <1>10 DEF SessionInv, DataInv

(* A server waits, without sleeping if there is something to do. *)
LEMMA WaitKeeps ==
    ASSUME SessionInv, NEW s \in Servers, Wait(s)
    PROVE  SessionInv'
<1>i. /\ TypeOK /\ PlacesOK /\ LockHeld /\ ArgsHeld /\ DataInv /\ EndRefs /\ OneCloser
      /\ CutOff /\ WaitersAttended /\ SleepersAwaited
  BY DEF SessionInv, DataInv
<1>f. /\ UNCHANGED <<state, list, current, mlock, handles, req, created, arg, prev, doomed,
                     accepted, opened, signals>>
      /\ "server" \in handles
      /\ refs'["server"] = refs["server"] + 1 /\ refs'["client"] = refs["client"]
      /\ refs'["session"] = refs["session"] /\ refs' = [e \in EndTypes |-> refs'[e]]
  BY Typed, <1>i DEF Wait, Goto, EndTypes, queueVars, objectVars, clientVars
<1>p. /\ s \in Threads
      /\ pc[s] = "user" /\ pc'[s] \in {"asleep", "receive"}
      /\ pc'[s] = "asleep" => ~ IsSignaled(state, list, current)
      /\ \A u \in Threads \ {s} : pc'[u] = pc[u]
      /\ pc' = [u \in Threads |-> pc'[u]]
  BY <1>i DEF Wait, Goto, EndTypes, PlacesOK, Threads
<1>m. /\ SameHand(s) /\ pc[s] \notin ServerCalling /\ pc'[s] \in ServerCalling
      /\ pc[s] \notin ClientClosing /\ pc'[s] \notin ClientClosing
      /\ pc[s] \notin ServerClosing /\ pc'[s] \notin ServerClosing
      /\ pc[s] \notin ClientCleaning /\ pc'[s] \notin ClientCleaning
      /\ pc[s] \notin ServerCleaning /\ pc'[s] \notin ServerCleaning
      /\ pc[s] \notin LockedPlaces /\ pc'[s] \notin LockedPlaces /\ pc[s] \in ClientPlaces
      /\ pc'[s] \notin ClientPlaces /\ pc[s] \in ServerPlaces /\ pc'[s] \in ServerPlaces
      /\ pc'[s] # "received" /\ pc'[s] # "receiving" /\ pc'[s] # "cut_off"
      /\ pc'[s] # "send" /\ pc'[s] # "waiting"
  BY <1>p DEF SameHand, SameEnds, SameRest, Sending, Receiving, ServerCalling, ClientLooking,
     ClientCleaning, ClientClosing, ServerCleaning, ServerClosing, Handling, LockedPlaces,
     Taken, Answering, ClientPlaces, ServerPlaces
<1>o. \A u \in Threads \ {s} : SamePlaces(u)
  BY <1>p, OthersStay DEF Others
<1>e. EndRefs' /\ OneCloser' /\ refs' \in [EndTypes -> Nat]
  BY <1>i, <1>f, <1>p, <1>m, <1>o, ServerCallBegins DEF SamePlaces
<1>1. TypeOK'
  BY <1>i, <1>f, <1>e DEF TypeOK, EndTypes
<1>2. PlacesOK'
  BY <1>i, <1>p, <1>m, <1>o, SessionAssumption DEF PlacesOK, SamePlaces, SameRest, Threads
<1>3. LockHeld'
  BY <1>i, <1>f, <1>p, <1>m, <1>o, SessionAssumption DEF LockHeld, TypeOK, SamePlaces,
     SameRest
<1>4. ArgsHeld'
  BY <1>i, <1>f, <1>p, <1>m, <1>o DEF ArgsHeld, SamePlaces, SameHand
<1>5. DataInv'
  BY <1>i, <1>f, <1>m, <1>o, DataKept DEF SamePlaces, dataVars
<1>6. EndRefs'
  BY <1>e
<1>7. OneCloser'
  BY <1>e
<1>8. CutOff'
  BY <1>i, <1>f, <1>p, <1>m, <1>o DEF CutOff, SamePlaces, SameHand, SameEnds, SameRest
<1>9. WaitersAttended'
  BY <1>i, <1>f, <1>p, <1>m, <1>o DEF WaitersAttended, Pending, InList, SamePlaces, SameHand,
     SameRest, Threads
<1>10. SleepersAwaited'
  BY <1>i, <1>f, <1>p, <1>m, <1>o DEF SleepersAwaited, IsSignaled, IsClosed, SamePlaces,
     SameHand, SameRest, Threads
<1> QED
  BY <1>1, <1>2, <1>3, <1>4, <1>5, <1>6, <1>7, <1>8, <1>9, <1>10 DEF SessionInv, DataInv

(* A server calls SendReply. *)
LEMMA ReplyKeeps ==
    ASSUME SessionInv, NEW s \in Servers, Reply(s)
    PROVE  SessionInv'
<1>i. /\ TypeOK /\ PlacesOK /\ LockHeld /\ ArgsHeld /\ DataInv /\ EndRefs /\ OneCloser
      /\ CutOff /\ WaitersAttended /\ SleepersAwaited
  BY DEF SessionInv, DataInv
<1>f. /\ UNCHANGED <<state, list, current, mlock, handles, req, created, arg, prev, doomed,
                     accepted, opened, signals>>
      /\ "server" \in handles
      /\ refs'["server"] = refs["server"] + 1 /\ refs'["client"] = refs["client"]
      /\ refs'["session"] = refs["session"] /\ refs' = [e \in EndTypes |-> refs'[e]]
  BY Typed, <1>i DEF Reply, Goto, EndTypes, queueVars, objectVars, clientVars
<1>p. /\ s \in Threads
      /\ pc[s] = "user" /\ pc'[s] = "reply"
      /\ \A u \in Threads \ {s} : pc'[u] = pc[u]
      /\ pc' = [u \in Threads |-> pc'[u]]
  BY <1>i DEF Reply, Goto, EndTypes, PlacesOK, Threads
<1>m. /\ SameHand(s) /\ pc[s] \notin ServerCalling /\ pc'[s] \in ServerCalling
      /\ pc[s] \notin ClientClosing /\ pc'[s] \notin ClientClosing
      /\ pc[s] \notin ServerClosing /\ pc'[s] \notin ServerClosing
      /\ pc[s] \notin ClientCleaning /\ pc'[s] \notin ClientCleaning
      /\ pc[s] \notin ServerCleaning /\ pc'[s] \notin ServerCleaning
      /\ pc[s] \notin LockedPlaces /\ pc'[s] \notin LockedPlaces /\ pc[s] \in ClientPlaces
      /\ pc'[s] \notin ClientPlaces /\ pc[s] \in ServerPlaces /\ pc'[s] \in ServerPlaces
  BY <1>p DEF SameHand, SameEnds, SameRest, Sending, Receiving, ServerCalling, ClientLooking,
     ClientCleaning, ClientClosing, ServerCleaning, ServerClosing, Handling, LockedPlaces,
     Taken, Answering, ClientPlaces, ServerPlaces
<1>o. \A u \in Threads \ {s} : SamePlaces(u)
  BY <1>p, OthersStay DEF Others
<1>e. EndRefs' /\ OneCloser' /\ refs' \in [EndTypes -> Nat]
  BY <1>i, <1>f, <1>p, <1>m, <1>o, ServerCallBegins DEF SamePlaces
<1>1. TypeOK'
  BY <1>i, <1>f, <1>e DEF TypeOK, EndTypes
<1>2. PlacesOK'
  BY <1>i, <1>p, <1>m, <1>o, SessionAssumption DEF PlacesOK, SamePlaces, SameRest, Threads
<1>3. LockHeld'
  BY <1>i, <1>f, <1>p, <1>m, <1>o, SessionAssumption DEF LockHeld, TypeOK, SamePlaces,
     SameRest
<1>4. ArgsHeld'
  BY <1>i, <1>f, <1>p, <1>m, <1>o DEF ArgsHeld, SamePlaces, SameHand
<1>5. DataInv'
  BY <1>i, <1>f, <1>m, <1>o, DataKept DEF SamePlaces, dataVars
<1>6. EndRefs'
  BY <1>e
<1>7. OneCloser'
  BY <1>e
<1>8. CutOff'
  BY <1>i, <1>f, <1>p, <1>m, <1>o DEF CutOff, SamePlaces, SameHand, SameEnds, SameRest
<1>9. WaitersAttended'
  BY <1>i, <1>f, <1>p, <1>m, <1>o DEF WaitersAttended, Pending, InList, SamePlaces, SameHand,
     SameRest, Threads
<1>10. SleepersAwaited'
  BY <1>i, <1>f, <1>p, <1>m, <1>o DEF SleepersAwaited, IsSignaled, IsClosed, SamePlaces,
     SameHand, SameRest, Threads
<1> QED
  BY <1>1, <1>2, <1>3, <1>4, <1>5, <1>6, <1>7, <1>8, <1>9, <1>10 DEF SessionInv, DataInv

(* A call on the server end returns. *)
LEMMA ServerReturnsKeeps ==
    ASSUME SessionInv, NEW s \in Servers, ServerReturns(s)
    PROVE  SessionInv'
<1>i. /\ TypeOK /\ PlacesOK /\ LockHeld /\ ArgsHeld /\ DataInv /\ EndRefs /\ OneCloser
      /\ CutOff /\ WaitersAttended /\ SleepersAwaited
  BY DEF SessionInv, DataInv
<1>f. /\ UNCHANGED <<state, list, current, mlock, handles, req, created, arg, prev, doomed,
                     accepted, opened, signals>>
      /\ refs'["server"] = refs["server"] - 1 /\ refs'["client"] = refs["client"]
      /\ refs'["session"] = refs["session"] /\ refs' = [e \in EndTypes |-> refs'[e]]
  BY Typed, <1>i DEF ServerReturns, CloseEnd, Destroying, Goto, EndTypes, queueVars,
     objectVars, clientVars
<1>p. /\ s \in Threads
      /\ pc[s] = "server_done" /\ pc'[s] \in {"server_destroy", "user"}
      /\ (refs["server"] = 1 => pc'[s] = "server_destroy")
      /\ (refs["server"] # 1 => pc'[s] = "user")
      /\ \A u \in Threads \ {s} : pc'[u] = pc[u]
      /\ pc' = [u \in Threads |-> pc'[u]]
  BY <1>i DEF ServerReturns, CloseEnd, Destroying, Goto, EndTypes, PlacesOK, Threads
<1>m. /\ SameHand(s) /\ pc[s] \in ServerCalling /\ pc'[s] \notin ServerCalling
      /\ pc[s] \notin ClientClosing /\ pc'[s] \notin ClientClosing
      /\ pc[s] \notin ServerClosing /\ pc[s] \notin ClientCleaning
      /\ pc'[s] \notin ClientCleaning /\ pc[s] \notin ServerCleaning
      /\ pc'[s] \notin ServerCleaning /\ pc[s] \notin LockedPlaces
      /\ pc'[s] \notin LockedPlaces /\ pc[s] \notin ClientPlaces /\ pc[s] \in ServerPlaces
      /\ pc'[s] \in ServerPlaces /\ pc'[s] # "received" /\ pc'[s] # "receiving"
      /\ pc'[s] # "cut_off" /\ pc'[s] # "send" /\ pc'[s] # "asleep" /\ pc'[s] # "waiting"
  BY <1>p DEF SameHand, SameEnds, SameRest, Sending, Receiving, ServerCalling, ClientLooking,
     ClientCleaning, ClientClosing, ServerCleaning, ServerClosing, Handling, LockedPlaces,
     Taken, Answering, ClientPlaces, ServerPlaces
<1>o. \A u \in Threads \ {s} : SamePlaces(u)
  BY <1>p, OthersStay DEF Others
<1>e. EndRefs' /\ OneCloser' /\ refs' \in [EndTypes -> Nat]
  BY <1>i, <1>f, <1>p, <1>m, <1>o, ServerCallEnds DEF SamePlaces, ServerCalling
<1>1. TypeOK'
  BY <1>i, <1>f, <1>e DEF TypeOK, EndTypes
<1>2. PlacesOK'
  BY <1>i, <1>p, <1>m, <1>o, SessionAssumption DEF PlacesOK, SamePlaces, SameRest, Threads
<1>3. LockHeld'
  BY <1>i, <1>f, <1>p, <1>m, <1>o, SessionAssumption DEF LockHeld, TypeOK, SamePlaces,
     SameRest
<1>4. ArgsHeld'
  BY <1>i, <1>f, <1>p, <1>m, <1>o DEF ArgsHeld, SamePlaces, SameHand
<1>5. DataInv'
  BY <1>i, <1>f, <1>m, <1>o, DataKept DEF SamePlaces, dataVars
<1>6. EndRefs'
  BY <1>e
<1>7. OneCloser'
  BY <1>e
<1>8. CutOff'
  BY <1>i, <1>f, <1>p, <1>m, <1>o DEF CutOff, SamePlaces, SameHand, SameEnds, SameRest
<1>9. WaitersAttended'
  BY <1>i, <1>f, <1>p, <1>m, <1>o DEF WaitersAttended, Pending, InList, SamePlaces, SameHand,
     SameRest, Threads
<1>10. SleepersAwaited'
  BY <1>i, <1>f, <1>p, <1>m, <1>o DEF SleepersAwaited, IsSignaled, IsClosed, SamePlaces,
     SameHand, SameRest, Threads
<1> QED
  BY <1>1, <1>2, <1>3, <1>4, <1>5, <1>6, <1>7, <1>8, <1>9, <1>10 DEF SessionInv, DataInv

(* svc::CloseHandle of the client end. *)
LEMMA ClientHandleKeeps ==
    ASSUME SessionInv, NEW t \in Clients, CloseHandle(t, "client")
    PROVE  SessionInv'
<1>i. /\ TypeOK /\ PlacesOK /\ LockHeld /\ ArgsHeld /\ DataInv /\ EndRefs /\ OneCloser
      /\ CutOff /\ WaitersAttended /\ SleepersAwaited
  BY DEF SessionInv, DataInv
<1>f. /\ UNCHANGED <<state, list, current, mlock, req, created, arg, prev, doomed,
                     accepted, opened, signals>>
      /\ "client" \in handles /\ handles' = handles \ {"client"}
      /\ refs'["server"] = refs["server"] /\ refs'["client"] = refs["client"] - 1
      /\ refs'["session"] = refs["session"] /\ refs' = [e \in EndTypes |-> refs'[e]]
  BY Typed, <1>i DEF CloseHandle, CloseEnd, Destroying, Goto, EndTypes, queueVars, objectVars,
     clientVars
<1>p. /\ t \in Threads
      /\ pc[t] = "user" /\ pc'[t] \in {"client_destroy", "user"}
      /\ (refs["client"] = 1 => pc'[t] = "client_destroy")
      /\ (refs["client"] # 1 => pc'[t] = "user")
      /\ \A u \in Threads \ {t} : pc'[u] = pc[u]
      /\ pc' = [u \in Threads |-> pc'[u]]
  BY <1>i DEF CloseHandle, CloseEnd, Destroying, Goto, EndTypes, PlacesOK, Threads
<1>m. /\ SameHand(t) /\ pc[t] \notin ServerCalling /\ pc'[t] \notin ServerCalling
      /\ pc[t] \notin ClientClosing /\ pc[t] \notin ServerClosing
      /\ pc'[t] \notin ServerClosing /\ pc[t] \notin ClientCleaning
      /\ pc'[t] \notin ClientCleaning /\ pc[t] \notin ServerCleaning
      /\ pc'[t] \notin ServerCleaning /\ pc[t] \notin LockedPlaces
      /\ pc'[t] \notin LockedPlaces /\ pc[t] \in ClientPlaces /\ pc'[t] \in ClientPlaces
      /\ pc[t] \in ServerPlaces /\ pc'[t] # "received" /\ pc'[t] # "receiving"
      /\ pc'[t] # "cut_off" /\ pc'[t] # "send" /\ pc'[t] # "asleep" /\ pc'[t] # "waiting"
  BY <1>p DEF SameHand, SameEnds, SameRest, Sending, Receiving, ServerCalling, ClientLooking,
     ClientCleaning, ClientClosing, ServerCleaning, ServerClosing, Handling, LockedPlaces,
     Taken, Answering, ClientPlaces, ServerPlaces
<1>o. \A u \in Threads \ {t} : SamePlaces(u)
  BY <1>p, OthersStay DEF Others
<1>e. EndRefs' /\ OneCloser' /\ refs' \in [EndTypes -> Nat]
  BY <1>i, <1>f, <1>p, <1>m, <1>o, ClientHandleCloses DEF SamePlaces
<1>1. TypeOK'
  BY <1>i, <1>f, <1>e DEF TypeOK, EndTypes
<1>2. PlacesOK'
  BY <1>i, <1>p, <1>m, <1>o, SessionAssumption DEF PlacesOK, SamePlaces, SameRest, Threads
<1>3. LockHeld'
  BY <1>i, <1>f, <1>p, <1>m, <1>o, SessionAssumption DEF LockHeld, TypeOK, SamePlaces,
     SameRest
<1>4. ArgsHeld'
  BY <1>i, <1>f, <1>p, <1>m, <1>o DEF ArgsHeld, SamePlaces, SameHand
<1>5. DataInv'
  BY <1>i, <1>f, <1>m, <1>o, DataKept DEF SamePlaces, dataVars
<1>6. EndRefs'
  BY <1>e
<1>7. OneCloser'
  BY <1>e
<1>8. CutOff'
  BY <1>i, <1>f, <1>p, <1>m, <1>o, Typed, CountsPositive DEF CutOff, SamePlaces, SameHand,
     SameEnds, SameRest
<1>9. WaitersAttended'
  BY <1>i, <1>f, <1>p, <1>m, <1>o DEF WaitersAttended, Pending, InList, SamePlaces, SameHand,
     SameRest, Threads
<1>10. SleepersAwaited'
  BY <1>i, <1>f, <1>p, <1>m, <1>o DEF SleepersAwaited, IsSignaled, IsClosed, SamePlaces,
     SameHand, SameRest, Threads
<1> QED
  BY <1>1, <1>2, <1>3, <1>4, <1>5, <1>6, <1>7, <1>8, <1>9, <1>10 DEF SessionInv, DataInv

(* svc::CloseHandle of the server end. *)
LEMMA ServerHandleKeeps ==
    ASSUME SessionInv, NEW t \in Servers, CloseHandle(t, "server")
    PROVE  SessionInv'
<1>i. /\ TypeOK /\ PlacesOK /\ LockHeld /\ ArgsHeld /\ DataInv /\ EndRefs /\ OneCloser
      /\ CutOff /\ WaitersAttended /\ SleepersAwaited
  BY DEF SessionInv, DataInv
<1>f. /\ UNCHANGED <<state, list, current, mlock, req, created, arg, prev, doomed,
                     accepted, opened, signals>>
      /\ "server" \in handles /\ handles' = handles \ {"server"}
      /\ refs'["server"] = refs["server"] - 1 /\ refs'["client"] = refs["client"]
      /\ refs'["session"] = refs["session"] /\ refs' = [e \in EndTypes |-> refs'[e]]
  BY Typed, <1>i DEF CloseHandle, CloseEnd, Destroying, Goto, EndTypes, queueVars, objectVars,
     clientVars
<1>p. /\ t \in Threads
      /\ pc[t] = "user" /\ pc'[t] \in {"server_destroy", "user"}
      /\ (refs["server"] = 1 => pc'[t] = "server_destroy")
      /\ (refs["server"] # 1 => pc'[t] = "user")
      /\ \A u \in Threads \ {t} : pc'[u] = pc[u]
      /\ pc' = [u \in Threads |-> pc'[u]]
  BY <1>i DEF CloseHandle, CloseEnd, Destroying, Goto, EndTypes, PlacesOK, Threads
<1>m. /\ SameHand(t) /\ pc[t] \notin ServerCalling /\ pc'[t] \notin ServerCalling
      /\ pc[t] \notin ClientClosing /\ pc'[t] \notin ClientClosing
      /\ pc[t] \notin ServerClosing /\ pc[t] \notin ClientCleaning
      /\ pc'[t] \notin ClientCleaning /\ pc[t] \notin ServerCleaning
      /\ pc'[t] \notin ServerCleaning /\ pc[t] \notin LockedPlaces
      /\ pc'[t] \notin LockedPlaces /\ pc[t] \in ClientPlaces /\ pc[t] \in ServerPlaces
      /\ pc'[t] \in ServerPlaces /\ pc'[t] # "received" /\ pc'[t] # "receiving"
      /\ pc'[t] # "cut_off" /\ pc'[t] # "send" /\ pc'[t] # "asleep" /\ pc'[t] # "waiting"
  BY <1>p DEF SameHand, SameEnds, SameRest, Sending, Receiving, ServerCalling, ClientLooking,
     ClientCleaning, ClientClosing, ServerCleaning, ServerClosing, Handling, LockedPlaces,
     Taken, Answering, ClientPlaces, ServerPlaces
<1>o. \A u \in Threads \ {t} : SamePlaces(u)
  BY <1>p, OthersStay DEF Others
<1>e. EndRefs' /\ OneCloser' /\ refs' \in [EndTypes -> Nat]
  BY <1>i, <1>f, <1>p, <1>m, <1>o, ServerHandleCloses DEF SamePlaces
<1>1. TypeOK'
  BY <1>i, <1>f, <1>e DEF TypeOK, EndTypes
<1>2. PlacesOK'
  BY <1>i, <1>p, <1>m, <1>o, SessionAssumption DEF PlacesOK, SamePlaces, SameRest, Threads
<1>3. LockHeld'
  BY <1>i, <1>f, <1>p, <1>m, <1>o, SessionAssumption DEF LockHeld, TypeOK, SamePlaces,
     SameRest
<1>4. ArgsHeld'
  BY <1>i, <1>f, <1>p, <1>m, <1>o DEF ArgsHeld, SamePlaces, SameHand
<1>5. DataInv'
  BY <1>i, <1>f, <1>m, <1>o, DataKept DEF SamePlaces, dataVars
<1>6. EndRefs'
  BY <1>e
<1>7. OneCloser'
  BY <1>e
<1>8. CutOff'
  BY <1>i, <1>f, <1>p, <1>m, <1>o, Typed, CountsPositive DEF CutOff, SamePlaces, SameHand,
     SameEnds, SameRest
<1>9. WaitersAttended'
  BY <1>i, <1>f, <1>p, <1>m, <1>o DEF WaitersAttended, Pending, InList, SamePlaces, SameHand,
     SameRest, Threads
<1>10. SleepersAwaited'
  BY <1>i, <1>f, <1>p, <1>m, <1>o DEF SleepersAwaited, IsSignaled, IsClosed, SamePlaces,
     SameHand, SameRest, Threads
<1> QED
  BY <1>1, <1>2, <1>3, <1>4, <1>5, <1>6, <1>7, <1>8, <1>9, <1>10 DEF SessionInv, DataInv

-----------------------------------------------------------------------------
(* Destroying the ends; termination. *)
(* The last reference to the client end of a closed session is gone. *)
LEMMA ClientDestroyKeeps ==
    ASSUME SessionInv, NEW t \in Threads, Destroy(t, "client"), IsClosed(state)
    PROVE  SessionInv'
<1>i. /\ TypeOK /\ PlacesOK /\ LockHeld /\ ArgsHeld /\ DataInv /\ EndRefs /\ OneCloser
      /\ CutOff /\ WaitersAttended /\ SleepersAwaited
  BY DEF SessionInv, DataInv
<1>f. /\ UNCHANGED <<state, list, current, mlock, handles, req, created, arg, prev, doomed,
                     accepted, opened, signals>>
      /\ refs'["server"] = refs["server"] /\ refs'["client"] = refs["client"]
      /\ refs'["session"] = refs["session"] - 1 /\ refs' = [e \in EndTypes |-> refs'[e]]
  BY Typed, <1>i DEF Destroy, Destroying, CloseParent, Goto, EndTypes, queueVars, objectVars,
     clientVars
<1>p. /\ t \in Threads
      /\ pc[t] = "client_destroy" /\ pc'[t] = "user"
      /\ \A u \in Threads \ {t} : pc'[u] = pc[u]
      /\ pc' = [u \in Threads |-> pc'[u]]
  BY <1>i DEF Destroy, Destroying, CloseParent, Goto, EndTypes, PlacesOK, Threads
<1>m. /\ SameHand(t) /\ pc[t] \notin ServerCalling /\ pc'[t] \notin ServerCalling
      /\ pc[t] \in ClientClosing /\ pc'[t] \notin ClientClosing
      /\ pc[t] \notin ServerClosing /\ pc'[t] \notin ServerClosing
      /\ pc[t] \notin ClientCleaning /\ pc'[t] \notin ClientCleaning
      /\ pc[t] \notin ServerCleaning /\ pc'[t] \notin ServerCleaning
      /\ pc[t] \notin LockedPlaces /\ pc'[t] \notin LockedPlaces /\ pc[t] \in ClientPlaces
      /\ pc'[t] \in ClientPlaces /\ pc[t] \notin ServerPlaces /\ pc'[t] \in ServerPlaces
  BY <1>p DEF SameHand, SameEnds, SameRest, Sending, Receiving, ServerCalling, ClientLooking,
     ClientCleaning, ClientClosing, ServerCleaning, ServerClosing, Handling, LockedPlaces,
     Taken, Answering, ClientPlaces, ServerPlaces
<1>o. \A u \in Threads \ {t} : SamePlaces(u)
  BY <1>p, OthersStay DEF Others
<1>e. EndRefs' /\ OneCloser' /\ refs' \in [EndTypes -> Nat]
  BY <1>i, <1>f, <1>p, <1>m, <1>o, ClientEndGone DEF SamePlaces, ClientClosing
<1>1. TypeOK'
  BY <1>i, <1>f, <1>e DEF TypeOK, EndTypes
<1>2. PlacesOK'
  BY <1>i, <1>p, <1>m, <1>o, SessionAssumption DEF PlacesOK, SamePlaces, SameRest, Threads
<1>3. LockHeld'
  BY <1>i, <1>f, <1>p, <1>m, <1>o, SessionAssumption DEF LockHeld, TypeOK, SamePlaces,
     SameRest
<1>4. ArgsHeld'
  BY <1>i, <1>f, <1>p, <1>m, <1>o DEF ArgsHeld, SamePlaces, SameHand
<1>5. DataInv'
  BY <1>i, <1>f, <1>m, <1>o, DataKept DEF SamePlaces, dataVars
<1>6. EndRefs'
  BY <1>e
<1>7. OneCloser'
  BY <1>e
<1>8. CutOff'
  BY <1>i, <1>f, <1>p, <1>m, <1>o DEF CutOff, SamePlaces, SameHand, SameEnds, SameRest
<1>9. WaitersAttended'
  BY <1>i, <1>f, <1>p, <1>m, <1>o DEF WaitersAttended, Pending, InList, SamePlaces, SameHand,
     SameRest, Threads
<1>10. SleepersAwaited'
  BY <1>i, <1>f, <1>p, <1>m, <1>o DEF SleepersAwaited, IsSignaled, IsClosed, SamePlaces,
     SameHand, SameRest, Threads
<1> QED
  BY <1>1, <1>2, <1>3, <1>4, <1>5, <1>6, <1>7, <1>8, <1>9, <1>10 DEF SessionInv, DataInv

(* The client end of an open session is destroyed. *)
LEMMA ClientDestroyGoesOn ==
    ASSUME SessionInv, NEW t \in Threads, Destroy(t, "client"), ~ IsClosed(state)
    PROVE  SessionInv'
<1>i. /\ TypeOK /\ PlacesOK /\ LockHeld /\ ArgsHeld /\ DataInv /\ EndRefs /\ OneCloser
      /\ CutOff /\ WaitersAttended /\ SleepersAwaited
  BY DEF SessionInv, DataInv
<1>f. /\ UNCHANGED <<state, list, current, mlock, refs, handles, req, created, arg, prev,
                     doomed, accepted, opened, signals>>
  BY DEF Destroy, Destroying, Closing, Goto, queueVars, objectVars, clientVars
<1>p. /\ t \in Threads
      /\ pc[t] = "client_destroy" /\ pc'[t] = "client_closing"
      /\ \A u \in Threads \ {t} : pc'[u] = pc[u]
      /\ pc' = [u \in Threads |-> pc'[u]]
  BY <1>i DEF Destroy, Destroying, Closing, Goto, PlacesOK, Threads
<1>m. /\ SameHand(t) /\ SameEnds(t) /\ SameRest(t) /\ pc[t] \in ClientClosing
      /\ pc'[t] \in ClientClosing
  BY <1>p DEF SameHand, SameEnds, SameRest, Sending, Receiving, ServerCalling, ClientLooking,
     ClientCleaning, ClientClosing, ServerCleaning, ServerClosing, Handling, LockedPlaces,
     Taken, Answering, ClientPlaces, ServerPlaces
<1>o. \A u \in Threads \ {t} : SamePlaces(u)
  BY <1>p, OthersStay DEF Others
<1>1. TypeOK'
  BY <1>i, <1>f DEF TypeOK
<1>2. PlacesOK'
  BY <1>i, <1>p, <1>m, <1>o, SessionAssumption DEF PlacesOK, SamePlaces, SameRest, Threads
<1>3. LockHeld'
  BY <1>i, <1>f, <1>p, <1>m, <1>o, SessionAssumption DEF LockHeld, TypeOK, SamePlaces,
     SameRest
<1>4. ArgsHeld'
  BY <1>i, <1>f, <1>p, <1>m, <1>o DEF ArgsHeld, SamePlaces, SameHand
<1>5. DataInv'
  BY <1>i, <1>f, <1>m, <1>o, DataKept DEF SamePlaces, dataVars
<1>6. EndRefs'
  BY <1>i, <1>f, <1>m, <1>o, EndsKept DEF SamePlaces
<1>7. OneCloser'
  BY <1>i, <1>f, <1>m, <1>o, EndsKept DEF SamePlaces
<1>8. CutOff'
  BY <1>i, <1>f, <1>p, <1>m, <1>o DEF CutOff, SamePlaces, SameHand, SameEnds, SameRest
<1>9. WaitersAttended'
  BY <1>i, <1>f, <1>p, <1>m, <1>o DEF WaitersAttended, Pending, InList, SamePlaces, SameHand,
     SameRest, Threads
<1>10. SleepersAwaited'
  BY <1>i, <1>f, <1>p, <1>m, <1>o DEF SleepersAwaited, IsSignaled, IsClosed, SamePlaces,
     SameHand, SameRest, Threads
<1> QED
  BY <1>1, <1>2, <1>3, <1>4, <1>5, <1>6, <1>7, <1>8, <1>9, <1>10 DEF SessionInv, DataInv

(* The server end is destroyed. *)
LEMMA ServerDestroyKeeps ==
    ASSUME SessionInv, NEW t \in Threads, Destroy(t, "server")
    PROVE  SessionInv'
<1>i. /\ TypeOK /\ PlacesOK /\ LockHeld /\ ArgsHeld /\ DataInv /\ EndRefs /\ OneCloser
      /\ CutOff /\ WaitersAttended /\ SleepersAwaited
  BY DEF SessionInv, DataInv
<1>f. /\ UNCHANGED <<state, list, current, mlock, refs, handles, req, created, arg, prev,
                     doomed, accepted, opened, signals>>
  BY DEF Destroy, Destroying, Closing, Cleaning, Goto, queueVars, objectVars, clientVars
<1>p. /\ t \in Threads
      /\ pc[t] = "server_destroy" /\ pc'[t] \in {"server_cleanup", "server_closing"}
      /\ \A u \in Threads \ {t} : pc'[u] = pc[u]
      /\ pc' = [u \in Threads |-> pc'[u]]
  BY <1>i DEF Destroy, Destroying, Closing, Cleaning, Goto, PlacesOK, Threads
<1>m. /\ SameHand(t) /\ SameEnds(t) /\ pc[t] \notin ClientClosing
      /\ pc'[t] \notin ClientClosing /\ pc[t] \notin ClientCleaning
      /\ pc'[t] \notin ClientCleaning /\ pc[t] \notin ServerCleaning
      /\ pc[t] \notin LockedPlaces /\ pc'[t] \notin LockedPlaces
      /\ pc[t] \notin ClientPlaces /\ pc'[t] \notin ClientPlaces /\ pc[t] \in ServerPlaces
      /\ pc'[t] \in ServerPlaces /\ pc'[t] # "received" /\ pc'[t] # "receiving"
      /\ pc'[t] # "cut_off" /\ pc'[t] # "send" /\ pc'[t] # "asleep" /\ pc'[t] # "waiting"
  BY <1>p DEF SameHand, SameEnds, SameRest, Sending, Receiving, ServerCalling, ClientLooking,
     ClientCleaning, ClientClosing, ServerCleaning, ServerClosing, Handling, LockedPlaces,
     Taken, Answering, ClientPlaces, ServerPlaces
<1>o. \A u \in Threads \ {t} : SamePlaces(u)
  BY <1>p, OthersStay DEF Others
<1>1. TypeOK'
  BY <1>i, <1>f DEF TypeOK
<1>2. PlacesOK'
  BY <1>i, <1>p, <1>m, <1>o DEF PlacesOK, SamePlaces, SameRest, Threads
<1>3. LockHeld'
  BY <1>i, <1>f, <1>p, <1>m, <1>o, SessionAssumption DEF LockHeld, TypeOK, SamePlaces,
     SameRest
<1>4. ArgsHeld'
  BY <1>i, <1>f, <1>p, <1>m, <1>o DEF ArgsHeld, SamePlaces, SameHand
<1>5. DataInv'
  BY <1>i, <1>f, <1>m, <1>o, DataKept DEF SamePlaces, dataVars
<1>6. EndRefs'
  BY <1>i, <1>f, <1>m, <1>o, EndsKept DEF SamePlaces
<1>7. OneCloser'
  BY <1>i, <1>f, <1>m, <1>o, EndsKept DEF SamePlaces
<1>8. CutOff'
  BY <1>i, <1>f, <1>p, <1>m, <1>o DEF CutOff, SamePlaces, SameHand, SameEnds, SameRest
<1>9. WaitersAttended'
  BY <1>i, <1>f, <1>p, <1>m, <1>o DEF WaitersAttended, Pending, InList, SamePlaces, SameHand,
     SameRest, Threads
<1>10. SleepersAwaited'
  BY <1>i, <1>f, <1>p, <1>m, <1>o DEF SleepersAwaited, IsSignaled, IsClosed, SamePlaces,
     SameHand, SameRest, Threads
<1> QED
  BY <1>1, <1>2, <1>3, <1>4, <1>5, <1>6, <1>7, <1>8, <1>9, <1>10 DEF SessionInv, DataInv

(* The client end marks the session closed. *)
LEMMA ClientSetClosedKeeps ==
    ASSUME SessionInv, NEW t \in Threads, SetClosed(t, "client")
    PROVE  SessionInv'
<1>i. /\ TypeOK /\ PlacesOK /\ LockHeld /\ ArgsHeld /\ DataInv /\ EndRefs /\ OneCloser
      /\ CutOff /\ WaitersAttended /\ SleepersAwaited
  BY DEF SessionInv, DataInv
<1>f. /\ UNCHANGED <<list, current, mlock, refs, handles, req, created, arg, prev, doomed,
                     accepted, opened, signals>>
      /\ state' = "ClientClosed"
  BY DEF SetClosed, Closing, Cleaning, Goto, queueVars, objectVars, clientVars
<1>p. /\ t \in Threads
      /\ pc[t] = "client_closing" /\ pc'[t] = "client_cleanup"
      /\ \A u \in Threads \ {t} : pc'[u] = pc[u]
      /\ pc' = [u \in Threads |-> pc'[u]]
  BY <1>i DEF SetClosed, Closing, Cleaning, Goto, PlacesOK, Threads
<1>m. /\ SameHand(t) /\ SameEnds(t) /\ pc[t] \in ClientClosing /\ pc'[t] \in ClientClosing
      /\ pc[t] \notin ClientCleaning /\ pc'[t] \in ClientCleaning
      /\ pc[t] \notin ServerCleaning /\ pc'[t] \notin ServerCleaning
      /\ pc[t] \notin LockedPlaces /\ pc'[t] \notin LockedPlaces /\ pc[t] \in ClientPlaces
      /\ pc'[t] \in ClientPlaces /\ pc[t] \notin ServerPlaces /\ pc'[t] \notin ServerPlaces
  BY <1>p DEF SameHand, SameEnds, SameRest, Sending, Receiving, ServerCalling, ClientLooking,
     ClientCleaning, ClientClosing, ServerCleaning, ServerClosing, Handling, LockedPlaces,
     Taken, Answering, ClientPlaces, ServerPlaces
<1>o. \A u \in Threads \ {t} : SamePlaces(u)
  BY <1>p, OthersStay DEF Others
<1>1. TypeOK'
  BY <1>i, <1>f DEF TypeOK
<1>2. PlacesOK'
  BY <1>i, <1>p, <1>m, <1>o, SessionAssumption DEF PlacesOK, SamePlaces, SameRest, Threads
<1>3. LockHeld'
  BY <1>i, <1>f, <1>p, <1>m, <1>o, SessionAssumption DEF LockHeld, TypeOK, SamePlaces,
     SameRest
<1>4. ArgsHeld'
  BY <1>i, <1>f, <1>p, <1>m, <1>o DEF ArgsHeld, SamePlaces, SameHand
<1>5. DataInv'
  BY <1>i, <1>f, <1>m, <1>o, DataKept DEF SamePlaces, dataVars
<1>6. EndRefs'
  BY <1>i, <1>f, <1>m, <1>o, EndsKept DEF SamePlaces
<1>7. OneCloser'
  BY <1>i, <1>f, <1>p, <1>m, <1>o, Typed DEF OneCloser, SamePlaces, SameEnds, ClientClosing
<1>8. CutOff'
  BY <1>i, <1>f, <1>p, <1>m, <1>o DEF CutOff, SamePlaces, SameHand, SameEnds, SameRest
<1>9. WaitersAttended'
  BY <1>i, <1>f, <1>p, <1>m, <1>o DEF WaitersAttended, Pending, InList, SamePlaces, SameHand,
     SameRest, Threads
<1>10. SleepersAwaited'
  BY <1>i, <1>f, <1>p, <1>m, <1>o DEF SleepersAwaited, IsSignaled, IsClosed, SamePlaces,
     SameHand, SameRest, Threads
<1> QED
  BY <1>1, <1>2, <1>3, <1>4, <1>5, <1>6, <1>7, <1>8, <1>9, <1>10 DEF SessionInv, DataInv

(* The server end marks the session closed; no server is left to sleep. *)
LEMMA ServerSetClosedKeeps ==
    ASSUME SessionInv, NEW t \in Threads, SetClosed(t, "server")
    PROVE  SessionInv'
<1>i. /\ TypeOK /\ PlacesOK /\ LockHeld /\ ArgsHeld /\ DataInv /\ EndRefs /\ OneCloser
      /\ CutOff /\ WaitersAttended /\ SleepersAwaited
  BY DEF SessionInv, DataInv
<1>f. /\ UNCHANGED <<list, current, mlock, refs, handles, req, created, arg, prev, doomed,
                     accepted, opened, signals>>
      /\ state' = "ServerClosed"
  BY DEF SetClosed, Closing, Cleaning, Goto, queueVars, objectVars, clientVars
<1>p. /\ t \in Threads
      /\ pc[t] = "server_closing" /\ pc'[t] = "server_cleanup"
      /\ \A u \in Threads \ {t} : pc'[u] = pc[u]
      /\ pc' = [u \in Threads |-> pc'[u]]
  BY <1>i DEF SetClosed, Closing, Cleaning, Goto, PlacesOK, Threads
<1>m. /\ SameHand(t) /\ SameEnds(t) /\ pc[t] \notin ClientClosing
      /\ pc'[t] \notin ClientClosing /\ pc[t] \notin ClientCleaning
      /\ pc'[t] \notin ClientCleaning /\ pc[t] \notin ServerCleaning
      /\ pc'[t] \in ServerCleaning /\ pc[t] \notin LockedPlaces
      /\ pc'[t] \notin LockedPlaces /\ pc[t] \notin ClientPlaces
      /\ pc'[t] \notin ClientPlaces /\ pc[t] \in ServerPlaces /\ pc'[t] \in ServerPlaces
  BY <1>p DEF SameHand, SameEnds, SameRest, Sending, Receiving, ServerCalling, ClientLooking,
     ClientCleaning, ClientClosing, ServerCleaning, ServerClosing, Handling, LockedPlaces,
     Taken, Answering, ClientPlaces, ServerPlaces
<1>o. \A u \in Threads \ {t} : SamePlaces(u)
  BY <1>p, OthersStay DEF Others
<1>s. \A s \in Servers : pc[s] # "asleep"
  BY <1>i, <1>p, Typed, CountsPositive DEF OneCloser, ServerClosing, ServerCalling
<1>1. TypeOK'
  BY <1>i, <1>f DEF TypeOK
<1>2. PlacesOK'
  BY <1>i, <1>p, <1>m, <1>o, SessionAssumption DEF PlacesOK, SamePlaces, SameRest, Threads
<1>3. LockHeld'
  BY <1>i, <1>f, <1>p, <1>m, <1>o, SessionAssumption DEF LockHeld, TypeOK, SamePlaces,
     SameRest
<1>4. ArgsHeld'
  BY <1>i, <1>f, <1>p, <1>m, <1>o DEF ArgsHeld, SamePlaces, SameHand
<1>5. DataInv'
  BY <1>i, <1>f, <1>m, <1>o, DataKept DEF SamePlaces, dataVars
<1>6. EndRefs'
  BY <1>i, <1>f, <1>m, <1>o, EndsKept DEF SamePlaces
<1>7. OneCloser'
  BY <1>i, <1>f, <1>p, <1>m, <1>o, Typed DEF OneCloser, SamePlaces, SameEnds, ServerClosing
<1>8. CutOff'
  BY <1>i, <1>f, <1>p, <1>m, <1>o DEF CutOff, SamePlaces, SameHand, SameEnds, SameRest
<1>9. WaitersAttended'
  BY <1>i, <1>f, <1>p, <1>m, <1>o DEF WaitersAttended, Pending, InList, SamePlaces, SameHand,
     SameRest, Threads
<1>10. SleepersAwaited'
  BY <1>s, <1>p, <1>m, <1>o DEF SleepersAwaited, SamePlaces, SameRest, Threads
<1> QED
  BY <1>1, <1>2, <1>3, <1>4, <1>5, <1>6, <1>7, <1>8, <1>9, <1>10 DEF SessionInv, DataInv

(* CleanupRequests is done, and the server end gone. *)
LEMMA CleanupReturnsKeeps ==
    ASSUME SessionInv, NEW t \in Threads, CleanupReturns(t)
    PROVE  SessionInv'
<1>i. /\ TypeOK /\ PlacesOK /\ LockHeld /\ ArgsHeld /\ DataInv /\ EndRefs /\ OneCloser
      /\ CutOff /\ WaitersAttended /\ SleepersAwaited
  BY DEF SessionInv, DataInv
<1>f. /\ UNCHANGED <<state, list, current, handles, req, created, arg, prev, doomed,
                     accepted, opened, signals>>
      /\ mlock' = NoThread /\ list = <<>> /\ current = NoRequest
      /\ refs'["server"] = refs["server"] /\ refs'["client"] = refs["client"]
      /\ refs'["session"] = refs["session"] - 1 /\ refs' = [e \in EndTypes |-> refs'[e]]
  BY Typed, <1>i DEF CleanupReturns, CloseParent, Goto, EndTypes, queueVars, objectVars,
     clientVars
<1>p. /\ t \in Threads
      /\ pc[t] = "server_cleanup_locked" /\ pc'[t] = "user"
      /\ \A u \in Threads \ {t} : pc'[u] = pc[u]
      /\ pc' = [u \in Threads |-> pc'[u]]
  BY <1>i DEF CleanupReturns, CloseParent, Goto, EndTypes, PlacesOK, Threads
<1>m. /\ SameHand(t) /\ pc[t] \notin ServerCalling /\ pc'[t] \notin ServerCalling
      /\ pc[t] \notin ClientClosing /\ pc'[t] \notin ClientClosing
      /\ pc[t] \in ServerClosing /\ pc'[t] \notin ServerClosing
      /\ pc[t] \notin ClientCleaning /\ pc'[t] \notin ClientCleaning
      /\ pc[t] \in ServerCleaning /\ pc'[t] \notin ServerCleaning /\ pc[t] \in LockedPlaces
      /\ pc'[t] \notin LockedPlaces /\ pc[t] \notin ClientPlaces /\ pc'[t] \in ClientPlaces
      /\ pc[t] \in ServerPlaces /\ pc'[t] \in ServerPlaces
  BY <1>p DEF SameHand, SameEnds, SameRest, Sending, Receiving, ServerCalling, ClientLooking,
     ClientCleaning, ClientClosing, ServerCleaning, ServerClosing, Handling, LockedPlaces,
     Taken, Answering, ClientPlaces, ServerPlaces
<1>o. \A u \in Threads \ {t} : SamePlaces(u)
  BY <1>p, OthersStay DEF Others
<1>e. EndRefs' /\ OneCloser' /\ refs' \in [EndTypes -> Nat]
  BY <1>i, <1>f, <1>p, <1>m, <1>o, ServerEndGone DEF SamePlaces, ServerClosing, ServerCleaning
<1>1. TypeOK'
  BY <1>i, <1>f, <1>e DEF TypeOK, EndTypes
<1>2. PlacesOK'
  BY <1>i, <1>p, <1>m, <1>o, SessionAssumption DEF PlacesOK, SamePlaces, SameRest, Threads
<1>3. LockHeld'
  BY <1>i, <1>f, <1>p, <1>m, <1>o, SessionAssumption DEF LockHeld, TypeOK, SamePlaces,
     SameRest
<1>4. ArgsHeld'
  BY <1>i, <1>f, <1>p, <1>m, <1>o DEF ArgsHeld, SamePlaces, SameHand
<1>5. DataInv'
  BY <1>i, <1>f, <1>m, <1>o, DataKept DEF SamePlaces, dataVars
<1>6. EndRefs'
  BY <1>e
<1>7. OneCloser'
  BY <1>e
<1>8. CutOff'
  BY <1>i, <1>f, <1>p, <1>m, <1>o DEF CutOff, SamePlaces, SameHand, SameEnds, SameRest
<1>9. WaitersAttended'
  BY <1>i, <1>f, <1>p, <1>m, <1>o DEF WaitersAttended, Pending, InList, SamePlaces, SameHand,
     SameRest, Threads
<1>10. SleepersAwaited'
  BY <1>i, <1>f, <1>p, <1>m, <1>o DEF SleepersAwaited, IsSignaled, IsClosed, SamePlaces,
     SameHand, SameRest, Threads
<1> QED
  BY <1>1, <1>2, <1>3, <1>4, <1>5, <1>6, <1>7, <1>8, <1>9, <1>10 DEF SessionInv, DataInv

(* OnClientClosed is done: it ends every wait, and the client end is gone. *)
LEMMA ClientClosedNotifyKeeps ==
    ASSUME SessionInv, NEW t \in Threads, ClientClosedNotify(t)
    PROVE  SessionInv'
<1>i. /\ TypeOK /\ PlacesOK /\ LockHeld /\ ArgsHeld /\ DataInv /\ EndRefs /\ OneCloser
      /\ CutOff /\ WaitersAttended /\ SleepersAwaited
  BY DEF SessionInv, DataInv
<1>f. /\ UNCHANGED <<state, list, current, handles, req, created, arg, prev, doomed,
                     accepted, opened, signals>>
      /\ mlock' = NoThread
      /\ refs'["server"] = refs["server"] /\ refs'["client"] = refs["client"]
      /\ refs'["session"] = refs["session"] - 1 /\ refs' = [e \in EndTypes |-> refs'[e]]
  BY Typed, <1>i DEF ClientClosedNotify, Notified, IsSignaled, CloseParent, Goto, EndTypes,
     queueVars, objectVars, clientVars
<1>p. /\ t \in Threads
      /\ pc[t] = "client_cleanup_locked" /\ pc'[t] = "user"
      /\ (IsClosed(state) => \A u \in Threads : pc'[u] # "asleep")
      /\ \A u \in Threads \ {t} : pc'[u] = pc[u] \/ (pc[u] = "asleep" /\ pc'[u] = "server_done")
      /\ pc' = [u \in Threads |-> pc'[u]]
  BY <1>i DEF ClientClosedNotify, Notified, IsSignaled, CloseParent, Goto, EndTypes, PlacesOK,
     Threads
<1>m. /\ SameHand(t) /\ pc[t] \notin ServerCalling /\ pc'[t] \notin ServerCalling
      /\ pc[t] \in ClientClosing /\ pc'[t] \notin ClientClosing
      /\ pc[t] \notin ServerClosing /\ pc'[t] \notin ServerClosing
      /\ pc[t] \in ClientCleaning /\ pc'[t] \notin ClientCleaning
      /\ pc[t] \notin ServerCleaning /\ pc'[t] \notin ServerCleaning
      /\ pc[t] \in LockedPlaces /\ pc'[t] \notin LockedPlaces /\ pc[t] \in ClientPlaces
      /\ pc'[t] \in ClientPlaces /\ pc[t] \notin ServerPlaces /\ pc'[t] \in ServerPlaces
  BY <1>p DEF SameHand, SameEnds, SameRest, Sending, Receiving, ServerCalling, ClientLooking,
     ClientCleaning, ClientClosing, ServerCleaning, ServerClosing, Handling, LockedPlaces,
     Taken, Answering, ClientPlaces, ServerPlaces
<1>o. \A u \in Threads \ {t} : SamePlaces(u)
  BY <1>p, OthersStay DEF Others
<1>e. EndRefs' /\ OneCloser' /\ refs' \in [EndTypes -> Nat]
  BY <1>i, <1>f, <1>p, <1>m, <1>o, ClientEndGone DEF SamePlaces, ClientClosing, ClientCleaning
<1>1. TypeOK'
  BY <1>i, <1>f, <1>e DEF TypeOK, EndTypes
<1>2. PlacesOK'
  BY <1>i, <1>p, <1>m, <1>o, SessionAssumption DEF PlacesOK, SamePlaces, SameRest, Threads
<1>3. LockHeld'
  BY <1>i, <1>f, <1>p, <1>m, <1>o, SessionAssumption DEF LockHeld, TypeOK, SamePlaces,
     SameRest
<1>4. ArgsHeld'
  BY <1>i, <1>f, <1>p, <1>m, <1>o DEF ArgsHeld, SamePlaces, SameHand
<1>5. DataInv'
  BY <1>i, <1>f, <1>m, <1>o, DataKept DEF SamePlaces, dataVars
<1>6. EndRefs'
  BY <1>e
<1>7. OneCloser'
  BY <1>e
<1>8. CutOff'
  BY <1>i, <1>f, <1>p, <1>m, <1>o DEF CutOff, SamePlaces, SameHand, SameEnds, SameRest
<1>9. WaitersAttended'
  BY <1>i, <1>f, <1>p, <1>m, <1>o DEF WaitersAttended, Pending, InList, SamePlaces, SameHand,
     SameRest, Threads
<1>10. SleepersAwaited'
  BY <1>i, <1>f, <1>p, <1>m, <1>o DEF SleepersAwaited, IsSignaled, IsClosed, SamePlaces,
     SameHand, SameRest, Threads
<1> QED
  BY <1>1, <1>2, <1>3, <1>4, <1>5, <1>6, <1>7, <1>8, <1>9, <1>10 DEF SessionInv, DataInv

(* A client is to terminate; its wait ends. *)
LEMMA RequestTerminateKeeps ==
    ASSUME SessionInv, NEW c \in Clients, RequestTerminate(c), pc[c] = "waiting"
    PROVE  SessionInv'
<1>i. /\ TypeOK /\ PlacesOK /\ LockHeld /\ ArgsHeld /\ DataInv /\ EndRefs /\ OneCloser
      /\ CutOff /\ WaitersAttended /\ SleepersAwaited
  BY DEF SessionInv, DataInv
<1>f. /\ UNCHANGED <<state, list, current, mlock, refs, handles, req, created, arg, prev,
                     accepted, opened, signals>>
      /\ doomed' = doomed \cup {c} /\ c \in Terminable
  BY DEF RequestTerminate, Goto, queueVars, objectVars, clientVars
<1>p. /\ c \in Threads
      /\ pc[c] = "waiting" /\ pc'[c] = "sent"
      /\ \A u \in Threads \ {c} : pc'[u] = pc[u]
      /\ pc' = [u \in Threads |-> pc'[u]]
  BY <1>i DEF RequestTerminate, Goto, PlacesOK, Threads
<1>m. /\ SameHand(c) /\ SameEnds(c) /\ SameRest(c) /\ pc[c] \notin ClientClosing
      /\ pc'[c] \notin ClientClosing
  BY <1>p DEF SameHand, SameEnds, SameRest, Sending, Receiving, ServerCalling, ClientLooking,
     ClientCleaning, ClientClosing, ServerCleaning, ServerClosing, Handling, LockedPlaces,
     Taken, Answering, ClientPlaces, ServerPlaces
<1>o. \A u \in Threads \ {c} : SamePlaces(u)
  BY <1>p, OthersStay DEF Others
<1>1. TypeOK'
  BY <1>i, <1>f DEF TypeOK
<1>2. PlacesOK'
  BY <1>i, <1>p, <1>m, <1>o, SessionAssumption DEF PlacesOK, SamePlaces, SameRest, Threads
<1>3. LockHeld'
  BY <1>i, <1>f, <1>p, <1>m, <1>o, SessionAssumption DEF LockHeld, TypeOK, SamePlaces,
     SameRest
<1>4. ArgsHeld'
  BY <1>i, <1>f, <1>p, <1>m, <1>o DEF ArgsHeld, SamePlaces, SameHand
<1>5. DataInv'
  BY <1>i, <1>f, <1>m, <1>o, DataKept DEF SamePlaces, dataVars
<1>6. EndRefs'
  BY <1>i, <1>f, <1>m, <1>o, EndsKept DEF SamePlaces
<1>7. OneCloser'
  BY <1>i, <1>f, <1>m, <1>o, EndsKept DEF SamePlaces
<1>8. CutOff'
  BY <1>i, <1>f, <1>p, <1>m, <1>o DEF CutOff, SamePlaces, SameHand, SameEnds, SameRest
<1>9. WaitersAttended'
  BY <1>i, <1>f, <1>p, <1>m, <1>o DEF WaitersAttended, Pending, InList, SamePlaces, SameHand,
     SameRest, Threads
<1>10. SleepersAwaited'
  BY <1>i, <1>f, <1>p, <1>m, <1>o DEF SleepersAwaited, IsSignaled, IsClosed, SamePlaces,
     SameHand, SameRest, Threads
<1> QED
  BY <1>1, <1>2, <1>3, <1>4, <1>5, <1>6, <1>7, <1>8, <1>9, <1>10 DEF SessionInv, DataInv

(* A client that does not wait is to terminate. *)
LEMMA RequestTerminateRunning ==
    ASSUME SessionInv, NEW c \in Clients, RequestTerminate(c), pc[c] # "waiting"
    PROVE  SessionInv'
<1>i. /\ TypeOK /\ PlacesOK /\ LockHeld /\ ArgsHeld /\ DataInv /\ EndRefs /\ OneCloser
      /\ CutOff /\ WaitersAttended /\ SleepersAwaited
  BY DEF SessionInv, DataInv
<1>f. /\ UNCHANGED <<state, list, current, mlock, refs, handles, req, created, arg, prev,
                     accepted, opened, signals>>
      /\ doomed' = doomed \cup {c} /\ c \in Terminable
      /\ pc' = pc
  BY <1>i DEF RequestTerminate, Goto, queueVars, objectVars, clientVars, PlacesOK, Threads
<1>o. \A u \in Threads : SamePlaces(u)
  BY <1>f DEF SamePlaces, SameHand, SameEnds, SameRest
<1>1. TypeOK'
  BY <1>i, <1>f DEF TypeOK
<1>2. PlacesOK' /\ LockHeld' /\ ArgsHeld'
  BY <1>i, <1>f DEF PlacesOK, LockHeld, ArgsHeld
<1>3. DataInv'
  BY <1>i, <1>f, <1>o, DataKept DEF SamePlaces, dataVars
<1>4. EndRefs' /\ OneCloser'
  BY <1>i, <1>f, <1>o, EndsKept DEF SamePlaces
<1>5. CutOff'
  BY <1>i, <1>f DEF CutOff
<1>6. WaitersAttended'
  BY <1>i, <1>f DEF WaitersAttended, Pending, InList
<1>7. SleepersAwaited'
  BY <1>i, <1>f DEF SleepersAwaited, IsClosed
<1> QED
  BY <1>1, <1>2, <1>3, <1>4, <1>5, <1>6, <1>7 DEF SessionInv, DataInv

-----------------------------------------------------------------------------
(* Steps of the thread that holds m_lock: only its hand matters. *)
LEMMA OneHand ==
    ASSUME NEW t \in Threads,
           \A u \in Threads \ {t} : pc[u] \notin Handling /\ pc'[u] \notin Handling
    PROVE  /\ \A r : Handled(r) <=> (pc[t] \in Handling /\ pc[t] # "receiving" /\ arg[t] = r)
           /\ \A r : Handled(r)' <=> (pc'[t] \in Handling /\ pc'[t] # "receiving" /\ arg'[t] = r)
           /\ \A r : Pending(r) <=>
                        (InList(r) \/ current = r \/ (pc[t] \in Answering /\ arg[t] = r))
           /\ \A r : Pending(r)' <=>
                        (InList(r)' \/ current' = r \/ (pc'[t] \in Answering /\ arg'[t] = r))
<1>1. Answering \subseteq Handling
  BY DEF Answering, Handling, Receiving, ClientLooking
<1>2. \A r : Handled(r) <=> (pc[t] \in Handling /\ pc[t] # "receiving" /\ arg[t] = r)
  BY DEF Handled
<1>3. \A r : Handled(r)' <=> (pc'[t] \in Handling /\ pc'[t] # "receiving" /\ arg'[t] = r)
  BY DEF Handled
<1>4. \A r : Pending(r) <=> (InList(r) \/ current = r \/ (pc[t] \in Answering /\ arg[t] = r))
  BY <1>1 DEF Pending
<1>5. \A r : Pending(r)' <=>
                (InList(r)' \/ current' = r \/ (pc'[t] \in Answering /\ arg'[t] = r))
  BY <1>1 DEF Pending
<1> QED
  BY <1>2, <1>3, <1>4, <1>5

(* The places of a request exclude each other if those of t do. *)
LEMMA ExclusiveStep ==
    ASSUME NEW t \in Threads, \A u \in Threads \ {t} : pc'[u] \notin Handling,
           ~ InList(current)',
           pc'[t] \in Handling => ~ InList(arg[t])',
           pc'[t] \in Taken => arg'[t] # current',
           pc'[t] = "receiving" => arg'[t] = current',
           pc'[t] = "received" => current' = NoRequest
    PROVE  Exclusive'
<1>1. \A u \in Threads : u # t => pc'[u] \notin Handling
  OBVIOUS
<1>2. Taken \subseteq Handling /\ "receiving" \in Handling /\ "received" \in Handling
  BY DEF Taken, Handling, Receiving, ClientLooking
<1>3. \A u \in Threads :
          /\ pc'[u] \in Handling => ~ InList(arg[u])'
          /\ pc'[u] \in Taken => arg'[u] # current'
          /\ pc'[u] = "receiving" => arg'[u] = current'
          /\ pc'[u] = "received" => current' = NoRequest
  BY <1>1, <1>2
<1> QED
  BY <1>3 DEF Exclusive

(* A request that waits to be queued stays out of every other hand. *)
LEMMA UnsentStep ==
    ASSUME TypeOK, ArgsHeld, Unsent, NEW t \in Threads, pc'[t] # "send",
           \A u \in Threads \ {t} : arg'[u] = arg[u] /\ (pc'[u] = "send" => pc[u] = "send"),
           \A r : InList(r)' => InList(r) \/ r = arg[t],
           current' \in {current, NoRequest, arg[t]},
           arg'[t] \in {arg[t], NoRequest, current} \/ InList(arg'[t]),
           \A r \in accepted' : r \in accepted \/ r = arg[t],
           \A r \in Requests : r # arg[t] => signals'[r] = signals[r]
    PROVE  Unsent'
<1> SUFFICES ASSUME NEW c \in Clients, pc'[c] = "send"
             PROVE  /\ ~ InList(arg[c])' /\ arg'[c] # current' /\ arg'[c] \notin accepted'
                    /\ signals'[arg'[c]] = 0
                    /\ \A u \in Threads : arg'[u] = arg'[c] => u = c
  BY DEF Unsent
<1>1. c \in Threads /\ c # t /\ pc[c] = "send" /\ arg'[c] = arg[c]
  BY DEF Threads
<1>2. /\ ~ InList(arg[c]) /\ arg[c] # current /\ arg[c] \notin accepted /\ signals[arg[c]] = 0
      /\ \A u \in Threads : arg[u] = arg[c] => u = c
  BY <1>1 DEF Unsent
<1>3. arg[c] # NoRequest /\ arg[c] \in Requests
  BY <1>1 DEF ArgsHeld, Sending, TypeOK
<1>4. arg[t] # arg[c]
  BY <1>1, <1>2
<1>5. ~ InList(arg[c])'
  BY <1>1, <1>2, <1>4
<1>6. /\ arg'[c] # current' /\ arg'[c] \notin accepted' /\ signals'[arg'[c]] = 0
  BY <1>1, <1>2, <1>3, <1>4
<1>7. arg'[t] # arg[c]
  BY <1>2, <1>3, <1>4
<1> QED
  BY <1>1, <1>2, <1>5, <1>6, <1>7

(* No request is created and none changes hands to another sender. *)
LEMMA CreatedStep ==
    ASSUME TypeOK, Created, UNCHANGED <<created, accepted>>, NEW t \in Threads,
           pc'[t] \in Sending => pc[t] \in Sending /\ arg'[t] = arg[t],
           \A u \in Threads \ {t} : arg'[u] = arg[u] /\ (pc'[u] \in Sending => pc[u] \in Sending),
           \A r \in Requests : /\ req'[r].owner = req[r].owner
                               /\ r > created => /\ req'[r].ref = req[r].ref
                                                 /\ signals'[r] = signals[r],
           \A c \in Clients : pc[c] \in Sending => arg[c] \in Requests
    PROVE  Created'
<1>1. \A r \in Requests : r > created' => /\ req'[r].owner = NoThread /\ req'[r].ref = 0
                                          /\ r \notin accepted' /\ signals'[r] = 0
  BY DEF Created
<1>2. \A r \in Requests : r <= created' => req'[r].owner \in Clients
  BY DEF Created
<1>3. ASSUME NEW c \in Clients, pc'[c] \in Sending PROVE req'[arg'[c]].owner = c
  <2>1. c \in Threads
    BY DEF Threads
  <2>2. pc[c] \in Sending /\ arg'[c] = arg[c]
    BY <1>3, <2>1
  <2>3. arg[c] \in Requests /\ req[arg[c]].owner = c
    BY <2>2 DEF Created
  <2> QED
    BY <2>2, <2>3
<1> QED
  BY <1>1, <1>2, <1>3 DEF Created

(* A pending request stays pending, or is signalled as it stops being so. *)
LEMMA EventsStep ==
    ASSUME TypeOK, EventsSignalled, UNCHANGED accepted,
           \A r \in Requests : req'[r].event => req[r].event,
           \A r \in Requests :
              \/ /\ signals'[r] = signals[r]
                 /\ Pending(r)' => Pending(r)
                 /\ Pending(r) /\ req'[r].event => Pending(r)'
              \/ Pending(r) /\ ~ Pending(r)' /\ signals'[r] = signals[r] + 1
    PROVE  EventsSignalled'
<1> SUFFICES ASSUME NEW r \in Requests
             PROVE  /\ signals'[r] <= 1
                    /\ Pending(r)' => signals'[r] = 0
                    /\ req'[r].event /\ r \in accepted' => signals'[r] = 1 \/ Pending(r)'
  BY DEF EventsSignalled
<1>1. /\ signals[r] <= 1
      /\ Pending(r) => signals[r] = 0
      /\ req[r].event /\ r \in accepted => signals[r] = 1 \/ Pending(r)
      /\ req'[r].event => req[r].event
  BY DEF EventsSignalled
<1>2. CASE /\ signals'[r] = signals[r]
           /\ Pending(r)' => Pending(r)
           /\ Pending(r) /\ req'[r].event => Pending(r)'
  BY <1>1, <1>2
<1>3. CASE Pending(r) /\ ~ Pending(r)' /\ signals'[r] = signals[r] + 1
  BY <1>1, <1>3
<1> QED
  BY <1>2, <1>3

(* What somebody has in hand exists. *)
LEMMA HeldExists ==
    ASSUME TypeOK, ArgsHeld, Created, RefCount, Exclusive, PlacesOK
    PROVE  /\ \A t \in Threads : arg[t] # NoRequest =>
                 arg[t] \in Requests /\ arg[t] <= created /\ req[arg[t]].ref > 0
                 /\ req[arg[t]].owner \in Clients
           /\ \A r \in Requests : InList(r) \/ current = r =>
                 r <= created /\ req[r].ref > 0 /\ req[r].owner \in Clients
           /\ \A r \in Requests : req[r].ref > 0 => req[r].owner \in Clients
<1>1. \A r \in Requests : InList(r) \/ current = r \/ Sent(r) \/ Handled(r) => req[r].ref > 0
  BY DEF RefCount, One
<1>2. \A r \in Requests : req[r].ref > 0 => r <= created /\ req[r].owner \in Clients
  <2> SUFFICES ASSUME NEW r \in Requests, req[r].ref > 0 PROVE r <= created
    BY DEF Created
  <2> QED
    BY Typed DEF Created
<1>3. ASSUME NEW t \in Threads, arg[t] # NoRequest
      PROVE  arg[t] \in Requests /\ req[arg[t]].ref > 0
  <2>1. arg[t] \in Requests
    BY <1>3 DEF TypeOK
  <2>2. pc[t] \in Sending \/ pc[t] \in Handling
    BY <1>3 DEF ArgsHeld
  <2>3. CASE pc[t] \in Sending
    <3>1. t \in Clients
      BY <2>3 DEF PlacesOK, Threads, Sending, ServerPlaces, ServerCalling, ServerClosing,
                  ServerCleaning, Receiving
    <3> QED
      BY <2>1, <2>3, <3>1, <1>1 DEF Sent
  <2>4. CASE pc[t] = "receiving"
    BY <2>1, <2>4, <1>1 DEF Exclusive
  <2>5. CASE pc[t] \in Handling /\ pc[t] # "receiving"
    BY <2>1, <2>5, <1>1 DEF Handled
  <2> QED
    BY <2>1, <2>2, <2>3, <2>4, <2>5
<1> QED
  BY <1>1, <1>2, <1>3

(* What is in the list is a request. *)
LEMMA Listed ==
    ASSUME TypeOK PROVE \A r : InList(r) => r \in Requests
BY DEF TypeOK, InList, ToSet

(* A waiting client is attended to while its request stays pending. *)
LEMMA WaitersStep ==
    ASSUME TypeOK, WaitersAttended, UNCHANGED doomed, NEW t \in Threads, pc'[t] # "waiting",
           \A u \in Threads \ {t} : arg'[u] = arg[u] /\ (pc'[u] = "waiting" => pc[u] = "waiting"),
           \A c \in Clients : pc[c] = "waiting" /\ pc'[c] = "waiting" /\ Pending(arg[c]) =>
                 Pending(arg[c])' /\ (req'[arg[c]].event => req[arg[c]].event),
           state' = "ServerClosed" /\ list' # <<>> => \E u \in Threads : pc'[u] \in ServerCleaning
    PROVE  WaitersAttended'
<1>1. ASSUME NEW c \in Clients, pc'[c] = "waiting"
      PROVE  ~ req'[arg'[c]].event /\ c \notin doomed' /\ Pending(arg[c])'
  <2>1. c \in Threads /\ c # t
    BY <1>1 DEF Threads
  <2>2. pc[c] = "waiting" /\ arg'[c] = arg[c]
    BY <1>1, <2>1
  <2>3. ~ req[arg[c]].event /\ c \notin doomed /\ Pending(arg[c])
    BY <2>2 DEF WaitersAttended
  <2> QED
    BY <1>1, <2>2, <2>3
<1> QED
  BY <1>1 DEF WaitersAttended

-----------------------------------------------------------------------------
(* Receiving. *)
(* ReceiveRequest records the request as the current one. *)
LEMMA ReceiveSetCurrentKeeps ==
    ASSUME SessionInv, NEW s \in Servers, ReceiveSetCurrent(s)
    PROVE  SessionInv'
<1>i. /\ TypeOK /\ PlacesOK /\ LockHeld /\ ArgsHeld /\ DataInv /\ EndRefs /\ OneCloser
      /\ CutOff /\ WaitersAttended /\ SleepersAwaited
  BY DEF SessionInv, DataInv
<1>f. /\ UNCHANGED <<state, list, mlock, refs, handles, req, created, arg, prev, doomed,
                     accepted, opened, signals>>
      /\ current' = arg[s]
  BY DEF ReceiveSetCurrent, Goto, queueVars, objectVars, clientVars
<1>p. /\ s \in Threads
      /\ pc[s] = "received" /\ pc'[s] = "receiving"
      /\ \A u \in Threads \ {s} : pc'[u] = pc[u]
      /\ pc' = [u \in Threads |-> pc'[u]]
  BY <1>i DEF ReceiveSetCurrent, Goto, PlacesOK, Threads
<1>m. /\ SameEnds(s) /\ SameRest(s) /\ pc[s] \notin Sending /\ pc'[s] \notin Sending
      /\ pc[s] \in Handling /\ pc'[s] \in Handling /\ pc[s] \in Receiving
      /\ pc'[s] \in Receiving /\ pc[s] \in Taken /\ pc'[s] \notin Taken
      /\ pc[s] \in Answering /\ pc'[s] \notin Answering /\ pc[s] \notin ClientClosing
      /\ pc'[s] \notin ClientClosing
  BY <1>p DEF SameHand, SameEnds, SameRest, Sending, Receiving, ServerCalling, ClientLooking,
     ClientCleaning, ClientClosing, ServerCleaning, ServerClosing, Handling, LockedPlaces,
     Taken, Answering, ClientPlaces, ServerPlaces
<1>o. \A u \in Threads \ {s} : SamePlaces(u)
  BY <1>p, OthersStay DEF Others
<1>d. /\ Created /\ ListInjective /\ Exclusive /\ Unsent /\ RefCount
      /\ ThreadRefs /\ EventsSignalled
  BY <1>i DEF DataInv
<1>l. /\ \A x \in Clients : x \in Threads
      /\ \A x \in Servers : x \in Threads
      /\ \A u \in Threads \ {s} : pc[u] \notin Handling /\ pc'[u] \notin Handling
      /\ arg[s] \in Requests /\ arg[s] <= created /\ req[arg[s]].ref > 0
      /\ req[arg[s]].owner \in Clients /\ ~ InList(arg[s])
      /\ NoRequest \notin Requests /\ \A c \in Clients : pc[c] \in Sending => arg[c] \in Requests
      /\ current = NoRequest
  <2>1. /\ \A x \in Clients : x \in Threads
        /\ \A x \in Servers : x \in Threads
        /\ NoRequest \notin Requests
    BY SessionAssumption DEF Threads
  <2>2. \A u \in Threads \ {s} : pc[u] \notin Handling /\ pc'[u] \notin Handling
    BY <1>i, <1>p, <1>m, <1>o DEF LockHeld, LockedPlaces, SamePlaces, SameHand
  <2>3. \A c \in Clients : pc[c] \in Sending => arg[c] \in Requests
    BY <1>i, <2>1 DEF ArgsHeld, TypeOK
  <2>4. arg[s] # NoRequest /\ ~ InList(arg[s])
    BY <1>i, <1>d, <1>p, <1>m DEF ArgsHeld, Exclusive
  <2> QED
    BY <2>1, <2>2, <2>3, <2>4, <1>d, <1>i, <1>p, HeldExists DEF Exclusive
<1>k. /\ pc[s] \in LockedPlaces
      /\ \A u \in Threads \ {s} : pc[u] \notin LockedPlaces /\ pc'[u] \notin LockedPlaces
  <2>1. pc[s] \in LockedPlaces
    BY <1>p DEF LockedPlaces, Handling, Receiving, ClientLooking
  <2> QED
    BY <2>1, <1>i, <1>p, <1>o DEF LockHeld, SamePlaces, SameRest
<1>n. \A r : InList(r)' <=> InList(r)
  BY <1>f, <1>l, <1>i, <1>d DEF InList, ListInjective, TypeOK
<1>s. \A r \in Requests : Sent(r)' <=> Sent(r)
  BY <1>f, <1>p, <1>m, <1>o, <1>l DEF Sent, SamePlaces, SameHand
<1>h. /\ \A r : Handled(r) <=> arg[s] = r
      /\ \A r : Handled(r)' <=> FALSE
      /\ \A r : Pending(r) <=> (InList(r) \/ current = r \/ arg[s] = r)
      /\ \A r : Pending(r)' <=> (InList(r)' \/ current' = r)
  BY <1>l, <1>p, <1>m, OneHand
<1>w. state' = "ServerClosed" /\ list' # <<>> => \E u \in Threads : pc'[u] \in ServerCleaning
  BY <1>i, <1>f, <1>p, <1>m, <1>o DEF WaitersAttended, SamePlaces, SameRest
<1>1. TypeOK'
  BY <1>i, <1>f, <1>l DEF TypeOK
<1>2. PlacesOK'
  BY <1>i, <1>p, <1>m, <1>o, SessionAssumption DEF PlacesOK, SamePlaces, SameRest, Threads
<1>3. LockHeld'
  BY <1>i, <1>f, <1>p, <1>m, <1>o, SessionAssumption DEF LockHeld, TypeOK, SamePlaces,
     SameRest
<1>4. ArgsHeld'
  BY <1>i, <1>f, <1>p, <1>m, <1>o, <1>l DEF ArgsHeld, SamePlaces, SameHand
<1>5. Created'
  BY <1>i, <1>d, <1>f, <1>p, <1>m, <1>o, <1>l, CreatedStep DEF SamePlaces, SameHand
<1>6. ListInjective'
  BY <1>d, <1>f, <1>i DEF ListInjective, TypeOK
<1>7. Exclusive'
  BY <1>d, <1>f, <1>p, <1>m, <1>l, <1>n, <1>i, Listed, ExclusiveStep DEF Exclusive, TypeOK
<1>8. Unsent'
  BY <1>d, <1>f, <1>p, <1>m, <1>o, <1>l, <1>n, <1>i, UnsentStep DEF SamePlaces, SameHand
<1>9. RefCount'
  <2> SUFFICES ASSUME NEW r \in Requests
               PROVE  req'[r].ref = One(InList(r)') + One(current' = r) + One(Sent(r)')
                                    + One(Handled(r)')
    BY DEF RefCount
  <2>1. /\ req[r].ref = One(InList(r)) + One(current = r) + One(Sent(r)) + One(Handled(r))
        /\ req[r].ref \in Nat
    BY <1>d, <1>i, Typed DEF RefCount
  <2>2. CASE r = arg[s]
    <3>1. /\ (InList(r)' <=> InList(r)) /\ current # r /\ current' = r
          /\ (Sent(r)' <=> Sent(r)) /\ Handled(r) /\ ~ Handled(r)'
          /\ req'[r].ref = req[r].ref
      BY <2>2, <1>h, <1>s, <1>n, <1>l, <1>f, <1>p, <1>m, <1>i, <1>d DEF Exclusive, TypeOK
    <3> QED
      BY <2>1, <3>1 DEF One
  <2>3. CASE r # arg[s]
    <3>1. /\ (InList(r)' <=> InList(r)) /\ (current' = r <=> current = r)
          /\ (Sent(r)' <=> Sent(r)) /\ (Handled(r)' <=> Handled(r))
          /\ req'[r].ref = req[r].ref
      BY <2>3, <1>h, <1>s, <1>n, <1>l, <1>f, <1>p, <1>m, <1>i, <1>d DEF Exclusive, TypeOK
    <3> QED
      BY <2>1, <3>1 DEF One
  <2> QED
    BY <2>2, <2>3
<1>10. ThreadRefs'
  <2>1. \A c \in Clients : BoundTo(c)' = BoundTo(c)
    BY <1>f, <1>p, <1>m, <1>o, <1>l DEF BoundTo, SamePlaces, SameHand
  <2>2. \A c \in Clients : ReceivedFrom(c)' <=> ReceivedFrom(c)
    BY <1>f, <1>p, <1>m, <1>o, <1>l DEF ReceivedFrom, SamePlaces, SameHand
  <2> QED
    BY <1>d, <1>f, <2>1, <2>2 DEF ThreadRefs, One
<1>11. EventsSignalled'
  BY <1>i, <1>d, <1>f, <1>p, <1>h, <1>n, <1>l, EventsStep
<1>12. EndRefs'
  BY <1>i, <1>f, <1>m, <1>o, EndsKept DEF SamePlaces
<1>13. OneCloser'
  BY <1>i, <1>f, <1>m, <1>o, EndsKept DEF SamePlaces
<1>14. CutOff'
  BY <1>i, <1>f, <1>p, <1>m, <1>o, <1>l, <1>k DEF CutOff, SamePlaces, SameHand, SameEnds,
     SameRest
<1>15. WaitersAttended'
  BY <1>i, <1>f, <1>p, <1>m, <1>o, <1>l, <1>h, <1>n, <1>w, WaitersStep DEF SamePlaces,
     SameRest, Sending
<1>16. SleepersAwaited'
  BY <1>i, <1>f, <1>p, <1>m, <1>o, <1>l DEF SleepersAwaited, IsClosed, SamePlaces, SameHand,
     SameRest
<1> QED
  BY <1>1, <1>2, <1>3, <1>4, <1>5, <1>6, <1>7, <1>8, <1>9, <1>10, <1>11, <1>12, <1>13, <1>14,
     <1>15, <1>16 DEF SessionInv, DataInv

(* ReceiveRequest takes the first request and a reference to its thread. *)
LEMMA ReceivePopKeeps ==
    ASSUME SessionInv, NEW s \in Servers, ReceivePop(s)
    PROVE  SessionInv'
<1>i. /\ TypeOK /\ PlacesOK /\ LockHeld /\ ArgsHeld /\ DataInv /\ EndRefs /\ OneCloser
      /\ CutOff /\ WaitersAttended /\ SleepersAwaited
  BY DEF SessionInv, DataInv
<1>f. /\ UNCHANGED <<state, current, mlock, refs, handles, req, created, prev, doomed,
                     accepted, signals>>
      /\ list # <<>> /\ current = NoRequest /\ list' = Tail(list)
      /\ arg'[s] = Head(list) /\ arg' = [u \in Threads |-> arg'[u]]
      /\ \A u \in Threads \ {s} : arg'[u] = arg[u]
      /\ opened' = [opened EXCEPT ![req[Head(list)].owner] = @ + 1]
      /\ opened' = [c \in Clients |-> opened'[c]]
  BY <1>i, Typed DEF ReceivePop, Goto, Threads, queueVars, objectVars, clientVars
<1>p. /\ s \in Threads
      /\ pc[s] = "receive_locked" /\ pc'[s] = "received"
      /\ \A u \in Threads \ {s} : pc'[u] = pc[u]
      /\ pc' = [u \in Threads |-> pc'[u]]
  BY <1>i DEF ReceivePop, Goto, Threads, PlacesOK, Threads
<1>m. /\ SameEnds(s) /\ SameRest(s) /\ pc[s] \notin Sending /\ pc'[s] \notin Sending
      /\ pc[s] \notin Handling /\ pc'[s] \in Handling /\ pc[s] \notin Receiving
      /\ pc'[s] \in Receiving /\ pc[s] \notin Taken /\ pc'[s] \in Taken
      /\ pc[s] \notin Answering /\ pc'[s] \in Answering /\ pc[s] \notin ClientClosing
      /\ pc'[s] \notin ClientClosing
  BY <1>p DEF SameHand, SameEnds, SameRest, Sending, Receiving, ServerCalling, ClientLooking,
     ClientCleaning, ClientClosing, ServerCleaning, ServerClosing, Handling, LockedPlaces,
     Taken, Answering, ClientPlaces, ServerPlaces
<1>o. \A u \in Threads \ {s} : SamePlaces(u)
  BY <1>p, OthersStay DEF Others
<1>d. /\ Created /\ ListInjective /\ Exclusive /\ Unsent /\ RefCount
      /\ ThreadRefs /\ EventsSignalled
  BY <1>i DEF DataInv
<1>l. /\ \A x \in Clients : x \in Threads
      /\ \A x \in Servers : x \in Threads
      /\ \A u \in Threads \ {s} : pc[u] \notin Handling /\ pc'[u] \notin Handling
      /\ arg[s] = NoRequest
      /\ NoRequest \notin Requests /\ \A c \in Clients : pc[c] \in Sending => arg[c] \in Requests
      /\ Head(list) \in Requests /\ Head(list) <= created /\ req[Head(list)].ref > 0
      /\ req[Head(list)].owner \in Clients /\ InList(Head(list)) /\ Head(list) # current
  <2>1. /\ \A x \in Clients : x \in Threads
        /\ \A x \in Servers : x \in Threads
        /\ NoRequest \notin Requests
    BY SessionAssumption DEF Threads
  <2>2. \A u \in Threads \ {s} : pc[u] \notin Handling /\ pc'[u] \notin Handling
    BY <1>i, <1>p, <1>m, <1>o DEF LockHeld, LockedPlaces, SamePlaces, SameHand
  <2>3. \A c \in Clients : pc[c] \in Sending => arg[c] \in Requests
    BY <1>i, <2>1 DEF ArgsHeld, TypeOK
  <2>4. arg[s] = NoRequest
    BY <1>i, <1>p, <1>m DEF ArgsHeld
  <2> QED
    BY <2>1, <2>2, <2>3, <2>4, <1>d, <1>i, <1>p, HeldExists, <1>f, ListTail DEF InList,
       ListInjective, TypeOK, Exclusive
<1>k. /\ pc[s] \in LockedPlaces
      /\ \A u \in Threads \ {s} : pc[u] \notin LockedPlaces /\ pc'[u] \notin LockedPlaces
  <2>1. pc[s] \in LockedPlaces
    BY <1>p DEF LockedPlaces, Handling, Receiving, ClientLooking
  <2> QED
    BY <2>1, <1>i, <1>p, <1>o DEF LockHeld, SamePlaces, SameRest
<1>n. \A r : InList(r)' <=> (InList(r) /\ r # Head(list))
  BY <1>f, <1>l, <1>i, <1>d, ListTail DEF InList, ListInjective, TypeOK
<1>s. \A r \in Requests : Sent(r)' <=> Sent(r)
  BY <1>f, <1>p, <1>m, <1>o, <1>l DEF Sent, SamePlaces, SameHand
<1>h. /\ \A r : Handled(r) <=> FALSE
      /\ \A r : Handled(r)' <=> arg'[s] = r
      /\ \A r : Pending(r) <=> (InList(r) \/ current = r)
      /\ \A r : Pending(r)' <=> (InList(r)' \/ current' = r \/ arg'[s] = r)
  BY <1>l, <1>p, <1>m, OneHand
<1>w. state' = "ServerClosed" /\ list' # <<>> => \E u \in Threads : pc'[u] \in ServerCleaning
  BY <1>i, <1>f, <1>p, <1>m, <1>o, ListTail DEF WaitersAttended, SamePlaces, SameRest
<1>r. ThreadRefs' /\ \A c \in Clients : opened'[c] \in Nat
  <2>1. \A c \in Clients : BoundTo(c)' = BoundTo(c)
    BY <1>f, <1>p, <1>m, <1>o, <1>l DEF BoundTo, SamePlaces, SameHand
  <2>2. \A c \in Clients : ~ ReceivedFrom(c)
    BY <1>p, <1>l DEF ReceivedFrom, Handling, Receiving
  <2>3. \A c \in Clients : ReceivedFrom(c)' <=> c = req[Head(list)].owner
    BY <1>f, <1>p, <1>l DEF ReceivedFrom, Handling, Receiving
  <2>4. \A c \in Clients : opened'[c] = opened[c] + One(c = req[Head(list)].owner)
    BY <1>f, <1>i, <1>l, Typed DEF One
  <2>5. \A c \in Clients : Cardinality(BoundTo(c)) \in Nat
    BY CountedFinite
  <2> QED
    BY <1>d, <2>1, <2>2, <2>3, <2>4, <2>5 DEF ThreadRefs, One
<1>1. TypeOK'
  <2>1. list' \in Seq(Requests)
    BY <1>i, <1>f, <1>l, <1>d, ListTail DEF TypeOK, ListInjective
  <2>2. opened' \in [Clients -> Nat]
    BY <1>i, <1>f, <1>r
  <2>4. \A u \in Threads : arg'[u] \in Requests \cup {NoRequest}
    BY <1>i, <1>f, <1>l DEF TypeOK
  <2>5. arg' \in [Threads -> Requests \cup {NoRequest}]
    BY <2>4, <1>f
  <2> QED
    BY <2>1, <2>2, <2>5, <1>i, <1>f, <1>l DEF TypeOK
<1>2. PlacesOK'
  BY <1>i, <1>p, <1>m, <1>o, SessionAssumption DEF PlacesOK, SamePlaces, SameRest, Threads
<1>3. LockHeld'
  BY <1>i, <1>f, <1>p, <1>m, <1>o, SessionAssumption DEF LockHeld, TypeOK, SamePlaces,
     SameRest
<1>4. ArgsHeld'
  BY <1>i, <1>f, <1>p, <1>m, <1>o, <1>l DEF ArgsHeld, SamePlaces, SameHand
<1>5. Created'
  BY <1>i, <1>d, <1>f, <1>p, <1>m, <1>o, <1>l, CreatedStep DEF SamePlaces, SameHand
<1>6. ListInjective'
  BY <1>d, <1>f, <1>i, ListTail DEF ListInjective, TypeOK
<1>7. Exclusive'
  BY <1>d, <1>f, <1>p, <1>m, <1>l, <1>n, <1>i, Listed, ExclusiveStep, ListTail DEF Exclusive,
     TypeOK
<1>8. Unsent'
  BY <1>d, <1>f, <1>p, <1>m, <1>o, <1>l, <1>n, <1>i, UnsentStep DEF SamePlaces, SameHand
<1>9. RefCount'
  <2> SUFFICES ASSUME NEW r \in Requests
               PROVE  req'[r].ref = One(InList(r)') + One(current' = r) + One(Sent(r)')
                                    + One(Handled(r)')
    BY DEF RefCount
  <2>1. /\ req[r].ref = One(InList(r)) + One(current = r) + One(Sent(r)) + One(Handled(r))
        /\ req[r].ref \in Nat
    BY <1>d, <1>i, Typed DEF RefCount
  <2>2. CASE r = Head(list)
    <3>1. /\ InList(r) /\ ~ InList(r)' /\ current # r /\ current' # r
          /\ (Sent(r)' <=> Sent(r)) /\ ~ Handled(r) /\ Handled(r)'
          /\ req'[r].ref = req[r].ref
      BY <2>2, <1>h, <1>s, <1>n, <1>l, <1>f, <1>p, <1>m, <1>i, <1>d DEF Exclusive, TypeOK
    <3> QED
      BY <2>1, <3>1 DEF One
  <2>3. CASE r # Head(list)
    <3>1. /\ (InList(r)' <=> InList(r)) /\ (current' = r <=> current = r)
          /\ (Sent(r)' <=> Sent(r)) /\ (Handled(r)' <=> Handled(r))
          /\ req'[r].ref = req[r].ref
      BY <2>3, <1>h, <1>s, <1>n, <1>l, <1>f, <1>p, <1>m, <1>i, <1>d DEF Exclusive, TypeOK
    <3> QED
      BY <2>1, <3>1 DEF One
  <2> QED
    BY <2>2, <2>3
<1>10. ThreadRefs'
  BY <1>r
<1>11. EventsSignalled'
  BY <1>i, <1>d, <1>f, <1>p, <1>h, <1>n, <1>l, EventsStep
<1>12. EndRefs'
  BY <1>i, <1>f, <1>m, <1>o, EndsKept DEF SamePlaces
<1>13. OneCloser'
  BY <1>i, <1>f, <1>m, <1>o, EndsKept DEF SamePlaces
<1>14. CutOff'
  BY <1>i, <1>f, <1>p, <1>m, <1>o, <1>l, <1>k DEF CutOff, SamePlaces, SameHand, SameEnds,
     SameRest
<1>15. WaitersAttended'
  BY <1>i, <1>f, <1>p, <1>m, <1>o, <1>l, <1>h, <1>n, <1>w, WaitersStep DEF SamePlaces,
     SameRest, Sending
<1>16. SleepersAwaited'
  BY <1>i, <1>f, <1>p, <1>m, <1>o, <1>l, ListTail DEF SleepersAwaited, IsClosed, SamePlaces,
     SameHand, SameRest
<1> QED
  BY <1>1, <1>2, <1>3, <1>4, <1>5, <1>6, <1>7, <1>8, <1>9, <1>10, <1>11, <1>12, <1>13, <1>14,
     <1>15, <1>16 DEF SessionInv, DataInv

(* The message is received; the request stays current. *)
LEMMA ReceiveSucceedsKeeps ==
    ASSUME SessionInv, NEW s \in Servers, ReceiveSucceeds(s)
    PROVE  SessionInv'
<1>i. /\ TypeOK /\ PlacesOK /\ LockHeld /\ ArgsHeld /\ DataInv /\ EndRefs /\ OneCloser
      /\ CutOff /\ WaitersAttended /\ SleepersAwaited
  BY DEF SessionInv, DataInv
<1>f. /\ UNCHANGED <<state, list, current, refs, handles, req, created, prev, doomed,
                     accepted, signals>>
      /\ mlock' = NoThread
      /\ arg'[s] = NoRequest /\ arg' = [u \in Threads |-> arg'[u]]
      /\ \A u \in Threads \ {s} : arg'[u] = arg[u]
      /\ opened' = [opened EXCEPT ![req[arg[s]].owner] = @ - 1]
      /\ opened' = [c \in Clients |-> opened'[c]]
  BY <1>i, Typed DEF ReceiveSucceeds, Goto, Threads, queueVars, objectVars, clientVars
<1>p. /\ s \in Threads
      /\ pc[s] = "receiving" /\ pc'[s] = "server_done"
      /\ \A u \in Threads \ {s} : pc'[u] = pc[u]
      /\ pc' = [u \in Threads |-> pc'[u]]
  BY <1>i DEF ReceiveSucceeds, Goto, Threads, PlacesOK, Threads
<1>m. /\ SameEnds(s) /\ pc[s] \notin Sending /\ pc'[s] \notin Sending /\ pc[s] \in Handling
      /\ pc'[s] \notin Handling /\ pc[s] \in Receiving /\ pc'[s] \notin Receiving
      /\ pc[s] \notin Taken /\ pc'[s] \notin Taken /\ pc[s] \notin Answering
      /\ pc'[s] \notin Answering /\ pc[s] \notin ClientClosing
      /\ pc'[s] \notin ClientClosing /\ pc[s] \notin ClientCleaning
      /\ pc'[s] \notin ClientCleaning /\ pc[s] \notin ServerCleaning
      /\ pc'[s] \notin ServerCleaning /\ pc[s] \in LockedPlaces
      /\ pc'[s] \notin LockedPlaces /\ pc[s] \notin ClientPlaces
      /\ pc'[s] \notin ClientPlaces /\ pc[s] \in ServerPlaces /\ pc'[s] \in ServerPlaces
  BY <1>p DEF SameHand, SameEnds, SameRest, Sending, Receiving, ServerCalling, ClientLooking,
     ClientCleaning, ClientClosing, ServerCleaning, ServerClosing, Handling, LockedPlaces,
     Taken, Answering, ClientPlaces, ServerPlaces
<1>o. \A u \in Threads \ {s} : SamePlaces(u)
  BY <1>p, OthersStay DEF Others
<1>d. /\ Created /\ ListInjective /\ Exclusive /\ Unsent /\ RefCount
      /\ ThreadRefs /\ EventsSignalled
  BY <1>i DEF DataInv
<1>l. /\ \A x \in Clients : x \in Threads
      /\ \A x \in Servers : x \in Threads
      /\ \A u \in Threads \ {s} : pc[u] \notin Handling /\ pc'[u] \notin Handling
      /\ arg[s] \in Requests /\ arg[s] <= created /\ req[arg[s]].ref > 0
      /\ req[arg[s]].owner \in Clients /\ ~ InList(arg[s])
      /\ NoRequest \notin Requests /\ \A c \in Clients : pc[c] \in Sending => arg[c] \in Requests
      /\ arg[s] = current
  <2>1. /\ \A x \in Clients : x \in Threads
        /\ \A x \in Servers : x \in Threads
        /\ NoRequest \notin Requests
    BY SessionAssumption DEF Threads
  <2>2. \A u \in Threads \ {s} : pc[u] \notin Handling /\ pc'[u] \notin Handling
    BY <1>i, <1>p, <1>m, <1>o DEF LockHeld, LockedPlaces, SamePlaces, SameHand
  <2>3. \A c \in Clients : pc[c] \in Sending => arg[c] \in Requests
    BY <1>i, <2>1 DEF ArgsHeld, TypeOK
  <2>4. arg[s] # NoRequest /\ ~ InList(arg[s])
    BY <1>i, <1>d, <1>p, <1>m DEF ArgsHeld, Exclusive
  <2> QED
    BY <2>1, <2>2, <2>3, <2>4, <1>d, <1>i, <1>p, HeldExists DEF Exclusive
<1>k. /\ pc[s] \in LockedPlaces
      /\ \A u \in Threads \ {s} : pc[u] \notin LockedPlaces /\ pc'[u] \notin LockedPlaces
  <2>1. pc[s] \in LockedPlaces
    BY <1>p DEF LockedPlaces, Handling, Receiving, ClientLooking
  <2> QED
    BY <2>1, <1>i, <1>p, <1>o DEF LockHeld, SamePlaces, SameRest
<1>n. \A r : InList(r)' <=> InList(r)
  BY <1>f, <1>l, <1>i, <1>d DEF InList, ListInjective, TypeOK
<1>s. \A r \in Requests : Sent(r)' <=> Sent(r)
  BY <1>f, <1>p, <1>m, <1>o, <1>l DEF Sent, SamePlaces, SameHand
<1>h. /\ \A r : Handled(r) <=> FALSE
      /\ \A r : Handled(r)' <=> FALSE
      /\ \A r : Pending(r) <=> (InList(r) \/ current = r)
      /\ \A r : Pending(r)' <=> (InList(r)' \/ current' = r)
  BY <1>l, <1>p, <1>m, OneHand
<1>w. state' = "ServerClosed" /\ list' # <<>> => \E u \in Threads : pc'[u] \in ServerCleaning
  BY <1>i, <1>f, <1>p, <1>m, <1>o DEF WaitersAttended, SamePlaces, SameRest
<1>r. ThreadRefs' /\ \A c \in Clients : opened'[c] \in Nat
  <2>1. \A c \in Clients : BoundTo(c)' = BoundTo(c)
    BY <1>f, <1>p, <1>m, <1>o, <1>l DEF BoundTo, SamePlaces, SameHand
  <2>2. \A c \in Clients : ~ ReceivedFrom(c)'
    BY <1>f, <1>p, <1>l DEF ReceivedFrom, Handling, Receiving
  <2>3. \A c \in Clients : ReceivedFrom(c) <=> c = req[arg[s]].owner
    BY <1>f, <1>p, <1>l DEF ReceivedFrom, Handling, Receiving
  <2>4. \A c \in Clients : opened'[c] = opened[c] - One(c = req[arg[s]].owner)
    BY <1>f, <1>i, <1>l, Typed DEF One
  <2>5. \A c \in Clients : Cardinality(BoundTo(c)) \in Nat
    BY CountedFinite
  <2> QED
    BY <1>d, <2>1, <2>2, <2>3, <2>4, <2>5 DEF ThreadRefs, One
<1>1. TypeOK'
  <2>2. opened' \in [Clients -> Nat]
    BY <1>i, <1>f, <1>r
  <2>4. \A u \in Threads : arg'[u] \in Requests \cup {NoRequest}
    BY <1>i, <1>f, <1>l DEF TypeOK
  <2>5. arg' \in [Threads -> Requests \cup {NoRequest}]
    BY <2>4, <1>f
  <2> QED
    BY <2>2, <2>5, <1>i, <1>f, <1>l DEF TypeOK
<1>2. PlacesOK'
  BY <1>i, <1>p, <1>m, <1>o, SessionAssumption DEF PlacesOK, SamePlaces, SameRest, Threads
<1>3. LockHeld'
  BY <1>i, <1>f, <1>p, <1>m, <1>o, SessionAssumption DEF LockHeld, TypeOK, SamePlaces,
     SameRest
<1>4. ArgsHeld'
  BY <1>i, <1>f, <1>p, <1>m, <1>o, <1>l DEF ArgsHeld, SamePlaces, SameHand
<1>5. Created'
  BY <1>i, <1>d, <1>f, <1>p, <1>m, <1>o, <1>l, CreatedStep DEF SamePlaces, SameHand
<1>6. ListInjective'
  BY <1>d, <1>f, <1>i DEF ListInjective, TypeOK
<1>7. Exclusive'
  BY <1>d, <1>f, <1>p, <1>m, <1>l, <1>n, <1>i, Listed, ExclusiveStep DEF Exclusive, TypeOK
<1>8. Unsent'
  BY <1>d, <1>f, <1>p, <1>m, <1>o, <1>l, <1>n, <1>i, UnsentStep DEF SamePlaces, SameHand
<1>9. RefCount'
  <2> SUFFICES ASSUME NEW r \in Requests
               PROVE  req'[r].ref = One(InList(r)') + One(current' = r) + One(Sent(r)')
                                    + One(Handled(r)')
    BY DEF RefCount
  <2>1. /\ req[r].ref = One(InList(r)) + One(current = r) + One(Sent(r)) + One(Handled(r))
        /\ req[r].ref \in Nat
    BY <1>d, <1>i, Typed DEF RefCount
  <2>2. /\ (InList(r)' <=> InList(r)) /\ (current' = r <=> current = r)
        /\ (Sent(r)' <=> Sent(r)) /\ (Handled(r)' <=> Handled(r))
        /\ req'[r].ref = req[r].ref
    BY <1>h, <1>s, <1>n, <1>l, <1>f, <1>p, <1>m, <1>i, <1>d DEF Exclusive, TypeOK
  <2> QED
    BY <2>1, <2>2 DEF One
<1>10. ThreadRefs'
  BY <1>r
<1>11. EventsSignalled'
  BY <1>i, <1>d, <1>f, <1>p, <1>h, <1>n, <1>l, EventsStep
<1>12. EndRefs'
  BY <1>i, <1>f, <1>m, <1>o, EndsKept DEF SamePlaces
<1>13. OneCloser'
  BY <1>i, <1>f, <1>m, <1>o, EndsKept DEF SamePlaces
<1>14. CutOff'
  BY <1>i, <1>f, <1>p, <1>m, <1>o, <1>l, <1>k DEF CutOff, SamePlaces, SameHand, SameEnds,
     SameRest
<1>15. WaitersAttended'
  BY <1>i, <1>f, <1>p, <1>m, <1>o, <1>l, <1>h, <1>n, <1>w, WaitersStep DEF SamePlaces,
     SameRest, Sending
<1>16. SleepersAwaited'
  BY <1>i, <1>f, <1>p, <1>m, <1>o, <1>l DEF SleepersAwaited, IsClosed, SamePlaces, SameHand,
     SameRest
<1> QED
  BY <1>1, <1>2, <1>3, <1>4, <1>5, <1>6, <1>7, <1>8, <1>9, <1>10, <1>11, <1>12, <1>13, <1>14,
     <1>15, <1>16 DEF SessionInv, DataInv

-----------------------------------------------------------------------------
(* KSessionRequest::Close, by fields. *)
LEMMA RequestDrops ==
    ASSUME TypeOK, NEW r \in Requests, req[r].ref > 0, req' = [req EXCEPT ![r].ref = @ - 1]
    PROVE  /\ req' \in [Requests -> [ref : Nat, owner : Clients \cup {NoThread},
                                     event : BOOLEAN, bound : BOOLEAN]]
           /\ \A x \in Requests : /\ req'[x].owner = req[x].owner /\ req'[x].event = req[x].event
                                  /\ req'[x].bound = req[x].bound
                                  /\ x # r => req'[x].ref = req[x].ref
           /\ req'[r].ref = req[r].ref - 1
<1>1. \A x \in Requests : req[x] \in [ref : Nat, owner : Clients \cup {NoThread},
                                      event : BOOLEAN, bound : BOOLEAN]
  BY DEF TypeOK
<1>3. \A x \in Requests : x # r => req'[x] = req[x]
  BY DEF TypeOK
<1>4. req'[r] = [req[r] EXCEPT !.ref = @ - 1]
  BY DEF TypeOK
<1>5. /\ req'[r].ref = req[r].ref - 1 /\ req'[r].owner = req[r].owner
      /\ req'[r].event = req[r].event /\ req'[r].bound = req[r].bound
      /\ req'[r] \in [ref : Nat, owner : Clients \cup {NoThread}, event : BOOLEAN, bound : BOOLEAN]
  BY <1>1, <1>4
<1>6. req' \in [Requests -> [ref : Nat, owner : Clients \cup {NoThread},
                             event : BOOLEAN, bound : BOOLEAN]]
  <2>1. \A x \in Requests : req'[x] \in [ref : Nat, owner : Clients \cup {NoThread},
                                         event : BOOLEAN, bound : BOOLEAN]
    BY <1>1, <1>3, <1>5
  <2>2. req' = [x \in Requests |-> req'[x]]
    BY DEF TypeOK
  <2> QED
    BY <2>1, <2>2
<1> QED
  BY <1>3, <1>5, <1>6

(* The same, and the reference to its thread that goes with the last one. *)
LEMMA RequestCloses ==
    ASSUME TypeOK, NEW r \in Requests, req[r].ref > 0, req[r].owner \in Clients,
           CloseRequest(r, req)
    PROVE  /\ req' \in [Requests -> [ref : Nat, owner : Clients \cup {NoThread},
                                     event : BOOLEAN, bound : BOOLEAN]]
           /\ \A x \in Requests : /\ req'[x].owner = req[x].owner /\ req'[x].event = req[x].event
                                  /\ req'[x].bound = req[x].bound
                                  /\ x # r => req'[x].ref = req[x].ref
           /\ req'[r].ref = req[r].ref - 1
           /\ opened' = [c \in Clients |-> opened'[c]]
           /\ \A c \in Clients :
                 opened'[c] = opened[c] - One(c = req[r].owner /\ req[r].ref = 1 /\ req[r].bound)
<1>1. req' = [req EXCEPT ![r].ref = @ - 1]
  BY DEF CloseRequest
<1>7. /\ opened' = [c \in Clients |-> opened'[c]]
      /\ \A c \in Clients :
            opened'[c] = opened[c] - One(c = req[r].owner /\ req[r].ref = 1 /\ req[r].bound)
  <2>1. opened \in [Clients -> Nat]
    BY DEF TypeOK
  <2>2. CASE req[r].ref = 1 /\ req[r].bound
    <3>1. opened' = [opened EXCEPT ![req[r].owner] = @ - 1]
      BY <2>2 DEF CloseRequest
    <3>2. opened' = [c \in Clients |-> opened'[c]]
      BY <2>1, <3>1
    <3>3. ASSUME NEW c \in Clients, c = req[r].owner
          PROVE  /\ opened'[c] = opened[c] - 1
                 /\ One(c = req[r].owner /\ req[r].ref = 1 /\ req[r].bound) = 1
      BY <2>1, <2>2, <3>1, <3>3 DEF One
    <3>4. ASSUME NEW c \in Clients, c # req[r].owner
          PROVE  /\ opened'[c] = opened[c] - 0
                 /\ One(c = req[r].owner /\ req[r].ref = 1 /\ req[r].bound) = 0
      BY <2>1, <3>1, <3>4 DEF One
    <3> QED
      BY <3>2, <3>3, <3>4
  <2>3. CASE ~ (req[r].ref = 1 /\ req[r].bound)
    <3>1. opened' = opened
      BY <2>3 DEF CloseRequest
    <3> QED
      BY <2>1, <2>3, <3>1 DEF One
  <2> QED
    BY <2>2, <2>3
<1> QED
  BY <1>1, <1>7, RequestDrops

(* The requests that refer to their threads, when one loses a reference. *)
LEMMA BoundAfterClose ==
    ASSUME TypeOK, NEW r \in Requests, req[r].ref > 0, req[r].owner \in Clients,
           \A x \in Requests : /\ req'[x].owner = req[x].owner /\ req'[x].bound = req[x].bound
                               /\ x # r => req'[x].ref = req[x].ref,
           req'[r].ref = req[r].ref - 1,
           \A u \in Threads : pc[u] = "cut_off" => arg[u] # r /\ arg'[u] = arg[u],
           \A u \in Threads : pc'[u] = "cut_off" <=> pc[u] = "cut_off"
    PROVE  \A c \in Clients :
             /\ Cardinality(BoundTo(c)') =
                   Cardinality(BoundTo(c)) - One(c = req[r].owner /\ req[r].ref = 1 /\ req[r].bound)
             /\ Cardinality(BoundTo(c)) \in Nat /\ Cardinality(BoundTo(c)') \in Nat
<1> SUFFICES ASSUME NEW c \in Clients
             PROVE  /\ Cardinality(BoundTo(c)') = Cardinality(BoundTo(c))
                                - One(c = req[r].owner /\ req[r].ref = 1 /\ req[r].bound)
                    /\ Cardinality(BoundTo(c)) \in Nat /\ Cardinality(BoundTo(c)') \in Nat
  OBVIOUS
<1>1. req[r].ref \in Nat /\ IsFiniteSet(BoundTo(c)) /\ Cardinality(BoundTo(c)) \in Nat
  BY Typed, CountedFinite
<1>2. \A x : (\E u \in Threads : arg'[u] = x /\ pc'[u] = "cut_off")
              <=> (\E u \in Threads : arg[u] = x /\ pc[u] = "cut_off")
  OBVIOUS
<1>3. ~ \E u \in Threads : arg[u] = r /\ pc[u] = "cut_off"
  OBVIOUS
<1>4. CASE c = req[r].owner /\ req[r].ref = 1 /\ req[r].bound
  <2>1. r \in BoundTo(c) /\ BoundTo(c)' = BoundTo(c) \ {r}
    BY <1>1, <1>2, <1>3, <1>4 DEF BoundTo
  <2>2. Cardinality(BoundTo(c)') = Cardinality(BoundTo(c)) - 1 /\ IsFiniteSet(BoundTo(c)')
    BY <2>1, <1>1, FS_RemoveElement
  <2>3. Cardinality(BoundTo(c)') \in Nat
    BY <2>2, FS_CardinalityType
  <2> QED
    BY <2>2, <2>3, <1>1, <1>4 DEF One
<1>5. CASE ~ (c = req[r].owner /\ req[r].ref = 1 /\ req[r].bound)
  <2>1. BoundTo(c)' = BoundTo(c)
    BY <1>1, <1>2, <1>3, <1>5 DEF BoundTo
  <2> QED
    BY <2>1, <1>1, <1>5 DEF One
<1> QED
  BY <1>4, <1>5

-----------------------------------------------------------------------------
(* Taking the current request. *)
(* The message cannot be received: the request is given up, the next one announced. *)
LEMMA ReceiveFailsKeeps ==
    ASSUME SessionInv, NEW s \in Servers, ReceiveFails(s)
    PROVE  SessionInv'
<1>i. /\ TypeOK /\ PlacesOK /\ LockHeld /\ ArgsHeld /\ DataInv /\ EndRefs /\ OneCloser
      /\ CutOff /\ WaitersAttended /\ SleepersAwaited
  BY DEF SessionInv, DataInv
<1>f. /\ UNCHANGED <<state, list, mlock, refs, handles, req, created, arg, prev, doomed,
                     accepted, opened, signals>>
      /\ current' = NoRequest
  BY DEF ReceiveFails, Goto, queueVars, objectVars, clientVars
<1>p. /\ s \in Threads
      /\ pc[s] = "receiving" /\ pc'[s] = "receive_failed"
      /\ (list # <<>> => \A u \in Threads : pc'[u] # "asleep")
      /\ \A u \in Threads \ {s} : pc'[u] = pc[u] \/ (pc[u] = "asleep" /\ pc'[u] = "receive")
      /\ pc' = [u \in Threads |-> pc'[u]]
  BY <1>i DEF ReceiveFails, Goto, NextAnnounced, Notified, IsSignaled, PlacesOK, Threads
<1>m. /\ SameEnds(s) /\ SameRest(s) /\ pc[s] \notin Sending /\ pc'[s] \notin Sending
      /\ pc[s] \in Handling /\ pc'[s] \in Handling /\ pc[s] \in Receiving
      /\ pc'[s] \in Receiving /\ pc[s] \notin Taken /\ pc'[s] \in Taken
      /\ pc[s] \notin Answering /\ pc'[s] \in Answering /\ pc[s] \notin ClientClosing
      /\ pc'[s] \notin ClientClosing
  BY <1>p DEF SameHand, SameEnds, SameRest, Sending, Receiving, ServerCalling, ClientLooking,
     ClientCleaning, ClientClosing, ServerCleaning, ServerClosing, Handling, LockedPlaces,
     Taken, Answering, ClientPlaces, ServerPlaces
<1>o. \A u \in Threads \ {s} : SamePlaces(u)
  BY <1>p, OthersStay DEF Others
<1>d. /\ Created /\ ListInjective /\ Exclusive /\ Unsent /\ RefCount
      /\ ThreadRefs /\ EventsSignalled
  BY <1>i DEF DataInv
<1>l. /\ \A x \in Clients : x \in Threads
      /\ \A x \in Servers : x \in Threads
      /\ \A u \in Threads \ {s} : pc[u] \notin Handling /\ pc'[u] \notin Handling
      /\ arg[s] \in Requests /\ arg[s] <= created /\ req[arg[s]].ref > 0
      /\ req[arg[s]].owner \in Clients /\ ~ InList(arg[s])
      /\ NoRequest \notin Requests /\ \A c \in Clients : pc[c] \in Sending => arg[c] \in Requests
      /\ arg[s] = current
  <2>1. /\ \A x \in Clients : x \in Threads
        /\ \A x \in Servers : x \in Threads
        /\ NoRequest \notin Requests
    BY SessionAssumption DEF Threads
  <2>2. \A u \in Threads \ {s} : pc[u] \notin Handling /\ pc'[u] \notin Handling
    BY <1>i, <1>p, <1>m, <1>o DEF LockHeld, LockedPlaces, SamePlaces, SameHand
  <2>3. \A c \in Clients : pc[c] \in Sending => arg[c] \in Requests
    BY <1>i, <2>1 DEF ArgsHeld, TypeOK
  <2>4. arg[s] # NoRequest /\ ~ InList(arg[s])
    BY <1>i, <1>d, <1>p, <1>m DEF ArgsHeld, Exclusive
  <2> QED
    BY <2>1, <2>2, <2>3, <2>4, <1>d, <1>i, <1>p, HeldExists DEF Exclusive
<1>k. /\ pc[s] \in LockedPlaces
      /\ \A u \in Threads \ {s} : pc[u] \notin LockedPlaces /\ pc'[u] \notin LockedPlaces
  <2>1. pc[s] \in LockedPlaces
    BY <1>p DEF LockedPlaces, Handling, Receiving, ClientLooking
  <2> QED
    BY <2>1, <1>i, <1>p, <1>o DEF LockHeld, SamePlaces, SameRest
<1>n. \A r : InList(r)' <=> InList(r)
  BY <1>f, <1>l, <1>i, <1>d DEF InList, ListInjective, TypeOK
<1>s. \A r \in Requests : Sent(r)' <=> Sent(r)
  BY <1>f, <1>p, <1>m, <1>o, <1>l DEF Sent, SamePlaces, SameHand
<1>h. /\ \A r : Handled(r) <=> FALSE
      /\ \A r : Handled(r)' <=> arg'[s] = r
      /\ \A r : Pending(r) <=> (InList(r) \/ current = r)
      /\ \A r : Pending(r)' <=> (InList(r)' \/ current' = r \/ arg'[s] = r)
  BY <1>l, <1>p, <1>m, OneHand
<1>w. state' = "ServerClosed" /\ list' # <<>> => \E u \in Threads : pc'[u] \in ServerCleaning
  BY <1>i, <1>f, <1>p, <1>m, <1>o DEF WaitersAttended, SamePlaces, SameRest
<1>1. TypeOK'
  BY <1>i, <1>f, <1>l DEF TypeOK
<1>2. PlacesOK'
  BY <1>i, <1>p, <1>m, <1>o, SessionAssumption DEF PlacesOK, SamePlaces, SameRest, Threads
<1>3. LockHeld'
  BY <1>i, <1>f, <1>p, <1>m, <1>o, SessionAssumption DEF LockHeld, TypeOK, SamePlaces,
     SameRest
<1>4. ArgsHeld'
  BY <1>i, <1>f, <1>p, <1>m, <1>o, <1>l DEF ArgsHeld, SamePlaces, SameHand
<1>5. Created'
  BY <1>i, <1>d, <1>f, <1>p, <1>m, <1>o, <1>l, CreatedStep DEF SamePlaces, SameHand
<1>6. ListInjective'
  BY <1>d, <1>f, <1>i DEF ListInjective, TypeOK
<1>7. Exclusive'
  BY <1>d, <1>f, <1>p, <1>m, <1>l, <1>n, <1>i, Listed, ExclusiveStep DEF Exclusive, TypeOK
<1>8. Unsent'
  BY <1>d, <1>f, <1>p, <1>m, <1>o, <1>l, <1>n, <1>i, UnsentStep DEF SamePlaces, SameHand
<1>9. RefCount'
  <2> SUFFICES ASSUME NEW r \in Requests
               PROVE  req'[r].ref = One(InList(r)') + One(current' = r) + One(Sent(r)')
                                    + One(Handled(r)')
    BY DEF RefCount
  <2>1. /\ req[r].ref = One(InList(r)) + One(current = r) + One(Sent(r)) + One(Handled(r))
        /\ req[r].ref \in Nat
    BY <1>d, <1>i, Typed DEF RefCount
  <2>2. CASE r = arg[s]
    <3>1. /\ (InList(r)' <=> InList(r)) /\ current = r /\ current' # r
          /\ (Sent(r)' <=> Sent(r)) /\ ~ Handled(r) /\ Handled(r)'
          /\ req'[r].ref = req[r].ref
      BY <2>2, <1>h, <1>s, <1>n, <1>l, <1>f, <1>p, <1>m, <1>i, <1>d DEF Exclusive, TypeOK
    <3> QED
      BY <2>1, <3>1 DEF One
  <2>3. CASE r # arg[s]
    <3>1. /\ (InList(r)' <=> InList(r)) /\ (current' = r <=> current = r)
          /\ (Sent(r)' <=> Sent(r)) /\ (Handled(r)' <=> Handled(r))
          /\ req'[r].ref = req[r].ref
      BY <2>3, <1>h, <1>s, <1>n, <1>l, <1>f, <1>p, <1>m, <1>i, <1>d DEF Exclusive, TypeOK
    <3> QED
      BY <2>1, <3>1 DEF One
  <2> QED
    BY <2>2, <2>3
<1>10. ThreadRefs'
  <2>1. \A c \in Clients : BoundTo(c)' = BoundTo(c)
    BY <1>f, <1>p, <1>m, <1>o, <1>l DEF BoundTo, SamePlaces, SameHand
  <2>2. \A c \in Clients : ReceivedFrom(c)' <=> ReceivedFrom(c)
    BY <1>f, <1>p, <1>m, <1>o, <1>l DEF ReceivedFrom, SamePlaces, SameHand
  <2> QED
    BY <1>d, <1>f, <2>1, <2>2 DEF ThreadRefs, One
<1>11. EventsSignalled'
  BY <1>i, <1>d, <1>f, <1>p, <1>h, <1>n, <1>l, EventsStep
<1>12. EndRefs'
  BY <1>i, <1>f, <1>m, <1>o, EndsKept DEF SamePlaces
<1>13. OneCloser'
  BY <1>i, <1>f, <1>m, <1>o, EndsKept DEF SamePlaces
<1>14. CutOff'
  BY <1>i, <1>f, <1>p, <1>m, <1>o, <1>l, <1>k DEF CutOff, SamePlaces, SameHand, SameEnds,
     SameRest
<1>15. WaitersAttended'
  BY <1>i, <1>f, <1>p, <1>m, <1>o, <1>l, <1>h, <1>n, <1>w, WaitersStep DEF SamePlaces,
     SameRest, Sending
<1>16. SleepersAwaited'
  BY <1>i, <1>f, <1>p, <1>m, <1>o, <1>l DEF SleepersAwaited, IsClosed, SamePlaces, SameHand,
     SameRest
<1> QED
  BY <1>1, <1>2, <1>3, <1>4, <1>5, <1>6, <1>7, <1>8, <1>9, <1>10, <1>11, <1>12, <1>13, <1>14,
     <1>15, <1>16 DEF SessionInv, DataInv

(* SendReply takes the current request and announces the next one. *)
LEMMA ReplyTakeKeeps ==
    ASSUME SessionInv, NEW s \in Servers, ReplyTake(s)
    PROVE  SessionInv'
<1>i. /\ TypeOK /\ PlacesOK /\ LockHeld /\ ArgsHeld /\ DataInv /\ EndRefs /\ OneCloser
      /\ CutOff /\ WaitersAttended /\ SleepersAwaited
  BY DEF SessionInv, DataInv
<1>f. /\ UNCHANGED <<state, list, mlock, refs, handles, req, created, prev, doomed,
                     accepted, opened, signals>>
      /\ current # NoRequest /\ current' = NoRequest
      /\ arg'[s] = current /\ arg' = [u \in Threads |-> arg'[u]]
      /\ \A u \in Threads \ {s} : arg'[u] = arg[u]
  BY <1>i, Typed DEF ReplyTake, Goto, Threads, NextAnnounced, Notified, IsSignaled, queueVars, objectVars,
     clientVars
<1>p. /\ s \in Threads
      /\ pc[s] = "reply_locked" /\ pc'[s] = "replying"
      /\ (list # <<>> => \A u \in Threads : pc'[u] # "asleep")
      /\ \A u \in Threads \ {s} : pc'[u] = pc[u] \/ (pc[u] = "asleep" /\ pc'[u] = "receive")
      /\ pc' = [u \in Threads |-> pc'[u]]
  BY <1>i DEF ReplyTake, Goto, Threads, NextAnnounced, Notified, IsSignaled, PlacesOK, Threads
<1>m. /\ SameEnds(s) /\ SameRest(s) /\ pc[s] \notin Sending /\ pc'[s] \notin Sending
      /\ pc[s] \notin Handling /\ pc'[s] \in Handling /\ pc[s] \notin Receiving
      /\ pc'[s] \notin Receiving /\ pc[s] \notin Taken /\ pc'[s] \in Taken
      /\ pc[s] \notin Answering /\ pc'[s] \in Answering /\ pc[s] \notin ClientClosing
      /\ pc'[s] \notin ClientClosing
  BY <1>p DEF SameHand, SameEnds, SameRest, Sending, Receiving, ServerCalling, ClientLooking,
     ClientCleaning, ClientClosing, ServerCleaning, ServerClosing, Handling, LockedPlaces,
     Taken, Answering, ClientPlaces, ServerPlaces
<1>o. \A u \in Threads \ {s} : SamePlaces(u)
  BY <1>p, OthersStay DEF Others
<1>d. /\ Created /\ ListInjective /\ Exclusive /\ Unsent /\ RefCount
      /\ ThreadRefs /\ EventsSignalled
  BY <1>i DEF DataInv
<1>l. /\ \A x \in Clients : x \in Threads
      /\ \A x \in Servers : x \in Threads
      /\ \A u \in Threads \ {s} : pc[u] \notin Handling /\ pc'[u] \notin Handling
      /\ arg[s] = NoRequest
      /\ NoRequest \notin Requests /\ \A c \in Clients : pc[c] \in Sending => arg[c] \in Requests
      /\ current \in Requests /\ ~ InList(current)
  <2>1. /\ \A x \in Clients : x \in Threads
        /\ \A x \in Servers : x \in Threads
        /\ NoRequest \notin Requests
    BY SessionAssumption DEF Threads
  <2>2. \A u \in Threads \ {s} : pc[u] \notin Handling /\ pc'[u] \notin Handling
    BY <1>i, <1>p, <1>m, <1>o DEF LockHeld, LockedPlaces, SamePlaces, SameHand
  <2>3. \A c \in Clients : pc[c] \in Sending => arg[c] \in Requests
    BY <1>i, <2>1 DEF ArgsHeld, TypeOK
  <2>4. arg[s] = NoRequest
    BY <1>i, <1>p, <1>m DEF ArgsHeld
  <2> QED
    BY <2>1, <2>2, <2>3, <2>4, <1>d, <1>i, <1>p, HeldExists, <1>f, Typed DEF Exclusive
<1>k. /\ pc[s] \in LockedPlaces
      /\ \A u \in Threads \ {s} : pc[u] \notin LockedPlaces /\ pc'[u] \notin LockedPlaces
  <2>1. pc[s] \in LockedPlaces
    BY <1>p DEF LockedPlaces, Handling, Receiving, ClientLooking
  <2> QED
    BY <2>1, <1>i, <1>p, <1>o DEF LockHeld, SamePlaces, SameRest
<1>n. \A r : InList(r)' <=> InList(r)
  BY <1>f, <1>l, <1>i, <1>d DEF InList, ListInjective, TypeOK
<1>s. \A r \in Requests : Sent(r)' <=> Sent(r)
  BY <1>f, <1>p, <1>m, <1>o, <1>l DEF Sent, SamePlaces, SameHand
<1>h. /\ \A r : Handled(r) <=> FALSE
      /\ \A r : Handled(r)' <=> arg'[s] = r
      /\ \A r : Pending(r) <=> (InList(r) \/ current = r)
      /\ \A r : Pending(r)' <=> (InList(r)' \/ current' = r \/ arg'[s] = r)
  BY <1>l, <1>p, <1>m, OneHand
<1>w. state' = "ServerClosed" /\ list' # <<>> => \E u \in Threads : pc'[u] \in ServerCleaning
  BY <1>i, <1>f, <1>p, <1>m, <1>o DEF WaitersAttended, SamePlaces, SameRest
<1>1. TypeOK'
  BY <1>i, <1>f, <1>l DEF TypeOK
<1>2. PlacesOK'
  BY <1>i, <1>p, <1>m, <1>o, SessionAssumption DEF PlacesOK, SamePlaces, SameRest, Threads
<1>3. LockHeld'
  BY <1>i, <1>f, <1>p, <1>m, <1>o, SessionAssumption DEF LockHeld, TypeOK, SamePlaces,
     SameRest
<1>4. ArgsHeld'
  BY <1>i, <1>f, <1>p, <1>m, <1>o, <1>l DEF ArgsHeld, SamePlaces, SameHand
<1>5. Created'
  BY <1>i, <1>d, <1>f, <1>p, <1>m, <1>o, <1>l, CreatedStep DEF SamePlaces, SameHand
<1>6. ListInjective'
  BY <1>d, <1>f, <1>i DEF ListInjective, TypeOK
<1>7. Exclusive'
  BY <1>d, <1>f, <1>p, <1>m, <1>l, <1>n, <1>i, Listed, ExclusiveStep DEF Exclusive, TypeOK
<1>8. Unsent'
  BY <1>d, <1>f, <1>p, <1>m, <1>o, <1>l, <1>n, <1>i, UnsentStep DEF SamePlaces, SameHand
<1>9. RefCount'
  <2> SUFFICES ASSUME NEW r \in Requests
               PROVE  req'[r].ref = One(InList(r)') + One(current' = r) + One(Sent(r)')
                                    + One(Handled(r)')
    BY DEF RefCount
  <2>1. /\ req[r].ref = One(InList(r)) + One(current = r) + One(Sent(r)) + One(Handled(r))
        /\ req[r].ref \in Nat
    BY <1>d, <1>i, Typed DEF RefCount
  <2>2. CASE r = current
    <3>1. /\ (InList(r)' <=> InList(r)) /\ current = r /\ current' # r
          /\ (Sent(r)' <=> Sent(r)) /\ ~ Handled(r) /\ Handled(r)'
          /\ req'[r].ref = req[r].ref
      BY <2>2, <1>h, <1>s, <1>n, <1>l, <1>f, <1>p, <1>m, <1>i, <1>d DEF Exclusive, TypeOK
    <3> QED
      BY <2>1, <3>1 DEF One
  <2>3. CASE r # current
    <3>1. /\ (InList(r)' <=> InList(r)) /\ (current' = r <=> current = r)
          /\ (Sent(r)' <=> Sent(r)) /\ (Handled(r)' <=> Handled(r))
          /\ req'[r].ref = req[r].ref
      BY <2>3, <1>h, <1>s, <1>n, <1>l, <1>f, <1>p, <1>m, <1>i, <1>d DEF Exclusive, TypeOK
    <3> QED
      BY <2>1, <3>1 DEF One
  <2> QED
    BY <2>2, <2>3
<1>10. ThreadRefs'
  <2>1. \A c \in Clients : BoundTo(c)' = BoundTo(c)
    BY <1>f, <1>p, <1>m, <1>o, <1>l DEF BoundTo, SamePlaces, SameHand
  <2>2. \A c \in Clients : ReceivedFrom(c)' <=> ReceivedFrom(c)
    BY <1>f, <1>p, <1>m, <1>o, <1>l DEF ReceivedFrom, SamePlaces, SameHand
  <2> QED
    BY <1>d, <1>f, <2>1, <2>2 DEF ThreadRefs, One
<1>11. EventsSignalled'
  BY <1>i, <1>d, <1>f, <1>p, <1>h, <1>n, <1>l, EventsStep
<1>12. EndRefs'
  BY <1>i, <1>f, <1>m, <1>o, EndsKept DEF SamePlaces
<1>13. OneCloser'
  BY <1>i, <1>f, <1>m, <1>o, EndsKept DEF SamePlaces
<1>14. CutOff'
  BY <1>i, <1>f, <1>p, <1>m, <1>o, <1>l, <1>k DEF CutOff, SamePlaces, SameHand, SameEnds,
     SameRest
<1>15. WaitersAttended'
  BY <1>i, <1>f, <1>p, <1>m, <1>o, <1>l, <1>h, <1>n, <1>w, WaitersStep DEF SamePlaces,
     SameRest, Sending
<1>16. SleepersAwaited'
  BY <1>i, <1>f, <1>p, <1>m, <1>o, <1>l DEF SleepersAwaited, IsClosed, SamePlaces, SameHand,
     SameRest
<1> QED
  BY <1>1, <1>2, <1>3, <1>4, <1>5, <1>6, <1>7, <1>8, <1>9, <1>10, <1>11, <1>12, <1>13, <1>14,
     <1>15, <1>16 DEF SessionInv, DataInv

-----------------------------------------------------------------------------
(* Closing a request. *)
(* SendReply closes the request it answered. *)
LEMMA ReplyReturnsKeeps ==
    ASSUME SessionInv, NEW s \in Servers, ReplyReturns(s)
    PROVE  SessionInv'
<1>i. /\ TypeOK /\ PlacesOK /\ LockHeld /\ ArgsHeld /\ DataInv /\ EndRefs /\ OneCloser
      /\ CutOff /\ WaitersAttended /\ SleepersAwaited
  BY DEF SessionInv, DataInv
<1>f. /\ UNCHANGED <<state, list, current, refs, handles, created, prev, doomed, accepted,
                     signals>>
      /\ mlock' = NoThread
      /\ arg'[s] = NoRequest /\ arg' = [u \in Threads |-> arg'[u]]
      /\ \A u \in Threads \ {s} : arg'[u] = arg[u]
      /\ CloseRequest(arg[s], req)
  BY <1>i, Typed DEF ReplyReturns, Goto, Threads, queueVars, objectVars, clientVars
<1>p. /\ s \in Threads
      /\ pc[s] = "replied" /\ pc'[s] = "server_done"
      /\ \A u \in Threads \ {s} : pc'[u] = pc[u]
      /\ pc' = [u \in Threads |-> pc'[u]]
  BY <1>i DEF ReplyReturns, Goto, Threads, PlacesOK, Threads
<1>m. /\ SameEnds(s) /\ pc[s] \notin Sending /\ pc'[s] \notin Sending /\ pc[s] \in Handling
      /\ pc'[s] \notin Handling /\ pc[s] \notin Receiving /\ pc'[s] \notin Receiving
      /\ pc[s] \in Taken /\ pc'[s] \notin Taken /\ pc[s] \notin Answering
      /\ pc'[s] \notin Answering /\ pc[s] \notin ClientClosing
      /\ pc'[s] \notin ClientClosing /\ pc[s] \notin ClientCleaning
      /\ pc'[s] \notin ClientCleaning /\ pc[s] \notin ServerCleaning
      /\ pc'[s] \notin ServerCleaning /\ pc[s] \in LockedPlaces
      /\ pc'[s] \notin LockedPlaces /\ pc[s] \notin ClientPlaces
      /\ pc'[s] \notin ClientPlaces /\ pc[s] \in ServerPlaces /\ pc'[s] \in ServerPlaces
  BY <1>p DEF SameHand, SameEnds, SameRest, Sending, Receiving, ServerCalling, ClientLooking,
     ClientCleaning, ClientClosing, ServerCleaning, ServerClosing, Handling, LockedPlaces,
     Taken, Answering, ClientPlaces, ServerPlaces
<1>o. \A u \in Threads \ {s} : SamePlaces(u)
  BY <1>p, OthersStay DEF Others
<1>d. /\ Created /\ ListInjective /\ Exclusive /\ Unsent /\ RefCount
      /\ ThreadRefs /\ EventsSignalled
  BY <1>i DEF DataInv
<1>l. /\ \A x \in Clients : x \in Threads
      /\ \A x \in Servers : x \in Threads
      /\ \A u \in Threads \ {s} : pc[u] \notin Handling /\ pc'[u] \notin Handling
      /\ arg[s] \in Requests /\ arg[s] <= created /\ req[arg[s]].ref > 0
      /\ req[arg[s]].owner \in Clients /\ ~ InList(arg[s])
      /\ NoRequest \notin Requests /\ \A c \in Clients : pc[c] \in Sending => arg[c] \in Requests
  <2>1. /\ \A x \in Clients : x \in Threads
        /\ \A x \in Servers : x \in Threads
        /\ NoRequest \notin Requests
    BY SessionAssumption DEF Threads
  <2>2. \A u \in Threads \ {s} : pc[u] \notin Handling /\ pc'[u] \notin Handling
    BY <1>i, <1>p, <1>m, <1>o DEF LockHeld, LockedPlaces, SamePlaces, SameHand
  <2>3. \A c \in Clients : pc[c] \in Sending => arg[c] \in Requests
    BY <1>i, <2>1 DEF ArgsHeld, TypeOK
  <2>4. arg[s] # NoRequest /\ ~ InList(arg[s])
    BY <1>i, <1>d, <1>p, <1>m DEF ArgsHeld, Exclusive
  <2> QED
    BY <2>1, <2>2, <2>3, <2>4, <1>d, <1>i, <1>p, HeldExists
<1>k. /\ pc[s] \in LockedPlaces
      /\ \A u \in Threads \ {s} : pc[u] \notin LockedPlaces /\ pc'[u] \notin LockedPlaces
  <2>1. pc[s] \in LockedPlaces
    BY <1>p DEF LockedPlaces, Handling, Receiving, ClientLooking
  <2> QED
    BY <2>1, <1>i, <1>p, <1>o DEF LockHeld, SamePlaces, SameRest
<1>n. \A r : InList(r)' <=> InList(r)
  BY <1>f, <1>l, <1>i, <1>d DEF InList, ListInjective, TypeOK
<1>s. \A r \in Requests : Sent(r)' <=> Sent(r)
  BY <1>f, <1>p, <1>m, <1>o, <1>l DEF Sent, SamePlaces, SameHand
<1>h. /\ \A r : Handled(r) <=> arg[s] = r
      /\ \A r : Handled(r)' <=> FALSE
      /\ \A r : Pending(r) <=> (InList(r) \/ current = r)
      /\ \A r : Pending(r)' <=> (InList(r)' \/ current' = r)
  BY <1>l, <1>p, <1>m, OneHand
<1>w. state' = "ServerClosed" /\ list' # <<>> => \E u \in Threads : pc'[u] \in ServerCleaning
  BY <1>i, <1>f, <1>p, <1>m, <1>o DEF WaitersAttended, SamePlaces, SameRest
<1>c. /\ req' \in [Requests -> [ref : Nat, owner : Clients \cup {NoThread},
                                event : BOOLEAN, bound : BOOLEAN]]
      /\ \A x \in Requests : /\ req'[x].owner = req[x].owner /\ req'[x].event = req[x].event
                             /\ req'[x].bound = req[x].bound
                             /\ x # arg[s] => req'[x].ref = req[x].ref
      /\ req'[arg[s]].ref = req[arg[s]].ref - 1
      /\ opened' = [c \in Clients |-> opened'[c]]
      /\ \A c \in Clients : opened'[c] = opened[c]
            - One(c = req[arg[s]].owner /\ req[arg[s]].ref = 1 /\ req[arg[s]].bound)
  BY <1>i, <1>f, <1>l, RequestCloses
<1>r. ThreadRefs' /\ \A c \in Clients : opened'[c] \in Nat
  <2>1. \A c \in Clients :
           /\ Cardinality(BoundTo(c)') = Cardinality(BoundTo(c))
                - One(c = req[arg[s]].owner /\ req[arg[s]].ref = 1 /\ req[arg[s]].bound)
           /\ Cardinality(BoundTo(c)) \in Nat /\ Cardinality(BoundTo(c)') \in Nat
    <3>1. \A u \in Threads : pc[u] # "cut_off" /\ pc'[u] # "cut_off"
      BY <1>p, <1>l DEF Handling, ClientLooking
    <3> QED
      BY <3>1, <1>i, <1>l, <1>c, BoundAfterClose
  <2>2. \A c \in Clients : ReceivedFrom(c)' <=> ReceivedFrom(c)
    BY <1>f, <1>p, <1>m, <1>l DEF ReceivedFrom, Handling
  <2>3. ASSUME NEW c \in Clients
        PROVE  opened'[c] = Cardinality(BoundTo(c)') + One(ReceivedFrom(c)') /\ opened'[c] \in Nat
    <3>1. /\ opened[c] = Cardinality(BoundTo(c)) + One(ReceivedFrom(c))
          /\ opened'[c] = opened[c]
            - One(c = req[arg[s]].owner /\ req[arg[s]].ref = 1 /\ req[arg[s]].bound)
      BY <1>c, <1>d DEF ThreadRefs
    <3> QED
      BY <2>1, <2>2, <3>1 DEF One
  <2> QED
    BY <2>3 DEF ThreadRefs
<1>1. TypeOK'
  <2>2. opened' \in [Clients -> Nat]
    BY <1>c, <1>r
  <2>4. \A u \in Threads : arg'[u] \in Requests \cup {NoRequest}
    BY <1>i, <1>f, <1>l DEF TypeOK
  <2>5. arg' \in [Threads -> Requests \cup {NoRequest}]
    BY <2>4, <1>f
  <2> QED
    BY <2>2, <2>5, <1>c, <1>i, <1>f, <1>l DEF TypeOK
<1>2. PlacesOK'
  BY <1>i, <1>p, <1>m, <1>o, SessionAssumption DEF PlacesOK, SamePlaces, SameRest, Threads
<1>3. LockHeld'
  BY <1>i, <1>f, <1>p, <1>m, <1>o, SessionAssumption DEF LockHeld, TypeOK, SamePlaces,
     SameRest
<1>4. ArgsHeld'
  BY <1>i, <1>f, <1>p, <1>m, <1>o, <1>l DEF ArgsHeld, SamePlaces, SameHand
<1>5. Created'
  <2>1. \A r \in Requests : /\ req'[r].owner = req[r].owner
                            /\ r > created => /\ req'[r].ref = req[r].ref
                                              /\ signals'[r] = signals[r]
    BY <1>c, <1>f, <1>l, <1>i, Typed
  <2> QED
    BY <2>1, <1>i, <1>d, <1>f, <1>p, <1>m, <1>o, <1>l, CreatedStep DEF SamePlaces, SameHand
<1>6. ListInjective'
  BY <1>d, <1>f, <1>i DEF ListInjective, TypeOK
<1>7. Exclusive'
  BY <1>d, <1>f, <1>p, <1>m, <1>l, <1>n, <1>i, Listed, ExclusiveStep DEF Exclusive, TypeOK
<1>8. Unsent'
  BY <1>d, <1>f, <1>p, <1>m, <1>o, <1>l, <1>n, <1>i, UnsentStep DEF SamePlaces, SameHand
<1>9. RefCount'
  <2> SUFFICES ASSUME NEW r \in Requests
               PROVE  req'[r].ref = One(InList(r)') + One(current' = r) + One(Sent(r)')
                                    + One(Handled(r)')
    BY DEF RefCount
  <2>1. /\ req[r].ref = One(InList(r)) + One(current = r) + One(Sent(r)) + One(Handled(r))
        /\ req[r].ref \in Nat
    BY <1>d, <1>i, Typed DEF RefCount
  <2>2. CASE r = arg[s]
    <3>1. /\ (InList(r)' <=> InList(r)) /\ (current' = r <=> current = r)
          /\ (Sent(r)' <=> Sent(r)) /\ Handled(r) /\ ~ Handled(r)'
          /\ req'[r].ref = req[r].ref - 1
      BY <2>2, <1>c, <1>h, <1>s, <1>n, <1>l, <1>f, <1>p, <1>m, <1>i, <1>d DEF Exclusive,
         TypeOK
    <3> QED
      BY <2>1, <3>1 DEF One
  <2>3. CASE r # arg[s]
    <3>1. /\ (InList(r)' <=> InList(r)) /\ (current' = r <=> current = r)
          /\ (Sent(r)' <=> Sent(r)) /\ (Handled(r)' <=> Handled(r))
          /\ req'[r].ref = req[r].ref
      BY <2>3, <1>c, <1>h, <1>s, <1>n, <1>l, <1>f, <1>p, <1>m, <1>i, <1>d DEF Exclusive,
         TypeOK
    <3> QED
      BY <2>1, <3>1 DEF One
  <2> QED
    BY <2>2, <2>3
<1>10. ThreadRefs'
  BY <1>r
<1>11. EventsSignalled'
  BY <1>c, <1>i, <1>d, <1>f, <1>p, <1>h, <1>n, <1>l, EventsStep
<1>12. EndRefs'
  BY <1>i, <1>f, <1>m, <1>o, EndsKept DEF SamePlaces
<1>13. OneCloser'
  BY <1>i, <1>f, <1>m, <1>o, EndsKept DEF SamePlaces
<1>14. CutOff'
  <2>1. \A u \in Threads : pc'[u] # "cut_off"
    BY <1>p, <1>l DEF Handling, ClientLooking
  <2> QED
    BY <2>1, <1>c, <1>i, <1>f, <1>p, <1>m, <1>k DEF CutOff, SameRest
<1>15. WaitersAttended'
  BY <1>c, <1>i, <1>f, <1>p, <1>m, <1>o, <1>l, <1>h, <1>n, <1>w, WaitersStep DEF SamePlaces,
     SameRest, Sending
<1>16. SleepersAwaited'
  BY <1>i, <1>f, <1>p, <1>m, <1>o, <1>l DEF SleepersAwaited, IsClosed, SamePlaces, SameHand,
     SameRest
<1> QED
  BY <1>1, <1>2, <1>3, <1>4, <1>5, <1>6, <1>7, <1>8, <1>9, <1>10, <1>11, <1>12, <1>13, <1>14,
     <1>15, <1>16 DEF SessionInv, DataInv

(* CleanupRequests closes the request it answered. *)
LEMMA CleanupCloseKeeps ==
    ASSUME SessionInv, NEW t \in Threads, CleanupClose(t)
    PROVE  SessionInv'
<1>i. /\ TypeOK /\ PlacesOK /\ LockHeld /\ ArgsHeld /\ DataInv /\ EndRefs /\ OneCloser
      /\ CutOff /\ WaitersAttended /\ SleepersAwaited
  BY DEF SessionInv, DataInv
<1>f. /\ UNCHANGED <<state, list, current, mlock, refs, handles, created, prev, doomed,
                     accepted, signals>>
      /\ arg'[t] = NoRequest /\ arg' = [u \in Threads |-> arg'[u]]
      /\ \A u \in Threads \ {t} : arg'[u] = arg[u]
      /\ CloseRequest(arg[t], req)
  BY <1>i, Typed DEF CleanupClose, Goto, Threads, queueVars, objectVars, clientVars
<1>p. /\ t \in Threads
      /\ pc[t] = "cleaned" /\ pc'[t] = "server_cleanup_locked"
      /\ \A u \in Threads \ {t} : pc'[u] = pc[u]
      /\ pc' = [u \in Threads |-> pc'[u]]
  BY <1>i DEF CleanupClose, Goto, Threads, PlacesOK, Threads
<1>m. /\ SameEnds(t) /\ SameRest(t) /\ pc[t] \notin Sending /\ pc'[t] \notin Sending
      /\ pc[t] \in Handling /\ pc'[t] \notin Handling /\ pc[t] \notin Receiving
      /\ pc'[t] \notin Receiving /\ pc[t] \in Taken /\ pc'[t] \notin Taken
      /\ pc[t] \notin Answering /\ pc'[t] \notin Answering /\ pc[t] \notin ClientClosing
      /\ pc'[t] \notin ClientClosing
  BY <1>p DEF SameHand, SameEnds, SameRest, Sending, Receiving, ServerCalling, ClientLooking,
     ClientCleaning, ClientClosing, ServerCleaning, ServerClosing, Handling, LockedPlaces,
     Taken, Answering, ClientPlaces, ServerPlaces
<1>o. \A u \in Threads \ {t} : SamePlaces(u)
  BY <1>p, OthersStay DEF Others
<1>d. /\ Created /\ ListInjective /\ Exclusive /\ Unsent /\ RefCount
      /\ ThreadRefs /\ EventsSignalled
  BY <1>i DEF DataInv
<1>l. /\ \A x \in Clients : x \in Threads
      /\ \A x \in Servers : x \in Threads
      /\ \A u \in Threads \ {t} : pc[u] \notin Handling /\ pc'[u] \notin Handling
      /\ arg[t] \in Requests /\ arg[t] <= created /\ req[arg[t]].ref > 0
      /\ req[arg[t]].owner \in Clients /\ ~ InList(arg[t])
      /\ NoRequest \notin Requests /\ \A c \in Clients : pc[c] \in Sending => arg[c] \in Requests
  <2>1. /\ \A x \in Clients : x \in Threads
        /\ \A x \in Servers : x \in Threads
        /\ NoRequest \notin Requests
    BY SessionAssumption DEF Threads
  <2>2. \A u \in Threads \ {t} : pc[u] \notin Handling /\ pc'[u] \notin Handling
    BY <1>i, <1>p, <1>m, <1>o DEF LockHeld, LockedPlaces, SamePlaces, SameHand
  <2>3. \A c \in Clients : pc[c] \in Sending => arg[c] \in Requests
    BY <1>i, <2>1 DEF ArgsHeld, TypeOK
  <2>4. arg[t] # NoRequest /\ ~ InList(arg[t])
    BY <1>i, <1>d, <1>p, <1>m DEF ArgsHeld, Exclusive
  <2> QED
    BY <2>1, <2>2, <2>3, <2>4, <1>d, <1>i, <1>p, HeldExists
<1>k. /\ pc[t] \in LockedPlaces
      /\ \A u \in Threads \ {t} : pc[u] \notin LockedPlaces /\ pc'[u] \notin LockedPlaces
  <2>1. pc[t] \in LockedPlaces
    BY <1>p DEF LockedPlaces, Handling, Receiving, ClientLooking
  <2> QED
    BY <2>1, <1>i, <1>p, <1>o DEF LockHeld, SamePlaces, SameRest
<1>n. \A r : InList(r)' <=> InList(r)
  BY <1>f, <1>l, <1>i, <1>d DEF InList, ListInjective, TypeOK
<1>s. \A r \in Requests : Sent(r)' <=> Sent(r)
  BY <1>f, <1>p, <1>m, <1>o, <1>l DEF Sent, SamePlaces, SameHand
<1>h. /\ \A r : Handled(r) <=> arg[t] = r
      /\ \A r : Handled(r)' <=> FALSE
      /\ \A r : Pending(r) <=> (InList(r) \/ current = r)
      /\ \A r : Pending(r)' <=> (InList(r)' \/ current' = r)
  BY <1>l, <1>p, <1>m, OneHand
<1>w. state' = "ServerClosed" /\ list' # <<>> => \E u \in Threads : pc'[u] \in ServerCleaning
  BY <1>i, <1>f, <1>p, <1>m, <1>o DEF WaitersAttended, SamePlaces, SameRest
<1>c. /\ req' \in [Requests -> [ref : Nat, owner : Clients \cup {NoThread},
                                event : BOOLEAN, bound : BOOLEAN]]
      /\ \A x \in Requests : /\ req'[x].owner = req[x].owner /\ req'[x].event = req[x].event
                             /\ req'[x].bound = req[x].bound
                             /\ x # arg[t] => req'[x].ref = req[x].ref
      /\ req'[arg[t]].ref = req[arg[t]].ref - 1
      /\ opened' = [c \in Clients |-> opened'[c]]
      /\ \A c \in Clients : opened'[c] = opened[c]
            - One(c = req[arg[t]].owner /\ req[arg[t]].ref = 1 /\ req[arg[t]].bound)
  BY <1>i, <1>f, <1>l, RequestCloses
<1>r. ThreadRefs' /\ \A c \in Clients : opened'[c] \in Nat
  <2>1. \A c \in Clients :
           /\ Cardinality(BoundTo(c)') = Cardinality(BoundTo(c))
                - One(c = req[arg[t]].owner /\ req[arg[t]].ref = 1 /\ req[arg[t]].bound)
           /\ Cardinality(BoundTo(c)) \in Nat /\ Cardinality(BoundTo(c)') \in Nat
    <3>1. \A u \in Threads : pc[u] # "cut_off" /\ pc'[u] # "cut_off"
      BY <1>p, <1>l DEF Handling, ClientLooking
    <3> QED
      BY <3>1, <1>i, <1>l, <1>c, BoundAfterClose
  <2>2. \A c \in Clients : ReceivedFrom(c)' <=> ReceivedFrom(c)
    BY <1>f, <1>p, <1>m, <1>l DEF ReceivedFrom, Handling
  <2>3. ASSUME NEW c \in Clients
        PROVE  opened'[c] = Cardinality(BoundTo(c)') + One(ReceivedFrom(c)') /\ opened'[c] \in Nat
    <3>1. /\ opened[c] = Cardinality(BoundTo(c)) + One(ReceivedFrom(c))
          /\ opened'[c] = opened[c]
            - One(c = req[arg[t]].owner /\ req[arg[t]].ref = 1 /\ req[arg[t]].bound)
      BY <1>c, <1>d DEF ThreadRefs
    <3> QED
      BY <2>1, <2>2, <3>1 DEF One
  <2> QED
    BY <2>3 DEF ThreadRefs
<1>1. TypeOK'
  <2>2. opened' \in [Clients -> Nat]
    BY <1>c, <1>r
  <2>4. \A u \in Threads : arg'[u] \in Requests \cup {NoRequest}
    BY <1>i, <1>f, <1>l DEF TypeOK
  <2>5. arg' \in [Threads -> Requests \cup {NoRequest}]
    BY <2>4, <1>f
  <2> QED
    BY <2>2, <2>5, <1>c, <1>i, <1>f, <1>l DEF TypeOK
<1>2. PlacesOK'
  BY <1>i, <1>p, <1>m, <1>o, SessionAssumption DEF PlacesOK, SamePlaces, SameRest, Threads
<1>3. LockHeld'
  BY <1>i, <1>f, <1>p, <1>m, <1>o, SessionAssumption DEF LockHeld, TypeOK, SamePlaces,
     SameRest
<1>4. ArgsHeld'
  BY <1>i, <1>f, <1>p, <1>m, <1>o, <1>l DEF ArgsHeld, SamePlaces, SameHand
<1>5. Created'
  <2>1. \A r \in Requests : /\ req'[r].owner = req[r].owner
                            /\ r > created => /\ req'[r].ref = req[r].ref
                                              /\ signals'[r] = signals[r]
    BY <1>c, <1>f, <1>l, <1>i, Typed
  <2> QED
    BY <2>1, <1>i, <1>d, <1>f, <1>p, <1>m, <1>o, <1>l, CreatedStep DEF SamePlaces, SameHand
<1>6. ListInjective'
  BY <1>d, <1>f, <1>i DEF ListInjective, TypeOK
<1>7. Exclusive'
  BY <1>d, <1>f, <1>p, <1>m, <1>l, <1>n, <1>i, Listed, ExclusiveStep DEF Exclusive, TypeOK
<1>8. Unsent'
  BY <1>d, <1>f, <1>p, <1>m, <1>o, <1>l, <1>n, <1>i, UnsentStep DEF SamePlaces, SameHand
<1>9. RefCount'
  <2> SUFFICES ASSUME NEW r \in Requests
               PROVE  req'[r].ref = One(InList(r)') + One(current' = r) + One(Sent(r)')
                                    + One(Handled(r)')
    BY DEF RefCount
  <2>1. /\ req[r].ref = One(InList(r)) + One(current = r) + One(Sent(r)) + One(Handled(r))
        /\ req[r].ref \in Nat
    BY <1>d, <1>i, Typed DEF RefCount
  <2>2. CASE r = arg[t]
    <3>1. /\ (InList(r)' <=> InList(r)) /\ (current' = r <=> current = r)
          /\ (Sent(r)' <=> Sent(r)) /\ Handled(r) /\ ~ Handled(r)'
          /\ req'[r].ref = req[r].ref - 1
      BY <2>2, <1>c, <1>h, <1>s, <1>n, <1>l, <1>f, <1>p, <1>m, <1>i, <1>d DEF Exclusive,
         TypeOK
    <3> QED
      BY <2>1, <3>1 DEF One
  <2>3. CASE r # arg[t]
    <3>1. /\ (InList(r)' <=> InList(r)) /\ (current' = r <=> current = r)
          /\ (Sent(r)' <=> Sent(r)) /\ (Handled(r)' <=> Handled(r))
          /\ req'[r].ref = req[r].ref
      BY <2>3, <1>c, <1>h, <1>s, <1>n, <1>l, <1>f, <1>p, <1>m, <1>i, <1>d DEF Exclusive,
         TypeOK
    <3> QED
      BY <2>1, <3>1 DEF One
  <2> QED
    BY <2>2, <2>3
<1>10. ThreadRefs'
  BY <1>r
<1>11. EventsSignalled'
  BY <1>c, <1>i, <1>d, <1>f, <1>p, <1>h, <1>n, <1>l, EventsStep
<1>12. EndRefs'
  BY <1>i, <1>f, <1>m, <1>o, EndsKept DEF SamePlaces
<1>13. OneCloser'
  BY <1>i, <1>f, <1>m, <1>o, EndsKept DEF SamePlaces
<1>14. CutOff'
  <2>1. \A u \in Threads : pc'[u] # "cut_off"
    BY <1>p, <1>l DEF Handling, ClientLooking
  <2> QED
    BY <2>1, <1>c, <1>i, <1>f, <1>p, <1>m, <1>k DEF CutOff, SameRest
<1>15. WaitersAttended'
  BY <1>c, <1>i, <1>f, <1>p, <1>m, <1>o, <1>l, <1>h, <1>n, <1>w, WaitersStep DEF SamePlaces,
     SameRest, Sending
<1>16. SleepersAwaited'
  BY <1>i, <1>f, <1>p, <1>m, <1>o, <1>l DEF SleepersAwaited, IsClosed, SamePlaces, SameHand,
     SameRest
<1> QED
  BY <1>1, <1>2, <1>3, <1>4, <1>5, <1>6, <1>7, <1>8, <1>9, <1>10, <1>11, <1>12, <1>13, <1>14,
     <1>15, <1>16 DEF SessionInv, DataInv

(* OnClientClosed closes the request it dealt with. *)
LEMMA ClientClosedCloseKeeps ==
    ASSUME SessionInv, NEW t \in Threads, ClientClosedClose(t)
    PROVE  SessionInv'
<1>i. /\ TypeOK /\ PlacesOK /\ LockHeld /\ ArgsHeld /\ DataInv /\ EndRefs /\ OneCloser
      /\ CutOff /\ WaitersAttended /\ SleepersAwaited
  BY DEF SessionInv, DataInv
<1>f. /\ UNCHANGED <<state, list, current, mlock, refs, handles, created, prev, doomed,
                     accepted, signals>>
      /\ arg'[t] = NoRequest /\ arg' = [u \in Threads |-> arg'[u]]
      /\ \A u \in Threads \ {t} : arg'[u] = arg[u]
      /\ CloseRequest(arg[t], req)
  BY <1>i, Typed DEF ClientClosedClose, Goto, Threads, queueVars, objectVars, clientVars
<1>p. /\ t \in Threads
      /\ pc[t] = "looked_at" /\ pc'[t] = "client_cleanup_locked"
      /\ \A u \in Threads \ {t} : pc'[u] = pc[u]
      /\ pc' = [u \in Threads |-> pc'[u]]
  BY <1>i DEF ClientClosedClose, Goto, Threads, PlacesOK, Threads
<1>m. /\ SameEnds(t) /\ SameRest(t) /\ pc[t] \notin Sending /\ pc'[t] \notin Sending
      /\ pc[t] \in Handling /\ pc'[t] \notin Handling /\ pc[t] \notin Receiving
      /\ pc'[t] \notin Receiving /\ pc[t] \notin Taken /\ pc'[t] \notin Taken
      /\ pc[t] \notin Answering /\ pc'[t] \notin Answering /\ pc[t] \in ClientClosing
      /\ pc'[t] \in ClientClosing
  BY <1>p DEF SameHand, SameEnds, SameRest, Sending, Receiving, ServerCalling, ClientLooking,
     ClientCleaning, ClientClosing, ServerCleaning, ServerClosing, Handling, LockedPlaces,
     Taken, Answering, ClientPlaces, ServerPlaces
<1>o. \A u \in Threads \ {t} : SamePlaces(u)
  BY <1>p, OthersStay DEF Others
<1>d. /\ Created /\ ListInjective /\ Exclusive /\ Unsent /\ RefCount
      /\ ThreadRefs /\ EventsSignalled
  BY <1>i DEF DataInv
<1>l. /\ \A x \in Clients : x \in Threads
      /\ \A x \in Servers : x \in Threads
      /\ \A u \in Threads \ {t} : pc[u] \notin Handling /\ pc'[u] \notin Handling
      /\ arg[t] \in Requests /\ arg[t] <= created /\ req[arg[t]].ref > 0
      /\ req[arg[t]].owner \in Clients /\ ~ InList(arg[t])
      /\ NoRequest \notin Requests /\ \A c \in Clients : pc[c] \in Sending => arg[c] \in Requests
  <2>1. /\ \A x \in Clients : x \in Threads
        /\ \A x \in Servers : x \in Threads
        /\ NoRequest \notin Requests
    BY SessionAssumption DEF Threads
  <2>2. \A u \in Threads \ {t} : pc[u] \notin Handling /\ pc'[u] \notin Handling
    BY <1>i, <1>p, <1>m, <1>o DEF LockHeld, LockedPlaces, SamePlaces, SameHand
  <2>3. \A c \in Clients : pc[c] \in Sending => arg[c] \in Requests
    BY <1>i, <2>1 DEF ArgsHeld, TypeOK
  <2>4. arg[t] # NoRequest /\ ~ InList(arg[t])
    BY <1>i, <1>d, <1>p, <1>m DEF ArgsHeld, Exclusive
  <2> QED
    BY <2>1, <2>2, <2>3, <2>4, <1>d, <1>i, <1>p, HeldExists
<1>k. /\ pc[t] \in LockedPlaces
      /\ \A u \in Threads \ {t} : pc[u] \notin LockedPlaces /\ pc'[u] \notin LockedPlaces
  <2>1. pc[t] \in LockedPlaces
    BY <1>p DEF LockedPlaces, Handling, Receiving, ClientLooking
  <2> QED
    BY <2>1, <1>i, <1>p, <1>o DEF LockHeld, SamePlaces, SameRest
<1>n. \A r : InList(r)' <=> InList(r)
  BY <1>f, <1>l, <1>i, <1>d DEF InList, ListInjective, TypeOK
<1>s. \A r \in Requests : Sent(r)' <=> Sent(r)
  BY <1>f, <1>p, <1>m, <1>o, <1>l DEF Sent, SamePlaces, SameHand
<1>h. /\ \A r : Handled(r) <=> arg[t] = r
      /\ \A r : Handled(r)' <=> FALSE
      /\ \A r : Pending(r) <=> (InList(r) \/ current = r)
      /\ \A r : Pending(r)' <=> (InList(r)' \/ current' = r)
  BY <1>l, <1>p, <1>m, OneHand
<1>w. state' = "ServerClosed" /\ list' # <<>> => \E u \in Threads : pc'[u] \in ServerCleaning
  BY <1>i, <1>f, <1>p, <1>m, <1>o DEF WaitersAttended, SamePlaces, SameRest
<1>c. /\ req' \in [Requests -> [ref : Nat, owner : Clients \cup {NoThread},
                                event : BOOLEAN, bound : BOOLEAN]]
      /\ \A x \in Requests : /\ req'[x].owner = req[x].owner /\ req'[x].event = req[x].event
                             /\ req'[x].bound = req[x].bound
                             /\ x # arg[t] => req'[x].ref = req[x].ref
      /\ req'[arg[t]].ref = req[arg[t]].ref - 1
      /\ opened' = [c \in Clients |-> opened'[c]]
      /\ \A c \in Clients : opened'[c] = opened[c]
            - One(c = req[arg[t]].owner /\ req[arg[t]].ref = 1 /\ req[arg[t]].bound)
  BY <1>i, <1>f, <1>l, RequestCloses
<1>r. ThreadRefs' /\ \A c \in Clients : opened'[c] \in Nat
  <2>1. \A c \in Clients :
           /\ Cardinality(BoundTo(c)') = Cardinality(BoundTo(c))
                - One(c = req[arg[t]].owner /\ req[arg[t]].ref = 1 /\ req[arg[t]].bound)
           /\ Cardinality(BoundTo(c)) \in Nat /\ Cardinality(BoundTo(c)') \in Nat
    <3>1. \A u \in Threads : pc[u] # "cut_off" /\ pc'[u] # "cut_off"
      BY <1>p, <1>l DEF Handling, ClientLooking
    <3> QED
      BY <3>1, <1>i, <1>l, <1>c, BoundAfterClose
  <2>2. \A c \in Clients : ReceivedFrom(c)' <=> ReceivedFrom(c)
    BY <1>f, <1>p, <1>m, <1>l DEF ReceivedFrom, Handling
  <2>3. ASSUME NEW c \in Clients
        PROVE  opened'[c] = Cardinality(BoundTo(c)') + One(ReceivedFrom(c)') /\ opened'[c] \in Nat
    <3>1. /\ opened[c] = Cardinality(BoundTo(c)) + One(ReceivedFrom(c))
          /\ opened'[c] = opened[c]
            - One(c = req[arg[t]].owner /\ req[arg[t]].ref = 1 /\ req[arg[t]].bound)
      BY <1>c, <1>d DEF ThreadRefs
    <3> QED
      BY <2>1, <2>2, <3>1 DEF One
  <2> QED
    BY <2>3 DEF ThreadRefs
<1>1. TypeOK'
  <2>2. opened' \in [Clients -> Nat]
    BY <1>c, <1>r
  <2>4. \A u \in Threads : arg'[u] \in Requests \cup {NoRequest}
    BY <1>i, <1>f, <1>l DEF TypeOK
  <2>5. arg' \in [Threads -> Requests \cup {NoRequest}]
    BY <2>4, <1>f
  <2> QED
    BY <2>2, <2>5, <1>c, <1>i, <1>f, <1>l DEF TypeOK
<1>2. PlacesOK'
  BY <1>i, <1>p, <1>m, <1>o, SessionAssumption DEF PlacesOK, SamePlaces, SameRest, Threads
<1>3. LockHeld'
  BY <1>i, <1>f, <1>p, <1>m, <1>o, SessionAssumption DEF LockHeld, TypeOK, SamePlaces,
     SameRest
<1>4. ArgsHeld'
  BY <1>i, <1>f, <1>p, <1>m, <1>o, <1>l DEF ArgsHeld, SamePlaces, SameHand
<1>5. Created'
  <2>1. \A r \in Requests : /\ req'[r].owner = req[r].owner
                            /\ r > created => /\ req'[r].ref = req[r].ref
                                              /\ signals'[r] = signals[r]
    BY <1>c, <1>f, <1>l, <1>i, Typed
  <2> QED
    BY <2>1, <1>i, <1>d, <1>f, <1>p, <1>m, <1>o, <1>l, CreatedStep DEF SamePlaces, SameHand
<1>6. ListInjective'
  BY <1>d, <1>f, <1>i DEF ListInjective, TypeOK
<1>7. Exclusive'
  BY <1>d, <1>f, <1>p, <1>m, <1>l, <1>n, <1>i, Listed, ExclusiveStep DEF Exclusive, TypeOK
<1>8. Unsent'
  BY <1>d, <1>f, <1>p, <1>m, <1>o, <1>l, <1>n, <1>i, UnsentStep DEF SamePlaces, SameHand
<1>9. RefCount'
  <2> SUFFICES ASSUME NEW r \in Requests
               PROVE  req'[r].ref = One(InList(r)') + One(current' = r) + One(Sent(r)')
                                    + One(Handled(r)')
    BY DEF RefCount
  <2>1. /\ req[r].ref = One(InList(r)) + One(current = r) + One(Sent(r)) + One(Handled(r))
        /\ req[r].ref \in Nat
    BY <1>d, <1>i, Typed DEF RefCount
  <2>2. CASE r = arg[t]
    <3>1. /\ (InList(r)' <=> InList(r)) /\ (current' = r <=> current = r)
          /\ (Sent(r)' <=> Sent(r)) /\ Handled(r) /\ ~ Handled(r)'
          /\ req'[r].ref = req[r].ref - 1
      BY <2>2, <1>c, <1>h, <1>s, <1>n, <1>l, <1>f, <1>p, <1>m, <1>i, <1>d DEF Exclusive,
         TypeOK
    <3> QED
      BY <2>1, <3>1 DEF One
  <2>3. CASE r # arg[t]
    <3>1. /\ (InList(r)' <=> InList(r)) /\ (current' = r <=> current = r)
          /\ (Sent(r)' <=> Sent(r)) /\ (Handled(r)' <=> Handled(r))
          /\ req'[r].ref = req[r].ref
      BY <2>3, <1>c, <1>h, <1>s, <1>n, <1>l, <1>f, <1>p, <1>m, <1>i, <1>d DEF Exclusive,
         TypeOK
    <3> QED
      BY <2>1, <3>1 DEF One
  <2> QED
    BY <2>2, <2>3
<1>10. ThreadRefs'
  BY <1>r
<1>11. EventsSignalled'
  BY <1>c, <1>i, <1>d, <1>f, <1>p, <1>h, <1>n, <1>l, EventsStep
<1>12. EndRefs'
  BY <1>i, <1>f, <1>m, <1>o, EndsKept DEF SamePlaces
<1>13. OneCloser'
  BY <1>i, <1>f, <1>m, <1>o, EndsKept DEF SamePlaces
<1>14. CutOff'
  <2>1. \A u \in Threads : pc'[u] # "cut_off"
    BY <1>p, <1>l DEF Handling, ClientLooking
  <2> QED
    BY <2>1, <1>c, <1>i, <1>f, <1>p, <1>m, <1>k DEF CutOff, SameRest
<1>15. WaitersAttended'
  BY <1>c, <1>i, <1>f, <1>p, <1>m, <1>o, <1>l, <1>h, <1>n, <1>w, WaitersStep DEF SamePlaces,
     SameRest, Sending
<1>16. SleepersAwaited'
  BY <1>i, <1>f, <1>p, <1>m, <1>o, <1>l DEF SleepersAwaited, IsClosed, SamePlaces, SameHand,
     SameRest
<1> QED
  BY <1>1, <1>2, <1>3, <1>4, <1>5, <1>6, <1>7, <1>8, <1>9, <1>10, <1>11, <1>12, <1>13, <1>14,
     <1>15, <1>16 DEF SessionInv, DataInv

(* The request that could not be received is closed. *)
LEMMA ReceiveFailsReturnsKeeps ==
    ASSUME SessionInv, NEW s \in Servers, ReceiveFailsReturns(s)
    PROVE  SessionInv'
<1>i. /\ TypeOK /\ PlacesOK /\ LockHeld /\ ArgsHeld /\ DataInv /\ EndRefs /\ OneCloser
      /\ CutOff /\ WaitersAttended /\ SleepersAwaited
  BY DEF SessionInv, DataInv
<1>f. /\ UNCHANGED <<state, list, current, refs, handles, created, prev, doomed, accepted,
                     signals>>
      /\ mlock' = NoThread
      /\ arg'[s] = NoRequest /\ arg' = [u \in Threads |-> arg'[u]]
      /\ \A u \in Threads \ {s} : arg'[u] = arg[u]
      /\ req' = [req EXCEPT ![arg[s]].ref = @ - 1]
      /\ opened' = [opened EXCEPT ![req[arg[s]].owner] =
                       @ - (IF req[arg[s]].ref = 1 /\ req[arg[s]].bound THEN 2 ELSE 1)]
  BY <1>i, Typed DEF ReceiveFailsReturns, Goto, Threads, queueVars, objectVars, clientVars
<1>p. /\ s \in Threads
      /\ pc[s] = "receive_answered" /\ pc'[s] \in {"again", "server_done"}
      /\ \A u \in Threads \ {s} : pc'[u] = pc[u]
      /\ pc' = [u \in Threads |-> pc'[u]]
  BY <1>i DEF ReceiveFailsReturns, Goto, Threads, PlacesOK, Threads
<1>m. /\ SameEnds(s) /\ pc[s] \notin Sending /\ pc'[s] \notin Sending /\ pc[s] \in Handling
      /\ pc'[s] \notin Handling /\ pc[s] \in Receiving /\ pc'[s] \notin Receiving
      /\ pc[s] \in Taken /\ pc'[s] \notin Taken /\ pc[s] \notin Answering
      /\ pc'[s] \notin Answering /\ pc[s] \notin ClientClosing
      /\ pc'[s] \notin ClientClosing /\ pc[s] \notin ClientCleaning
      /\ pc'[s] \notin ClientCleaning /\ pc[s] \notin ServerCleaning
      /\ pc'[s] \notin ServerCleaning /\ pc[s] \in LockedPlaces
      /\ pc'[s] \notin LockedPlaces /\ pc[s] \notin ClientPlaces
      /\ pc'[s] \notin ClientPlaces /\ pc[s] \in ServerPlaces /\ pc'[s] \in ServerPlaces
      /\ pc'[s] # "received" /\ pc'[s] # "receiving" /\ pc'[s] # "cut_off"
      /\ pc'[s] # "send" /\ pc'[s] # "asleep" /\ pc'[s] # "waiting"
  BY <1>p DEF SameHand, SameEnds, SameRest, Sending, Receiving, ServerCalling, ClientLooking,
     ClientCleaning, ClientClosing, ServerCleaning, ServerClosing, Handling, LockedPlaces,
     Taken, Answering, ClientPlaces, ServerPlaces
<1>o. \A u \in Threads \ {s} : SamePlaces(u)
  BY <1>p, OthersStay DEF Others
<1>d. /\ Created /\ ListInjective /\ Exclusive /\ Unsent /\ RefCount
      /\ ThreadRefs /\ EventsSignalled
  BY <1>i DEF DataInv
<1>l. /\ \A x \in Clients : x \in Threads
      /\ \A x \in Servers : x \in Threads
      /\ \A u \in Threads \ {s} : pc[u] \notin Handling /\ pc'[u] \notin Handling
      /\ arg[s] \in Requests /\ arg[s] <= created /\ req[arg[s]].ref > 0
      /\ req[arg[s]].owner \in Clients /\ ~ InList(arg[s])
      /\ NoRequest \notin Requests /\ \A c \in Clients : pc[c] \in Sending => arg[c] \in Requests
  <2>1. /\ \A x \in Clients : x \in Threads
        /\ \A x \in Servers : x \in Threads
        /\ NoRequest \notin Requests
    BY SessionAssumption DEF Threads
  <2>2. \A u \in Threads \ {s} : pc[u] \notin Handling /\ pc'[u] \notin Handling
    BY <1>i, <1>p, <1>m, <1>o DEF LockHeld, LockedPlaces, SamePlaces, SameHand
  <2>3. \A c \in Clients : pc[c] \in Sending => arg[c] \in Requests
    BY <1>i, <2>1 DEF ArgsHeld, TypeOK
  <2>4. arg[s] # NoRequest /\ ~ InList(arg[s])
    BY <1>i, <1>d, <1>p, <1>m DEF ArgsHeld, Exclusive
  <2> QED
    BY <2>1, <2>2, <2>3, <2>4, <1>d, <1>i, <1>p, HeldExists
<1>k. /\ pc[s] \in LockedPlaces
      /\ \A u \in Threads \ {s} : pc[u] \notin LockedPlaces /\ pc'[u] \notin LockedPlaces
  <2>1. pc[s] \in LockedPlaces
    BY <1>p DEF LockedPlaces, Handling, Receiving, ClientLooking
  <2> QED
    BY <2>1, <1>i, <1>p, <1>o DEF LockHeld, SamePlaces, SameRest
<1>n. \A r : InList(r)' <=> InList(r)
  BY <1>f, <1>l, <1>i, <1>d DEF InList, ListInjective, TypeOK
<1>s. \A r \in Requests : Sent(r)' <=> Sent(r)
  BY <1>f, <1>p, <1>m, <1>o, <1>l DEF Sent, SamePlaces, SameHand
<1>h. /\ \A r : Handled(r) <=> arg[s] = r
      /\ \A r : Handled(r)' <=> FALSE
      /\ \A r : Pending(r) <=> (InList(r) \/ current = r)
      /\ \A r : Pending(r)' <=> (InList(r)' \/ current' = r)
  BY <1>l, <1>p, <1>m, OneHand
<1>w. state' = "ServerClosed" /\ list' # <<>> => \E u \in Threads : pc'[u] \in ServerCleaning
  BY <1>i, <1>f, <1>p, <1>m, <1>o DEF WaitersAttended, SamePlaces, SameRest
<1>c. /\ req' \in [Requests -> [ref : Nat, owner : Clients \cup {NoThread},
                                event : BOOLEAN, bound : BOOLEAN]]
      /\ \A x \in Requests : /\ req'[x].owner = req[x].owner /\ req'[x].event = req[x].event
                             /\ req'[x].bound = req[x].bound
                             /\ x # arg[s] => req'[x].ref = req[x].ref
      /\ req'[arg[s]].ref = req[arg[s]].ref - 1
  BY <1>i, <1>f, <1>l, RequestDrops
<1>b. /\ opened' = [c \in Clients |-> opened'[c]]
      /\ \A c \in Clients : opened'[c] = opened[c] - One(c = req[arg[s]].owner)
            - One(c = req[arg[s]].owner /\ req[arg[s]].ref = 1 /\ req[arg[s]].bound)
  <2>1. opened \in [Clients -> Nat]
    BY <1>i DEF TypeOK
  <2>2. opened' = [c \in Clients |-> opened'[c]]
    BY <2>1, <1>f
  <2>3. ASSUME NEW c \in Clients, c # req[arg[s]].owner PROVE opened'[c] = opened[c]
    BY <2>1, <2>3, <1>f
  <2>4. ASSUME req[arg[s]].ref = 1 /\ req[arg[s]].bound
        PROVE  opened'[req[arg[s]].owner] = opened[req[arg[s]].owner] - 2
    BY <2>1, <2>4, <1>f, <1>l
  <2>5. ASSUME ~ (req[arg[s]].ref = 1 /\ req[arg[s]].bound)
        PROVE  opened'[req[arg[s]].owner] = opened[req[arg[s]].owner] - 1
    BY <2>1, <2>5, <1>f, <1>l
  <2> QED
    BY <2>1, <2>2, <2>3, <2>4, <2>5, <1>l DEF One
<1>r. ThreadRefs' /\ \A c \in Clients : opened'[c] \in Nat
  <2>1. \A c \in Clients :
           /\ Cardinality(BoundTo(c)') = Cardinality(BoundTo(c))
                - One(c = req[arg[s]].owner /\ req[arg[s]].ref = 1 /\ req[arg[s]].bound)
           /\ Cardinality(BoundTo(c)) \in Nat /\ Cardinality(BoundTo(c)') \in Nat
    <3>1. \A u \in Threads : pc[u] # "cut_off" /\ pc'[u] # "cut_off"
      BY <1>p, <1>l DEF Handling, ClientLooking
    <3> QED
      BY <3>1, <1>i, <1>l, <1>c, BoundAfterClose
  <2>2. \A c \in Clients : (ReceivedFrom(c) <=> c = req[arg[s]].owner) /\ ~ ReceivedFrom(c)'
    BY <1>f, <1>p, <1>l DEF ReceivedFrom, Handling, Receiving
  <2>3. ASSUME NEW c \in Clients
        PROVE  opened'[c] = Cardinality(BoundTo(c)') + One(ReceivedFrom(c)') /\ opened'[c] \in Nat
    <3>1. /\ opened[c] = Cardinality(BoundTo(c)) + One(ReceivedFrom(c))
          /\ opened'[c] = opened[c] - One(c = req[arg[s]].owner)
            - One(c = req[arg[s]].owner /\ req[arg[s]].ref = 1 /\ req[arg[s]].bound)
      BY <1>b, <1>d DEF ThreadRefs
    <3> QED
      BY <2>1, <2>2, <3>1 DEF One
  <2> QED
    BY <2>3 DEF ThreadRefs
<1>1. TypeOK'
  <2>2. opened' \in [Clients -> Nat]
    BY <1>b, <1>r
  <2>4. \A u \in Threads : arg'[u] \in Requests \cup {NoRequest}
    BY <1>i, <1>f, <1>l DEF TypeOK
  <2>5. arg' \in [Threads -> Requests \cup {NoRequest}]
    BY <2>4, <1>f
  <2> QED
    BY <2>2, <2>5, <1>c, <1>i, <1>f, <1>l DEF TypeOK
<1>2. PlacesOK'
  BY <1>i, <1>p, <1>m, <1>o, SessionAssumption DEF PlacesOK, SamePlaces, SameRest, Threads
<1>3. LockHeld'
  BY <1>i, <1>f, <1>p, <1>m, <1>o, SessionAssumption DEF LockHeld, TypeOK, SamePlaces,
     SameRest
<1>4. ArgsHeld'
  BY <1>i, <1>f, <1>p, <1>m, <1>o, <1>l DEF ArgsHeld, SamePlaces, SameHand
<1>5. Created'
  <2>1. \A r \in Requests : /\ req'[r].owner = req[r].owner
                            /\ r > created => /\ req'[r].ref = req[r].ref
                                              /\ signals'[r] = signals[r]
    BY <1>c, <1>f, <1>l, <1>i, Typed
  <2> QED
    BY <2>1, <1>i, <1>d, <1>f, <1>p, <1>m, <1>o, <1>l, CreatedStep DEF SamePlaces, SameHand
<1>6. ListInjective'
  BY <1>d, <1>f, <1>i DEF ListInjective, TypeOK
<1>7. Exclusive'
  BY <1>d, <1>f, <1>p, <1>m, <1>l, <1>n, <1>i, Listed, ExclusiveStep DEF Exclusive, TypeOK
<1>8. Unsent'
  BY <1>d, <1>f, <1>p, <1>m, <1>o, <1>l, <1>n, <1>i, UnsentStep DEF SamePlaces, SameHand
<1>9. RefCount'
  <2> SUFFICES ASSUME NEW r \in Requests
               PROVE  req'[r].ref = One(InList(r)') + One(current' = r) + One(Sent(r)')
                                    + One(Handled(r)')
    BY DEF RefCount
  <2>1. /\ req[r].ref = One(InList(r)) + One(current = r) + One(Sent(r)) + One(Handled(r))
        /\ req[r].ref \in Nat
    BY <1>d, <1>i, Typed DEF RefCount
  <2>2. CASE r = arg[s]
    <3>1. /\ (InList(r)' <=> InList(r)) /\ (current' = r <=> current = r)
          /\ (Sent(r)' <=> Sent(r)) /\ Handled(r) /\ ~ Handled(r)'
          /\ req'[r].ref = req[r].ref - 1
      BY <2>2, <1>c, <1>h, <1>s, <1>n, <1>l, <1>f, <1>p, <1>m, <1>i, <1>d DEF Exclusive,
         TypeOK
    <3> QED
      BY <2>1, <3>1 DEF One
  <2>3. CASE r # arg[s]
    <3>1. /\ (InList(r)' <=> InList(r)) /\ (current' = r <=> current = r)
          /\ (Sent(r)' <=> Sent(r)) /\ (Handled(r)' <=> Handled(r))
          /\ req'[r].ref = req[r].ref
      BY <2>3, <1>c, <1>h, <1>s, <1>n, <1>l, <1>f, <1>p, <1>m, <1>i, <1>d DEF Exclusive,
         TypeOK
    <3> QED
      BY <2>1, <3>1 DEF One
  <2> QED
    BY <2>2, <2>3
<1>10. ThreadRefs'
  BY <1>r
<1>11. EventsSignalled'
  BY <1>c, <1>i, <1>d, <1>f, <1>p, <1>h, <1>n, <1>l, EventsStep
<1>12. EndRefs'
  BY <1>i, <1>f, <1>m, <1>o, EndsKept DEF SamePlaces
<1>13. OneCloser'
  BY <1>i, <1>f, <1>m, <1>o, EndsKept DEF SamePlaces
<1>14. CutOff'
  <2>1. \A u \in Threads : pc'[u] # "cut_off"
    BY <1>p, <1>l DEF Handling, ClientLooking
  <2> QED
    BY <2>1, <1>c, <1>i, <1>f, <1>p, <1>m, <1>k DEF CutOff, SameRest
<1>15. WaitersAttended'
  BY <1>c, <1>i, <1>f, <1>p, <1>m, <1>o, <1>l, <1>h, <1>n, <1>w, WaitersStep DEF SamePlaces,
     SameRest, Sending
<1>16. SleepersAwaited'
  BY <1>i, <1>f, <1>p, <1>m, <1>o, <1>l DEF SleepersAwaited, IsClosed, SamePlaces, SameHand,
     SameRest
<1> QED
  BY <1>1, <1>2, <1>3, <1>4, <1>5, <1>6, <1>7, <1>8, <1>9, <1>10, <1>11, <1>12, <1>13, <1>14,
     <1>15, <1>16 DEF SessionInv, DataInv

-----------------------------------------------------------------------------
(* Answering a client. *)
(* The client whose message was not received is answered. *)
LEMMA ReceiveFailsAnswerKeeps ==
    ASSUME SessionInv, NEW s \in Servers, ReceiveFailsAnswer(s)
    PROVE  SessionInv'
<1>i. /\ TypeOK /\ PlacesOK /\ LockHeld /\ ArgsHeld /\ DataInv /\ EndRefs /\ OneCloser
      /\ CutOff /\ WaitersAttended /\ SleepersAwaited
  BY DEF SessionInv, DataInv
<1>a. /\ arg[s] \in Requests /\ req[arg[s]].owner \in Clients /\ req[arg[s]].owner # s
      /\ s \in Threads /\ req[arg[s]].owner \in Threads
  <2>1. s \in Threads /\ s \notin Clients /\ Clients \subseteq Threads
    BY SessionAssumption DEF Threads
  <2>2. arg[s] # NoRequest
    BY <1>i, <2>1 DEF ArgsHeld, ReceiveFailsAnswer, Handling, Receiving
  <2> QED
    BY <2>1, <2>2, <1>i, HeldExists DEF DataInv
<1>f. /\ UNCHANGED <<state, list, current, mlock, refs, handles, req, created, arg, prev,
                     doomed, accepted, opened>>
      /\ (req[arg[s]].event => signals'[arg[s]] = signals[arg[s]] + 1)
      /\ (~ req[arg[s]].event => signals'[arg[s]] = signals[arg[s]])
      /\ \A r \in Requests : r # arg[s] => signals'[r] = signals[r]
      /\ signals' = [r \in Requests |-> signals'[r]]
  BY <1>i, <1>a, Typed DEF ReceiveFailsAnswer, Answer, Goto, queueVars, objectVars, clientVars
<1>p. /\ s \in Threads
      /\ pc[s] = "receive_failed" /\ pc'[s] = "receive_answered"
      /\ (~ req[arg[s]].event /\ req[arg[s]].owner \notin doomed =>
             pc'[req[arg[s]].owner] # "waiting")
      /\ \A u \in Threads \ {s} : pc'[u] = pc[u] \/ (pc[u] = "waiting" /\ pc'[u] = "sent")
      /\ pc' = [u \in Threads |-> pc'[u]]
  BY <1>a, <1>i DEF ReceiveFailsAnswer, Answer, Goto, PlacesOK, Threads
<1>m. /\ SameEnds(s) /\ SameRest(s) /\ pc[s] \notin Sending /\ pc'[s] \notin Sending
      /\ pc[s] \in Handling /\ pc'[s] \in Handling /\ pc[s] \in Receiving
      /\ pc'[s] \in Receiving /\ pc[s] \in Taken /\ pc'[s] \in Taken /\ pc[s] \in Answering
      /\ pc'[s] \notin Answering /\ pc[s] \notin ClientClosing
      /\ pc'[s] \notin ClientClosing
  BY <1>p DEF SameHand, SameEnds, SameRest, Sending, Receiving, ServerCalling, ClientLooking,
     ClientCleaning, ClientClosing, ServerCleaning, ServerClosing, Handling, LockedPlaces,
     Taken, Answering, ClientPlaces, ServerPlaces
<1>o. \A u \in Threads \ {s} : SamePlaces(u)
  BY <1>p, OthersStay DEF Others
<1>d. /\ Created /\ ListInjective /\ Exclusive /\ Unsent /\ RefCount
      /\ ThreadRefs /\ EventsSignalled
  BY <1>i DEF DataInv
<1>l. /\ \A x \in Clients : x \in Threads
      /\ \A x \in Servers : x \in Threads
      /\ \A u \in Threads \ {s} : pc[u] \notin Handling /\ pc'[u] \notin Handling
      /\ arg[s] \in Requests /\ arg[s] <= created /\ req[arg[s]].ref > 0
      /\ req[arg[s]].owner \in Clients /\ ~ InList(arg[s])
      /\ NoRequest \notin Requests /\ \A c \in Clients : pc[c] \in Sending => arg[c] \in Requests
      /\ arg[s] # current
  <2>1. /\ \A x \in Clients : x \in Threads
        /\ \A x \in Servers : x \in Threads
        /\ NoRequest \notin Requests
    BY SessionAssumption DEF Threads
  <2>2. \A u \in Threads \ {s} : pc[u] \notin Handling /\ pc'[u] \notin Handling
    BY <1>i, <1>p, <1>m, <1>o DEF LockHeld, LockedPlaces, SamePlaces, SameHand
  <2>3. \A c \in Clients : pc[c] \in Sending => arg[c] \in Requests
    BY <1>i, <2>1 DEF ArgsHeld, TypeOK
  <2>4. arg[s] # NoRequest /\ ~ InList(arg[s])
    BY <1>i, <1>d, <1>p, <1>m DEF ArgsHeld, Exclusive
  <2> QED
    BY <2>1, <2>2, <2>3, <2>4, <1>d, <1>i, <1>p, HeldExists, <1>m DEF Exclusive
<1>k. /\ pc[s] \in LockedPlaces
      /\ \A u \in Threads \ {s} : pc[u] \notin LockedPlaces /\ pc'[u] \notin LockedPlaces
  <2>1. pc[s] \in LockedPlaces
    BY <1>p DEF LockedPlaces, Handling, Receiving, ClientLooking
  <2> QED
    BY <2>1, <1>i, <1>p, <1>o DEF LockHeld, SamePlaces, SameRest
<1>n. \A r : InList(r)' <=> InList(r)
  BY <1>f, <1>l, <1>i, <1>d DEF InList, ListInjective, TypeOK
<1>s. \A r \in Requests : Sent(r)' <=> Sent(r)
  BY <1>f, <1>p, <1>m, <1>o, <1>l DEF Sent, SamePlaces, SameHand
<1>h. /\ \A r : Handled(r) <=> arg[s] = r
      /\ \A r : Handled(r)' <=> arg'[s] = r
      /\ \A r : Pending(r) <=> (InList(r) \/ current = r \/ arg[s] = r)
      /\ \A r : Pending(r)' <=> (InList(r)' \/ current' = r)
  BY <1>l, <1>p, <1>m, OneHand
<1>w. state' = "ServerClosed" /\ list' # <<>> => \E u \in Threads : pc'[u] \in ServerCleaning
  BY <1>i, <1>f, <1>p, <1>m, <1>o DEF WaitersAttended, SamePlaces, SameRest
<1>1. TypeOK'
  <2>0. signals \in [Requests -> Nat]
    BY <1>i DEF TypeOK
  <2>1. \A r \in Requests : signals'[r] \in Nat
    BY <2>0, <1>f
  <2>2. signals' \in [Requests -> Nat]
    BY <2>1, <1>f
  <2> QED
    BY <2>2, <1>i, <1>f DEF TypeOK
<1>2. PlacesOK'
  BY <1>i, <1>p, <1>m, <1>o, SessionAssumption DEF PlacesOK, SamePlaces, SameRest, Threads
<1>3. LockHeld'
  BY <1>i, <1>f, <1>p, <1>m, <1>o, SessionAssumption DEF LockHeld, TypeOK, SamePlaces,
     SameRest
<1>4. ArgsHeld'
  BY <1>i, <1>f, <1>p, <1>m, <1>o, <1>l DEF ArgsHeld, SamePlaces, SameHand
<1>5. Created'
  <2>1. \A r \in Requests : r > created => signals'[r] = signals[r]
    BY <1>f, <1>l, <1>i, Typed
  <2> QED
    BY <2>1, <1>i, <1>d, <1>f, <1>p, <1>m, <1>o, <1>l, CreatedStep DEF SamePlaces, SameHand
<1>6. ListInjective'
  BY <1>d, <1>f, <1>i DEF ListInjective, TypeOK
<1>7. Exclusive'
  BY <1>d, <1>f, <1>p, <1>m, <1>l, <1>n, <1>i, Listed, ExclusiveStep DEF Exclusive, TypeOK
<1>8. Unsent'
  BY <1>d, <1>f, <1>p, <1>m, <1>o, <1>l, <1>n, <1>i, UnsentStep DEF SamePlaces, SameHand
<1>9. RefCount'
  <2> SUFFICES ASSUME NEW r \in Requests
               PROVE  req'[r].ref = One(InList(r)') + One(current' = r) + One(Sent(r)')
                                    + One(Handled(r)')
    BY DEF RefCount
  <2>1. /\ req[r].ref = One(InList(r)) + One(current = r) + One(Sent(r)) + One(Handled(r))
        /\ req[r].ref \in Nat
    BY <1>d, <1>i, Typed DEF RefCount
  <2>2. /\ (InList(r)' <=> InList(r)) /\ (current' = r <=> current = r)
        /\ (Sent(r)' <=> Sent(r)) /\ (Handled(r)' <=> Handled(r))
        /\ req'[r].ref = req[r].ref
    BY <1>h, <1>s, <1>n, <1>l, <1>f, <1>p, <1>m, <1>i, <1>d DEF Exclusive, TypeOK
  <2> QED
    BY <2>1, <2>2 DEF One
<1>10. ThreadRefs'
  <2>1. \A c \in Clients : BoundTo(c)' = BoundTo(c)
    BY <1>f, <1>p, <1>m, <1>o, <1>l DEF BoundTo, SamePlaces, SameHand
  <2>2. \A c \in Clients : ReceivedFrom(c)' <=> ReceivedFrom(c)
    BY <1>f, <1>p, <1>m, <1>o, <1>l DEF ReceivedFrom, SamePlaces, SameHand
  <2> QED
    BY <1>d, <1>f, <2>1, <2>2 DEF ThreadRefs, One
<1>11. EventsSignalled'
  <2>1. ASSUME NEW r \in Requests
        PROVE  \/ /\ signals'[r] = signals[r]
                  /\ Pending(r)' => Pending(r)
                  /\ Pending(r) /\ req'[r].event => Pending(r)'
               \/ Pending(r) /\ ~ Pending(r)' /\ signals'[r] = signals[r] + 1
    <3>1. CASE r = arg[s]
      BY <3>1, <1>f, <1>l, <1>h, <1>n
    <3>2. CASE r # arg[s]
      BY <3>2, <1>f, <1>h, <1>n
    <3> QED
      BY <3>1, <3>2
  <2> QED
    BY <2>1, <1>i, <1>d, <1>f, EventsStep
<1>12. EndRefs'
  BY <1>i, <1>f, <1>m, <1>o, EndsKept DEF SamePlaces
<1>13. OneCloser'
  BY <1>i, <1>f, <1>m, <1>o, EndsKept DEF SamePlaces
<1>14. CutOff'
  BY <1>i, <1>f, <1>p, <1>m, <1>o, <1>l, <1>k DEF CutOff, SamePlaces, SameHand, SameEnds,
     SameRest
<1>15. WaitersAttended'
  <2>1. ASSUME NEW c \in Clients, pc[c] = "waiting", pc'[c] = "waiting", Pending(arg[c])
        PROVE  Pending(arg[c])' /\ (req'[arg[c]].event => req[arg[c]].event)
    <3>1. /\ ~ req[arg[c]].event /\ c \notin doomed
          /\ arg[c] \in Requests /\ req[arg[c]].owner = c
      BY <2>1, <1>i, <1>d, <1>l DEF WaitersAttended, Created, Sending
    <3>2. arg[c] # arg[s]
      BY <2>1, <3>1, <1>p
    <3> QED
      BY <2>1, <3>2, <1>f, <1>h, <1>n
  <2> QED
    BY <2>1, <1>i, <1>f, <1>p, <1>m, <1>o, <1>w, WaitersStep DEF SamePlaces, SameRest
<1>16. SleepersAwaited'
  BY <1>i, <1>f, <1>p, <1>m, <1>o, <1>l DEF SleepersAwaited, IsClosed, SamePlaces, SameHand,
     SameRest
<1> QED
  BY <1>1, <1>2, <1>3, <1>4, <1>5, <1>6, <1>7, <1>8, <1>9, <1>10, <1>11, <1>12, <1>13, <1>14,
     <1>15, <1>16 DEF SessionInv, DataInv

(* SendReply answers the client. *)
LEMMA ReplyAnswerKeeps ==
    ASSUME SessionInv, NEW s \in Servers, ReplyAnswer(s), req[arg[s]].bound
    PROVE  SessionInv'
<1>i. /\ TypeOK /\ PlacesOK /\ LockHeld /\ ArgsHeld /\ DataInv /\ EndRefs /\ OneCloser
      /\ CutOff /\ WaitersAttended /\ SleepersAwaited
  BY DEF SessionInv, DataInv
<1>a. /\ arg[s] \in Requests /\ req[arg[s]].owner \in Clients /\ req[arg[s]].owner # s
      /\ s \in Threads /\ req[arg[s]].owner \in Threads
  <2>1. s \in Threads /\ s \notin Clients /\ Clients \subseteq Threads
    BY SessionAssumption DEF Threads
  <2>2. arg[s] # NoRequest
    BY <1>i, <2>1 DEF ArgsHeld, ReplyAnswer, Handling, Receiving
  <2> QED
    BY <2>1, <2>2, <1>i, HeldExists DEF DataInv
<1>f. /\ UNCHANGED <<state, list, current, mlock, refs, handles, req, created, arg, prev,
                     doomed, accepted, opened>>
      /\ (req[arg[s]].event => signals'[arg[s]] = signals[arg[s]] + 1)
      /\ (~ req[arg[s]].event => signals'[arg[s]] = signals[arg[s]])
      /\ \A r \in Requests : r # arg[s] => signals'[r] = signals[r]
      /\ signals' = [r \in Requests |-> signals'[r]]
  BY <1>i, <1>a, Typed DEF ReplyAnswer, Answer, Goto, queueVars, objectVars, clientVars
<1>p. /\ s \in Threads
      /\ pc[s] = "replying" /\ pc'[s] = "replied"
      /\ (~ req[arg[s]].event /\ req[arg[s]].owner \notin doomed =>
             pc'[req[arg[s]].owner] # "waiting")
      /\ \A u \in Threads \ {s} : pc'[u] = pc[u] \/ (pc[u] = "waiting" /\ pc'[u] = "sent")
      /\ pc' = [u \in Threads |-> pc'[u]]
  BY <1>a, <1>i DEF ReplyAnswer, Answer, Goto, PlacesOK, Threads
<1>m. /\ SameEnds(s) /\ SameRest(s) /\ pc[s] \notin Sending /\ pc'[s] \notin Sending
      /\ pc[s] \in Handling /\ pc'[s] \in Handling /\ pc[s] \notin Receiving
      /\ pc'[s] \notin Receiving /\ pc[s] \in Taken /\ pc'[s] \in Taken
      /\ pc[s] \in Answering /\ pc'[s] \notin Answering /\ pc[s] \notin ClientClosing
      /\ pc'[s] \notin ClientClosing
  BY <1>p DEF SameHand, SameEnds, SameRest, Sending, Receiving, ServerCalling, ClientLooking,
     ClientCleaning, ClientClosing, ServerCleaning, ServerClosing, Handling, LockedPlaces,
     Taken, Answering, ClientPlaces, ServerPlaces
<1>o. \A u \in Threads \ {s} : SamePlaces(u)
  BY <1>p, OthersStay DEF Others
<1>d. /\ Created /\ ListInjective /\ Exclusive /\ Unsent /\ RefCount
      /\ ThreadRefs /\ EventsSignalled
  BY <1>i DEF DataInv
<1>l. /\ \A x \in Clients : x \in Threads
      /\ \A x \in Servers : x \in Threads
      /\ \A u \in Threads \ {s} : pc[u] \notin Handling /\ pc'[u] \notin Handling
      /\ arg[s] \in Requests /\ arg[s] <= created /\ req[arg[s]].ref > 0
      /\ req[arg[s]].owner \in Clients /\ ~ InList(arg[s])
      /\ NoRequest \notin Requests /\ \A c \in Clients : pc[c] \in Sending => arg[c] \in Requests
      /\ arg[s] # current
  <2>1. /\ \A x \in Clients : x \in Threads
        /\ \A x \in Servers : x \in Threads
        /\ NoRequest \notin Requests
    BY SessionAssumption DEF Threads
  <2>2. \A u \in Threads \ {s} : pc[u] \notin Handling /\ pc'[u] \notin Handling
    BY <1>i, <1>p, <1>m, <1>o DEF LockHeld, LockedPlaces, SamePlaces, SameHand
  <2>3. \A c \in Clients : pc[c] \in Sending => arg[c] \in Requests
    BY <1>i, <2>1 DEF ArgsHeld, TypeOK
  <2>4. arg[s] # NoRequest /\ ~ InList(arg[s])
    BY <1>i, <1>d, <1>p, <1>m DEF ArgsHeld, Exclusive
  <2> QED
    BY <2>1, <2>2, <2>3, <2>4, <1>d, <1>i, <1>p, HeldExists, <1>m DEF Exclusive
<1>k. /\ pc[s] \in LockedPlaces
      /\ \A u \in Threads \ {s} : pc[u] \notin LockedPlaces /\ pc'[u] \notin LockedPlaces
  <2>1. pc[s] \in LockedPlaces
    BY <1>p DEF LockedPlaces, Handling, Receiving, ClientLooking
  <2> QED
    BY <2>1, <1>i, <1>p, <1>o DEF LockHeld, SamePlaces, SameRest
<1>n. \A r : InList(r)' <=> InList(r)
  BY <1>f, <1>l, <1>i, <1>d DEF InList, ListInjective, TypeOK
<1>s. \A r \in Requests : Sent(r)' <=> Sent(r)
  BY <1>f, <1>p, <1>m, <1>o, <1>l DEF Sent, SamePlaces, SameHand
<1>h. /\ \A r : Handled(r) <=> arg[s] = r
      /\ \A r : Handled(r)' <=> arg'[s] = r
      /\ \A r : Pending(r) <=> (InList(r) \/ current = r \/ arg[s] = r)
      /\ \A r : Pending(r)' <=> (InList(r)' \/ current' = r)
  BY <1>l, <1>p, <1>m, OneHand
<1>w. state' = "ServerClosed" /\ list' # <<>> => \E u \in Threads : pc'[u] \in ServerCleaning
  BY <1>i, <1>f, <1>p, <1>m, <1>o DEF WaitersAttended, SamePlaces, SameRest
<1>1. TypeOK'
  <2>0. signals \in [Requests -> Nat]
    BY <1>i DEF TypeOK
  <2>1. \A r \in Requests : signals'[r] \in Nat
    BY <2>0, <1>f
  <2>2. signals' \in [Requests -> Nat]
    BY <2>1, <1>f
  <2> QED
    BY <2>2, <1>i, <1>f DEF TypeOK
<1>2. PlacesOK'
  BY <1>i, <1>p, <1>m, <1>o, SessionAssumption DEF PlacesOK, SamePlaces, SameRest, Threads
<1>3. LockHeld'
  BY <1>i, <1>f, <1>p, <1>m, <1>o, SessionAssumption DEF LockHeld, TypeOK, SamePlaces,
     SameRest
<1>4. ArgsHeld'
  BY <1>i, <1>f, <1>p, <1>m, <1>o, <1>l DEF ArgsHeld, SamePlaces, SameHand
<1>5. Created'
  <2>1. \A r \in Requests : r > created => signals'[r] = signals[r]
    BY <1>f, <1>l, <1>i, Typed
  <2> QED
    BY <2>1, <1>i, <1>d, <1>f, <1>p, <1>m, <1>o, <1>l, CreatedStep DEF SamePlaces, SameHand
<1>6. ListInjective'
  BY <1>d, <1>f, <1>i DEF ListInjective, TypeOK
<1>7. Exclusive'
  BY <1>d, <1>f, <1>p, <1>m, <1>l, <1>n, <1>i, Listed, ExclusiveStep DEF Exclusive, TypeOK
<1>8. Unsent'
  BY <1>d, <1>f, <1>p, <1>m, <1>o, <1>l, <1>n, <1>i, UnsentStep DEF SamePlaces, SameHand
<1>9. RefCount'
  <2> SUFFICES ASSUME NEW r \in Requests
               PROVE  req'[r].ref = One(InList(r)') + One(current' = r) + One(Sent(r)')
                                    + One(Handled(r)')
    BY DEF RefCount
  <2>1. /\ req[r].ref = One(InList(r)) + One(current = r) + One(Sent(r)) + One(Handled(r))
        /\ req[r].ref \in Nat
    BY <1>d, <1>i, Typed DEF RefCount
  <2>2. /\ (InList(r)' <=> InList(r)) /\ (current' = r <=> current = r)
        /\ (Sent(r)' <=> Sent(r)) /\ (Handled(r)' <=> Handled(r))
        /\ req'[r].ref = req[r].ref
    BY <1>h, <1>s, <1>n, <1>l, <1>f, <1>p, <1>m, <1>i, <1>d DEF Exclusive, TypeOK
  <2> QED
    BY <2>1, <2>2 DEF One
<1>10. ThreadRefs'
  <2>1. \A c \in Clients : BoundTo(c)' = BoundTo(c)
    BY <1>f, <1>p, <1>m, <1>o, <1>l DEF BoundTo, SamePlaces, SameHand
  <2>2. \A c \in Clients : ReceivedFrom(c)' <=> ReceivedFrom(c)
    BY <1>f, <1>p, <1>m, <1>o, <1>l DEF ReceivedFrom, SamePlaces, SameHand
  <2> QED
    BY <1>d, <1>f, <2>1, <2>2 DEF ThreadRefs, One
<1>11. EventsSignalled'
  <2>1. ASSUME NEW r \in Requests
        PROVE  \/ /\ signals'[r] = signals[r]
                  /\ Pending(r)' => Pending(r)
                  /\ Pending(r) /\ req'[r].event => Pending(r)'
               \/ Pending(r) /\ ~ Pending(r)' /\ signals'[r] = signals[r] + 1
    <3>1. CASE r = arg[s]
      BY <3>1, <1>f, <1>l, <1>h, <1>n
    <3>2. CASE r # arg[s]
      BY <3>2, <1>f, <1>h, <1>n
    <3> QED
      BY <3>1, <3>2
  <2> QED
    BY <2>1, <1>i, <1>d, <1>f, EventsStep
<1>12. EndRefs'
  BY <1>i, <1>f, <1>m, <1>o, EndsKept DEF SamePlaces
<1>13. OneCloser'
  BY <1>i, <1>f, <1>m, <1>o, EndsKept DEF SamePlaces
<1>14. CutOff'
  BY <1>i, <1>f, <1>p, <1>m, <1>o, <1>l, <1>k DEF CutOff, SamePlaces, SameHand, SameEnds,
     SameRest
<1>15. WaitersAttended'
  <2>1. ASSUME NEW c \in Clients, pc[c] = "waiting", pc'[c] = "waiting", Pending(arg[c])
        PROVE  Pending(arg[c])' /\ (req'[arg[c]].event => req[arg[c]].event)
    <3>1. /\ ~ req[arg[c]].event /\ c \notin doomed
          /\ arg[c] \in Requests /\ req[arg[c]].owner = c
      BY <2>1, <1>i, <1>d, <1>l DEF WaitersAttended, Created, Sending
    <3>2. arg[c] # arg[s]
      BY <2>1, <3>1, <1>p
    <3> QED
      BY <2>1, <3>2, <1>f, <1>h, <1>n
  <2> QED
    BY <2>1, <1>i, <1>f, <1>p, <1>m, <1>o, <1>w, WaitersStep DEF SamePlaces, SameRest
<1>16. SleepersAwaited'
  BY <1>i, <1>f, <1>p, <1>m, <1>o, <1>l DEF SleepersAwaited, IsClosed, SamePlaces, SameHand,
     SameRest
<1> QED
  BY <1>1, <1>2, <1>3, <1>4, <1>5, <1>6, <1>7, <1>8, <1>9, <1>10, <1>11, <1>12, <1>13, <1>14,
     <1>15, <1>16 DEF SessionInv, DataInv

(* SendReply finds its request cut off from its client. *)
LEMMA ReplyAnswerNobody ==
    ASSUME SessionInv, NEW s \in Servers, ReplyAnswer(s), ~ req[arg[s]].bound
    PROVE  SessionInv'
<1>i. /\ TypeOK /\ PlacesOK /\ LockHeld /\ ArgsHeld /\ DataInv /\ EndRefs /\ OneCloser
      /\ CutOff /\ WaitersAttended /\ SleepersAwaited
  BY DEF SessionInv, DataInv
<1>f. /\ UNCHANGED <<state, list, current, mlock, refs, handles, req, created, arg, prev,
                     doomed, accepted, opened, signals>>
  BY DEF ReplyAnswer, Goto, queueVars, objectVars, clientVars
<1>p. /\ s \in Threads
      /\ pc[s] = "replying" /\ pc'[s] = "replied"
      /\ \A u \in Threads \ {s} : pc'[u] = pc[u]
      /\ pc' = [u \in Threads |-> pc'[u]]
  BY <1>i DEF ReplyAnswer, Goto, PlacesOK, Threads
<1>m. /\ SameEnds(s) /\ SameRest(s) /\ pc[s] \notin Sending /\ pc'[s] \notin Sending
      /\ pc[s] \in Handling /\ pc'[s] \in Handling /\ pc[s] \notin Receiving
      /\ pc'[s] \notin Receiving /\ pc[s] \in Taken /\ pc'[s] \in Taken
      /\ pc[s] \in Answering /\ pc'[s] \notin Answering /\ pc[s] \notin ClientClosing
      /\ pc'[s] \notin ClientClosing
  BY <1>p DEF SameHand, SameEnds, SameRest, Sending, Receiving, ServerCalling, ClientLooking,
     ClientCleaning, ClientClosing, ServerCleaning, ServerClosing, Handling, LockedPlaces,
     Taken, Answering, ClientPlaces, ServerPlaces
<1>o. \A u \in Threads \ {s} : SamePlaces(u)
  BY <1>p, OthersStay DEF Others
<1>d. /\ Created /\ ListInjective /\ Exclusive /\ Unsent /\ RefCount
      /\ ThreadRefs /\ EventsSignalled
  BY <1>i DEF DataInv
<1>l. /\ \A x \in Clients : x \in Threads
      /\ \A x \in Servers : x \in Threads
      /\ \A u \in Threads \ {s} : pc[u] \notin Handling /\ pc'[u] \notin Handling
      /\ arg[s] \in Requests /\ arg[s] <= created /\ req[arg[s]].ref > 0
      /\ req[arg[s]].owner \in Clients /\ ~ InList(arg[s])
      /\ NoRequest \notin Requests /\ \A c \in Clients : pc[c] \in Sending => arg[c] \in Requests
      /\ ~ req[arg[s]].event /\ arg[s] # current /\ \A c \in Clients : pc[c] \notin Sending
  <2>1. /\ \A x \in Clients : x \in Threads
        /\ \A x \in Servers : x \in Threads
        /\ NoRequest \notin Requests
    BY SessionAssumption DEF Threads
  <2>2. \A u \in Threads \ {s} : pc[u] \notin Handling /\ pc'[u] \notin Handling
    BY <1>i, <1>p, <1>m, <1>o DEF LockHeld, LockedPlaces, SamePlaces, SameHand
  <2>3. \A c \in Clients : pc[c] \in Sending => arg[c] \in Requests
    BY <1>i, <2>1 DEF ArgsHeld, TypeOK
  <2>4. arg[s] # NoRequest /\ ~ InList(arg[s])
    BY <1>i, <1>d, <1>p, <1>m DEF ArgsHeld, Exclusive
  <2> QED
    BY <2>1, <2>2, <2>3, <2>4, <1>d, <1>i, <1>p, HeldExists, <1>m, CountsPositive, Typed DEF
       CutOff, Exclusive
<1>k. /\ pc[s] \in LockedPlaces
      /\ \A u \in Threads \ {s} : pc[u] \notin LockedPlaces /\ pc'[u] \notin LockedPlaces
  <2>1. pc[s] \in LockedPlaces
    BY <1>p DEF LockedPlaces, Handling, Receiving, ClientLooking
  <2> QED
    BY <2>1, <1>i, <1>p, <1>o DEF LockHeld, SamePlaces, SameRest
<1>n. \A r : InList(r)' <=> InList(r)
  BY <1>f, <1>l, <1>i, <1>d DEF InList, ListInjective, TypeOK
<1>s. \A r \in Requests : Sent(r)' <=> Sent(r)
  BY <1>f, <1>p, <1>m, <1>o, <1>l DEF Sent, SamePlaces, SameHand
<1>h. /\ \A r : Handled(r) <=> arg[s] = r
      /\ \A r : Handled(r)' <=> arg'[s] = r
      /\ \A r : Pending(r) <=> (InList(r) \/ current = r \/ arg[s] = r)
      /\ \A r : Pending(r)' <=> (InList(r)' \/ current' = r)
  BY <1>l, <1>p, <1>m, OneHand
<1>w. state' = "ServerClosed" /\ list' # <<>> => \E u \in Threads : pc'[u] \in ServerCleaning
  BY <1>i, <1>f, <1>p, <1>m, <1>o DEF WaitersAttended, SamePlaces, SameRest
<1>1. TypeOK'
  BY <1>i, <1>f, <1>l DEF TypeOK
<1>2. PlacesOK'
  BY <1>i, <1>p, <1>m, <1>o, SessionAssumption DEF PlacesOK, SamePlaces, SameRest, Threads
<1>3. LockHeld'
  BY <1>i, <1>f, <1>p, <1>m, <1>o, SessionAssumption DEF LockHeld, TypeOK, SamePlaces,
     SameRest
<1>4. ArgsHeld'
  BY <1>i, <1>f, <1>p, <1>m, <1>o, <1>l DEF ArgsHeld, SamePlaces, SameHand
<1>5. Created'
  BY <1>i, <1>d, <1>f, <1>p, <1>m, <1>o, <1>l, CreatedStep DEF SamePlaces, SameHand
<1>6. ListInjective'
  BY <1>d, <1>f, <1>i DEF ListInjective, TypeOK
<1>7. Exclusive'
  BY <1>d, <1>f, <1>p, <1>m, <1>l, <1>n, <1>i, Listed, ExclusiveStep DEF Exclusive, TypeOK
<1>8. Unsent'
  BY <1>d, <1>f, <1>p, <1>m, <1>o, <1>l, <1>n, <1>i, UnsentStep DEF SamePlaces, SameHand
<1>9. RefCount'
  <2> SUFFICES ASSUME NEW r \in Requests
               PROVE  req'[r].ref = One(InList(r)') + One(current' = r) + One(Sent(r)')
                                    + One(Handled(r)')
    BY DEF RefCount
  <2>1. /\ req[r].ref = One(InList(r)) + One(current = r) + One(Sent(r)) + One(Handled(r))
        /\ req[r].ref \in Nat
    BY <1>d, <1>i, Typed DEF RefCount
  <2>2. /\ (InList(r)' <=> InList(r)) /\ (current' = r <=> current = r)
        /\ (Sent(r)' <=> Sent(r)) /\ (Handled(r)' <=> Handled(r))
        /\ req'[r].ref = req[r].ref
    BY <1>h, <1>s, <1>n, <1>l, <1>f, <1>p, <1>m, <1>i, <1>d DEF Exclusive, TypeOK
  <2> QED
    BY <2>1, <2>2 DEF One
<1>10. ThreadRefs'
  <2>1. \A c \in Clients : BoundTo(c)' = BoundTo(c)
    BY <1>f, <1>p, <1>m, <1>o, <1>l DEF BoundTo, SamePlaces, SameHand
  <2>2. \A c \in Clients : ReceivedFrom(c)' <=> ReceivedFrom(c)
    BY <1>f, <1>p, <1>m, <1>o, <1>l DEF ReceivedFrom, SamePlaces, SameHand
  <2> QED
    BY <1>d, <1>f, <2>1, <2>2 DEF ThreadRefs, One
<1>11. EventsSignalled'
  <2>1. ASSUME NEW r \in Requests
        PROVE  /\ signals'[r] = signals[r]
               /\ Pending(r)' => Pending(r)
               /\ Pending(r) /\ req'[r].event => Pending(r)'
    BY <1>f, <1>l, <1>h, <1>n
  <2> QED
    BY <2>1, <1>i, <1>d, <1>f, EventsStep
<1>12. EndRefs'
  BY <1>i, <1>f, <1>m, <1>o, EndsKept DEF SamePlaces
<1>13. OneCloser'
  BY <1>i, <1>f, <1>m, <1>o, EndsKept DEF SamePlaces
<1>14. CutOff'
  BY <1>i, <1>f, <1>p, <1>m, <1>o, <1>l, <1>k DEF CutOff, SamePlaces, SameHand, SameEnds,
     SameRest
<1>15. WaitersAttended'
  BY <1>i, <1>f, <1>p, <1>m, <1>o, <1>l, <1>h, <1>n, <1>w, WaitersStep DEF SamePlaces,
     SameRest, Sending
<1>16. SleepersAwaited'
  BY <1>i, <1>f, <1>p, <1>m, <1>o, <1>l DEF SleepersAwaited, IsClosed, SamePlaces, SameHand,
     SameRest
<1> QED
  BY <1>1, <1>2, <1>3, <1>4, <1>5, <1>6, <1>7, <1>8, <1>9, <1>10, <1>11, <1>12, <1>13, <1>14,
     <1>15, <1>16 DEF SessionInv, DataInv

(* CleanupRequests answers the client. *)
LEMMA CleanupAnswerKeeps ==
    ASSUME SessionInv, NEW s \in Servers, CleanupAnswer(s), req[arg[s]].bound
    PROVE  SessionInv'
<1>i. /\ TypeOK /\ PlacesOK /\ LockHeld /\ ArgsHeld /\ DataInv /\ EndRefs /\ OneCloser
      /\ CutOff /\ WaitersAttended /\ SleepersAwaited
  BY DEF SessionInv, DataInv
<1>a. /\ arg[s] \in Requests /\ req[arg[s]].owner \in Clients /\ req[arg[s]].owner # s
      /\ s \in Threads /\ req[arg[s]].owner \in Threads
  <2>1. s \in Threads /\ s \notin Clients /\ Clients \subseteq Threads
    BY SessionAssumption DEF Threads
  <2>2. arg[s] # NoRequest
    BY <1>i, <2>1 DEF ArgsHeld, CleanupAnswer, Handling, Receiving
  <2> QED
    BY <2>1, <2>2, <1>i, HeldExists DEF DataInv
<1>f. /\ UNCHANGED <<state, list, current, mlock, refs, handles, req, created, arg, prev,
                     doomed, accepted, opened>>
      /\ (req[arg[s]].event => signals'[arg[s]] = signals[arg[s]] + 1)
      /\ (~ req[arg[s]].event => signals'[arg[s]] = signals[arg[s]])
      /\ \A r \in Requests : r # arg[s] => signals'[r] = signals[r]
      /\ signals' = [r \in Requests |-> signals'[r]]
  BY <1>i, <1>a, Typed DEF CleanupAnswer, Answer, Goto, queueVars, objectVars, clientVars
<1>p. /\ s \in Threads
      /\ pc[s] = "cleaning" /\ pc'[s] = "cleaned"
      /\ (~ req[arg[s]].event /\ req[arg[s]].owner \notin doomed =>
             pc'[req[arg[s]].owner] # "waiting")
      /\ \A u \in Threads \ {s} : pc'[u] = pc[u] \/ (pc[u] = "waiting" /\ pc'[u] = "sent")
      /\ pc' = [u \in Threads |-> pc'[u]]
  BY <1>a, <1>i DEF CleanupAnswer, Answer, Goto, PlacesOK, Threads
<1>m. /\ SameEnds(s) /\ SameRest(s) /\ pc[s] \notin Sending /\ pc'[s] \notin Sending
      /\ pc[s] \in Handling /\ pc'[s] \in Handling /\ pc[s] \notin Receiving
      /\ pc'[s] \notin Receiving /\ pc[s] \in Taken /\ pc'[s] \in Taken
      /\ pc[s] \in Answering /\ pc'[s] \notin Answering /\ pc[s] \notin ClientClosing
      /\ pc'[s] \notin ClientClosing
  BY <1>p DEF SameHand, SameEnds, SameRest, Sending, Receiving, ServerCalling, ClientLooking,
     ClientCleaning, ClientClosing, ServerCleaning, ServerClosing, Handling, LockedPlaces,
     Taken, Answering, ClientPlaces, ServerPlaces
<1>o. \A u \in Threads \ {s} : SamePlaces(u)
  BY <1>p, OthersStay DEF Others
<1>d. /\ Created /\ ListInjective /\ Exclusive /\ Unsent /\ RefCount
      /\ ThreadRefs /\ EventsSignalled
  BY <1>i DEF DataInv
<1>l. /\ \A x \in Clients : x \in Threads
      /\ \A x \in Servers : x \in Threads
      /\ \A u \in Threads \ {s} : pc[u] \notin Handling /\ pc'[u] \notin Handling
      /\ arg[s] \in Requests /\ arg[s] <= created /\ req[arg[s]].ref > 0
      /\ req[arg[s]].owner \in Clients /\ ~ InList(arg[s])
      /\ NoRequest \notin Requests /\ \A c \in Clients : pc[c] \in Sending => arg[c] \in Requests
      /\ arg[s] # current
  <2>1. /\ \A x \in Clients : x \in Threads
        /\ \A x \in Servers : x \in Threads
        /\ NoRequest \notin Requests
    BY SessionAssumption DEF Threads
  <2>2. \A u \in Threads \ {s} : pc[u] \notin Handling /\ pc'[u] \notin Handling
    BY <1>i, <1>p, <1>m, <1>o DEF LockHeld, LockedPlaces, SamePlaces, SameHand
  <2>3. \A c \in Clients : pc[c] \in Sending => arg[c] \in Requests
    BY <1>i, <2>1 DEF ArgsHeld, TypeOK
  <2>4. arg[s] # NoRequest /\ ~ InList(arg[s])
    BY <1>i, <1>d, <1>p, <1>m DEF ArgsHeld, Exclusive
  <2> QED
    BY <2>1, <2>2, <2>3, <2>4, <1>d, <1>i, <1>p, HeldExists, <1>m DEF Exclusive
<1>k. /\ pc[s] \in LockedPlaces
      /\ \A u \in Threads \ {s} : pc[u] \notin LockedPlaces /\ pc'[u] \notin LockedPlaces
  <2>1. pc[s] \in LockedPlaces
    BY <1>p DEF LockedPlaces, Handling, Receiving, ClientLooking
  <2> QED
    BY <2>1, <1>i, <1>p, <1>o DEF LockHeld, SamePlaces, SameRest
<1>n. \A r : InList(r)' <=> InList(r)
  BY <1>f, <1>l, <1>i, <1>d DEF InList, ListInjective, TypeOK
<1>s. \A r \in Requests : Sent(r)' <=> Sent(r)
  BY <1>f, <1>p, <1>m, <1>o, <1>l DEF Sent, SamePlaces, SameHand
<1>h. /\ \A r : Handled(r) <=> arg[s] = r
      /\ \A r : Handled(r)' <=> arg'[s] = r
      /\ \A r : Pending(r) <=> (InList(r) \/ current = r \/ arg[s] = r)
      /\ \A r : Pending(r)' <=> (InList(r)' \/ current' = r)
  BY <1>l, <1>p, <1>m, OneHand
<1>w. state' = "ServerClosed" /\ list' # <<>> => \E u \in Threads : pc'[u] \in ServerCleaning
  BY <1>i, <1>f, <1>p, <1>m, <1>o DEF WaitersAttended, SamePlaces, SameRest
<1>1. TypeOK'
  <2>0. signals \in [Requests -> Nat]
    BY <1>i DEF TypeOK
  <2>1. \A r \in Requests : signals'[r] \in Nat
    BY <2>0, <1>f
  <2>2. signals' \in [Requests -> Nat]
    BY <2>1, <1>f
  <2> QED
    BY <2>2, <1>i, <1>f DEF TypeOK
<1>2. PlacesOK'
  BY <1>i, <1>p, <1>m, <1>o, SessionAssumption DEF PlacesOK, SamePlaces, SameRest, Threads
<1>3. LockHeld'
  BY <1>i, <1>f, <1>p, <1>m, <1>o, SessionAssumption DEF LockHeld, TypeOK, SamePlaces,
     SameRest
<1>4. ArgsHeld'
  BY <1>i, <1>f, <1>p, <1>m, <1>o, <1>l DEF ArgsHeld, SamePlaces, SameHand
<1>5. Created'
  <2>1. \A r \in Requests : r > created => signals'[r] = signals[r]
    BY <1>f, <1>l, <1>i, Typed
  <2> QED
    BY <2>1, <1>i, <1>d, <1>f, <1>p, <1>m, <1>o, <1>l, CreatedStep DEF SamePlaces, SameHand
<1>6. ListInjective'
  BY <1>d, <1>f, <1>i DEF ListInjective, TypeOK
<1>7. Exclusive'
  BY <1>d, <1>f, <1>p, <1>m, <1>l, <1>n, <1>i, Listed, ExclusiveStep DEF Exclusive, TypeOK
<1>8. Unsent'
  BY <1>d, <1>f, <1>p, <1>m, <1>o, <1>l, <1>n, <1>i, UnsentStep DEF SamePlaces, SameHand
<1>9. RefCount'
  <2> SUFFICES ASSUME NEW r \in Requests
               PROVE  req'[r].ref = One(InList(r)') + One(current' = r) + One(Sent(r)')
                                    + One(Handled(r)')
    BY DEF RefCount
  <2>1. /\ req[r].ref = One(InList(r)) + One(current = r) + One(Sent(r)) + One(Handled(r))
        /\ req[r].ref \in Nat
    BY <1>d, <1>i, Typed DEF RefCount
  <2>2. /\ (InList(r)' <=> InList(r)) /\ (current' = r <=> current = r)
        /\ (Sent(r)' <=> Sent(r)) /\ (Handled(r)' <=> Handled(r))
        /\ req'[r].ref = req[r].ref
    BY <1>h, <1>s, <1>n, <1>l, <1>f, <1>p, <1>m, <1>i, <1>d DEF Exclusive, TypeOK
  <2> QED
    BY <2>1, <2>2 DEF One
<1>10. ThreadRefs'
  <2>1. \A c \in Clients : BoundTo(c)' = BoundTo(c)
    BY <1>f, <1>p, <1>m, <1>o, <1>l DEF BoundTo, SamePlaces, SameHand
  <2>2. \A c \in Clients : ReceivedFrom(c)' <=> ReceivedFrom(c)
    BY <1>f, <1>p, <1>m, <1>o, <1>l DEF ReceivedFrom, SamePlaces, SameHand
  <2> QED
    BY <1>d, <1>f, <2>1, <2>2 DEF ThreadRefs, One
<1>11. EventsSignalled'
  <2>1. ASSUME NEW r \in Requests
        PROVE  \/ /\ signals'[r] = signals[r]
                  /\ Pending(r)' => Pending(r)
                  /\ Pending(r) /\ req'[r].event => Pending(r)'
               \/ Pending(r) /\ ~ Pending(r)' /\ signals'[r] = signals[r] + 1
    <3>1. CASE r = arg[s]
      BY <3>1, <1>f, <1>l, <1>h, <1>n
    <3>2. CASE r # arg[s]
      BY <3>2, <1>f, <1>h, <1>n
    <3> QED
      BY <3>1, <3>2
  <2> QED
    BY <2>1, <1>i, <1>d, <1>f, EventsStep
<1>12. EndRefs'
  BY <1>i, <1>f, <1>m, <1>o, EndsKept DEF SamePlaces
<1>13. OneCloser'
  BY <1>i, <1>f, <1>m, <1>o, EndsKept DEF SamePlaces
<1>14. CutOff'
  BY <1>i, <1>f, <1>p, <1>m, <1>o, <1>l, <1>k DEF CutOff, SamePlaces, SameHand, SameEnds,
     SameRest
<1>15. WaitersAttended'
  <2>1. ASSUME NEW c \in Clients, pc[c] = "waiting", pc'[c] = "waiting", Pending(arg[c])
        PROVE  Pending(arg[c])' /\ (req'[arg[c]].event => req[arg[c]].event)
    <3>1. /\ ~ req[arg[c]].event /\ c \notin doomed
          /\ arg[c] \in Requests /\ req[arg[c]].owner = c
      BY <2>1, <1>i, <1>d, <1>l DEF WaitersAttended, Created, Sending
    <3>2. arg[c] # arg[s]
      BY <2>1, <3>1, <1>p
    <3> QED
      BY <2>1, <3>2, <1>f, <1>h, <1>n
  <2> QED
    BY <2>1, <1>i, <1>f, <1>p, <1>m, <1>o, <1>w, WaitersStep DEF SamePlaces, SameRest
<1>16. SleepersAwaited'
  BY <1>i, <1>f, <1>p, <1>m, <1>o, <1>l DEF SleepersAwaited, IsClosed, SamePlaces, SameHand,
     SameRest
<1> QED
  BY <1>1, <1>2, <1>3, <1>4, <1>5, <1>6, <1>7, <1>8, <1>9, <1>10, <1>11, <1>12, <1>13, <1>14,
     <1>15, <1>16 DEF SessionInv, DataInv

(* CleanupRequests finds a request cut off from its client. *)
LEMMA CleanupAnswerNobody ==
    ASSUME SessionInv, NEW s \in Servers, CleanupAnswer(s), ~ req[arg[s]].bound
    PROVE  SessionInv'
<1>i. /\ TypeOK /\ PlacesOK /\ LockHeld /\ ArgsHeld /\ DataInv /\ EndRefs /\ OneCloser
      /\ CutOff /\ WaitersAttended /\ SleepersAwaited
  BY DEF SessionInv, DataInv
<1>f. /\ UNCHANGED <<state, list, current, mlock, refs, handles, req, created, arg, prev,
                     doomed, accepted, opened, signals>>
  BY DEF CleanupAnswer, Goto, queueVars, objectVars, clientVars
<1>p. /\ s \in Threads
      /\ pc[s] = "cleaning" /\ pc'[s] = "cleaned"
      /\ \A u \in Threads \ {s} : pc'[u] = pc[u]
      /\ pc' = [u \in Threads |-> pc'[u]]
  BY <1>i DEF CleanupAnswer, Goto, PlacesOK, Threads
<1>m. /\ SameEnds(s) /\ SameRest(s) /\ pc[s] \notin Sending /\ pc'[s] \notin Sending
      /\ pc[s] \in Handling /\ pc'[s] \in Handling /\ pc[s] \notin Receiving
      /\ pc'[s] \notin Receiving /\ pc[s] \in Taken /\ pc'[s] \in Taken
      /\ pc[s] \in Answering /\ pc'[s] \notin Answering /\ pc[s] \notin ClientClosing
      /\ pc'[s] \notin ClientClosing
  BY <1>p DEF SameHand, SameEnds, SameRest, Sending, Receiving, ServerCalling, ClientLooking,
     ClientCleaning, ClientClosing, ServerCleaning, ServerClosing, Handling, LockedPlaces,
     Taken, Answering, ClientPlaces, ServerPlaces
<1>o. \A u \in Threads \ {s} : SamePlaces(u)
  BY <1>p, OthersStay DEF Others
<1>d. /\ Created /\ ListInjective /\ Exclusive /\ Unsent /\ RefCount
      /\ ThreadRefs /\ EventsSignalled
  BY <1>i DEF DataInv
<1>l. /\ \A x \in Clients : x \in Threads
      /\ \A x \in Servers : x \in Threads
      /\ \A u \in Threads \ {s} : pc[u] \notin Handling /\ pc'[u] \notin Handling
      /\ arg[s] \in Requests /\ arg[s] <= created /\ req[arg[s]].ref > 0
      /\ req[arg[s]].owner \in Clients /\ ~ InList(arg[s])
      /\ NoRequest \notin Requests /\ \A c \in Clients : pc[c] \in Sending => arg[c] \in Requests
      /\ ~ req[arg[s]].event /\ arg[s] # current /\ \A c \in Clients : pc[c] \notin Sending
  <2>1. /\ \A x \in Clients : x \in Threads
        /\ \A x \in Servers : x \in Threads
        /\ NoRequest \notin Requests
    BY SessionAssumption DEF Threads
  <2>2. \A u \in Threads \ {s} : pc[u] \notin Handling /\ pc'[u] \notin Handling
    BY <1>i, <1>p, <1>m, <1>o DEF LockHeld, LockedPlaces, SamePlaces, SameHand
  <2>3. \A c \in Clients : pc[c] \in Sending => arg[c] \in Requests
    BY <1>i, <2>1 DEF ArgsHeld, TypeOK
  <2>4. arg[s] # NoRequest /\ ~ InList(arg[s])
    BY <1>i, <1>d, <1>p, <1>m DEF ArgsHeld, Exclusive
  <2> QED
    BY <2>1, <2>2, <2>3, <2>4, <1>d, <1>i, <1>p, HeldExists, <1>m, CountsPositive, Typed DEF
       CutOff, Exclusive
<1>k. /\ pc[s] \in LockedPlaces
      /\ \A u \in Threads \ {s} : pc[u] \notin LockedPlaces /\ pc'[u] \notin LockedPlaces
  <2>1. pc[s] \in LockedPlaces
    BY <1>p DEF LockedPlaces, Handling, Receiving, ClientLooking
  <2> QED
    BY <2>1, <1>i, <1>p, <1>o DEF LockHeld, SamePlaces, SameRest
<1>n. \A r : InList(r)' <=> InList(r)
  BY <1>f, <1>l, <1>i, <1>d DEF InList, ListInjective, TypeOK
<1>s. \A r \in Requests : Sent(r)' <=> Sent(r)
  BY <1>f, <1>p, <1>m, <1>o, <1>l DEF Sent, SamePlaces, SameHand
<1>h. /\ \A r : Handled(r) <=> arg[s] = r
      /\ \A r : Handled(r)' <=> arg'[s] = r
      /\ \A r : Pending(r) <=> (InList(r) \/ current = r \/ arg[s] = r)
      /\ \A r : Pending(r)' <=> (InList(r)' \/ current' = r)
  BY <1>l, <1>p, <1>m, OneHand
<1>w. state' = "ServerClosed" /\ list' # <<>> => \E u \in Threads : pc'[u] \in ServerCleaning
  BY <1>i, <1>f, <1>p, <1>m, <1>o DEF WaitersAttended, SamePlaces, SameRest
<1>1. TypeOK'
  BY <1>i, <1>f, <1>l DEF TypeOK
<1>2. PlacesOK'
  BY <1>i, <1>p, <1>m, <1>o, SessionAssumption DEF PlacesOK, SamePlaces, SameRest, Threads
<1>3. LockHeld'
  BY <1>i, <1>f, <1>p, <1>m, <1>o, SessionAssumption DEF LockHeld, TypeOK, SamePlaces,
     SameRest
<1>4. ArgsHeld'
  BY <1>i, <1>f, <1>p, <1>m, <1>o, <1>l DEF ArgsHeld, SamePlaces, SameHand
<1>5. Created'
  BY <1>i, <1>d, <1>f, <1>p, <1>m, <1>o, <1>l, CreatedStep DEF SamePlaces, SameHand
<1>6. ListInjective'
  BY <1>d, <1>f, <1>i DEF ListInjective, TypeOK
<1>7. Exclusive'
  BY <1>d, <1>f, <1>p, <1>m, <1>l, <1>n, <1>i, Listed, ExclusiveStep DEF Exclusive, TypeOK
<1>8. Unsent'
  BY <1>d, <1>f, <1>p, <1>m, <1>o, <1>l, <1>n, <1>i, UnsentStep DEF SamePlaces, SameHand
<1>9. RefCount'
  <2> SUFFICES ASSUME NEW r \in Requests
               PROVE  req'[r].ref = One(InList(r)') + One(current' = r) + One(Sent(r)')
                                    + One(Handled(r)')
    BY DEF RefCount
  <2>1. /\ req[r].ref = One(InList(r)) + One(current = r) + One(Sent(r)) + One(Handled(r))
        /\ req[r].ref \in Nat
    BY <1>d, <1>i, Typed DEF RefCount
  <2>2. /\ (InList(r)' <=> InList(r)) /\ (current' = r <=> current = r)
        /\ (Sent(r)' <=> Sent(r)) /\ (Handled(r)' <=> Handled(r))
        /\ req'[r].ref = req[r].ref
    BY <1>h, <1>s, <1>n, <1>l, <1>f, <1>p, <1>m, <1>i, <1>d DEF Exclusive, TypeOK
  <2> QED
    BY <2>1, <2>2 DEF One
<1>10. ThreadRefs'
  <2>1. \A c \in Clients : BoundTo(c)' = BoundTo(c)
    BY <1>f, <1>p, <1>m, <1>o, <1>l DEF BoundTo, SamePlaces, SameHand
  <2>2. \A c \in Clients : ReceivedFrom(c)' <=> ReceivedFrom(c)
    BY <1>f, <1>p, <1>m, <1>o, <1>l DEF ReceivedFrom, SamePlaces, SameHand
  <2> QED
    BY <1>d, <1>f, <2>1, <2>2 DEF ThreadRefs, One
<1>11. EventsSignalled'
  <2>1. ASSUME NEW r \in Requests
        PROVE  /\ signals'[r] = signals[r]
               /\ Pending(r)' => Pending(r)
               /\ Pending(r) /\ req'[r].event => Pending(r)'
    BY <1>f, <1>l, <1>h, <1>n
  <2> QED
    BY <2>1, <1>i, <1>d, <1>f, EventsStep
<1>12. EndRefs'
  BY <1>i, <1>f, <1>m, <1>o, EndsKept DEF SamePlaces
<1>13. OneCloser'
  BY <1>i, <1>f, <1>m, <1>o, EndsKept DEF SamePlaces
<1>14. CutOff'
  BY <1>i, <1>f, <1>p, <1>m, <1>o, <1>l, <1>k DEF CutOff, SamePlaces, SameHand, SameEnds,
     SameRest
<1>15. WaitersAttended'
  BY <1>i, <1>f, <1>p, <1>m, <1>o, <1>l, <1>h, <1>n, <1>w, WaitersStep DEF SamePlaces,
     SameRest, Sending
<1>16. SleepersAwaited'
  BY <1>i, <1>f, <1>p, <1>m, <1>o, <1>l DEF SleepersAwaited, IsClosed, SamePlaces, SameHand,
     SameRest
<1> QED
  BY <1>1, <1>2, <1>3, <1>4, <1>5, <1>6, <1>7, <1>8, <1>9, <1>10, <1>11, <1>12, <1>13, <1>14,
     <1>15, <1>16 DEF SessionInv, DataInv

-----------------------------------------------------------------------------
(* Cleaning up, and OnClientClosed. *)
(* CleanupRequests takes the current request. *)
LEMMA CleanupTakeCurrent ==
    ASSUME SessionInv, NEW t \in Threads, CleanupTake(t), current # NoRequest
    PROVE  SessionInv'
<1>i. /\ TypeOK /\ PlacesOK /\ LockHeld /\ ArgsHeld /\ DataInv /\ EndRefs /\ OneCloser
      /\ CutOff /\ WaitersAttended /\ SleepersAwaited
  BY DEF SessionInv, DataInv
<1>f. /\ UNCHANGED <<state, list, mlock, refs, handles, req, created, prev, doomed,
                     accepted, opened, signals>>
      /\ current # NoRequest /\ current' = NoRequest
      /\ arg'[t] = current /\ arg' = [u \in Threads |-> arg'[u]]
      /\ \A u \in Threads \ {t} : arg'[u] = arg[u]
  BY <1>i, Typed DEF CleanupTake, Goto, Threads, queueVars, objectVars, clientVars
<1>p. /\ t \in Threads
      /\ pc[t] = "server_cleanup_locked" /\ pc'[t] = "cleaning"
      /\ \A u \in Threads \ {t} : pc'[u] = pc[u]
      /\ pc' = [u \in Threads |-> pc'[u]]
  BY <1>i DEF CleanupTake, Goto, Threads, PlacesOK, Threads
<1>m. /\ SameEnds(t) /\ SameRest(t) /\ pc[t] \notin Sending /\ pc'[t] \notin Sending
      /\ pc[t] \notin Handling /\ pc'[t] \in Handling /\ pc[t] \notin Receiving
      /\ pc'[t] \notin Receiving /\ pc[t] \notin Taken /\ pc'[t] \in Taken
      /\ pc[t] \notin Answering /\ pc'[t] \in Answering /\ pc[t] \notin ClientClosing
      /\ pc'[t] \notin ClientClosing
  BY <1>p DEF SameHand, SameEnds, SameRest, Sending, Receiving, ServerCalling, ClientLooking,
     ClientCleaning, ClientClosing, ServerCleaning, ServerClosing, Handling, LockedPlaces,
     Taken, Answering, ClientPlaces, ServerPlaces
<1>o. \A u \in Threads \ {t} : SamePlaces(u)
  BY <1>p, OthersStay DEF Others
<1>d. /\ Created /\ ListInjective /\ Exclusive /\ Unsent /\ RefCount
      /\ ThreadRefs /\ EventsSignalled
  BY <1>i DEF DataInv
<1>l. /\ \A x \in Clients : x \in Threads
      /\ \A x \in Servers : x \in Threads
      /\ \A u \in Threads \ {t} : pc[u] \notin Handling /\ pc'[u] \notin Handling
      /\ arg[t] = NoRequest
      /\ NoRequest \notin Requests /\ \A c \in Clients : pc[c] \in Sending => arg[c] \in Requests
      /\ current \in Requests /\ ~ InList(current)
      /\ \A x \in Servers : pc[x] # "asleep"
  <2>1. /\ \A x \in Clients : x \in Threads
        /\ \A x \in Servers : x \in Threads
        /\ NoRequest \notin Requests
    BY SessionAssumption DEF Threads
  <2>2. \A u \in Threads \ {t} : pc[u] \notin Handling /\ pc'[u] \notin Handling
    BY <1>i, <1>p, <1>m, <1>o DEF LockHeld, LockedPlaces, SamePlaces, SameHand
  <2>3. \A c \in Clients : pc[c] \in Sending => arg[c] \in Requests
    BY <1>i, <2>1 DEF ArgsHeld, TypeOK
  <2>4. arg[t] = NoRequest
    BY <1>i, <1>p, <1>m DEF ArgsHeld
  <2> QED
    BY <2>1, <2>2, <2>3, <2>4, <1>d, <1>i, <1>p, HeldExists, <1>f, Typed, CountsPositive DEF
       Exclusive, ServerClosing, ServerCleaning, ServerCalling, OneCloser
<1>k. /\ pc[t] \in LockedPlaces
      /\ \A u \in Threads \ {t} : pc[u] \notin LockedPlaces /\ pc'[u] \notin LockedPlaces
  <2>1. pc[t] \in LockedPlaces
    BY <1>p DEF LockedPlaces, Handling, Receiving, ClientLooking
  <2> QED
    BY <2>1, <1>i, <1>p, <1>o DEF LockHeld, SamePlaces, SameRest
<1>n. \A r : InList(r)' <=> InList(r)
  BY <1>f, <1>l, <1>i, <1>d DEF InList, ListInjective, TypeOK
<1>s. \A r \in Requests : Sent(r)' <=> Sent(r)
  BY <1>f, <1>p, <1>m, <1>o, <1>l DEF Sent, SamePlaces, SameHand
<1>h. /\ \A r : Handled(r) <=> FALSE
      /\ \A r : Handled(r)' <=> arg'[t] = r
      /\ \A r : Pending(r) <=> (InList(r) \/ current = r)
      /\ \A r : Pending(r)' <=> (InList(r)' \/ current' = r \/ arg'[t] = r)
  BY <1>l, <1>p, <1>m, OneHand
<1>w. state' = "ServerClosed" /\ list' # <<>> => \E u \in Threads : pc'[u] \in ServerCleaning
  BY <1>i, <1>f, <1>p, <1>m, <1>o DEF WaitersAttended, SamePlaces, SameRest
<1>1. TypeOK'
  BY <1>i, <1>f, <1>l DEF TypeOK
<1>2. PlacesOK'
  BY <1>i, <1>p, <1>m, <1>o, SessionAssumption DEF PlacesOK, SamePlaces, SameRest, Threads
<1>3. LockHeld'
  BY <1>i, <1>f, <1>p, <1>m, <1>o, SessionAssumption DEF LockHeld, TypeOK, SamePlaces,
     SameRest
<1>4. ArgsHeld'
  BY <1>i, <1>f, <1>p, <1>m, <1>o, <1>l DEF ArgsHeld, SamePlaces, SameHand
<1>5. Created'
  BY <1>i, <1>d, <1>f, <1>p, <1>m, <1>o, <1>l, CreatedStep DEF SamePlaces, SameHand
<1>6. ListInjective'
  BY <1>d, <1>f, <1>i DEF ListInjective, TypeOK
<1>7. Exclusive'
  BY <1>d, <1>f, <1>p, <1>m, <1>l, <1>n, <1>i, Listed, ExclusiveStep DEF Exclusive, TypeOK
<1>8. Unsent'
  BY <1>d, <1>f, <1>p, <1>m, <1>o, <1>l, <1>n, <1>i, UnsentStep DEF SamePlaces, SameHand
<1>9. RefCount'
  <2> SUFFICES ASSUME NEW r \in Requests
               PROVE  req'[r].ref = One(InList(r)') + One(current' = r) + One(Sent(r)')
                                    + One(Handled(r)')
    BY DEF RefCount
  <2>1. /\ req[r].ref = One(InList(r)) + One(current = r) + One(Sent(r)) + One(Handled(r))
        /\ req[r].ref \in Nat
    BY <1>d, <1>i, Typed DEF RefCount
  <2>2. CASE r = current
    <3>1. /\ (InList(r)' <=> InList(r)) /\ current = r /\ current' # r
          /\ (Sent(r)' <=> Sent(r)) /\ ~ Handled(r) /\ Handled(r)'
          /\ req'[r].ref = req[r].ref
      BY <2>2, <1>h, <1>s, <1>n, <1>l, <1>f, <1>p, <1>m, <1>i, <1>d DEF Exclusive, TypeOK
    <3> QED
      BY <2>1, <3>1 DEF One
  <2>3. CASE r # current
    <3>1. /\ (InList(r)' <=> InList(r)) /\ (current' = r <=> current = r)
          /\ (Sent(r)' <=> Sent(r)) /\ (Handled(r)' <=> Handled(r))
          /\ req'[r].ref = req[r].ref
      BY <2>3, <1>h, <1>s, <1>n, <1>l, <1>f, <1>p, <1>m, <1>i, <1>d DEF Exclusive, TypeOK
    <3> QED
      BY <2>1, <3>1 DEF One
  <2> QED
    BY <2>2, <2>3
<1>10. ThreadRefs'
  <2>1. \A c \in Clients : BoundTo(c)' = BoundTo(c)
    BY <1>f, <1>p, <1>m, <1>o, <1>l DEF BoundTo, SamePlaces, SameHand
  <2>2. \A c \in Clients : ReceivedFrom(c)' <=> ReceivedFrom(c)
    BY <1>f, <1>p, <1>m, <1>o, <1>l DEF ReceivedFrom, SamePlaces, SameHand
  <2> QED
    BY <1>d, <1>f, <2>1, <2>2 DEF ThreadRefs, One
<1>11. EventsSignalled'
  BY <1>i, <1>d, <1>f, <1>p, <1>h, <1>n, <1>l, EventsStep
<1>12. EndRefs'
  BY <1>i, <1>f, <1>m, <1>o, EndsKept DEF SamePlaces
<1>13. OneCloser'
  BY <1>i, <1>f, <1>m, <1>o, EndsKept DEF SamePlaces
<1>14. CutOff'
  BY <1>i, <1>f, <1>p, <1>m, <1>o, <1>l, <1>k DEF CutOff, SamePlaces, SameHand, SameEnds,
     SameRest
<1>15. WaitersAttended'
  BY <1>i, <1>f, <1>p, <1>m, <1>o, <1>l, <1>h, <1>n, <1>w, WaitersStep DEF SamePlaces,
     SameRest, Sending
<1>16. SleepersAwaited'
  BY <1>i, <1>f, <1>p, <1>m, <1>o, <1>l DEF SleepersAwaited, IsClosed, SamePlaces, SameHand,
     SameRest
<1> QED
  BY <1>1, <1>2, <1>3, <1>4, <1>5, <1>6, <1>7, <1>8, <1>9, <1>10, <1>11, <1>12, <1>13, <1>14,
     <1>15, <1>16 DEF SessionInv, DataInv

(* CleanupRequests takes a queued request. *)
LEMMA CleanupTakeQueued ==
    ASSUME SessionInv, NEW t \in Threads, CleanupTake(t), current = NoRequest
    PROVE  SessionInv'
<1>i. /\ TypeOK /\ PlacesOK /\ LockHeld /\ ArgsHeld /\ DataInv /\ EndRefs /\ OneCloser
      /\ CutOff /\ WaitersAttended /\ SleepersAwaited
  BY DEF SessionInv, DataInv
<1>f. /\ UNCHANGED <<state, current, mlock, refs, handles, req, created, prev, doomed,
                     accepted, opened, signals>>
      /\ list # <<>> /\ current = NoRequest /\ list' = Tail(list)
      /\ arg'[t] = Head(list) /\ arg' = [u \in Threads |-> arg'[u]]
      /\ \A u \in Threads \ {t} : arg'[u] = arg[u]
  BY <1>i, Typed DEF CleanupTake, Goto, Threads, queueVars, objectVars, clientVars
<1>p. /\ t \in Threads
      /\ pc[t] = "server_cleanup_locked" /\ pc'[t] = "cleaning"
      /\ \A u \in Threads \ {t} : pc'[u] = pc[u]
      /\ pc' = [u \in Threads |-> pc'[u]]
  BY <1>i DEF CleanupTake, Goto, Threads, PlacesOK, Threads
<1>m. /\ SameEnds(t) /\ SameRest(t) /\ pc[t] \notin Sending /\ pc'[t] \notin Sending
      /\ pc[t] \notin Handling /\ pc'[t] \in Handling /\ pc[t] \notin Receiving
      /\ pc'[t] \notin Receiving /\ pc[t] \notin Taken /\ pc'[t] \in Taken
      /\ pc[t] \notin Answering /\ pc'[t] \in Answering /\ pc[t] \notin ClientClosing
      /\ pc'[t] \notin ClientClosing
  BY <1>p DEF SameHand, SameEnds, SameRest, Sending, Receiving, ServerCalling, ClientLooking,
     ClientCleaning, ClientClosing, ServerCleaning, ServerClosing, Handling, LockedPlaces,
     Taken, Answering, ClientPlaces, ServerPlaces
<1>o. \A u \in Threads \ {t} : SamePlaces(u)
  BY <1>p, OthersStay DEF Others
<1>d. /\ Created /\ ListInjective /\ Exclusive /\ Unsent /\ RefCount
      /\ ThreadRefs /\ EventsSignalled
  BY <1>i DEF DataInv
<1>l. /\ \A x \in Clients : x \in Threads
      /\ \A x \in Servers : x \in Threads
      /\ \A u \in Threads \ {t} : pc[u] \notin Handling /\ pc'[u] \notin Handling
      /\ arg[t] = NoRequest
      /\ NoRequest \notin Requests /\ \A c \in Clients : pc[c] \in Sending => arg[c] \in Requests
      /\ Head(list) \in Requests /\ Head(list) <= created /\ req[Head(list)].ref > 0
      /\ req[Head(list)].owner \in Clients /\ InList(Head(list)) /\ Head(list) # current
      /\ \A x \in Servers : pc[x] # "asleep"
  <2>1. /\ \A x \in Clients : x \in Threads
        /\ \A x \in Servers : x \in Threads
        /\ NoRequest \notin Requests
    BY SessionAssumption DEF Threads
  <2>2. \A u \in Threads \ {t} : pc[u] \notin Handling /\ pc'[u] \notin Handling
    BY <1>i, <1>p, <1>m, <1>o DEF LockHeld, LockedPlaces, SamePlaces, SameHand
  <2>3. \A c \in Clients : pc[c] \in Sending => arg[c] \in Requests
    BY <1>i, <2>1 DEF ArgsHeld, TypeOK
  <2>4. arg[t] = NoRequest
    BY <1>i, <1>p, <1>m DEF ArgsHeld
  <2>5. /\ Head(list) \in Requests /\ InList(Head(list))
    BY <1>f, <1>i, <1>d, ListTail DEF InList, ListInjective, TypeOK
  <2>6. Head(list) # current
    BY <2>5, <1>d DEF Exclusive
  <2>7. \A x \in Servers : pc[x] # "asleep"
    BY <1>i, <1>p, Typed, CountsPositive DEF ServerClosing, ServerCleaning, ServerCalling,
       OneCloser
  <2> QED
    BY <2>1, <2>2, <2>3, <2>4, <2>5, <2>6, <2>7, <1>d, <1>i, <1>p, HeldExists
<1>k. /\ pc[t] \in LockedPlaces
      /\ \A u \in Threads \ {t} : pc[u] \notin LockedPlaces /\ pc'[u] \notin LockedPlaces
  <2>1. pc[t] \in LockedPlaces
    BY <1>p DEF LockedPlaces, Handling, Receiving, ClientLooking
  <2> QED
    BY <2>1, <1>i, <1>p, <1>o DEF LockHeld, SamePlaces, SameRest
<1>n. \A r : InList(r)' <=> (InList(r) /\ r # Head(list))
  BY <1>f, <1>l, <1>i, <1>d, ListTail DEF InList, ListInjective, TypeOK
<1>s. \A r \in Requests : Sent(r)' <=> Sent(r)
  BY <1>f, <1>p, <1>m, <1>o, <1>l DEF Sent, SamePlaces, SameHand
<1>h. /\ \A r : Handled(r) <=> FALSE
      /\ \A r : Handled(r)' <=> arg'[t] = r
      /\ \A r : Pending(r) <=> (InList(r) \/ current = r)
      /\ \A r : Pending(r)' <=> (InList(r)' \/ current' = r \/ arg'[t] = r)
  BY <1>l, <1>p, <1>m, OneHand
<1>w. state' = "ServerClosed" /\ list' # <<>> => \E u \in Threads : pc'[u] \in ServerCleaning
  BY <1>i, <1>f, <1>p, <1>m, <1>o, ListTail DEF WaitersAttended, SamePlaces, SameRest
<1>1. TypeOK'
  <2>1. list' \in Seq(Requests)
    BY <1>i, <1>f, <1>l, <1>d, ListTail DEF TypeOK, ListInjective
  <2>4. \A u \in Threads : arg'[u] \in Requests \cup {NoRequest}
    BY <1>i, <1>f, <1>l DEF TypeOK
  <2>5. arg' \in [Threads -> Requests \cup {NoRequest}]
    BY <2>4, <1>f
  <2> QED
    BY <2>1, <2>5, <1>i, <1>f, <1>l DEF TypeOK
<1>2. PlacesOK'
  BY <1>i, <1>p, <1>m, <1>o, SessionAssumption DEF PlacesOK, SamePlaces, SameRest, Threads
<1>3. LockHeld'
  BY <1>i, <1>f, <1>p, <1>m, <1>o, SessionAssumption DEF LockHeld, TypeOK, SamePlaces,
     SameRest
<1>4. ArgsHeld'
  BY <1>i, <1>f, <1>p, <1>m, <1>o, <1>l DEF ArgsHeld, SamePlaces, SameHand
<1>5. Created'
  BY <1>i, <1>d, <1>f, <1>p, <1>m, <1>o, <1>l, CreatedStep DEF SamePlaces, SameHand
<1>6. ListInjective'
  BY <1>d, <1>f, <1>i, ListTail DEF ListInjective, TypeOK
<1>7. Exclusive'
  BY <1>d, <1>f, <1>p, <1>m, <1>l, <1>n, <1>i, Listed, ExclusiveStep, ListTail DEF Exclusive,
     TypeOK
<1>8. Unsent'
  BY <1>d, <1>f, <1>p, <1>m, <1>o, <1>l, <1>n, <1>i, UnsentStep DEF SamePlaces, SameHand
<1>9. RefCount'
  <2> SUFFICES ASSUME NEW r \in Requests
               PROVE  req'[r].ref = One(InList(r)') + One(current' = r) + One(Sent(r)')
                                    + One(Handled(r)')
    BY DEF RefCount
  <2>1. /\ req[r].ref = One(InList(r)) + One(current = r) + One(Sent(r)) + One(Handled(r))
        /\ req[r].ref \in Nat
    BY <1>d, <1>i, Typed DEF RefCount
  <2>2. CASE r = Head(list)
    <3>1. /\ InList(r) /\ ~ InList(r)' /\ current # r /\ current' # r
          /\ (Sent(r)' <=> Sent(r)) /\ ~ Handled(r) /\ Handled(r)'
          /\ req'[r].ref = req[r].ref
      BY <2>2, <1>h, <1>s, <1>n, <1>l, <1>f, <1>p, <1>m, <1>i, <1>d DEF Exclusive, TypeOK
    <3> QED
      BY <2>1, <3>1 DEF One
  <2>3. CASE r # Head(list)
    <3>1. /\ (InList(r)' <=> InList(r)) /\ (current' = r <=> current = r)
          /\ (Sent(r)' <=> Sent(r)) /\ (Handled(r)' <=> Handled(r))
          /\ req'[r].ref = req[r].ref
      BY <2>3, <1>h, <1>s, <1>n, <1>l, <1>f, <1>p, <1>m, <1>i, <1>d DEF Exclusive, TypeOK
    <3> QED
      BY <2>1, <3>1 DEF One
  <2> QED
    BY <2>2, <2>3
<1>10. ThreadRefs'
  <2>1. \A c \in Clients : BoundTo(c)' = BoundTo(c)
    BY <1>f, <1>p, <1>m, <1>o, <1>l DEF BoundTo, SamePlaces, SameHand
  <2>2. \A c \in Clients : ReceivedFrom(c)' <=> ReceivedFrom(c)
    BY <1>f, <1>p, <1>m, <1>o, <1>l DEF ReceivedFrom, SamePlaces, SameHand
  <2> QED
    BY <1>d, <1>f, <2>1, <2>2 DEF ThreadRefs, One
<1>11. EventsSignalled'
  BY <1>i, <1>d, <1>f, <1>p, <1>h, <1>n, <1>l, EventsStep
<1>12. EndRefs'
  BY <1>i, <1>f, <1>m, <1>o, EndsKept DEF SamePlaces
<1>13. OneCloser'
  BY <1>i, <1>f, <1>m, <1>o, EndsKept DEF SamePlaces
<1>14. CutOff'
  BY <1>i, <1>f, <1>p, <1>m, <1>o, <1>l, <1>k DEF CutOff, SamePlaces, SameHand, SameEnds,
     SameRest
<1>15. WaitersAttended'
  BY <1>i, <1>f, <1>p, <1>m, <1>o, <1>l, <1>h, <1>n, <1>w, WaitersStep DEF SamePlaces,
     SameRest, Sending
<1>16. SleepersAwaited'
  BY <1>i, <1>f, <1>p, <1>m, <1>o, <1>l, ListTail DEF SleepersAwaited, IsClosed, SamePlaces,
     SameHand, SameRest
<1> QED
  BY <1>1, <1>2, <1>3, <1>4, <1>5, <1>6, <1>7, <1>8, <1>9, <1>10, <1>11, <1>12, <1>13, <1>14,
     <1>15, <1>16 DEF SessionInv, DataInv

(* OnClientClosed takes a queued request. *)
LEMMA ClientClosedPopKeeps ==
    ASSUME SessionInv, NEW t \in Threads, ClientClosedPop(t)
    PROVE  SessionInv'
<1>i. /\ TypeOK /\ PlacesOK /\ LockHeld /\ ArgsHeld /\ DataInv /\ EndRefs /\ OneCloser
      /\ CutOff /\ WaitersAttended /\ SleepersAwaited
  BY DEF SessionInv, DataInv
<1>f. /\ UNCHANGED <<state, current, mlock, refs, handles, req, created, prev, doomed,
                     accepted, opened, signals>>
      /\ list # <<>> /\ list' = Tail(list)
      /\ arg'[t] = Head(list) /\ arg' = [u \in Threads |-> arg'[u]]
      /\ \A u \in Threads \ {t} : arg'[u] = arg[u]
  BY <1>i, Typed DEF ClientClosedPop, Goto, Threads, queueVars, objectVars, clientVars
<1>p. /\ t \in Threads
      /\ pc[t] = "client_cleanup_locked" /\ pc'[t] \in {"looked_at", "refusing"}
      /\ (req[Head(list)].event => pc'[t] = "refusing")
      /\ \A u \in Threads \ {t} : pc'[u] = pc[u]
      /\ pc' = [u \in Threads |-> pc'[u]]
  BY <1>i DEF ClientClosedPop, Goto, Threads, PlacesOK, Threads
<1>m. /\ SameEnds(t) /\ SameRest(t) /\ pc[t] \notin Sending /\ pc'[t] \notin Sending
      /\ pc[t] \notin Handling /\ pc'[t] \in Handling /\ pc[t] \notin Receiving
      /\ pc'[t] \notin Receiving /\ pc[t] \notin Taken /\ pc[t] \notin Answering
      /\ pc[t] \in ClientClosing /\ pc'[t] \in ClientClosing /\ pc'[t] # "received"
      /\ pc'[t] # "receiving" /\ pc'[t] # "cut_off" /\ pc'[t] # "send" /\ pc'[t] # "asleep"
      /\ pc'[t] # "waiting"
  BY <1>p DEF SameHand, SameEnds, SameRest, Sending, Receiving, ServerCalling, ClientLooking,
     ClientCleaning, ClientClosing, ServerCleaning, ServerClosing, Handling, LockedPlaces,
     Taken, Answering, ClientPlaces, ServerPlaces
<1>o. \A u \in Threads \ {t} : SamePlaces(u)
  BY <1>p, OthersStay DEF Others
<1>d. /\ Created /\ ListInjective /\ Exclusive /\ Unsent /\ RefCount
      /\ ThreadRefs /\ EventsSignalled
  BY <1>i DEF DataInv
<1>l. /\ \A x \in Clients : x \in Threads
      /\ \A x \in Servers : x \in Threads
      /\ \A u \in Threads \ {t} : pc[u] \notin Handling /\ pc'[u] \notin Handling
      /\ arg[t] = NoRequest
      /\ NoRequest \notin Requests /\ \A c \in Clients : pc[c] \in Sending => arg[c] \in Requests
      /\ Head(list) \in Requests /\ Head(list) <= created /\ req[Head(list)].ref > 0
      /\ req[Head(list)].owner \in Clients /\ InList(Head(list)) /\ Head(list) # current
      /\ \A c \in Clients : pc[c] \notin Sending
  <2>1. /\ \A x \in Clients : x \in Threads
        /\ \A x \in Servers : x \in Threads
        /\ NoRequest \notin Requests
    BY SessionAssumption DEF Threads
  <2>2. \A u \in Threads \ {t} : pc[u] \notin Handling /\ pc'[u] \notin Handling
    BY <1>i, <1>p, <1>m, <1>o DEF LockHeld, LockedPlaces, SamePlaces, SameHand
  <2>3. \A c \in Clients : pc[c] \in Sending => arg[c] \in Requests
    BY <1>i, <2>1 DEF ArgsHeld, TypeOK
  <2>4. arg[t] = NoRequest
    BY <1>i, <1>p, <1>m DEF ArgsHeld
  <2>5. /\ Head(list) \in Requests /\ InList(Head(list))
    BY <1>f, <1>i, <1>d, ListTail DEF InList, ListInjective, TypeOK
  <2>6. Head(list) # current
    BY <2>5, <1>d DEF Exclusive
  <2>7. \A c \in Clients : pc[c] \notin Sending
    BY <1>i, <1>p, Typed, CountsPositive DEF ClientClosing, ClientCleaning, OneCloser,
       Exclusive
  <2> QED
    BY <2>1, <2>2, <2>3, <2>4, <2>5, <2>6, <2>7, <1>d, <1>i, <1>p, HeldExists
<1>k. /\ pc[t] \in LockedPlaces
      /\ \A u \in Threads \ {t} : pc[u] \notin LockedPlaces /\ pc'[u] \notin LockedPlaces
  <2>1. pc[t] \in LockedPlaces
    BY <1>p DEF LockedPlaces, Handling, Receiving, ClientLooking
  <2> QED
    BY <2>1, <1>i, <1>p, <1>o DEF LockHeld, SamePlaces, SameRest
<1>n. \A r : InList(r)' <=> (InList(r) /\ r # Head(list))
  BY <1>f, <1>l, <1>i, <1>d, ListTail DEF InList, ListInjective, TypeOK
<1>s. \A r \in Requests : Sent(r)' <=> Sent(r)
  BY <1>f, <1>p, <1>m, <1>o, <1>l DEF Sent, SamePlaces, SameHand
<1>h. /\ \A r : Handled(r) <=> FALSE
      /\ \A r : Handled(r)' <=> arg'[t] = r
      /\ \A r : Pending(r) <=> (InList(r) \/ current = r)
      /\ \A r : Pending(r)' <=>
            (InList(r)' \/ current' = r \/ (pc'[t] \in Answering /\ arg'[t] = r))
  BY <1>l, <1>p, <1>m, OneHand
<1>w. state' = "ServerClosed" /\ list' # <<>> => \E u \in Threads : pc'[u] \in ServerCleaning
  BY <1>i, <1>f, <1>p, <1>m, <1>o, ListTail DEF WaitersAttended, SamePlaces, SameRest
<1>1. TypeOK'
  <2>1. list' \in Seq(Requests)
    BY <1>i, <1>f, <1>l, <1>d, ListTail DEF TypeOK, ListInjective
  <2>4. \A u \in Threads : arg'[u] \in Requests \cup {NoRequest}
    BY <1>i, <1>f, <1>l DEF TypeOK
  <2>5. arg' \in [Threads -> Requests \cup {NoRequest}]
    BY <2>4, <1>f
  <2> QED
    BY <2>1, <2>5, <1>i, <1>f, <1>l DEF TypeOK
<1>2. PlacesOK'
  BY <1>i, <1>p, <1>m, <1>o, SessionAssumption DEF PlacesOK, SamePlaces, SameRest, Threads
<1>3. LockHeld'
  BY <1>i, <1>f, <1>p, <1>m, <1>o, SessionAssumption DEF LockHeld, TypeOK, SamePlaces,
     SameRest
<1>4. ArgsHeld'
  BY <1>i, <1>f, <1>p, <1>m, <1>o, <1>l DEF ArgsHeld, SamePlaces, SameHand
<1>5. Created'
  BY <1>i, <1>d, <1>f, <1>p, <1>m, <1>o, <1>l, CreatedStep DEF SamePlaces, SameHand
<1>6. ListInjective'
  BY <1>d, <1>f, <1>i, ListTail DEF ListInjective, TypeOK
<1>7. Exclusive'
  BY <1>d, <1>f, <1>p, <1>m, <1>l, <1>n, <1>i, Listed, ExclusiveStep, ListTail DEF Exclusive,
     TypeOK
<1>8. Unsent'
  BY <1>d, <1>f, <1>p, <1>m, <1>o, <1>l, <1>n, <1>i, UnsentStep DEF SamePlaces, SameHand
<1>9. RefCount'
  <2> SUFFICES ASSUME NEW r \in Requests
               PROVE  req'[r].ref = One(InList(r)') + One(current' = r) + One(Sent(r)')
                                    + One(Handled(r)')
    BY DEF RefCount
  <2>1. /\ req[r].ref = One(InList(r)) + One(current = r) + One(Sent(r)) + One(Handled(r))
        /\ req[r].ref \in Nat
    BY <1>d, <1>i, Typed DEF RefCount
  <2>2. CASE r = Head(list)
    <3>1. /\ InList(r) /\ ~ InList(r)' /\ current # r /\ current' # r
          /\ (Sent(r)' <=> Sent(r)) /\ ~ Handled(r) /\ Handled(r)'
          /\ req'[r].ref = req[r].ref
      BY <2>2, <1>h, <1>s, <1>n, <1>l, <1>f, <1>p, <1>m, <1>i, <1>d DEF Exclusive, TypeOK
    <3> QED
      BY <2>1, <3>1 DEF One
  <2>3. CASE r # Head(list)
    <3>1. /\ (InList(r)' <=> InList(r)) /\ (current' = r <=> current = r)
          /\ (Sent(r)' <=> Sent(r)) /\ (Handled(r)' <=> Handled(r))
          /\ req'[r].ref = req[r].ref
      BY <2>3, <1>h, <1>s, <1>n, <1>l, <1>f, <1>p, <1>m, <1>i, <1>d DEF Exclusive, TypeOK
    <3> QED
      BY <2>1, <3>1 DEF One
  <2> QED
    BY <2>2, <2>3
<1>10. ThreadRefs'
  <2>1. \A c \in Clients : BoundTo(c)' = BoundTo(c)
    BY <1>f, <1>p, <1>m, <1>o, <1>l DEF BoundTo, SamePlaces, SameHand
  <2>2. \A c \in Clients : ReceivedFrom(c)' <=> ReceivedFrom(c)
    BY <1>f, <1>p, <1>m, <1>o, <1>l DEF ReceivedFrom, SamePlaces, SameHand
  <2> QED
    BY <1>d, <1>f, <2>1, <2>2 DEF ThreadRefs, One
<1>11. EventsSignalled'
  <2>1. ASSUME NEW r \in Requests
        PROVE  /\ signals'[r] = signals[r]
               /\ Pending(r)' => Pending(r)
               /\ Pending(r) /\ req'[r].event => Pending(r)'
    <3>1. CASE r = Head(list)
      BY <3>1, <1>f, <1>p, <1>l, <1>h, <1>n DEF Answering
    <3>2. CASE r # Head(list)
      BY <3>2, <1>f, <1>h, <1>n
    <3> QED
      BY <3>1, <3>2
  <2> QED
    BY <2>1, <1>i, <1>d, <1>f, EventsStep
<1>12. EndRefs'
  BY <1>i, <1>f, <1>m, <1>o, EndsKept DEF SamePlaces
<1>13. OneCloser'
  BY <1>i, <1>f, <1>m, <1>o, EndsKept DEF SamePlaces
<1>14. CutOff'
  BY <1>i, <1>f, <1>p, <1>m, <1>o, <1>l, <1>k DEF CutOff, SamePlaces, SameHand, SameEnds,
     SameRest
<1>15. WaitersAttended'
  BY <1>i, <1>f, <1>p, <1>m, <1>o, <1>l, <1>h, <1>n, <1>w, WaitersStep DEF SamePlaces,
     SameRest, Sending
<1>16. SleepersAwaited'
  BY <1>i, <1>f, <1>p, <1>m, <1>o, <1>l, ListTail DEF SleepersAwaited, IsClosed, SamePlaces,
     SameHand, SameRest
<1> QED
  BY <1>1, <1>2, <1>3, <1>4, <1>5, <1>6, <1>7, <1>8, <1>9, <1>10, <1>11, <1>12, <1>13, <1>14,
     <1>15, <1>16 DEF SessionInv, DataInv

(* OnClientClosed signals the event of a queued request. *)
LEMMA ClientClosedSignalKeeps ==
    ASSUME SessionInv, NEW t \in Threads, ClientClosedSignal(t)
    PROVE  SessionInv'
<1>i. /\ TypeOK /\ PlacesOK /\ LockHeld /\ ArgsHeld /\ DataInv /\ EndRefs /\ OneCloser
      /\ CutOff /\ WaitersAttended /\ SleepersAwaited
  BY DEF SessionInv, DataInv
<1>f. /\ UNCHANGED <<state, list, current, mlock, refs, handles, req, created, arg, prev,
                     doomed, accepted, opened>>
      /\ signals' = [signals EXCEPT ![arg[t]] = @ + 1]
  BY DEF ClientClosedSignal, Goto, queueVars, objectVars, clientVars
<1>p. /\ t \in Threads
      /\ pc[t] = "refusing" /\ pc'[t] = "looked_at"
      /\ \A u \in Threads \ {t} : pc'[u] = pc[u]
      /\ pc' = [u \in Threads |-> pc'[u]]
  BY <1>i DEF ClientClosedSignal, Goto, PlacesOK, Threads
<1>m. /\ SameEnds(t) /\ SameRest(t) /\ pc[t] \notin Sending /\ pc'[t] \notin Sending
      /\ pc[t] \in Handling /\ pc'[t] \in Handling /\ pc[t] \notin Receiving
      /\ pc'[t] \notin Receiving /\ pc[t] \in Taken /\ pc'[t] \notin Taken
      /\ pc[t] \in Answering /\ pc'[t] \notin Answering /\ pc[t] \in ClientClosing
      /\ pc'[t] \in ClientClosing
  BY <1>p DEF SameHand, SameEnds, SameRest, Sending, Receiving, ServerCalling, ClientLooking,
     ClientCleaning, ClientClosing, ServerCleaning, ServerClosing, Handling, LockedPlaces,
     Taken, Answering, ClientPlaces, ServerPlaces
<1>o. \A u \in Threads \ {t} : SamePlaces(u)
  BY <1>p, OthersStay DEF Others
<1>d. /\ Created /\ ListInjective /\ Exclusive /\ Unsent /\ RefCount
      /\ ThreadRefs /\ EventsSignalled
  BY <1>i DEF DataInv
<1>l. /\ \A x \in Clients : x \in Threads
      /\ \A x \in Servers : x \in Threads
      /\ \A u \in Threads \ {t} : pc[u] \notin Handling /\ pc'[u] \notin Handling
      /\ arg[t] \in Requests /\ arg[t] <= created /\ req[arg[t]].ref > 0
      /\ req[arg[t]].owner \in Clients /\ ~ InList(arg[t])
      /\ NoRequest \notin Requests /\ \A c \in Clients : pc[c] \in Sending => arg[c] \in Requests
      /\ \A c \in Clients : pc[c] \notin Sending
      /\ arg[t] # current
  <2>1. /\ \A x \in Clients : x \in Threads
        /\ \A x \in Servers : x \in Threads
        /\ NoRequest \notin Requests
    BY SessionAssumption DEF Threads
  <2>2. \A u \in Threads \ {t} : pc[u] \notin Handling /\ pc'[u] \notin Handling
    BY <1>i, <1>p, <1>m, <1>o DEF LockHeld, LockedPlaces, SamePlaces, SameHand
  <2>3. \A c \in Clients : pc[c] \in Sending => arg[c] \in Requests
    BY <1>i, <2>1 DEF ArgsHeld, TypeOK
  <2>4. arg[t] # NoRequest /\ ~ InList(arg[t])
    BY <1>i, <1>d, <1>p, <1>m DEF ArgsHeld, Exclusive
  <2> QED
    BY <2>1, <2>2, <2>3, <2>4, <1>d, <1>i, <1>p, HeldExists, <1>m, Typed, CountsPositive DEF
       ClientLooking, ClientClosing, ClientCleaning, OneCloser, Exclusive
<1>k. /\ pc[t] \in LockedPlaces
      /\ \A u \in Threads \ {t} : pc[u] \notin LockedPlaces /\ pc'[u] \notin LockedPlaces
  <2>1. pc[t] \in LockedPlaces
    BY <1>p DEF LockedPlaces, Handling, Receiving, ClientLooking
  <2> QED
    BY <2>1, <1>i, <1>p, <1>o DEF LockHeld, SamePlaces, SameRest
<1>n. \A r : InList(r)' <=> InList(r)
  BY <1>f, <1>l, <1>i, <1>d DEF InList, ListInjective, TypeOK
<1>s. \A r \in Requests : Sent(r)' <=> Sent(r)
  BY <1>f, <1>p, <1>m, <1>o, <1>l DEF Sent, SamePlaces, SameHand
<1>h. /\ \A r : Handled(r) <=> arg[t] = r
      /\ \A r : Handled(r)' <=> arg'[t] = r
      /\ \A r : Pending(r) <=> (InList(r) \/ current = r \/ arg[t] = r)
      /\ \A r : Pending(r)' <=> (InList(r)' \/ current' = r)
  BY <1>l, <1>p, <1>m, OneHand
<1>w. state' = "ServerClosed" /\ list' # <<>> => \E u \in Threads : pc'[u] \in ServerCleaning
  BY <1>i, <1>f, <1>p, <1>m, <1>o DEF WaitersAttended, SamePlaces, SameRest
<1>1. TypeOK'
  BY <1>i, <1>f, <1>l DEF TypeOK
<1>2. PlacesOK'
  BY <1>i, <1>p, <1>m, <1>o, SessionAssumption DEF PlacesOK, SamePlaces, SameRest, Threads
<1>3. LockHeld'
  BY <1>i, <1>f, <1>p, <1>m, <1>o, SessionAssumption DEF LockHeld, TypeOK, SamePlaces,
     SameRest
<1>4. ArgsHeld'
  BY <1>i, <1>f, <1>p, <1>m, <1>o, <1>l DEF ArgsHeld, SamePlaces, SameHand
<1>5. Created'
  <2>1. \A r \in Requests : r > created => signals'[r] = signals[r]
    BY <1>f, <1>l, <1>i, Typed
  <2> QED
    BY <2>1, <1>i, <1>d, <1>f, <1>p, <1>m, <1>o, <1>l, CreatedStep DEF SamePlaces, SameHand
<1>6. ListInjective'
  BY <1>d, <1>f, <1>i DEF ListInjective, TypeOK
<1>7. Exclusive'
  BY <1>d, <1>f, <1>p, <1>m, <1>l, <1>n, <1>i, Listed, ExclusiveStep DEF Exclusive, TypeOK
<1>8. Unsent'
  BY <1>d, <1>f, <1>p, <1>m, <1>o, <1>l, <1>n, <1>i, Typed, UnsentStep DEF SamePlaces,
     SameHand
<1>9. RefCount'
  <2> SUFFICES ASSUME NEW r \in Requests
               PROVE  req'[r].ref = One(InList(r)') + One(current' = r) + One(Sent(r)')
                                    + One(Handled(r)')
    BY DEF RefCount
  <2>1. /\ req[r].ref = One(InList(r)) + One(current = r) + One(Sent(r)) + One(Handled(r))
        /\ req[r].ref \in Nat
    BY <1>d, <1>i, Typed DEF RefCount
  <2>2. /\ (InList(r)' <=> InList(r)) /\ (current' = r <=> current = r)
        /\ (Sent(r)' <=> Sent(r)) /\ (Handled(r)' <=> Handled(r))
        /\ req'[r].ref = req[r].ref
    BY <1>h, <1>s, <1>n, <1>l, <1>f, <1>p, <1>m, <1>i, <1>d DEF Exclusive, TypeOK
  <2> QED
    BY <2>1, <2>2 DEF One
<1>10. ThreadRefs'
  <2>1. \A c \in Clients : BoundTo(c)' = BoundTo(c)
    BY <1>f, <1>p, <1>m, <1>o, <1>l DEF BoundTo, SamePlaces, SameHand
  <2>2. \A c \in Clients : ReceivedFrom(c)' <=> ReceivedFrom(c)
    BY <1>f, <1>p, <1>m, <1>o, <1>l DEF ReceivedFrom, SamePlaces, SameHand
  <2> QED
    BY <1>d, <1>f, <2>1, <2>2 DEF ThreadRefs, One
<1>11. EventsSignalled'
  <2>1. ASSUME NEW r \in Requests
        PROVE  \/ /\ signals'[r] = signals[r]
                  /\ Pending(r)' => Pending(r)
                  /\ Pending(r) /\ req'[r].event => Pending(r)'
               \/ Pending(r) /\ ~ Pending(r)' /\ signals'[r] = signals[r] + 1
    <3>1. CASE r = arg[t]
      BY <3>1, <1>f, <1>l, <1>h, <1>n, <1>i, Typed
    <3>2. CASE r # arg[t]
      BY <3>2, <1>f, <1>h, <1>n, <1>i, Typed
    <3> QED
      BY <3>1, <3>2
  <2> QED
    BY <2>1, <1>i, <1>d, <1>f, EventsStep
<1>12. EndRefs'
  BY <1>i, <1>f, <1>m, <1>o, EndsKept DEF SamePlaces
<1>13. OneCloser'
  BY <1>i, <1>f, <1>m, <1>o, EndsKept DEF SamePlaces
<1>14. CutOff'
  BY <1>i, <1>f, <1>p, <1>m, <1>o, <1>l, <1>k DEF CutOff, SamePlaces, SameHand, SameEnds,
     SameRest
<1>15. WaitersAttended'
  BY <1>i, <1>f, <1>p, <1>m, <1>o, <1>l, <1>h, <1>n, <1>w, WaitersStep DEF SamePlaces,
     SameRest, Sending
<1>16. SleepersAwaited'
  BY <1>i, <1>f, <1>p, <1>m, <1>o, <1>l DEF SleepersAwaited, IsClosed, SamePlaces, SameHand,
     SameRest
<1> QED
  BY <1>1, <1>2, <1>3, <1>4, <1>5, <1>6, <1>7, <1>8, <1>9, <1>10, <1>11, <1>12, <1>13, <1>14,
     <1>15, <1>16 DEF SessionInv, DataInv

(* OnClientClosed closes the references of the request it cut off. *)
LEMMA ClientClosedCutOffKeeps ==
    ASSUME SessionInv, NEW t \in Threads, ClientClosedCutOff(t)
    PROVE  SessionInv'
<1>i. /\ TypeOK /\ PlacesOK /\ LockHeld /\ ArgsHeld /\ DataInv /\ EndRefs /\ OneCloser
      /\ CutOff /\ WaitersAttended /\ SleepersAwaited
  BY DEF SessionInv, DataInv
<1>f. /\ UNCHANGED <<state, list, current, mlock, refs, handles, req, created, arg, prev,
                     doomed, accepted, signals>>
      /\ opened' = [opened EXCEPT ![req[arg[t]].owner] = @ - 1]
      /\ opened' = [c \in Clients |-> opened'[c]]
  BY <1>i, Typed DEF ClientClosedCutOff, Goto, queueVars, objectVars, clientVars
<1>p. /\ t \in Threads
      /\ pc[t] = "cut_off" /\ pc'[t] = "looked_at"
      /\ \A u \in Threads \ {t} : pc'[u] = pc[u]
      /\ pc' = [u \in Threads |-> pc'[u]]
  BY <1>i DEF ClientClosedCutOff, Goto, PlacesOK, Threads
<1>m. /\ SameEnds(t) /\ SameRest(t) /\ pc[t] \notin Sending /\ pc'[t] \notin Sending
      /\ pc[t] \in Handling /\ pc'[t] \in Handling /\ pc[t] \notin Receiving
      /\ pc'[t] \notin Receiving /\ pc[t] \notin Taken /\ pc'[t] \notin Taken
      /\ pc[t] \notin Answering /\ pc'[t] \notin Answering /\ pc[t] \in ClientClosing
      /\ pc'[t] \in ClientClosing
  BY <1>p DEF SameHand, SameEnds, SameRest, Sending, Receiving, ServerCalling, ClientLooking,
     ClientCleaning, ClientClosing, ServerCleaning, ServerClosing, Handling, LockedPlaces,
     Taken, Answering, ClientPlaces, ServerPlaces
<1>o. \A u \in Threads \ {t} : SamePlaces(u)
  BY <1>p, OthersStay DEF Others
<1>d. /\ Created /\ ListInjective /\ Exclusive /\ Unsent /\ RefCount
      /\ ThreadRefs /\ EventsSignalled
  BY <1>i DEF DataInv
<1>l. /\ \A x \in Clients : x \in Threads
      /\ \A x \in Servers : x \in Threads
      /\ \A u \in Threads \ {t} : pc[u] \notin Handling /\ pc'[u] \notin Handling
      /\ arg[t] \in Requests /\ arg[t] <= created /\ req[arg[t]].ref > 0
      /\ req[arg[t]].owner \in Clients /\ ~ InList(arg[t])
      /\ NoRequest \notin Requests /\ \A c \in Clients : pc[c] \in Sending => arg[c] \in Requests
      /\ ~ req[arg[t]].bound
  <2>1. /\ \A x \in Clients : x \in Threads
        /\ \A x \in Servers : x \in Threads
        /\ NoRequest \notin Requests
    BY SessionAssumption DEF Threads
  <2>2. \A u \in Threads \ {t} : pc[u] \notin Handling /\ pc'[u] \notin Handling
    BY <1>i, <1>p, <1>m, <1>o DEF LockHeld, LockedPlaces, SamePlaces, SameHand
  <2>3. \A c \in Clients : pc[c] \in Sending => arg[c] \in Requests
    BY <1>i, <2>1 DEF ArgsHeld, TypeOK
  <2>4. arg[t] # NoRequest /\ ~ InList(arg[t])
    BY <1>i, <1>d, <1>p, <1>m DEF ArgsHeld, Exclusive
  <2> QED
    BY <2>1, <2>2, <2>3, <2>4, <1>d, <1>i, <1>p, HeldExists DEF CutOff
<1>k. /\ pc[t] \in LockedPlaces
      /\ \A u \in Threads \ {t} : pc[u] \notin LockedPlaces /\ pc'[u] \notin LockedPlaces
  <2>1. pc[t] \in LockedPlaces
    BY <1>p DEF LockedPlaces, Handling, Receiving, ClientLooking
  <2> QED
    BY <2>1, <1>i, <1>p, <1>o DEF LockHeld, SamePlaces, SameRest
<1>n. \A r : InList(r)' <=> InList(r)
  BY <1>f, <1>l, <1>i, <1>d DEF InList, ListInjective, TypeOK
<1>s. \A r \in Requests : Sent(r)' <=> Sent(r)
  BY <1>f, <1>p, <1>m, <1>o, <1>l DEF Sent, SamePlaces, SameHand
<1>h. /\ \A r : Handled(r) <=> arg[t] = r
      /\ \A r : Handled(r)' <=> arg'[t] = r
      /\ \A r : Pending(r) <=> (InList(r) \/ current = r)
      /\ \A r : Pending(r)' <=> (InList(r)' \/ current' = r)
  BY <1>l, <1>p, <1>m, OneHand
<1>w. state' = "ServerClosed" /\ list' # <<>> => \E u \in Threads : pc'[u] \in ServerCleaning
  BY <1>i, <1>f, <1>p, <1>m, <1>o DEF WaitersAttended, SamePlaces, SameRest
<1>r. ThreadRefs' /\ \A c \in Clients : opened'[c] \in Nat
  <2>1. /\ \A x : ~ \E u \in Threads : arg'[u] = x /\ pc'[u] = "cut_off"
        /\ \A x : (\E u \in Threads : arg[u] = x /\ pc[u] = "cut_off") <=> x = arg[t]
    BY <1>p, <1>l DEF Handling, ClientLooking
  <2>2. ASSUME NEW c \in Clients, c # req[arg[t]].owner
        PROVE  /\ BoundTo(c)' = BoundTo(c) /\ opened'[c] = opened[c]
               /\ Cardinality(BoundTo(c)) \in Nat
    <3>1. BoundTo(c)' = BoundTo(c)
      BY <2>1, <2>2, <1>f DEF BoundTo
    <3>2. opened'[c] = opened[c]
      BY <2>2, <1>f, <1>i, Typed
    <3> QED
      BY <3>1, <3>2, CountedFinite
  <2>3. ASSUME NEW c \in Clients, c = req[arg[t]].owner
        PROVE  /\ Cardinality(BoundTo(c)') = Cardinality(BoundTo(c)) - 1
               /\ opened'[c] = opened[c] - 1
               /\ Cardinality(BoundTo(c)) \in Nat /\ Cardinality(BoundTo(c)') \in Nat
    <3>1. arg[t] \in BoundTo(c) /\ BoundTo(c)' = BoundTo(c) \ {arg[t]}
      BY <2>1, <2>3, <1>f, <1>l DEF BoundTo
    <3>2. IsFiniteSet(BoundTo(c)) /\ Cardinality(BoundTo(c)) \in Nat
      BY CountedFinite
    <3>3. Cardinality(BoundTo(c)') = Cardinality(BoundTo(c)) - 1 /\ IsFiniteSet(BoundTo(c)')
      <4>1. \A B : IsFiniteSet(B) /\ arg[t] \in B =>
               Cardinality(B \ {arg[t]}) = Cardinality(B) - 1 /\ IsFiniteSet(B \ {arg[t]})
        BY FS_RemoveElement
      <4> QED
        BY <4>1, <3>1, <3>2
    <3> QED
      BY <3>2, <3>3, <2>3, <1>f, <1>i, Typed, FS_CardinalityType
  <2>4. \A c \in Clients : ReceivedFrom(c)' <=> ReceivedFrom(c)
    BY <1>f, <1>p, <1>m, <1>o, <1>l DEF ReceivedFrom, SamePlaces, SameHand
  <2>5. ASSUME NEW c \in Clients
        PROVE  opened'[c] = Cardinality(BoundTo(c)') + One(ReceivedFrom(c)') /\ opened'[c] \in Nat
    <3>1. opened[c] = Cardinality(BoundTo(c)) + One(ReceivedFrom(c))
      BY <1>d DEF ThreadRefs
    <3>2. CASE c = req[arg[t]].owner
      BY <2>3, <2>4, <3>1, <3>2 DEF One
    <3>3. CASE c # req[arg[t]].owner
      BY <2>2, <2>4, <3>1, <3>3 DEF One
    <3> QED
      BY <3>2, <3>3
  <2> QED
    BY <2>5 DEF ThreadRefs
<1>1. TypeOK'
  <2>2. opened' \in [Clients -> Nat]
    BY <1>i, <1>f, <1>r
  <2> QED
    BY <2>2, <1>i, <1>f, <1>l DEF TypeOK
<1>2. PlacesOK'
  BY <1>i, <1>p, <1>m, <1>o, SessionAssumption DEF PlacesOK, SamePlaces, SameRest, Threads
<1>3. LockHeld'
  BY <1>i, <1>f, <1>p, <1>m, <1>o, SessionAssumption DEF LockHeld, TypeOK, SamePlaces,
     SameRest
<1>4. ArgsHeld'
  BY <1>i, <1>f, <1>p, <1>m, <1>o, <1>l DEF ArgsHeld, SamePlaces, SameHand
<1>5. Created'
  BY <1>i, <1>d, <1>f, <1>p, <1>m, <1>o, <1>l, CreatedStep DEF SamePlaces, SameHand
<1>6. ListInjective'
  BY <1>d, <1>f, <1>i DEF ListInjective, TypeOK
<1>7. Exclusive'
  BY <1>d, <1>f, <1>p, <1>m, <1>l, <1>n, <1>i, Listed, ExclusiveStep DEF Exclusive, TypeOK
<1>8. Unsent'
  BY <1>d, <1>f, <1>p, <1>m, <1>o, <1>l, <1>n, <1>i, UnsentStep DEF SamePlaces, SameHand
<1>9. RefCount'
  <2> SUFFICES ASSUME NEW r \in Requests
               PROVE  req'[r].ref = One(InList(r)') + One(current' = r) + One(Sent(r)')
                                    + One(Handled(r)')
    BY DEF RefCount
  <2>1. /\ req[r].ref = One(InList(r)) + One(current = r) + One(Sent(r)) + One(Handled(r))
        /\ req[r].ref \in Nat
    BY <1>d, <1>i, Typed DEF RefCount
  <2>2. /\ (InList(r)' <=> InList(r)) /\ (current' = r <=> current = r)
        /\ (Sent(r)' <=> Sent(r)) /\ (Handled(r)' <=> Handled(r))
        /\ req'[r].ref = req[r].ref
    BY <1>h, <1>s, <1>n, <1>l, <1>f, <1>p, <1>m, <1>i, <1>d DEF Exclusive, TypeOK
  <2> QED
    BY <2>1, <2>2 DEF One
<1>10. ThreadRefs'
  BY <1>r
<1>11. EventsSignalled'
  BY <1>i, <1>d, <1>f, <1>p, <1>h, <1>n, <1>l, EventsStep
<1>12. EndRefs'
  BY <1>i, <1>f, <1>m, <1>o, EndsKept DEF SamePlaces
<1>13. OneCloser'
  BY <1>i, <1>f, <1>m, <1>o, EndsKept DEF SamePlaces
<1>14. CutOff'
  BY <1>i, <1>f, <1>p, <1>m, <1>o, <1>l, <1>k DEF CutOff, SamePlaces, SameHand, SameEnds,
     SameRest
<1>15. WaitersAttended'
  BY <1>i, <1>f, <1>p, <1>m, <1>o, <1>l, <1>h, <1>n, <1>w, WaitersStep DEF SamePlaces,
     SameRest, Sending
<1>16. SleepersAwaited'
  BY <1>i, <1>f, <1>p, <1>m, <1>o, <1>l DEF SleepersAwaited, IsClosed, SamePlaces, SameHand,
     SameRest
<1> QED
  BY <1>1, <1>2, <1>3, <1>4, <1>5, <1>6, <1>7, <1>8, <1>9, <1>10, <1>11, <1>12, <1>13, <1>14,
     <1>15, <1>16 DEF SessionInv, DataInv

(* A request whose thread is cleared or kept. *)
LEMMA BoundUpdate ==
    ASSUME NEW q \in [ref : Nat, owner : Clients \cup {NoThread}, event : BOOLEAN, bound : BOOLEAN],
           NEW b \in BOOLEAN, NEW p, p = [q EXCEPT !.bound = b]
    PROVE  /\ p \in [ref : Nat, owner : Clients \cup {NoThread}, event : BOOLEAN, bound : BOOLEAN]
           /\ p.ref = q.ref /\ p.owner = q.owner /\ p.event = q.event /\ p.bound = b
<1>1. p \in [ref : Nat, owner : Clients \cup {NoThread}, event : BOOLEAN, bound : BOOLEAN]
  OBVIOUS
<1>2. p.ref = q.ref /\ p.owner = q.owner /\ p.event = q.event
  OBVIOUS
<1>3. p.bound = b
  OBVIOUS
<1> QED
  BY <1>1, <1>2, <1>3

(* A request whose event is cleared or kept. *)
LEMMA EventUpdate ==
    ASSUME NEW q \in [ref : Nat, owner : Clients \cup {NoThread}, event : BOOLEAN, bound : BOOLEAN],
           NEW b \in BOOLEAN, NEW p, p = [q EXCEPT !.event = b]
    PROVE  /\ p \in [ref : Nat, owner : Clients \cup {NoThread}, event : BOOLEAN, bound : BOOLEAN]
           /\ p.ref = q.ref /\ p.owner = q.owner /\ p.bound = q.bound /\ p.event = b
<1>1. p \in [ref : Nat, owner : Clients \cup {NoThread}, event : BOOLEAN, bound : BOOLEAN]
  OBVIOUS
<1>2. p.ref = q.ref /\ p.owner = q.owner /\ p.bound = q.bound
  OBVIOUS
<1>3. p.event = b
  OBVIOUS
<1> QED
  BY <1>1, <1>2, <1>3

(* The request OnClientClosed looks at, by fields. *)
LEMMA RequestLookedAt ==
    ASSUME TypeOK, NEW r \in Requests, NEW b \in BOOLEAN, NEW e \in BOOLEAN,
           req' = [req EXCEPT ![r].ref = @ + 1, ![r].bound = b, ![r].event = e]
    PROVE  /\ req' \in [Requests -> [ref : Nat, owner : Clients \cup {NoThread},
                                     event : BOOLEAN, bound : BOOLEAN]]
           /\ \A x \in Requests : x # r => req'[x] = req[x]
           /\ req'[r].ref = req[r].ref + 1 /\ req'[r].owner = req[r].owner
           /\ req'[r].bound = b /\ req'[r].event = e
<1>1. \A x \in Requests : req[x] \in [ref : Nat, owner : Clients \cup {NoThread},
                                      event : BOOLEAN, bound : BOOLEAN]
  BY DEF TypeOK
<1>3. \A x \in Requests : x # r => req'[x] = req[x]
  BY DEF TypeOK
<1>4. req'[r] = [req[r] EXCEPT !.ref = @ + 1, !.bound = b, !.event = e]
  BY DEF TypeOK
<1>5. PICK q1, q2 : q1 = [req[r] EXCEPT !.ref = @ + 1] /\ q2 = [q1 EXCEPT !.bound = b]
  OBVIOUS
<1>6. req'[r] = [q2 EXCEPT !.event = e]
  BY <1>4, <1>5
<1>7. /\ req'[r].ref = req[r].ref + 1 /\ req'[r].owner = req[r].owner
      /\ req'[r].bound = b /\ req'[r].event = e
      /\ req'[r] \in [ref : Nat, owner : Clients \cup {NoThread}, event : BOOLEAN, bound : BOOLEAN]
  <2>1. /\ q1 \in [ref : Nat, owner : Clients \cup {NoThread}, event : BOOLEAN, bound : BOOLEAN]
        /\ q1.ref = req[r].ref + 1 /\ q1.owner = req[r].owner
    BY <1>1, <1>5
  <2>2. /\ q2 \in [ref : Nat, owner : Clients \cup {NoThread}, event : BOOLEAN, bound : BOOLEAN]
        /\ q2.ref = q1.ref /\ q2.owner = q1.owner /\ q2.bound = b
    BY <2>1, <1>5, BoundUpdate
  <2>3. PICK q3 : q3 = req'[r]
    OBVIOUS
  <2>4. q3 = [q2 EXCEPT !.event = e]
    BY <1>6, <2>3
  <2>5. /\ q3 \in [ref : Nat, owner : Clients \cup {NoThread}, event : BOOLEAN, bound : BOOLEAN]
        /\ q3.ref = q2.ref /\ q3.owner = q2.owner /\ q3.bound = q2.bound /\ q3.event = e
    BY <2>2, <2>4, EventUpdate
  <2> QED
    BY <2>1, <2>2, <2>3, <2>5
<1>8. req' \in [Requests -> [ref : Nat, owner : Clients \cup {NoThread},
                             event : BOOLEAN, bound : BOOLEAN]]
  <2>1. \A x \in Requests : req'[x] \in [ref : Nat, owner : Clients \cup {NoThread},
                                         event : BOOLEAN, bound : BOOLEAN]
    BY <1>1, <1>3, <1>7
  <2>2. req' = [x \in Requests |-> req'[x]]
    BY DEF TypeOK
  <2> QED
    BY <2>1, <2>2
<1> QED
  BY <1>3, <1>7, <1>8

(* OnClientClosed looks at the current request, and cuts its thread off    *)
(* if it is terminating.                                                   *)
LEMMA ClientClosedCurrentKeeps ==
    ASSUME SessionInv, NEW t \in Threads, ClientClosedCurrent(t)
    PROVE  SessionInv'
<1>i. /\ TypeOK /\ PlacesOK /\ LockHeld /\ ArgsHeld /\ DataInv /\ EndRefs /\ OneCloser
      /\ CutOff /\ WaitersAttended /\ SleepersAwaited
  BY DEF SessionInv, DataInv
<1>q. /\ current \in Requests /\ current # prev
      /\ req' \in [Requests -> [ref : Nat, owner : Clients \cup {NoThread},
                                event : BOOLEAN, bound : BOOLEAN]]
      /\ \A x \in Requests : x # current => req'[x] = req[x]
      /\ req'[current].ref = req[current].ref + 1
      /\ req'[current].owner = req[current].owner
      /\ req'[current].bound <=> req[current].owner \notin doomed
      /\ req'[current].event <=> req[current].event /\ req[current].owner \notin doomed
  <2>1. current \in Requests /\ current # prev
    BY <1>i, Typed DEF ClientClosedCurrent
  <2>2. PICK b \in BOOLEAN, e \in BOOLEAN :
           /\ b = ~ (req[current].owner \in doomed)
           /\ e = (req[current].event /\ ~ (req[current].owner \in doomed))
    BY Zenon
  <2>3. req' = [req EXCEPT ![current].ref = @ + 1, ![current].bound = b, ![current].event = e]
    BY <2>2 DEF ClientClosedCurrent
  <2> QED
    BY <2>1, <2>2, <2>3, <1>i, RequestLookedAt
<1>f. /\ UNCHANGED <<state, list, current, mlock, refs, handles, created, doomed, accepted,
                     opened, signals>>
      /\ current \in Requests /\ current # prev /\ prev' = current
      /\ arg'[t] = current /\ arg' = [u \in Threads |-> arg'[u]]
      /\ \A u \in Threads \ {t} : arg'[u] = arg[u]
      /\ \A x \in Requests : x # current => req'[x] = req[x]
      /\ req'[current].ref = req[current].ref + 1 /\ req'[current].owner = req[current].owner
      /\ req'[current].bound <=> req[current].owner \notin doomed
      /\ req'[current].event <=> req[current].event /\ req[current].owner \notin doomed
  BY <1>i, <1>q, Typed DEF ClientClosedCurrent, Goto, queueVars, objectVars, clientVars
<1>p. /\ t \in Threads
      /\ pc[t] = "client_cleanup_locked" /\ pc'[t] \in {"cut_off", "looked_at"}
      /\ (pc'[t] = "cut_off" <=> req[current].owner \in doomed)
      /\ \A u \in Threads \ {t} : pc'[u] = pc[u]
      /\ pc' = [u \in Threads |-> pc'[u]]
  BY <1>i DEF ClientClosedCurrent, Goto, PlacesOK, Threads
<1>m. /\ SameEnds(t) /\ SameRest(t) /\ pc[t] \notin Sending /\ pc'[t] \notin Sending
      /\ pc[t] \notin Handling /\ pc'[t] \in Handling /\ pc[t] \notin Receiving
      /\ pc'[t] \notin Receiving /\ pc[t] \notin Taken /\ pc'[t] \notin Taken
      /\ pc[t] \notin Answering /\ pc'[t] \notin Answering /\ pc[t] \in ClientClosing
      /\ pc'[t] \in ClientClosing /\ pc'[t] # "received" /\ pc'[t] # "receiving"
      /\ pc'[t] # "send" /\ pc'[t] # "asleep" /\ pc'[t] # "waiting"
  BY <1>p DEF SameHand, SameEnds, SameRest, Sending, Receiving, ServerCalling, ClientLooking,
     ClientCleaning, ClientClosing, ServerCleaning, ServerClosing, Handling, LockedPlaces,
     Taken, Answering, ClientPlaces, ServerPlaces
<1>o. \A u \in Threads \ {t} : SamePlaces(u)
  BY <1>p, OthersStay DEF Others
<1>d. /\ Created /\ ListInjective /\ Exclusive /\ Unsent /\ RefCount
      /\ ThreadRefs /\ EventsSignalled
  BY <1>i DEF DataInv
<1>l. /\ \A x \in Clients : x \in Threads
      /\ \A x \in Servers : x \in Threads
      /\ \A u \in Threads \ {t} : pc[u] \notin Handling /\ pc'[u] \notin Handling
      /\ arg[t] = NoRequest
      /\ NoRequest \notin Requests /\ \A c \in Clients : pc[c] \in Sending => arg[c] \in Requests
      /\ \A c \in Clients : pc[c] \notin Sending
      /\ ~ InList(current) /\ prev = NoRequest /\ req[current].bound /\ refs["client"] = 0
      /\ current <= created /\ req[current].ref > 0 /\ req[current].ref \in Nat
      /\ \A u \in Threads \ {t} : pc[u] \notin ClientClosing
  <2>1. /\ \A x \in Clients : x \in Threads
        /\ \A x \in Servers : x \in Threads
        /\ NoRequest \notin Requests
    BY SessionAssumption DEF Threads
  <2>2. \A u \in Threads \ {t} : pc[u] \notin Handling /\ pc'[u] \notin Handling
    BY <1>i, <1>p, <1>m, <1>o DEF LockHeld, LockedPlaces, SamePlaces, SameHand
  <2>3. \A c \in Clients : pc[c] \in Sending => arg[c] \in Requests
    BY <1>i, <2>1 DEF ArgsHeld, TypeOK
  <2>4. arg[t] = NoRequest
    BY <1>i, <1>p, <1>m DEF ArgsHeld
  <2>5. /\ refs["client"] = 0 /\ \A c \in Clients : pc[c] \notin Sending
        /\ \A u \in Threads \ {t} : pc[u] \notin ClientClosing
    BY <1>i, <1>p, <1>m, Typed, CountsPositive DEF OneCloser
  <2>6. /\ current <= created /\ req[current].ref > 0 /\ req[current].ref \in Nat
        /\ ~ InList(current)
    BY <1>i, <1>d, <1>f, HeldExists, Typed DEF Exclusive
  <2>7. prev = NoRequest /\ req[current].bound /\ current # NoRequest
    BY <2>6, <1>i, <1>p, <1>m, <1>f DEF CutOff
  <2> QED
    BY <2>1, <2>2, <2>3, <2>4, <2>5, <2>6, <2>7, <1>d, <1>i, <1>p, HeldExists
<1>k. /\ pc[t] \in LockedPlaces
      /\ \A u \in Threads \ {t} : pc[u] \notin LockedPlaces /\ pc'[u] \notin LockedPlaces
  <2>1. pc[t] \in LockedPlaces
    BY <1>p DEF LockedPlaces, Handling, Receiving, ClientLooking
  <2> QED
    BY <2>1, <1>i, <1>p, <1>o DEF LockHeld, SamePlaces, SameRest
<1>n. \A r : InList(r)' <=> InList(r)
  BY <1>f, <1>l, <1>i, <1>d DEF InList, ListInjective, TypeOK
<1>s. \A r \in Requests : Sent(r)' <=> Sent(r)
  BY <1>f, <1>p, <1>m, <1>o, <1>l DEF Sent, SamePlaces, SameHand
<1>h. /\ \A r : Handled(r) <=> FALSE
      /\ \A r : Handled(r)' <=> arg'[t] = r
      /\ \A r : Pending(r) <=> (InList(r) \/ current = r)
      /\ \A r : Pending(r)' <=> (InList(r)' \/ current' = r)
  BY <1>l, <1>p, <1>m, OneHand
<1>w. state' = "ServerClosed" /\ list' # <<>> => \E u \in Threads : pc'[u] \in ServerCleaning
  BY <1>i, <1>f, <1>p, <1>m, <1>o DEF WaitersAttended, SamePlaces, SameRest
<1>1. TypeOK'
  <2>1. arg' \in [Threads -> Requests \cup {NoRequest}]
    BY <1>i, <1>f, Typed DEF ClientClosedCurrent
  <2> QED
    BY <2>1, <1>i, <1>f, <1>q DEF TypeOK
<1>2. PlacesOK'
  BY <1>i, <1>p, <1>m, <1>o, SessionAssumption DEF PlacesOK, SamePlaces, SameRest, Threads
<1>3. LockHeld'
  BY <1>i, <1>f, <1>p, <1>m, <1>o, SessionAssumption DEF LockHeld, TypeOK, SamePlaces,
     SameRest
<1>4. ArgsHeld'
  BY <1>i, <1>f, <1>p, <1>m, <1>o, <1>l DEF ArgsHeld, SamePlaces, SameHand
<1>5. Created'
  <2>1. \A r \in Requests : /\ req'[r].owner = req[r].owner
                             /\ r > created => req'[r].ref = req[r].ref
    <3>1. ~ (current > created)
      BY <1>l, <1>f, <1>i, Typed
    <3> QED
      BY <3>1, <1>f
  <2> QED
    BY <2>1, <1>i, <1>d, <1>f, <1>p, <1>m, <1>o, <1>l, CreatedStep DEF SamePlaces, SameHand
<1>6. ListInjective'
  BY <1>d, <1>f, <1>i DEF ListInjective, TypeOK
<1>7. Exclusive'
  BY <1>d, <1>f, <1>p, <1>m, <1>l, <1>n, <1>i, Listed, ExclusiveStep DEF Exclusive, TypeOK
<1>8. Unsent'
  BY <1>d, <1>f, <1>p, <1>m, <1>o, <1>l, <1>n, <1>i, UnsentStep DEF SamePlaces, SameHand
<1>9. RefCount'
  <2> SUFFICES ASSUME NEW r \in Requests
               PROVE  req'[r].ref = One(InList(r)') + One(current' = r) + One(Sent(r)')
                                    + One(Handled(r)')
    BY DEF RefCount
  <2>1. /\ req[r].ref = One(InList(r)) + One(current = r) + One(Sent(r)) + One(Handled(r))
        /\ req[r].ref \in Nat
    BY <1>d, <1>i, Typed DEF RefCount
  <2>2. CASE r = current
    <3>1. /\ (InList(r)' <=> InList(r)) /\ current = r /\ current' = r
          /\ (Sent(r)' <=> Sent(r)) /\ ~ Handled(r) /\ Handled(r)'
          /\ req'[r].ref = req[r].ref + 1
      BY <2>2, <1>h, <1>s, <1>n, <1>l, <1>f, <1>p, <1>m, <1>i, <1>d DEF Exclusive, TypeOK
    <3> QED
      BY <2>1, <3>1 DEF One
  <2>3. CASE r # current
    <3>1. /\ (InList(r)' <=> InList(r)) /\ (current' = r <=> current = r)
          /\ (Sent(r)' <=> Sent(r)) /\ (Handled(r)' <=> Handled(r))
          /\ req'[r].ref = req[r].ref
      BY <2>3, <1>h, <1>s, <1>n, <1>l, <1>f, <1>p, <1>m, <1>i, <1>d DEF Exclusive, TypeOK
    <3> QED
      BY <2>1, <3>1 DEF One
  <2> QED
    BY <2>2, <2>3
<1>10. ThreadRefs'
  <2>1. ASSUME NEW c \in Clients PROVE BoundTo(c)' = BoundTo(c)
    <3>1. ASSUME NEW r \in Requests PROVE r \in BoundTo(c)' <=> r \in BoundTo(c)
      <4>1. CASE r = current
        BY <4>1, <1>f, <1>p, <1>l DEF BoundTo
      <4>2. CASE r # current
        <5>1. req'[r] = req[r] /\ ~ \E u \in Threads : arg'[u] = r /\ pc'[u] = "cut_off"
          BY <4>2, <1>f, <1>p, <1>l DEF Handling, ClientLooking
        <5>2. ~ \E u \in Threads : arg[u] = r /\ pc[u] = "cut_off"
          BY <1>p, <1>l DEF Handling, ClientLooking
        <5> QED
          BY <5>1, <5>2 DEF BoundTo
      <4> QED
        BY <4>1, <4>2
    <3>2. BoundTo(c) \subseteq Requests /\ BoundTo(c)' \subseteq Requests
      BY DEF BoundTo
    <3> QED
      BY <3>1, <3>2
  <2>2. \A c \in Clients : ReceivedFrom(c)' <=> ReceivedFrom(c)
    BY <1>f, <1>p, <1>m, <1>o, <1>l DEF ReceivedFrom, SamePlaces, SameHand, Handling
  <2> QED
    BY <1>d, <1>f, <2>1, <2>2 DEF ThreadRefs, One
<1>11. EventsSignalled'
  <2>1. \A r \in Requests : req'[r].event => req[r].event
    BY <1>f
  <2>2. \A r \in Requests : Pending(r)' <=> Pending(r)
    BY <1>f, <1>h, <1>n
  <2> QED
    BY <2>1, <2>2, <1>i, <1>d, <1>f, EventsStep
<1>12. EndRefs'
  BY <1>i, <1>f, <1>m, <1>o, EndsKept DEF SamePlaces
<1>13. OneCloser'
  BY <1>i, <1>f, <1>m, <1>o, EndsKept DEF SamePlaces
<1>14. CutOff'
  <2>1. \A r \in Requests : r <= created /\ ~ req'[r].bound => r = current /\ ~ req'[r].event
    BY <1>i, <1>f, <1>l DEF CutOff
  <2>2. \A u \in Threads : pc'[u] \in ClientClosing => u = t
    BY <1>p, <1>l
  <2>3. pc'[t] \in LockedPlaces /\ \A u \in Threads : pc'[u] = "cut_off" => u = t
    BY <2>2, <1>p DEF LockedPlaces, Handling, ClientLooking, ClientClosing, ClientCleaning
  <2>4. pc'[t] = "cut_off" => ~ req'[arg'[t]].bound
    BY <1>f, <1>p
  <2>5. prev' = current' /\ refs'["client"] = 0 /\ created' = created
    BY <1>f, <1>l
  <2> QED
    BY <2>1, <2>2, <2>3, <2>4, <2>5, <1>f DEF CutOff
<1>15. WaitersAttended'
  BY <1>i, <1>f, <1>p, <1>m, <1>o, <1>l, <1>h, <1>n, <1>w, WaitersStep DEF SamePlaces,
     SameRest, Sending
<1>16. SleepersAwaited'
  BY <1>i, <1>f, <1>p, <1>m, <1>o, <1>l DEF SleepersAwaited, IsClosed, SamePlaces, SameHand,
     SameRest
<1> QED
  BY <1>1, <1>2, <1>3, <1>4, <1>5, <1>6, <1>7, <1>8, <1>9, <1>10, <1>11, <1>12, <1>13, <1>14,
     <1>15, <1>16 DEF SessionInv, DataInv

-----------------------------------------------------------------------------
(* The client. *)
(* A client closes its request and returns, and drops its references. *)
LEMMA SendReturnsKeeps ==
    ASSUME SessionInv, NEW x \in Clients, SendReturns(x)
    PROVE  SessionInv'
<1>i. /\ TypeOK /\ PlacesOK /\ LockHeld /\ ArgsHeld /\ DataInv /\ EndRefs /\ OneCloser
      /\ CutOff /\ WaitersAttended /\ SleepersAwaited
  BY DEF SessionInv, DataInv
<1>f. /\ UNCHANGED <<state, list, current, mlock, handles, created, prev, doomed, accepted,
                     signals>>
      /\ arg'[x] = NoRequest /\ arg' = [u \in Threads |-> arg'[u]]
      /\ \A u \in Threads \ {x} : arg'[u] = arg[u]
      /\ CloseRequest(arg[x], req)
      /\ refs'["server"] = refs["server"] /\ refs'["client"] = refs["client"] - 1
      /\ refs'["session"] = refs["session"] - 1 /\ refs' = [e \in EndTypes |-> refs'[e]]
  BY Typed, <1>i DEF SendReturns, Goto, EndTypes, Threads, queueVars, objectVars, clientVars
<1>p. /\ x \in Threads
      /\ pc[x] = "sent" /\ pc'[x] \in {"client_destroy", "user"}
      /\ (refs["client"] = 1 => pc'[x] = "client_destroy")
      /\ (refs["client"] # 1 => pc'[x] = "user")
      /\ \A u \in Threads \ {x} : pc'[u] = pc[u]
      /\ pc' = [u \in Threads |-> pc'[u]]
  BY Typed, <1>i DEF SendReturns, Goto, EndTypes, Threads, PlacesOK, Threads
<1>m. /\ pc[x] \in Sending /\ pc'[x] \notin Sending /\ pc[x] \notin Handling
      /\ pc'[x] \notin Handling /\ pc[x] \notin Receiving /\ pc'[x] \notin Receiving
      /\ pc[x] \notin Taken /\ pc'[x] \notin Taken /\ pc[x] \notin Answering
      /\ pc'[x] \notin Answering /\ pc[x] \notin ServerCalling
      /\ pc'[x] \notin ServerCalling /\ pc[x] \notin ClientClosing
      /\ pc[x] \notin ServerClosing /\ pc'[x] \notin ServerClosing
      /\ pc[x] \notin ClientCleaning /\ pc'[x] \notin ClientCleaning
      /\ pc[x] \notin ServerCleaning /\ pc'[x] \notin ServerCleaning
      /\ pc[x] \notin LockedPlaces /\ pc'[x] \notin LockedPlaces /\ pc[x] \in ClientPlaces
      /\ pc'[x] \in ClientPlaces /\ pc[x] \notin ServerPlaces /\ pc'[x] # "received"
      /\ pc'[x] # "receiving" /\ pc'[x] # "cut_off" /\ pc'[x] # "send" /\ pc'[x] # "asleep"
      /\ pc'[x] # "waiting"
  BY <1>p DEF SameHand, SameEnds, SameRest, Sending, Receiving, ServerCalling, ClientLooking,
     ClientCleaning, ClientClosing, ServerCleaning, ServerClosing, Handling, LockedPlaces,
     Taken, Answering, ClientPlaces, ServerPlaces
<1>o. \A u \in Threads \ {x} : SamePlaces(u)
  BY <1>p, OthersStay DEF Others
<1>e. EndRefs' /\ OneCloser' /\ refs' \in [EndTypes -> Nat]
  BY <1>i, <1>f, <1>p, <1>m, <1>o, SendEnds DEF SamePlaces, Sending
<1>d. /\ Created /\ ListInjective /\ Exclusive /\ Unsent /\ RefCount
      /\ ThreadRefs /\ EventsSignalled
  BY <1>i DEF DataInv
<1>l. /\ \A v \in Clients : v \in Threads
      /\ \A v \in Servers : v \in Threads /\ v # x
      /\ arg[x] \in Requests /\ arg[x] <= created /\ req[arg[x]].ref > 0 /\ req[arg[x]].owner = x
      /\ NoRequest \notin Requests /\ \A u \in Threads : arg[u] # NoRequest => arg[u] \in Requests
      /\ \A c \in Clients : pc[c] \in Sending => arg[c] \in Requests /\ (arg[c] = arg[x] => c = x)
      /\ prev = NoRequest /\ \A u \in Threads : pc[u] # "cut_off" /\ pc'[u] # "cut_off"
  <2>1. /\ \A v \in Clients : v \in Threads
        /\ \A v \in Servers : v \in Threads /\ v # x
        /\ NoRequest \notin Requests
    BY SessionAssumption DEF Threads
  <2>2. \A u \in Threads : arg[u] # NoRequest => arg[u] \in Requests
    BY <1>i DEF TypeOK
  <2>3. \A c \in Clients : pc[c] \in Sending => arg[c] # NoRequest /\ req[arg[c]].owner = c
    BY <1>i, <1>d, <2>1 DEF ArgsHeld, Created
  <2>4. arg[x] # NoRequest /\ req[arg[x]].owner = x
    BY <2>3, <1>p, <1>m
  <2>5. refs["client"] > 0 /\ refs["client"] \in Nat
    BY <1>i, <1>p, <1>m, CountsPositive
  <2>6. prev = NoRequest /\ \A u \in Threads : pc[u] # "cut_off"
    BY <2>5, <1>i DEF CutOff, OneCloser, ClientClosing, ClientCleaning, ClientLooking
  <2>7. \A u \in Threads : pc'[u] # "cut_off"
    BY <2>6, <1>p
  <2> QED
    BY <2>1, <2>2, <2>3, <2>4, <2>6, <2>7, <1>d, <1>i, <1>p, HeldExists
<1>n. \A r : InList(r)' <=> InList(r)
  BY <1>f DEF InList
<1>s. /\ \A r : Sent(r)' <=> (Sent(r) /\ r # arg[x])
      /\ Sent(arg[x])
  BY <1>f, <1>p, <1>m, <1>o, <1>l DEF Sent, SamePlaces, SameHand
<1>h. \A r : Handled(r)' <=> Handled(r)
  BY <1>f, <1>p, <1>m DEF Handled
<1>g. \A r : Pending(r)' <=> Pending(r)
  BY <1>f, <1>p, <1>m, <1>n DEF Pending
<1>w. state' = "ServerClosed" /\ list' # <<>> => \E u \in Threads : pc'[u] \in ServerCleaning
  BY <1>i, <1>f, <1>p, <1>m, <1>o DEF WaitersAttended, SamePlaces, SameRest
<1>c. /\ req' \in [Requests -> [ref : Nat, owner : Clients \cup {NoThread},
                                event : BOOLEAN, bound : BOOLEAN]]
      /\ \A r \in Requests : /\ req'[r].owner = req[r].owner /\ req'[r].event = req[r].event
                             /\ req'[r].bound = req[r].bound
                             /\ r # arg[x] => req'[r].ref = req[r].ref
      /\ req'[arg[x]].ref = req[arg[x]].ref - 1
      /\ opened' = [c \in Clients |-> opened'[c]]
      /\ \A c \in Clients : opened'[c] = opened[c]
            - One(c = req[arg[x]].owner /\ req[arg[x]].ref = 1 /\ req[arg[x]].bound)
  BY <1>i, <1>f, <1>l, RequestCloses
<1>r. ThreadRefs' /\ \A c \in Clients : opened'[c] \in Nat
  <2>1. \A c \in Clients :
           /\ Cardinality(BoundTo(c)') = Cardinality(BoundTo(c))
                - One(c = req[arg[x]].owner /\ req[arg[x]].ref = 1 /\ req[arg[x]].bound)
           /\ Cardinality(BoundTo(c)) \in Nat /\ Cardinality(BoundTo(c)') \in Nat
    BY <1>i, <1>l, <1>c, BoundAfterClose
  <2>2. ASSUME NEW s \in Servers
        PROVE  /\ pc'[s] = pc[s]
               /\ pc[s] \in Receiving => req'[arg'[s]].owner = req[arg[s]].owner
    <3>1. s \in Threads \ {x}
      BY <1>l
    <3>2. pc[s] \in Receiving => arg[s] \in Requests
      BY <3>1, <1>i, <1>l DEF ArgsHeld, Handling
    <3> QED
      BY <3>1, <3>2, <1>p, <1>f, <1>c
  <2>3. \A c \in Clients : ReceivedFrom(c)' <=> ReceivedFrom(c)
    BY <2>2 DEF ReceivedFrom
  <2>4. ASSUME NEW c \in Clients
        PROVE  opened'[c] = Cardinality(BoundTo(c)') + One(ReceivedFrom(c)') /\ opened'[c] \in Nat
    <3>1. /\ opened[c] = Cardinality(BoundTo(c)) + One(ReceivedFrom(c))
          /\ opened'[c] = opened[c]
            - One(c = req[arg[x]].owner /\ req[arg[x]].ref = 1 /\ req[arg[x]].bound)
      BY <1>c, <1>d DEF ThreadRefs
    <3> QED
      BY <2>1, <2>3, <3>1 DEF One
  <2> QED
    BY <2>4 DEF ThreadRefs
<1>1. TypeOK'
  <2>2. opened' \in [Clients -> Nat]
    BY <1>c, <1>r
  <2>4. \A u \in Threads : arg'[u] \in Requests \cup {NoRequest}
    BY <1>i, <1>f, <1>l DEF TypeOK
  <2>5. arg' \in [Threads -> Requests \cup {NoRequest}]
    BY <2>4, <1>f
  <2> QED
    BY <2>2, <2>5, <1>c, <1>e, <1>i, <1>f, <1>l DEF TypeOK, EndTypes
<1>2. PlacesOK'
  BY <1>i, <1>p, <1>m, <1>o, SessionAssumption DEF PlacesOK, SamePlaces, SameRest, Threads
<1>3. LockHeld'
  BY <1>i, <1>f, <1>p, <1>m, <1>o, SessionAssumption DEF LockHeld, TypeOK, SamePlaces,
     SameRest
<1>4. ArgsHeld'
  BY <1>i, <1>f, <1>p, <1>m, <1>o DEF ArgsHeld, SamePlaces, SameHand
<1>5. Created'
  <2>1. \A r \in Requests : /\ req'[r].owner = req[r].owner
                            /\ r > created => /\ req'[r].ref = req[r].ref
                                              /\ signals'[r] = signals[r]
    BY <1>c, <1>f, <1>l, <1>i, Typed
  <2> QED
    BY <2>1, <1>i, <1>d, <1>f, <1>p, <1>m, <1>o, <1>l, CreatedStep DEF SamePlaces, SameHand
<1>6. ListInjective'
  BY <1>d, <1>f DEF ListInjective
<1>7. Exclusive'
  BY <1>d, <1>f, <1>p, <1>m, <1>n DEF Exclusive, Handling, Taken, Receiving
<1>8. Unsent'
  BY <1>d, <1>f, <1>p, <1>m, <1>o, <1>l, <1>n, <1>i, UnsentStep DEF SamePlaces, SameHand
<1>9. RefCount'
  <2> SUFFICES ASSUME NEW r \in Requests
               PROVE  req'[r].ref = One(InList(r)') + One(current' = r) + One(Sent(r)')
                                    + One(Handled(r)')
    BY DEF RefCount
  <2>1. /\ req[r].ref = One(InList(r)) + One(current = r) + One(Sent(r)) + One(Handled(r))
        /\ req[r].ref \in Nat
    BY <1>d, <1>i, Typed DEF RefCount
  <2>2. CASE r = arg[x]
    <3>1. /\ (InList(r)' <=> InList(r)) /\ (current' = r <=> current = r)
          /\ Sent(r) /\ ~ Sent(r)' /\ (Handled(r)' <=> Handled(r))
          /\ req'[r].ref = req[r].ref - 1
      BY <2>2, <1>h, <1>s, <1>n, <1>l, <1>f, <1>c
    <3> QED
      BY <2>1, <3>1 DEF One
  <2>3. CASE r # arg[x]
    <3>1. /\ (InList(r)' <=> InList(r)) /\ (current' = r <=> current = r)
          /\ (Sent(r)' <=> Sent(r)) /\ (Handled(r)' <=> Handled(r))
          /\ req'[r].ref = req[r].ref
      BY <2>3, <1>h, <1>s, <1>n, <1>l, <1>f, <1>c
    <3> QED
      BY <2>1, <3>1 DEF One
  <2> QED
    BY <2>2, <2>3
<1>10. ThreadRefs'
  BY <1>r
<1>11. EventsSignalled'
  BY <1>c, <1>i, <1>d, <1>f, <1>g, EventsStep
<1>12. EndRefs'
  BY <1>e
<1>13. OneCloser'
  BY <1>e
<1>14. CutOff'
  BY <1>c, <1>i, <1>f, <1>l, Typed DEF CutOff
<1>15. WaitersAttended'
  BY <1>c, <1>i, <1>f, <1>p, <1>m, <1>o, <1>l, <1>g, <1>w, WaitersStep DEF SamePlaces,
     SameRest, Sending
<1>16. SleepersAwaited'
  BY <1>i, <1>f, <1>p, <1>m, <1>o, <1>l DEF SleepersAwaited, IsClosed, SamePlaces, SameHand,
     SameRest
<1> QED
  BY <1>1, <1>2, <1>3, <1>4, <1>5, <1>6, <1>7, <1>8, <1>9, <1>10, <1>11, <1>12, <1>13, <1>14,
     <1>15, <1>16 DEF SessionInv, DataInv

(* A client creates a request and takes its references. *)
LEMMA SendRequestKeeps ==
    ASSUME SessionInv, NEW x \in Clients, NEW async \in BOOLEAN, SendRequest(x, async)
    PROVE  SessionInv'
<1>i. /\ TypeOK /\ PlacesOK /\ LockHeld /\ ArgsHeld /\ DataInv /\ EndRefs /\ OneCloser
      /\ CutOff /\ WaitersAttended /\ SleepersAwaited
  BY DEF SessionInv, DataInv
<1> DEFINE n == created + 1
<1>q. /\ n \in Requests /\ n \in Nat /\ created \in Nat /\ n = created + 1
      /\ req'[n] = [ref |-> 1, owner |-> x, event |-> async, bound |-> TRUE]
      /\ \A r \in Requests : r # n => req'[r] = req[r]
      /\ req' = [r \in Requests |-> req'[r]]
  <2>1. n \in Requests /\ n \in Nat /\ created \in Nat
    <3>1. created \in 0 .. MaxRequests /\ created < MaxRequests
      BY <1>i DEF SendRequest, TypeOK
    <3> QED
      BY <3>1, SessionAssumption DEF Requests
  <2> QED
    BY <2>1, <1>i DEF SendRequest, TypeOK
<1> HIDE DEF n
<1>a. /\ req'[n].ref = 1 /\ req'[n].owner = x /\ req'[n].event = async /\ req'[n].bound
      /\ req'[n] \in [ref : Nat, owner : Clients \cup {NoThread}, event : BOOLEAN, bound : BOOLEAN]
  BY <1>q
<1>f. /\ UNCHANGED <<state, list, current, mlock, handles, prev, doomed, accepted, signals>>
      /\ "client" \in handles /\ x \notin doomed /\ created' = n
      /\ arg'[x] = n /\ arg' = [u \in Threads |-> arg'[u]]
      /\ \A u \in Threads \ {x} : arg'[u] = arg[u]
      /\ refs'["server"] = refs["server"] /\ refs'["client"] = refs["client"] + 1
      /\ refs'["session"] = refs["session"] + 1 /\ refs' = [e \in EndTypes |-> refs'[e]]
      /\ opened'[x] = opened[x] + 1 /\ opened' = [c \in Clients |-> opened'[c]]
      /\ \A c \in Clients : c # x => opened'[c] = opened[c]
  BY Typed, <1>i, <1>q DEF SendRequest, Goto, EndTypes, Threads, queueVars, objectVars,
     clientVars
<1>p. /\ x \in Threads
      /\ pc[x] = "user" /\ pc'[x] = "send"
      /\ \A u \in Threads \ {x} : pc'[u] = pc[u]
      /\ pc' = [u \in Threads |-> pc'[u]]
  BY <1>i DEF SendRequest, Goto, EndTypes, Threads, PlacesOK, Threads
<1>m. /\ pc[x] \notin Sending /\ pc'[x] \in Sending /\ pc[x] \notin Handling
      /\ pc'[x] \notin Handling /\ pc[x] \notin Receiving /\ pc'[x] \notin Receiving
      /\ pc[x] \notin Taken /\ pc'[x] \notin Taken /\ pc[x] \notin Answering
      /\ pc'[x] \notin Answering /\ pc[x] \notin ServerCalling
      /\ pc'[x] \notin ServerCalling /\ pc[x] \notin ClientClosing
      /\ pc'[x] \notin ClientClosing /\ pc[x] \notin ServerClosing
      /\ pc'[x] \notin ServerClosing /\ pc[x] \notin ClientCleaning
      /\ pc'[x] \notin ClientCleaning /\ pc[x] \notin ServerCleaning
      /\ pc'[x] \notin ServerCleaning /\ pc[x] \notin LockedPlaces
      /\ pc'[x] \notin LockedPlaces /\ pc[x] \in ClientPlaces /\ pc'[x] \in ClientPlaces
      /\ pc[x] \in ServerPlaces /\ pc'[x] \notin ServerPlaces
  BY <1>p DEF SameHand, SameEnds, SameRest, Sending, Receiving, ServerCalling, ClientLooking,
     ClientCleaning, ClientClosing, ServerCleaning, ServerClosing, Handling, LockedPlaces,
     Taken, Answering, ClientPlaces, ServerPlaces
<1>o. \A u \in Threads \ {x} : SamePlaces(u)
  BY <1>p, OthersStay DEF Others
<1>e. EndRefs' /\ OneCloser' /\ refs' \in [EndTypes -> Nat]
  BY <1>i, <1>f, <1>p, <1>m, <1>o, SendBegins DEF SamePlaces, Sending
<1>d. /\ Created /\ ListInjective /\ Exclusive /\ Unsent /\ RefCount
      /\ ThreadRefs /\ EventsSignalled
  BY <1>i DEF DataInv
<1>l. /\ \A v \in Clients : v \in Threads
      /\ \A v \in Servers : v \in Threads /\ v # x
      /\ NoRequest \notin Requests /\ arg[x] = NoRequest /\ prev = NoRequest
      /\ \A u \in Threads : arg[u] # NoRequest => arg[u] \in Requests /\ arg[u] # n
      /\ ~ InList(n) /\ current # n /\ req[n].ref = 0
      /\ n \notin accepted /\ signals[n] = 0 /\ ~ (n <= created)
  <2>1. /\ \A v \in Clients : v \in Threads
        /\ \A v \in Servers : v \in Threads /\ v # x
        /\ NoRequest \notin Requests
    BY SessionAssumption DEF Threads
  <2>2. arg[x] = NoRequest
    BY <1>i, <1>p, <1>m DEF ArgsHeld
  <2>3. n > created /\ ~ (n <= created)
    BY <1>q
  <2>4. /\ req[n].ref = 0 /\ n \notin accepted /\ signals[n] = 0
    BY <2>3, <1>q, <1>d DEF Created
  <2>5. refs["client"] > 0 /\ refs["client"] \in Nat
    BY <1>i, <1>f, CountsPositive
  <2>6. prev = NoRequest
    BY <2>5, <1>i DEF CutOff
  <2>7. \A u \in Threads : arg[u] # NoRequest => arg[u] \in Requests /\ arg[u] # n
    BY <2>3, <1>i, <1>d, HeldExists
  <2>8. ~ InList(n) /\ current # n
    BY <2>3, <1>q, <1>i, <1>d, HeldExists
  <2> QED
    BY <2>1, <2>2, <2>3, <2>4, <2>6, <2>7, <2>8
<1>n. \A r : InList(r)' <=> InList(r)
  BY <1>f DEF InList
<1>s. \A r : Sent(r)' <=> (Sent(r) \/ r = n)
  BY <1>f, <1>p, <1>m, <1>o, <1>l DEF Sent, SamePlaces, SameHand
<1>h. \A r : Handled(r)' <=> Handled(r)
  BY <1>f, <1>p, <1>m DEF Handled
<1>g. \A r : Pending(r)' <=> Pending(r)
  BY <1>f, <1>p, <1>m, <1>n DEF Pending
<1>z. ~ Pending(n) /\ ~ Handled(n) /\ ~ Sent(n)
  <2>1. \A u \in Threads : arg[u] # n
    BY <1>l, <1>q
  <2> QED
    BY <2>1, <1>l DEF Pending, Handled, Sent
<1>w. state' = "ServerClosed" /\ list' # <<>> => \E u \in Threads : pc'[u] \in ServerCleaning
  BY <1>i, <1>f, <1>p, <1>m, <1>o DEF WaitersAttended, SamePlaces, SameRest
<1>r. ThreadRefs' /\ \A c \in Clients : opened'[c] \in Nat
  <2>1. \A u \in Threads : /\ (pc'[u] = "cut_off" <=> pc[u] = "cut_off")
                           /\ (pc[u] = "cut_off" => arg'[u] = arg[u])
    BY <1>p, <1>m, <1>f
  <2>2. ASSUME NEW s \in Servers
        PROVE  /\ pc'[s] = pc[s]
               /\ pc[s] \in Receiving => req'[arg'[s]].owner = req[arg[s]].owner
    <3>1. s \in Threads \ {x}
      BY <1>l
    <3>2. pc[s] \in Receiving => arg[s] \in Requests /\ arg[s] # n
      BY <3>1, <1>i, <1>l DEF ArgsHeld, Handling
    <3> QED
      BY <3>1, <3>2, <1>p, <1>f, <1>q
  <2>3. \A c \in Clients : ReceivedFrom(c)' <=> ReceivedFrom(c)
    BY <2>2 DEF ReceivedFrom
  <2>4. ASSUME NEW c \in Clients, NEW r \in Requests, r # n
        PROVE  r \in BoundTo(c)' <=> r \in BoundTo(c)
    BY <2>1, <2>4, <1>q DEF BoundTo
  <2>5. ASSUME NEW c \in Clients PROVE n \notin BoundTo(c) /\ (n \in BoundTo(c)' <=> c = x)
    BY <1>q, <1>a, <1>l DEF BoundTo
  <2>6. \A c \in Clients : BoundTo(c) \subseteq Requests /\ BoundTo(c)' \subseteq Requests
    BY DEF BoundTo
  <2>7. ASSUME NEW c \in Clients, c # x
        PROVE  opened'[c] = Cardinality(BoundTo(c)') + One(ReceivedFrom(c)')
    <3>1. BoundTo(c)' = BoundTo(c)
      BY <2>4, <2>5, <2>6, <2>7
    <3> QED
      BY <3>1, <2>3, <2>7, <1>d, <1>f DEF ThreadRefs, One
  <2>8. opened'[x] = Cardinality(BoundTo(x)') + One(ReceivedFrom(x)')
    <3>1. BoundTo(x)' = BoundTo(x) \cup {n} /\ n \notin BoundTo(x)
      BY <2>4, <2>5, <2>6, <1>q
    <3>2. Cardinality(BoundTo(x)') = Cardinality(BoundTo(x)) + 1 /\ Cardinality(BoundTo(x)) \in Nat
      BY <3>1, CountedFinite, FS_AddElement
    <3>3. opened[x] = Cardinality(BoundTo(x)) + One(ReceivedFrom(x)) /\ opened'[x] = opened[x] + 1
      BY <1>d, <1>f DEF ThreadRefs
    <3>4. ReceivedFrom(x)' <=> ReceivedFrom(x)
      BY <2>3
    <3> QED
      BY <3>2, <3>3, <3>4 DEF One
  <2>9. \A c \in Clients : opened'[c] \in Nat
    <3>1. \A c \in Clients : opened[c] \in Nat
      BY <1>i DEF TypeOK
    <3> QED
      BY <3>1, <1>f
  <2> QED
    BY <2>7, <2>8, <2>9 DEF ThreadRefs
<1>1. TypeOK'
  <2>1. opened' \in [Clients -> Nat]
    BY <1>f, <1>r
  <2>2. \A u \in Threads : arg'[u] \in Requests \cup {NoRequest}
    BY <1>i, <1>f, <1>q DEF TypeOK
  <2>3. arg' \in [Threads -> Requests \cup {NoRequest}]
    BY <2>2, <1>f
  <2>4. \A r \in Requests : req'[r] \in [ref : Nat, owner : Clients \cup {NoThread},
                                         event : BOOLEAN, bound : BOOLEAN]
    BY <1>i, <1>q, <1>a DEF TypeOK
  <2>5. req' \in [Requests -> [ref : Nat, owner : Clients \cup {NoThread},
                               event : BOOLEAN, bound : BOOLEAN]]
    BY <2>4, <1>q
  <2>6. created' \in 0 .. MaxRequests
    BY <1>f, <1>q, SessionAssumption DEF Requests
  <2> QED
    BY <2>1, <2>3, <2>5, <2>6, <1>e, <1>i, <1>f DEF TypeOK, EndTypes
<1>2. PlacesOK'
  BY <1>i, <1>p, <1>m, <1>o, SessionAssumption DEF PlacesOK, SamePlaces, SameRest, Threads
<1>3. LockHeld'
  BY <1>i, <1>f, <1>p, <1>m, <1>o, SessionAssumption DEF LockHeld, TypeOK, SamePlaces,
     SameRest
<1>4. ArgsHeld'
  BY <1>i, <1>f, <1>p, <1>m, <1>q, <1>l DEF ArgsHeld
<1>5. Created'
  <2>1. ASSUME NEW r \in Requests, r > n
        PROVE  /\ req'[r].owner = NoThread /\ req'[r].ref = 0
               /\ r \notin accepted' /\ signals'[r] = 0
    <3>1. r > created /\ r # n
      BY <2>1, <1>q, <1>i, Typed
    <3> QED
      BY <3>1, <1>d, <1>f, <1>q DEF Created
  <2>2. ASSUME NEW r \in Requests, r <= n PROVE req'[r].owner \in Clients
    <3>1. r <= created \/ r = n
      BY <2>2, <1>q, <1>i, Typed
    <3> QED
      BY <3>1, <1>d, <1>q, <1>a DEF Created
  <2>3. ASSUME NEW c \in Clients, pc'[c] \in Sending PROVE req'[arg'[c]].owner = c
    <3>1. CASE c = x
      BY <3>1, <1>f, <1>a
    <3>2. CASE c # x
      <4>1. c \in Threads \ {x}
        BY <3>2, <1>l
      <4>2. pc[c] \in Sending /\ arg'[c] = arg[c]
        BY <4>1, <2>3, <1>p, <1>f
      <4>3. arg[c] \in Requests /\ arg[c] # n
        BY <4>1, <4>2, <1>i, <1>l DEF ArgsHeld
      <4> QED
        BY <4>2, <4>3, <1>d, <1>q DEF Created
    <3> QED
      BY <3>1, <3>2
  <2> QED
    BY <2>1, <2>2, <2>3, <1>f DEF Created
<1>6. ListInjective'
  BY <1>d, <1>f DEF ListInjective
<1>7. Exclusive'
  BY <1>d, <1>f, <1>p, <1>m, <1>n DEF Exclusive, Handling, Taken, Receiving
<1>8. Unsent'
  <2>1. ASSUME NEW c \in Clients, pc'[c] = "send", c # x
        PROVE  /\ ~ InList(arg[c])' /\ arg'[c] # current' /\ arg'[c] \notin accepted'
               /\ signals'[arg'[c]] = 0 /\ \A u \in Threads : arg'[u] = arg'[c] => u = c
    <3>1. c \in Threads \ {x} /\ pc[c] = "send" /\ arg'[c] = arg[c]
      BY <2>1, <1>l, <1>p, <1>f
    <3>2. arg[c] # n
      BY <3>1, <1>i, <1>l DEF ArgsHeld, Sending
    <3> QED
      BY <3>1, <3>2, <1>d, <1>f, <1>n DEF Unsent
  <2>2. /\ ~ InList(arg[x])' /\ arg'[x] # current' /\ arg'[x] \notin accepted'
        /\ signals'[arg'[x]] = 0 /\ \A u \in Threads : arg'[u] = arg'[x] => u = x
    <3>1. \A u \in Threads \ {x} : arg'[u] # n
      BY <1>l, <1>f, <1>q
    <3> QED
      BY <3>1, <1>f, <1>l, <1>n
  <2> QED
    BY <2>1, <2>2 DEF Unsent
<1>9. RefCount'
  <2> SUFFICES ASSUME NEW r \in Requests
               PROVE  req'[r].ref = One(InList(r)') + One(current' = r) + One(Sent(r)')
                                    + One(Handled(r)')
    BY DEF RefCount
  <2>1. /\ req[r].ref = One(InList(r)) + One(current = r) + One(Sent(r)) + One(Handled(r))
        /\ req[r].ref \in Nat
    BY <1>d, <1>i, Typed DEF RefCount
  <2>2. CASE r = n
    <3>1. /\ ~ InList(r) /\ ~ InList(r)' /\ current # r /\ current' # r
          /\ ~ Sent(r) /\ Sent(r)' /\ ~ Handled(r) /\ ~ Handled(r)'
          /\ req'[r].ref = 1
      BY <2>2, <1>h, <1>s, <1>n, <1>z, <1>l, <1>f, <1>q, <1>a
    <3> QED
      BY <2>1, <3>1 DEF One
  <2>3. CASE r # n
    <3>1. /\ (InList(r)' <=> InList(r)) /\ (current' = r <=> current = r)
          /\ (Sent(r)' <=> Sent(r)) /\ (Handled(r)' <=> Handled(r))
          /\ req'[r].ref = req[r].ref
      BY <2>3, <1>h, <1>s, <1>n, <1>z, <1>l, <1>f, <1>q, <1>a
    <3> QED
      BY <2>1, <3>1 DEF One
  <2> QED
    BY <2>2, <2>3
<1>10. ThreadRefs'
  BY <1>r
<1>11. EventsSignalled'
  <2> SUFFICES ASSUME NEW r \in Requests
               PROVE  /\ signals'[r] <= 1
                      /\ Pending(r)' => signals'[r] = 0
                      /\ req'[r].event /\ r \in accepted' => signals'[r] = 1 \/ Pending(r)'
    BY DEF EventsSignalled
  <2>1. CASE r = n
    BY <2>1, <1>l, <1>z, <1>f, <1>g
  <2>2. CASE r # n
    BY <2>2, <1>d, <1>q, <1>f, <1>g DEF EventsSignalled
  <2> QED
    BY <2>1, <2>2
<1>12. EndRefs'
  BY <1>e
<1>13. OneCloser'
  BY <1>e
<1>14. CutOff'
  <2>1. ASSUME NEW r \in Requests, r <= n, ~ req'[r].bound PROVE FALSE
    <3>1. r # n /\ r <= created
      BY <2>1, <1>a, <1>q, <1>i, Typed
    <3> QED
      BY <2>1, <3>1, <1>i, <1>q, <1>l DEF CutOff
  <2>2. prev' = NoRequest /\ \A u \in Threads : pc'[u] # "cut_off"
    <3>1. refs["client"] > 0 /\ refs["client"] \in Nat
      BY <1>i, <1>f, CountsPositive
    <3>2. \A u \in Threads : pc[u] # "cut_off"
      BY <3>1, <1>i DEF OneCloser, ClientClosing, ClientCleaning, ClientLooking
    <3> QED
      BY <3>2, <1>f, <1>l, <1>p
  <2> QED
    BY <2>1, <2>2, <1>f DEF CutOff
<1>15. WaitersAttended'
  <2>1. ASSUME NEW c \in Clients, pc'[c] = "waiting"
        PROVE  pc[c] = "waiting" /\ arg'[c] = arg[c] /\ arg[c] \in Requests /\ arg[c] # n
    <3>1. c \in Threads \ {x} /\ pc[c] = "waiting" /\ arg'[c] = arg[c]
      BY <2>1, <1>l, <1>p, <1>f
    <3> QED
      BY <3>1, <1>i, <1>l DEF ArgsHeld, Sending
  <2>2. \A c \in Clients : pc'[c] = "waiting" =>
           ~ req'[arg'[c]].event /\ c \notin doomed' /\ Pending(arg[c])'
    BY <2>1, <1>i, <1>f, <1>g, <1>q DEF WaitersAttended
  <2> QED
    BY <2>2, <1>w DEF WaitersAttended
<1>16. SleepersAwaited'
  BY <1>i, <1>f, <1>p, <1>m, <1>o, <1>l DEF SleepersAwaited, IsClosed, SamePlaces, SameHand,
     SameRest
<1> QED
  BY <1>1, <1>2, <1>3, <1>4, <1>5, <1>6, <1>7, <1>8, <1>9, <1>10, <1>11, <1>12, <1>13, <1>14,
     <1>15, <1>16 DEF SessionInv, DataInv

(* KSessionRequest::Open, by fields. *)
LEMMA RequestOpens ==
    ASSUME TypeOK, NEW r \in Requests, req' = [req EXCEPT ![r].ref = @ + 1]
    PROVE  /\ req' \in [Requests -> [ref : Nat, owner : Clients \cup {NoThread},
                                     event : BOOLEAN, bound : BOOLEAN]]
           /\ \A x \in Requests : /\ req'[x].owner = req[x].owner /\ req'[x].event = req[x].event
                                  /\ req'[x].bound = req[x].bound
                                  /\ x # r => req'[x].ref = req[x].ref
           /\ req'[r].ref = req[r].ref + 1
<1>1. \A x \in Requests : req[x] \in [ref : Nat, owner : Clients \cup {NoThread},
                                      event : BOOLEAN, bound : BOOLEAN]
  BY DEF TypeOK
<1>3. \A x \in Requests : x # r => req'[x] = req[x]
  BY DEF TypeOK
<1>4. req'[r] = [req[r] EXCEPT !.ref = @ + 1]
  BY DEF TypeOK
<1>5. /\ req'[r].ref = req[r].ref + 1 /\ req'[r].owner = req[r].owner
      /\ req'[r].event = req[r].event /\ req'[r].bound = req[r].bound
      /\ req'[r] \in [ref : Nat, owner : Clients \cup {NoThread}, event : BOOLEAN, bound : BOOLEAN]
  BY <1>1, <1>4
<1>6. req' \in [Requests -> [ref : Nat, owner : Clients \cup {NoThread},
                             event : BOOLEAN, bound : BOOLEAN]]
  <2>1. \A x \in Requests : req'[x] \in [ref : Nat, owner : Clients \cup {NoThread},
                                         event : BOOLEAN, bound : BOOLEAN]
    BY <1>1, <1>3, <1>5
  <2>2. req' = [x \in Requests |-> req'[x]]
    BY DEF TypeOK
  <2> QED
    BY <2>1, <2>2
<1> QED
  BY <1>3, <1>5, <1>6

(* OnRequest queues the request and wakes the servers if the queue was empty. *)
LEMMA OnRequestKeeps ==
    ASSUME SessionInv, NEW x \in Clients, OnRequest(x)
    PROVE  SessionInv'
<1>i. /\ TypeOK /\ PlacesOK /\ LockHeld /\ ArgsHeld /\ DataInv /\ EndRefs /\ OneCloser
      /\ CutOff /\ WaitersAttended /\ SleepersAwaited
  BY DEF SessionInv, DataInv
<1>f. /\ UNCHANGED <<state, current, mlock, refs, handles, created, arg, prev, doomed,
                     opened, signals>>
      /\ state = "Normal" /\ x \notin doomed /\ list' = Append(list, arg[x])
      /\ req' = [req EXCEPT ![arg[x]].ref = @ + 1]
      /\ accepted' = IF req[arg[x]].event THEN accepted \cup {arg[x]} ELSE accepted
  BY <1>i DEF OnRequest, Accept, Notified, IsSignaled, IsClosed, queueVars, objectVars,
     clientVars
<1>p. /\ x \in Threads
      /\ pc[x] = "send" /\ pc'[x] \in {"sent", "waiting"}
      /\ (pc'[x] = "waiting" => ~ req[arg[x]].event)
      /\ (list = <<>> /\ list' # <<>> /\ current = NoRequest =>
             \A u \in Threads : pc'[u] # "asleep")
      /\ \A u \in Threads \ {x} : pc'[u] = pc[u] \/ (pc[u] = "asleep" /\ pc'[u] = "receive")
      /\ pc' = [u \in Threads |-> pc'[u]]
  BY <1>i DEF OnRequest, Accept, Notified, IsSignaled, IsClosed, PlacesOK, Threads
<1>m. /\ SameHand(x) /\ SameEnds(x) /\ pc[x] \notin ClientClosing
      /\ pc'[x] \notin ClientClosing /\ pc[x] \notin ClientCleaning
      /\ pc'[x] \notin ClientCleaning /\ pc[x] \notin ServerCleaning
      /\ pc'[x] \notin ServerCleaning /\ pc[x] \notin LockedPlaces
      /\ pc'[x] \notin LockedPlaces /\ pc[x] \in ClientPlaces /\ pc'[x] \in ClientPlaces
      /\ pc[x] \notin ServerPlaces /\ pc'[x] \notin ServerPlaces /\ pc'[x] # "received"
      /\ pc'[x] # "receiving" /\ pc'[x] # "cut_off" /\ pc'[x] # "send" /\ pc'[x] # "asleep"
  BY <1>p DEF SameHand, SameEnds, SameRest, Sending, Receiving, ServerCalling, ClientLooking,
     ClientCleaning, ClientClosing, ServerCleaning, ServerClosing, Handling, LockedPlaces,
     Taken, Answering, ClientPlaces, ServerPlaces
<1>o. \A u \in Threads \ {x} : SamePlaces(u)
  BY <1>p, OthersStay DEF Others
<1>d. /\ Created /\ ListInjective /\ Exclusive /\ Unsent /\ RefCount
      /\ ThreadRefs /\ EventsSignalled
  BY <1>i DEF DataInv
<1>l. /\ \A v \in Clients : v \in Threads
      /\ \A v \in Servers : v \in Threads /\ v # x
      /\ NoRequest \notin Requests
      /\ arg[x] \in Requests /\ arg[x] <= created /\ req[arg[x]].ref > 0 /\ req[arg[x]].owner = x
      /\ \A u \in Threads : arg[u] # NoRequest => arg[u] \in Requests
      /\ ~ InList(arg[x]) /\ current # arg[x] /\ signals[arg[x]] = 0
      /\ \A u \in Threads : arg[u] = arg[x] => u = x
  <2>1. /\ \A v \in Clients : v \in Threads
        /\ \A v \in Servers : v \in Threads /\ v # x
        /\ NoRequest \notin Requests
    BY SessionAssumption DEF Threads
  <2>2. \A u \in Threads : arg[u] # NoRequest => arg[u] \in Requests
    BY <1>i DEF TypeOK
  <2>3. arg[x] # NoRequest /\ req[arg[x]].owner = x
    BY <1>i, <1>d, <1>p, <1>m DEF ArgsHeld, Created, Sending
  <2>4. /\ ~ InList(arg[x]) /\ current # arg[x] /\ signals[arg[x]] = 0
        /\ \A u \in Threads : arg[u] = arg[x] => u = x
    BY <1>d, <1>p DEF Unsent
  <2> QED
    BY <2>1, <2>2, <2>3, <2>4, <1>d, <1>i, <1>p, HeldExists
<1>n. /\ list' \in Seq(Requests) /\ IsInjective(list')
      /\ \A r : InList(r)' <=> (InList(r) \/ r = arg[x])
  BY <1>f, <1>l, <1>i, <1>d, ListAppend DEF InList, ListInjective, TypeOK
<1>c. /\ req' \in [Requests -> [ref : Nat, owner : Clients \cup {NoThread},
                                event : BOOLEAN, bound : BOOLEAN]]
      /\ \A r \in Requests : /\ req'[r].owner = req[r].owner /\ req'[r].event = req[r].event
                             /\ req'[r].bound = req[r].bound
                             /\ r # arg[x] => req'[r].ref = req[r].ref
      /\ req'[arg[x]].ref = req[arg[x]].ref + 1
  BY <1>i, <1>f, <1>l, RequestOpens
<1>s. \A r : Sent(r)' <=> Sent(r)
  BY <1>f, <1>m, <1>o, <1>l DEF Sent, SamePlaces, SameHand
<1>h. \A r : Handled(r)' <=> Handled(r)
  BY <1>f, <1>p, <1>m, <1>o DEF Handled, SamePlaces, SameHand
<1>g. \A r : Pending(r)' <=> (Pending(r) \/ r = arg[x])
  BY <1>f, <1>m, <1>o, <1>n DEF Pending, SamePlaces, SameHand
<1>1. TypeOK'
  BY <1>c, <1>n, <1>i, <1>f, <1>l DEF TypeOK
<1>2. PlacesOK'
  BY <1>i, <1>p, <1>m, <1>o, SessionAssumption DEF PlacesOK, SamePlaces, SameRest, Threads
<1>3. LockHeld'
  BY <1>i, <1>f, <1>p, <1>m, <1>o, SessionAssumption DEF LockHeld, TypeOK, SamePlaces,
     SameRest
<1>4. ArgsHeld'
  BY <1>i, <1>f, <1>p, <1>m, <1>o DEF ArgsHeld, SamePlaces, SameHand
<1>5. Created'
  <2>1. ASSUME NEW r \in Requests, r > created
        PROVE  /\ req'[r].owner = NoThread /\ req'[r].ref = 0
               /\ r \notin accepted' /\ signals'[r] = 0
    <3>1. r # arg[x]
      BY <2>1, <1>l, <1>i, Typed
    <3> QED
      BY <3>1, <2>1, <1>d, <1>f, <1>c DEF Created
  <2>2. ASSUME NEW r \in Requests, r <= created PROVE req'[r].owner \in Clients
    BY <2>2, <1>d, <1>c DEF Created
  <2>3. ASSUME NEW c \in Clients, pc'[c] \in Sending PROVE req'[arg'[c]].owner = c
    <3>1. pc[c] \in Sending /\ arg'[c] = arg[c] /\ c \in Threads
      BY <2>3, <1>l, <1>m, <1>o, <1>f DEF SamePlaces, SameHand
    <3>2. arg[c] \in Requests
      BY <3>1, <1>i, <1>l DEF ArgsHeld
    <3> QED
      BY <3>1, <3>2, <1>d, <1>c DEF Created
  <2> QED
    BY <2>1, <2>2, <2>3, <1>f DEF Created
<1>6. ListInjective'
  BY <1>n DEF ListInjective
<1>7. Exclusive'
  <2>1. \A u \in Threads : pc[u] \in Handling => arg[u] # arg[x]
    BY <1>l, <1>p, <1>m DEF Handling, Receiving, ClientLooking
  <2> QED
    BY <2>1, <1>d, <1>f, <1>m, <1>o, <1>l, <1>n DEF Exclusive, SamePlaces, SameHand
<1>8. Unsent'
  BY <1>d, <1>f, <1>p, <1>m, <1>o, <1>l, <1>n, <1>i, UnsentStep DEF SamePlaces, SameHand
<1>9. RefCount'
  <2> SUFFICES ASSUME NEW r \in Requests
               PROVE  req'[r].ref = One(InList(r)') + One(current' = r) + One(Sent(r)')
                                    + One(Handled(r)')
    BY DEF RefCount
  <2>1. /\ req[r].ref = One(InList(r)) + One(current = r) + One(Sent(r)) + One(Handled(r))
        /\ req[r].ref \in Nat
    BY <1>d, <1>i, Typed DEF RefCount
  <2>2. CASE r = arg[x]
    <3>1. /\ ~ InList(r) /\ InList(r)' /\ current # r /\ current' # r
          /\ (Sent(r)' <=> Sent(r)) /\ (Handled(r)' <=> Handled(r))
          /\ req'[r].ref = req[r].ref + 1
      BY <2>2, <1>h, <1>s, <1>n, <1>l, <1>f, <1>c
    <3> QED
      BY <2>1, <3>1 DEF One
  <2>3. CASE r # arg[x]
    <3>1. /\ (InList(r)' <=> InList(r)) /\ (current' = r <=> current = r)
          /\ (Sent(r)' <=> Sent(r)) /\ (Handled(r)' <=> Handled(r))
          /\ req'[r].ref = req[r].ref
      BY <2>3, <1>h, <1>s, <1>n, <1>l, <1>f, <1>c
    <3> QED
      BY <2>1, <3>1 DEF One
  <2> QED
    BY <2>2, <2>3
<1>10. ThreadRefs'
  <2>1. ASSUME NEW c \in Clients PROVE BoundTo(c)' = BoundTo(c)
    <3>1. \A u \in Threads : (pc'[u] = "cut_off" <=> pc[u] = "cut_off") /\ arg'[u] = arg[u]
      BY <1>f, <1>m, <1>o DEF SamePlaces, SameHand
    <3>2. \A r \in Requests : req'[r].ref > 0 <=> req[r].ref > 0
      <4>1. req[arg[x]].ref \in Nat
        BY <1>l, <1>i, Typed
      <4> QED
        BY <4>1, <1>c, <1>l
    <3> QED
      BY <3>1, <3>2, <1>c DEF BoundTo
  <2>2. ASSUME NEW s \in Servers
        PROVE  /\ pc'[s] \in Receiving <=> pc[s] \in Receiving
               /\ pc[s] \in Receiving => req'[arg'[s]].owner = req[arg[s]].owner
    <3>1. s \in Threads \ {x}
      BY <1>l
    <3>2. pc[s] \in Receiving => arg[s] \in Requests
      BY <3>1, <1>i, <1>l DEF ArgsHeld, Handling
    <3> QED
      BY <3>1, <3>2, <1>o, <1>f, <1>c DEF SamePlaces, SameHand
  <2>3. \A c \in Clients : ReceivedFrom(c)' <=> ReceivedFrom(c)
    BY <2>2 DEF ReceivedFrom
  <2> QED
    BY <2>1, <2>3, <1>d, <1>f DEF ThreadRefs, One
<1>11. EventsSignalled'
  <2> SUFFICES ASSUME NEW r \in Requests
               PROVE  /\ signals'[r] <= 1
                      /\ Pending(r)' => signals'[r] = 0
                      /\ req'[r].event /\ r \in accepted' => signals'[r] = 1 \/ Pending(r)'
    BY DEF EventsSignalled
  <2>1. CASE r = arg[x]
    BY <2>1, <1>l, <1>f, <1>g
  <2>2. CASE r # arg[x]
    BY <2>2, <1>d, <1>c, <1>f, <1>g DEF EventsSignalled
  <2> QED
    BY <2>1, <2>2
<1>12. EndRefs'
  BY <1>i, <1>f, <1>m, <1>o, EndsKept DEF SamePlaces
<1>13. OneCloser'
  BY <1>i, <1>f, <1>m, <1>o, EndsKept DEF SamePlaces
<1>14. CutOff'
  BY <1>c, <1>i, <1>f, <1>p, <1>m, <1>o, <1>l DEF CutOff, SamePlaces, SameHand, SameEnds,
     SameRest
<1>15. WaitersAttended'
  <2>1. ASSUME NEW c \in Clients, pc'[c] = "waiting"
        PROVE  ~ req'[arg'[c]].event /\ c \notin doomed' /\ Pending(arg[c])'
    <3>1. CASE c = x
      BY <3>1, <2>1, <1>p, <1>f, <1>c, <1>l, <1>g
    <3>2. CASE c # x
      <4>1. c \in Threads \ {x} /\ pc[c] = "waiting" /\ arg'[c] = arg[c]
        BY <2>1, <3>2, <1>l, <1>o, <1>f DEF SamePlaces, SameRest
      <4>2. arg[c] \in Requests
        BY <4>1, <1>i, <1>l DEF ArgsHeld, Sending
      <4> QED
        BY <4>1, <4>2, <1>i, <1>f, <1>c, <1>g DEF WaitersAttended
    <3> QED
      BY <3>1, <3>2
  <2> QED
    BY <2>1, <1>f DEF WaitersAttended
<1>16. SleepersAwaited'
  <2>1. ASSUME NEW s \in Servers, pc'[s] = "asleep", list' # <<>>, current = NoRequest
        PROVE  \E u \in Threads : pc'[u] = "received"
    <3>1. s \in Threads \ {x} /\ pc[s] = "asleep" /\ list # <<>>
      BY <2>1, <1>l, <1>o, <1>p DEF SamePlaces, SameRest
    <3> QED
      BY <3>1, <2>1, <1>i, <1>f, <1>m, <1>o DEF SleepersAwaited, IsClosed, SamePlaces,
         SameHand
  <2> QED
    BY <2>1, <1>f DEF SleepersAwaited, IsClosed
<1> QED
  BY <1>1, <1>2, <1>3, <1>4, <1>5, <1>6, <1>7, <1>8, <1>9, <1>10, <1>11, <1>12, <1>13, <1>14,
     <1>15, <1>16 DEF SessionInv, DataInv

-----------------------------------------------------------------------------
(* The initial state: the session is open and nobody is in a call. *)
LEMMA SessionStart == Init => SessionInv
<1> SUFFICES ASSUME Init PROVE SessionInv
  OBVIOUS
<1>1. /\ state = "Normal" /\ list = <<>> /\ current = NoRequest /\ mlock = NoThread
      /\ refs = [session |-> 2, client |-> 1, server |-> 1] /\ handles = {"client", "server"}
      /\ created = 0 /\ prev = NoRequest /\ doomed = {} /\ accepted = {}
      /\ req = [r \in Requests |-> NewRequest] /\ pc = [t \in Threads |-> "user"]
      /\ arg = [t \in Threads |-> NoRequest]
      /\ opened = [c \in Clients |-> 0] /\ signals = [r \in Requests |-> 0]
  BY DEF Init
<1>2. /\ \A r \in Requests : /\ req[r].ref = 0 /\ req[r].owner = NoThread
                             /\ ~ req[r].event /\ ~ req[r].bound /\ signals[r] = 0
      /\ \A t \in Threads : pc[t] = "user" /\ arg[t] = NoRequest
      /\ refs["client"] = 1 /\ refs["server"] = 1 /\ refs["session"] = 2
  BY <1>1 DEF NewRequest
<1>3. /\ \A r : ~ InList(r)
      /\ \A r : ~ Sent(r) /\ ~ Handled(r)
      /\ \A v \in Clients : v \in Threads
      /\ \A v \in Servers : v \in Threads
      /\ NoRequest \notin Requests /\ NoThread \notin Threads
      /\ \A r \in Requests : r \in Nat /\ r > 0
  <2>1. \A v \in Clients : v \in Threads
    BY DEF Threads
  <2>2. \A v \in Servers : v \in Threads
    BY DEF Threads
  <2>3. \A r : ~ InList(r)
    BY <1>1 DEF InList, ToSet
  <2>4. \A r : ~ Sent(r) /\ ~ Handled(r)
    BY <1>2, <2>1 DEF Sent, Handled, Sending, Handling, Receiving, ClientLooking
  <2> QED
    BY <2>1, <2>2, <2>3, <2>4, SessionAssumption DEF Requests
<1>4. \A r \in Requests : ~ Pending(r)
  BY <1>1, <1>2, <1>3 DEF Pending, Answering
<1>5. TypeOK
  <2>1. /\ list \in Seq(Requests) /\ refs \in [{"session", "client", "server"} -> Nat]
        /\ created \in 0 .. MaxRequests
    BY <1>1, SessionAssumption
  <2>2. /\ req \in [Requests -> [ref : Nat, owner : Clients \cup {NoThread},
                                 event : BOOLEAN, bound : BOOLEAN]]
        /\ arg \in [Threads -> Requests \cup {NoRequest}]
        /\ opened \in [Clients -> Nat] /\ signals \in [Requests -> Nat]
    BY <1>1 DEF NewRequest
  <2> QED
    BY <1>1, <2>1, <2>2 DEF TypeOK
<1>6. PlacesOK /\ LockHeld /\ ArgsHeld
  BY <1>1, <1>2, <1>3 DEF PlacesOK, LockHeld, ArgsHeld, ClientPlaces, ServerPlaces,
     LockedPlaces, Handling, Receiving, ClientLooking, Sending
<1>7. Created
  BY <1>1, <1>2, <1>3 DEF Created, Sending
<1>8. ListInjective /\ Exclusive /\ Unsent
  BY <1>1, <1>2, <1>3 DEF ListInjective, IsInjective, Exclusive, Unsent, Handling, Receiving,
     ClientLooking, Taken
<1>9. RefCount
  BY <1>1, <1>2, <1>3 DEF RefCount, One
<1>10. EndRefs /\ OneCloser
  <2>1. Senders = {} /\ Callers = {}
    BY <1>2, <1>3 DEF Senders, Callers, Sending, ServerCalling, Receiving
  <2>2. Cardinality(Senders) = 0 /\ Cardinality(Callers) = 0
    BY <2>1, FS_EmptySet
  <2>3. ClientAlive /\ ServerAlive
    BY <1>2 DEF ClientAlive, ServerAlive
  <2>4. EndRefs
    BY <2>2, <2>3, <1>1, <1>2 DEF EndRefs, One
  <2>5. OneCloser
    BY <1>1, <1>2 DEF OneCloser, ClientClosing, ServerClosing, ClientCleaning, ServerCleaning,
       ClientLooking
  <2> QED
    BY <2>4, <2>5
<1>11. CutOff
  BY <1>1, <1>2, <1>3 DEF CutOff
<1>12. ThreadRefs
  <2> SUFFICES ASSUME NEW c \in Clients
               PROVE  opened[c] = Cardinality(BoundTo(c)) + One(ReceivedFrom(c))
    BY DEF ThreadRefs
  <2>1. BoundTo(c) = {}
    BY <1>2 DEF BoundTo
  <2>2. Cardinality(BoundTo(c)) = 0
    BY <2>1, FS_EmptySet
  <2>3. ~ ReceivedFrom(c)
    BY <1>2, <1>3 DEF ReceivedFrom, Receiving
  <2> QED
    BY <2>2, <2>3, <1>1 DEF One
<1>13. WaitersAttended /\ EventsSignalled /\ SleepersAwaited
  BY <1>1, <1>2, <1>3, <1>4 DEF WaitersAttended, EventsSignalled, SleepersAwaited
<1> QED
  BY <1>5, <1>6, <1>7, <1>8, <1>9, <1>10, <1>11, <1>12, <1>13 DEF SessionInv

(* A step that changes nothing. *)
LEMMA SessionStutters ==
    ASSUME SessionInv, UNCHANGED vars PROVE SessionInv'
<1>u. UNCHANGED <<state, list, current, mlock, refs, handles, req, created, pc, arg, prev,
                  doomed, accepted, opened, signals>>
  BY DEF vars, queueVars, objectVars, clientVars
<1>i. /\ TypeOK /\ PlacesOK /\ LockHeld /\ ArgsHeld /\ DataInv /\ EndRefs /\ OneCloser
      /\ CutOff /\ WaitersAttended /\ SleepersAwaited
  BY DEF SessionInv, DataInv
<1>1. \A t \in Threads : SameHand(t) /\ SameEnds(t)
  BY <1>u DEF SameHand, SameEnds
<1>2. DataInv'
  BY <1>i, <1>u, <1>1, DataKept DEF dataVars
<1>3. EndRefs' /\ OneCloser'
  BY <1>i, <1>u, <1>1, EndsKept
<1>4. TypeOK' /\ PlacesOK' /\ LockHeld' /\ ArgsHeld' /\ CutOff'
  BY <1>i, <1>u DEF TypeOK, PlacesOK, LockHeld, ArgsHeld, CutOff
<1>5. WaitersAttended' /\ SleepersAwaited'
  BY <1>i, <1>u DEF WaitersAttended, SleepersAwaited, Pending, InList, IsClosed
<1> QED
  BY <1>2, <1>3, <1>4, <1>5 DEF SessionInv, DataInv

(* A thread in the kernel takes a step. *)
LEMMA ThreadStepKeeps ==
    ASSUME SessionInv, NEW t \in Threads, Step(t) PROVE SessionInv'
<1>1. CASE t \in Clients /\ (OnRequestRefused(t) \/ OnRequest(t) \/ SendReturns(t))
  BY <1>1, OnRequestRefusedKeeps, OnRequestKeeps, SendReturnsKeeps
<1>2. CASE t \in Servers /\ \/ WaitAgain(t) \/ ServerReturns(t)
                            \/ ReceiveNothing(t) \/ ReceivePop(t) \/ ReceiveSetCurrent(t)
  BY <1>2, WaitAgainKeeps, ServerReturnsKeeps, ReceiveNothingKeeps, ReceivePopKeeps,
     ReceiveSetCurrentKeeps
<1>3. CASE t \in Servers /\ \/ ReceiveSucceeds(t) \/ ReceiveFails(t)
                            \/ ReceiveFailsAnswer(t) \/ ReceiveFailsReturns(t)
  BY <1>3, ReceiveSucceedsKeeps, ReceiveFailsKeeps, ReceiveFailsAnswerKeeps,
     ReceiveFailsReturnsKeeps
<1>4. CASE t \in Servers /\ \/ ReplyNothing(t) \/ ReplyTake(t)
                            \/ ReplyAnswer(t) \/ ReplyReturns(t)
  BY <1>4, ReplyNothingKeeps, ReplyTakeKeeps, ReplyAnswerKeeps, ReplyAnswerNobody,
     ReplyReturnsKeeps
<1>5. CASE \E end \in {"client", "server"} : Destroy(t, end) \/ SetClosed(t, end)
  <2>1. CASE Destroy(t, "client") \/ SetClosed(t, "client")
    BY <2>1, ClientDestroyKeeps, ClientDestroyGoesOn, ClientSetClosedKeeps
  <2>2. CASE Destroy(t, "server") \/ SetClosed(t, "server")
    BY <2>2, ServerDestroyKeeps, ServerSetClosedKeeps
  <2> QED
    BY <1>5, <2>1, <2>2
<1>6. CASE CleanupTake(t) \/ CleanupClose(t) \/ CleanupReturns(t)
  BY <1>6, CleanupTakeCurrent, CleanupTakeQueued, CleanupCloseKeeps, CleanupReturnsKeeps
<1>7. CASE CleanupAnswer(t)
  <2>1. pc[t] = "cleaning"
    BY <1>7 DEF CleanupAnswer
  <2>2. \A c \in Clients : pc[c] # "cleaning"
    BY DEF SessionInv, PlacesOK, ClientPlaces, ClientClosing, ClientCleaning, ClientLooking,
       Sending
  <2>3. t \in Servers
    BY <2>1, <2>2 DEF Threads
  <2> QED
    BY <1>7, <2>3, CleanupAnswerKeeps, CleanupAnswerNobody
<1>8. CASE ClientClosedCurrent(t) \/ ClientClosedPop(t) \/ ClientClosedSignal(t)
  BY <1>8, ClientClosedCurrentKeeps, ClientClosedPopKeeps, ClientClosedSignalKeeps
<1>9. CASE ClientClosedCutOff(t) \/ ClientClosedClose(t) \/ ClientClosedNotify(t)
  BY <1>9, ClientClosedCutOffKeeps, ClientClosedCloseKeeps, ClientClosedNotifyKeeps
<1>10. CASE Lock(t)
  BY <1>10, LockKeeps
<1> QED
  BY <1>1, <1>2, <1>3, <1>4, <1>5, <1>6, <1>7, <1>8, <1>9, <1>10 DEF Step

(* Every step keeps the invariant. *)
LEMMA SessionStep == SessionInv /\ [Next]_vars => SessionInv'
<1> SUFFICES ASSUME SessionInv, [Next]_vars PROVE SessionInv'
  OBVIOUS
<1>1. ASSUME NEW c \in Clients, NEW async \in BOOLEAN, SendRequest(c, async) PROVE SessionInv'
  BY <1>1, SendRequestKeeps
<1>2. ASSUME NEW c \in Clients, RequestTerminate(c) PROVE SessionInv'
  BY <1>2, RequestTerminateKeeps, RequestTerminateRunning
<1>3. ASSUME NEW s \in Servers, Wait(s) \/ WaitEnds(s) \/ Reply(s) PROVE SessionInv'
  BY <1>3, WaitKeeps, WaitEndsKeeps, ReplyKeeps
<1>4. ASSUME NEW t \in Threads, NEW end \in {"client", "server"}, CloseHandle(t, end)
      PROVE  SessionInv'
  <2>1. CASE end = "client"
    <3>1. t \in Clients
      BY <1>4, <2>1 DEF CloseHandle
    <3> QED
      BY <1>4, <2>1, <3>1, ClientHandleKeeps
  <2>2. CASE end = "server"
    <3>1. t \in Servers
      BY <1>4, <2>2 DEF CloseHandle
    <3> QED
      BY <1>4, <2>2, <3>1, ServerHandleKeeps
  <2> QED
    BY <2>1, <2>2
<1>5. ASSUME NEW t \in Threads, Step(t) PROVE SessionInv'
  BY <1>5, ThreadStepKeeps
<1>6. CASE UNCHANGED vars
  BY <1>6, SessionStutters
<1> QED
  BY <1>1, <1>2, <1>3, <1>4, <1>5, <1>6 DEF Next

(* The invariant of a session: where every request is, who refers to it    *)
(* and to its thread, who holds m_lock, and how far each end is closed.    *)
THEOREM SessionInvariant == Spec => []SessionInv
<1> QED
  BY SessionStart, SessionStep, PTL DEF Spec

-----------------------------------------------------------------------------
(* A set with at most one element is counted by whether it has one. *)
LEMMA AtMostOne ==
    ASSUME NEW S, \A x, y \in S : x = y PROVE Cardinality(S) = One(S # {})
<1>1. CASE S = {}
  BY <1>1, FS_EmptySet DEF One
<1>2. CASE S # {}
  <2>1. PICK x \in S : TRUE
    BY <1>2
  <2>2. S = {x}
    BY <2>1
  <2> QED
    BY <2>2, <1>2, FS_Singleton DEF One
<1> QED
  BY <1>1, <1>2

(* Two disjoint sets of at most one element. *)
LEMMA AtMostOneEach ==
    ASSUME NEW S, NEW T, \A x, y \in S : x = y, \A x, y \in T : x = y, S \cap T = {}
    PROVE  Cardinality(S \cup T) = One(S # {}) + One(T # {})
<1>1. CASE S = {}
  <2>1. S \cup T = T
    BY <1>1
  <2>2. Cardinality(T) = One(T # {})
    BY AtMostOne
  <2> QED
    BY <1>1, <2>1, <2>2 DEF One
<1>2. CASE T = {}
  <2>1. S \cup T = S
    BY <1>2
  <2>2. Cardinality(S) = One(S # {})
    BY AtMostOne
  <2> QED
    BY <1>2, <2>1, <2>2 DEF One
<1>3. CASE S # {} /\ T # {}
  <2>1. PICK x \in S, y \in T : TRUE
    BY <1>3
  <2>2. S = {x} /\ T = {y} /\ y \notin S
    BY <2>1
  <2>3. S \cup T = {x} \cup {y} /\ y \notin {x}
    BY <2>2
  <2>4. IsFiniteSet({x}) /\ Cardinality({x}) = 1
    BY FS_Singleton
  <2>5. Cardinality({x} \cup {y}) = 2
    BY <2>3, <2>4, FS_AddElement
  <2> QED
    BY <1>3, <2>3, <2>5 DEF One
<1> QED
  BY <1>1, <1>2, <1>3

(* The count of the references to a request is that of its holders. *)
LEMMA HoldersCounted == SessionInv => RequestReferences
<1> SUFFICES ASSUME SessionInv, NEW r \in Requests PROVE req[r].ref = Holders(r)
  BY DEF RequestReferences
<1>i. /\ TypeOK /\ PlacesOK /\ LockHeld /\ ArgsHeld /\ Created /\ ListInjective /\ RefCount
  BY DEF SessionInv
<1> DEFINE L == {i \in DOMAIN list : list[i] = r}
           S == {c \in Clients : pc[c] \in Sending /\ arg[c] = r}
           H == {t \in Threads : pc[t] \in Handling /\ pc[t] # "receiving" /\ arg[t] = r}
<1>1. Cardinality(L) = One(InList(r))
  <2>1. \A i, j \in L : i = j
    BY <1>i DEF ListInjective, IsInjective
  <2>2. L # {} <=> InList(r)
    BY DEF InList, ToSet
  <2>3. Cardinality(L) = One(L # {})
    BY <2>1, AtMostOne
  <2> QED
    BY <2>2, <2>3 DEF One
<1>2. {t \in Threads : arg[t] = r /\ pc[t] # "receiving"} = S \cup H
  <2>1. r # NoRequest /\ \A c \in Clients : c \in Threads
    BY SessionAssumption DEF Threads
  <2>2. \A t \in Threads : arg[t] = r => pc[t] \in Sending \/ pc[t] \in Handling
    BY <2>1, <1>i DEF ArgsHeld
  <2>3. \A t \in Threads : pc[t] \in Sending => t \in Clients /\ pc[t] # "receiving"
    BY <1>i DEF PlacesOK, Threads, ServerPlaces, ServerCalling, ServerClosing, ServerCleaning,
       Receiving, Sending
  <2> QED
    BY <2>1, <2>2, <2>3
<1>3. S \cap H = {}
  BY DEF Sending, Handling, Receiving, ClientLooking
<1>4. \A x, y \in S : x = y
  BY <1>i DEF Created
<1>5. \A x, y \in H : x = y
  BY <1>i DEF LockHeld, LockedPlaces
<1>6. Cardinality(S \cup H) = One(S # {}) + One(H # {})
  BY <1>3, <1>4, <1>5, AtMostOneEach
<1>7. (S # {} <=> Sent(r)) /\ (H # {} <=> Handled(r))
  BY DEF Sent, Handled
<1>8. Cardinality(S \cup H) = One(Sent(r)) + One(Handled(r))
  BY <1>6, <1>7 DEF One
<1>9. Holders(r) = One(InList(r)) + One(current = r) + (One(Sent(r)) + One(Handled(r)))
  BY <1>1, <1>2, <1>8 DEF Holders, One
<1>10. req[r].ref = One(InList(r)) + One(current = r) + One(Sent(r)) + One(Handled(r))
  BY <1>i DEF RefCount
<1> QED
  BY <1>9, <1>10 DEF One

(* The references to a client's thread, as they are counted. *)
LEMMA ThreadsCounted == SessionInv => ThreadReferences
<1> SUFFICES ASSUME SessionInv PROVE ThreadReferences
  OBVIOUS
<1>i. TypeOK /\ PlacesOK /\ LockHeld /\ ArgsHeld /\ ThreadRefs
  BY DEF SessionInv
<1>1. ASSUME NEW c \in Clients
      PROVE  Cardinality({s \in Servers : /\ arg[s] # NoRequest /\ req[arg[s]].owner = c
                                          /\ pc[s] \in {"received", "receiving",
                                                "receive_failed", "receive_answered"}})
             = One(ReceivedFrom(c))
  <2> DEFINE R == {s \in Servers : /\ arg[s] # NoRequest /\ req[arg[s]].owner = c
                                   /\ pc[s] \in {"received", "receiving",
                                                 "receive_failed", "receive_answered"}}
  <2>1. \A s \in Servers : s \in Threads
    BY DEF Threads
  <2>2. \A x, y \in R : x = y
    BY <2>1, <1>i DEF LockHeld, LockedPlaces, Handling, Receiving
  <2>3. \A s \in Servers : pc[s] \in Receiving => arg[s] # NoRequest
    BY <2>1, <1>i DEF ArgsHeld, Handling
  <2>4. R # {} <=> ReceivedFrom(c)
    BY <2>3 DEF ReceivedFrom, Receiving
  <2>5. Cardinality(R) = One(R # {})
    BY <2>2, AtMostOne
  <2> QED
    BY <2>4, <2>5 DEF One
<1> QED
  BY <1>1, <1>i DEF ThreadReferences, ThreadRefs, BoundTo

(* Whoever is in the session's code keeps the session. *)
LEMMA SessionHeld == SessionInv => SessionOutlivesUse
<1> SUFFICES ASSUME SessionInv, NEW t \in Threads, pc[t] # "user" PROVE refs["session"] > 0
  BY DEF SessionOutlivesUse
<1>i. TypeOK /\ PlacesOK /\ EndRefs
  BY DEF SessionInv
<1>1. CASE t \in Clients
  <2>1. pc[t] \in Sending \/ pc[t] \in ClientClosing
    BY <1>1, <1>i DEF PlacesOK, ClientPlaces
  <2> QED
    BY <2>1, <1>1, <1>i, CountsPositive
<1>2. CASE t \in Servers
  <2>1. pc[t] \in ServerCalling \/ pc[t] \in ServerClosing
    BY <1>2, <1>i DEF PlacesOK, ServerPlaces
  <2> QED
    BY <2>1, <1>2, <1>i, CountsPositive
<1> QED
  BY <1>1, <1>2 DEF Threads

(* Requests, client threads and the session are referred to exactly as     *)
(* often as they are used, in every race of reply, close and termination   *)
(* (KSessionRequest::Close, KAutoObject::Close, KSession's two parents).   *)
THEOREM SessionReferences == Spec => []ReferencesExact
<1>1. SessionInv => ReferencesExact
  BY HoldersCounted, ThreadsCounted, SessionHeld DEF SessionInv, ReferencesExact
<1> QED
  BY <1>1, SessionInvariant, PTL

(* A client that waits in SendSyncRequest has a request that is queued,    *)
(* current or about to be answered: OnRequest, ReceiveRequest, SendReply   *)
(* and the clean-ups of both ends never drop it.                           *)
THEOREM SessionWaiters == Spec => []WaiterAttended
<1>1. SessionInv => WaiterAttended
  <2> SUFFICES ASSUME SessionInv, NEW c \in Clients, pc[c] = "waiting"
               PROVE  LET r == arg[c] IN
                      \/ r \in ToSet(list) /\ (IsClosed(state) => \E t \in Threads : pc[t] \in
                            {"server_cleanup", "server_cleanup_locked", "cleaning", "cleaned"})
                      \/ r = current /\ req[r].bound
                      \/ \E t \in Servers : arg[t] = r /\ pc[t] \in {"received", "receive_failed",
                                                                     "replying", "cleaning"}
    BY DEF WaiterAttended
  <2>i. /\ TypeOK /\ PlacesOK /\ ArgsHeld /\ Created /\ RefCount /\ Exclusive /\ EndRefs
        /\ OneCloser /\ CutOff /\ WaitersAttended
    BY DEF SessionInv
  <2>1. c \in Threads /\ arg[c] \in Requests /\ arg[c] <= created /\ Pending(arg[c])
    <3>1. c \in Threads /\ arg[c] # NoRequest
      BY <2>i DEF ArgsHeld, Threads, Sending
    <3> QED
      BY <3>1, <2>i, HeldExists DEF WaitersAttended
  <2>2. refs["client"] > 0 /\ refs["client"] \in Nat
    BY <2>i, CountsPositive DEF Sending
  <2>3. CASE InList(arg[c])
    <3>1. state # "ClientClosed"
      BY <2>2, <2>i DEF OneCloser
    <3>2. list # <<>>
      BY <2>3 DEF InList, ToSet
    <3>3. IsClosed(state) => \E t \in Threads : pc[t] \in ServerCleaning
      BY <3>1, <3>2, <2>i DEF WaitersAttended, IsClosed, TypeOK
    <3> QED
      BY <3>3, <2>3 DEF InList, ServerCleaning
  <2>4. CASE current = arg[c]
    <3>1. prev = NoRequest
      BY <2>2, <2>i DEF CutOff
    <3>2. arg[c] # NoRequest
      BY <2>1, SessionAssumption
    <3>3. req[arg[c]].bound
      BY <3>1, <3>2, <2>1, <2>i DEF CutOff
    <3> QED
      BY <3>3, <2>4
  <2>5. CASE \E t \in Threads : pc[t] \in Answering /\ arg[t] = arg[c]
    <3>1. PICK t \in Threads : pc[t] \in Answering /\ arg[t] = arg[c]
      BY <2>5
    <3>2. pc[t] # "refusing"
      BY <2>2, <2>i DEF OneCloser, ClientClosing, ClientCleaning, ClientLooking
    <3>3. pc[t] \in {"received", "receive_failed", "replying", "cleaning"}
      BY <3>1, <3>2 DEF Answering
    <3>4. t \notin Clients
      BY <3>3, <2>i DEF PlacesOK, ClientPlaces, Sending, ClientClosing, ClientCleaning,
         ClientLooking
    <3> QED
      BY <3>1, <3>3, <3>4 DEF Threads
  <2> QED
    BY <2>1, <2>3, <2>4, <2>5 DEF Pending
<1> QED
  BY <1>1, SessionInvariant, PTL

(* A request that was accepted has an event unless OnClientClosed took it  *)
(* away; then its sender is being terminated and it was never signalled.   *)
CutOffUnsignalled ==
    \A r \in Requests :
       /\ r \in accepted => req[r].event \/ ~ req[r].bound
       /\ r <= created /\ ~ req[r].bound => req[r].owner \in doomed /\ signals[r] = 0

(* A step that signals no request without its thread keeps this. *)
LEMMA CutOffStep ==
    ASSUME CutOffUnsignalled, CutOff, UNCHANGED <<created, accepted>>, doomed \subseteq doomed',
           \A r \in Requests : /\ req'[r].owner = req[r].owner
                               /\ req'[r].event <=> req[r].event
                               /\ req'[r].bound <=> req[r].bound
                               /\ signals'[r] = signals[r] \/ req[r].event \/ req[r].bound
    PROVE  CutOffUnsignalled'
<1> SUFFICES ASSUME NEW r \in Requests
             PROVE  /\ r \in accepted' => req'[r].event \/ ~ req'[r].bound
                    /\ r <= created' /\ ~ req'[r].bound => req'[r].owner \in doomed' /\ signals'[r] = 0
  BY DEF CutOffUnsignalled
<1>1. /\ r \in accepted => req[r].event \/ ~ req[r].bound
      /\ r <= created /\ ~ req[r].bound => req[r].owner \in doomed /\ signals[r] = 0
  BY DEF CutOffUnsignalled
<1>2. r <= created /\ ~ req[r].bound => ~ req[r].event
  BY DEF CutOff
<1> QED
  BY <1>1, <1>2

(* The actions that change only reference counts among the requests. *)
LEMMA CloseKeepsCut ==
    ASSUME TypeOK, NEW r \in Requests, CloseRequest(r, req)
    PROVE  \A x \in Requests : /\ req'[x].owner = req[x].owner
                               /\ req'[x].event <=> req[x].event
                               /\ req'[x].bound <=> req[x].bound
<1>1. req' = [req EXCEPT ![r].ref = @ - 1]
  BY DEF CloseRequest
<1>2. req \in [Requests -> [ref : Nat, owner : Clients \cup {NoThread},
                           event : BOOLEAN, bound : BOOLEAN]]
  BY DEF TypeOK
<1> QED
  BY <1>1, <1>2

(* A step of a thread in the kernel. *)
LEMMA CutOffThreadStep ==
    ASSUME SessionInv, CutOffUnsignalled, NEW t \in Threads, Step(t)
    PROVE  CutOffUnsignalled'
<1>i. /\ TypeOK /\ PlacesOK /\ LockHeld /\ ArgsHeld /\ Created /\ RefCount /\ Exclusive
      /\ CutOff /\ EventsSignalled
  BY DEF SessionInv
<1>t. /\ req \in [Requests -> [ref : Nat, owner : Clients \cup {NoThread},
                              event : BOOLEAN, bound : BOOLEAN]]
      /\ signals \in [Requests -> Nat] /\ arg[t] \in Requests \cup {NoRequest}
      /\ NoRequest \notin Requests /\ current \in Requests \cup {NoRequest}
  BY <1>i, SessionAssumption DEF TypeOK
<1>a. pc[t] \in Sending \/ pc[t] \in Handling => arg[t] \in Requests
  BY <1>i, <1>t DEF ArgsHeld
<1>1. CASE \/ OnRequestRefused(t) \/ WaitAgain(t) \/ ServerReturns(t) \/ ReceiveNothing(t)
           \/ ReceivePop(t) \/ ReceiveSetCurrent(t) \/ ReceiveSucceeds(t) \/ ReceiveFails(t)
           \/ ReplyNothing(t) \/ ReplyTake(t) \/ CleanupTake(t) \/ CleanupReturns(t)
           \/ ClientClosedPop(t) \/ ClientClosedCutOff(t) \/ ClientClosedNotify(t) \/ Lock(t)
           \/ \E end \in {"client", "server"} : Destroy(t, end) \/ SetClosed(t, end)
  <2>1. UNCHANGED <<created, accepted, doomed, req, signals>>
    BY <1>1 DEF OnRequestRefused, WaitAgain, ServerReturns, ReceiveNothing, ReceivePop,
       ReceiveSetCurrent, ReceiveSucceeds, ReceiveFails, ReplyNothing, ReplyTake, CleanupTake,
       CleanupReturns, ClientClosedPop, ClientClosedCutOff, ClientClosedNotify, Lock, Destroy,
       SetClosed, clientVars
  <2> QED
    BY <2>1, <1>i, CutOffStep
<1>2. CASE \/ t \in Clients /\ SendReturns(t)
           \/ ReplyReturns(t) \/ CleanupClose(t) \/ ClientClosedClose(t)
  <2>1. UNCHANGED <<created, accepted, doomed, signals>> /\ CloseRequest(arg[t], req)
    BY <1>2 DEF SendReturns, ReplyReturns, CleanupClose, ClientClosedClose
  <2>2. arg[t] \in Requests
    BY <1>2, <1>a DEF SendReturns, ReplyReturns, CleanupClose, ClientClosedClose, Sending,
       Handling, ClientLooking
  <2> QED
    BY <2>1, <2>2, <1>i, CloseKeepsCut, CutOffStep
<1>3. CASE ReceiveFailsReturns(t)
  <2>1. UNCHANGED <<created, accepted, doomed, signals>>
        /\ req' = [req EXCEPT ![arg[t]].ref = @ - 1]
    BY <1>3 DEF ReceiveFailsReturns
  <2>2. \A x \in Requests : req'[x].owner = req[x].owner /\ req'[x].event = req[x].event
                            /\ req'[x].bound = req[x].bound
    BY <2>1, <1>t
  <2> QED
    BY <2>1, <2>2, <1>i, CutOffStep
<1>4. CASE ReceiveFailsAnswer(t) \/ ReplyAnswer(t) \/ CleanupAnswer(t)
  <2>1. UNCHANGED <<created, accepted, doomed, req>>
    BY <1>4 DEF ReceiveFailsAnswer, ReplyAnswer, CleanupAnswer
  <2>2. \A x \in Requests : signals'[x] = signals[x] \/ req[x].event
    BY <1>4, <1>t DEF ReceiveFailsAnswer, ReplyAnswer, CleanupAnswer, Answer
  <2> QED
    BY <2>1, <2>2, <1>i, CutOffStep
<1>5. CASE ClientClosedSignal(t)
  <2>1. UNCHANGED <<created, accepted, doomed, req>>
        /\ signals' = [signals EXCEPT ![arg[t]] = @ + 1] /\ pc[t] = "refusing"
    BY <1>5 DEF ClientClosedSignal
  <2>2. pc[t] \in Taken /\ pc[t] \in LockedPlaces /\ pc[t] \in ClientClosing /\ pc[t] \in Handling
    BY <2>1 DEF Taken, LockedPlaces, Handling, ClientLooking, ClientClosing, ClientCleaning
  <2>3. arg[t] # current /\ prev \in {NoRequest, current} /\ arg[t] \in Requests
    BY <2>2, <1>i, <1>a DEF Exclusive, CutOff
  <2>4. arg[t] <= created => req[arg[t]].bound
    BY <2>3, <1>i, <1>t DEF CutOff
  <2>5. \A x \in Requests : x # arg[t] => signals'[x] = signals[x]
    BY <2>1, <1>t
  <2> SUFFICES ASSUME NEW x \in Requests
               PROVE  /\ x \in accepted => req[x].event \/ ~ req[x].bound
                      /\ x <= created /\ ~ req[x].bound => req[x].owner \in doomed /\ signals'[x] = 0
    BY <2>1 DEF CutOffUnsignalled
  <2> QED
    BY <2>4, <2>5 DEF CutOffUnsignalled
<1>6. CASE t \in Clients /\ OnRequest(t)
  <2>1. UNCHANGED <<created, doomed, signals>>
        /\ req' = [req EXCEPT ![arg[t]].ref = @ + 1]
        /\ accepted' = IF req[arg[t]].event THEN accepted \cup {arg[t]} ELSE accepted
    BY <1>6 DEF OnRequest, Accept
  <2>2. \A x \in Requests : /\ req'[x].owner = req[x].owner /\ req'[x].event = req[x].event
                            /\ req'[x].bound = req[x].bound
                            /\ x \in accepted' => x \in accepted \/ req[x].event
    BY <2>1, <1>t
  <2> QED
    BY <2>1, <2>2 DEF CutOffUnsignalled
<1>7. CASE ClientClosedCurrent(t)
  <2>1. /\ UNCHANGED <<created, accepted, doomed, signals>> /\ current \in Requests
        /\ req' = [req EXCEPT ![current].ref = @ + 1,
                              ![current].bound = ~ (req[current].owner \in doomed),
                              ![current].event = @ /\ ~ (req[current].owner \in doomed)]
    BY <1>7, <1>t DEF ClientClosedCurrent, clientVars
  <2>2. PICK b \in BOOLEAN, e \in BOOLEAN :
           /\ b = ~ (req[current].owner \in doomed)
           /\ e = (req[current].event /\ ~ (req[current].owner \in doomed))
    BY Zenon
  <2>3. req' = [req EXCEPT ![current].ref = @ + 1, ![current].bound = b, ![current].event = e]
    BY <2>1, <2>2
  <2>4. /\ \A x \in Requests : x # current => req'[x] = req[x]
        /\ req'[current].owner = req[current].owner
        /\ req'[current].bound <=> req[current].owner \notin doomed
        /\ req'[current].event <=> req[current].event /\ req[current].owner \notin doomed
    BY <2>1, <2>2, <2>3, <1>i, RequestLookedAt
  <2>5. signals[current] = 0
    BY <2>1, <1>i DEF EventsSignalled, Pending
  <2>6. ASSUME NEW x \in Requests
        PROVE  /\ x \in accepted' => req'[x].event \/ ~ req'[x].bound
               /\ x <= created' /\ ~ req'[x].bound => req'[x].owner \in doomed' /\ signals'[x] = 0
    <3>1. CASE x # current
      <4>1. req'[x] = req[x] /\ UNCHANGED <<created, accepted, doomed, signals>>
        BY <3>1, <2>1, <2>4
      <4> QED
        BY <4>1 DEF CutOffUnsignalled
    <3>2. CASE x = current
      <4>1. x \in accepted => req[x].event \/ ~ req[x].bound
        BY DEF CutOffUnsignalled
      <4>2. x <= created /\ ~ req[x].bound => req[x].owner \in doomed
        BY DEF CutOffUnsignalled
      <4>3. x <= created
        BY <1>i, <3>2, <2>1, <1>t, HeldExists
      <4> QED
        BY <3>2, <2>1, <2>4, <2>5, <4>1, <4>2, <4>3
    <3> QED
      BY <3>1, <3>2
  <2> QED
    BY <2>6 DEF CutOffUnsignalled
<1> QED
  BY <1>1, <1>2, <1>3, <1>4, <1>5, <1>6, <1>7 DEF Step

(* Every accepted request keeps its event or was cut off unsignalled. *)
LEMMA CutOffInvariant == Spec => []CutOffUnsignalled
<1>1. Init => CutOffUnsignalled
  BY DEF Init, CutOffUnsignalled, Requests
<1>2. SessionInv /\ CutOffUnsignalled /\ [Next]_vars => CutOffUnsignalled'
  <2> SUFFICES ASSUME SessionInv, CutOffUnsignalled, [Next]_vars
               PROVE  CutOffUnsignalled'
    OBVIOUS
  <2>i. TypeOK /\ Created /\ CutOff
    BY DEF SessionInv
  <2>1. CASE UNCHANGED vars
    <3>1. UNCHANGED <<created, accepted, doomed, req, signals>>
      BY <2>1 DEF vars, clientVars
    <3> QED
      BY <3>1, <2>i, CutOffStep
  <2>2. ASSUME NEW c \in Clients, NEW async \in BOOLEAN, SendRequest(c, async)
        PROVE  CutOffUnsignalled'
    <3>1. /\ created' = created + 1 /\ created + 1 \in Requests
          /\ UNCHANGED <<accepted, doomed, signals>>
          /\ req' = [req EXCEPT ![created + 1] =
                       [ref |-> 1, owner |-> c, event |-> async, bound |-> TRUE]]
      BY <2>2, <2>i, SessionAssumption DEF SendRequest, TypeOK, Requests
    <3>2. /\ req'[created + 1].bound = TRUE /\ created + 1 \notin accepted
          /\ \A x \in Requests : x # created + 1 => req'[x] = req[x]
      BY <3>1, <2>i DEF TypeOK, Created
    <3>3. \A x \in Requests : x <= created + 1 /\ x # created + 1 => x <= created
      BY <2>i DEF TypeOK, Requests
    <3> QED
      BY <3>1, <3>2, <3>3 DEF CutOffUnsignalled
  <2>3. ASSUME NEW c \in Clients, RequestTerminate(c)
        PROVE  CutOffUnsignalled'
    <3>1. UNCHANGED <<created, accepted, req, signals>> /\ doomed \subseteq doomed'
      BY <2>3 DEF RequestTerminate
    <3> QED
      BY <3>1, <2>i, CutOffStep
  <2>4. ASSUME NEW t \in Threads,
               \/ t \in Servers /\ (Wait(t) \/ WaitEnds(t) \/ Reply(t))
               \/ \E end \in {"client", "server"} : CloseHandle(t, end)
        PROVE  CutOffUnsignalled'
    <3>1. UNCHANGED <<created, accepted, doomed, req, signals>>
      BY <2>4 DEF Wait, WaitEnds, Reply, CloseHandle, clientVars
    <3> QED
      BY <3>1, <2>i, CutOffStep
  <2>5. ASSUME NEW t \in Threads, Step(t)
        PROVE  CutOffUnsignalled'
    BY <2>5, CutOffThreadStep
  <2> QED
    BY <2>1, <2>2, <2>3, <2>4, <2>5 DEF Next, Threads
<1> QED
  BY <1>1, <1>2, SessionInvariant, PTL DEF Spec

(* The event of an accepted asynchronous request is signalled at most      *)
(* once.  By the time the request is freed it was signalled, whether it    *)
(* was answered, refused by OnClientClosed or cleaned up, unless           *)
(* OnClientClosed cut it off from its terminating sender, and then it was  *)
(* not.                                                                    *)
THEOREM SessionAnswers == Spec => []AnsweredOnce
<1>1. SessionInv /\ CutOffUnsignalled => AnsweredOnce
  <2> SUFFICES ASSUME SessionInv, CutOffUnsignalled, NEW r \in Requests
               PROVE  /\ signals[r] <= 1
                      /\ Freed(r) /\ r \in accepted => (signals[r] = 1 <=> ~ IsCutOff(r))
    BY DEF AnsweredOnce
  <2>i. /\ TypeOK /\ PlacesOK /\ ArgsHeld /\ Created /\ RefCount /\ Exclusive /\ EventsSignalled
    BY DEF SessionInv
  <2>1. req[r].ref = 0 => ~ Pending(r)
    <3>1. \A t \in Threads : pc[t] \in Answering => arg[t] # NoRequest
      BY <2>i DEF ArgsHeld, Answering, Handling, Receiving, ClientLooking
    <3>2. Pending(r) => req[r].ref > 0
      BY <3>1, <2>i, HeldExists DEF Pending
    <3> QED
      BY <3>2
  <2>2. /\ signals[r] <= 1
        /\ req[r].ref = 0 /\ req[r].event /\ r \in accepted => signals[r] = 1
    BY <2>1, <2>i DEF EventsSignalled
  <2>3. r \in accepted => r <= created
    BY <2>i DEF Created, TypeOK, Requests
  <2>4. /\ r \in accepted => req[r].event \/ ~ req[r].bound
        /\ r \in accepted /\ ~ req[r].bound => req[r].owner \in doomed /\ signals[r] = 0
    BY <2>3 DEF CutOffUnsignalled
  <2> QED
    BY <2>2, <2>4 DEF Freed, IsCutOff
<1> QED
  BY <1>1, SessionInvariant, CutOffInvariant, PTL

(* A server sleeps on a signalled session only until the thread that took  *)
(* the request records it, or the closing client notifies it.              *)
THEOREM SessionServers == Spec => []ServerAwake
<1>1. SessionInv => ServerAwake
  BY DEF SessionInv, SleepersAwaited, ServerAwake, IsSignaled, ClientCleaning, ClientLooking
<1> QED
  BY <1>1, SessionInvariant, PTL

=============================================================================

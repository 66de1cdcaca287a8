------------------------- MODULE KClientPortProofs -------------------------
(***************************************************************************)
(* Proofs about KClientPort, for every number of threads, every limit and  *)
(* every size of the slab: the counters and the session resource are       *)
(* exact, no session is stranded, no sleeper forgotten, and the port       *)
(* outlives its use.                                                       *)
(***************************************************************************)
EXTENDS KClientPort, FiniteSetTheorems, SequenceTheorems, TLAPS

(* The places of a thread in CreateSession, in a call on the client end,   *)
(* and at the end of a session.                                            *)
Building == {"load", "count", "load peak", "peak", "initialize"}
Finalizing == {"finalize", "notify", "close port"}
Closing == Finalizing \cup {"free", "release"}
Calling == {"reserve", "create"} \cup Building
             \cup {"enqueue", "refused", "refused server", "client leave", "client asleep"}
ServerCalling == {"server leave", "server asleep"}
Cleaning == {"cleanup", "cleanup close"}

Places == {"user", "client destroy", "server destroy"}
             \cup Closing \cup Calling \cup ServerCalling \cup Cleaning

LocalTypeOK ==
    /\ pc \in [Threads -> Places]
    /\ seen \in [Threads -> [old : Nat, new : Nat]]
    /\ back \in [Threads -> {"user", "client leave", "cleanup"}]
    /\ \A t \in Threads : pc[t] \notin Closing => back[t] = "user"

(* The scheduler lock is held between two steps by the notifying thread. *)
LockHeld == \A t \in Threads : slock = t <=> pc[t] = "notify"
LocalInv == LocalTypeOK /\ LockHeld /\ slock \in Threads \cup {NoThread}

(* Whose session a thread has in hand. *)
Using(t) == pc[t] \in Building \cup Finalizing
                        \cup {"enqueue", "refused", "refused server", "cleanup close", "free"}
NewObject == [stage |-> "new", ref |-> 1]
Object(n) == [stage |-> "live", ref |-> n]
Handed(s) == s \in held \/ s \in served \/ s \in ToSet(queue)

(* A session in the hands of a thread: at which stage, and referred to by  *)
(* whom else.                                                              *)
InHand(t) ==
    LET s == arg[t] IN
    /\ s \in Sessions
    /\ pc[t] \in Building => session[s] = NewObject
    /\ pc[t] \in {"enqueue", "refused"} => session[s] = Object(2)
    /\ pc[t] = "refused server" => session[s] = Object(1)
    /\ pc[t] = "cleanup close" => session[s] = Object(IF s \in held THEN 2 ELSE 1)
    /\ pc[t] \in Finalizing => session[s] = Object(0)
    /\ pc[t] = "free" => session[s] \in {NewObject, Object(0)}
    /\ s \notin served /\ s \notin ToSet(queue)
    /\ pc[t] # "cleanup close" => s \notin held
SessionsInHand == \A t \in Threads : Using(t) => InHand(t)
OneUser == \A t, u \in Threads : Using(t) /\ Using(u) /\ arg[t] = arg[u] => t = u

(* A session that is served or queued, or has only its client left. *)
ServerHas(s) == s \in served \/ s \in ToSet(queue)
CleanedUp(s) == \E t \in Threads : pc[t] = "cleanup close" /\ arg[t] = s
SessionsHanded ==
    \A s \in Sessions :
       /\ ServerHas(s) => session[s] = Object(IF s \in held THEN 2 ELSE 1)
       /\ s \in held => session[s] = Object(IF ServerHas(s) \/ CleanedUp(s) THEN 2 ELSE 1)
       /\ ~(s \in served /\ s \in ToSet(queue))
QueueInjective == IsInjective(queue)

(* The peak, and who has yet to record his count. *)
PeakInv ==
    /\ \A t \in Threads : /\ pc[t] = "peak" => seen[t].old <= peak
                          /\ pc[t] \in {"load peak", "peak"} => seen[t].new <= MaxSessions
    /\ num <= peak \/ \E t \in Threads : pc[t] \in {"load peak", "peak"} /\ num <= seen[t].new

(* The references to the two ends and to the port. *)
InClientCall(t) == pc[t] \in Calling \/ (pc[t] \in Closing /\ back[t] = "client leave")
InCleanup(t) == pc[t] \in Cleaning \/ (pc[t] \in Closing /\ back[t] = "cleanup")
Freeing(s) == \E t \in Threads : pc[t] = "free" /\ arg[t] = s
Open(s) == session[s].stage = "live" /\ ~Freeing(s)
HandleOf(end) == IF end \in handles THEN 1 ELSE 0

ClientRefs ==
    refs["client"] = HandleOf("client") + Cardinality({t \in Threads : InClientCall(t)})
                     + Cardinality({s \in Sessions : Open(s)})
ServerRefs ==
    refs["server"] = HandleOf("server") + Cardinality({t \in Threads : pc[t] \in ServerCalling})

DestroysClient(t) == pc[t] = "client destroy"
DestroysServer(t) == pc[t] = "server destroy" \/ InCleanup(t)
OneDestroyer ==
    \A t, u \in Threads : /\ DestroysClient(t) => refs["client"] = 0
                          /\ DestroysServer(t) => refs["server"] = 0
                          /\ DestroysClient(t) /\ DestroysClient(u) => t = u
                          /\ DestroysServer(t) /\ DestroysServer(u) => t = u
ClientLives == refs["client"] > 0 \/ \E t \in Threads : DestroysClient(t)
ServerLives == refs["server"] > 0 \/ \E t \in Threads : DestroysServer(t)
PortRefs == refs["port"] = (IF ClientLives THEN 1 ELSE 0) + (IF ServerLives THEN 1 ELSE 0)

(* A queue that takes sessions will be cleaned up. *)
QueueLives ==
    /\ queue # <<>> => ServerLives
    /\ portState = "Normal" => refs["server"] > 0 \/ \E t \in Threads : pc[t] = "server destroy"

PortInv == /\ TypeOK /\ LocalTypeOK /\ LockHeld
           /\ SessionsInHand /\ OneUser /\ SessionsHanded /\ QueueInjective
           /\ SessionsCounted /\ PeakInv /\ ReservationsExact
           /\ ClientRefs /\ ServerRefs /\ OneDestroyer /\ PortRefs
           /\ QueueLives /\ SleepersHaveReason

-----------------------------------------------------------------------------
(* The steps, action by action. *)
Ends == {"client", "server"}
PortAction ==
    \/ \E t \in Threads :
         \/ ConnectToPort(t)
         \/ AcceptSession(t)
         \/ \E s \in Sessions : CloseClientSession(t, s)
         \/ \E s \in Sessions : CloseServerSession(t, s)
         \/ \E end \in Ends : Wait(t, end)
         \/ \E end \in Ends : CloseHandle(t, end)
         \/ Reserve(t)
         \/ Create(t)
         \/ LoadSessions(t)
         \/ OutOfSessions(t)
         \/ CountSession(t)
         \/ LoadPeak(t)
         \/ UpdatePeak(t)
         \/ Initialize(t)
         \/ EnqueueSession(t)
         \/ EnqueueRefused(t)
         \/ RefusedClosesClient(t)
         \/ RefusedClosesServer(t)
         \/ \E end \in Ends : Leave(t, end)
         \/ DestroyClientPort(t)
         \/ OnServerClosed(t)
         \/ CleanupPop(t)
         \/ CleanupClose(t)
         \/ CleanupReturns(t)
         \/ OnSessionFinalized(t)
         \/ NotifyAvailable(t)
         \/ FinalizeClosesPort(t)
         \/ Free(t)
         \/ Release(t)
    \/ UNCHANGED vars

(* The steps of the specification are those of its actions. *)
LEMMA PortCases == [Next]_vars => PortAction
<1>1. Clients \subseteq Threads /\ Servers \subseteq Threads
  BY DEF Threads
<1> QED
  BY <1>1 DEF Next, Step, PortAction, Ends

(* There are finitely many threads and sessions. *)
LEMMA ThreadsFinite == IsFiniteSet(Threads) /\ IsFiniteSet(Sessions)
<1>1. IsFiniteSet(Threads)
  BY PortAssumption, FS_Union DEF Threads
<1>2. 1 \in Int /\ SlabSize \in Int
  BY PortAssumption
<1>3. IsFiniteSet(Sessions)
  BY <1>2, FS_Interval DEF Sessions
<1> QED
  BY <1>1, <1>3

(* Where threads are, and who holds the lock. *)
LEMMA LocalTypeStep == PortInv /\ [Next]_vars => LocalInv'
<1> SUFFICES ASSUME PortInv, [Next]_vars
             PROVE  LocalInv'
  OBVIOUS
<1>i. LocalInv /\ num \in Nat /\ peak \in Nat
  BY PortAssumption DEF PortInv, TypeOK, LocalInv
<1>h. \A t \in Threads : pc[t] = "refused" => session[arg[t]].ref # 1
  <2>1. ASSUME NEW t \in Threads, pc[t] = "refused" PROVE session[arg[t]].ref # 1
    <3>1. InHand(t)
      BY <2>1 DEF PortInv, SessionsInHand, Using
    <3>2. session[arg[t]] = Object(2)
      BY <2>1, <3>1 DEF InHand
    <3> QED
      BY <3>2 DEF Object
  <2> QED
    BY <2>1
<1> USE PortAssumption
    DEF LocalInv, LocalTypeOK, LockHeld, Places, Building, Finalizing, Closing, Calling,
        ServerCalling, Cleaning, Goto, Unlocked, vars, localVars, Ends, AsleepOn, Leaving,
        Destroying
<1>1. ASSUME NEW t \in Threads, ConnectToPort(t) PROVE LocalInv'
  BY <1>i, <1>1 DEF ConnectToPort
<1>2. ASSUME NEW t \in Threads, AcceptSession(t) PROVE LocalInv'
  BY <1>i, <1>2 DEF AcceptSession
<1>3. ASSUME NEW t \in Threads, NEW s \in Sessions, CloseClientSession(t, s) PROVE LocalInv'
  BY ZenonT(60), <1>i, <1>3 DEF CloseClientSession, CloseSessionEnd
<1>4. ASSUME NEW t \in Threads, NEW s \in Sessions, CloseServerSession(t, s) PROVE LocalInv'
  BY ZenonT(60), <1>i, <1>4 DEF CloseServerSession, CloseSessionEnd
<1>5. ASSUME NEW t \in Threads, NEW end \in Ends, Wait(t, end) PROVE LocalInv'
  BY <1>i, <1>5 DEF Wait
<1>6. ASSUME NEW t \in Threads, NEW end \in Ends, CloseHandle(t, end) PROVE LocalInv'
  BY <1>i, <1>6 DEF CloseHandle, ClosePortEnd
<1>7. ASSUME NEW t \in Threads, Reserve(t) PROVE LocalInv'
  BY <1>i, <1>7 DEF Reserve
<1>8. ASSUME NEW t \in Threads, Create(t) PROVE LocalInv'
  BY ZenonT(60), <1>i, <1>8 DEF Create
<1>9. ASSUME NEW t \in Threads, LoadSessions(t) PROVE LocalInv'
  BY <1>i, <1>9 DEF LoadSessions
<1>10. ASSUME NEW t \in Threads, OutOfSessions(t) PROVE LocalInv'
  BY ZenonT(60), <1>i, <1>10 DEF OutOfSessions
<1>11. ASSUME NEW t \in Threads, CountSession(t) PROVE LocalInv'
  <2>1. seen' \in [Threads -> [old : Nat, new : Nat]]
    <3>1. seen \in [Threads -> [old : Nat, new : Nat]] /\ num \in Nat
      BY <1>i
    <3>2. num + 1 \in Nat
      BY ONLY <3>1
    <3>3. \/ seen' = [seen EXCEPT ![t].new = num + 1]
          \/ seen' = [seen EXCEPT ![t].old = num]
      BY <1>11 DEF CountSession
    <3> QED
      BY ONLY t \in Threads, <3>1, <3>2, <3>3
  <2>2. UNCHANGED <<back, slock>> /\ (UNCHANGED pc \/ Goto(t, "load peak"))
    BY <1>11 DEF CountSession
  <2>3. pc[t] = "count"
    BY <1>11 DEF CountSession
  <2> QED
    BY <1>i, <2>1, <2>2, <2>3
<1>12. ASSUME NEW t \in Threads, LoadPeak(t) PROVE LocalInv'
  BY <1>i, <1>12 DEF LoadPeak
<1>13. ASSUME NEW t \in Threads, UpdatePeak(t) PROVE LocalInv'
  <2>1. seen' \in [Threads -> [old : Nat, new : Nat]]
    <3>1. seen \in [Threads -> [old : Nat, new : Nat]] /\ peak \in Nat
      BY <1>i
    <3>2. \/ seen' = [seen EXCEPT ![t] = [old |-> 0, new |-> 0]]
          \/ seen' = [seen EXCEPT ![t].old = peak]
      BY <1>13 DEF UpdatePeak
    <3> QED
      BY ONLY t \in Threads, <3>1, <3>2
  <2>2. UNCHANGED <<back, slock>> /\ (UNCHANGED pc \/ Goto(t, "initialize"))
    BY <1>13 DEF UpdatePeak
  <2>3. pc[t] = "peak"
    BY <1>13 DEF UpdatePeak
  <2> QED
    BY ZenonT(60), <1>i, <2>1, <2>2, <2>3
<1>14. ASSUME NEW t \in Threads, Initialize(t) PROVE LocalInv'
  BY <1>i, <1>14 DEF Initialize
<1>15. ASSUME NEW t \in Threads, EnqueueSession(t) PROVE LocalInv'
  BY <1>i, <1>15 DEF EnqueueSession, Woken
<1>16. ASSUME NEW t \in Threads, EnqueueRefused(t) PROVE LocalInv'
  BY <1>i, <1>16 DEF EnqueueRefused
<1>17. ASSUME NEW t \in Threads, RefusedClosesClient(t) PROVE LocalInv'
  <2>1. UNCHANGED <<seen, back, slock>> /\ Goto(t, "refused server")
    BY <1>h, <1>17 DEF RefusedClosesClient, CloseSessionEnd
  <2>2. pc[t] = "refused"
    BY <1>17 DEF RefusedClosesClient
  <2> QED
    BY <1>i, <2>1, <2>2
<1>18. ASSUME NEW t \in Threads, RefusedClosesServer(t) PROVE LocalInv'
  <2>1. /\ UNCHANGED <<seen, slock>>
        /\ \/ UNCHANGED back /\ Goto(t, "client leave")
           \/ back' = [back EXCEPT ![t] = "client leave"] /\ Goto(t, "finalize")
    BY <1>18 DEF RefusedClosesServer, CloseSessionEnd
  <2>2. pc[t] = "refused server"
    BY <1>18 DEF RefusedClosesServer
  <2> QED
    BY ZenonT(60), <1>i, <2>1, <2>2
<1>19. ASSUME NEW t \in Threads, NEW end \in Ends, Leave(t, end) PROVE LocalInv'
  BY <1>i, <1>19 DEF Leave, ClosePortEnd
<1>20. ASSUME NEW t \in Threads, DestroyClientPort(t) PROVE LocalInv'
  BY <1>i, <1>20 DEF DestroyClientPort
<1>21. ASSUME NEW t \in Threads, OnServerClosed(t) PROVE LocalInv'
  BY <1>i, <1>21 DEF OnServerClosed
<1>22. ASSUME NEW t \in Threads, CleanupPop(t) PROVE LocalInv'
  BY <1>i, <1>22 DEF CleanupPop
<1>23. ASSUME NEW t \in Threads, CleanupClose(t) PROVE LocalInv'
  <2>1. /\ UNCHANGED <<seen, slock>>
        /\ \/ UNCHANGED back /\ Goto(t, "cleanup")
           \/ back' = [back EXCEPT ![t] = "cleanup"] /\ Goto(t, "finalize")
    BY <1>23 DEF CleanupClose, CloseSessionEnd
  <2>2. pc[t] = "cleanup close"
    BY <1>23 DEF CleanupClose
  <2> QED
    BY ZenonT(60), <1>i, <2>1, <2>2
<1>24. ASSUME NEW t \in Threads, CleanupReturns(t) PROVE LocalInv'
  BY <1>i, <1>24 DEF CleanupReturns
<1>25. ASSUME NEW t \in Threads, OnSessionFinalized(t) PROVE LocalInv'
  BY ZenonT(60), <1>i, <1>25 DEF OnSessionFinalized
<1>26. ASSUME NEW t \in Threads, NotifyAvailable(t) PROVE LocalInv'
  BY <1>i, <1>26 DEF NotifyAvailable, Woken
<1>27. ASSUME NEW t \in Threads, FinalizeClosesPort(t) PROVE LocalInv'
  BY <1>i, <1>27 DEF FinalizeClosesPort
<1>28. ASSUME NEW t \in Threads, Free(t) PROVE LocalInv'
  BY <1>i, <1>28 DEF Free
<1>29. ASSUME NEW t \in Threads, Release(t) PROVE LocalInv'
  BY <1>i, <1>29 DEF Release
<1>30. CASE UNCHANGED vars
  BY <1>i, <1>30
<1> QED
  BY PortCases,
     <1>1, <1>2, <1>3, <1>4, <1>5, <1>6, <1>7, <1>8, <1>9, <1>10, <1>11, <1>12, <1>13,
     <1>14, <1>15, <1>16, <1>17, <1>18, <1>19, <1>20, <1>21, <1>22, <1>23, <1>24, <1>25,
     <1>26, <1>27, <1>28, <1>29, <1>30 DEF PortAction

-----------------------------------------------------------------------------
(* The queue of the server port as a set. *)
LEMMA QueueAppend ==
    ASSUME NEW q \in Seq(Sessions), IsInjective(q), NEW e \in Sessions, e \notin ToSet(q)
    PROVE  /\ Append(q, e) \in Seq(Sessions)
           /\ IsInjective(Append(q, e))
           /\ ToSet(Append(q, e)) = ToSet(q) \cup {e}
<1> DEFINE n == Len(q)
           r == Append(q, e)
<1>1. /\ r \in Seq(Sessions) /\ Len(r) = n + 1
      /\ \A j \in 1 .. n : r[j] = q[j]
      /\ r[n + 1] = e
  BY AppendProperties
<1>2. DOMAIN q = 1 .. n /\ DOMAIN r = 1 .. n + 1 /\ n \in Nat
  BY <1>1, LenProperties
<1> HIDE DEF r, n
<1>3. 1 .. n + 1 = (1 .. n) \cup {n + 1}
  BY <1>2
<1> QED
  BY <1>1, <1>2, <1>3 DEF ToSet, IsInjective, r

(* What is left of a queue without repetitions. *)
LEMMA QueueTail ==
    ASSUME NEW q \in Seq(Sessions), IsInjective(q), q # <<>>
    PROVE  /\ Head(q) \in ToSet(q) /\ Head(q) \in Sessions
           /\ Tail(q) \in Seq(Sessions)
           /\ IsInjective(Tail(q))
           /\ ToSet(Tail(q)) = ToSet(q) \ {Head(q)}
<1> DEFINE n == Len(q)
           r == Tail(q)
<1>1. /\ r \in Seq(Sessions) /\ Len(r) = n - 1
      /\ \A j \in 1 .. Len(r) : r[j] = q[j + 1]
      /\ Head(q) = q[1]
  BY HeadTailProperties
<1>2. DOMAIN q = 1 .. n /\ DOMAIN r = 1 .. n - 1 /\ n \in Nat /\ n >= 1
  BY <1>1, LenProperties, EmptySeq
<1> HIDE DEF r, n
<1>3. 1 \in 1 .. n /\ \A j \in 1 .. n - 1 : j + 1 \in 1 .. n /\ j + 1 # 1 /\ r[j] = q[j + 1]
  BY <1>1, <1>2
<1>4. \A i \in 1 .. n : i # 1 => i - 1 \in 1 .. n - 1 /\ r[i - 1] = q[i]
  BY <1>1, <1>2
<1>5. Head(q) \in ToSet(q) /\ Head(q) \in Sessions
  BY <1>1, <1>2, <1>3 DEF ToSet
<1>6. IsInjective(r)
  <2> SUFFICES ASSUME NEW i \in 1 .. n - 1, NEW j \in 1 .. n - 1, r[i] = r[j] PROVE i = j
    BY <1>2 DEF IsInjective
  <2>1. i + 1 = j + 1
    BY <1>2, <1>3 DEF IsInjective
  <2> QED
    BY <2>1
<1>7. ASSUME NEW x \in ToSet(r) PROVE x \in ToSet(q) \ {Head(q)}
  <2>1. PICK j \in 1 .. n - 1 : x = r[j]
    BY <1>2, <1>7 DEF ToSet
  <2>2. j + 1 \in 1 .. n /\ j + 1 # 1 /\ x = q[j + 1] /\ 1 \in 1 .. n
    BY <1>3, <2>1
  <2>3. x # q[1]
    BY <1>2, <2>2 DEF IsInjective
  <2> QED
    BY <1>1, <1>2, <2>2, <2>3 DEF ToSet
<1>8. ASSUME NEW x \in ToSet(q) \ {Head(q)} PROVE x \in ToSet(r)
  <2>1. PICK i \in 1 .. n : x = q[i]
    BY <1>2, <1>8 DEF ToSet
  <2> QED
    BY <1>1, <1>2, <1>4, <1>8, <2>1 DEF ToSet
<1> QED
  BY <1>1, <1>5, <1>6, <1>7, <1>8 DEF r

-----------------------------------------------------------------------------
(* Who has which session. *)
SessionTypeOK ==
    /\ queue \in Seq(Sessions)
    /\ session \in [Sessions -> [stage : {"free", "new", "live"}, ref : 0 .. 2]]
    /\ held \subseteq Sessions /\ served \subseteq Sessions
    /\ arg \in [Threads -> Sessions \cup {NoSession}]
HandsInv == SessionTypeOK /\ SessionsInHand /\ OneUser /\ SessionsHanded /\ QueueInjective

(* The stages of an object tell each other apart. *)
LEMMA Stages ==
    /\ \A n, m : Object(n) = Object(m) => n = m
    /\ \A n : Object(n) # NewObject /\ Object(n) # FreeObject
    /\ NewObject # FreeObject
    /\ FreeObject.stage = "free" /\ NewObject.stage = "new" /\ \A n : Object(n).stage = "live"
    /\ {FreeObject, NewObject, Object(0), Object(1), Object(2)}
         \subseteq [stage : {"free", "new", "live"}, ref : 0 .. 2]
  BY DEF Object, NewObject, FreeObject

(* Closing one end of a session that has one or two references. *)
LEMMA LastEnd ==
    ASSUME NEW t \in Threads, NEW s \in Sessions, NEW there,
           session[s] = Object(1), CloseSessionEnd(t, s, there)
    PROVE  /\ session' = [session EXCEPT ![s] = Object(0)]
           /\ pc' = [pc EXCEPT ![t] = "finalize"]
           /\ arg' = [arg EXCEPT ![t] = s]
           /\ back' = [back EXCEPT ![t] = there]
<1>1. session[s].ref = 1 /\ [session[s] EXCEPT !.ref = session[s].ref - 1] = Object(0)
  BY DEF Object
<1>2. session' = [session EXCEPT ![s] = Object(0)]
  BY <1>1 DEF CloseSessionEnd
<1> QED
  BY <1>1, <1>2 DEF CloseSessionEnd, Goto

(* The other end is still referred to. *)
LEMMA OtherEnd ==
    ASSUME NEW t \in Threads, NEW s \in Sessions, NEW there,
           session[s] = Object(2), CloseSessionEnd(t, s, there)
    PROVE  /\ session' = [session EXCEPT ![s] = Object(1)]
           /\ pc' = [pc EXCEPT ![t] = there]
           /\ UNCHANGED <<arg, back>>
<1>1. session[s].ref # 1 /\ [session[s] EXCEPT !.ref = session[s].ref - 1] = Object(1)
  BY DEF Object
<1>2. session' = [session EXCEPT ![s] = Object(1)]
  BY <1>1 DEF CloseSessionEnd
<1> QED
  BY <1>1, <1>2 DEF CloseSessionEnd, Goto

(* A step in which nobody takes a session in hand, and those who have one  *)
(* go on with it or let it go.                                             *)
SameHand(p, q) ==
    \/ p = q
    \/ p \in Building /\ q \in Building \cup {"free"}
    \/ p \in Finalizing /\ q \in Finalizing \cup {"free"}
    \/ p = "enqueue" /\ q = "refused"
HandsKept ==
    /\ UNCHANGED <<queue, session, held, served>>
    /\ \A u \in Threads :
          /\ ~Using(u)' \/ (Using(u) /\ arg'[u] = arg[u] /\ SameHand(pc[u], pc'[u]))
          /\ pc[u] = "cleanup close" => pc'[u] = "cleanup close"
    /\ arg' \in [Threads -> Sessions \cup {NoSession}]

(* A step that moves no session from hand to hand. *)
LEMMA HandsKeptStep == HandsInv /\ HandsKept => HandsInv'
<1> SUFFICES ASSUME HandsInv, HandsKept PROVE HandsInv'
  OBVIOUS
<1>1. SessionTypeOK' /\ QueueInjective'
  BY DEF HandsInv, HandsKept, SessionTypeOK, QueueInjective
<1>2. ASSUME NEW u \in Threads, Using(u)' PROVE InHand(u)'
  <2>1. Using(u) /\ arg'[u] = arg[u] /\ SameHand(pc[u], pc'[u])
    BY <1>2 DEF HandsKept
  <2>2. InHand(u)
    BY <2>1 DEF HandsInv, SessionsInHand
  <2>3. pc[u] \in Building => session[arg[u]] = NewObject
    BY <2>2 DEF InHand
  <2>4. pc[u] \in Finalizing => session[arg[u]] = Object(0)
    BY <2>2 DEF InHand
  <2> QED
    BY <2>1, <2>2, <2>3, <2>4 DEF InHand, HandsKept, SameHand, Building, Finalizing
<1>3. OneUser'
  BY DEF HandsInv, HandsKept, OneUser
<1>4. \A s \in Sessions : CleanedUp(s)' <=> CleanedUp(s)
  <2>1. ASSUME NEW u \in Threads PROVE pc'[u] = "cleanup close" <=> pc[u] = "cleanup close"
    BY DEF HandsKept, SameHand, Using, Building, Finalizing
  <2>2. ASSUME NEW u \in Threads, pc'[u] = "cleanup close" PROVE arg'[u] = arg[u]
    BY <2>2 DEF HandsKept, Using
  <2> QED
    BY <2>1, <2>2 DEF CleanedUp
<1>5. SessionsHanded'
  BY <1>4 DEF HandsInv, HandsKept, SessionsHanded, ServerHas
<1> QED
  BY <1>1, <1>2, <1>3, <1>5 DEF HandsInv, SessionsInHand

(* A step of t that changes who has session s. *)
OthersStay(t) ==
    \A u \in Threads \ {t} :
       arg'[u] = arg[u] /\ (pc'[u] = pc[u] \/ (~Using(u) /\ ~Using(u)'))
OnlyAbout(s) ==
    \A x \in Sessions \ {s} : /\ session'[x] = session[x]
                              /\ x \in held' <=> x \in held
                              /\ x \in served' <=> x \in served
                              /\ x \in ToSet(queue)' <=> x \in ToSet(queue)
HandedWell(s) ==
    /\ ServerHas(s) => session[s] = Object(IF s \in held THEN 2 ELSE 1)
    /\ s \in held => session[s] = Object(IF ServerHas(s) \/ CleanedUp(s) THEN 2 ELSE 1)
    /\ ~(s \in served /\ s \in ToSet(queue))
HandsMoved(t, s) ==
    /\ OthersStay(t) /\ OnlyAbout(s)
    /\ Using(t) => arg[t] = s
    /\ Using(t)' => arg'[t] = s /\ InHand(t)'
    /\ \A u \in Threads \ {t} : Using(u) /\ arg[u] = s => InHand(u)' /\ ~Using(t)'
    /\ HandedWell(s)'
    /\ SessionTypeOK' /\ QueueInjective'

(* A step of one thread with one session leaves the others as they are. *)
LEMMA HandsMovedStep ==
    ASSUME HandsInv, NEW t \in Threads, NEW s \in Sessions, HandsMoved(t, s)
    PROVE  HandsInv'
<1>1. ASSUME NEW u \in Threads \ {t}, Using(u)'
      PROVE  Using(u) /\ arg'[u] = arg[u] /\ pc'[u] = pc[u]
  BY <1>1 DEF HandsMoved, OthersStay, Using
<1>2. ASSUME NEW u \in Threads, Using(u)' PROVE InHand(u)'
  <2>1. CASE u = t
    BY <1>2, <2>1 DEF HandsMoved
  <2>2. CASE u # t /\ arg[u] = s
    BY <1>1, <1>2, <2>2 DEF HandsMoved
  <2>3. CASE u # t /\ arg[u] # s
    <3>1. Using(u) /\ arg'[u] = arg[u] /\ pc'[u] = pc[u]
      BY <1>1, <1>2, <2>3
    <3>2. InHand(u)
      BY <3>1 DEF HandsInv, SessionsInHand
    <3>3. arg[u] \in Sessions \ {s}
      BY <2>3, <3>2 DEF InHand
    <3>4. /\ session'[arg[u]] = session[arg[u]]
          /\ arg[u] \in held' <=> arg[u] \in held
          /\ arg[u] \in served' <=> arg[u] \in served
          /\ arg[u] \in ToSet(queue)' <=> arg[u] \in ToSet(queue)
      BY <3>3 DEF HandsMoved, OnlyAbout
    <3> QED
      BY <3>1, <3>2, <3>4 DEF InHand
  <2> QED
    BY <2>1, <2>2, <2>3
<1>3. OneUser'
  <2> SUFFICES ASSUME NEW u \in Threads, NEW v \in Threads,
                      Using(u)', Using(v)', arg'[u] = arg'[v], u # v
               PROVE  FALSE
    BY DEF OneUser
  <2>1. CASE u = t
    BY <1>1, <2>1 DEF HandsMoved
  <2>2. CASE v = t
    BY <1>1, <2>2 DEF HandsMoved
  <2>3. CASE u # t /\ v # t
    BY <1>1, <2>3 DEF HandsInv, OneUser
  <2> QED
    BY <2>1, <2>2, <2>3
<1>4. ASSUME NEW x \in Sessions, x # s PROVE HandedWell(x)'
  <2>1. ASSUME NEW u \in Threads
        PROVE  pc'[u] = "cleanup close" /\ arg'[u] = x <=> pc[u] = "cleanup close" /\ arg[u] = x
    <3>1. /\ pc[u] = "cleanup close" => Using(u)
          /\ pc'[u] = "cleanup close" => Using(u)'
      BY DEF Using
    <3>2. CASE u = t
      BY <1>4, <3>1, <3>2 DEF HandsMoved
    <3>3. CASE u # t
      BY <3>1, <3>3 DEF HandsMoved, OthersStay
    <3> QED
      BY <3>2, <3>3
  <2>2. CleanedUp(x)' <=> CleanedUp(x)
    BY <2>1 DEF CleanedUp
  <2>3. HandedWell(x)
    BY DEF HandsInv, SessionsHanded, HandedWell
  <2>4. /\ session'[x] = session[x]
        /\ x \in held' <=> x \in held
        /\ x \in served' <=> x \in served
        /\ x \in ToSet(queue)' <=> x \in ToSet(queue)
    BY <1>4 DEF HandsMoved, OnlyAbout
  <2> QED
    BY <2>2, <2>3, <2>4 DEF HandedWell, ServerHas
<1>5. HandedWell(s)'
  BY DEF HandsMoved
<1>6. SessionsHanded'
  BY <1>4, <1>5 DEF SessionsHanded, HandedWell
<1> QED
  BY <1>2, <1>3, <1>6 DEF HandsMoved, HandsInv, SessionsInHand

(* Closing the last end takes the session in hand, to finalize it. *)
LEMMA LastEndStep ==
    ASSUME HandsInv, pc \in [Threads -> Places],
           NEW t \in Threads, NEW s \in Sessions, NEW there,
           session[s] = Object(1), CloseSessionEnd(t, s, there),
           Using(t) => arg[t] = s, \A u \in Threads \ {t} : Using(u) => arg[u] # s,
           queue' = queue, held' = held \ {s}, served' = served \ {s}, s \notin ToSet(queue)
    PROVE  HandsInv'
<1>t. session \in [Sessions -> [stage : {"free", "new", "live"}, ref : 0 .. 2]]
      /\ arg \in [Threads -> Sessions \cup {NoSession}]
  BY DEF HandsInv, SessionTypeOK
<1>1. /\ session' = [session EXCEPT ![s] = Object(0)]
      /\ pc' = [pc EXCEPT ![t] = "finalize"]
      /\ arg' = [arg EXCEPT ![t] = s]
  BY LastEnd
<1>2. SessionTypeOK' /\ QueueInjective'
  BY <1>1, Stages DEF HandsInv, SessionTypeOK, QueueInjective
<1>3. /\ session'[s] = Object(0) /\ arg'[t] = s /\ pc'[t] = "finalize"
      /\ s \notin held' /\ s \notin served' /\ s \notin ToSet(queue)'
  BY <1>t, <1>1
<1>4. InHand(t)'
  BY <1>3 DEF InHand, Building, Finalizing
<1>5. HandedWell(s)'
  BY <1>3 DEF HandedWell, ServerHas
<1>6. OthersStay(t) /\ OnlyAbout(s)
  BY <1>t, <1>1 DEF OthersStay, OnlyAbout
<1> QED
  BY <1>2, <1>3, <1>4, <1>5, <1>6, HandsMovedStep DEF HandsMoved

(* Closing the other end leaves the session with who has it. *)
LEMMA OtherEndStep ==
    ASSUME HandsInv, pc \in [Threads -> Places],
           NEW t \in Threads, NEW s \in Sessions, NEW there, there \in {"user", "cleanup"},
           session[s] = Object(2), CloseSessionEnd(t, s, there),
           Using(t) => arg[t] = s,
           \A u \in Threads \ {t} : Using(u) /\ arg[u] = s => pc[u] = "cleanup close" /\ s \notin held',
           queue' = queue, s \notin served \/ s \notin ToSet(queue),
           \A x \in Sessions \ {s} : /\ x \in held' <=> x \in held
                                     /\ x \in served' <=> x \in served,
           held' \subseteq held, served' \subseteq served,
           s \in held' => ~ServerHas(s)' /\ \A u \in Threads \ {t} : Using(u) => arg[u] # s
    PROVE  HandsInv'
<1>t. session \in [Sessions -> [stage : {"free", "new", "live"}, ref : 0 .. 2]]
      /\ arg \in [Threads -> Sessions \cup {NoSession}]
  BY DEF HandsInv, SessionTypeOK
<1>1. /\ session' = [session EXCEPT ![s] = Object(1)]
      /\ pc' = [pc EXCEPT ![t] = there]
      /\ arg' = arg
  BY OtherEnd
<1>2. SessionTypeOK' /\ QueueInjective'
  BY <1>1, Stages DEF HandsInv, SessionTypeOK, QueueInjective
<1>3. session'[s] = Object(1) /\ ~Using(t)'
  BY <1>t, <1>1 DEF Using, Building, Finalizing
<1>4. OthersStay(t) /\ OnlyAbout(s)
  BY <1>t, <1>1 DEF OthersStay, OnlyAbout
<1>5. ASSUME NEW u \in Threads \ {t}, Using(u), arg[u] = s PROVE InHand(u)'
  <2>1. InHand(u) /\ pc[u] = "cleanup close" /\ pc'[u] = pc[u] /\ arg'[u] = s /\ s \notin held'
    BY <1>1, <1>5 DEF HandsInv, SessionsInHand
  <2>2. s \notin served /\ s \notin ToSet(queue)
    BY <1>5, <2>1 DEF InHand
  <2> QED
    BY <1>3, <2>1, <2>2 DEF InHand, Building, Finalizing
<1>6. HandedWell(s)'
  <2>1. CASE s \in held'
    <3>1. ~ServerHas(s)' /\ ~CleanedUp(s)'
      BY <1>1, <2>1 DEF CleanedUp, Using
    <3> QED
      BY <1>3, <3>1 DEF HandedWell, ServerHas
  <2>2. CASE s \notin held'
    BY <1>3, <2>2 DEF HandedWell, ServerHas
  <2> QED
    BY <2>1, <2>2
<1> QED
  BY <1>2, <1>3, <1>4, <1>5, <1>6, HandsMovedStep DEF HandsMoved

(* Every session is in one hand, at the stage that hand implies. *)
LEMMA HandsStep == PortInv /\ [Next]_vars => HandsInv'
<1> SUFFICES ASSUME PortInv, [Next]_vars PROVE HandsInv'
  OBVIOUS
<1>i. HandsInv /\ LocalTypeOK
  BY DEF PortInv, TypeOK, HandsInv, SessionTypeOK
<1>a. arg \in [Threads -> Sessions \cup {NoSession}]
  BY <1>i DEF HandsInv, SessionTypeOK
<1>p. pc \in [Threads -> Places]
  BY <1>i DEF LocalTypeOK
<1>l. \A u \in Threads : back[u] \in {"user", "client leave", "cleanup"}
  BY <1>i DEF LocalTypeOK
<1> USE <1>a, <1>p, <1>l
    DEF portVars, countVars, ownVars, localVars, vars, Goto,
        Ends, AsleepOn, Leaving, Destroying
<1>1. ASSUME NEW t \in Threads, ConnectToPort(t) PROVE HandsInv'
  BY <1>i, <1>1, HandsKeptStep DEF ConnectToPort, HandsKept, Using, SameHand, Building, Finalizing
<1>2. ASSUME NEW t \in Threads, AcceptSession(t) PROVE HandsInv'
  <2>0. PICK s : s = Head(queue)
    OBVIOUS
  <2>1. /\ s \in ToSet(queue) /\ s \in Sessions
        /\ queue' \in Seq(Sessions) /\ IsInjective(queue') /\ ToSet(queue') = ToSet(queue) \ {s}
    BY <2>0, <1>i, <1>2, QueueTail DEF AcceptSession, HandsInv, SessionTypeOK, QueueInjective
  <2>2. /\ UNCHANGED <<session, held, arg>> /\ served' = served \cup {s}
        /\ pc' = [pc EXCEPT ![t] = "server leave"] /\ pc[t] = "user"
    BY <2>0, <1>2 DEF AcceptSession
  <2>3. HandedWell(s) /\ s \notin served
    BY <2>0, <1>i, <2>1 DEF HandsInv, SessionsHanded, HandedWell
  <2>4. \A u \in Threads : Using(u) => arg[u] # s
    BY <2>0, <1>i, <2>1 DEF HandsInv, SessionsInHand, InHand, Using, Building, Finalizing
  <2>5. CleanedUp(s)' <=> CleanedUp(s)
    BY <2>0, <2>2 DEF CleanedUp
  <2>6. HandedWell(s)'
    BY <2>0, <2>1, <2>2, <2>3, <2>5 DEF HandedWell, ServerHas
  <2>7. SessionTypeOK' /\ QueueInjective'
    BY <2>0, <1>i, <2>1, <2>2 DEF HandsInv, SessionTypeOK, QueueInjective
  <2>8. OthersStay(t) /\ OnlyAbout(s) /\ ~Using(t) /\ ~Using(t)'
    BY <2>0, <2>1, <2>2 DEF OthersStay, OnlyAbout, Using, Building, Finalizing
  <2> QED
    BY <2>0, <1>i, <2>1, <2>4, <2>6, <2>7, <2>8, HandsMovedStep DEF HandsMoved
<1>3. ASSUME NEW t \in Threads, NEW s \in Sessions, CloseClientSession(t, s) PROVE HandsInv'
  <2>1. /\ pc[t] = "user" /\ s \in held /\ held' = held \ {s} /\ UNCHANGED <<queue, served>>
        /\ CloseSessionEnd(t, s, "user")
    BY <1>3 DEF CloseClientSession
  <2>2. ~(s \in served /\ s \in ToSet(queue)) /\ ~Using(t)
    BY <1>i, <2>1 DEF HandsInv, SessionsHanded, Using, Building, Finalizing
  <2>3. \A u \in Threads : Using(u) /\ arg[u] = s => CleanedUp(s) /\ pc[u] = "cleanup close"
    BY <1>i, <2>1 DEF HandsInv, SessionsInHand, InHand, CleanedUp
  <2>4. CASE ~(ServerHas(s) \/ CleanedUp(s))
    <3>1. session[s] = Object(1)
      BY <1>i, <2>1, <2>4 DEF HandsInv, SessionsHanded
    <3>2. served' = served \ {s} /\ s \notin ToSet(queue)
      BY <2>1, <2>4 DEF ServerHas
    <3> QED
      BY <1>i, <2>1, <2>2, <2>3, <2>4, <3>1, <3>2, LastEndStep
  <2>5. CASE ServerHas(s) \/ CleanedUp(s)
    <3>1. session[s] = Object(2)
      BY <1>i, <2>1, <2>5 DEF HandsInv, SessionsHanded
    <3>2. s \notin held' /\ held' \subseteq held
      BY <2>1
    <3> QED
      BY <1>i, <2>1, <2>2, <2>3, <3>1, <3>2, OtherEndStep
  <2> QED
    BY <2>4, <2>5
<1>4. ASSUME NEW t \in Threads, NEW s \in Sessions, CloseServerSession(t, s) PROVE HandsInv'
  <2>1. /\ pc[t] = "user" /\ s \in served /\ served' = served \ {s} /\ UNCHANGED <<queue, held>>
        /\ CloseSessionEnd(t, s, "user")
    BY <1>4 DEF CloseServerSession
  <2>2. ServerHas(s) /\ s \notin ToSet(queue) /\ ~Using(t)
    BY <1>i, <2>1 DEF HandsInv, SessionsHanded, ServerHas, Using, Building, Finalizing
  <2>3. \A u \in Threads : Using(u) => arg[u] # s
    BY <1>i, <2>1 DEF HandsInv, SessionsInHand, InHand
  <2>4. CASE s \notin held
    <3>1. session[s] = Object(1) /\ held' = held \ {s}
      BY <1>i, <2>1, <2>2, <2>4 DEF HandsInv, SessionsHanded
    <3> QED
      BY <1>i, <2>1, <2>2, <2>3, <3>1, LastEndStep
  <2>5. CASE s \in held
    <3>1. session[s] = Object(2)
      BY <1>i, <2>2, <2>5 DEF HandsInv, SessionsHanded
    <3>2. ~ServerHas(s)' /\ served' \subseteq served
      BY <2>1, <2>2 DEF ServerHas
    <3> QED
      BY <1>i, <2>1, <2>2, <2>3, <3>1, <3>2, OtherEndStep
  <2> QED
    BY <2>4, <2>5
<1>5. ASSUME NEW t \in Threads, NEW end \in Ends, Wait(t, end) PROVE HandsInv'
  BY <1>i, <1>5, HandsKeptStep DEF Wait, HandsKept, Using, SameHand, Building, Finalizing
<1>6. ASSUME NEW t \in Threads, NEW end \in Ends, CloseHandle(t, end) PROVE HandsInv'
  BY <1>i, <1>6, HandsKeptStep
     DEF CloseHandle, HandsKept, Using, SameHand, Building, Finalizing, ClosePortEnd
<1>7. ASSUME NEW t \in Threads, Reserve(t) PROVE HandsInv'
  BY <1>i, <1>7, HandsKeptStep DEF Reserve, HandsKept, Using, SameHand, Building, Finalizing
<1>8. ASSUME NEW t \in Threads, Create(t) PROVE HandsInv'
  <2>1. CASE pc' = [pc EXCEPT ![t] = "release"] /\ back' = [back EXCEPT ![t] = "client leave"]
             /\ UNCHANGED <<session, arg>>
    BY <1>i, <1>8, <2>1, HandsKeptStep
       DEF Create, HandsKept, Using, SameHand, Building, Finalizing
  <2>2. CASE \E s \in FreeObjects : /\ session' = [session EXCEPT ![s] = NewObject]
                                    /\ arg' = [arg EXCEPT ![t] = s]
                                    /\ pc' = [pc EXCEPT ![t] = "load"] /\ UNCHANGED back
    <3>1. PICK s \in FreeObjects : /\ session' = [session EXCEPT ![s] = NewObject]
                                  /\ arg' = [arg EXCEPT ![t] = s]
                                  /\ pc' = [pc EXCEPT ![t] = "load"]
      BY <1>8, <2>2 DEF Create, NewObject
    <3>2. pc[t] = "create" /\ UNCHANGED <<queue, held, served>>
      BY <1>8 DEF Create
    <3>3. s \in Sessions /\ session[s] \notin {NewObject, Object(0), Object(1), Object(2)}
      <4>1. s \in Sessions /\ session[s].stage = "free"
        BY DEF FreeObjects
      <4>2. NewObject.stage = "new" /\ \A n : Object(n).stage = "live"
        BY DEF Object, NewObject
      <4> QED
        BY <4>1, <4>2
    <3>4. s \notin held /\ ~ServerHas(s)
      BY <1>i, <3>3 DEF HandsInv, SessionsHanded
    <3>5. \A u \in Threads : Using(u) => arg[u] # s
      BY <1>i, <3>3 DEF HandsInv, SessionsInHand, InHand, Using
    <3>6. SessionTypeOK' /\ QueueInjective'
      BY <1>i, <3>1, <3>2, <3>3, Stages DEF HandsInv, SessionTypeOK, QueueInjective
    <3>7. session'[s] = NewObject
      BY <1>i, <3>1, <3>3 DEF HandsInv, SessionTypeOK
    <3>8. InHand(t)'
      BY <1>i, <3>1, <3>2, <3>3, <3>4, <3>7 DEF InHand, ServerHas, Building, Finalizing
    <3>9. HandedWell(s)'
      BY <3>2, <3>4 DEF HandedWell, ServerHas
    <3>10. OthersStay(t) /\ ~Using(t) /\ arg'[t] = s
      BY <3>1, <3>2 DEF OthersStay, Using, Building, Finalizing
    <3>11. OnlyAbout(s)
      BY <1>i, <3>1, <3>2 DEF OnlyAbout, HandsInv, SessionTypeOK
    <3> QED
      BY <1>i, <3>3, <3>5, <3>6, <3>8, <3>9, <3>10, <3>11, HandsMovedStep DEF HandsMoved
  <2> QED
    BY <1>8, <2>1, <2>2 DEF Create, Goto, NewObject
<1>9. ASSUME NEW t \in Threads, LoadSessions(t) PROVE HandsInv'
  BY <1>i, <1>9, HandsKeptStep DEF LoadSessions, HandsKept, Using, SameHand, Building, Finalizing
<1>10. ASSUME NEW t \in Threads, OutOfSessions(t) PROVE HandsInv'
  BY <1>i, <1>10, HandsKeptStep
     DEF OutOfSessions, HandsKept, Using, SameHand, Building, Finalizing
<1>11. ASSUME NEW t \in Threads, CountSession(t) PROVE HandsInv'
  BY <1>i, <1>11, HandsKeptStep DEF CountSession, HandsKept, Using, SameHand, Building, Finalizing
<1>12. ASSUME NEW t \in Threads, LoadPeak(t) PROVE HandsInv'
  BY <1>i, <1>12, HandsKeptStep DEF LoadPeak, HandsKept, Using, SameHand, Building, Finalizing
<1>13. ASSUME NEW t \in Threads, UpdatePeak(t) PROVE HandsInv'
  BY <1>i, <1>13, HandsKeptStep DEF UpdatePeak, HandsKept, Using, SameHand, Building, Finalizing
<1>14. ASSUME NEW t \in Threads, Initialize(t) PROVE HandsInv'
  <2>0. PICK s : s = arg[t]
    OBVIOUS
  <2>1. pc[t] = "initialize" /\ pc' = [pc EXCEPT ![t] = "enqueue"] /\ UNCHANGED <<queue, held, served, arg>>
    BY <2>0, <1>14 DEF Initialize
  <2>2. session' = [session EXCEPT ![s] = Object(2)]
    BY <2>0, <1>14 DEF Initialize, Object
  <2>3. InHand(t) /\ Using(t)
    BY <2>0, <1>i, <2>1 DEF HandsInv, SessionsInHand, Using, Building, Finalizing
  <2>4. s \in Sessions /\ s \notin held /\ ~ServerHas(s)
    BY <2>0, <2>1, <2>3 DEF InHand, ServerHas
  <2>5. \A u \in Threads \ {t} : Using(u) => arg[u] # s
    BY <2>0, <1>i, <2>3 DEF HandsInv, OneUser, Using, Building, Finalizing
  <2>6. SessionTypeOK' /\ QueueInjective'
    BY <2>0, <1>i, <2>1, <2>2, <2>4, Stages DEF HandsInv, SessionTypeOK, QueueInjective
  <2>7. session'[s] = Object(2) /\ arg'[t] = s /\ arg[t] = s
    BY <2>0, <1>i, <2>1, <2>2, <2>4 DEF HandsInv, SessionTypeOK
  <2>8. InHand(t)' /\ HandedWell(s)'
    BY <2>0, <2>1, <2>4, <2>7 DEF InHand, HandedWell, ServerHas, Using, Building, Finalizing
  <2>9. OthersStay(t) /\ OnlyAbout(s)
    BY <2>0, <1>i, <2>1, <2>2
       DEF OthersStay, OnlyAbout, HandsInv, SessionTypeOK, Using, Building, Finalizing
  <2> QED
    BY <2>0, <1>i, <2>4, <2>5, <2>6, <2>7, <2>8, <2>9, HandsMovedStep DEF HandsMoved
<1>15. ASSUME NEW t \in Threads, EnqueueSession(t) PROVE HandsInv'
  <2>0. PICK s : s = arg[t]
    OBVIOUS
  <2>1. /\ pc[t] = "enqueue" /\ UNCHANGED <<session, served>>
        /\ queue' = Append(queue, s) /\ held' = held \cup {s}
        /\ arg' = [arg EXCEPT ![t] = NoSession]
    BY <2>0, <1>15 DEF EnqueueSession
  <2>2. pc'[t] = "client leave" /\ \A u \in Threads \ {t} : pc'[u] = pc[u] \/ (~Using(u) /\ ~Using(u)')
    BY <2>0, <1>15 DEF EnqueueSession, Woken, Using, Building, Finalizing
  <2>3. InHand(t) /\ Using(t)
    BY <2>0, <1>i, <2>1 DEF HandsInv, SessionsInHand, Using, Building, Finalizing
  <2>4. s \in Sessions /\ s \notin held /\ s \notin served /\ s \notin ToSet(queue) /\ session[s] = Object(2)
    BY <2>0, <2>1, <2>3 DEF InHand
  <2>5. \A u \in Threads \ {t} : Using(u) => arg[u] # s
    BY <2>0, <1>i, <2>3 DEF HandsInv, OneUser, Using, Building, Finalizing
  <2>6. queue' \in Seq(Sessions) /\ IsInjective(queue') /\ ToSet(queue') = ToSet(queue) \cup {s}
    BY <2>0, <1>i, <2>1, <2>4, QueueAppend DEF HandsInv, SessionTypeOK, QueueInjective
  <2>7. SessionTypeOK' /\ QueueInjective'
    BY <2>0, <1>i, <2>1, <2>4, <2>6 DEF HandsInv, SessionTypeOK, QueueInjective
  <2>8. HandedWell(s)'
    BY <2>0, <2>1, <2>4, <2>6 DEF HandedWell, ServerHas
  <2>9. OthersStay(t) /\ OnlyAbout(s) /\ arg[t] = s /\ ~Using(t)'
    BY <2>0, <2>1, <2>2, <2>6 DEF OthersStay, OnlyAbout, Using, Building, Finalizing
  <2> QED
    BY <2>0, <1>i, <2>4, <2>5, <2>7, <2>8, <2>9, HandsMovedStep DEF HandsMoved
<1>16. ASSUME NEW t \in Threads, EnqueueRefused(t) PROVE HandsInv'
  BY <1>i, <1>16, HandsKeptStep
     DEF EnqueueRefused, HandsKept, Using, SameHand, Building, Finalizing
<1>17. ASSUME NEW t \in Threads, RefusedClosesClient(t) PROVE HandsInv'
  <2>0. PICK s : s = arg[t]
    OBVIOUS
  <2>1. pc[t] = "refused" /\ UNCHANGED <<queue, held, served>> /\ CloseSessionEnd(t, s, "refused server")
    BY <2>0, <1>17 DEF RefusedClosesClient
  <2>2. InHand(t) /\ Using(t)
    BY <2>0, <1>i, <2>1 DEF HandsInv, SessionsInHand, Using, Building, Finalizing
  <2>3. s \in Sessions /\ s \notin held /\ ~ServerHas(s) /\ session[s] = Object(2)
    BY <2>0, <2>1, <2>2 DEF InHand, ServerHas
  <2>4. /\ session' = [session EXCEPT ![s] = Object(1)]
        /\ pc' = [pc EXCEPT ![t] = "refused server"] /\ UNCHANGED arg
    BY <2>0, <1>i, <2>1, <2>3, OtherEnd DEF HandsInv
  <2>5. \A u \in Threads \ {t} : Using(u) => arg[u] # s
    BY <2>0, <1>i, <2>2 DEF HandsInv, OneUser, Using, Building, Finalizing
  <2>6. SessionTypeOK' /\ QueueInjective'
    BY <2>0, <1>i, <2>1, <2>3, <2>4, Stages DEF HandsInv, SessionTypeOK, QueueInjective
  <2>7. session'[s] = Object(1) /\ arg'[t] = s /\ arg[t] = s
    BY <2>0, <1>i, <2>1, <2>3, <2>4 DEF HandsInv, SessionTypeOK
  <2>8. InHand(t)' /\ HandedWell(s)'
    BY <2>0, <2>1, <2>3, <2>4, <2>7 DEF InHand, HandedWell, ServerHas, Using, Building, Finalizing
  <2>9. OthersStay(t) /\ OnlyAbout(s)
    BY <2>0, <1>i, <2>1, <2>4
       DEF OthersStay, OnlyAbout, HandsInv, SessionTypeOK, Using, Building, Finalizing
  <2> QED
    BY <2>0, <1>i, <2>3, <2>5, <2>6, <2>7, <2>8, <2>9, HandsMovedStep DEF HandsMoved
<1>18. ASSUME NEW t \in Threads, RefusedClosesServer(t) PROVE HandsInv'
  <2>0. PICK s : s = arg[t]
    OBVIOUS
  <2>1. pc[t] = "refused server" /\ UNCHANGED <<queue, held, served>> /\ CloseSessionEnd(t, s, "client leave")
    BY <2>0, <1>18 DEF RefusedClosesServer
  <2>2. InHand(t) /\ Using(t)
    BY <2>0, <1>i, <2>1 DEF HandsInv, SessionsInHand, Using, Building, Finalizing
  <2>3. s \in Sessions /\ s \notin held /\ s \notin served /\ s \notin ToSet(queue)
        /\ session[s] = Object(1)
    BY <2>0, <2>1, <2>2 DEF InHand
  <2>4. \A u \in Threads \ {t} : Using(u) => arg[u] # s
    BY <2>0, <1>i, <2>2 DEF HandsInv, OneUser
  <2>5. held' = held \ {s} /\ served' = served \ {s}
    BY <2>1, <2>3
  <2> QED
    BY <1>i, <2>0, <2>1, <2>3, <2>4, <2>5, LastEndStep
<1>19. ASSUME NEW t \in Threads, NEW end \in Ends, Leave(t, end) PROVE HandsInv'
  BY <1>i, <1>19, HandsKeptStep
     DEF Leave, HandsKept, Using, SameHand, Building, Finalizing, ClosePortEnd
<1>20. ASSUME NEW t \in Threads, DestroyClientPort(t) PROVE HandsInv'
  BY <1>i, <1>20, HandsKeptStep
     DEF DestroyClientPort, HandsKept, Using, SameHand, Building, Finalizing
<1>21. ASSUME NEW t \in Threads, OnServerClosed(t) PROVE HandsInv'
  BY <1>i, <1>21, HandsKeptStep
     DEF OnServerClosed, HandsKept, Using, SameHand, Building, Finalizing
<1>22. ASSUME NEW t \in Threads, CleanupPop(t) PROVE HandsInv'
  <2>0. PICK s : s = Head(queue)
    OBVIOUS
  <2>1. /\ s \in ToSet(queue) /\ s \in Sessions
        /\ queue' \in Seq(Sessions) /\ IsInjective(queue') /\ ToSet(queue') = ToSet(queue) \ {s}
    BY <2>0, <1>i, <1>22, QueueTail DEF CleanupPop, HandsInv, SessionTypeOK, QueueInjective
  <2>2. /\ UNCHANGED <<session, held, served>> /\ arg' = [arg EXCEPT ![t] = s]
        /\ pc' = [pc EXCEPT ![t] = "cleanup close"] /\ pc[t] = "cleanup"
    BY <2>0, <1>22 DEF CleanupPop
  <2>3. HandedWell(s) /\ s \notin served
    BY <2>0, <1>i, <2>1 DEF HandsInv, SessionsHanded, HandedWell
  <2>4. \A u \in Threads : Using(u) => arg[u] # s
    BY <2>0, <1>i, <2>1 DEF HandsInv, SessionsInHand, InHand, Using, Building, Finalizing
  <2>5. CleanedUp(s)' /\ ServerHas(s)
    BY <2>0, <2>1, <2>2 DEF CleanedUp, ServerHas
  <2>6. HandedWell(s)' /\ InHand(t)'
    BY <2>0, <2>1, <2>2, <2>3, <2>5 DEF HandedWell, ServerHas, InHand, Using, Building, Finalizing
  <2>7. SessionTypeOK' /\ QueueInjective'
    BY <2>0, <1>i, <2>1, <2>2 DEF HandsInv, SessionTypeOK, QueueInjective
  <2>8. OthersStay(t) /\ OnlyAbout(s) /\ ~Using(t) /\ arg'[t] = s
    BY <2>0, <2>1, <2>2 DEF OthersStay, OnlyAbout, Using, Building, Finalizing
  <2> QED
    BY <2>0, <1>i, <2>1, <2>4, <2>6, <2>7, <2>8, HandsMovedStep DEF HandsMoved
<1>23. ASSUME NEW t \in Threads, CleanupClose(t) PROVE HandsInv'
  <2>0. PICK s : s = arg[t]
    OBVIOUS
  <2>1. pc[t] = "cleanup close" /\ UNCHANGED <<queue, held, served>> /\ CloseSessionEnd(t, s, "cleanup")
    BY <2>0, <1>23 DEF CleanupClose
  <2>2. InHand(t) /\ Using(t)
    BY <2>0, <1>i, <2>1 DEF HandsInv, SessionsInHand, Using, Building, Finalizing
  <2>3. s \in Sessions /\ s \notin served /\ s \notin ToSet(queue)
    BY <2>0, <2>2 DEF InHand
  <2>4. \A u \in Threads \ {t} : Using(u) => arg[u] # s
    BY <2>0, <1>i, <2>2 DEF HandsInv, OneUser
  <2>5. CASE s \notin held
    <3>1. session[s] = Object(1) /\ held' = held \ {s} /\ served' = served \ {s}
      BY <2>0, <2>1, <2>2, <2>3, <2>5 DEF InHand
    <3> QED
      BY <1>i, <2>0, <2>1, <2>3, <2>4, <3>1, LastEndStep
  <2>6. CASE s \in held
    <3>1. session[s] = Object(2) /\ ~ServerHas(s)'
      BY <2>0, <2>1, <2>2, <2>3, <2>6 DEF InHand, ServerHas
    <3> QED
      BY <1>i, <2>0, <2>1, <2>3, <2>4, <3>1, OtherEndStep
  <2> QED
    BY <2>5, <2>6
<1>24. ASSUME NEW t \in Threads, CleanupReturns(t) PROVE HandsInv'
  BY <1>i, <1>24, HandsKeptStep
     DEF CleanupReturns, HandsKept, Using, SameHand, Building, Finalizing
<1>25. ASSUME NEW t \in Threads, OnSessionFinalized(t) PROVE HandsInv'
  BY <1>i, <1>25, HandsKeptStep
     DEF OnSessionFinalized, HandsKept, Using, SameHand, Building, Finalizing
<1>26. ASSUME NEW t \in Threads, NotifyAvailable(t) PROVE HandsInv'
  BY <1>i, <1>26, HandsKeptStep
     DEF NotifyAvailable, HandsKept, Using, SameHand, Building, Finalizing, Woken
<1>27. ASSUME NEW t \in Threads, FinalizeClosesPort(t) PROVE HandsInv'
  BY <1>i, <1>27, HandsKeptStep
     DEF FinalizeClosesPort, HandsKept, Using, SameHand, Building, Finalizing
<1>28. ASSUME NEW t \in Threads, Free(t) PROVE HandsInv'
  <2>0. PICK s : s = arg[t]
    OBVIOUS
  <2>1. /\ pc[t] = "free" /\ pc' = [pc EXCEPT ![t] = "release"]
        /\ UNCHANGED <<queue, held, served>> /\ arg' = [arg EXCEPT ![t] = NoSession]
        /\ session' = [session EXCEPT ![s] = FreeObject]
    BY <2>0, <1>28 DEF Free
  <2>2. InHand(t) /\ Using(t)
    BY <2>0, <1>i, <2>1 DEF HandsInv, SessionsInHand, Using, Building, Finalizing
  <2>3. s \in Sessions /\ s \notin held /\ ~ServerHas(s)
    BY <2>0, <2>1, <2>2 DEF InHand, ServerHas
  <2>4. \A u \in Threads \ {t} : Using(u) => arg[u] # s
    BY <2>0, <1>i, <2>2 DEF HandsInv, OneUser, Using, Building, Finalizing
  <2>5. SessionTypeOK' /\ QueueInjective'
    BY <2>0, <1>i, <2>1, <2>3, Stages DEF HandsInv, SessionTypeOK, QueueInjective
  <2>6. HandedWell(s)'
    BY <2>0, <2>1, <2>3 DEF HandedWell, ServerHas
  <2>7. OthersStay(t) /\ OnlyAbout(s) /\ arg[t] = s /\ ~Using(t)'
    BY <2>0, <1>i, <2>1
       DEF OthersStay, OnlyAbout, HandsInv, SessionTypeOK, Using, Building, Finalizing
  <2> QED
    BY <2>0, <1>i, <2>3, <2>4, <2>5, <2>6, <2>7, HandsMovedStep DEF HandsMoved
<1>29. ASSUME NEW t \in Threads, Release(t) PROVE HandsInv'
  BY <1>i, <1>29, HandsKeptStep DEF Release, HandsKept, Using, SameHand, Building, Finalizing
<1>30. CASE UNCHANGED vars
  BY <1>i, <1>30, HandsKeptStep DEF HandsKept, Using, SameHand
<1> QED
  BY PortCases,
     <1>1, <1>2, <1>3, <1>4, <1>5, <1>6, <1>7, <1>8, <1>9, <1>10, <1>11, <1>12, <1>13,
     <1>14, <1>15, <1>16, <1>17, <1>18, <1>19, <1>20, <1>21, <1>22, <1>23, <1>24, <1>25,
     <1>26, <1>27, <1>28, <1>29, <1>30 DEF PortAction

-----------------------------------------------------------------------------
(* The session resource. *)
Reservers == At({"create", "release"})
ReservedInv ==
    /\ reserved = Cardinality(Allocated) + Cardinality(Reservers)
    /\ reserved \in 0 .. SessionLimit

(* The reservations are finitely many. *)
LEMMA Finite ==
    /\ IsFiniteSet(Reservers) /\ Cardinality(Reservers) \in Nat
    /\ IsFiniteSet(Allocated) /\ Cardinality(Allocated) \in Nat
<1>1. Reservers \subseteq Threads /\ Allocated \subseteq Sessions
  BY DEF Reservers, At, Allocated
<1>2. IsFiniteSet(Reservers) /\ IsFiniteSet(Allocated)
  BY <1>1, ThreadsFinite, FS_Subset
<1> QED
  BY <1>2, FS_CardinalityType

ReservationsKept ==
    /\ reserved' = reserved
    /\ \A x \in Sessions : session'[x].stage = "free" <=> session[x].stage = "free"
    /\ \A u \in Threads : pc'[u] \in {"create", "release"} <=> pc[u] \in {"create", "release"}

(* A step that neither reserves nor releases. *)
LEMMA ReservationsKeptStep == ReservedInv /\ ReservationsKept => ReservedInv'
<1> SUFFICES ASSUME ReservedInv, ReservationsKept PROVE ReservedInv'
  OBVIOUS
<1>1. At({"create", "release"})' = At({"create", "release"})
  BY DEF ReservationsKept, At
<1>2. Allocated' = Allocated
  BY DEF ReservationsKept, Allocated
<1> QED
  BY <1>1, <1>2 DEF ReservedInv, Reservers, ReservationsKept

(* Reservations and allocated objects stay balanced. *)
LEMMA ReservedStep == PortInv /\ [Next]_vars => ReservedInv'
<1> SUFFICES ASSUME PortInv, [Next]_vars PROVE ReservedInv'
  OBVIOUS
<1>i. ReservedInv
  BY DEF PortInv, TypeOK, ReservedInv, ReservationsExact, Reservers
<1>f. /\ IsFiniteSet(Reservers) /\ Cardinality(Reservers) \in Nat
      /\ IsFiniteSet(Allocated) /\ Cardinality(Allocated) \in Nat
      /\ SessionLimit \in Nat
  BY Finite, PortAssumption
<1>t. session \in [Sessions -> [stage : {"free", "new", "live"}, ref : 0 .. 2]]
  BY DEF PortInv, TypeOK
<1>u. \A u \in Threads : Using(u) => InHand(u) /\ arg[u] \in Sessions
  BY DEF PortInv, SessionsInHand, InHand
<1>p. pc \in [Threads -> Places]
  BY DEF PortInv, LocalTypeOK
<1>l. \A u \in Threads : back[u] \in {"user", "client leave", "cleanup"}
  BY DEF PortInv, LocalTypeOK
<1> USE <1>p, <1>l
    DEF portVars, countVars, ownVars, localVars, vars, Goto, Ends, AsleepOn, Leaving, Destroying
<1>1. ASSUME NEW t \in Threads, ConnectToPort(t) PROVE ReservedInv'
  BY <1>i, <1>1, ReservationsKeptStep DEF ConnectToPort, ReservationsKept
<1>2. ASSUME NEW t \in Threads, AcceptSession(t) PROVE ReservedInv'
  BY <1>i, <1>2, ReservationsKeptStep DEF AcceptSession, ReservationsKept
<1>3. ASSUME NEW t \in Threads, NEW s \in Sessions, CloseClientSession(t, s) PROVE ReservedInv'
  <2>1. \A x \in Sessions : session'[x].stage = session[x].stage
    BY <1>3, <1>t DEF CloseClientSession, CloseSessionEnd
  <2> QED
    BY <1>i, <1>3, <2>1, ReservationsKeptStep
       DEF CloseClientSession, CloseSessionEnd, ReservationsKept
<1>4. ASSUME NEW t \in Threads, NEW s \in Sessions, CloseServerSession(t, s) PROVE ReservedInv'
  <2>1. \A x \in Sessions : session'[x].stage = session[x].stage
    BY <1>4, <1>t DEF CloseServerSession, CloseSessionEnd
  <2> QED
    BY <1>i, <1>4, <2>1, ReservationsKeptStep
       DEF CloseServerSession, CloseSessionEnd, ReservationsKept
<1>5. ASSUME NEW t \in Threads, NEW end \in Ends, Wait(t, end) PROVE ReservedInv'
  BY <1>i, <1>5, ReservationsKeptStep DEF Wait, ReservationsKept
<1>6. ASSUME NEW t \in Threads, NEW end \in Ends, CloseHandle(t, end) PROVE ReservedInv'
  BY <1>i, <1>6, ReservationsKeptStep DEF CloseHandle, ClosePortEnd, ReservationsKept
<1>7. ASSUME NEW t \in Threads, Reserve(t) PROVE ReservedInv'
  <2>1. CASE Goto(t, "client leave") /\ UNCHANGED reserved
    BY <1>i, <1>7, <2>1, ReservationsKeptStep DEF Reserve, ReservationsKept
  <2>2. CASE Budget!Take(1) /\ Goto(t, "create")
    <3>1. reserved + 1 <= SessionLimit /\ reserved' = reserved + 1
      BY <2>2 DEF Budget!Take
    <3>2. Reservers' = Reservers \cup {t} /\ t \notin Reservers
      BY <1>7, <2>2 DEF Reserve, Reservers, At
    <3>3. Allocated' = Allocated
      BY <1>7 DEF Reserve, Allocated
    <3>4. Cardinality(Reservers') = Cardinality(Reservers) + 1
      BY <1>f, <3>2, FS_AddElement
    <3> QED
      BY ONLY <1>i, <1>f, <3>1, <3>3, <3>4 DEF ReservedInv
  <2> QED
    BY <1>7, <2>1, <2>2 DEF Reserve
<1>8. ASSUME NEW t \in Threads, Create(t) PROVE ReservedInv'
  <2>1. CASE pc' = [pc EXCEPT ![t] = "release"] /\ back' = [back EXCEPT ![t] = "client leave"]
             /\ UNCHANGED <<session, arg>>
    BY <1>i, <1>8, <2>1, ReservationsKeptStep DEF Create, ReservationsKept
  <2>2. CASE \E s \in FreeObjects : /\ session' = [session EXCEPT ![s] = NewObject]
                                    /\ arg' = [arg EXCEPT ![t] = s]
                                    /\ pc' = [pc EXCEPT ![t] = "load"] /\ UNCHANGED back
    <3>1. PICK s \in FreeObjects : /\ session' = [session EXCEPT ![s] = NewObject]
                                  /\ pc' = [pc EXCEPT ![t] = "load"]
      BY <1>8, <2>2 DEF Create, NewObject
    <3>2. pc[t] = "create" /\ UNCHANGED reserved
      BY <1>8 DEF Create
    <3>3. Reservers' = Reservers \ {t} /\ t \in Reservers
      BY <3>1, <3>2 DEF Reservers, At
    <3>4. Allocated' = Allocated \cup {s} /\ s \notin Allocated
      BY ZenonT(60), <1>t, <3>1 DEF Allocated, FreeObjects, NewObject
    <3>5. Cardinality(Reservers') = Cardinality(Reservers) - 1
      BY <1>f, <3>3, FS_RemoveElement
    <3>6. Cardinality(Allocated') = Cardinality(Allocated) + 1
      BY <1>f, <3>4, FS_AddElement
    <3> QED
      BY ONLY <1>i, <1>f, <3>2, <3>5, <3>6 DEF ReservedInv
  <2> QED
    BY <1>8, <2>1, <2>2 DEF Create, Goto, NewObject
<1>9. ASSUME NEW t \in Threads, LoadSessions(t) PROVE ReservedInv'
  BY <1>i, <1>9, ReservationsKeptStep DEF LoadSessions, ReservationsKept
<1>10. ASSUME NEW t \in Threads, OutOfSessions(t) PROVE ReservedInv'
  BY <1>i, <1>10, ReservationsKeptStep DEF OutOfSessions, ReservationsKept
<1>11. ASSUME NEW t \in Threads, CountSession(t) PROVE ReservedInv'
  BY <1>i, <1>11, ReservationsKeptStep DEF CountSession, ReservationsKept
<1>12. ASSUME NEW t \in Threads, LoadPeak(t) PROVE ReservedInv'
  BY <1>i, <1>12, ReservationsKeptStep DEF LoadPeak, ReservationsKept
<1>13. ASSUME NEW t \in Threads, UpdatePeak(t) PROVE ReservedInv'
  BY <1>i, <1>13, ReservationsKeptStep DEF UpdatePeak, ReservationsKept
<1>14. ASSUME NEW t \in Threads, Initialize(t) PROVE ReservedInv'
  <2>1. session[arg[t]] = NewObject /\ arg[t] \in Sessions
    BY <1>u, <1>14 DEF Initialize, Using, Building, InHand
  <2>2. session[arg[t]].stage = "new" /\ session'[arg[t]].stage = "live"
    <3>1. session' = [session EXCEPT ![arg[t]] = Object(2)]
      BY <1>14 DEF Initialize, Object
    <3> QED
      BY <1>t, <2>1, <3>1, Stages
  <2>3. \A x \in Sessions : session'[x].stage = "free" <=> session[x].stage = "free"
    BY <1>14, <1>t, <2>1, <2>2 DEF Initialize
  <2> QED
    BY <1>i, <1>14, <2>3, ReservationsKeptStep DEF Initialize, ReservationsKept
<1>15. ASSUME NEW t \in Threads, EnqueueSession(t) PROVE ReservedInv'
  BY <1>i, <1>15, ReservationsKeptStep DEF EnqueueSession, Woken, ReservationsKept
<1>16. ASSUME NEW t \in Threads, EnqueueRefused(t) PROVE ReservedInv'
  BY <1>i, <1>16, ReservationsKeptStep DEF EnqueueRefused, ReservationsKept
<1>17. ASSUME NEW t \in Threads, RefusedClosesClient(t) PROVE ReservedInv'
  <2>1. arg[t] \in Sessions
    BY <1>u, <1>17 DEF RefusedClosesClient, Using
  <2>2. \A x \in Sessions : session'[x].stage = session[x].stage
    BY <1>17, <1>t, <2>1 DEF RefusedClosesClient, CloseSessionEnd
  <2> QED
    BY <1>i, <1>17, <2>2, ReservationsKeptStep
       DEF RefusedClosesClient, CloseSessionEnd, ReservationsKept
<1>18. ASSUME NEW t \in Threads, RefusedClosesServer(t) PROVE ReservedInv'
  <2>1. arg[t] \in Sessions
    BY <1>u, <1>18 DEF RefusedClosesServer, Using
  <2>2. \A x \in Sessions : session'[x].stage = session[x].stage
    BY <1>18, <1>t, <2>1 DEF RefusedClosesServer, CloseSessionEnd
  <2> QED
    BY <1>i, <1>18, <2>2, ReservationsKeptStep
       DEF RefusedClosesServer, CloseSessionEnd, ReservationsKept
<1>19. ASSUME NEW t \in Threads, NEW end \in Ends, Leave(t, end) PROVE ReservedInv'
  BY <1>i, <1>19, ReservationsKeptStep DEF Leave, ClosePortEnd, ReservationsKept
<1>20. ASSUME NEW t \in Threads, DestroyClientPort(t) PROVE ReservedInv'
  BY <1>i, <1>20, ReservationsKeptStep DEF DestroyClientPort, ReservationsKept
<1>21. ASSUME NEW t \in Threads, OnServerClosed(t) PROVE ReservedInv'
  BY <1>i, <1>21, ReservationsKeptStep DEF OnServerClosed, ReservationsKept
<1>22. ASSUME NEW t \in Threads, CleanupPop(t) PROVE ReservedInv'
  BY <1>i, <1>22, ReservationsKeptStep DEF CleanupPop, ReservationsKept
<1>23. ASSUME NEW t \in Threads, CleanupClose(t) PROVE ReservedInv'
  <2>1. arg[t] \in Sessions
    BY <1>u, <1>23 DEF CleanupClose, Using
  <2>2. \A x \in Sessions : session'[x].stage = session[x].stage
    BY <1>23, <1>t, <2>1 DEF CleanupClose, CloseSessionEnd
  <2> QED
    BY <1>i, <1>23, <2>2, ReservationsKeptStep DEF CleanupClose, CloseSessionEnd, ReservationsKept
<1>24. ASSUME NEW t \in Threads, CleanupReturns(t) PROVE ReservedInv'
  BY <1>i, <1>24, ReservationsKeptStep DEF CleanupReturns, ReservationsKept
<1>25. ASSUME NEW t \in Threads, OnSessionFinalized(t) PROVE ReservedInv'
  BY <1>i, <1>25, ReservationsKeptStep DEF OnSessionFinalized, ReservationsKept
<1>26. ASSUME NEW t \in Threads, NotifyAvailable(t) PROVE ReservedInv'
  BY <1>i, <1>26, ReservationsKeptStep DEF NotifyAvailable, Woken, ReservationsKept
<1>27. ASSUME NEW t \in Threads, FinalizeClosesPort(t) PROVE ReservedInv'
  BY <1>i, <1>27, ReservationsKeptStep DEF FinalizeClosesPort, ReservationsKept
<1>28. ASSUME NEW t \in Threads, Free(t) PROVE ReservedInv'
  <2>0. PICK s : s = arg[t]
    OBVIOUS
  <2>1. /\ pc[t] = "free" /\ pc' = [pc EXCEPT ![t] = "release"] /\ UNCHANGED reserved
        /\ session' = [session EXCEPT ![s] = FreeObject]
    BY <1>28, <2>0 DEF Free
  <2>2. s \in Sessions /\ session[s] \in {NewObject, Object(0)}
    BY <1>u, <2>0, <2>1 DEF Using, InHand
  <2>3. Reservers' = Reservers \cup {t} /\ t \notin Reservers
    BY <2>1 DEF Reservers, At
  <2>4. Allocated' = Allocated \ {s} /\ s \in Allocated
    <3>1. session[s].stage # "free"
      BY <2>2, Stages
    <3>2. session'[s].stage = "free" /\ \A x \in Sessions \ {s} : session'[x] = session[x]
      BY <1>t, <2>1, <2>2, Stages
    <3> QED
      BY <2>2, <3>1, <3>2 DEF Allocated
  <2>5. Cardinality(Reservers') = Cardinality(Reservers) + 1
    BY <1>f, <2>3, FS_AddElement
  <2>6. Cardinality(Allocated') = Cardinality(Allocated) - 1
    BY <1>f, <2>4, FS_RemoveElement
  <2> QED
    BY ONLY <1>i, <1>f, <2>1, <2>5, <2>6 DEF ReservedInv
<1>29. ASSUME NEW t \in Threads, Release(t) PROVE ReservedInv'
  <2>1. /\ pc[t] = "release" /\ pc' = [pc EXCEPT ![t] = back[t]] /\ UNCHANGED session
        /\ reserved' = reserved - 1
    BY <1>29 DEF Release, Budget!Give
  <2>2. Reservers' = Reservers \ {t} /\ t \in Reservers
    BY <2>1 DEF Reservers, At
  <2>3. Allocated' = Allocated
    BY <2>1 DEF Allocated
  <2>4. Cardinality(Reservers') = Cardinality(Reservers) - 1
    BY <1>f, <2>2, FS_RemoveElement
  <2>5. Cardinality(Reservers') \in Nat
    BY <1>f, <2>2, FS_RemoveElement, FS_CardinalityType
  <2> QED
    BY ONLY <1>i, <1>f, <2>1, <2>3, <2>4, <2>5 DEF ReservedInv
<1>30. CASE UNCHANGED vars
  BY <1>i, <1>30, ReservationsKeptStep DEF ReservationsKept
<1> QED
  BY PortCases,
     <1>1, <1>2, <1>3, <1>4, <1>5, <1>6, <1>7, <1>8, <1>9, <1>10, <1>11, <1>12, <1>13,
     <1>14, <1>15, <1>16, <1>17, <1>18, <1>19, <1>20, <1>21, <1>22, <1>23, <1>24, <1>25,
     <1>26, <1>27, <1>28, <1>29, <1>30 DEF PortAction

-----------------------------------------------------------------------------
(* The number of sessions. *)
Counted == {s \in Live : ~Finalized(s)}
Counting == At({"load peak", "peak", "initialize"})
CountInv ==
    /\ num = Cardinality(Counted) + Cardinality(Counting)
    /\ num \in 0 .. MaxSessions

(* The counted sessions are finitely many. *)
LEMMA FiniteCounts ==
    /\ IsFiniteSet(Counted) /\ Cardinality(Counted) \in Nat
    /\ IsFiniteSet(Counting) /\ Cardinality(Counting) \in Nat
<1>1. Counting \subseteq Threads /\ Counted \subseteq Sessions
  BY DEF Counting, At, Counted, Live
<1>2. IsFiniteSet(Counting) /\ IsFiniteSet(Counted)
  BY <1>1, ThreadsFinite, FS_Subset
<1> QED
  BY <1>2, FS_CardinalityType

CountKept ==
    /\ num' = num
    /\ \A x \in Sessions : session'[x].stage = "live" <=> session[x].stage = "live"
    /\ \A u \in Threads :
          /\ pc'[u] \in {"load peak", "peak", "initialize"}
               <=> pc[u] \in {"load peak", "peak", "initialize"}
          /\ \/ /\ pc'[u] \in {"notify", "close port", "free"}
                     <=> pc[u] \in {"notify", "close port", "free"}
                /\ pc[u] \in {"notify", "close port", "free"} => arg'[u] = arg[u]
             \/ /\ pc[u] \notin {"notify", "close port", "free"}
                /\ session[arg[u]].stage # "live" /\ arg'[u] = arg[u]

(* A step that neither opens nor finalizes a session. *)
LEMMA CountKeptStep == CountInv /\ CountKept => CountInv'
<1> SUFFICES ASSUME CountInv, CountKept PROVE CountInv'
  OBVIOUS
<1>1. Counting' = Counting
  BY DEF CountKept, Counting, At
<1>2. Live' = Live
  BY DEF CountKept, Live
<1>3. ASSUME NEW x \in Live PROVE Finalized(x)' <=> Finalized(x)
  <2>1. session[x].stage = "live"
    BY DEF Live
  <2>2. ASSUME NEW u \in Threads
        PROVE  pc'[u] \in {"notify", "close port", "free"} /\ arg'[u] = x
                 <=> pc[u] \in {"notify", "close port", "free"} /\ arg[u] = x
    BY <2>1 DEF CountKept
  <2> QED
    BY <2>2 DEF Finalized, At
<1>4. Counted' = Counted
  BY <1>2, <1>3 DEF Counted
<1> QED
  BY <1>1, <1>4 DEF CountInv, CountKept

(* m_num_sessions stays exact, and within m_max_sessions. *)
LEMMA CountStep == PortInv /\ [Next]_vars => CountInv'
<1> SUFFICES ASSUME PortInv, [Next]_vars PROVE CountInv'
  OBVIOUS
<1>i. CountInv
  BY DEF PortInv, TypeOK, SessionsCounted, CountInv, Counted, Counting
<1>f. /\ IsFiniteSet(Counted) /\ Cardinality(Counted) \in Nat
      /\ IsFiniteSet(Counting) /\ Cardinality(Counting) \in Nat
      /\ MaxSessions \in Nat
  BY FiniteCounts, PortAssumption
<1>t. session \in [Sessions -> [stage : {"free", "new", "live"}, ref : 0 .. 2]]
  BY DEF PortInv, TypeOK
<1>a. arg \in [Threads -> Sessions \cup {NoSession}] /\ NoSession \notin Sessions
  BY DEF PortInv, TypeOK, NoSession, Sessions
<1>u. \A u \in Threads : Using(u) => InHand(u) /\ arg[u] \in Sessions
  BY DEF PortInv, SessionsInHand, InHand
<1>o. \A u, v \in Threads : Using(u) /\ Using(v) /\ arg[u] = arg[v] => u = v
  BY DEF PortInv, OneUser
<1>p. pc \in [Threads -> Places]
  BY DEF PortInv, LocalTypeOK
<1>l. \A u \in Threads : back[u] \in {"user", "client leave", "cleanup"}
  BY DEF PortInv, LocalTypeOK
<1> USE <1>p, <1>a, <1>l
    DEF portVars, countVars, ownVars, localVars, vars, Goto, Ends, AsleepOn, Leaving, Destroying
<1>1. ASSUME NEW t \in Threads, ConnectToPort(t) PROVE CountInv'
  BY <1>i, <1>1, CountKeptStep DEF ConnectToPort, CountKept
<1>2. ASSUME NEW t \in Threads, AcceptSession(t) PROVE CountInv'
  BY <1>i, <1>2, CountKeptStep DEF AcceptSession, CountKept
<1>3. ASSUME NEW t \in Threads, NEW s \in Sessions, CloseClientSession(t, s) PROVE CountInv'
  <2>1. \A x \in Sessions : session'[x].stage = session[x].stage
    BY <1>3, <1>t DEF CloseClientSession, CloseSessionEnd
  <2> QED
    BY <1>i, <1>3, <2>1, CountKeptStep DEF CloseClientSession, CloseSessionEnd, CountKept
<1>4. ASSUME NEW t \in Threads, NEW s \in Sessions, CloseServerSession(t, s) PROVE CountInv'
  <2>1. \A x \in Sessions : session'[x].stage = session[x].stage
    BY <1>4, <1>t DEF CloseServerSession, CloseSessionEnd
  <2> QED
    BY <1>i, <1>4, <2>1, CountKeptStep DEF CloseServerSession, CloseSessionEnd, CountKept
<1>5. ASSUME NEW t \in Threads, NEW end \in Ends, Wait(t, end) PROVE CountInv'
  BY <1>i, <1>5, CountKeptStep DEF Wait, CountKept
<1>6. ASSUME NEW t \in Threads, NEW end \in Ends, CloseHandle(t, end) PROVE CountInv'
  BY <1>i, <1>6, CountKeptStep DEF CloseHandle, ClosePortEnd, CountKept
<1>7. ASSUME NEW t \in Threads, Reserve(t) PROVE CountInv'
  BY <1>i, <1>7, CountKeptStep DEF Reserve, CountKept
<1>8. ASSUME NEW t \in Threads, Create(t) PROVE CountInv'
  <2>1. CASE pc' = [pc EXCEPT ![t] = "release"] /\ back' = [back EXCEPT ![t] = "client leave"]
             /\ UNCHANGED <<session, arg>>
    BY <1>i, <1>8, <2>1, CountKeptStep DEF Create, CountKept
  <2>2. CASE \E s \in FreeObjects : /\ session' = [session EXCEPT ![s] = NewObject]
                                    /\ arg' = [arg EXCEPT ![t] = s]
                                    /\ pc' = [pc EXCEPT ![t] = "load"] /\ UNCHANGED back
    <3>1. PICK s \in FreeObjects : /\ session' = [session EXCEPT ![s] = NewObject]
                                  /\ arg' = [arg EXCEPT ![t] = s]
                                  /\ pc' = [pc EXCEPT ![t] = "load"]
      BY <1>8, <2>2 DEF Create, NewObject
    <3>2. pc[t] = "create" /\ UNCHANGED num
      BY <1>8 DEF Create
    <3>3. \A x \in Sessions : session'[x].stage = "live" <=> session[x].stage = "live"
      BY <1>t, <3>1, Stages DEF FreeObjects
    <3> QED
      BY <1>i, <3>1, <3>2, <3>3, CountKeptStep DEF CountKept
  <2> QED
    BY <1>8, <2>1, <2>2 DEF Create, Goto, NewObject
<1>9. ASSUME NEW t \in Threads, LoadSessions(t) PROVE CountInv'
  BY <1>i, <1>9, CountKeptStep DEF LoadSessions, CountKept
<1>10. ASSUME NEW t \in Threads, OutOfSessions(t) PROVE CountInv'
  <2>1. session[arg[t]].stage = "new"
    BY <1>u, <1>10, Stages DEF OutOfSessions, Using, Building, InHand
  <2> QED
    BY <1>i, <1>10, <2>1, CountKeptStep DEF OutOfSessions, CountKept
<1>11. ASSUME NEW t \in Threads, CountSession(t) PROVE CountInv'
  <2>1. CASE num # seen[t].old
    BY <1>i, <1>11, <2>1, CountKeptStep DEF CountSession, CountKept
  <2>2. CASE num = seen[t].old
    <3>1. /\ num < MaxSessions /\ num' = num + 1 /\ UNCHANGED <<session, arg>>
          /\ pc[t] = "count" /\ pc' = [pc EXCEPT ![t] = "load peak"]
      BY <1>11, <2>2 DEF CountSession
    <3>2. Counting' = Counting \cup {t} /\ t \notin Counting
      BY <3>1 DEF Counting, At
    <3>3. Counted' = Counted
      BY <3>1 DEF Counted, Live, Finalized, At
    <3>4. Cardinality(Counting') = Cardinality(Counting) + 1
      BY <1>f, <3>2, FS_AddElement
    <3>5. num < MaxSessions /\ num' = num + 1
      BY <3>1
    <3> QED
      BY ONLY <1>i, <1>f, <3>3, <3>4, <3>5 DEF CountInv
  <2> QED
    BY <2>1, <2>2
<1>12. ASSUME NEW t \in Threads, LoadPeak(t) PROVE CountInv'
  BY <1>i, <1>12, CountKeptStep DEF LoadPeak, CountKept
<1>13. ASSUME NEW t \in Threads, UpdatePeak(t) PROVE CountInv'
  BY <1>i, <1>13, CountKeptStep DEF UpdatePeak, CountKept
<1>14. ASSUME NEW t \in Threads, Initialize(t) PROVE CountInv'
  <2>0. PICK s : s = arg[t]
    OBVIOUS
  <2>1. /\ pc[t] = "initialize" /\ pc' = [pc EXCEPT ![t] = "enqueue"] /\ UNCHANGED <<num, arg>>
        /\ session' = [session EXCEPT ![s] = Object(2)]
    BY <1>14, <2>0 DEF Initialize, Object
  <2>2. Using(t) /\ s \in Sessions /\ session[s].stage = "new"
    BY <1>u, <2>0, <2>1, Stages DEF Using, Building, InHand
  <2>3. Counting' = Counting \ {t} /\ t \in Counting
    BY <2>1 DEF Counting, At
  <2>4. \A x \in Sessions : Finalized(x)' <=> Finalized(x)
    BY <2>1 DEF Finalized, At
  <2>5. ~Finalized(s)
    BY <1>o, <2>0, <2>1, <2>2 DEF Finalized, At, Using, Finalizing
  <2>6. session'[s].stage = "live" /\ \A x \in Sessions \ {s} : session'[x] = session[x]
    BY <1>t, <2>1, <2>2, Stages
  <2>7. Counted' = Counted \cup {s} /\ s \notin Counted
    BY <2>2, <2>4, <2>5, <2>6 DEF Counted, Live
  <2>8. Cardinality(Counting') = Cardinality(Counting) - 1
    BY <1>f, <2>3, FS_RemoveElement
  <2>9. Cardinality(Counted') = Cardinality(Counted) + 1
    BY <1>f, <2>7, FS_AddElement
  <2> QED
    BY ONLY <1>i, <1>f, <2>1, <2>8, <2>9 DEF CountInv
<1>15. ASSUME NEW t \in Threads, EnqueueSession(t) PROVE CountInv'
  BY <1>i, <1>15, CountKeptStep DEF EnqueueSession, Woken, CountKept
<1>16. ASSUME NEW t \in Threads, EnqueueRefused(t) PROVE CountInv'
  BY <1>i, <1>16, CountKeptStep DEF EnqueueRefused, CountKept
<1>17. ASSUME NEW t \in Threads, RefusedClosesClient(t) PROVE CountInv'
  <2>1. arg[t] \in Sessions
    BY <1>u, <1>17 DEF RefusedClosesClient, Using
  <2>2. \A x \in Sessions : session'[x].stage = session[x].stage
    BY ZenonT(60), <1>17, <1>t, <2>1 DEF RefusedClosesClient, CloseSessionEnd
  <2> QED
    BY <1>i, <1>17, <2>2, CountKeptStep DEF RefusedClosesClient, CloseSessionEnd, CountKept
<1>18. ASSUME NEW t \in Threads, RefusedClosesServer(t) PROVE CountInv'
  <2>1. arg[t] \in Sessions
    BY <1>u, <1>18 DEF RefusedClosesServer, Using
  <2>2. \A x \in Sessions : session'[x].stage = session[x].stage
    BY ZenonT(60), <1>18, <1>t, <2>1 DEF RefusedClosesServer, CloseSessionEnd
  <2> QED
    BY <1>i, <1>18, <2>2, CountKeptStep DEF RefusedClosesServer, CloseSessionEnd, CountKept
<1>19. ASSUME NEW t \in Threads, NEW end \in Ends, Leave(t, end) PROVE CountInv'
  BY <1>i, <1>19, CountKeptStep DEF Leave, ClosePortEnd, CountKept
<1>20. ASSUME NEW t \in Threads, DestroyClientPort(t) PROVE CountInv'
  BY <1>i, <1>20, CountKeptStep DEF DestroyClientPort, CountKept
<1>21. ASSUME NEW t \in Threads, OnServerClosed(t) PROVE CountInv'
  BY <1>i, <1>21, CountKeptStep DEF OnServerClosed, CountKept
<1>22. ASSUME NEW t \in Threads, CleanupPop(t) PROVE CountInv'
  BY <1>i, <1>22, CountKeptStep DEF CleanupPop, CountKept
<1>23. ASSUME NEW t \in Threads, CleanupClose(t) PROVE CountInv'
  <2>1. arg[t] \in Sessions
    BY <1>u, <1>23 DEF CleanupClose, Using
  <2>2. \A x \in Sessions : session'[x].stage = session[x].stage
    BY <1>23, <1>t, <2>1 DEF CleanupClose, CloseSessionEnd
  <2> QED
    BY <1>i, <1>23, <2>2, CountKeptStep DEF CleanupClose, CloseSessionEnd, CountKept
<1>24. ASSUME NEW t \in Threads, CleanupReturns(t) PROVE CountInv'
  BY <1>i, <1>24, CountKeptStep DEF CleanupReturns, CountKept
<1>25. ASSUME NEW t \in Threads, OnSessionFinalized(t) PROVE CountInv'
  <2>0. PICK s : s = arg[t]
    OBVIOUS
  <2>1. /\ pc[t] = "finalize" /\ UNCHANGED <<session, arg>> /\ num' = num - 1
        /\ pc'[t] \in {"notify", "close port"} /\ \A u \in Threads \ {t} : pc'[u] = pc[u]
    BY <1>25 DEF OnSessionFinalized
  <2>2. Using(t) /\ s \in Sessions /\ session[s].stage = "live"
    BY <1>u, <2>0, <2>1, Stages DEF Using, Finalizing, InHand
  <2>3. Counting' = Counting
    BY <2>1 DEF Counting, At
  <2>4. Finalized(s)' /\ \A x \in Sessions \ {s} : Finalized(x)' <=> Finalized(x)
    BY <2>0, <2>1 DEF Finalized, At
  <2>5. ~Finalized(s)
    BY <1>o, <2>0, <2>1, <2>2 DEF Finalized, At, Using, Finalizing
  <2>6. Counted' = Counted \ {s} /\ s \in Counted
    BY <2>1, <2>2, <2>4, <2>5 DEF Counted, Live
  <2>7. Cardinality(Counted') = Cardinality(Counted) - 1 /\ Cardinality(Counted') \in Nat
    BY <1>f, <2>6, FS_RemoveElement, FS_CardinalityType
  <2>8. num' = num - 1
    BY <2>1
  <2> QED
    BY ONLY <1>i, <1>f, <2>3, <2>7, <2>8 DEF CountInv
<1>26. ASSUME NEW t \in Threads, NotifyAvailable(t) PROVE CountInv'
  BY <1>i, <1>26, CountKeptStep DEF NotifyAvailable, Woken, CountKept
<1>27. ASSUME NEW t \in Threads, FinalizeClosesPort(t) PROVE CountInv'
  BY <1>i, <1>27, CountKeptStep DEF FinalizeClosesPort, CountKept
<1>28. ASSUME NEW t \in Threads, Free(t) PROVE CountInv'
  <2>0. PICK s : s = arg[t]
    OBVIOUS
  <2>1. /\ pc[t] = "free" /\ pc' = [pc EXCEPT ![t] = "release"] /\ UNCHANGED num
        /\ session' = [session EXCEPT ![s] = FreeObject] /\ arg' = [arg EXCEPT ![t] = NoSession]
    BY <1>28, <2>0 DEF Free
  <2>2. s \in Sessions
    BY <1>u, <2>0, <2>1 DEF Using
  <2>3. Finalized(s) /\ \A x \in Sessions \ {s} : Finalized(x)' <=> Finalized(x)
    BY <1>a, <2>0, <2>1 DEF Finalized, At
  <2>4. session'[s].stage = "free" /\ \A x \in Sessions \ {s} : session'[x] = session[x]
    BY <1>t, <2>1, <2>2, Stages
  <2>5. Counted' = Counted
    BY <2>2, <2>3, <2>4 DEF Counted, Live
  <2>6. Counting' = Counting
    BY <2>1 DEF Counting, At
  <2> QED
    BY <1>i, <2>1, <2>5, <2>6 DEF CountInv
<1>29. ASSUME NEW t \in Threads, Release(t) PROVE CountInv'
  BY <1>i, <1>29, CountKeptStep DEF Release, CountKept
<1>30. CASE UNCHANGED vars
  BY <1>i, <1>30, CountKeptStep DEF CountKept
<1> QED
  BY PortCases,
     <1>1, <1>2, <1>3, <1>4, <1>5, <1>6, <1>7, <1>8, <1>9, <1>10, <1>11, <1>12, <1>13,
     <1>14, <1>15, <1>16, <1>17, <1>18, <1>19, <1>20, <1>21, <1>22, <1>23, <1>24, <1>25,
     <1>26, <1>27, <1>28, <1>29, <1>30 DEF PortAction

-----------------------------------------------------------------------------
(* The peak. *)
Recording == {"load peak", "peak"}
PeakAll == PeakInv /\ peak \in 0 .. MaxSessions

PeakKept ==
    /\ peak' = peak /\ (num' = num \/ (num' <= num /\ num' \in Int))
    /\ \A u \in Threads : pc[u] \in Recording \/ pc'[u] \in Recording
                             => pc'[u] = pc[u] /\ seen'[u] = seen[u]

(* A step that records no count. *)
LEMMA PeakKeptStep ==
    ASSUME PeakAll, PeakKept, num \in Nat, seen \in [Threads -> [old : Nat, new : Nat]]
    PROVE  PeakAll'
<1>1. ASSUME NEW m \in Nat, num <= m PROVE num' <= m
  BY <1>1 DEF PeakKept
<1>2. CASE num <= peak
  <2>1. num' <= peak'
    BY <1>1, <1>2, PortAssumption DEF PeakKept, PeakAll
  <2> QED
    BY <2>1 DEF PeakAll, PeakInv, PeakKept, Recording
<1>3. ASSUME NEW t \in Threads, pc[t] \in Recording, num <= seen[t].new PROVE PeakAll'
  <2>1. pc'[t] = pc[t] /\ seen'[t] = seen[t] /\ seen[t].new \in Nat
    BY <1>3 DEF PeakKept
  <2>2. num' <= seen'[t].new
    BY <1>1, <1>3, <2>1
  <2> QED
    BY <1>3, <2>1, <2>2 DEF PeakAll, PeakInv, PeakKept, Recording
<1> QED
  BY <1>2, <1>3 DEF PeakAll, PeakInv, Recording

(* The peak covers every count recorded. *)
LEMMA PeakStep == PortInv /\ [Next]_vars => PeakAll'
<1> SUFFICES ASSUME PortInv, [Next]_vars PROVE PeakAll'
  OBVIOUS
<1>n. num \in Nat
  BY PortAssumption DEF PortInv, TypeOK
<1>s. seen \in [Threads -> [old : Nat, new : Nat]]
  BY DEF PortInv, LocalTypeOK
<1>i. PeakAll /\ num \in Nat /\ seen \in [Threads -> [old : Nat, new : Nat]]
  BY <1>n, <1>s DEF PortInv, TypeOK, PeakAll
<1>p. pc \in [Threads -> Places]
  BY DEF PortInv, LocalTypeOK
<1>l. \A u \in Threads : back[u] \in {"user", "client leave", "cleanup"}
  BY DEF PortInv, LocalTypeOK
<1> USE <1>p, <1>l
    DEF portVars, countVars, ownVars, localVars, vars, Goto, Ends, AsleepOn, Leaving, Destroying
<1>1. ASSUME NEW t \in Threads, ConnectToPort(t) PROVE PeakAll'
  BY <1>i, <1>1, PeakKeptStep DEF ConnectToPort, PeakKept, Recording
<1>2. ASSUME NEW t \in Threads, AcceptSession(t) PROVE PeakAll'
  BY <1>i, <1>2, PeakKeptStep DEF AcceptSession, PeakKept, Recording
<1>3. ASSUME NEW t \in Threads, NEW s \in Sessions, CloseClientSession(t, s) PROVE PeakAll'
  BY <1>i, <1>3, PeakKeptStep DEF CloseClientSession, CloseSessionEnd, PeakKept, Recording
<1>4. ASSUME NEW t \in Threads, NEW s \in Sessions, CloseServerSession(t, s) PROVE PeakAll'
  BY <1>i, <1>4, PeakKeptStep DEF CloseServerSession, CloseSessionEnd, PeakKept, Recording
<1>5. ASSUME NEW t \in Threads, NEW end \in Ends, Wait(t, end) PROVE PeakAll'
  BY <1>i, <1>5, PeakKeptStep DEF Wait, PeakKept, Recording
<1>6. ASSUME NEW t \in Threads, NEW end \in Ends, CloseHandle(t, end) PROVE PeakAll'
  BY <1>i, <1>6, PeakKeptStep DEF CloseHandle, ClosePortEnd, PeakKept, Recording
<1>7. ASSUME NEW t \in Threads, Reserve(t) PROVE PeakAll'
  BY <1>i, <1>7, PeakKeptStep DEF Reserve, PeakKept, Recording
<1>8. ASSUME NEW t \in Threads, Create(t) PROVE PeakAll'
  BY <1>i, <1>8, PeakKeptStep DEF Create, PeakKept, Recording
<1>9. ASSUME NEW t \in Threads, LoadSessions(t) PROVE PeakAll'
  BY <1>i, <1>9, PeakKeptStep DEF LoadSessions, PeakKept, Recording
<1>10. ASSUME NEW t \in Threads, OutOfSessions(t) PROVE PeakAll'
  BY <1>i, <1>10, PeakKeptStep DEF OutOfSessions, PeakKept, Recording
<1>11. ASSUME NEW t \in Threads, CountSession(t) PROVE PeakAll'
  <2>1. CASE num # seen[t].old
    BY <1>i, <1>11, <2>1, PeakKeptStep DEF CountSession, PeakKept, Recording
  <2>2. CASE num = seen[t].old
    <3>1. num < MaxSessions /\ num' = num + 1 /\ peak' = peak
      BY <1>11, <2>2 DEF CountSession
    <3>2. /\ pc'[t] = "load peak" /\ seen'[t].new = num + 1
          /\ \A u \in Threads \ {t} : pc'[u] = pc[u] /\ seen'[u] = seen[u]
      BY <1>11, <1>s, <2>2 DEF CountSession
    <3>3. num + 1 <= MaxSessions /\ num' <= num + 1
      BY ONLY <1>n, <3>1, PortAssumption
    <3> QED
      BY <1>i, <3>1, <3>2, <3>3 DEF PeakAll, PeakInv, Recording
  <2> QED
    BY <2>1, <2>2
<1>12. ASSUME NEW t \in Threads, LoadPeak(t) PROVE PeakAll'
  <2>1. peak' = peak /\ num' = num /\ pc[t] = "load peak"
    BY <1>12 DEF LoadPeak
  <2>2. /\ pc'[t] = "peak" /\ seen'[t].new = seen[t].new /\ seen'[t].old = peak
        /\ \A u \in Threads \ {t} : pc'[u] = pc[u] /\ seen'[u] = seen[u]
    BY <1>12, <1>s DEF LoadPeak
  <2>3. peak <= peak
    BY ONLY <1>i, PortAssumption DEF PeakAll
  <2> QED
    BY <1>i, <2>1, <2>2, <2>3 DEF PeakAll, PeakInv, Recording
<1>13. ASSUME NEW t \in Threads, UpdatePeak(t) PROVE PeakAll'
  <2>o. PICK o \in Nat, n \in Nat : o = seen[t].old /\ n = seen[t].new
    BY <1>s
  <2>0. /\ pc[t] = "peak" /\ num' = num
        /\ \A u \in Threads \ {t} : pc'[u] = pc[u] /\ seen'[u] = seen[u]
    BY <1>13, <1>s DEF UpdatePeak
  <2>1. o <= peak /\ n <= MaxSessions
    BY <1>i, <2>o, <2>0 DEF PeakAll, PeakInv, Recording
  <2>2. CASE ~(o >= n \/ peak = o)
    <3>1. peak' = peak /\ pc'[t] = "peak" /\ seen'[t].new = n /\ seen'[t].old = peak
      BY <1>13, <1>s, <2>o, <2>2 DEF UpdatePeak
    <3>2. peak <= peak
      BY ONLY <1>i, PortAssumption DEF PeakAll
    <3> QED
      BY <1>i, <2>o, <2>0, <2>1, <3>1, <3>2 DEF PeakAll, PeakInv, Recording
  <2>3. CASE o >= n \/ peak = o
    <3>1. pc'[t] = "initialize" /\ peak' = IF o >= n THEN peak ELSE n
      BY <1>13, <2>o, <2>3 DEF UpdatePeak
    <3>2. peak' \in 0 .. MaxSessions /\ peak <= peak' /\ n <= peak'
      BY ONLY <1>i, o \in Nat, n \in Nat, <2>1, <2>3, <3>1, PortAssumption DEF PeakAll
    <3>3. num <= peak => num <= peak'
      BY ONLY <1>i, <1>n, <3>2, PortAssumption DEF PeakAll
    <3>4. num <= n => num <= peak'
      BY ONLY <1>n, n \in Nat, <3>2, PortAssumption
    <3>5. \A u \in Threads : pc'[u] = "peak" => seen'[u].old <= peak'
      <4> SUFFICES ASSUME NEW u \in Threads, pc'[u] = "peak" PROVE seen'[u].old <= peak'
        OBVIOUS
      <4>1. u # t /\ pc[u] = "peak" /\ seen'[u] = seen[u] /\ seen[u].old \in Nat
        BY <1>s, <2>0, <3>1
      <4>2. seen[u].old <= peak
        BY <1>i, <4>1 DEF PeakAll, PeakInv
      <4>3. PICK m \in Nat : m = seen[u].old
        BY <4>1
      <4>4. m <= peak'
        BY ONLY <1>i, m \in Nat, <4>2, <4>3, <3>2, PortAssumption DEF PeakAll
      <4> QED
        BY <4>1, <4>3, <4>4
    <3> QED
      BY <1>i, <2>o, <2>0, <3>1, <3>2, <3>3, <3>4, <3>5 DEF PeakAll, PeakInv, Recording
  <2> QED
    BY <2>2, <2>3
<1>14. ASSUME NEW t \in Threads, Initialize(t) PROVE PeakAll'
  BY <1>i, <1>14, PeakKeptStep DEF Initialize, PeakKept, Recording
<1>15. ASSUME NEW t \in Threads, EnqueueSession(t) PROVE PeakAll'
  BY <1>i, <1>15, PeakKeptStep DEF EnqueueSession, Woken, PeakKept, Recording
<1>16. ASSUME NEW t \in Threads, EnqueueRefused(t) PROVE PeakAll'
  BY <1>i, <1>16, PeakKeptStep DEF EnqueueRefused, PeakKept, Recording
<1>17. ASSUME NEW t \in Threads, RefusedClosesClient(t) PROVE PeakAll'
  BY <1>i, <1>17, PeakKeptStep DEF RefusedClosesClient, CloseSessionEnd, PeakKept, Recording
<1>18. ASSUME NEW t \in Threads, RefusedClosesServer(t) PROVE PeakAll'
  BY <1>i, <1>18, PeakKeptStep DEF RefusedClosesServer, CloseSessionEnd, PeakKept, Recording
<1>19. ASSUME NEW t \in Threads, NEW end \in Ends, Leave(t, end) PROVE PeakAll'
  BY <1>i, <1>19, PeakKeptStep DEF Leave, ClosePortEnd, PeakKept, Recording
<1>20. ASSUME NEW t \in Threads, DestroyClientPort(t) PROVE PeakAll'
  BY <1>i, <1>20, PeakKeptStep DEF DestroyClientPort, PeakKept, Recording
<1>21. ASSUME NEW t \in Threads, OnServerClosed(t) PROVE PeakAll'
  BY <1>i, <1>21, PeakKeptStep DEF OnServerClosed, PeakKept, Recording
<1>22. ASSUME NEW t \in Threads, CleanupPop(t) PROVE PeakAll'
  BY <1>i, <1>22, PeakKeptStep DEF CleanupPop, PeakKept, Recording
<1>23. ASSUME NEW t \in Threads, CleanupClose(t) PROVE PeakAll'
  BY <1>i, <1>23, PeakKeptStep DEF CleanupClose, CloseSessionEnd, PeakKept, Recording
<1>24. ASSUME NEW t \in Threads, CleanupReturns(t) PROVE PeakAll'
  BY <1>i, <1>24, PeakKeptStep DEF CleanupReturns, PeakKept, Recording
<1>25. ASSUME NEW t \in Threads, OnSessionFinalized(t) PROVE PeakAll'
  <2>1. num' = num - 1
    BY <1>25 DEF OnSessionFinalized
  <2>2. num' <= num /\ num' \in Int
    BY ONLY <1>n, <2>1
  <2> QED
    BY <1>i, <1>25, <2>2, PeakKeptStep DEF OnSessionFinalized, PeakKept, Recording
<1>26. ASSUME NEW t \in Threads, NotifyAvailable(t) PROVE PeakAll'
  BY <1>i, <1>26, PeakKeptStep DEF NotifyAvailable, Woken, PeakKept, Recording
<1>27. ASSUME NEW t \in Threads, FinalizeClosesPort(t) PROVE PeakAll'
  BY <1>i, <1>27, PeakKeptStep DEF FinalizeClosesPort, PeakKept, Recording
<1>28. ASSUME NEW t \in Threads, Free(t) PROVE PeakAll'
  BY <1>i, <1>28, PeakKeptStep DEF Free, PeakKept, Recording
<1>29. ASSUME NEW t \in Threads, Release(t) PROVE PeakAll'
  BY <1>i, <1>29, PeakKeptStep DEF Release, PeakKept, Recording
<1>30. CASE UNCHANGED vars
  BY <1>i, <1>30, PeakKeptStep DEF PeakKept
<1> QED
  BY PortCases,
     <1>1, <1>2, <1>3, <1>4, <1>5, <1>6, <1>7, <1>8, <1>9, <1>10, <1>11, <1>12, <1>13,
     <1>14, <1>15, <1>16, <1>17, <1>18, <1>19, <1>20, <1>21, <1>22, <1>23, <1>24, <1>25,
     <1>26, <1>27, <1>28, <1>29, <1>30 DEF PortAction

-----------------------------------------------------------------------------
(* The references to the client end. *)
Callers == {t \in Threads : InClientCall(t)}
OpenSessions == {s \in Sessions : Open(s)}
ClientInv ==
    /\ refs["client"] = HandleOf("client") + Cardinality(Callers) + Cardinality(OpenSessions)
    /\ refs["client"] \in Nat

(* The references to the client end are finitely many. *)
LEMMA FiniteCallers ==
    /\ IsFiniteSet(Callers) /\ Cardinality(Callers) \in Nat
    /\ IsFiniteSet(OpenSessions) /\ Cardinality(OpenSessions) \in Nat
    /\ HandleOf("client") \in Nat
<1>1. Callers \subseteq Threads /\ OpenSessions \subseteq Sessions
  BY DEF Callers, OpenSessions
<1>2. IsFiniteSet(Callers) /\ IsFiniteSet(OpenSessions)
  BY <1>1, ThreadsFinite, FS_Subset
<1>3. HandleOf("client") \in Nat
  BY DEF HandleOf
<1> QED
  BY <1>2, <1>3, FS_CardinalityType

ClientKept ==
    /\ refs'["client"] = refs["client"]
    /\ "client" \in handles' <=> "client" \in handles
    /\ \A x \in Sessions : session'[x].stage = "live" <=> session[x].stage = "live"
    /\ \A u \in Threads :
          /\ InClientCall(u)' <=> InClientCall(u)
          /\ \/ /\ pc'[u] = "free" <=> pc[u] = "free"
                /\ pc[u] = "free" => arg'[u] = arg[u]
             \/ /\ pc[u] # "free"
                /\ session[arg[u]].stage # "live" /\ arg'[u] = arg[u]

(* A step that neither opens nor closes a reference to the client end. *)
LEMMA ClientKeptStep == ClientInv /\ ClientKept => ClientInv'
<1> SUFFICES ASSUME ClientInv, ClientKept PROVE ClientInv'
  OBVIOUS
<1>1. Callers' = Callers /\ HandleOf("client")' = HandleOf("client")
  BY DEF ClientKept, Callers, HandleOf
<1>2. ASSUME NEW x \in Sessions, session[x].stage = "live" PROVE Freeing(x)' <=> Freeing(x)
  <2>1. ASSUME NEW u \in Threads
        PROVE  pc'[u] = "free" /\ arg'[u] = x <=> pc[u] = "free" /\ arg[u] = x
    BY <1>2 DEF ClientKept
  <2> QED
    BY <2>1 DEF Freeing
<1>3. OpenSessions' = OpenSessions
  BY <1>2 DEF ClientKept, OpenSessions, Open
<1> QED
  BY <1>1, <1>3 DEF ClientInv, ClientKept

(* The reference count of the client end stays exact. *)
LEMMA ClientRefsStep == PortInv /\ [Next]_vars => ClientInv'
<1> SUFFICES ASSUME PortInv, [Next]_vars PROVE ClientInv'
  OBVIOUS
<1>r. refs \in [port : Nat, client : Nat, server : Nat]
  BY DEF PortInv, TypeOK
<1>i. ClientInv
  BY <1>r DEF PortInv, ClientRefs, ClientInv, Callers, OpenSessions
<1>f. /\ IsFiniteSet(Callers) /\ Cardinality(Callers) \in Nat
      /\ IsFiniteSet(OpenSessions) /\ Cardinality(OpenSessions) \in Nat
      /\ HandleOf("client") \in Nat
  BY FiniteCallers
<1>t. session \in [Sessions -> [stage : {"free", "new", "live"}, ref : 0 .. 2]]
  BY DEF PortInv, TypeOK
<1>a. arg \in [Threads -> Sessions \cup {NoSession}] /\ NoSession \notin Sessions
  BY DEF PortInv, TypeOK, NoSession, Sessions
<1>u. \A u \in Threads : Using(u) => InHand(u) /\ arg[u] \in Sessions
  BY DEF PortInv, SessionsInHand, InHand
<1>o. \A u, v \in Threads : Using(u) /\ Using(v) /\ arg[u] = arg[v] => u = v
  BY DEF PortInv, OneUser
<1>p. pc \in [Threads -> Places]
  BY DEF PortInv, LocalTypeOK
<1>l. back \in [Threads -> {"user", "client leave", "cleanup"}]
  BY DEF PortInv, LocalTypeOK
<1>b. \A u \in Threads : pc[u] \notin Closing => back[u] = "user"
  BY DEF PortInv, LocalTypeOK
<1> USE <1>p, <1>a, <1>l
    DEF Building, Finalizing, Closing, Calling, portVars, countVars, ownVars, localVars, vars,
    Goto,
        Ends, AsleepOn, Leaving, Destroying
<1>1. ASSUME NEW t \in Threads, ConnectToPort(t) PROVE ClientInv'
  <2>1. refs'["client"] = refs["client"] + 1 /\ UNCHANGED <<handles, session, arg, back>>
    BY <1>1, <1>r DEF ConnectToPort
  <2>2. pc[t] = "user" /\ pc' = [pc EXCEPT ![t] = "reserve"]
    BY <1>1 DEF ConnectToPort
  <2>3. OpenSessions' = OpenSessions /\ HandleOf("client")' = HandleOf("client")
    BY <2>1, <2>2 DEF OpenSessions, Open, Freeing, HandleOf
  <2>4. Callers' = Callers \cup {t} /\ t \notin Callers
    BY <2>1, <2>2 DEF Callers, InClientCall
  <2>5. Cardinality(Callers') = Cardinality(Callers) + 1
    BY <1>f, <2>4, FS_AddElement
  <2>6. refs'["client"] = refs["client"] + 1
    BY <2>1
  <2> QED
    BY ONLY <1>i, <1>f, <2>3, <2>5, <2>6 DEF ClientInv
<1>2. ASSUME NEW t \in Threads, AcceptSession(t) PROVE ClientInv'
  BY <1>i, <1>r, <1>2, ClientKeptStep DEF AcceptSession, ClientKept, InClientCall
<1>3. ASSUME NEW t \in Threads, NEW s \in Sessions, CloseClientSession(t, s) PROVE ClientInv'
  <2>1. \A x \in Sessions : session'[x].stage = session[x].stage
    BY <1>3, <1>t DEF CloseClientSession, CloseSessionEnd
  <2>2. CASE session[s].ref = 1
    BY ZenonT(60), <1>i, <1>3, <2>1, <2>2, ClientKeptStep
       DEF CloseClientSession, CloseSessionEnd, ClientKept, InClientCall
  <2>3. CASE session[s].ref # 1
    BY <1>i, <1>3, <2>1, <2>3, ClientKeptStep
       DEF CloseClientSession, CloseSessionEnd, ClientKept, InClientCall
  <2> QED
    BY <2>2, <2>3
<1>4. ASSUME NEW t \in Threads, NEW s \in Sessions, CloseServerSession(t, s) PROVE ClientInv'
  <2>1. \A x \in Sessions : session'[x].stage = session[x].stage
    BY ZenonT(60), <1>4, <1>t DEF CloseServerSession, CloseSessionEnd
  <2>2. CASE session[s].ref = 1
    BY ZenonT(60), <1>i, <1>4, <2>1, <2>2, ClientKeptStep
       DEF CloseServerSession, CloseSessionEnd, ClientKept, InClientCall
  <2>3. CASE session[s].ref # 1
    BY <1>i, <1>4, <2>1, <2>3, ClientKeptStep
       DEF CloseServerSession, CloseSessionEnd, ClientKept, InClientCall
  <2> QED
    BY <2>2, <2>3
<1>5. ASSUME NEW t \in Threads, NEW end \in Ends, Wait(t, end) PROVE ClientInv'
  <2>1. CASE end = "server"
    BY <1>i, <1>5, <1>r, <2>1, ClientKeptStep DEF Wait, ClientKept, InClientCall
  <2>2. CASE end = "client"
    <3>1. refs'["client"] = refs["client"] + 1 /\ UNCHANGED <<handles, session, arg, back>>
      BY <1>5, <1>r, <2>2 DEF Wait
    <3>2. /\ pc[t] = "user" /\ pc'[t] \in {"client leave", "client asleep"}
          /\ \A u \in Threads \ {t} : pc'[u] = pc[u]
      BY <1>5, <2>2 DEF Wait
    <3>3. OpenSessions' = OpenSessions /\ HandleOf("client")' = HandleOf("client")
      BY <3>1, <3>2 DEF OpenSessions, Open, Freeing, HandleOf
    <3>4. Callers' = Callers \cup {t} /\ t \notin Callers
      BY <3>1, <3>2 DEF Callers, InClientCall
    <3>5. Cardinality(Callers') = Cardinality(Callers) + 1
      BY <1>f, <3>4, FS_AddElement
    <3>6. refs'["client"] = refs["client"] + 1
      BY <3>1
    <3> QED
      BY ONLY <1>i, <1>f, <3>3, <3>5, <3>6 DEF ClientInv
  <2> QED
    BY <2>1, <2>2 DEF Ends
<1>6. ASSUME NEW t \in Threads, NEW end \in Ends, CloseHandle(t, end) PROVE ClientInv'
  <2>1. CASE end = "server"
    BY <1>i, <1>6, <1>r, <2>1, ClientKeptStep
       DEF CloseHandle, ClosePortEnd, ClientKept, InClientCall
  <2>2. CASE end = "client"
    <3>1. refs'["client"] = refs["client"] - 1 /\ UNCHANGED <<session, arg>>
      BY <1>6, <1>r, <2>2 DEF CloseHandle, ClosePortEnd
    <3>2. /\ pc[t] = "user" /\ pc'[t] \in {"user", "client destroy"}
          /\ \A u \in Threads \ {t} : pc'[u] = pc[u] /\ back'[u] = back[u]
      BY <1>6, <1>l, <2>2 DEF CloseHandle, ClosePortEnd
    <3>3. OpenSessions' = OpenSessions
      BY <3>1, <3>2 DEF OpenSessions, Open, Freeing
    <3>4. HandleOf("client") = 1 /\ HandleOf("client")' = 0
      BY <1>6, <2>2 DEF CloseHandle, HandleOf
    <3>5. Callers' = Callers
      BY <3>2 DEF Callers, InClientCall
    <3>6. refs'["client"] = refs["client"] - 1
      BY <3>1
    <3> QED
      BY ONLY <1>i, <1>f, <3>3, <3>4, <3>5, <3>6 DEF ClientInv
  <2> QED
    BY <2>1, <2>2 DEF Ends
<1>7. ASSUME NEW t \in Threads, Reserve(t) PROVE ClientInv'
  BY <1>i, <1>7, ClientKeptStep DEF Reserve, ClientKept, InClientCall
<1>8. ASSUME NEW t \in Threads, Create(t) PROVE ClientInv'
  <2>1. CASE pc' = [pc EXCEPT ![t] = "release"] /\ back' = [back EXCEPT ![t] = "client leave"]
             /\ UNCHANGED <<session, arg>>
    BY <1>i, <1>8, <2>1, ClientKeptStep DEF Create, ClientKept, InClientCall
  <2>2. CASE \E s \in FreeObjects : /\ session' = [session EXCEPT ![s] = NewObject]
                                    /\ arg' = [arg EXCEPT ![t] = s]
                                    /\ pc' = [pc EXCEPT ![t] = "load"] /\ UNCHANGED back
    <3>1. PICK s \in FreeObjects : /\ session' = [session EXCEPT ![s] = NewObject]
                                  /\ arg' = [arg EXCEPT ![t] = s]
                                  /\ pc' = [pc EXCEPT ![t] = "load"] /\ UNCHANGED back
      BY <1>8, <2>2 DEF Create, NewObject
    <3>2. pc[t] = "create" /\ UNCHANGED <<refs, handles>>
      BY <1>8 DEF Create
    <3>3. \A x \in Sessions : session'[x].stage = "live" <=> session[x].stage = "live"
      BY <1>t, <3>1, Stages DEF FreeObjects
    <3> QED
      BY <1>i, <3>1, <3>2, <3>3, ClientKeptStep DEF ClientKept, InClientCall
  <2> QED
    BY <1>8, <2>1, <2>2 DEF Create, Goto, NewObject
<1>9. ASSUME NEW t \in Threads, LoadSessions(t) PROVE ClientInv'
  BY <1>i, <1>9, ClientKeptStep DEF LoadSessions, ClientKept, InClientCall
<1>10. ASSUME NEW t \in Threads, OutOfSessions(t) PROVE ClientInv'
  <2>1. session[arg[t]].stage = "new"
    BY <1>u, <1>10, Stages DEF OutOfSessions, Using, InHand
  <2> QED
    BY <1>i, <1>10, <2>1, ClientKeptStep DEF OutOfSessions, ClientKept, InClientCall
<1>11. ASSUME NEW t \in Threads, CountSession(t) PROVE ClientInv'
  BY <1>i, <1>11, ClientKeptStep DEF CountSession, ClientKept, InClientCall
<1>12. ASSUME NEW t \in Threads, LoadPeak(t) PROVE ClientInv'
  BY <1>i, <1>12, ClientKeptStep DEF LoadPeak, ClientKept, InClientCall
<1>13. ASSUME NEW t \in Threads, UpdatePeak(t) PROVE ClientInv'
  BY <1>i, <1>13, ClientKeptStep DEF UpdatePeak, ClientKept, InClientCall
<1>14. ASSUME NEW t \in Threads, Initialize(t) PROVE ClientInv'
  <2>0. PICK s : s = arg[t]
    OBVIOUS
  <2>1. /\ pc[t] = "initialize" /\ pc' = [pc EXCEPT ![t] = "enqueue"] /\ UNCHANGED <<handles, arg, back>>
        /\ session' = [session EXCEPT ![s] = Object(2)]
    BY <1>14, <2>0 DEF Initialize, Object
  <2>2. Using(t) /\ s \in Sessions /\ session[s].stage = "new"
    BY <1>u, <2>0, <2>1, Stages DEF Using, InHand
  <2>3. Callers' = Callers /\ HandleOf("client")' = HandleOf("client")
    BY <2>1 DEF Callers, InClientCall, HandleOf
  <2>4. \A x \in Sessions : Freeing(x)' <=> Freeing(x)
    BY <2>1 DEF Freeing
  <2>5. ~Freeing(s)
    BY <1>o, <2>0, <2>1, <2>2 DEF Freeing, Using
  <2>6. session'[s].stage = "live" /\ \A x \in Sessions \ {s} : session'[x] = session[x]
    BY <1>t, <2>1, <2>2, Stages
  <2>7. OpenSessions' = OpenSessions \cup {s} /\ s \notin OpenSessions
    BY <2>2, <2>4, <2>5, <2>6 DEF OpenSessions, Open
  <2>8. Cardinality(OpenSessions') = Cardinality(OpenSessions) + 1
    BY <1>f, <2>7, FS_AddElement
  <2>9. refs'["client"] = refs["client"] + 1
    BY <1>14, <1>r DEF Initialize
  <2> QED
    BY ONLY <1>i, <1>f, <2>3, <2>8, <2>9 DEF ClientInv
<1>15. ASSUME NEW t \in Threads, EnqueueSession(t) PROVE ClientInv'
  BY <1>i, <1>15, ClientKeptStep DEF EnqueueSession, Woken, ClientKept, InClientCall
<1>16. ASSUME NEW t \in Threads, EnqueueRefused(t) PROVE ClientInv'
  BY <1>i, <1>16, ClientKeptStep DEF EnqueueRefused, ClientKept, InClientCall
<1>17. ASSUME NEW t \in Threads, RefusedClosesClient(t) PROVE ClientInv'
  <2>1. arg[t] \in Sessions /\ session[arg[t]] = Object(2)
    BY <1>u, <1>17 DEF RefusedClosesClient, Using, InHand
  <2>2. \A x \in Sessions : session'[x].stage = session[x].stage
    BY <1>17, <1>t, <2>1 DEF RefusedClosesClient, CloseSessionEnd
  <2>3. PICK s : s = arg[t]
    OBVIOUS
  <2>4. pc' = [pc EXCEPT ![t] = "refused server"] /\ UNCHANGED <<arg, back>>
    <3>1. CloseSessionEnd(t, s, "refused server")
      BY <1>17, <2>3 DEF RefusedClosesClient
    <3>2. session[s].ref # 1
      <4>1. session[s] = Object(2)
        BY <2>1, <2>3
      <4> QED
        BY ONLY <4>1 DEF Object
    <3> QED
      BY ONLY <3>1, <3>2 DEF CloseSessionEnd, Goto
  <2>5. pc[t] = "refused" /\ UNCHANGED <<refs, handles>>
    BY <1>17 DEF RefusedClosesClient
  <2> QED
    BY <1>i, <2>2, <2>3, <2>4, <2>5, ClientKeptStep DEF ClientKept, InClientCall
<1>18. ASSUME NEW t \in Threads, RefusedClosesServer(t) PROVE ClientInv'
  <2>1. arg[t] \in Sessions /\ session[arg[t]] = Object(1)
    BY <1>u, <1>18 DEF RefusedClosesServer, Using, InHand
  <2>2. \A x \in Sessions : session'[x].stage = session[x].stage
    BY <1>18, <1>t, <2>1 DEF RefusedClosesServer, CloseSessionEnd
  <2>3. PICK s : s = arg[t]
    OBVIOUS
  <2>4. /\ pc' = [pc EXCEPT ![t] = "finalize"] /\ arg' = [arg EXCEPT ![t] = s]
        /\ back' = [back EXCEPT ![t] = "client leave"]
    <3>1. CloseSessionEnd(t, s, "client leave")
      BY <1>18, <2>3 DEF RefusedClosesServer
    <3>2. session[s].ref = 1
      <4>1. session[s] = Object(1)
        BY <2>1, <2>3
      <4> QED
        BY ONLY <4>1 DEF Object
    <3> QED
      BY ONLY <3>1, <3>2 DEF CloseSessionEnd, Goto
  <2>5. pc[t] = "refused server" /\ UNCHANGED <<refs, handles>>
    BY <1>18 DEF RefusedClosesServer
  <2> QED
    BY <1>i, <2>2, <2>3, <2>4, <2>5, ClientKeptStep DEF ClientKept, InClientCall
<1>19. ASSUME NEW t \in Threads, NEW end \in Ends, Leave(t, end) PROVE ClientInv'
  <2>1. CASE end = "server"
    BY <1>i, <1>19, <1>r, <2>1, ClientKeptStep DEF Leave, ClosePortEnd, ClientKept, InClientCall
  <2>2. CASE end = "client"
    <3>1. refs'["client"] = refs["client"] - 1 /\ UNCHANGED <<session, arg, handles>>
      BY <1>19, <1>r, <2>2 DEF Leave, ClosePortEnd
    <3>2. /\ pc[t] = "client leave" /\ pc'[t] \in {"user", "client destroy"}
          /\ \A u \in Threads \ {t} : pc'[u] = pc[u] /\ back'[u] = back[u]
      BY <1>19, <1>l, <2>2 DEF Leave, ClosePortEnd
    <3>3. OpenSessions' = OpenSessions /\ HandleOf("client")' = HandleOf("client")
      BY ZenonT(60), <3>1, <3>2 DEF OpenSessions, Open, Freeing, HandleOf
    <3>4. Callers' = Callers \ {t} /\ t \in Callers
      BY <3>2 DEF Callers, InClientCall
    <3>5. Cardinality(Callers') = Cardinality(Callers) - 1 /\ Cardinality(Callers') \in Nat
      BY <1>f, <3>4, FS_RemoveElement, FS_CardinalityType
    <3>6. refs'["client"] = refs["client"] - 1
      BY <3>1
    <3> QED
      BY ONLY <1>i, <1>f, <3>3, <3>5, <3>6 DEF ClientInv
  <2> QED
    BY <2>1, <2>2 DEF Ends
<1>20. ASSUME NEW t \in Threads, DestroyClientPort(t) PROVE ClientInv'
  BY <1>i, <1>r, <1>b, <1>20, ClientKeptStep DEF DestroyClientPort, ClientKept, InClientCall
<1>21. ASSUME NEW t \in Threads, OnServerClosed(t) PROVE ClientInv'
  BY <1>i, <1>21, ClientKeptStep DEF OnServerClosed, ClientKept, InClientCall
<1>22. ASSUME NEW t \in Threads, CleanupPop(t) PROVE ClientInv'
  BY <1>i, <1>22, ClientKeptStep DEF CleanupPop, ClientKept, InClientCall
<1>23. ASSUME NEW t \in Threads, CleanupClose(t) PROVE ClientInv'
  <2>0. arg[t] \in Sessions
    BY <1>u, <1>23 DEF CleanupClose, Using
  <2>1. \A x \in Sessions : session'[x].stage = session[x].stage
    BY ZenonT(60), <1>23, <1>t, <2>0 DEF CleanupClose, CloseSessionEnd
  <2>2. CASE session[arg[t]].ref = 1
    BY ZenonT(60), <1>i, <1>23, <2>1, <2>2, ClientKeptStep
       DEF CleanupClose, CloseSessionEnd, ClientKept, InClientCall
  <2>3. CASE session[arg[t]].ref # 1
    BY <1>i, <1>23, <2>1, <2>3, ClientKeptStep
       DEF CleanupClose, CloseSessionEnd, ClientKept, InClientCall
  <2> QED
    BY <2>2, <2>3
<1>24. ASSUME NEW t \in Threads, CleanupReturns(t) PROVE ClientInv'
  BY <1>i, <1>r, <1>24, ClientKeptStep DEF CleanupReturns, ClientKept, InClientCall
<1>25. ASSUME NEW t \in Threads, OnSessionFinalized(t) PROVE ClientInv'
  BY <1>i, <1>25, ClientKeptStep DEF OnSessionFinalized, ClientKept, InClientCall
<1>26. ASSUME NEW t \in Threads, NotifyAvailable(t) PROVE ClientInv'
  BY <1>i, <1>26, ClientKeptStep DEF NotifyAvailable, Woken, ClientKept, InClientCall
<1>27. ASSUME NEW t \in Threads, FinalizeClosesPort(t) PROVE ClientInv'
  <2>0. PICK s : s = arg[t]
    OBVIOUS
  <2>1. /\ pc[t] = "close port" /\ pc' = [pc EXCEPT ![t] = "free"]
        /\ UNCHANGED <<session, arg, handles, back>>
    BY <1>27 DEF FinalizeClosesPort
  <2>2. Using(t) /\ s \in Sessions /\ session[s].stage = "live"
    BY <1>u, <2>0, <2>1, Stages DEF Using, InHand
  <2>3. Callers' = Callers /\ HandleOf("client")' = HandleOf("client")
    BY <2>1 DEF Callers, InClientCall, HandleOf
  <2>4. Freeing(s)' /\ \A x \in Sessions \ {s} : Freeing(x)' <=> Freeing(x)
    BY <2>0, <2>1 DEF Freeing
  <2>5. ~Freeing(s)
    BY <1>o, <2>0, <2>1, <2>2 DEF Freeing, Using
  <2>6. OpenSessions' = OpenSessions \ {s} /\ s \in OpenSessions
    BY <2>1, <2>2, <2>4, <2>5 DEF OpenSessions, Open
  <2>7. Cardinality(OpenSessions') = Cardinality(OpenSessions) - 1 /\ Cardinality(OpenSessions') \in Nat
    BY <1>f, <2>6, FS_RemoveElement, FS_CardinalityType
  <2>8. refs'["client"] = refs["client"] - 1
    BY <1>27, <1>r DEF FinalizeClosesPort
  <2> QED
    BY ONLY <1>i, <1>f, <2>3, <2>7, <2>8 DEF ClientInv
<1>28. ASSUME NEW t \in Threads, Free(t) PROVE ClientInv'
  <2>0. PICK s : s = arg[t]
    OBVIOUS
  <2>1. /\ pc[t] = "free" /\ pc' = [pc EXCEPT ![t] = "release"] /\ UNCHANGED <<refs, handles, back>>
        /\ session' = [session EXCEPT ![s] = FreeObject] /\ arg' = [arg EXCEPT ![t] = NoSession]
    BY <1>28, <2>0 DEF Free
  <2>2. s \in Sessions
    BY <1>u, <2>0, <2>1 DEF Using
  <2>3. Freeing(s) /\ \A x \in Sessions \ {s} : Freeing(x)' <=> Freeing(x)
    BY <1>a, <2>0, <2>1 DEF Freeing
  <2>4. session'[s].stage = "free" /\ \A x \in Sessions \ {s} : session'[x] = session[x]
    BY <1>t, <2>1, <2>2, Stages
  <2>5. OpenSessions' = OpenSessions
    BY <2>2, <2>3, <2>4 DEF OpenSessions, Open
  <2>6. Callers' = Callers /\ HandleOf("client")' = HandleOf("client")
    BY <2>1 DEF Callers, InClientCall, HandleOf
  <2> QED
    BY <1>i, <2>1, <2>5, <2>6 DEF ClientInv
<1>29. ASSUME NEW t \in Threads, Release(t) PROVE ClientInv'
  BY <1>i, <1>29, ClientKeptStep DEF Release, ClientKept, InClientCall
<1>30. CASE UNCHANGED vars
  BY <1>i, <1>30, ClientKeptStep DEF ClientKept, InClientCall
<1> QED
  BY PortCases,
     <1>1, <1>2, <1>3, <1>4, <1>5, <1>6, <1>7, <1>8, <1>9, <1>10, <1>11, <1>12, <1>13,
     <1>14, <1>15, <1>16, <1>17, <1>18, <1>19, <1>20, <1>21, <1>22, <1>23, <1>24, <1>25,
     <1>26, <1>27, <1>28, <1>29, <1>30 DEF PortAction

-----------------------------------------------------------------------------
(* The references to the server end. *)
InServerCall == {t \in Threads : pc[t] \in ServerCalling}
ServerInv ==
    /\ refs["server"] = HandleOf("server") + Cardinality(InServerCall)
    /\ refs["server"] \in Nat

(* The references to the server end are finitely many. *)
LEMMA FiniteServerCalls ==
    IsFiniteSet(InServerCall) /\ Cardinality(InServerCall) \in Nat /\ HandleOf("server") \in Nat
<1>1. InServerCall \subseteq Threads
  BY DEF InServerCall
<1>2. IsFiniteSet(InServerCall)
  BY <1>1, ThreadsFinite, FS_Subset
<1>3. HandleOf("server") \in Nat
  BY DEF HandleOf
<1> QED
  BY <1>2, <1>3, FS_CardinalityType

ServerKept ==
    /\ refs'["server"] = refs["server"]
    /\ "server" \in handles' <=> "server" \in handles
    /\ \A u \in Threads : pc'[u] \in ServerCalling <=> pc[u] \in ServerCalling

(* A step that neither opens nor closes a reference to the server end. *)
LEMMA ServerKeptStep == ServerInv /\ ServerKept => ServerInv'
<1> SUFFICES ASSUME ServerInv, ServerKept PROVE ServerInv'
  OBVIOUS
<1>1. InServerCall' = InServerCall /\ HandleOf("server")' = HandleOf("server")
  BY DEF ServerKept, InServerCall, HandleOf
<1> QED
  BY <1>1 DEF ServerInv, ServerKept

(* The reference count of the server end stays exact. *)
LEMMA ServerRefsStep == PortInv /\ [Next]_vars => ServerInv'
<1> SUFFICES ASSUME PortInv, [Next]_vars PROVE ServerInv'
  OBVIOUS
<1>r. refs \in [port : Nat, client : Nat, server : Nat]
  BY DEF PortInv, TypeOK
<1>i. ServerInv
  BY <1>r DEF PortInv, ServerRefs, ServerInv, InServerCall
<1>f. IsFiniteSet(InServerCall) /\ Cardinality(InServerCall) \in Nat /\ HandleOf("server") \in Nat
  BY FiniteServerCalls
<1>p. pc \in [Threads -> Places]
  BY DEF PortInv, LocalTypeOK
<1>l. back \in [Threads -> {"user", "client leave", "cleanup"}]
  BY DEF PortInv, LocalTypeOK
<1> USE <1>r, <1>p, <1>l
    DEF ServerCalling, portVars, countVars, ownVars, localVars, vars, Goto, Ends, AsleepOn,
    Leaving,
        Destroying
<1>1. ASSUME NEW t \in Threads, ConnectToPort(t) PROVE ServerInv'
  BY <1>i, <1>1, ServerKeptStep DEF ConnectToPort, ServerKept
<1>2. ASSUME NEW t \in Threads, AcceptSession(t) PROVE ServerInv'
  <2>1. refs'["server"] = refs["server"] + 1 /\ UNCHANGED handles
    BY <1>2 DEF AcceptSession
  <2>2. /\ pc[t] = "user" /\ pc'[t] \in ServerCalling
      /\ \A u \in Threads \ {t} : pc'[u] = pc[u]
    BY <1>2 DEF AcceptSession
  <2>3. InServerCall' = InServerCall \cup {t} /\ t \notin InServerCall
    BY <2>2 DEF InServerCall
  <2>4. HandleOf("server")' = HandleOf("server")
    BY <2>1 DEF HandleOf
  <2>5. Cardinality(InServerCall') = Cardinality(InServerCall) + 1
    BY <1>f, <2>3, FS_AddElement
  <2>6. refs'["server"] = refs["server"] + 1
    BY <2>1
  <2> QED
    BY ONLY <1>i, <1>f, <2>4, <2>5, <2>6 DEF ServerInv
<1>3. ASSUME NEW t \in Threads, NEW s \in Sessions, CloseClientSession(t, s) PROVE ServerInv'
  BY <1>i, <1>3, ServerKeptStep DEF CloseClientSession, CloseSessionEnd, ServerKept
<1>4. ASSUME NEW t \in Threads, NEW s \in Sessions, CloseServerSession(t, s) PROVE ServerInv'
  BY <1>i, <1>4, ServerKeptStep DEF CloseServerSession, CloseSessionEnd, ServerKept
<1>5. ASSUME NEW t \in Threads, NEW end \in Ends, Wait(t, end) PROVE ServerInv'
  <2>1. CASE end = "client"
    BY <1>i, <1>5, <2>1, ServerKeptStep DEF Wait, ServerKept
  <2>2. CASE end = "server"
    <3>1. refs'["server"] = refs["server"] + 1 /\ UNCHANGED handles
      BY <1>5, <2>2 DEF Wait
    <3>2. /\ pc[t] = "user" /\ pc'[t] \in ServerCalling
        /\ \A u \in Threads \ {t} : pc'[u] = pc[u]
      BY <1>5, <2>2 DEF Wait
    <3>3. InServerCall' = InServerCall \cup {t} /\ t \notin InServerCall
      BY <3>2 DEF InServerCall
    <3>4. HandleOf("server")' = HandleOf("server")
      BY <3>1 DEF HandleOf
    <3>5. Cardinality(InServerCall') = Cardinality(InServerCall) + 1
      BY <1>f, <3>3, FS_AddElement
    <3>6. refs'["server"] = refs["server"] + 1
      BY <3>1
    <3> QED
      BY ONLY <1>i, <1>f, <3>4, <3>5, <3>6 DEF ServerInv
  <2> QED
    BY <2>1, <2>2 DEF Ends
<1>6. ASSUME NEW t \in Threads, NEW end \in Ends, CloseHandle(t, end) PROVE ServerInv'
  <2>1. CASE end = "client"
    BY <1>i, <1>6, <2>1, ServerKeptStep DEF CloseHandle, ServerKept, ClosePortEnd
  <2>2. CASE end = "server"
    <3>1. refs'["server"] = refs["server"] - 1
      BY <1>6, <2>2 DEF CloseHandle, ClosePortEnd
    <3>2. HandleOf("server") = 1 /\ HandleOf("server")' = 0
      BY <1>6, <2>2 DEF CloseHandle, HandleOf
    <3>3. InServerCall' = InServerCall
      BY <1>6, <2>2 DEF CloseHandle, ClosePortEnd, InServerCall
    <3> QED
      BY ONLY <1>i, <1>f, <3>1, <3>2, <3>3 DEF ServerInv
  <2> QED
    BY <2>1, <2>2 DEF Ends
<1>7. ASSUME NEW t \in Threads, Reserve(t) PROVE ServerInv'
  BY <1>i, <1>7, ServerKeptStep DEF Reserve, ServerKept
<1>8. ASSUME NEW t \in Threads, Create(t) PROVE ServerInv'
  BY <1>i, <1>8, ServerKeptStep DEF Create, ServerKept
<1>9. ASSUME NEW t \in Threads, LoadSessions(t) PROVE ServerInv'
  BY <1>i, <1>9, ServerKeptStep DEF LoadSessions, ServerKept
<1>10. ASSUME NEW t \in Threads, OutOfSessions(t) PROVE ServerInv'
  BY <1>i, <1>10, ServerKeptStep DEF OutOfSessions, ServerKept
<1>11. ASSUME NEW t \in Threads, CountSession(t) PROVE ServerInv'
  BY <1>i, <1>11, ServerKeptStep DEF CountSession, ServerKept
<1>12. ASSUME NEW t \in Threads, LoadPeak(t) PROVE ServerInv'
  BY <1>i, <1>12, ServerKeptStep DEF LoadPeak, ServerKept
<1>13. ASSUME NEW t \in Threads, UpdatePeak(t) PROVE ServerInv'
  BY <1>i, <1>13, ServerKeptStep DEF UpdatePeak, ServerKept
<1>14. ASSUME NEW t \in Threads, Initialize(t) PROVE ServerInv'
  BY <1>i, <1>14, ServerKeptStep DEF Initialize, ServerKept
<1>15. ASSUME NEW t \in Threads, EnqueueSession(t) PROVE ServerInv'
  BY <1>i, <1>15, ServerKeptStep DEF EnqueueSession, Woken, ServerKept
<1>16. ASSUME NEW t \in Threads, EnqueueRefused(t) PROVE ServerInv'
  BY <1>i, <1>16, ServerKeptStep DEF EnqueueRefused, ServerKept
<1>17. ASSUME NEW t \in Threads, RefusedClosesClient(t) PROVE ServerInv'
  BY <1>i, <1>17, ServerKeptStep DEF RefusedClosesClient, CloseSessionEnd, ServerKept
<1>18. ASSUME NEW t \in Threads, RefusedClosesServer(t) PROVE ServerInv'
  BY <1>i, <1>18, ServerKeptStep DEF RefusedClosesServer, CloseSessionEnd, ServerKept
<1>19. ASSUME NEW t \in Threads, NEW end \in Ends, Leave(t, end) PROVE ServerInv'
  <2>1. CASE end = "client"
    BY <1>i, <1>19, <2>1, ServerKeptStep DEF Leave, ServerKept, ClosePortEnd
  <2>2. CASE end = "server"
    <3>1. refs'["server"] = refs["server"] - 1
      BY <1>19, <2>2 DEF Leave, ClosePortEnd
    <3>2. HandleOf("server")' = HandleOf("server")
      BY <1>19 DEF Leave, HandleOf
    <3>3. InServerCall' = InServerCall \ {t} /\ t \in InServerCall
      BY <1>19, <2>2 DEF Leave, ClosePortEnd, InServerCall
    <3>4. Cardinality(InServerCall') = Cardinality(InServerCall) - 1
          /\ Cardinality(InServerCall') \in Nat
      BY <1>f, <3>3, FS_RemoveElement, FS_CardinalityType
    <3> QED
      BY ONLY <1>i, <1>f, <3>1, <3>2, <3>4 DEF ServerInv
  <2> QED
    BY <2>1, <2>2 DEF Ends
<1>20. ASSUME NEW t \in Threads, DestroyClientPort(t) PROVE ServerInv'
  BY <1>i, <1>20, ServerKeptStep DEF DestroyClientPort, ServerKept
<1>21. ASSUME NEW t \in Threads, OnServerClosed(t) PROVE ServerInv'
  BY <1>i, <1>21, ServerKeptStep DEF OnServerClosed, ServerKept
<1>22. ASSUME NEW t \in Threads, CleanupPop(t) PROVE ServerInv'
  BY <1>i, <1>22, ServerKeptStep DEF CleanupPop, ServerKept
<1>23. ASSUME NEW t \in Threads, CleanupClose(t) PROVE ServerInv'
  BY <1>i, <1>23, ServerKeptStep DEF CleanupClose, CloseSessionEnd, ServerKept
<1>24. ASSUME NEW t \in Threads, CleanupReturns(t) PROVE ServerInv'
  BY <1>i, <1>24, ServerKeptStep DEF CleanupReturns, ServerKept
<1>25. ASSUME NEW t \in Threads, OnSessionFinalized(t) PROVE ServerInv'
  BY <1>i, <1>25, ServerKeptStep DEF OnSessionFinalized, ServerKept
<1>26. ASSUME NEW t \in Threads, NotifyAvailable(t) PROVE ServerInv'
  BY <1>i, <1>26, ServerKeptStep DEF NotifyAvailable, Woken, ServerKept
<1>27. ASSUME NEW t \in Threads, FinalizeClosesPort(t) PROVE ServerInv'
  BY <1>i, <1>27, ServerKeptStep DEF FinalizeClosesPort, ServerKept
<1>28. ASSUME NEW t \in Threads, Free(t) PROVE ServerInv'
  BY <1>i, <1>28, ServerKeptStep DEF Free, ServerKept
<1>29. ASSUME NEW t \in Threads, Release(t) PROVE ServerInv'
  BY <1>i, <1>29, ServerKeptStep DEF Release, ServerKept
<1>30. CASE UNCHANGED vars
  BY <1>i, <1>30, ServerKeptStep DEF ServerKept
<1> QED
  BY PortCases,
     <1>1, <1>2, <1>3, <1>4, <1>5, <1>6, <1>7, <1>8, <1>9, <1>10, <1>11, <1>12, <1>13,
     <1>14, <1>15, <1>16, <1>17, <1>18, <1>19, <1>20, <1>21, <1>22, <1>23, <1>24, <1>25,
     <1>26, <1>27, <1>28, <1>29, <1>30 DEF PortAction

-----------------------------------------------------------------------------
(* Who refers to an end keeps it alive. *)
LEMMA Referred ==
    ASSUME ClientInv, ServerInv
    PROVE  /\ "client" \in handles => refs["client"] > 0
           /\ \A t \in Threads : InClientCall(t) => refs["client"] > 0
           /\ \A s \in Sessions : Open(s) => refs["client"] > 0
           /\ "server" \in handles => refs["server"] > 0
           /\ \A t \in Threads : pc[t] \in ServerCalling => refs["server"] > 0
<1>f. /\ IsFiniteSet(Callers) /\ Cardinality(Callers) \in Nat
      /\ IsFiniteSet(OpenSessions) /\ Cardinality(OpenSessions) \in Nat
      /\ IsFiniteSet(InServerCall) /\ Cardinality(InServerCall) \in Nat
      /\ HandleOf("client") \in Nat /\ HandleOf("server") \in Nat
  BY FiniteCallers, FiniteServerCalls
<1>1. ASSUME HandleOf("client") # 0 \/ Cardinality(Callers) # 0 \/ Cardinality(OpenSessions) # 0
      PROVE  refs["client"] > 0
  BY ONLY <1>1, <1>f, ClientInv DEF ClientInv
<1>2. ASSUME HandleOf("server") # 0 \/ Cardinality(InServerCall) # 0
      PROVE  refs["server"] > 0
  BY ONLY <1>2, <1>f, ServerInv DEF ServerInv
<1>3. ASSUME NEW t \in Threads, InClientCall(t) PROVE refs["client"] > 0
  <2>1. Callers # {}
    BY <1>3 DEF Callers
  <2> QED
    BY <1>1, <1>f, <2>1, FS_EmptySet
<1>4. ASSUME NEW s \in Sessions, Open(s) PROVE refs["client"] > 0
  <2>1. OpenSessions # {}
    BY <1>4 DEF OpenSessions
  <2> QED
    BY <1>1, <1>f, <2>1, FS_EmptySet
<1>5. ASSUME NEW t \in Threads, pc[t] \in ServerCalling PROVE refs["server"] > 0
  <2>1. InServerCall # {}
    BY <1>5 DEF InServerCall
  <2> QED
    BY <1>2, <1>f, <2>1, FS_EmptySet
<1>6. "client" \in handles => refs["client"] > 0
  BY <1>1 DEF HandleOf
<1>7. "server" \in handles => refs["server"] > 0
  BY <1>2 DEF HandleOf
<1> QED
  BY <1>3, <1>4, <1>5, <1>6, <1>7

(* A step that kills neither end. *)
EndsKept ==
    /\ refs'["port"] = refs["port"]
    /\ refs'["client"] = 0 <=> refs["client"] = 0
    /\ refs'["server"] = 0 <=> refs["server"] = 0
    /\ \A u \in Threads :
           (DestroysClient(u)' <=> DestroysClient(u)) /\ (DestroysServer(u)' <=> DestroysServer(u))
RefsNat == {refs["client"], refs["server"], refs["port"]} \subseteq Nat
EndsInv == OneDestroyer /\ PortRefs

(* Then the port is referred to as before. *)
LEMMA EndsKeptStep ==
    ASSUME EndsInv, EndsKept, RefsNat,
           refs'["client"] \in Nat, refs'["server"] \in Nat
    PROVE  EndsInv'
<1>1. OneDestroyer'
  BY DEF EndsInv, OneDestroyer, EndsKept
<1>2. /\ refs'["client"] > 0 <=> refs["client"] > 0
      /\ refs'["server"] > 0 <=> refs["server"] > 0
  BY DEF EndsKept, RefsNat
<1>3. (ClientLives' <=> ClientLives) /\ (ServerLives' <=> ServerLives)
  BY <1>2 DEF ClientLives, ServerLives, EndsKept
<1>4. PortRefs'
  BY <1>3 DEF EndsInv, PortRefs, EndsKept
<1> QED
  BY <1>1, <1>4 DEF EndsInv

(* The last reference to an end passes to the thread that destroys it. *)
LEMMA ClientHandover ==
    ASSUME EndsInv, RefsNat, NEW t \in Threads,
           refs["client"] > 0, refs'["client"] = 0,
           refs'["server"] = refs["server"], refs'["port"] = refs["port"],
           DestroysClient(t)', \A u \in Threads \ {t} : DestroysClient(u)' <=> DestroysClient(u),
           \A u \in Threads : DestroysServer(u)' <=> DestroysServer(u)
    PROVE  EndsInv'
<1>1. \A u \in Threads : ~DestroysClient(u)
  BY DEF EndsInv, OneDestroyer, RefsNat
<1>2. OneDestroyer'
  BY <1>1 DEF EndsInv, OneDestroyer
<1>3. ClientLives /\ ClientLives'
  BY DEF ClientLives
<1>4. ServerLives' <=> ServerLives
  BY DEF ServerLives
<1>5. PortRefs'
  BY <1>3, <1>4 DEF EndsInv, PortRefs
<1> QED
  BY <1>2, <1>5 DEF EndsInv

(* The same for the server end. *)
LEMMA ServerHandover ==
    ASSUME EndsInv, RefsNat, NEW t \in Threads,
           refs["server"] > 0, refs'["server"] = 0,
           refs'["client"] = refs["client"], refs'["port"] = refs["port"],
           DestroysServer(t)', \A u \in Threads \ {t} : DestroysServer(u)' <=> DestroysServer(u),
           \A u \in Threads : DestroysClient(u)' <=> DestroysClient(u)
    PROVE  EndsInv'
<1>1. \A u \in Threads : ~DestroysServer(u)
  BY DEF EndsInv, OneDestroyer, RefsNat
<1>2. OneDestroyer'
  BY <1>1 DEF EndsInv, OneDestroyer
<1>3. ServerLives /\ ServerLives'
  BY DEF ServerLives
<1>4. ClientLives' <=> ClientLives
  BY DEF ClientLives
<1>5. PortRefs'
  BY <1>3, <1>4 DEF EndsInv, PortRefs
<1> QED
  BY <1>2, <1>5 DEF EndsInv

(* An end is gone, and closes its reference to the port. *)
LEMMA ClientGone ==
    ASSUME EndsInv, RefsNat, ClientLives, refs'["client"] = 0,
           refs'["server"] = refs["server"], refs'["port"] = refs["port"] - 1,
           \A u \in Threads : ~DestroysClient(u)' /\ (DestroysServer(u)' <=> DestroysServer(u))
    PROVE  EndsInv'
<1>1. OneDestroyer'
  BY DEF EndsInv, OneDestroyer
<1>2. ~ClientLives'
  BY DEF ClientLives
<1>3. ServerLives' <=> ServerLives
  BY DEF ServerLives
<1>4. CASE ServerLives
  <2>1. refs["port"] = 2
    BY <1>4 DEF EndsInv, PortRefs
  <2> QED
    BY <1>1, <1>2, <1>3, <1>4, <2>1 DEF EndsInv, PortRefs
<1>5. CASE ~ServerLives
  <2>1. refs["port"] = 1
    BY <1>5 DEF EndsInv, PortRefs
  <2> QED
    BY <1>1, <1>2, <1>3, <1>5, <2>1 DEF EndsInv, PortRefs
<1> QED
  BY <1>4, <1>5

(* The same for the server end. *)
LEMMA ServerGone ==
    ASSUME EndsInv, RefsNat, ServerLives, refs'["server"] = 0,
           refs'["client"] = refs["client"], refs'["port"] = refs["port"] - 1,
           \A u \in Threads : ~DestroysServer(u)' /\ (DestroysClient(u)' <=> DestroysClient(u))
    PROVE  EndsInv'
<1>1. OneDestroyer'
  BY DEF EndsInv, OneDestroyer
<1>2. ~ServerLives'
  BY DEF ServerLives
<1>3. ClientLives' <=> ClientLives
  BY DEF ClientLives
<1>4. CASE ClientLives
  <2>1. refs["port"] = 2
    BY <1>4 DEF EndsInv, PortRefs
  <2> QED
    BY <1>1, <1>2, <1>3, <1>4, <2>1 DEF EndsInv, PortRefs
<1>5. CASE ~ClientLives
  <2>1. refs["port"] = 1
    BY <1>5 DEF EndsInv, PortRefs
  <2> QED
    BY <1>1, <1>2, <1>3, <1>5, <2>1 DEF EndsInv, PortRefs
<1> QED
  BY <1>4, <1>5

(* Each end has one destroyer, and holds the port until it is done. *)
LEMMA EndsStep == PortInv /\ [Next]_vars => EndsInv'
<1> SUFFICES ASSUME PortInv, [Next]_vars PROVE EndsInv'
  OBVIOUS
<1>r. refs \in [port : Nat, client : Nat, server : Nat]
  BY DEF PortInv, TypeOK
<1>n. ClientInv' /\ ServerInv'
  BY ClientRefsStep, ServerRefsStep
<1>m. refs'["client"] \in Nat /\ refs'["server"] \in Nat
  BY <1>n DEF ClientInv, ServerInv
<1>e. OneDestroyer /\ PortRefs
  BY DEF PortInv
<1>i. EndsInv /\ RefsNat /\ refs'["client"] \in Nat /\ refs'["server"] \in Nat
  BY <1>r, <1>m, <1>e DEF EndsInv, RefsNat
<1>d. ClientInv /\ ServerInv
  BY <1>r
     DEF PortInv, ClientRefs, ClientInv, Callers, OpenSessions, ServerRefs, ServerInv,
         InServerCall
<1>c. /\ "client" \in handles => refs["client"] > 0
      /\ \A t \in Threads : InClientCall(t) => refs["client"] > 0
      /\ \A s \in Sessions : Open(s) => refs["client"] > 0
      /\ "server" \in handles => refs["server"] > 0
      /\ \A t \in Threads : pc[t] \in ServerCalling => refs["server"] > 0
  BY <1>d, Referred
<1>u. \A u \in Threads : Using(u) => InHand(u) /\ arg[u] \in Sessions
  BY DEF PortInv, SessionsInHand, InHand
<1>o. \A u, v \in Threads : Using(u) /\ Using(v) /\ arg[u] = arg[v] => u = v
  BY DEF PortInv, OneUser
<1>p. pc \in [Threads -> Places]
  BY DEF PortInv, LocalTypeOK
<1>l. back \in [Threads -> {"user", "client leave", "cleanup"}]
  BY DEF PortInv, LocalTypeOK
<1>b. \A u \in Threads : pc[u] \notin Closing => back[u] = "user"
  BY DEF PortInv, LocalTypeOK
<1> USE <1>r, <1>p, <1>l
    DEF Cleaning, Closing, Finalizing, Building, Calling,
        ServerCalling, portVars, countVars, ownVars, localVars, vars, Goto, Ends, AsleepOn,
        Leaving,
        Destroying
<1>1. ASSUME NEW t \in Threads, ConnectToPort(t) PROVE EndsInv'
  <2>1. refs["client"] > 0
    BY <1>c, <1>1 DEF ConnectToPort
  <2>2. refs'["client"] = refs["client"] + 1
    BY <1>1 DEF ConnectToPort
  <2>3. refs["client"] \in Nat
    BY <1>r
  <2>4. refs'["client"] # 0 /\ refs["client"] # 0
    BY ONLY <2>1, <2>2, <2>3
  <2> QED
    BY <1>i, <1>1, <2>2, <2>4, EndsKeptStep
       DEF ConnectToPort, EndsKept, DestroysClient, DestroysServer, InCleanup
<1>2. ASSUME NEW t \in Threads, AcceptSession(t) PROVE EndsInv'
  <2>1. refs["server"] > 0
    BY <1>c, <1>2 DEF AcceptSession
  <2>2. refs'["server"] = refs["server"] + 1
    BY <1>2 DEF AcceptSession
  <2>3. refs["server"] \in Nat
    BY <1>r
  <2>4. refs'["server"] # 0 /\ refs["server"] # 0
    BY ONLY <2>1, <2>2, <2>3
  <2> QED
    BY <1>i, <1>2, <2>2, <2>4, EndsKeptStep
       DEF AcceptSession, EndsKept, DestroysClient, DestroysServer, InCleanup
<1>3. ASSUME NEW t \in Threads, NEW s \in Sessions, CloseClientSession(t, s) PROVE EndsInv'
  <2>1. CASE session[s].ref = 1
    <3>1. pc[t] = "user" /\ pc' = [pc EXCEPT ![t] = "finalize"] /\ UNCHANGED refs
          /\ back' = [back EXCEPT ![t] = "user"]
      BY <1>3, <2>1 DEF CloseClientSession, CloseSessionEnd
    <3> QED
      BY <1>i, <3>1, EndsKeptStep DEF EndsKept, DestroysClient, DestroysServer, InCleanup
  <2>2. CASE session[s].ref # 1
    <3>1. pc[t] = "user" /\ pc' = [pc EXCEPT ![t] = "user"] /\ UNCHANGED <<refs, back>>
      BY <1>3, <2>2 DEF CloseClientSession, CloseSessionEnd
    <3> QED
      BY <1>i, <3>1, EndsKeptStep DEF EndsKept, DestroysClient, DestroysServer, InCleanup
  <2> QED
    BY <2>1, <2>2
<1>4. ASSUME NEW t \in Threads, NEW s \in Sessions, CloseServerSession(t, s) PROVE EndsInv'
  <2>1. CASE session[s].ref = 1
    <3>1. pc[t] = "user" /\ pc' = [pc EXCEPT ![t] = "finalize"] /\ UNCHANGED refs
          /\ back' = [back EXCEPT ![t] = "user"]
      BY <1>4, <2>1 DEF CloseServerSession, CloseSessionEnd
    <3> QED
      BY <1>i, <3>1, EndsKeptStep DEF EndsKept, DestroysClient, DestroysServer, InCleanup
  <2>2. CASE session[s].ref # 1
    <3>1. pc[t] = "user" /\ pc' = [pc EXCEPT ![t] = "user"] /\ UNCHANGED <<refs, back>>
      BY <1>4, <2>2 DEF CloseServerSession, CloseSessionEnd
    <3> QED
      BY <1>i, <3>1, EndsKeptStep DEF EndsKept, DestroysClient, DestroysServer, InCleanup
  <2> QED
    BY <2>1, <2>2
<1>5. ASSUME NEW t \in Threads, NEW end \in Ends, Wait(t, end) PROVE EndsInv'
  <2>1. refs[end] > 0 /\ refs[end] \in Nat
    BY <1>c, <1>5 DEF Wait
  <2>2. refs'[end] = refs[end] + 1 /\ \A e \in Ends \ {end} : refs'[e] = refs[e]
    BY <1>5 DEF Wait
  <2>3. refs'[end] # 0 /\ refs[end] # 0
    BY ONLY <2>1, <2>2
  <2>4. \A e \in Ends : refs'[e] = 0 <=> refs[e] = 0
    BY <2>2, <2>3
  <2> QED
    BY <1>i, <1>5, <2>4, EndsKeptStep
       DEF Wait, EndsKept, DestroysClient, DestroysServer, InCleanup
<1>6. ASSUME NEW t \in Threads, NEW end \in Ends, CloseHandle(t, end) PROVE EndsInv'
  <2>1. PICK n \in Nat : n = refs[end] /\ n > 0
    BY <1>c, <1>6 DEF CloseHandle, InClientCall
  <2>2. refs'[end] = n - 1 /\ \A e \in Ends \ {end} : refs'[e] = refs[e]
    BY <1>6, <2>1 DEF CloseHandle, ClosePortEnd
  <2>3. refs'["port"] = refs["port"]
    BY <1>6 DEF CloseHandle, ClosePortEnd
  <2>4. \A u \in Threads \ {t} : pc'[u] = pc[u] /\ back'[u] = back[u]
    BY <1>6 DEF CloseHandle, ClosePortEnd
  <2>5. \A u \in Threads \ {t} :
           (DestroysClient(u)' <=> DestroysClient(u)) /\ (DestroysServer(u)' <=> DestroysServer(u))
    BY <2>4 DEF DestroysClient, DestroysServer, InCleanup
  <2>6. ~DestroysClient(t) /\ ~DestroysServer(t)
    BY <1>6, <1>b DEF CloseHandle, DestroysClient, DestroysServer, InCleanup
  <2>7. CASE n = 1
    <3>1. refs'[end] = 0
      BY ONLY <2>1, <2>2, <2>7
    <3>2. pc'[t] = Destroying(end)
      BY <1>6, <2>1, <2>7 DEF CloseHandle, ClosePortEnd
    <3>3. CASE end = "client"
      <4>1. DestroysClient(t)' /\ ~DestroysServer(t)'
        BY <3>2, <3>3 DEF DestroysClient, DestroysServer, InCleanup
      <4>2. \A u \in Threads : DestroysServer(u)' <=> DestroysServer(u)
        BY <2>5, <2>6, <4>1 DEF DestroysClient, DestroysServer, InCleanup
      <4>3. refs["client"] > 0 /\ refs'["client"] = 0 /\ refs'["server"] = refs["server"]
        BY <2>1, <2>2, <3>1, <3>3
      <4> QED
        BY ONLY <1>i, <2>3, <2>5, <4>1, <4>2, <4>3, t \in Threads, ClientHandover
    <3>4. CASE end = "server"
      <4>1. DestroysServer(t)' /\ ~DestroysClient(t)'
        BY <3>2, <3>4 DEF DestroysClient, DestroysServer, InCleanup
      <4>2. \A u \in Threads : DestroysClient(u)' <=> DestroysClient(u)
        BY <2>5, <2>6, <4>1 DEF DestroysClient, DestroysServer, InCleanup
      <4>3. refs["server"] > 0 /\ refs'["server"] = 0 /\ refs'["client"] = refs["client"]
        BY <2>1, <2>2, <3>1, <3>4
      <4> QED
        BY ONLY <1>i, <2>3, <2>5, <4>1, <4>2, <4>3, t \in Threads, ServerHandover
    <3> QED
      BY <3>3, <3>4
  <2>8. CASE n # 1
    <3>1. refs'[end] # 0 /\ refs[end] # 0
      BY ONLY <2>1, <2>2, <2>8, n \in Nat
    <3>2. pc'[t] = "user"
      BY <1>6, <2>1, <2>8 DEF CloseHandle, ClosePortEnd
    <3>3. ~DestroysClient(t)' /\ ~DestroysServer(t)'
      BY <3>2 DEF DestroysClient, DestroysServer, InCleanup
    <3>4. \A e \in Ends : refs'[e] = 0 <=> refs[e] = 0
      BY <2>2, <3>1
    <3>5. EndsKept
      BY <2>3, <2>5, <2>6, <3>3, <3>4 DEF EndsKept
    <3> QED
      BY <1>i, <1>e, <3>5, EndsKeptStep
  <2> QED
    BY <2>7, <2>8
<1>7. ASSUME NEW t \in Threads, Reserve(t) PROVE EndsInv'
  BY <1>i, <1>7, EndsKeptStep DEF Reserve, EndsKept, DestroysClient, DestroysServer, InCleanup
<1>8. ASSUME NEW t \in Threads, Create(t) PROVE EndsInv'
  BY <1>i, <1>8, EndsKeptStep DEF Create, EndsKept, DestroysClient, DestroysServer, InCleanup
<1>9. ASSUME NEW t \in Threads, LoadSessions(t) PROVE EndsInv'
  BY <1>i, <1>9, EndsKeptStep
     DEF LoadSessions, EndsKept, DestroysClient, DestroysServer, InCleanup
<1>10. ASSUME NEW t \in Threads, OutOfSessions(t) PROVE EndsInv'
  BY <1>i, <1>10, EndsKeptStep
     DEF OutOfSessions, EndsKept, DestroysClient, DestroysServer, InCleanup
<1>11. ASSUME NEW t \in Threads, CountSession(t) PROVE EndsInv'
  BY <1>i, <1>11, EndsKeptStep
     DEF CountSession, EndsKept, DestroysClient, DestroysServer, InCleanup
<1>12. ASSUME NEW t \in Threads, LoadPeak(t) PROVE EndsInv'
  BY <1>i, <1>12, EndsKeptStep DEF LoadPeak, EndsKept, DestroysClient, DestroysServer, InCleanup
<1>13. ASSUME NEW t \in Threads, UpdatePeak(t) PROVE EndsInv'
  BY <1>i, <1>13, EndsKeptStep DEF UpdatePeak, EndsKept, DestroysClient, DestroysServer, InCleanup
<1>14. ASSUME NEW t \in Threads, Initialize(t) PROVE EndsInv'
  <2>1. refs["client"] > 0
    BY <1>c, <1>14 DEF Initialize, InClientCall
  <2>2. refs'["client"] = refs["client"] + 1
    BY <1>14 DEF Initialize
  <2>3. refs["client"] \in Nat
    BY <1>r
  <2>4. refs'["client"] # 0 /\ refs["client"] # 0
    BY ONLY <2>1, <2>2, <2>3
  <2> QED
    BY <1>i, <1>14, <2>2, <2>4, EndsKeptStep
       DEF Initialize, EndsKept, DestroysClient, DestroysServer, InCleanup
<1>15. ASSUME NEW t \in Threads, EnqueueSession(t) PROVE EndsInv'
  BY <1>i, <1>15, EndsKeptStep
     DEF EnqueueSession, Woken, EndsKept, DestroysClient, DestroysServer, InCleanup
<1>16. ASSUME NEW t \in Threads, EnqueueRefused(t) PROVE EndsInv'
  BY <1>i, <1>16, EndsKeptStep
     DEF EnqueueRefused, EndsKept, DestroysClient, DestroysServer, InCleanup
<1>17. ASSUME NEW t \in Threads, RefusedClosesClient(t) PROVE EndsInv'
  <2>1. PICK s : s = arg[t]
    OBVIOUS
  <2>2. pc' = [pc EXCEPT ![t] = "refused server"] /\ UNCHANGED <<refs, back>>
    <3>1. s \in Sessions /\ session[s] = Object(2)
      BY <1>u, <1>17, <2>1 DEF RefusedClosesClient, Using, InHand
    <3>2. CloseSessionEnd(t, s, "refused server") /\ UNCHANGED refs
      BY <1>17, <2>1 DEF RefusedClosesClient
    <3>3. session[s].ref # 1
      BY ONLY <3>1 DEF Object
    <3> QED
      BY ONLY <3>2, <3>3 DEF CloseSessionEnd, Goto
  <2> QED
    BY <1>i, <1>17, <2>2, EndsKeptStep
       DEF RefusedClosesClient, EndsKept, DestroysClient, DestroysServer, InCleanup
<1>18. ASSUME NEW t \in Threads, RefusedClosesServer(t) PROVE EndsInv'
  BY <1>i, <1>18, EndsKeptStep
     DEF RefusedClosesServer, CloseSessionEnd, EndsKept, DestroysClient, DestroysServer,
         InCleanup
<1>19. ASSUME NEW t \in Threads, NEW end \in Ends, Leave(t, end) PROVE EndsInv'
  <2>1. PICK n \in Nat : n = refs[end] /\ n > 0
    BY <1>c, <1>19 DEF Leave, InClientCall
  <2>2. refs'[end] = n - 1 /\ \A e \in Ends \ {end} : refs'[e] = refs[e]
    BY <1>19, <2>1 DEF Leave, ClosePortEnd
  <2>3. refs'["port"] = refs["port"]
    BY <1>19 DEF Leave, ClosePortEnd
  <2>4. \A u \in Threads \ {t} : pc'[u] = pc[u] /\ back'[u] = back[u]
    BY <1>19 DEF Leave, ClosePortEnd
  <2>5. \A u \in Threads \ {t} :
           (DestroysClient(u)' <=> DestroysClient(u)) /\ (DestroysServer(u)' <=> DestroysServer(u))
    BY <2>4 DEF DestroysClient, DestroysServer, InCleanup
  <2>6. ~DestroysClient(t) /\ ~DestroysServer(t)
    BY <1>19, <1>b DEF Leave, DestroysClient, DestroysServer, InCleanup
  <2>7. CASE n = 1
    <3>1. refs'[end] = 0
      BY ONLY <2>1, <2>2, <2>7
    <3>2. pc'[t] = Destroying(end)
      BY <1>19, <2>1, <2>7 DEF Leave, ClosePortEnd
    <3>3. CASE end = "client"
      <4>1. DestroysClient(t)' /\ ~DestroysServer(t)'
        BY <3>2, <3>3 DEF DestroysClient, DestroysServer, InCleanup
      <4>2. \A u \in Threads : DestroysServer(u)' <=> DestroysServer(u)
        BY <2>5, <2>6, <4>1 DEF DestroysClient, DestroysServer, InCleanup
      <4>3. refs["client"] > 0 /\ refs'["client"] = 0 /\ refs'["server"] = refs["server"]
        BY <2>1, <2>2, <3>1, <3>3
      <4> QED
        BY ONLY <1>i, <2>3, <2>5, <4>1, <4>2, <4>3, t \in Threads, ClientHandover
    <3>4. CASE end = "server"
      <4>1. DestroysServer(t)' /\ ~DestroysClient(t)'
        BY <3>2, <3>4 DEF DestroysClient, DestroysServer, InCleanup
      <4>2. \A u \in Threads : DestroysClient(u)' <=> DestroysClient(u)
        BY <2>5, <2>6, <4>1 DEF DestroysClient, DestroysServer, InCleanup
      <4>3. refs["server"] > 0 /\ refs'["server"] = 0 /\ refs'["client"] = refs["client"]
        BY <2>1, <2>2, <3>1, <3>4
      <4> QED
        BY ONLY <1>i, <2>3, <2>5, <4>1, <4>2, <4>3, t \in Threads, ServerHandover
    <3> QED
      BY <3>3, <3>4
  <2>8. CASE n # 1
    <3>1. refs'[end] # 0 /\ refs[end] # 0
      BY ONLY <2>1, <2>2, <2>8, n \in Nat
    <3>2. pc'[t] = "user"
      BY <1>19, <2>1, <2>8 DEF Leave, ClosePortEnd
    <3>3. ~DestroysClient(t)' /\ ~DestroysServer(t)'
      BY <3>2 DEF DestroysClient, DestroysServer, InCleanup
    <3>4. \A e \in Ends : refs'[e] = 0 <=> refs[e] = 0
      BY <2>2, <3>1
    <3>5. EndsKept
      BY <2>3, <2>5, <2>6, <3>3, <3>4 DEF EndsKept
    <3> QED
      BY <1>i, <1>e, <3>5, EndsKeptStep
  <2> QED
    BY <2>7, <2>8
<1>20. ASSUME NEW t \in Threads, DestroyClientPort(t) PROVE EndsInv'
  <2>1. /\ pc[t] = "client destroy" /\ pc' = [pc EXCEPT ![t] = "user"] /\ UNCHANGED back
        /\ refs'["port"] = refs["port"] - 1 /\ \A e \in Ends : refs'[e] = refs[e]
    BY <1>20, <1>b DEF DestroyClientPort
  <2>2. DestroysClient(t)
    BY <2>1 DEF DestroysClient, DestroysServer, InCleanup
  <2>3. refs["client"] = 0 /\ \A u \in Threads \ {t} : ~DestroysClient(u)
    BY ONLY <1>e, <2>2, t \in Threads DEF OneDestroyer, EndsInv
  <2>4. ~DestroysClient(t)' /\ (DestroysServer(t)' <=> DestroysServer(t))
    BY <1>b, <2>1 DEF DestroysClient, DestroysServer, InCleanup
  <2>5. \A u \in Threads \ {t} :
           (DestroysClient(u)' <=> DestroysClient(u)) /\ (DestroysServer(u)' <=> DestroysServer(u))
    BY <2>1 DEF DestroysClient, DestroysServer, InCleanup
  <2>6. ClientLives
    BY <2>2 DEF ClientLives
  <2>7. refs'["client"] = refs["client"] /\ refs'["server"] = refs["server"]
    BY <2>1
  <2> QED
    BY ONLY <1>i, <2>1, <2>3, <2>4, <2>5, <2>6, <2>7, ClientGone
<1>21. ASSUME NEW t \in Threads, OnServerClosed(t) PROVE EndsInv'
  BY <1>i, <1>21, EndsKeptStep
     DEF OnServerClosed, EndsKept, DestroysClient, DestroysServer, InCleanup
<1>22. ASSUME NEW t \in Threads, CleanupPop(t) PROVE EndsInv'
  BY <1>i, <1>22, EndsKeptStep DEF CleanupPop, EndsKept, DestroysClient, DestroysServer, InCleanup
<1>23. ASSUME NEW t \in Threads, CleanupClose(t) PROVE EndsInv'
  BY <1>i, <1>23, EndsKeptStep
     DEF CleanupClose, CloseSessionEnd, EndsKept, DestroysClient, DestroysServer, InCleanup
<1>24. ASSUME NEW t \in Threads, CleanupReturns(t) PROVE EndsInv'
  <2>1. /\ pc[t] = "cleanup" /\ pc' = [pc EXCEPT ![t] = "user"] /\ UNCHANGED back
        /\ refs'["port"] = refs["port"] - 1 /\ \A e \in Ends : refs'[e] = refs[e]
    BY <1>24, <1>b DEF CleanupReturns
  <2>2. DestroysServer(t)
    BY <2>1 DEF DestroysClient, DestroysServer, InCleanup
  <2>3. refs["server"] = 0 /\ \A u \in Threads \ {t} : ~DestroysServer(u)
    BY ONLY <1>e, <2>2, t \in Threads DEF OneDestroyer, EndsInv
  <2>4. ~DestroysServer(t)' /\ (DestroysClient(t)' <=> DestroysClient(t))
    BY <1>b, <2>1 DEF DestroysClient, DestroysServer, InCleanup
  <2>5. \A u \in Threads \ {t} :
           (DestroysServer(u)' <=> DestroysServer(u)) /\ (DestroysClient(u)' <=> DestroysClient(u))
    BY <2>1 DEF DestroysClient, DestroysServer, InCleanup
  <2>6. ServerLives
    BY <2>2 DEF ServerLives
  <2>7. refs'["client"] = refs["client"] /\ refs'["server"] = refs["server"]
    BY <2>1
  <2> QED
    BY ONLY <1>i, <2>1, <2>3, <2>4, <2>5, <2>6, <2>7, ServerGone
<1>25. ASSUME NEW t \in Threads, OnSessionFinalized(t) PROVE EndsInv'
  BY <1>i, <1>25, EndsKeptStep
     DEF OnSessionFinalized, EndsKept, DestroysClient, DestroysServer, InCleanup
<1>26. ASSUME NEW t \in Threads, NotifyAvailable(t) PROVE EndsInv'
  BY <1>i, <1>26, EndsKeptStep
     DEF NotifyAvailable, Woken, EndsKept, DestroysClient, DestroysServer, InCleanup
<1>27. ASSUME NEW t \in Threads, FinalizeClosesPort(t) PROVE EndsInv'
  <2>1. PICK n \in Nat : n = refs["client"] /\ n > 0
    <3>1. Using(t) /\ pc[t] = "close port"
      BY <1>27 DEF FinalizeClosesPort, Using
    <3>2. arg[t] \in Sessions /\ session[arg[t]].stage = "live"
      BY <1>u, <3>1, Stages DEF InHand
    <3>3. ~Freeing(arg[t])
      BY <1>o, <3>1 DEF Freeing, Using
    <3> QED
      BY <1>c, <3>2, <3>3 DEF Open
  <2>2. /\ pc[t] = "close port" /\ pc' = [pc EXCEPT ![t] = "free"] /\ UNCHANGED back
        /\ refs'["client"] = n - 1 /\ refs'["server"] = refs["server"]
        /\ refs'["port"] = IF n = 1 THEN refs["port"] - 1 ELSE refs["port"]
    BY <1>27, <2>1 DEF FinalizeClosesPort
  <2>3. \A u \in Threads :
           (DestroysClient(u)' <=> DestroysClient(u)) /\ (DestroysServer(u)' <=> DestroysServer(u))
    BY <2>2 DEF DestroysClient, DestroysServer, InCleanup
  <2>4. CASE n = 1
    <3>0. n - 1 = 0
      BY ONLY <2>4
    <3>1. refs'["client"] = 0
      BY <2>2, <3>0
    <3>2. \A u \in Threads : ~DestroysClient(u)
      BY ONLY <1>e, <2>1 DEF OneDestroyer, EndsInv
    <3>3. ClientLives
      BY <2>1 DEF ClientLives
    <3>5. refs'["port"] = refs["port"] - 1
      BY <2>2, <2>4
    <3> QED
      BY ONLY <1>i, <2>2, <2>3, <3>1, <3>2, <3>3, <3>5, ClientGone
  <2>5. CASE n # 1
    <3>1. n - 1 # 0 /\ n # 0
      BY ONLY <2>1, <2>5, n \in Nat
    <3>2. EndsKept
      BY <2>1, <2>2, <2>3, <2>5, <3>1 DEF EndsKept
    <3> QED
      BY <1>i, <1>e, <3>2, EndsKeptStep
  <2> QED
    BY <2>4, <2>5
<1>28. ASSUME NEW t \in Threads, Free(t) PROVE EndsInv'
  BY <1>i, <1>28, EndsKeptStep DEF Free, EndsKept, DestroysClient, DestroysServer, InCleanup
<1>29. ASSUME NEW t \in Threads, Release(t) PROVE EndsInv'
  BY <1>i, <1>29, EndsKeptStep DEF Release, EndsKept, DestroysClient, DestroysServer, InCleanup
<1>30. CASE UNCHANGED vars
  BY <1>i, <1>30, EndsKeptStep DEF EndsKept, DestroysClient, DestroysServer, InCleanup
<1> QED
  BY PortCases,
     <1>1, <1>2, <1>3, <1>4, <1>5, <1>6, <1>7, <1>8, <1>9, <1>10, <1>11, <1>12, <1>13,
     <1>14, <1>15, <1>16, <1>17, <1>18, <1>19, <1>20, <1>21, <1>22, <1>23, <1>24, <1>25,
     <1>26, <1>27, <1>28, <1>29, <1>30 DEF PortAction

-----------------------------------------------------------------------------
(* A step that neither fills the queue nor lets the server end go. *)
QueueKept ==
    /\ queue = <<>> => queue' = <<>>
    /\ portState' = "Normal" => portState = "Normal"
    /\ refs["server"] > 0 => refs'["server"] > 0
    /\ \A u \in Threads : DestroysServer(u) => DestroysServer(u)'
    /\ \A u \in Threads : pc[u] = "server destroy" => pc'[u] = "server destroy"

(* Then the queue is in the same care as before. *)
LEMMA QueueKeptStep ==
    ASSUME QueueLives, QueueKept
    PROVE  QueueLives'
<1>1. ServerLives => ServerLives'
  BY DEF QueueKept, ServerLives
<1> QED
  BY <1>1 DEF QueueLives, QueueKept

(* No step leaves sessions in a queue that nobody will clean up. *)
LEMMA QueueStep == PortInv /\ [Next]_vars => QueueLives'
<1> SUFFICES ASSUME PortInv, [Next]_vars PROVE QueueLives'
  OBVIOUS
<1>i. QueueLives
  BY DEF PortInv
<1>d. OneDestroyer
  BY DEF PortInv
<1>r. refs \in [port : Nat, client : Nat, server : Nat]
  BY DEF PortInv, TypeOK
<1>n. refs["server"] \in Nat
  BY <1>r
<1>p. pc \in [Threads -> Places]
  BY DEF PortInv, LocalTypeOK
<1>l. back \in [Threads -> {"user", "client leave", "cleanup"}]
  BY DEF PortInv, LocalTypeOK
<1>b. \A u \in Threads : pc[u] \notin Closing => back[u] = "user"
  BY DEF PortInv, LocalTypeOK
<1> USE <1>r, <1>p, <1>l
    DEF Cleaning, Closing, Finalizing, portVars, countVars, ownVars, localVars, vars, Goto, Ends,
        AsleepOn, Leaving, Destroying
<1>1. ASSUME NEW t \in Threads, ConnectToPort(t) PROVE QueueLives'
  BY <1>i, <1>1, QueueKeptStep DEF ConnectToPort, QueueKept, DestroysServer, InCleanup
<1>2. ASSUME NEW t \in Threads, AcceptSession(t) PROVE QueueLives'
  <2>1. refs'["server"] = refs["server"] + 1
    BY <1>2 DEF AcceptSession
  <2>2. refs["server"] > 0 => refs'["server"] > 0
    BY ONLY <2>1, <1>n
  <2> QED
    BY <1>i, <1>2, <2>2, EmptySeq, QueueKeptStep
       DEF AcceptSession, QueueKept, DestroysServer, InCleanup
<1>3. ASSUME NEW t \in Threads, NEW s \in Sessions, CloseClientSession(t, s) PROVE QueueLives'
  <2>1. /\ pc[t] = "user" /\ UNCHANGED <<queue, refs, portState>>
        /\ \A u \in Threads \ {t} : pc'[u] = pc[u] /\ back'[u] = back[u]
    BY <1>3 DEF CloseClientSession, CloseSessionEnd
  <2> QED
    BY <1>i, <1>b, <2>1, QueueKeptStep DEF QueueKept, DestroysServer, InCleanup
<1>4. ASSUME NEW t \in Threads, NEW s \in Sessions, CloseServerSession(t, s) PROVE QueueLives'
  <2>1. /\ pc[t] = "user" /\ UNCHANGED <<queue, refs, portState>>
        /\ \A u \in Threads \ {t} : pc'[u] = pc[u] /\ back'[u] = back[u]
    BY <1>4 DEF CloseServerSession, CloseSessionEnd
  <2> QED
    BY <1>i, <1>b, <2>1, QueueKeptStep DEF QueueKept, DestroysServer, InCleanup
<1>5. ASSUME NEW t \in Threads, NEW end \in Ends, Wait(t, end) PROVE QueueLives'
  <2>1. refs'["server"] = refs["server"] + 1 \/ refs'["server"] = refs["server"]
    BY <1>5 DEF Wait
  <2>2. refs["server"] > 0 => refs'["server"] > 0
    BY ONLY <2>1, <1>n
  <2> QED
    BY <1>i, <1>5, <2>2, QueueKeptStep DEF Wait, QueueKept, DestroysServer, InCleanup
<1>6. ASSUME NEW t \in Threads, NEW end \in Ends, CloseHandle(t, end) PROVE QueueLives'
  <2>1. /\ UNCHANGED <<queue, portState>> /\ pc[t] \in {Leaving(end), "user"}
        /\ \A u \in Threads \ {t} : pc'[u] = pc[u] /\ back'[u] = back[u]
    BY <1>6 DEF CloseHandle, ClosePortEnd
  <2>2. CASE end = "client"
    <3>1. refs'["server"] = refs["server"]
      BY <1>6, <2>2 DEF CloseHandle, ClosePortEnd
    <3> QED
      BY <1>i, <1>b, <2>1, <2>2, <3>1, QueueKeptStep DEF QueueKept, DestroysServer, InCleanup
  <2>3. CASE end = "server" /\ refs["server"] = 1
    <3>1. pc'[t] = "server destroy"
      BY <1>6, <2>3 DEF CloseHandle, ClosePortEnd
    <3>2. DestroysServer(t)'
      BY <3>1 DEF DestroysServer
    <3> QED
      BY <3>1, <3>2 DEF QueueLives, ServerLives
  <2>4. CASE end = "server" /\ refs["server"] # 1
    <3>1. refs'["server"] = refs["server"] - 1
      BY <1>6, <2>4 DEF CloseHandle, ClosePortEnd
    <3>2. refs["server"] > 0 => refs'["server"] > 0
      BY ONLY <2>4, <3>1, <1>n
    <3> QED
      BY <1>i, <1>b, <2>1, <2>4, <3>2, QueueKeptStep DEF QueueKept, DestroysServer, InCleanup
  <2> QED
    BY <2>2, <2>3, <2>4
<1>7. ASSUME NEW t \in Threads, Reserve(t) PROVE QueueLives'
  BY <1>i, <1>7, QueueKeptStep DEF Reserve, QueueKept, DestroysServer, InCleanup
<1>8. ASSUME NEW t \in Threads, Create(t) PROVE QueueLives'
  BY <1>i, <1>8, QueueKeptStep DEF Create, QueueKept, DestroysServer, InCleanup
<1>9. ASSUME NEW t \in Threads, LoadSessions(t) PROVE QueueLives'
  BY <1>i, <1>9, QueueKeptStep DEF LoadSessions, QueueKept, DestroysServer, InCleanup
<1>10. ASSUME NEW t \in Threads, OutOfSessions(t) PROVE QueueLives'
  BY <1>i, <1>10, QueueKeptStep DEF OutOfSessions, QueueKept, DestroysServer, InCleanup
<1>11. ASSUME NEW t \in Threads, CountSession(t) PROVE QueueLives'
  BY <1>i, <1>11, QueueKeptStep DEF CountSession, QueueKept, DestroysServer, InCleanup
<1>12. ASSUME NEW t \in Threads, LoadPeak(t) PROVE QueueLives'
  BY <1>i, <1>12, QueueKeptStep DEF LoadPeak, QueueKept, DestroysServer, InCleanup
<1>13. ASSUME NEW t \in Threads, UpdatePeak(t) PROVE QueueLives'
  BY <1>i, <1>13, QueueKeptStep DEF UpdatePeak, QueueKept, DestroysServer, InCleanup
<1>14. ASSUME NEW t \in Threads, Initialize(t) PROVE QueueLives'
  BY <1>i, <1>14, QueueKeptStep DEF Initialize, QueueKept, DestroysServer, InCleanup
<1>15. ASSUME NEW t \in Threads, EnqueueSession(t) PROVE QueueLives'
  <2>1. portState = "Normal" /\ UNCHANGED <<refs, portState, back>>
    BY <1>15 DEF EnqueueSession
  <2>2. \A u \in Threads : pc[u] = "server destroy" => pc'[u] = "server destroy"
    BY <1>15 DEF EnqueueSession, Woken
  <2>3. refs'["server"] > 0 \/ \E u \in Threads : pc'[u] = "server destroy"
    BY <1>i, <2>1, <2>2 DEF QueueLives
  <2>4. ServerLives'
    BY <2>3 DEF ServerLives, DestroysServer
  <2> QED
    BY <2>3, <2>4 DEF QueueLives
<1>16. ASSUME NEW t \in Threads, EnqueueRefused(t) PROVE QueueLives'
  BY <1>i, <1>16, QueueKeptStep DEF EnqueueRefused, QueueKept, DestroysServer, InCleanup
<1>17. ASSUME NEW t \in Threads, RefusedClosesClient(t) PROVE QueueLives'
  <2>1. /\ pc[t] = "refused" /\ UNCHANGED <<queue, refs, portState>>
        /\ \A u \in Threads \ {t} : pc'[u] = pc[u] /\ back'[u] = back[u]
    BY <1>17 DEF RefusedClosesClient, CloseSessionEnd
  <2> QED
    BY <1>i, <1>b, <2>1, QueueKeptStep DEF QueueKept, DestroysServer, InCleanup
<1>18. ASSUME NEW t \in Threads, RefusedClosesServer(t) PROVE QueueLives'
  <2>1. /\ pc[t] = "refused server" /\ UNCHANGED <<queue, refs, portState>>
        /\ \A u \in Threads \ {t} : pc'[u] = pc[u] /\ back'[u] = back[u]
    BY <1>18 DEF RefusedClosesServer, CloseSessionEnd
  <2> QED
    BY <1>i, <1>b, <2>1, QueueKeptStep DEF QueueKept, DestroysServer, InCleanup
<1>19. ASSUME NEW t \in Threads, NEW end \in Ends, Leave(t, end) PROVE QueueLives'
  <2>1. /\ UNCHANGED <<queue, portState>> /\ pc[t] \in {Leaving(end), "user"}
        /\ \A u \in Threads \ {t} : pc'[u] = pc[u] /\ back'[u] = back[u]
    BY <1>19 DEF Leave, ClosePortEnd
  <2>2. CASE end = "client"
    <3>1. refs'["server"] = refs["server"]
      BY <1>19, <2>2 DEF Leave, ClosePortEnd
    <3> QED
      BY <1>i, <1>b, <2>1, <2>2, <3>1, QueueKeptStep DEF QueueKept, DestroysServer, InCleanup
  <2>3. CASE end = "server" /\ refs["server"] = 1
    <3>1. pc'[t] = "server destroy"
      BY <1>19, <2>3 DEF Leave, ClosePortEnd
    <3>2. DestroysServer(t)'
      BY <3>1 DEF DestroysServer
    <3> QED
      BY <3>1, <3>2 DEF QueueLives, ServerLives
  <2>4. CASE end = "server" /\ refs["server"] # 1
    <3>1. refs'["server"] = refs["server"] - 1
      BY <1>19, <2>4 DEF Leave, ClosePortEnd
    <3>2. refs["server"] > 0 => refs'["server"] > 0
      BY ONLY <2>4, <3>1, <1>n
    <3> QED
      BY <1>i, <1>b, <2>1, <2>4, <3>2, QueueKeptStep DEF QueueKept, DestroysServer, InCleanup
  <2> QED
    BY <2>2, <2>3, <2>4
<1>20. ASSUME NEW t \in Threads, DestroyClientPort(t) PROVE QueueLives'
  BY <1>i, <1>20, QueueKeptStep DEF DestroyClientPort, QueueKept, DestroysServer, InCleanup
<1>21. ASSUME NEW t \in Threads, OnServerClosed(t) PROVE QueueLives'
  <2>1. portState' # "Normal" /\ UNCHANGED <<queue, refs, back>>
    BY <1>21 DEF OnServerClosed
  <2>2. \A u \in Threads : DestroysServer(u) => DestroysServer(u)'
    BY <1>21, <1>b DEF OnServerClosed, DestroysServer, InCleanup
  <2>3. ServerLives => ServerLives'
    BY <2>1, <2>2 DEF ServerLives
  <2> QED
    BY <1>i, <2>1, <2>3 DEF QueueLives
<1>22. ASSUME NEW t \in Threads, CleanupPop(t) PROVE QueueLives'
  BY <1>i, <1>22, QueueKeptStep DEF CleanupPop, QueueKept, DestroysServer, InCleanup
<1>23. ASSUME NEW t \in Threads, CleanupClose(t) PROVE QueueLives'
  BY <1>i, <1>23, QueueKeptStep
     DEF CleanupClose, CloseSessionEnd, QueueKept, DestroysServer, InCleanup
<1>24. ASSUME NEW t \in Threads, CleanupReturns(t) PROVE QueueLives'
  <2>1. pc[t] = "cleanup" /\ queue' = <<>> /\ UNCHANGED portState
    BY <1>24 DEF CleanupReturns
  <2>2. DestroysServer(t)
    BY <2>1 DEF DestroysServer, InCleanup
  <2>3. refs["server"] = 0 /\ \A u \in Threads : DestroysServer(u) => u = t
    BY ONLY <1>d, <2>2, t \in Threads DEF OneDestroyer
  <2>4. \A u \in Threads : pc[u] # "server destroy"
    BY <2>1, <2>3 DEF DestroysServer
  <2>5. portState = "Normal" => refs["server"] > 0 \/ \E u \in Threads : pc[u] = "server destroy"
    BY <1>i DEF QueueLives
  <2>6. ~(refs["server"] > 0)
    BY ONLY <2>3
  <2>7. portState # "Normal"
    BY ONLY <2>4, <2>5, <2>6
  <2> QED
    BY <2>1, <2>7 DEF QueueLives
<1>25. ASSUME NEW t \in Threads, OnSessionFinalized(t) PROVE QueueLives'
  BY <1>i, <1>25, QueueKeptStep DEF OnSessionFinalized, QueueKept, DestroysServer, InCleanup
<1>26. ASSUME NEW t \in Threads, NotifyAvailable(t) PROVE QueueLives'
  BY <1>i, <1>26, QueueKeptStep DEF NotifyAvailable, Woken, QueueKept, DestroysServer, InCleanup
<1>27. ASSUME NEW t \in Threads, FinalizeClosesPort(t) PROVE QueueLives'
  BY <1>i, <1>27, QueueKeptStep DEF FinalizeClosesPort, QueueKept, DestroysServer, InCleanup
<1>28. ASSUME NEW t \in Threads, Free(t) PROVE QueueLives'
  BY <1>i, <1>28, QueueKeptStep DEF Free, QueueKept, DestroysServer, InCleanup
<1>29. ASSUME NEW t \in Threads, Release(t) PROVE QueueLives'
  BY <1>i, <1>29, QueueKeptStep DEF Release, QueueKept, DestroysServer, InCleanup
<1>30. CASE UNCHANGED vars
  BY <1>i, <1>30, QueueKeptStep DEF QueueKept, DestroysServer, InCleanup
<1> QED
  BY PortCases,
     <1>1, <1>2, <1>3, <1>4, <1>5, <1>6, <1>7, <1>8, <1>9, <1>10, <1>11, <1>12, <1>13,
     <1>14, <1>15, <1>16, <1>17, <1>18, <1>19, <1>20, <1>21, <1>22, <1>23, <1>24, <1>25,
     <1>26, <1>27, <1>28, <1>29, <1>30 DEF PortAction

(* The state of the port and its handles. *)
PortTypeOK == portState \in {"Normal", "ClientClosed", "ServerClosed"} /\ handles \subseteq Ends

(* They keep their types. *)
LEMMA PortTypeStep == PortInv /\ [Next]_vars => PortTypeOK'
<1> SUFFICES ASSUME PortInv, [Next]_vars PROVE PortTypeOK'
  OBVIOUS
<1>i. PortTypeOK
  BY DEF PortInv, TypeOK, PortTypeOK, Ends
<1> USE DEF PortTypeOK, portVars, vars
<1>1. ASSUME NEW t \in Threads, ConnectToPort(t) PROVE PortTypeOK'
  BY <1>i, <1>1 DEF ConnectToPort
<1>2. ASSUME NEW t \in Threads, AcceptSession(t) PROVE PortTypeOK'
  BY <1>i, <1>2 DEF AcceptSession
<1>3. ASSUME NEW t \in Threads, NEW s \in Sessions, CloseClientSession(t, s) PROVE PortTypeOK'
  BY <1>i, <1>3 DEF CloseClientSession
<1>4. ASSUME NEW t \in Threads, NEW s \in Sessions, CloseServerSession(t, s) PROVE PortTypeOK'
  BY <1>i, <1>4 DEF CloseServerSession
<1>5. ASSUME NEW t \in Threads, NEW end \in Ends, Wait(t, end) PROVE PortTypeOK'
  BY <1>i, <1>5 DEF Wait
<1>6. ASSUME NEW t \in Threads, NEW end \in Ends, CloseHandle(t, end) PROVE PortTypeOK'
  BY <1>i, <1>6 DEF CloseHandle
<1>7. ASSUME NEW t \in Threads, Reserve(t) PROVE PortTypeOK'
  BY <1>i, <1>7 DEF Reserve
<1>8. ASSUME NEW t \in Threads, Create(t) PROVE PortTypeOK'
  BY <1>i, <1>8 DEF Create
<1>9. ASSUME NEW t \in Threads, LoadSessions(t) PROVE PortTypeOK'
  BY <1>i, <1>9 DEF LoadSessions
<1>10. ASSUME NEW t \in Threads, OutOfSessions(t) PROVE PortTypeOK'
  BY <1>i, <1>10 DEF OutOfSessions
<1>11. ASSUME NEW t \in Threads, CountSession(t) PROVE PortTypeOK'
  BY <1>i, <1>11 DEF CountSession
<1>12. ASSUME NEW t \in Threads, LoadPeak(t) PROVE PortTypeOK'
  BY <1>i, <1>12 DEF LoadPeak
<1>13. ASSUME NEW t \in Threads, UpdatePeak(t) PROVE PortTypeOK'
  BY <1>i, <1>13 DEF UpdatePeak
<1>14. ASSUME NEW t \in Threads, Initialize(t) PROVE PortTypeOK'
  BY <1>i, <1>14 DEF Initialize
<1>15. ASSUME NEW t \in Threads, EnqueueSession(t) PROVE PortTypeOK'
  BY <1>i, <1>15 DEF EnqueueSession
<1>16. ASSUME NEW t \in Threads, EnqueueRefused(t) PROVE PortTypeOK'
  BY <1>i, <1>16 DEF EnqueueRefused
<1>17. ASSUME NEW t \in Threads, RefusedClosesClient(t) PROVE PortTypeOK'
  BY <1>i, <1>17 DEF RefusedClosesClient
<1>18. ASSUME NEW t \in Threads, RefusedClosesServer(t) PROVE PortTypeOK'
  BY <1>i, <1>18 DEF RefusedClosesServer
<1>19. ASSUME NEW t \in Threads, NEW end \in Ends, Leave(t, end) PROVE PortTypeOK'
  BY <1>i, <1>19 DEF Leave
<1>20. ASSUME NEW t \in Threads, DestroyClientPort(t) PROVE PortTypeOK'
  BY <1>i, <1>20 DEF DestroyClientPort
<1>21. ASSUME NEW t \in Threads, OnServerClosed(t) PROVE PortTypeOK'
  BY <1>i, <1>21 DEF OnServerClosed
<1>22. ASSUME NEW t \in Threads, CleanupPop(t) PROVE PortTypeOK'
  BY <1>i, <1>22 DEF CleanupPop
<1>23. ASSUME NEW t \in Threads, CleanupClose(t) PROVE PortTypeOK'
  BY <1>i, <1>23 DEF CleanupClose
<1>24. ASSUME NEW t \in Threads, CleanupReturns(t) PROVE PortTypeOK'
  BY <1>i, <1>24 DEF CleanupReturns
<1>25. ASSUME NEW t \in Threads, OnSessionFinalized(t) PROVE PortTypeOK'
  BY <1>i, <1>25 DEF OnSessionFinalized
<1>26. ASSUME NEW t \in Threads, NotifyAvailable(t) PROVE PortTypeOK'
  BY <1>i, <1>26 DEF NotifyAvailable
<1>27. ASSUME NEW t \in Threads, FinalizeClosesPort(t) PROVE PortTypeOK'
  BY <1>i, <1>27 DEF FinalizeClosesPort
<1>28. ASSUME NEW t \in Threads, Free(t) PROVE PortTypeOK'
  BY <1>i, <1>28 DEF Free
<1>29. ASSUME NEW t \in Threads, Release(t) PROVE PortTypeOK'
  BY <1>i, <1>29 DEF Release
<1>30. CASE UNCHANGED vars
  BY <1>i, <1>30
<1> QED
  BY PortCases,
     <1>1, <1>2, <1>3, <1>4, <1>5, <1>6, <1>7, <1>8, <1>9, <1>10, <1>11, <1>12, <1>13,
     <1>14, <1>15, <1>16, <1>17, <1>18, <1>19, <1>20, <1>21, <1>22, <1>23, <1>24, <1>25,
     <1>26, <1>27, <1>28, <1>29, <1>30 DEF PortAction

-----------------------------------------------------------------------------
(* The sleepers, one by one. *)
Sleepers ==
    \A t \in Threads :
       /\ pc[t] = "server asleep" => queue = <<>>
       /\ pc[t] = "client asleep" => num = MaxSessions \/ \E u \in Threads : pc[u] = "notify"

(* A step that puts nobody to sleep and takes no reason away. *)
SleepKept ==
    /\ UNCHANGED num /\ (queue = <<>> => queue' = <<>>)
    /\ \A u \in Threads : /\ pc'[u] = "client asleep" => pc[u] = "client asleep"
                          /\ pc'[u] = "server asleep" => pc[u] = "server asleep"
                          /\ pc[u] = "notify" => pc'[u] = "notify"

(* This is the property. *)
LEMMA SleepersAre == SleepersHaveReason <=> Sleepers
  BY DEF SleepersHaveReason, Sleepers, At

(* Then every sleeper still has his reason. *)
LEMMA SleepKeptStep ==
    ASSUME Sleepers, SleepKept
    PROVE  Sleepers'
  BY DEF Sleepers, SleepKept

(* No step forgets a sleeper: who empties the queue or fills the port      *)
(* leaves its sleepers a reason, who takes the reason away wakes them.     *)
LEMMA SleepStep == PortInv /\ [Next]_vars => Sleepers'
<1> SUFFICES ASSUME PortInv, [Next]_vars PROVE Sleepers'
  OBVIOUS
<1>i. Sleepers
  BY SleepersAre DEF PortInv
<1>h. LockHeld
  BY DEF PortInv
<1>n. num \in Nat /\ MaxSessions \in Nat /\ num <= MaxSessions
  <2>1. num \in 0 .. MaxSessions
    BY DEF PortInv, TypeOK
  <2> QED
    BY ONLY <2>1, PortAssumption
<1>p. pc \in [Threads -> Places]
  BY DEF PortInv, LocalTypeOK
<1>l. back \in [Threads -> {"user", "client leave", "cleanup"}]
  BY DEF PortInv, LocalTypeOK
<1> USE <1>p, <1>l
    DEF portVars, countVars, ownVars, localVars, vars, Goto, Ends, AsleepOn, Leaving, Destroying
<1>1. ASSUME NEW t \in Threads, ConnectToPort(t) PROVE Sleepers'
  BY <1>i, <1>1, SleepKeptStep DEF ConnectToPort, SleepKept
<1>2. ASSUME NEW t \in Threads, AcceptSession(t) PROVE Sleepers'
  BY <1>i, <1>2, SleepKeptStep DEF AcceptSession, SleepKept
<1>3. ASSUME NEW t \in Threads, NEW s \in Sessions, CloseClientSession(t, s) PROVE Sleepers'
  BY <1>i, <1>3, SleepKeptStep DEF CloseClientSession, CloseSessionEnd, SleepKept
<1>4. ASSUME NEW t \in Threads, NEW s \in Sessions, CloseServerSession(t, s) PROVE Sleepers'
  BY <1>i, <1>4, SleepKeptStep DEF CloseServerSession, CloseSessionEnd, SleepKept
<1>5. ASSUME NEW t \in Threads, NEW end \in Ends, Wait(t, end) PROVE Sleepers'
  <2>1. /\ \A u \in Threads \ {t} : pc'[u] = pc[u]
        /\ UNCHANGED <<queue, num>> /\ pc[t] = "user"
    BY <1>5 DEF Wait
  <2>2. pc'[t] = "client asleep" => ~(num < MaxSessions)
    BY <1>5 DEF Wait
  <2>3. pc'[t] = "server asleep" => queue = <<>>
    BY <1>5 DEF Wait
  <2>4. ~(num < MaxSessions) => num = MaxSessions
    BY ONLY <1>n
  <2> QED
    BY <1>i, <2>1, <2>2, <2>3, <2>4 DEF Sleepers
<1>6. ASSUME NEW t \in Threads, NEW end \in Ends, CloseHandle(t, end) PROVE Sleepers'
  BY <1>i, <1>6, SleepKeptStep DEF CloseHandle, ClosePortEnd, SleepKept
<1>7. ASSUME NEW t \in Threads, Reserve(t) PROVE Sleepers'
  BY <1>i, <1>7, SleepKeptStep DEF Reserve, SleepKept
<1>8. ASSUME NEW t \in Threads, Create(t) PROVE Sleepers'
  BY <1>i, <1>8, SleepKeptStep DEF Create, SleepKept
<1>9. ASSUME NEW t \in Threads, LoadSessions(t) PROVE Sleepers'
  BY <1>i, <1>9, SleepKeptStep DEF LoadSessions, SleepKept
<1>10. ASSUME NEW t \in Threads, OutOfSessions(t) PROVE Sleepers'
  BY <1>i, <1>10, SleepKeptStep DEF OutOfSessions, SleepKept
<1>11. ASSUME NEW t \in Threads, CountSession(t) PROVE Sleepers'
  <2>1. CASE num = seen[t].old
    <3>0. num < MaxSessions
      BY <1>11, <2>1 DEF CountSession
    <3>1. num # MaxSessions
      BY ONLY <1>n, <3>0
    <3>2. pc[t] = "count" /\ pc' = [pc EXCEPT ![t] = "load peak"] /\ UNCHANGED queue
      BY <1>11, <2>1 DEF CountSession
    <3> QED
      BY <1>i, <3>1, <3>2 DEF Sleepers
  <2>2. CASE num # seen[t].old
    BY <1>i, <1>11, <2>2, SleepKeptStep DEF CountSession, SleepKept
  <2> QED
    BY <2>1, <2>2
<1>12. ASSUME NEW t \in Threads, LoadPeak(t) PROVE Sleepers'
  BY <1>i, <1>12, SleepKeptStep DEF LoadPeak, SleepKept
<1>13. ASSUME NEW t \in Threads, UpdatePeak(t) PROVE Sleepers'
  BY <1>i, <1>13, SleepKeptStep DEF UpdatePeak, SleepKept
<1>14. ASSUME NEW t \in Threads, Initialize(t) PROVE Sleepers'
  BY <1>i, <1>14, SleepKeptStep DEF Initialize, SleepKept
<1>15. ASSUME NEW t \in Threads, EnqueueSession(t) PROVE Sleepers'
  <2>1. /\ pc[t] = "enqueue" /\ UNCHANGED num
        /\ \A u \in Threads : /\ pc'[u] = "client asleep" => pc[u] = "client asleep"
                              /\ pc'[u] = "server asleep" => pc[u] = "server asleep"
                              /\ pc[u] = "notify" => pc'[u] = "notify"
    BY <1>15 DEF EnqueueSession, Woken
  <2>2. ASSUME NEW u \in Threads, pc'[u] = "server asleep" PROVE FALSE
    <3>1. queue = <<>>
      BY <1>i, <2>1, <2>2 DEF Sleepers
    <3> QED
      BY <1>15, <2>2, <3>1 DEF EnqueueSession, Woken
  <2> QED
    BY <1>i, <2>1, <2>2 DEF Sleepers
<1>16. ASSUME NEW t \in Threads, EnqueueRefused(t) PROVE Sleepers'
  BY <1>i, <1>16, SleepKeptStep DEF EnqueueRefused, SleepKept
<1>17. ASSUME NEW t \in Threads, RefusedClosesClient(t) PROVE Sleepers'
  BY <1>i, <1>17, SleepKeptStep DEF RefusedClosesClient, CloseSessionEnd, SleepKept
<1>18. ASSUME NEW t \in Threads, RefusedClosesServer(t) PROVE Sleepers'
  BY <1>i, <1>18, SleepKeptStep DEF RefusedClosesServer, CloseSessionEnd, SleepKept
<1>19. ASSUME NEW t \in Threads, NEW end \in Ends, Leave(t, end) PROVE Sleepers'
  BY <1>i, <1>19, SleepKeptStep DEF Leave, ClosePortEnd, SleepKept
<1>20. ASSUME NEW t \in Threads, DestroyClientPort(t) PROVE Sleepers'
  BY <1>i, <1>20, SleepKeptStep DEF DestroyClientPort, SleepKept
<1>21. ASSUME NEW t \in Threads, OnServerClosed(t) PROVE Sleepers'
  BY <1>i, <1>21, SleepKeptStep DEF OnServerClosed, SleepKept
<1>22. ASSUME NEW t \in Threads, CleanupPop(t) PROVE Sleepers'
  BY <1>i, <1>22, SleepKeptStep DEF CleanupPop, SleepKept
<1>23. ASSUME NEW t \in Threads, CleanupClose(t) PROVE Sleepers'
  BY <1>i, <1>23, SleepKeptStep DEF CleanupClose, CloseSessionEnd, SleepKept
<1>24. ASSUME NEW t \in Threads, CleanupReturns(t) PROVE Sleepers'
  BY <1>i, <1>24, SleepKeptStep DEF CleanupReturns, SleepKept
<1>25. ASSUME NEW t \in Threads, OnSessionFinalized(t) PROVE Sleepers'
  <2>1. \A u \in Threads : pc[u] # "notify"
    BY <1>h, <1>25, PortAssumption DEF OnSessionFinalized, Unlocked, LockHeld
  <2>2. pc[t] = "finalize" /\ UNCHANGED queue /\ \A u \in Threads \ {t} : pc'[u] = pc[u]
    BY <1>25 DEF OnSessionFinalized
  <2>3. CASE num = MaxSessions
    <3>1. pc'[t] = "notify"
      BY <1>25, <2>3 DEF OnSessionFinalized
    <3> QED
      BY <1>i, <2>2, <3>1 DEF Sleepers
  <2>4. CASE num # MaxSessions
    <3>1. \A u \in Threads : pc[u] # "client asleep"
      BY <1>i, <2>1, <2>4 DEF Sleepers
    <3>2. pc'[t] = "close port"
      BY <1>25, <2>4 DEF OnSessionFinalized
    <3> QED
      BY <1>i, <2>2, <3>1, <3>2 DEF Sleepers
  <2> QED
    BY <2>3, <2>4
<1>26. ASSUME NEW t \in Threads, NotifyAvailable(t) PROVE Sleepers'
  <2>1. /\ UNCHANGED <<queue, num>>
        /\ \A u \in Threads : /\ pc'[u] = "client asleep" => pc[u] = "client asleep"
                              /\ pc'[u] = "server asleep" => pc[u] = "server asleep"
    BY <1>26 DEF NotifyAvailable, Woken
  <2>2. num < MaxSessions => \A u \in Threads : pc'[u] # "client asleep"
    BY <1>26 DEF NotifyAvailable, Woken
  <2>3. ~(num < MaxSessions) => num = MaxSessions
    BY ONLY <1>n
  <2> QED
    BY <1>i, <2>1, <2>2, <2>3 DEF Sleepers
<1>27. ASSUME NEW t \in Threads, FinalizeClosesPort(t) PROVE Sleepers'
  BY <1>i, <1>27, SleepKeptStep DEF FinalizeClosesPort, SleepKept
<1>28. ASSUME NEW t \in Threads, Free(t) PROVE Sleepers'
  BY <1>i, <1>28, SleepKeptStep DEF Free, SleepKept
<1>29. ASSUME NEW t \in Threads, Release(t) PROVE Sleepers'
  BY <1>i, <1>29, SleepKeptStep DEF Release, SleepKept
<1>30. CASE UNCHANGED vars
  BY <1>i, <1>30, SleepKeptStep DEF SleepKept
<1> QED
  BY PortCases,
     <1>1, <1>2, <1>3, <1>4, <1>5, <1>6, <1>7, <1>8, <1>9, <1>10, <1>11, <1>12, <1>13,
     <1>14, <1>15, <1>16, <1>17, <1>18, <1>19, <1>20, <1>21, <1>22, <1>23, <1>24, <1>25,
     <1>26, <1>27, <1>28, <1>29, <1>30 DEF PortAction


(* The reference counts stay integers; that they are natural numbers       *)
(* follows from what they count.                                           *)
RefsTypeOK == refs \in [port : Int, client : Int, server : Int]

(* They do. *)
LEMMA RefsTypeStep == PortInv /\ [Next]_vars => RefsTypeOK'
<1> SUFFICES ASSUME PortInv, [Next]_vars PROVE RefsTypeOK'
  OBVIOUS
<1>i. RefsTypeOK
  BY DEF PortInv, TypeOK, RefsTypeOK
<1> USE DEF RefsTypeOK, portVars, vars, Ends
<1>1. ASSUME NEW t \in Threads, ConnectToPort(t) PROVE RefsTypeOK'
  BY <1>i, <1>1 DEF ConnectToPort
<1>2. ASSUME NEW t \in Threads, AcceptSession(t) PROVE RefsTypeOK'
  <2>1. refs' = [refs EXCEPT !.server = refs.server + 1]
    BY <1>2 DEF AcceptSession
  <2> QED
    BY ONLY <1>i, <2>1 DEF RefsTypeOK
<1>3. ASSUME NEW t \in Threads, NEW s \in Sessions, CloseClientSession(t, s) PROVE RefsTypeOK'
  BY <1>i, <1>3 DEF CloseClientSession
<1>4. ASSUME NEW t \in Threads, NEW s \in Sessions, CloseServerSession(t, s) PROVE RefsTypeOK'
  BY <1>i, <1>4 DEF CloseServerSession
<1>5. ASSUME NEW t \in Threads, NEW end \in Ends, Wait(t, end) PROVE RefsTypeOK'
  BY <1>i, <1>5 DEF Wait
<1>6. ASSUME NEW t \in Threads, NEW end \in Ends, CloseHandle(t, end) PROVE RefsTypeOK'
  BY <1>i, <1>6 DEF CloseHandle, ClosePortEnd
<1>7. ASSUME NEW t \in Threads, Reserve(t) PROVE RefsTypeOK'
  BY <1>i, <1>7 DEF Reserve
<1>8. ASSUME NEW t \in Threads, Create(t) PROVE RefsTypeOK'
  BY <1>i, <1>8 DEF Create
<1>9. ASSUME NEW t \in Threads, LoadSessions(t) PROVE RefsTypeOK'
  BY <1>i, <1>9 DEF LoadSessions
<1>10. ASSUME NEW t \in Threads, OutOfSessions(t) PROVE RefsTypeOK'
  BY <1>i, <1>10 DEF OutOfSessions
<1>11. ASSUME NEW t \in Threads, CountSession(t) PROVE RefsTypeOK'
  BY <1>i, <1>11 DEF CountSession
<1>12. ASSUME NEW t \in Threads, LoadPeak(t) PROVE RefsTypeOK'
  BY <1>i, <1>12 DEF LoadPeak
<1>13. ASSUME NEW t \in Threads, UpdatePeak(t) PROVE RefsTypeOK'
  BY <1>i, <1>13 DEF UpdatePeak
<1>14. ASSUME NEW t \in Threads, Initialize(t) PROVE RefsTypeOK'
  BY <1>i, <1>14 DEF Initialize
<1>15. ASSUME NEW t \in Threads, EnqueueSession(t) PROVE RefsTypeOK'
  BY <1>i, <1>15 DEF EnqueueSession
<1>16. ASSUME NEW t \in Threads, EnqueueRefused(t) PROVE RefsTypeOK'
  BY <1>i, <1>16 DEF EnqueueRefused
<1>17. ASSUME NEW t \in Threads, RefusedClosesClient(t) PROVE RefsTypeOK'
  BY <1>i, <1>17 DEF RefusedClosesClient
<1>18. ASSUME NEW t \in Threads, RefusedClosesServer(t) PROVE RefsTypeOK'
  BY <1>i, <1>18 DEF RefusedClosesServer
<1>19. ASSUME NEW t \in Threads, NEW end \in Ends, Leave(t, end) PROVE RefsTypeOK'
  BY <1>i, <1>19 DEF Leave, ClosePortEnd
<1>20. ASSUME NEW t \in Threads, DestroyClientPort(t) PROVE RefsTypeOK'
  <2>1. refs' = [refs EXCEPT !.port = refs.port - 1]
    BY <1>20 DEF DestroyClientPort
  <2> QED
    BY ONLY <1>i, <2>1 DEF RefsTypeOK
<1>21. ASSUME NEW t \in Threads, OnServerClosed(t) PROVE RefsTypeOK'
  BY <1>i, <1>21 DEF OnServerClosed
<1>22. ASSUME NEW t \in Threads, CleanupPop(t) PROVE RefsTypeOK'
  BY <1>i, <1>22 DEF CleanupPop
<1>23. ASSUME NEW t \in Threads, CleanupClose(t) PROVE RefsTypeOK'
  BY <1>i, <1>23 DEF CleanupClose
<1>24. ASSUME NEW t \in Threads, CleanupReturns(t) PROVE RefsTypeOK'
  BY <1>i, <1>24 DEF CleanupReturns
<1>25. ASSUME NEW t \in Threads, OnSessionFinalized(t) PROVE RefsTypeOK'
  BY <1>i, <1>25 DEF OnSessionFinalized
<1>26. ASSUME NEW t \in Threads, NotifyAvailable(t) PROVE RefsTypeOK'
  BY <1>i, <1>26 DEF NotifyAvailable
<1>27. ASSUME NEW t \in Threads, FinalizeClosesPort(t) PROVE RefsTypeOK'
  <2>1. PICK r : r = [refs EXCEPT !.client = refs.client - 1]
    OBVIOUS
  <2>2. r \in [port : Int, client : Int, server : Int] /\ r.port = refs.port
    BY <1>i, <2>1
  <2>3. refs' = [r EXCEPT !.port = r.port - 1] \/ refs' = [r EXCEPT !.port = r.port]
    BY <1>27, <2>1, <2>2 DEF FinalizeClosesPort
  <2> QED
    BY ONLY <2>2, <2>3 DEF RefsTypeOK
<1>28. ASSUME NEW t \in Threads, Free(t) PROVE RefsTypeOK'
  BY <1>i, <1>28 DEF Free
<1>29. ASSUME NEW t \in Threads, Release(t) PROVE RefsTypeOK'
  BY <1>i, <1>29 DEF Release
<1>30. CASE UNCHANGED vars
  BY <1>i, <1>30
<1> QED
  BY PortCases,
     <1>1, <1>2, <1>3, <1>4, <1>5, <1>6, <1>7, <1>8, <1>9, <1>10, <1>11, <1>12, <1>13,
     <1>14, <1>15, <1>16, <1>17, <1>18, <1>19, <1>20, <1>21, <1>22, <1>23, <1>24, <1>25,
     <1>26, <1>27, <1>28, <1>29, <1>30 DEF PortAction

-----------------------------------------------------------------------------
(* The inductive invariant. *)
LEMMA PortInit == Init => PortInv
<1> SUFFICES ASSUME Init PROVE PortInv
  OBVIOUS
<1>e. IsFiniteSet({}) /\ Cardinality({}) = 0
  BY FS_EmptySet
<1>q. queue = <<>> /\ ToSet(queue) = {} /\ IsInjective(queue) /\ queue \in Seq(Sessions)
  BY DEF Init, ToSet, IsInjective
<1>p. \A t \in Threads : pc[t] = "user" /\ back[t] = "user"
  BY DEF Init
<1>s. \A s \in Sessions : session[s] = FreeObject /\ session[s].stage = "free"
  BY DEF Init, FreeObject
<1>r. refs["port"] = 2 /\ refs["client"] = 1 /\ refs["server"] = 1
  BY DEF Init
<1>1. TypeOK
  BY <1>q, PortAssumption DEF Init, TypeOK, FreeObject, NoSession
<1>2. LocalTypeOK /\ LockHeld
  BY PortAssumption DEF Init, LocalTypeOK, LockHeld, Places
<1>3. \A t \in Threads : ~Using(t)
  BY <1>p DEF Using, Building, Finalizing
<1>4. SessionsInHand /\ OneUser
  BY <1>3 DEF SessionsInHand, OneUser
<1>5. SessionsHanded /\ QueueInjective
  BY <1>q DEF Init, SessionsHanded, ServerHas, QueueInjective
<1>6. SessionsCounted
  <2>1. Counted = {} /\ Counting = {}
    BY <1>s, <1>p DEF Counted, Counting, Live, At
  <2>2. Cardinality(Counted) = 0 /\ Cardinality(Counting) = 0
    BY <1>e, <2>1
  <2>3. num = 0
    BY DEF Init
  <2>4. num = Cardinality(Counted) + Cardinality(Counting)
    BY ONLY <2>2, <2>3
  <2> QED
    BY ONLY <2>4 DEF SessionsCounted, Counted, Counting
<1>7. PeakInv
  BY <1>p DEF Init, PeakInv
<1>8. ReservationsExact
  <2>1. Allocated = {} /\ At({"create", "release"}) = {} /\ reserved = 0
    BY <1>s, <1>p DEF Allocated, At, Init
  <2> QED
    BY <1>e, <2>1 DEF ReservationsExact
<1>9. ClientRefs
  <2>1. {t \in Threads : InClientCall(t)} = {}
    BY <1>p DEF InClientCall, Calling, Building, Closing, Finalizing
  <2>2. {s \in Sessions : Open(s)} = {}
    BY <1>s DEF Open
  <2>3. HandleOf("client") = 1
    BY DEF Init, HandleOf
  <2> QED
    BY <1>e, <1>r, <2>1, <2>2, <2>3 DEF ClientRefs
<1>10. ServerRefs
  <2>1. {t \in Threads : pc[t] \in ServerCalling} = {}
    BY <1>p DEF ServerCalling
  <2>2. HandleOf("server") = 1
    BY DEF Init, HandleOf
  <2> QED
    BY <1>e, <1>r, <2>1, <2>2 DEF ServerRefs
<1>11. \A t \in Threads : ~DestroysClient(t) /\ ~DestroysServer(t)
  BY <1>p DEF DestroysClient, DestroysServer, InCleanup, Cleaning, Closing, Finalizing
<1>12. OneDestroyer
  BY <1>11 DEF OneDestroyer
<1>13. ClientLives /\ ServerLives
  BY <1>r DEF ClientLives, ServerLives
<1>14. PortRefs
  BY <1>r, <1>13 DEF PortRefs
<1>15. QueueLives
  BY <1>r, <1>13 DEF QueueLives
<1>16. SleepersHaveReason
  BY <1>p, SleepersAre DEF Sleepers
<1> QED
  BY <1>1, <1>2, <1>4, <1>5, <1>6, <1>7, <1>8, <1>9, <1>10, <1>12, <1>14, <1>15, <1>16 DEF PortInv

(* Every step preserves the invariant, part by part. *)
LEMMA PortStep == PortInv /\ [Next]_vars => PortInv'
<1> SUFFICES ASSUME PortInv, [Next]_vars PROVE PortInv'
  OBVIOUS
<1>1. LocalInv'
  BY LocalTypeStep
<1>2. HandsInv'
  BY HandsStep
<1>3. ReservedInv'
  BY ReservedStep
<1>4. CountInv'
  BY CountStep
<1>5. PeakAll'
  BY PeakStep
<1>6. ClientInv' /\ ServerInv'
  BY ClientRefsStep, ServerRefsStep
<1>7. EndsInv'
  BY EndsStep
<1>8. QueueLives'
  BY QueueStep
<1>9. SleepersHaveReason'
  <2>1. Sleepers'
    BY SleepStep
  <2>2. (SleepersHaveReason <=> Sleepers)'
    BY SleepersAre, PTL
  <2> QED
    BY <2>1, <2>2
<1>10. refs' \in [port : Nat, client : Nat, server : Nat]
  <2>1. refs' \in [port : Int, client : Int, server : Int]
    BY RefsTypeStep DEF RefsTypeOK
  <2>2. refs'["client"] \in Nat /\ refs'["server"] \in Nat
    BY <1>6 DEF ClientInv, ServerInv
  <2>3. PortRefs'
    BY <1>7 DEF EndsInv
  <2>4. refs'["port"] \in Nat
    BY ONLY <2>3 DEF PortRefs
  <2> QED
    BY <2>1, <2>2, <2>4
<1>11. PortTypeOK'
  BY PortTypeStep
<1>12. TypeOK'
  BY <1>1, <1>2, <1>3, <1>4, <1>5, <1>10, <1>11
     DEF TypeOK, LocalInv, HandsInv, SessionTypeOK, ReservedInv, CountInv, PeakAll, PortTypeOK,
     Ends
<1>13. SessionsCounted'
  BY <1>4 DEF CountInv, SessionsCounted, Counted, Counting
<1>14. ReservationsExact'
  BY <1>3 DEF ReservedInv, ReservationsExact, Reservers
<1>15. ClientRefs' /\ ServerRefs'
  BY <1>6 DEF ClientInv, ServerInv, ClientRefs, ServerRefs, Callers, OpenSessions, InServerCall
<1> QED
  BY <1>1, <1>2, <1>5, <1>7, <1>8, <1>9, <1>12, <1>13, <1>14, <1>15
     DEF PortInv, LocalInv, HandsInv, PeakAll, EndsInv

(* PortInv is an invariant of the port, for any number of clients and      *)
(* servers, any limit and any slab.                                        *)
THEOREM PortInvariant == Spec => []PortInv
<1>1. PortInv /\ UNCHANGED vars => PortInv'
  BY PortStep
<1> QED
  BY PortInit, PortStep, PTL DEF Spec

-----------------------------------------------------------------------------
(* What follows from it. *)
LEMMA PortReferred ==
    ASSUME PortInv
    PROVE  /\ "client" \in handles => refs["client"] > 0
           /\ \A t \in Threads : InClientCall(t) => refs["client"] > 0
           /\ \A s \in Sessions : Open(s) => refs["client"] > 0
           /\ "server" \in handles => refs["server"] > 0
           /\ \A t \in Threads : pc[t] \in ServerCalling => refs["server"] > 0
<1>1. refs \in [port : Nat, client : Nat, server : Nat]
  BY DEF PortInv, TypeOK
<1>2. ClientInv /\ ServerInv
  BY <1>1 DEF PortInv, ClientRefs, ClientInv, Callers, OpenSessions, ServerRefs, ServerInv,
              InServerCall
<1> QED
  BY <1>2, Referred

(* m_num_sessions counts the open sessions, whichever way the lock-free    *)
(* increment of CreateSession and the locked decrement of                  *)
(* OnSessionFinalized interleave, never exceeds m_max_sessions, and        *)
(* m_peak_sessions covers it.                                              *)
THEOREM PortCountersExact == Spec => []CountersExact
<1>1. PortInv => CountersExact
  <2> SUFFICES ASSUME PortInv PROVE CountersExact
    OBVIOUS
  <2>1. TypeOK /\ SessionsCounted /\ PeakInv
    BY DEF PortInv
  <2>2. PeakCoversCount
    BY <2>1 DEF PeakInv, PeakCoversCount, At
  <2> QED
    BY <2>1, <2>2 DEF CountersExact
<1> QED
  BY <1>1, PortInvariant, PTL

(* The session resource in use is what sessions and calls account for,     *)
(* whichever way a call of CreateSession fails.                            *)
THEOREM PortReservationsExact == Spec => []ReservationsExact
<1>1. PortInv => ReservationsExact
  BY DEF PortInv
<1> QED
  BY <1>1, PortInvariant, PTL

(* EnqueueSession never leaves a session in the queue of a server port     *)
(* whose CleanupSessions has already run: whoever still finds the port     *)
(* Normal is followed by the cleanup.                                      *)
THEOREM PortNoStrandedSession == Spec => []NoStrandedSession
<1>1. PortInv => NoStrandedSession
  <2> SUFFICES ASSUME PortInv, queue # <<>>
               PROVE  \/ refs.server > 0 \/ At({"server destroy", "cleanup", "cleanup close"}) # {}
                      \/ \E t \in Threads : back[t] = "cleanup"
    BY DEF NoStrandedSession
  <2>1. ServerLives
    BY DEF PortInv, QueueLives
  <2>2. CASE refs["server"] > 0
    BY <2>2
  <2>3. ASSUME NEW t \in Threads, DestroysServer(t)
        PROVE  \/ At({"server destroy", "cleanup", "cleanup close"}) # {}
               \/ \E u \in Threads : back[u] = "cleanup"
    BY <2>3 DEF DestroysServer, InCleanup, Cleaning, At
  <2> QED
    BY <2>1, <2>2, <2>3 DEF ServerLives
<1> QED
  BY <1>1, PortInvariant, PTL

(* No sleeper is forgotten: a server never sleeps on a queue with sessions *)
(* and a client never on a port with a free place, unless the thread that  *)
(* freed it is about to notify.                                            *)
THEOREM PortSleepersHaveReason == Spec => []SleepersHaveReason
<1>1. PortInv => SleepersHaveReason
  BY DEF PortInv
<1> QED
  BY <1>1, PortInvariant, PTL

(* The KPort is destroyed only when neither a call nor an open session can *)
(* use it: a thread that holds a session to finalize holds, through that   *)
(* session, a reference to the client end, and so to the port.             *)
THEOREM PortOutlivesItsUse == Spec => []PortOutlivesUse
<1>1. PortInv => PortOutlivesUse
  <2> SUFFICES ASSUME PortInv, ~(refs["port"] > 0)
               PROVE  /\ At({"user", "free", "release"}) = Threads
                      /\ \A s \in Live : session[s].ref = 0
    BY DEF PortOutlivesUse
  <2>1. refs \in [port : Nat, client : Nat, server : Nat]
    BY DEF PortInv, TypeOK
  <2>2. PortRefs
    BY DEF PortInv
  <2>3. ~ClientLives /\ ~ServerLives
    BY <2>1, <2>2 DEF PortRefs
  <2>4. ~(refs["client"] > 0) /\ \A t \in Threads : ~DestroysClient(t)
    BY <2>3 DEF ClientLives
  <2>5. ~(refs["server"] > 0) /\ \A t \in Threads : ~DestroysServer(t)
    BY <2>3 DEF ServerLives
  <2>6. /\ \A t \in Threads : ~InClientCall(t) /\ pc[t] \notin ServerCalling
        /\ \A s \in Sessions : ~Open(s)
    BY <2>4, <2>5, PortReferred
  <2>7. \A u \in Threads : Using(u) => InHand(u)
    BY DEF PortInv, SessionsInHand
  <2>8. \A u, v \in Threads : Using(u) /\ Using(v) /\ arg[u] = arg[v] => u = v
    BY DEF PortInv, OneUser
  <2>9. ASSUME NEW t \in Threads, pc[t] \in Finalizing PROVE FALSE
    <3>1. Using(t) /\ pc[t] # "free"
      BY <2>9 DEF Using, Finalizing
    <3>2. arg[t] \in Sessions /\ session[arg[t]] = Object(0)
      BY <2>7, <2>9, <3>1 DEF InHand
    <3>3. ~Freeing(arg[t])
      BY <2>8, <3>1 DEF Freeing, Using
    <3>4. Open(arg[t])
      BY <3>2, <3>3, Stages DEF Open
    <3> QED
      BY <2>6, <3>2, <3>4
  <2>10. ASSUME NEW t \in Threads PROVE pc[t] \in {"user", "free", "release"}
    <3>1. pc[t] \in Places
      BY DEF PortInv, LocalTypeOK
    <3>2. pc[t] \notin Calling /\ pc[t] \notin ServerCalling
      BY <2>6 DEF InClientCall
    <3>3. pc[t] # "client destroy" /\ pc[t] # "server destroy" /\ pc[t] \notin Cleaning
      BY <2>4, <2>5 DEF DestroysClient, DestroysServer, InCleanup
    <3> QED
      BY <2>9, <3>1, <3>2, <3>3 DEF Places, Closing
  <2>11. ASSUME NEW s \in Live PROVE session[s].ref = 0
    <3>1. s \in Sessions /\ session[s].stage = "live"
      BY DEF Live
    <3>2. PICK t \in Threads : pc[t] = "free" /\ arg[t] = s
      BY <2>6, <3>1 DEF Open, Freeing
    <3>3. session[s] \in {NewObject, Object(0)}
      BY <2>7, <3>2 DEF Using, InHand
    <3>4. session[s] = Object(0)
      BY <3>1, <3>3, Stages
    <3> QED
      BY ONLY <3>4 DEF Object
  <2> QED
    BY <2>10, <2>11 DEF At
<1> QED
  BY <1>1, PortInvariant, PTL

=============================================================================

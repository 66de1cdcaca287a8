------------------------ MODULE KResourceLimitProofs ------------------------
(***************************************************************************)
(* Proofs about KResourceLimit, for every number of threads, every limit   *)
(* and every width of the integers: the values are exact, no release is    *)
(* missed by a waiting reservation, and a budget is implemented.           *)
(***************************************************************************)
EXTENDS KResourceLimit, FiniteSetTheorems, SequenceTheorems, TLAPS

(* The total of the amounts of the threads. *)
LEMMA UnitsUnfold ==
    ASSUME NEW f \in [Threads -> Nat], NEW t \in Threads
    PROVE  /\ Units(f) = (UNION {{u} \X (1 .. f[u]) : u \in Threads \ {t}})
                         \cup ({t} \X (1 .. f[t]))
           /\ (UNION {{u} \X (1 .. f[u]) : u \in Threads \ {t}}) \cap ({t} \X (1 .. f[t])) = {}
<1> DEFINE rest == UNION {{u} \X (1 .. f[u]) : u \in Threads \ {t}}
<1>1. ASSUME NEW x PROVE x \in Units(f) <=> \E u \in Threads : x \in {u} \X (1 .. f[u])
  BY DEF Units
<1>2. ASSUME NEW x PROVE x \in rest <=> \E u \in Threads \ {t} : x \in {u} \X (1 .. f[u])
  OBVIOUS
<1> HIDE DEF rest
<1>3. \A x : x \in Units(f) <=> x \in rest \cup ({t} \X (1 .. f[t]))
  BY <1>1, <1>2, Zenon
<1>4. ASSUME NEW x, x \in rest, x \in {t} \X (1 .. f[t]) PROVE FALSE
  <2>1. PICK u \in Threads \ {t} : x \in {u} \X (1 .. f[u])
    BY <1>2, <1>4
  <2> QED
    BY <1>4, <2>1
<1> QED
  BY <1>3, <1>4 DEF rest

(* A column of units has as many elements as its amount. *)
LEMMA ColumnSize ==
    ASSUME NEW t, NEW n \in Nat
    PROVE  IsFiniteSet({t} \X (1 .. n)) /\ Cardinality({t} \X (1 .. n)) = n
<1>1. IsFiniteSet({t}) /\ Cardinality({t}) = 1
  BY FS_Singleton
<1>2. IsFiniteSet(1 .. n) /\ Cardinality(1 .. n) = n
  BY FS_Interval
<1>3. /\ IsFiniteSet({t} \X (1 .. n))
      /\ Cardinality({t} \X (1 .. n)) = Cardinality({t}) * Cardinality(1 .. n)
  BY <1>1, <1>2, FS_Product
<1>4. 1 * n = n
  OBVIOUS
<1> QED
  BY <1>1, <1>2, <1>3, <1>4

(* The units of finitely many threads are finitely many. *)
LEMMA UnitsFinite ==
    ASSUME NEW f \in [Threads -> Nat]
    PROVE  IsFiniteSet(Units(f)) /\ Total(f) \in Nat
<1> DEFINE column == [t \in Threads |-> {t} \X (1 .. f[t])]
           columns == {column[t] : t \in Threads}
<1>1. column \in Surjection(Threads, columns)
  BY DEF Surjection
<1>2. IsFiniteSet(columns)
  BY <1>1, FS_Surjection, LimitAssumption
<1>3. ASSUME NEW t \in Threads PROVE IsFiniteSet(column[t])
  BY ColumnSize
<1>4. Units(f) = UNION columns
  BY DEF Units
<1>5. \A c \in columns : IsFiniteSet(c)
  BY <1>3
<1> HIDE DEF columns
<1>6. IsFiniteSet(Units(f))
  BY <1>2, <1>4, <1>5, FS_UNION
<1> QED
  BY <1>6, FS_CardinalityType DEF Total

(* What one thread gets or gives changes the total by as much. *)
LEMMA TotalChange ==
    ASSUME NEW f \in [Threads -> Nat], NEW g \in [Threads -> Nat], NEW t \in Threads,
           \A u \in Threads \ {t} : g[u] = f[u]
    PROVE  Total(g) = Total(f) + g[t] - f[t]
<1> DEFINE rest == UNION {{u} \X (1 .. f[u]) : u \in Threads \ {t}}
<1>1. UNION {{u} \X (1 .. g[u]) : u \in Threads \ {t}} = rest
  <2>1. {{u} \X (1 .. g[u]) : u \in Threads \ {t}} = {{u} \X (1 .. f[u]) : u \in Threads \ {t}}
    OBVIOUS
  <2> QED
    BY <2>1
<1>2. /\ Units(f) = rest \cup ({t} \X (1 .. f[t])) /\ rest \cap ({t} \X (1 .. f[t])) = {}
      /\ Units(g) = rest \cup ({t} \X (1 .. g[t])) /\ rest \cap ({t} \X (1 .. g[t])) = {}
  BY <1>1, UnitsUnfold
<1>3. IsFiniteSet(rest)
  BY <1>2, UnitsFinite, FS_Subset
<1>4. \A n \in Nat : IsFiniteSet({t} \X (1 .. n)) /\ Cardinality({t} \X (1 .. n)) = n
  BY ColumnSize
<1>5. Cardinality({}) = 0 /\ Cardinality(rest) \in Nat
  BY <1>3, FS_EmptySet, FS_CardinalityType
<1> HIDE DEF rest
<1>6. ASSUME NEW n \in Nat, rest \cap ({t} \X (1 .. n)) = {}
      PROVE  Cardinality(rest \cup ({t} \X (1 .. n))) = Cardinality(rest) + n
  <2> DEFINE col == {t} \X (1 .. n)
  <2>1. IsFiniteSet(col) /\ Cardinality(col) = n /\ rest \cap col = {}
    BY <1>4, <1>6
  <2> HIDE DEF col
  <2>2. Cardinality(rest \cup col) = Cardinality(rest) + n - 0
    BY <1>3, <1>5, <2>1, FS_Union
  <2> QED
    BY <1>5, <2>2 DEF col
<1>7. Total(f) = Cardinality(rest) + f[t] /\ Total(g) = Cardinality(rest) + g[t]
  BY <1>2, <1>6 DEF Total
<1> QED
  BY <1>5, <1>7

(* Larger amounts have a larger total. *)
LEMMA TotalMonotone ==
    ASSUME NEW f \in [Threads -> Nat], NEW g \in [Threads -> Nat],
           \A u \in Threads : f[u] <= g[u]
    PROVE  Total(f) <= Total(g)
<1>1. Units(f) \subseteq Units(g)
  <2>1. ASSUME NEW u \in Threads PROVE {u} \X (1 .. f[u]) \subseteq {u} \X (1 .. g[u])
    <3>1. 1 .. f[u] \subseteq 1 .. g[u]
      OBVIOUS
    <3> QED
      BY <3>1
  <2> QED
    BY <2>1 DEF Units
<1> QED
  BY <1>1, UnitsFinite, FS_Subset DEF Total

(* The total covers the amount of each thread. *)
LEMMA TotalCovers ==
    ASSUME NEW f \in [Threads -> Nat], NEW t \in Threads
    PROVE  f[t] <= Total(f)
<1> DEFINE col == {t} \X (1 .. f[t])
<1>1. col \subseteq Units(f)
  BY DEF Units
<1>2. Cardinality(col) = f[t]
  BY ColumnSize
<1> HIDE DEF col
<1>3. Cardinality(col) <= Cardinality(Units(f))
  BY <1>1, UnitsFinite, FS_Subset
<1> QED
  BY <1>2, <1>3 DEF Total

(* The total of nothing is zero. *)
LEMMA TotalZero ==
    ASSUME NEW f \in [Threads -> Nat], \A t \in Threads : f[t] = 0
    PROVE  Total(f) = 0
<1>1. Units(f) = {}
  BY DEF Units
<1> QED
  BY <1>1, FS_EmptySet DEF Total

-----------------------------------------------------------------------------
(* Taking a thread out of a list it is in at most once. *)
LEMMA RemoveNode ==
    ASSUME NEW S, NEW s \in Seq(S), IsInjective(s), NEW e
    PROVE  /\ RemoveFirst(s, e) \in Seq(S)
           /\ IsInjective(RemoveFirst(s, e))
           /\ ToSet(RemoveFirst(s, e)) = ToSet(s) \ {e}
<1>1. CASE ~ \E i \in 1 .. Len(s) : s[i] = e
  BY <1>1 DEF RemoveFirst, ToSet
<1>2. CASE \E i \in 1 .. Len(s) : s[i] = e
  <2> DEFINE I == {i \in 1 .. Len(s) : s[i] = e}
             n == Len(s)
  <2>1. PICK i \in 1 .. n : s[i] = e
    BY <1>2
  <2>2. I = {i}
    BY <2>1 DEF IsInjective
  <2>3. Min(I) = i
    BY <2>2 DEF Min
  <2>4. RemoveFirst(s, e) = RemoveAt(s, i)
    BY <1>2, <2>2, <2>3 DEF RemoveFirst, SelectInSeq
  <2> DEFINE a == SubSeq(s, 1, i - 1)
             b == SubSeq(s, i + 1, n)
             r == RemoveAt(s, i)
  <2>5. /\ a \in Seq(S) /\ Len(a) = i - 1
        /\ \A j \in 1 .. i - 1 : a[j] = s[j]
    BY SubSeqProperties, ElementOfSeq
  <2>6. /\ b \in Seq(S) /\ Len(b) = n - i
        /\ \A j \in 1 .. n - i : b[j] = s[i + j]
    <3>1. \A j \in i + 1 .. n : s[j] \in S
      OBVIOUS
    <3> QED
      BY <3>1, SubSeqProperties
  <2>7. r = a \o b
    BY DEF RemoveAt
  <2>8. n \in Nat /\ DOMAIN s = 1 .. n
    BY LenProperties
  <2> HIDE DEF a, b, r, I, n
  <2>10. /\ r \in Seq(S) /\ Len(r) = Len(a) + Len(b)
         /\ \A j \in 1 .. Len(a) + Len(b) : r[j] = IF j <= Len(a) THEN a[j] ELSE b[j - Len(a)]
    BY <2>5, <2>6, <2>7, ConcatProperties
  <2>11. Len(a) + Len(b) = n - 1
    BY <2>5, <2>6, <2>8
  <2>12. ASSUME NEW j \in 1 .. n - 1 PROVE r[j] = IF j < i THEN s[j] ELSE s[j + 1]
    <3>1. r[j] = IF j <= i - 1 THEN a[j] ELSE b[j - (i - 1)]
      BY <2>5, <2>10, <2>11
    <3>2. CASE j < i
      BY <3>1, <3>2, <2>5
    <3>3. CASE j >= i
      <4>1. j - (i - 1) \in 1 .. n - i /\ i + (j - (i - 1)) = j + 1
        BY <3>3, <2>8
      <4>2. b[j - (i - 1)] = s[i + (j - (i - 1))]
        BY <4>1, <2>6
      <4> QED
        BY <3>1, <3>3, <4>1, <4>2
    <3> QED
      BY <3>2, <3>3, <2>8
  <2>13. DOMAIN r = 1 .. n - 1
    BY <2>10, <2>11, LenProperties
  <2>14. IsInjective(r)
    <3> SUFFICES ASSUME NEW j \in 1 .. n - 1, NEW k \in 1 .. n - 1, r[j] = r[k]
                 PROVE  j = k
      BY <2>13 DEF IsInjective
    <3> DEFINE jj == IF j < i THEN j ELSE j + 1
               kk == IF k < i THEN k ELSE k + 1
    <3>1. jj \in 1 .. n /\ kk \in 1 .. n /\ s[jj] = s[kk]
      BY <2>12, <2>8
    <3>2. jj = kk
      BY <3>1, <2>8 DEF IsInjective
    <3> QED
      BY <3>2, <2>8
  <2>15. ToSet(r) = ToSet(s) \ {e}
    <3>1. ASSUME NEW j \in 1 .. n - 1 PROVE r[j] \in ToSet(s) \ {e}
      <4> DEFINE jj == IF j < i THEN j ELSE j + 1
      <4>1. jj \in 1 .. n /\ jj # i /\ r[j] = s[jj]
        BY <2>8, <2>12
      <4> HIDE DEF jj
      <4> QED
        BY <4>1, <2>1, <2>8 DEF IsInjective, ToSet
    <3>2. ASSUME NEW j \in 1 .. n, s[j] # e PROVE s[j] \in ToSet(r)
      <4> DEFINE jj == IF j < i THEN j ELSE j - 1
      <4>1. jj \in 1 .. n - 1 /\ r[jj] = s[j]
        BY <2>1, <2>8, <2>12, <3>2
      <4> HIDE DEF jj
      <4> QED
        BY <4>1, <2>13 DEF ToSet
    <3> QED
      BY <3>1, <3>2, <2>8, <2>13 DEF ToSet
  <2> QED
    BY <2>4, <2>10, <2>14, <2>15 DEF r
<1> QED
  BY <1>1, <1>2

(* What Append adds to the list. *)
LEMMA AppendNode ==
    ASSUME NEW S, NEW s \in Seq(S), IsInjective(s), NEW e \in S, e \notin ToSet(s)
    PROVE  /\ Append(s, e) \in Seq(S)
           /\ IsInjective(Append(s, e))
           /\ ToSet(Append(s, e)) = ToSet(s) \cup {e}
<1> DEFINE n == Len(s)
           r == Append(s, e)
<1>1. /\ r \in Seq(S) /\ Len(r) = n + 1
      /\ \A j \in 1 .. n : r[j] = s[j]
      /\ r[n + 1] = e
  BY AppendProperties
<1> HIDE DEF r
<1>2. IsInjective(r)
  BY <1>1 DEF IsInjective, ToSet
<1>3. ToSet(r) = ToSet(s) \cup {e}
  <2>1. \A j \in 1 .. n : r[j] \in ToSet(s) /\ s[j] \in ToSet(r)
    BY <1>1 DEF ToSet
  <2>2. e \in ToSet(r)
    BY <1>1 DEF ToSet
  <2> QED
    BY SMTT(30), <1>1, <2>1, <2>2 DEF ToSet
<1> QED
  BY <1>1, <1>2, <1>3 DEF r

-----------------------------------------------------------------------------
(* What TypeOK leaves out. *)
Holding == {"first check", "loop", "releasing", "broadcast"}
Waiting == {"unlocked", "asleep", "relock"}
Reserving == {"reserve", "first check", "loop"} \cup Waiting

Calls == [value : 0 .. IntMax, hint : 0 .. IntMax, deadline : 0 .. MaxTime, limit : 0 .. IntMax]
LocalTypeOK ==
    /\ pc \in [Threads -> {"user", "release"} \cup Holding \cup Reserving]
    /\ arg \in [Threads -> Calls]

(* Who is inside the locks is who they say holds them. *)
LocksHeld ==
    \A t \in Threads : /\ pc[t] \in Holding <=> mlock = t
                       /\ pc[t] = "unlocked" <=> slock = t

(* A reservation is for something, and what an owner announced, he has or  *)
(* is about to release.                                                    *)
AmountsMatch ==
    \A t \in Threads : /\ pc[t] \in Reserving => arg[t].value > 0
                       /\ announced[t] <= own[t]
                       /\ Pending(t) => arg[t].hint <= announced[t] + arg[t].value

(* SleeperDoesNotFit from the moment the wait gives up m_lock. *)
WaiterDoesNotFit ==
    \A t \in Threads : pc[t] \in {"unlocked", "asleep"} =>
       \/ current + arg[t].value > arg[t].limit
       \/ \E u \in Threads : pc[u] = "broadcast"

(* The inductive invariant. *)
LimitInv == /\ TypeOK
            /\ LocalTypeOK
            /\ LocksHeld
            /\ AmountsMatch
            /\ WaitersListed
            /\ WaiterDoesNotFit
            /\ ValuesAccountedFor

-----------------------------------------------------------------------------
(* The arguments of a call. *)
LEMMA CallTypes ==
    /\ NoCall \in Calls
    /\ \A v, h \in 0 .. IntMax, d \in 0 .. MaxTime :
          /\ [NoCall EXCEPT !.value = v, !.deadline = d] \in Calls
          /\ [NoCall EXCEPT !.value = v, !.hint = h] \in Calls
    /\ \A c \in Calls, l \in 0 .. IntMax : [c EXCEPT !.limit = l] \in Calls
<1>0. 0 \in 0 .. IntMax /\ 0 \in 0 .. MaxTime
  BY LimitAssumption
<1>1. NoCall \in Calls
  BY <1>0 DEF NoCall, Calls
<1>2. ASSUME NEW v \in 0 .. IntMax, NEW h \in 0 .. IntMax, NEW d \in 0 .. MaxTime
      PROVE  /\ [NoCall EXCEPT !.value = v, !.deadline = d] \in Calls
             /\ [NoCall EXCEPT !.value = v, !.hint = h] \in Calls
  BY <1>0 DEF NoCall, Calls
<1>3. ASSUME NEW c \in Calls, NEW l \in 0 .. IntMax PROVE [c EXCEPT !.limit = l] \in Calls
  BY <1>3 DEF Calls
<1> QED
  BY <1>1, <1>2, <1>3

(* Amounts are natural numbers within their bounds. *)
LEMMA AmountRanges ==
    /\ \A v \in Values \cup {0} : v \in 0 .. IntMax /\ v \in Nat
    /\ \A v \in Values : v > 0
    /\ \A l \in Limits : l \in 0 .. IntMax
  BY LimitAssumption

(* So are the values and hints. *)
LEMMA ValueRanges ==
    ASSUME LimitInv
    PROVE  /\ current \in 0 .. IntMax /\ hint \in 0 .. IntMax
           /\ limit \in 0 .. IntMax /\ peak \in 0 .. IntMax
           /\ current \in Nat /\ hint \in Nat /\ limit \in Nat /\ peak \in Nat
<1>1. /\ current \in -(IntMax + 1) .. IntMax /\ hint \in -(IntMax + 1) .. IntMax
      /\ limit \in -(IntMax + 1) .. IntMax /\ peak \in -(IntMax + 1) .. IntMax
  BY DEF LimitInv, TypeOK
<1>2. 0 <= hint /\ hint <= current /\ current <= limit /\ current <= peak
  BY DEF LimitInv, ValuesAccountedFor
<1>3. IntMax \in Nat
  BY LimitAssumption
<1> QED
  BY <1>1, <1>2, <1>3

(* So are the arguments of the calls. *)
LEMMA CallFields ==
    ASSUME LimitInv, NEW t \in Threads
    PROVE  /\ arg[t].value \in 0 .. IntMax /\ arg[t].hint \in 0 .. IntMax
           /\ arg[t].limit \in 0 .. IntMax /\ arg[t].deadline \in 0 .. MaxTime
           /\ arg[t].value \in Nat /\ arg[t].hint \in Nat /\ arg[t].limit \in Nat
<1>1. arg[t] \in Calls
  BY DEF LimitInv, LocalTypeOK
<1> QED
  BY <1>1, LimitAssumption DEF Calls

(* What the two tests of Reserve mean together. *)
LEMMA ReserveTests ==
    ASSUME NEW v \in Nat, v <= IntMax, current \in Nat, limit \in Nat, ~Overflows(v)
    PROVE  Fits(v) <=> current + v <= limit
<1>1. IntMax \in Nat
  BY LimitAssumption
<1> QED
  BY <1>1 DEF Overflows, Fits, WrappingAdd

(* Every step keeps the types of the calls. *)
LEMMA CallsStep == LimitInv /\ [Next]_vars => arg' \in [Threads -> Calls]
<1> SUFFICES ASSUME LimitInv, [Next]_vars PROVE arg' \in [Threads -> Calls]
  OBVIOUS
<1>z. 0 \in 0 .. MaxTime /\ \A d \in 1 .. MaxTime : d \in 0 .. MaxTime
  BY LimitAssumption
<1>l. limit \in 0 .. IntMax
  BY ValueRanges
<1> USE CallTypes
    DEF LimitInv, LocalTypeOK, Return, vars
<1>1. CASE Tick
  BY <1>1 DEF Tick
<1>2. ASSUME NEW l \in Limits, SetLimitValue(l) PROVE arg' \in [Threads -> Calls]
  BY <1>2 DEF SetLimitValue
<1>3. ASSUME NEW t \in Threads, NEW v \in Values, NEW d \in 1 .. MaxTime, Reserve(t, v, d)
      PROVE  arg' \in [Threads -> Calls]
  <2>1. v \in 0 .. IntMax /\ d \in 0 .. MaxTime
    BY <1>z, AmountRanges
  <2>2. [NoCall EXCEPT !.value = v, !.deadline = d] \in Calls
    BY <2>1
  <2> QED
    BY <1>3, <2>2 DEF Reserve
<1>4. ASSUME NEW t \in Threads, NEW v \in Values \cup {0}, NEW h \in Values \cup {0}, Release(t, v, h)
      PROVE  arg' \in [Threads -> Calls]
  <2>1. v \in 0 .. IntMax /\ h \in 0 .. IntMax
    BY AmountRanges
  <2>2. [NoCall EXCEPT !.value = v, !.hint = h] \in Calls
    BY <2>1, <1>z
  <2> QED
    BY <1>4, <2>2 DEF Release
<1>5. ASSUME NEW t \in Threads, RequestTerminate(t) PROVE arg' \in [Threads -> Calls]
  BY <1>5 DEF RequestTerminate
<1>6. ASSUME NEW t \in Threads, Lock(t) PROVE arg' \in [Threads -> Calls]
  BY <1>6 DEF Lock
<1>7. ASSUME NEW t \in Threads, FirstCheck(t) PROVE arg' \in [Threads -> Calls]
  BY <1>7 DEF FirstCheck
<1>8. ASSUME NEW t \in Threads, ReserveTakes(t) PROVE arg' \in [Threads -> Calls]
  BY <1>8 DEF ReserveTakes
<1>9. ASSUME NEW t \in Threads, ReserveGivesUp(t) PROVE arg' \in [Threads -> Calls]
  BY <1>9 DEF ReserveGivesUp
<1>10. ASSUME NEW t \in Threads, ReserveWaits(t) PROVE arg' \in [Threads -> Calls]
  <2>1. limit \in 0 .. IntMax /\ arg[t] \in Calls
    BY <1>l
  <2>2. [arg[t] EXCEPT !.limit = limit] \in Calls
    BY <2>1
  <2>3. arg' = [arg EXCEPT ![t] = [arg[t] EXCEPT !.limit = limit]]
    BY <1>10 DEF ReserveWaits
  <2> QED
    BY <2>2, <2>3
<1>11. ASSUME NEW t \in Threads, WaitSleeps(t) PROVE arg' \in [Threads -> Calls]
  BY <1>11 DEF WaitSleeps
<1>12. ASSUME NEW t \in Threads, TimerExpires(t) PROVE arg' \in [Threads -> Calls]
  BY <1>12 DEF TimerExpires
<1>13. ASSUME NEW t \in Threads, ReleaseUpdates(t) PROVE arg' \in [Threads -> Calls]
  BY <1>13 DEF ReleaseUpdates
<1>14. ASSUME NEW t \in Threads, Broadcast(t) PROVE arg' \in [Threads -> Calls]
  BY <1>14 DEF Broadcast
<1>15. CASE UNCHANGED vars
  BY <1>15
<1> QED
  BY <1>1, <1>2, <1>3, <1>4, <1>5, <1>6, <1>7, <1>8, <1>9, <1>10, <1>11, <1>12, <1>13, <1>14,
     <1>15 DEF Next, Step

(* Every action keeps the control state of the threads in step with the    *)
(* locks.                                                                  *)
LEMMA LocksStep == LimitInv /\ [Next]_vars => LocalTypeOK' /\ LocksHeld'
<1> SUFFICES ASSUME LimitInv, [Next]_vars PROVE LocalTypeOK' /\ LocksHeld'
  OBVIOUS
<1>a. arg' \in [Threads -> Calls]
  BY CallsStep
<1> USE <1>a, LimitAssumption
    DEF LimitInv, TypeOK, LocalTypeOK, LocksHeld, Holding, Waiting, Reserving, Goto, Return, vars
<1>1. CASE Tick
  BY <1>1 DEF Tick
<1>2. ASSUME NEW l \in Limits, SetLimitValue(l) PROVE LocalTypeOK' /\ LocksHeld'
  BY <1>2 DEF SetLimitValue
<1>3. ASSUME NEW t \in Threads, NEW v \in Values, NEW d \in 1 .. MaxTime, Reserve(t, v, d)
      PROVE  LocalTypeOK' /\ LocksHeld'
  BY <1>3 DEF Reserve
<1>4. ASSUME NEW t \in Threads, NEW v \in Values \cup {0}, NEW h \in Values \cup {0}, Release(t, v, h)
      PROVE  LocalTypeOK' /\ LocksHeld'
  BY <1>4 DEF Release
<1>5. ASSUME NEW t \in Threads, RequestTerminate(t) PROVE LocalTypeOK' /\ LocksHeld'
  BY <1>5 DEF RequestTerminate
<1>6. ASSUME NEW t \in Threads, Lock(t) PROVE LocalTypeOK' /\ LocksHeld'
  BY <1>6 DEF Lock
<1>7. ASSUME NEW t \in Threads, FirstCheck(t) PROVE LocalTypeOK' /\ LocksHeld'
  BY <1>7 DEF FirstCheck
<1>8. ASSUME NEW t \in Threads, ReserveTakes(t) PROVE LocalTypeOK' /\ LocksHeld'
  BY <1>8 DEF ReserveTakes
<1>9. ASSUME NEW t \in Threads, ReserveGivesUp(t) PROVE LocalTypeOK' /\ LocksHeld'
  BY <1>9 DEF ReserveGivesUp
<1>10. ASSUME NEW t \in Threads, ReserveWaits(t) PROVE LocalTypeOK' /\ LocksHeld'
  BY <1>10 DEF ReserveWaits
<1>11. ASSUME NEW t \in Threads, WaitSleeps(t) PROVE LocalTypeOK' /\ LocksHeld'
  BY <1>11 DEF WaitSleeps
<1>12. ASSUME NEW t \in Threads, TimerExpires(t) PROVE LocalTypeOK' /\ LocksHeld'
  BY <1>12 DEF TimerExpires
<1>13. ASSUME NEW t \in Threads, ReleaseUpdates(t) PROVE LocalTypeOK' /\ LocksHeld'
  BY <1>13 DEF ReleaseUpdates
<1>14. ASSUME NEW t \in Threads, Broadcast(t) PROVE LocalTypeOK' /\ LocksHeld'
  BY <1>14 DEF Broadcast
<1>15. CASE UNCHANGED vars
  BY <1>15
<1> QED
  BY <1>1, <1>2, <1>3, <1>4, <1>5, <1>6, <1>7, <1>8, <1>9, <1>10, <1>11, <1>12, <1>13, <1>14,
     <1>15 DEF Next, Step

-----------------------------------------------------------------------------
(* The two halves of WaitersListed, with their types. *)
Waiters == {t \in Threads : pc[t] \in Waiting}
CountedWaiters == waiterCount = Cardinality(Waiters)
ListedSleepers ==
    /\ waitList \in Seq(Threads)
    /\ ToSet(waitList) = {t \in Threads : pc[t] = "asleep"}
    /\ IsInjective(waitList)

(* The waiting list holds exactly the calls that wait. *)
LEMMA ListedStep == LimitInv /\ [Next]_vars => ListedSleepers'
<1> SUFFICES ASSUME LimitInv, [Next]_vars PROVE ListedSleepers'
  OBVIOUS
<1>i. /\ ListedSleepers
      /\ \A t \in Threads : slock = t <=> pc[t] = "unlocked"
      /\ pc \in [Threads -> {"user", "release"} \cup Holding \cup Reserving]
  BY DEF LimitInv, TypeOK, LocalTypeOK, LocksHeld, WaitersListed, ListedSleepers
<1> USE <1>i, LimitAssumption
    DEF ListedSleepers, Goto, Return, vars, waitVars, valueVars
<1>1. CASE Tick
  BY <1>1 DEF Tick
<1>2. ASSUME NEW l \in Limits, SetLimitValue(l) PROVE ListedSleepers'
  BY <1>2 DEF SetLimitValue
<1>3. ASSUME NEW t \in Threads, NEW v \in Values, NEW d \in 1 .. MaxTime, Reserve(t, v, d)
      PROVE  ListedSleepers'
  BY <1>3 DEF Reserve
<1>4. ASSUME NEW t \in Threads, NEW v \in Values \cup {0}, NEW h \in Values \cup {0}, Release(t, v, h)
      PROVE  ListedSleepers'
  BY <1>4 DEF Release
<1>5. ASSUME NEW t \in Threads, RequestTerminate(t) PROVE ListedSleepers'
  BY <1>5, RemoveNode DEF RequestTerminate
<1>6. ASSUME NEW t \in Threads, Lock(t) PROVE ListedSleepers'
  BY <1>6 DEF Lock
<1>7. ASSUME NEW t \in Threads, FirstCheck(t) PROVE ListedSleepers'
  BY <1>7 DEF FirstCheck
<1>8. ASSUME NEW t \in Threads, ReserveTakes(t) PROVE ListedSleepers'
  BY <1>8 DEF ReserveTakes
<1>9. ASSUME NEW t \in Threads, ReserveGivesUp(t) PROVE ListedSleepers'
  BY <1>9 DEF ReserveGivesUp
<1>10. ASSUME NEW t \in Threads, ReserveWaits(t) PROVE ListedSleepers'
  BY <1>10 DEF ReserveWaits
<1>11. ASSUME NEW t \in Threads, WaitSleeps(t) PROVE ListedSleepers'
  <2>1. t \notin ToSet(waitList)
    BY <1>11 DEF WaitSleeps
  <2> QED
    BY <1>11, <2>1, AppendNode DEF WaitSleeps
<1>12. ASSUME NEW t \in Threads, TimerExpires(t) PROVE ListedSleepers'
  BY <1>12, RemoveNode DEF TimerExpires
<1>13. ASSUME NEW t \in Threads, ReleaseUpdates(t) PROVE ListedSleepers'
  BY <1>13 DEF ReleaseUpdates
<1>14. ASSUME NEW t \in Threads, Broadcast(t) PROVE ListedSleepers'
  <2>1. waitList' = <<>> /\ ToSet(<<>>) = {} /\ IsInjective(<<>>) /\ <<>> \in Seq(Threads)
    BY <1>14 DEF Broadcast, ToSet, IsInjective
  <2> QED
    BY <1>14, <2>1 DEF Broadcast
<1>15. CASE UNCHANGED vars
  BY <1>15
<1> QED
  BY <1>1, <1>2, <1>3, <1>4, <1>5, <1>6, <1>7, <1>8, <1>9, <1>10, <1>11, <1>12, <1>13, <1>14,
     <1>15 DEF Next, Step

(* m_waiter_count counts the waiters. *)
LEMMA CountedStep == LimitInv /\ [Next]_vars => CountedWaiters'
<1> SUFFICES ASSUME LimitInv, [Next]_vars PROVE CountedWaiters'
  OBVIOUS
<1>i. /\ CountedWaiters /\ waiterCount \in Int
      /\ \A t \in Threads : pc[t] = "asleep" <=> t \in ToSet(waitList)
      /\ pc \in [Threads -> {"user", "release"} \cup Holding \cup Reserving]
  BY DEF LimitInv, TypeOK, LocalTypeOK, WaitersListed, CountedWaiters, Waiters, Waiting
<1>w. IsFiniteSet(Waiters)
  BY LimitAssumption, FS_Subset DEF Waiters
<1> USE <1>i DEF CountedWaiters, Waiters, Waiting, Goto, Return, vars, waitVars
<1>1. CASE Tick
  <2>1. Waiters' = Waiters /\ waiterCount' = waiterCount
    BY <1>1 DEF Tick
  <2> QED
    BY <2>1
<1>2. ASSUME NEW l \in Limits, SetLimitValue(l) PROVE CountedWaiters'
  <2>1. Waiters' = Waiters /\ waiterCount' = waiterCount
    BY <1>2 DEF SetLimitValue
  <2> QED
    BY <2>1
<1>3. ASSUME NEW t \in Threads, NEW v \in Values, NEW d \in 1 .. MaxTime, Reserve(t, v, d)
      PROVE  CountedWaiters'
  <2>1. Waiters' = Waiters /\ waiterCount' = waiterCount
    BY <1>3 DEF Reserve
  <2> QED
    BY <2>1
<1>4. ASSUME NEW t \in Threads, NEW v \in Values \cup {0}, NEW h \in Values \cup {0}, Release(t, v, h)
      PROVE  CountedWaiters'
  <2>1. Waiters' = Waiters /\ waiterCount' = waiterCount
    BY <1>4 DEF Release
  <2> QED
    BY <2>1
<1>5. ASSUME NEW t \in Threads, RequestTerminate(t) PROVE CountedWaiters'
  <2>1. Waiters' = Waiters /\ waiterCount' = waiterCount
    BY <1>5 DEF RequestTerminate
  <2> QED
    BY <2>1
<1>6. ASSUME NEW t \in Threads, Lock(t) PROVE CountedWaiters'
  <2>1. CASE pc[t] = "relock"
    <3>1. Waiters' = Waiters \ {t} /\ t \in Waiters /\ waiterCount' = waiterCount - 1
      BY <1>6, <2>1 DEF Lock
    <3> QED
      BY <3>1, <1>w, FS_RemoveElement
  <2>2. CASE pc[t] # "relock"
    <3>1. waiterCount' = waiterCount
      <4>1. waiterCount' = waiterCount - (IF pc[t] = "relock" THEN 1 ELSE 0)
        BY <1>6 DEF Lock
      <4>2. waiterCount' = waiterCount - 0
        BY <2>2, <4>1, Zenon
      <4>3. waiterCount - 0 = waiterCount
        OBVIOUS
      <4> QED
        BY <4>2, <4>3
    <3>2. pc[t] \in {"reserve", "release"} /\ pc'[t] \in {"first check", "releasing"}
      BY <1>6, <2>2 DEF Lock
    <3>3. \A u \in Threads \ {t} : pc'[u] = pc[u]
      BY <1>6 DEF Lock
    <3>4. Waiters' = Waiters
      BY <3>2, <3>3
    <3> QED
      BY <3>1, <3>4
  <2> QED
    BY <2>1, <2>2
<1>7. ASSUME NEW t \in Threads, FirstCheck(t) PROVE CountedWaiters'
  <2>1. Waiters' = Waiters /\ waiterCount' = waiterCount
    BY <1>7 DEF FirstCheck
  <2> QED
    BY <2>1
<1>8. ASSUME NEW t \in Threads, ReserveTakes(t) PROVE CountedWaiters'
  <2>1. Waiters' = Waiters /\ waiterCount' = waiterCount
    BY <1>8 DEF ReserveTakes
  <2> QED
    BY <2>1
<1>9. ASSUME NEW t \in Threads, ReserveGivesUp(t) PROVE CountedWaiters'
  <2>1. Waiters' = Waiters /\ waiterCount' = waiterCount
    BY <1>9 DEF ReserveGivesUp
  <2> QED
    BY <2>1
<1>10. ASSUME NEW t \in Threads, ReserveWaits(t) PROVE CountedWaiters'
  <2>1. Waiters' = Waiters \cup {t} /\ t \notin Waiters /\ waiterCount' = waiterCount + 1
    BY <1>10 DEF ReserveWaits
  <2> QED
    BY <2>1, <1>w, FS_AddElement
<1>11. ASSUME NEW t \in Threads, WaitSleeps(t) PROVE CountedWaiters'
  <2>1. Waiters' = Waiters /\ waiterCount' = waiterCount
    BY <1>11 DEF WaitSleeps
  <2> QED
    BY <2>1
<1>12. ASSUME NEW t \in Threads, TimerExpires(t) PROVE CountedWaiters'
  <2>1. Waiters' = Waiters /\ waiterCount' = waiterCount
    BY <1>12 DEF TimerExpires
  <2> QED
    BY <2>1
<1>13. ASSUME NEW t \in Threads, ReleaseUpdates(t) PROVE CountedWaiters'
  <2>1. Waiters' = Waiters /\ waiterCount' = waiterCount
    BY <1>13 DEF ReleaseUpdates
  <2> QED
    BY <2>1
<1>14. ASSUME NEW t \in Threads, Broadcast(t) PROVE CountedWaiters'
  <2>1. Waiters' = Waiters /\ waiterCount' = waiterCount
    BY <1>14 DEF Broadcast
  <2> QED
    BY <2>1
<1>15. CASE UNCHANGED vars
  <2>1. Waiters' = Waiters /\ waiterCount' = waiterCount
    BY <1>15
  <2> QED
    BY <2>1
<1> QED
  BY <1>1, <1>2, <1>3, <1>4, <1>5, <1>6, <1>7, <1>8, <1>9, <1>10, <1>11, <1>12, <1>13, <1>14,
     <1>15 DEF Next, Step

(* TypeOK's part about them. *)
LEMMA WaitersType ==
    ASSUME CountedWaiters, ListedSleepers
    PROVE  WaitersListed /\ waiterCount \in 0 .. Cardinality(Threads)
<1>1. /\ IsFiniteSet(Waiters) /\ Cardinality(Waiters) <= Cardinality(Threads)
      /\ Cardinality(Waiters) \in Nat /\ Cardinality(Threads) \in Nat
  BY LimitAssumption, FS_Subset, FS_CardinalityType DEF Waiters
<1> QED
  BY <1>1 DEF CountedWaiters, ListedSleepers, WaitersListed, Waiters, Waiting

-----------------------------------------------------------------------------
(* A reservation gives up m_lock only when it does not fit, and a release  *)
(* that follows finds it counted.                                          *)
LEMMA FitStep == LimitInv /\ [Next]_vars => WaiterDoesNotFit'
<1> SUFFICES ASSUME LimitInv, [Next]_vars PROVE WaiterDoesNotFit'
  OBVIOUS
<1>i. /\ WaiterDoesNotFit /\ LocksHeld
      /\ \A t \in Threads : pc[t] = "asleep" <=> t \in ToSet(waitList)
      /\ pc \in [Threads -> {"user", "release"} \cup Holding \cup Reserving]
      /\ arg \in [Threads -> Calls]
  BY DEF LimitInv, LocalTypeOK, WaitersListed
<1>v. current \in Nat /\ limit \in Nat
  BY ValueRanges
<1>w. waiterCount = Cardinality(Waiters) /\ IsFiniteSet(Waiters)
  BY LimitAssumption, FS_Subset DEF LimitInv, WaitersListed, Waiters, Waiting
<1>c. \A t \in Threads : arg[t].value \in Nat /\ arg[t].limit \in Nat /\ arg[t].value <= IntMax
  BY CallFields
<1> USE DEF WaiterDoesNotFit, LocksHeld, Holding, Goto, Return, vars, valueVars
<1>1. CASE Tick
  BY <1>i, <1>1 DEF Tick
<1>2. ASSUME NEW l \in Limits, SetLimitValue(l) PROVE WaiterDoesNotFit'
  BY <1>i, <1>2 DEF SetLimitValue
<1>3. ASSUME NEW t \in Threads, NEW v \in Values, NEW d \in 1 .. MaxTime, Reserve(t, v, d)
      PROVE  WaiterDoesNotFit'
  BY <1>i, <1>3 DEF Reserve
<1>4. ASSUME NEW t \in Threads, NEW v \in Values \cup {0}, NEW h \in Values \cup {0}, Release(t, v, h)
      PROVE  WaiterDoesNotFit'
  BY <1>i, <1>4 DEF Release
<1>5. ASSUME NEW t \in Threads, RequestTerminate(t) PROVE WaiterDoesNotFit'
  BY <1>i, <1>5 DEF RequestTerminate
<1>6. ASSUME NEW t \in Threads, Lock(t) PROVE WaiterDoesNotFit'
  BY <1>i, <1>6 DEF Lock
<1>7. ASSUME NEW t \in Threads, FirstCheck(t) PROVE WaiterDoesNotFit'
  BY <1>i, <1>7 DEF FirstCheck
<1>8. ASSUME NEW t \in Threads, ReserveTakes(t) PROVE WaiterDoesNotFit'
  <2>1. current' \in Nat /\ current' >= current
    <3> DEFINE v == arg[t].value
    <3>1. current' = current + v /\ v \in Nat
      BY <1>8, <1>c DEF ReserveTakes
    <3> HIDE DEF v
    <3> QED
      BY <3>1, <1>v
  <2>2. pc' = [pc EXCEPT ![t] = "user"] /\ pc[t] = "loop"
    BY <1>8 DEF ReserveTakes
  <2>3. \A u \in Threads \ {t} : arg'[u] = arg[u]
    BY <1>i, <1>8 DEF ReserveTakes
  <2> SUFFICES ASSUME NEW u \in Threads, pc'[u] \in {"unlocked", "asleep"},
                      ~ \E w \in Threads : pc'[w] = "broadcast"
               PROVE  current' + arg'[u].value > arg'[u].limit
    OBVIOUS
  <2>4. u # t /\ pc[u] \in {"unlocked", "asleep"} /\ arg'[u] = arg[u]
        /\ ~ \E w \in Threads : pc[w] = "broadcast"
    BY <1>i, <2>2, <2>3
  <2> DEFINE v == arg[u].value
             l == arg[u].limit
  <2>5. current + v > l /\ v \in Nat /\ l \in Nat
    BY <1>i, <1>c, <2>4
  <2> HIDE DEF v, l
  <2>6. \A x, y, a, b \in Nat : x >= y /\ y + a > b => x + a > b
    OBVIOUS
  <2>7. current' + v > l
    BY <2>1, <2>5, <2>6, <1>v
  <2> QED
    BY <2>4, <2>7 DEF v, l
<1>9. ASSUME NEW t \in Threads, ReserveGivesUp(t) PROVE WaiterDoesNotFit'
  BY <1>i, <1>9 DEF ReserveGivesUp
<1>10. ASSUME NEW t \in Threads, ReserveWaits(t) PROVE WaiterDoesNotFit'
  <2>1. current + arg[t].value > limit
    <3> DEFINE v == arg[t].value
    <3>1. ~Overflows(v) /\ ~Fits(v) /\ v \in Nat /\ v <= IntMax
      BY <1>10, <1>c DEF ReserveWaits
    <3> HIDE DEF v
    <3>2. ~(current + v <= limit)
      BY <3>1, <1>v, ReserveTests
    <3>3. current + v > limit
      BY <3>1, <3>2, <1>v
    <3> QED
      BY <3>3 DEF v
  <2>2. arg'[t].value = arg[t].value /\ arg'[t].limit = limit /\ current' = current
    BY <1>i, <1>10 DEF ReserveWaits, Calls
  <2>3. \A u \in Threads \ {t} : arg'[u] = arg[u] /\ pc'[u] = pc[u]
    BY <1>i, <1>10 DEF ReserveWaits
  <2>4. pc[t] # "broadcast"
    BY <1>10 DEF ReserveWaits
  <2> QED
    BY <1>i, <2>1, <2>2, <2>3, <2>4
<1>11. ASSUME NEW t \in Threads, WaitSleeps(t) PROVE WaiterDoesNotFit'
  BY <1>i, <1>11 DEF WaitSleeps
<1>12. ASSUME NEW t \in Threads, TimerExpires(t) PROVE WaiterDoesNotFit'
  BY <1>i, <1>12 DEF TimerExpires
<1>13. ASSUME NEW t \in Threads, ReleaseUpdates(t) PROVE WaiterDoesNotFit'
  <2>1. CASE waiterCount # 0
    BY <1>i, <1>13, <2>1 DEF ReleaseUpdates
  <2>2. CASE waiterCount = 0
    <3>1. Waiters = {}
      BY <2>2, <1>w, FS_EmptySet
    <3>2. pc' = [pc EXCEPT ![t] = "user"]
      BY <1>13, <2>2 DEF ReleaseUpdates
    <3> QED
      BY <1>i, <3>1, <3>2 DEF Waiters, Waiting
  <2> QED
    BY <2>1, <2>2
<1>14. ASSUME NEW t \in Threads, Broadcast(t) PROVE WaiterDoesNotFit'
  BY <1>i, <1>14, LimitAssumption DEF Broadcast
<1>15. CASE UNCHANGED vars
  BY <1>i, <1>15
<1> QED
  BY <1>1, <1>2, <1>3, <1>4, <1>5, <1>6, <1>7, <1>8, <1>9, <1>10, <1>11, <1>12, <1>13, <1>14,
     <1>15 DEF Next, Step

-----------------------------------------------------------------------------
(* What the owners hold. *)
AmountsOK == /\ own \in [Threads -> Nat] /\ announced \in [Threads -> Nat]
             /\ AmountsMatch

(* The invariant's part about what each thread holds. *)
LEMMA AmountsHold ==
    ASSUME LimitInv
    PROVE  AmountsOK /\ arg \in [Threads -> Calls]
<1>1. own \in [Threads -> Nat] /\ announced \in [Threads -> Nat]
  BY LimitAssumption DEF LimitInv, TypeOK
<1> QED
  BY <1>1 DEF LimitInv, LocalTypeOK, AmountsOK

(* Every step preserves it. *)
LEMMA AmountsStep == LimitInv /\ [Next]_vars => AmountsOK'
<1> SUFFICES ASSUME LimitInv, [Next]_vars PROVE AmountsOK'
  OBVIOUS
<1>i. /\ AmountsOK
      /\ \A t \in Threads : pc[t] = "asleep" <=> t \in ToSet(waitList)
      /\ pc \in [Threads -> {"user", "release"} \cup Holding \cup Reserving]
      /\ arg \in [Threads -> Calls]
  BY AmountsHold DEF LimitInv, LocalTypeOK, WaitersListed
<1>c. \A t \in Threads : arg[t].value \in Nat
  BY CallFields
<1> USE DEF AmountsOK, AmountsMatch, Pending, Reserving, Waiting, Holding, Goto, Return, vars, ownVars
<1>1. CASE Tick
  BY <1>i, <1>1 DEF Tick
<1>2. ASSUME NEW l \in Limits, SetLimitValue(l) PROVE AmountsOK'
  BY <1>i, <1>2 DEF SetLimitValue
<1>3. ASSUME NEW t \in Threads, NEW v \in Values, NEW d \in 1 .. MaxTime, Reserve(t, v, d)
      PROVE  AmountsOK'
  <2>1. arg'[t].value = v /\ pc'[t] = "reserve" /\ v > 0
    BY <1>i, <1>3, AmountRanges DEF Reserve, Calls, NoCall
  <2>2. /\ \A u \in Threads \ {t} : arg'[u] = arg[u] /\ pc'[u] = pc[u]
        /\ UNCHANGED <<own, announced>>
    BY <1>i, <1>3 DEF Reserve
  <2> QED
    BY <1>i, <2>1, <2>2
<1>4. ASSUME NEW t \in Threads, NEW v \in Values \cup {0}, NEW h \in Values \cup {0}, Release(t, v, h)
      PROVE  AmountsOK'
  <2>1. /\ v \in Nat /\ h \in Nat /\ own[t] \in Nat /\ announced[t] \in Nat
        /\ announced[t] <= own[t]
    <3>1. v \in Nat /\ h \in Nat
      BY AmountRanges
    <3>2. own[t] \in Nat /\ announced[t] \in Nat /\ announced[t] <= own[t]
      BY <1>i
    <3> QED
      BY <3>1, <3>2
  <2>2. /\ arg'[t].value = v /\ arg'[t].hint = h /\ pc'[t] = "release"
        /\ own'[t] = own[t] - v /\ announced'[t] = announced[t] + h - v
    BY <1>i, <1>4 DEF Release, NoCall
  <2>3. /\ own[t] - v \in Nat /\ announced[t] + h - v \in Nat
        /\ announced[t] + h - v <= own[t] - v
        /\ h <= (announced[t] + h - v) + v
    BY <1>4, <2>1 DEF Release
  <2>4. \A u \in Threads \ {t} : /\ arg'[u] = arg[u] /\ pc'[u] = pc[u]
                                 /\ own'[u] = own[u] /\ announced'[u] = announced[u]
    BY <1>i, <1>4 DEF Release
  <2>5. own' \in [Threads -> Nat] /\ announced' \in [Threads -> Nat]
    BY <1>i, <1>4, <2>3 DEF Release
  <2>6. AmountsMatch'
    BY <1>i, <2>2, <2>3, <2>4
  <2> QED
    BY <2>5, <2>6
<1>5. ASSUME NEW t \in Threads, RequestTerminate(t) PROVE AmountsOK'
  BY <1>i, <1>5 DEF RequestTerminate
<1>6. ASSUME NEW t \in Threads, Lock(t) PROVE AmountsOK'
  BY <1>i, <1>6 DEF Lock
<1>7. ASSUME NEW t \in Threads, FirstCheck(t) PROVE AmountsOK'
  BY <1>i, <1>7 DEF FirstCheck
<1>8. ASSUME NEW t \in Threads, ReserveTakes(t) PROVE AmountsOK'
  <2> DEFINE v == arg[t].value
  <2>1. v \in Nat /\ own[t] \in Nat /\ announced[t] \in Nat /\ announced[t] <= own[t]
    BY <1>i, <1>c
  <2>2. own' = [own EXCEPT ![t] = own[t] + v] /\ announced' = announced /\ pc'[t] = "user"
    BY <1>i, <1>8 DEF ReserveTakes
  <2>3. \A u \in Threads \ {t} : arg'[u] = arg[u] /\ pc'[u] = pc[u]
    BY <1>i, <1>8 DEF ReserveTakes
  <2> HIDE DEF v
  <2>4. own[t] + v \in Nat /\ announced[t] <= own[t] + v
    BY <2>1
  <2>5. own' \in [Threads -> Nat] /\ announced'[t] <= own'[t]
    BY <1>i, <2>2, <2>4
  <2>6. \A u \in Threads \ {t} : own'[u] = own[u] /\ announced'[u] = announced[u]
    BY <1>i, <2>2
  <2>7. AmountsMatch'
    BY <1>i, <2>2, <2>3, <2>5, <2>6
  <2> QED
    BY <1>i, <2>2, <2>5, <2>7
<1>9. ASSUME NEW t \in Threads, ReserveGivesUp(t) PROVE AmountsOK'
  BY <1>i, <1>9 DEF ReserveGivesUp
<1>10. ASSUME NEW t \in Threads, ReserveWaits(t) PROVE AmountsOK'
  <2>1. arg'[t].value = arg[t].value /\ pc'[t] = "unlocked" /\ pc[t] = "loop"
    BY <1>i, <1>10 DEF ReserveWaits, Calls
  <2>2. /\ \A u \in Threads \ {t} : arg'[u] = arg[u] /\ pc'[u] = pc[u]
        /\ UNCHANGED <<own, announced>>
    BY <1>i, <1>10 DEF ReserveWaits
  <2> QED
    BY <1>i, <2>1, <2>2
<1>11. ASSUME NEW t \in Threads, WaitSleeps(t) PROVE AmountsOK'
  BY <1>i, <1>11 DEF WaitSleeps
<1>12. ASSUME NEW t \in Threads, TimerExpires(t) PROVE AmountsOK'
  BY <1>i, <1>12 DEF TimerExpires
<1>13. ASSUME NEW t \in Threads, ReleaseUpdates(t) PROVE AmountsOK'
  BY <1>i, <1>13 DEF ReleaseUpdates
<1>14. ASSUME NEW t \in Threads, Broadcast(t) PROVE AmountsOK'
  BY <1>i, <1>14 DEF Broadcast
<1>15. CASE UNCHANGED vars
  BY <1>i, <1>15
<1> QED
  BY <1>1, <1>2, <1>3, <1>4, <1>5, <1>6, <1>7, <1>8, <1>9, <1>10, <1>11, <1>12, <1>13, <1>14,
     <1>15 DEF Next, Step

(* The amounts are numbers, and the hints no larger than the values. *)
LEMMA AmountTypes ==
    ASSUME AmountsOK, arg \in [Threads -> Calls]
    PROVE  /\ ValueOf \in [Threads -> Nat] /\ HintOf \in [Threads -> Nat]
           /\ \A t \in Threads : HintOf[t] <= ValueOf[t] /\ own[t] <= ValueOf[t]
<1> SUFFICES ASSUME NEW t \in Threads
             PROVE  /\ ValueOf[t] \in Nat /\ HintOf[t] \in Nat
                    /\ HintOf[t] <= ValueOf[t] /\ own[t] <= ValueOf[t]
  BY DEF ValueOf, HintOf
<1> DEFINE v == arg[t].value
           h == arg[t].hint
           o == own[t]
           a == announced[t]
<1>1. v \in Nat /\ h \in Nat
  BY DEF Calls
<1>2. o \in Nat /\ a \in Nat /\ a <= o /\ (Pending(t) => h <= a + v)
  BY DEF AmountsOK, AmountsMatch
<1>3. ValueOf[t] = o + (IF Pending(t) THEN v ELSE 0) /\ HintOf[t] = o - a + (IF Pending(t) THEN h ELSE 0)
  BY DEF ValueOf, HintOf
<1> HIDE DEF v, h, o, a
<1>4. CASE Pending(t)
  BY <1>1, <1>2, <1>3, <1>4 DEF o
<1>5. CASE ~Pending(t)
  BY <1>1, <1>2, <1>3, <1>5 DEF o
<1> QED
  BY <1>4, <1>5

(* The step of a thread changes no amount, or those of one thread by what  *)
(* it adds to the counters.                                                *)
Totals == current = Total(ValueOf) /\ hint = Total(HintOf)
Counted(t, v, h) ==
    /\ ValueOf'[t] = ValueOf[t] + v /\ HintOf'[t] = HintOf[t] + h
    /\ \A u \in Threads \ {t} : ValueOf'[u] = ValueOf[u] /\ HintOf'[u] = HintOf[u]
    /\ current' = current + v /\ hint' = hint + h

(* A step of t that counts v and h keeps the totals exact. *)
LEMMA CountedTotals ==
    ASSUME LimitInv, AmountsOK', arg' \in [Threads -> Calls],
           NEW t \in Threads, NEW v \in Int, NEW h \in Int, Counted(t, v, h)
    PROVE  Totals'
<1> DEFINE f == ValueOf
           g == HintOf
           ff == ValueOf'
           gg == HintOf'
<1>1. AmountsOK /\ arg \in [Threads -> Calls]
  BY AmountsHold
<1>2. f \in [Threads -> Nat] /\ g \in [Threads -> Nat]
  BY <1>1, AmountTypes
<1>3. (AmountsOK /\ arg \in [Threads -> Calls]
         => ValueOf \in [Threads -> Nat] /\ HintOf \in [Threads -> Nat])'
  BY AmountTypes, PTL
<1>4. ff \in [Threads -> Nat] /\ gg \in [Threads -> Nat]
  BY <1>3
<1>5. current = Total(f) /\ hint = Total(g)
  BY DEF LimitInv, ValuesAccountedFor
<1>6. /\ ff[t] = f[t] + v /\ gg[t] = g[t] + h
      /\ \A u \in Threads \ {t} : ff[u] = f[u] /\ gg[u] = g[u]
      /\ current' = current + v /\ hint' = hint + h
  BY DEF Counted
<1> HIDE DEF f, g, ff, gg
<1>7. Total(ff) = Total(f) + ff[t] - f[t] /\ Total(gg) = Total(g) + gg[t] - g[t]
  BY <1>2, <1>4, <1>6, TotalChange
<1>8. Total(f) \in Nat /\ Total(g) \in Nat /\ f[t] \in Nat /\ g[t] \in Nat
  BY <1>2, UnitsFinite
<1>9. Total(ff) = Total(f) + v /\ Total(gg) = Total(g) + h
  BY <1>6, <1>7, <1>8
<1> QED
  <2>1. current' = Total(ff) /\ hint' = Total(gg)
    BY <1>5, <1>6, <1>9
  <2>2. Totals' <=> current' = Total(ff) /\ hint' = Total(gg)
    BY DEF Totals, ff, gg, Total, Units
  <2> QED
    BY <2>1, <2>2

Quiet == /\ UNCHANGED <<current, hint>>
         /\ \A t \in Threads : ValueOf'[t] = ValueOf[t] /\ HintOf'[t] = HintOf[t]

(* Every step changes the values by what it changes of the totals. *)
LEMMA TotalsStep == LimitInv /\ [Next]_vars => Totals'
<1> SUFFICES ASSUME LimitInv, [Next]_vars PROVE Totals'
  OBVIOUS
<1>i. /\ AmountsOK /\ arg \in [Threads -> Calls]
      /\ \A t \in Threads : pc[t] = "asleep" <=> t \in ToSet(waitList)
      /\ pc \in [Threads -> {"user", "release"} \cup Holding \cup Reserving]
  BY AmountsHold DEF LimitInv, LocalTypeOK, WaitersListed
<1>a. AmountsOK' /\ arg' \in [Threads -> Calls]
  BY AmountsStep, CallsStep
<1>v. current \in Nat /\ hint \in Nat
  BY ValueRanges
<1>q. ASSUME Quiet PROVE Totals'
  <2>1. ValueOf' = ValueOf /\ HintOf' = HintOf
    BY <1>q DEF Quiet, ValueOf, HintOf
  <2> QED
    BY <1>q, <2>1 DEF Quiet, Totals, Total, Units, LimitInv, ValuesAccountedFor
<1>m. \A t \in Threads, v, h \in Int : Counted(t, v, h) => Totals'
  BY <1>a, CountedTotals
<1> USE DEF Quiet, ValueOf, HintOf, Pending, Goto, Return, vars, valueVars, ownVars
<1>1. CASE Tick
  <2>1. Quiet
    BY <1>i, <1>1 DEF Tick
  <2> QED
    BY <1>q, <2>1
<1>2. ASSUME NEW l \in Limits, SetLimitValue(l) PROVE Totals'
  <2>1. Quiet
    BY <1>i, <1>2 DEF SetLimitValue
  <2> QED
    BY <1>q, <2>1
<1>3. ASSUME NEW t \in Threads, NEW v \in Values, NEW d \in 1 .. MaxTime, Reserve(t, v, d)
      PROVE  Totals'
  <2>1. Quiet
    BY <1>i, <1>3 DEF Reserve
  <2> QED
    BY <1>q, <2>1
<1>4. ASSUME NEW t \in Threads, NEW v \in Values \cup {0}, NEW h \in Values \cup {0}, Release(t, v, h)
      PROVE  Totals'
  <2>1. /\ v \in Nat /\ h \in Nat /\ own[t] \in Nat /\ announced[t] \in Nat
    BY <1>i, AmountRanges DEF AmountsOK
  <2>2. /\ arg'[t].value = v /\ arg'[t].hint = h /\ Pending(t)' /\ ~Pending(t)
        /\ own'[t] = own[t] - v /\ announced'[t] = announced[t] + h - v
    BY <1>i, <1>4 DEF Release, NoCall, AmountsOK
  <2>3. /\ ValueOf'[t] = (own[t] - v) + v /\ ValueOf[t] = own[t] + 0
        /\ HintOf'[t] = (own[t] - v) - (announced[t] + h - v) + h
        /\ HintOf[t] = own[t] - announced[t] + 0
    BY <2>2
  <2>4. ValueOf'[t] = ValueOf[t] /\ HintOf'[t] = HintOf[t]
    BY <2>1, <2>3
  <2>5. \A u \in Threads \ {t} : /\ arg'[u] = arg[u] /\ pc'[u] = pc[u]
                                 /\ own'[u] = own[u] /\ announced'[u] = announced[u]
    BY <1>i, <1>4 DEF Release, AmountsOK
  <2>6. \A u \in Threads \ {t} : ValueOf'[u] = ValueOf[u] /\ HintOf'[u] = HintOf[u]
    BY <2>5
  <2>7. UNCHANGED <<current, hint>>
    BY <1>4 DEF Release
  <2> QED
    BY <1>q, <2>4, <2>6, <2>7
<1>5. ASSUME NEW t \in Threads, RequestTerminate(t) PROVE Totals'
  <2>1. Quiet
    BY <1>i, <1>5 DEF RequestTerminate
  <2> QED
    BY <1>q, <2>1
<1>6. ASSUME NEW t \in Threads, Lock(t) PROVE Totals'
  <2>1. Quiet
    BY <1>i, <1>6 DEF Lock
  <2> QED
    BY <1>q, <2>1
<1>7. ASSUME NEW t \in Threads, FirstCheck(t) PROVE Totals'
  <2>1. Quiet
    BY <1>i, <1>7 DEF FirstCheck
  <2> QED
    BY <1>q, <2>1
<1>8. ASSUME NEW t \in Threads, ReserveTakes(t) PROVE Totals'
  <2>0. PICK v \in Nat : v = arg[t].value
    BY <1>i DEF Calls
  <2>1. own[t] \in Nat /\ announced[t] \in Nat
    BY <1>i DEF AmountsOK
  <2>2. /\ ~Pending(t) /\ ~Pending(t)' /\ announced' = announced /\ own'[t] = own[t] + v
        /\ current' = current + v /\ hint' = hint + v
    BY <1>i, <1>8, <2>0 DEF ReserveTakes, AmountsOK
  <2>3. \A u \in Threads \ {t} : arg'[u] = arg[u] /\ pc'[u] = pc[u] /\ own'[u] = own[u]
    BY <1>i, <1>8 DEF ReserveTakes, AmountsOK
  <2>4. \A u \in Threads \ {t} : ValueOf'[u] = ValueOf[u] /\ HintOf'[u] = HintOf[u]
    BY <2>2, <2>3
  <2>5. /\ ValueOf'[t] = (own[t] + v) + 0 /\ ValueOf[t] = own[t] + 0
        /\ HintOf'[t] = (own[t] + v) - announced[t] + 0
        /\ HintOf[t] = own[t] - announced[t] + 0
    BY <2>2
  <2>6. ValueOf'[t] = ValueOf[t] + v /\ HintOf'[t] = HintOf[t] + v
    BY <2>1, <2>5
  <2>7. Counted(t, v, v)
    BY <2>2, <2>4, <2>6 DEF Counted
  <2> QED
    BY <1>m, <2>7
<1>9. ASSUME NEW t \in Threads, ReserveGivesUp(t) PROVE Totals'
  <2>1. Quiet
    BY <1>i, <1>9 DEF ReserveGivesUp
  <2> QED
    BY <1>q, <2>1
<1>10. ASSUME NEW t \in Threads, ReserveWaits(t) PROVE Totals'
  <2>1. Quiet
    BY <1>i, <1>10 DEF ReserveWaits
  <2> QED
    BY <1>q, <2>1
<1>11. ASSUME NEW t \in Threads, WaitSleeps(t) PROVE Totals'
  <2>1. Quiet
    BY <1>i, <1>11 DEF WaitSleeps
  <2> QED
    BY <1>q, <2>1
<1>12. ASSUME NEW t \in Threads, TimerExpires(t) PROVE Totals'
  <2>1. Quiet
    BY <1>i, <1>12 DEF TimerExpires
  <2> QED
    BY <1>q, <2>1
<1>13. ASSUME NEW t \in Threads, ReleaseUpdates(t) PROVE Totals'
  <2>0. PICK v \in Nat, h \in Nat : v = arg[t].value /\ h = arg[t].hint
    BY <1>i DEF Calls
  <2>1. own[t] \in Nat /\ announced[t] \in Nat
    BY <1>i DEF AmountsOK
  <2>2. /\ Pending(t) /\ ~Pending(t)' /\ UNCHANGED <<own, announced>>
        /\ current' = current - v /\ hint' = hint - h
    BY <1>i, <1>13, <2>0 DEF ReleaseUpdates
  <2>3. \A u \in Threads \ {t} : arg'[u] = arg[u] /\ pc'[u] = pc[u]
    BY <1>i, <1>13 DEF ReleaseUpdates
  <2>4. \A u \in Threads \ {t} : ValueOf'[u] = ValueOf[u] /\ HintOf'[u] = HintOf[u]
    BY <2>2, <2>3
  <2>5. /\ ValueOf'[t] = own[t] + 0 /\ ValueOf[t] = own[t] + v
        /\ HintOf'[t] = own[t] - announced[t] + 0
        /\ HintOf[t] = own[t] - announced[t] + h
    BY <2>0, <2>2
  <2>6. ValueOf'[t] = ValueOf[t] + (-v) /\ HintOf'[t] = HintOf[t] + (-h)
    BY <2>1, <2>5
  <2>7. current' = current + (-v) /\ hint' = hint + (-h) /\ -v \in Int /\ -h \in Int
    BY <2>1, <2>2, <1>v
  <2>8. Counted(t, -v, -h)
    BY <2>4, <2>6, <2>7 DEF Counted
  <2> QED
    BY <1>m, <2>7, <2>8
<1>14. ASSUME NEW t \in Threads, Broadcast(t) PROVE Totals'
  <2>1. Quiet
    BY <1>i, <1>14 DEF Broadcast
  <2> QED
    BY <1>q, <2>1
<1>15. CASE UNCHANGED vars
  <2>1. Quiet
    BY <1>i, <1>15
  <2> QED
    BY <1>q, <2>1
<1> QED
  BY <1>1, <1>2, <1>3, <1>4, <1>5, <1>6, <1>7, <1>8, <1>9, <1>10, <1>11, <1>12, <1>13, <1>14,
     <1>15 DEF Next, Step

-----------------------------------------------------------------------------
(* The limit and the peak bound the value. *)
Bounds == limit \in 0 .. IntMax /\ peak \in 0 .. IntMax /\ current <= limit /\ current <= peak

(* The maximum of two numbers. *)
LEMMA MaxOfTwo ==
    ASSUME NEW x \in Int, NEW y \in Int
    PROVE  Max({x, y}) \in {x, y} /\ Max({x, y}) >= x /\ Max({x, y}) >= y
<1>1. \E m \in {x, y} : \A z \in {x, y} : m >= z
  <2>1. CASE x >= y
    BY <2>1
  <2>2. CASE y >= x
    BY <2>2
  <2> QED
    BY <2>1, <2>2
<1> QED
  BY <1>1 DEF Max

(* What the totals bound. *)
LEMMA TotalsBound ==
    ASSUME AmountsOK, LocalTypeOK, Totals
    PROVE  /\ current \in Nat /\ hint \in Nat /\ hint <= current
           /\ \A t \in Threads : own[t] <= current
<1>1. /\ ValueOf \in [Threads -> Nat] /\ HintOf \in [Threads -> Nat]
      /\ \A t \in Threads : HintOf[t] <= ValueOf[t] /\ own[t] <= ValueOf[t]
  BY AmountTypes DEF LocalTypeOK
<1>2. Total(ValueOf) \in Nat /\ Total(HintOf) \in Nat /\ Total(HintOf) <= Total(ValueOf)
  BY <1>1, UnitsFinite, TotalMonotone
<1>3. ASSUME NEW t \in Threads PROVE own[t] <= Total(ValueOf)
  <2>1. ValueOf[t] <= Total(ValueOf) /\ ValueOf[t] \in Nat
    BY <1>1, TotalCovers
  <2>2. own[t] \in Nat /\ own[t] <= ValueOf[t]
    BY <1>1 DEF AmountsOK
  <2> QED
    BY <2>1, <2>2, <1>2
<1> QED
  BY <1>2, <1>3 DEF Totals

(* Value, hint and peak stay within the limit. *)
LEMMA BoundsStep == LimitInv /\ [Next]_vars /\ Totals' /\ AmountsOK' /\ LocalTypeOK' => Bounds'
<1> SUFFICES ASSUME LimitInv, [Next]_vars, Totals', AmountsOK', LocalTypeOK' PROVE Bounds'
  OBVIOUS
<1>i. Bounds
  BY ValueRanges DEF LimitInv, ValuesAccountedFor, Bounds
<1>w. (AmountsOK /\ LocalTypeOK /\ Totals => current \in Nat)'
  BY TotalsBound, PTL
<1>v. /\ current \in Nat /\ limit \in Nat /\ peak \in Nat /\ IntMax \in Nat
      /\ limit <= IntMax /\ peak <= IntMax /\ current <= limit /\ current <= peak
      /\ current' \in Nat
  BY <1>i, <1>w, ValueRanges, LimitAssumption DEF Bounds
<1> USE DEF Bounds, Goto, Return, vars, valueVars
<1>1. CASE Tick
  BY <1>i, <1>1 DEF Tick
<1>2. ASSUME NEW l \in Limits, SetLimitValue(l) PROVE Bounds'
  <2>1. l \in 0 .. IntMax /\ limit' = l /\ peak' = current /\ current' = current /\ current <= l
    BY <1>2, AmountRanges DEF SetLimitValue
  <2> QED
    BY <2>1, <1>v
<1>3. ASSUME NEW t \in Threads, NEW v \in Values, NEW d \in 1 .. MaxTime, Reserve(t, v, d)
      PROVE  Bounds'
  BY <1>i, <1>3 DEF Reserve
<1>4. ASSUME NEW t \in Threads, NEW v \in Values \cup {0}, NEW h \in Values \cup {0}, Release(t, v, h)
      PROVE  Bounds'
  BY <1>i, <1>4 DEF Release
<1>5. ASSUME NEW t \in Threads, RequestTerminate(t) PROVE Bounds'
  BY <1>i, <1>5 DEF RequestTerminate
<1>6. ASSUME NEW t \in Threads, Lock(t) PROVE Bounds'
  BY <1>i, <1>6 DEF Lock
<1>7. ASSUME NEW t \in Threads, FirstCheck(t) PROVE Bounds'
  BY <1>i, <1>7 DEF FirstCheck
<1>8. ASSUME NEW t \in Threads, ReserveTakes(t) PROVE Bounds'
  <2>0. PICK v \in Nat : v = arg[t].value /\ v <= IntMax
    BY CallFields
  <2>1. /\ ~Overflows(v) /\ Fits(v) /\ current' = current + v
        /\ peak' = Max({peak, current'}) /\ limit' = limit
    BY <1>8, <2>0 DEF ReserveTakes
  <2>2. current + v <= limit
    BY <2>0, <2>1, <1>v, ReserveTests
  <2>3. PICK y \in Nat : y = current + v
    BY <1>v
  <2>4. Max({peak, y}) \in {peak, y} /\ Max({peak, y}) >= y
    <3>1. peak \in Int /\ y \in Int
      BY <1>v
    <3> QED
      BY <3>1, MaxOfTwo, Zenon
  <2> QED
    BY <2>1, <2>2, <2>3, <2>4, <1>v
<1>9. ASSUME NEW t \in Threads, ReserveGivesUp(t) PROVE Bounds'
  BY <1>i, <1>9 DEF ReserveGivesUp
<1>10. ASSUME NEW t \in Threads, ReserveWaits(t) PROVE Bounds'
  BY <1>i, <1>10 DEF ReserveWaits
<1>11. ASSUME NEW t \in Threads, WaitSleeps(t) PROVE Bounds'
  BY <1>i, <1>11 DEF WaitSleeps
<1>12. ASSUME NEW t \in Threads, TimerExpires(t) PROVE Bounds'
  BY <1>i, <1>12 DEF TimerExpires
<1>13. ASSUME NEW t \in Threads, ReleaseUpdates(t) PROVE Bounds'
  <2>0. PICK v \in Nat : v = arg[t].value
    BY CallFields
  <2>1. current' = current - v /\ UNCHANGED <<limit, peak>>
    BY <1>13, <2>0 DEF ReleaseUpdates
  <2> QED
    BY <2>1, <1>v
<1>14. ASSUME NEW t \in Threads, Broadcast(t) PROVE Bounds'
  BY <1>i, <1>14 DEF Broadcast
<1>15. CASE UNCHANGED vars
  BY <1>i, <1>15
<1> QED
  BY <1>1, <1>2, <1>3, <1>4, <1>5, <1>6, <1>7, <1>8, <1>9, <1>10, <1>11, <1>12, <1>13, <1>14,
     <1>15 DEF Next, Step

(* The rest of TypeOK. *)
OthersOK == /\ mlock \in Threads \cup {NoThread} /\ slock \in Threads \cup {NoThread}
            /\ now \in 0 .. MaxTime /\ doomed \subseteq Terminable

(* The rest of the invariant. *)
LEMMA OthersStep == LimitInv /\ [Next]_vars => OthersOK'
<1> SUFFICES ASSUME OthersOK, [Next]_vars PROVE OthersOK'
  BY DEF LimitInv, TypeOK, OthersOK
<1> USE DEF OthersOK, Return, vars
<1>1. CASE Tick
  BY <1>1, LimitAssumption DEF Tick
<1>2. ASSUME NEW l \in Limits, SetLimitValue(l) PROVE OthersOK'
  BY <1>2 DEF SetLimitValue
<1>3. ASSUME NEW t \in Threads, NEW v \in Values, NEW d \in 1 .. MaxTime, Reserve(t, v, d)
      PROVE  OthersOK'
  BY <1>3 DEF Reserve
<1>4. ASSUME NEW t \in Threads, NEW v \in Values \cup {0}, NEW h \in Values \cup {0}, Release(t, v, h)
      PROVE  OthersOK'
  BY <1>4 DEF Release
<1>5. ASSUME NEW t \in Threads, RequestTerminate(t) PROVE OthersOK'
  BY <1>5 DEF RequestTerminate
<1>6. ASSUME NEW t \in Threads, Lock(t) PROVE OthersOK'
  BY <1>6 DEF Lock
<1>7. ASSUME NEW t \in Threads, FirstCheck(t) PROVE OthersOK'
  BY <1>7 DEF FirstCheck
<1>8. ASSUME NEW t \in Threads, ReserveTakes(t) PROVE OthersOK'
  BY <1>8 DEF ReserveTakes
<1>9. ASSUME NEW t \in Threads, ReserveGivesUp(t) PROVE OthersOK'
  BY <1>9 DEF ReserveGivesUp
<1>10. ASSUME NEW t \in Threads, ReserveWaits(t) PROVE OthersOK'
  BY <1>10 DEF ReserveWaits
<1>11. ASSUME NEW t \in Threads, WaitSleeps(t) PROVE OthersOK'
  BY <1>11 DEF WaitSleeps
<1>12. ASSUME NEW t \in Threads, TimerExpires(t) PROVE OthersOK'
  BY <1>12 DEF TimerExpires
<1>13. ASSUME NEW t \in Threads, ReleaseUpdates(t) PROVE OthersOK'
  BY <1>13 DEF ReleaseUpdates
<1>14. ASSUME NEW t \in Threads, Broadcast(t) PROVE OthersOK'
  BY <1>14 DEF Broadcast
<1>15. CASE UNCHANGED vars
  BY <1>15
<1> QED
  BY <1>1, <1>2, <1>3, <1>4, <1>5, <1>6, <1>7, <1>8, <1>9, <1>10, <1>11, <1>12, <1>13, <1>14,
     <1>15 DEF Next, Step

-----------------------------------------------------------------------------
(* The invariant is the conjunction of these parts. *)
LEMMA LimitParts ==
    LocalTypeOK /\ LocksHeld /\ ListedSleepers /\ CountedWaiters /\ WaiterDoesNotFit
    /\ AmountsOK /\ Totals /\ Bounds /\ OthersOK
      => LimitInv
<1> SUFFICES ASSUME LocalTypeOK, LocksHeld, ListedSleepers, CountedWaiters, WaiterDoesNotFit,
                    AmountsOK, Totals, Bounds, OthersOK
             PROVE  LimitInv
  OBVIOUS
<1>0. IntMax \in Nat
  BY LimitAssumption
<1>1. WaitersListed /\ waiterCount \in 0 .. Cardinality(Threads)
  BY WaitersType
<1>2. /\ current \in Nat /\ hint \in Nat /\ hint <= current
      /\ \A t \in Threads : own[t] <= current
  BY TotalsBound
<1>3. /\ limit \in 0 .. IntMax /\ peak \in 0 .. IntMax /\ current <= limit /\ current <= peak
  BY DEF Bounds
<1>4. ValuesAccountedFor
  BY <1>2, <1>3 DEF ValuesAccountedFor, Totals
<1>5. ASSUME NEW t \in Threads PROVE own[t] \in 0 .. IntMax /\ announced[t] \in 0 .. IntMax
  <2>1. own[t] \in Nat /\ announced[t] \in Nat /\ announced[t] <= own[t] /\ own[t] <= current
    BY <1>2 DEF AmountsOK, AmountsMatch
  <2> QED
    BY <2>1, <1>0, <1>2, <1>3
<1>6. own \in [Threads -> 0 .. IntMax] /\ announced \in [Threads -> 0 .. IntMax]
  BY <1>5 DEF AmountsOK
<1>7. {current, hint, limit, peak} \subseteq -(IntMax + 1) .. IntMax
  <2>1. \A x \in Nat : x <= IntMax => x \in -(IntMax + 1) .. IntMax
    BY <1>0
  <2> QED
    BY <2>1, <1>0, <1>2, <1>3
<1>8. TypeOK
  BY <1>1, <1>6, <1>7 DEF TypeOK, OthersOK, ListedSleepers
<1> QED
  BY <1>1, <1>4, <1>8 DEF LimitInv, AmountsOK

(* The invariant holds initially. *)
LEMMA LimitInit == Init => LimitInv
<1> SUFFICES ASSUME Init PROVE LimitInv
  OBVIOUS
<1>1. LocalTypeOK /\ LocksHeld
  BY CallTypes, LimitAssumption DEF Init, LocalTypeOK, LocksHeld, Holding, Reserving, Waiting
<1>2. ListedSleepers
  BY DEF Init, ListedSleepers, ToSet, IsInjective
<1>3. CountedWaiters
  <2>1. Waiters = {}
    BY DEF Init, Waiters, Waiting
  <2> QED
    BY <2>1, FS_EmptySet DEF Init, CountedWaiters
<1>4. WaiterDoesNotFit
  BY DEF Init, WaiterDoesNotFit
<1>5. AmountsOK
  BY DEF Init, AmountsOK, AmountsMatch, Pending, Reserving, Waiting
<1>6. Totals
  <2>1. /\ ValueOf \in [Threads -> Nat] /\ \A t \in Threads : ValueOf[t] = 0
        /\ HintOf \in [Threads -> Nat] /\ \A t \in Threads : HintOf[t] = 0
    BY DEF Init, ValueOf, HintOf, Pending
  <2> QED
    BY <2>1, TotalZero DEF Init, Totals
<1>7. Bounds
  <2>1. limit \in 0 .. IntMax
    BY AmountRanges DEF Init
  <2> QED
    BY <2>1, LimitAssumption DEF Init, Bounds
<1>8. OthersOK
  BY LimitAssumption DEF Init, OthersOK
<1> QED
  BY <1>1, <1>2, <1>3, <1>4, <1>5, <1>6, <1>7, <1>8, LimitParts

(* Every step preserves it. *)
LEMMA LimitStep == LimitInv /\ [Next]_vars => LimitInv'
<1> SUFFICES ASSUME LimitInv, [Next]_vars PROVE LimitInv'
  OBVIOUS
<1>1. LocalTypeOK' /\ LocksHeld'
  BY LocksStep
<1>2. ListedSleepers' /\ CountedWaiters' /\ WaiterDoesNotFit'
  BY ListedStep, CountedStep, FitStep
<1>3. AmountsOK' /\ Totals' /\ OthersOK'
  BY AmountsStep, TotalsStep, OthersStep
<1>4. Bounds'
  BY <1>1, <1>3, BoundsStep
<1>5. (LocalTypeOK /\ LocksHeld /\ ListedSleepers /\ CountedWaiters /\ WaiterDoesNotFit
       /\ AmountsOK /\ Totals /\ Bounds /\ OthersOK => LimitInv)'
  BY LimitParts, PTL
<1> QED
  BY <1>1, <1>2, <1>3, <1>4, <1>5

(* LimitInv is an invariant of KResourceLimit, for any threads and limit:  *)
(* Reserve, Release and SetLimitValue keep value, hint and waiters in      *)
(* step.                                                                   *)
THEOREM LimitInvariant == Spec => []LimitInv
  BY LimitInit, LimitStep, PTL DEF Spec

(* The values every function of KResourceLimit asserts are exact: what is  *)
(* in use is what the owners hold or are releasing, the hint is what they  *)
(* have not announced, and the limit is never exceeded, whatever amounts   *)
(* and limits are asked for and however the sums would wrap.               *)
THEOREM LimitValuesCorrect == Spec => []ValuesAccountedFor
<1>1. LimitInv => ValuesAccountedFor
  BY DEF LimitInv
<1> QED
  BY <1>1, LimitInvariant, PTL

(* No reservation sleeps through a release: it is counted from the moment  *)
(* it gives up m_lock, and whoever lowers the value while one waits        *)
(* broadcasts (k_light_condition_variable.cpp).                            *)
THEOREM LimitNoMissedRelease == Spec => []NoMissedRelease
<1>1. LimitInv => NoMissedRelease
  <2> SUFFICES ASSUME LimitInv PROVE NoMissedRelease
    OBVIOUS
  <2>1. SleeperDoesNotFit
    BY DEF LimitInv, WaiterDoesNotFit, SleeperDoesNotFit
  <2> QED
    BY <2>1 DEF LimitInv, NoMissedRelease
<1> QED
  BY <1>1, LimitInvariant, PTL

(* Each step of the limit is one of the budget, or none of it. *)
LEMMA BudgetStep == LimitInv /\ [Next]_vars => [Budget!Next]_<<current, limit>>
<1> SUFFICES ASSUME LimitInv, [Next]_vars PROVE Budget!Next \/ UNCHANGED <<current, limit>>
  OBVIOUS
<1>v. current \in Nat /\ limit \in Nat /\ current <= limit
  BY ValueRanges DEF LimitInv, ValuesAccountedFor
<1> USE DEF vars, valueVars
<1>1. CASE Tick
  BY <1>1 DEF Tick
<1>2. ASSUME NEW l \in Limits, SetLimitValue(l) PROVE Budget!Next \/ UNCHANGED <<current, limit>>
  <2>1. limit' = l /\ current' = current /\ current <= l
    BY <1>2 DEF SetLimitValue
  <2> QED
    BY <2>1 DEF Budget!Next, Budget!SetLimit
<1>3. ASSUME NEW t \in Threads, NEW v \in Values, NEW d \in 1 .. MaxTime, Reserve(t, v, d)
      PROVE  Budget!Next \/ UNCHANGED <<current, limit>>
  BY <1>3 DEF Reserve
<1>4. ASSUME NEW t \in Threads, NEW v \in Values \cup {0}, NEW h \in Values \cup {0}, Release(t, v, h)
      PROVE  Budget!Next \/ UNCHANGED <<current, limit>>
  BY <1>4 DEF Release
<1>5. ASSUME NEW t \in Threads, RequestTerminate(t) PROVE Budget!Next \/ UNCHANGED <<current, limit>>
  BY <1>5 DEF RequestTerminate
<1>6. ASSUME NEW t \in Threads, Lock(t) PROVE Budget!Next \/ UNCHANGED <<current, limit>>
  BY <1>6 DEF Lock
<1>7. ASSUME NEW t \in Threads, FirstCheck(t) PROVE Budget!Next \/ UNCHANGED <<current, limit>>
  BY <1>7 DEF FirstCheck
<1>8. ASSUME NEW t \in Threads, ReserveTakes(t) PROVE Budget!Next \/ UNCHANGED <<current, limit>>
  <2>0. PICK v \in Nat : v = arg[t].value /\ v <= IntMax
    BY CallFields
  <2>1. /\ pc[t] = "loop" /\ ~Overflows(v) /\ Fits(v) /\ current' = current + v
        /\ limit' = limit
    BY <1>8, <2>0 DEF ReserveTakes
  <2>2. current + v <= limit
    BY <2>0, <2>1, <1>v, ReserveTests
  <2>3. v > 0
    BY <2>0, <2>1 DEF LimitInv, AmountsMatch, Reserving
  <2>4. v \in 1 .. limit
    BY <2>2, <2>3, <1>v
  <2> QED
    BY <2>1, <2>2, <2>3, <2>4 DEF Budget!Next, Budget!Take
<1>9. ASSUME NEW t \in Threads, ReserveGivesUp(t) PROVE Budget!Next \/ UNCHANGED <<current, limit>>
  BY <1>9 DEF ReserveGivesUp
<1>10. ASSUME NEW t \in Threads, ReserveWaits(t) PROVE Budget!Next \/ UNCHANGED <<current, limit>>
  BY <1>10 DEF ReserveWaits
<1>11. ASSUME NEW t \in Threads, WaitSleeps(t) PROVE Budget!Next \/ UNCHANGED <<current, limit>>
  BY <1>11 DEF WaitSleeps
<1>12. ASSUME NEW t \in Threads, TimerExpires(t) PROVE Budget!Next \/ UNCHANGED <<current, limit>>
  BY <1>12 DEF TimerExpires
<1>13. ASSUME NEW t \in Threads, ReleaseUpdates(t) PROVE Budget!Next \/ UNCHANGED <<current, limit>>
  <2>0. PICK v \in Nat : v = arg[t].value
    BY CallFields
  <2>1. current' = current - v /\ limit' = limit /\ pc[t] = "releasing"
    BY <1>13, <2>0 DEF ReleaseUpdates
  <2>2. v <= current
    <3>1. ValueOf \in [Threads -> Nat] /\ current = Total(ValueOf) /\ own[t] \in Nat
      BY AmountsHold, AmountTypes DEF LimitInv, ValuesAccountedFor, AmountsOK
    <3>2. ValueOf[t] = own[t] + v
      BY <2>0, <2>1 DEF ValueOf, Pending
    <3>3. own[t] + v <= current
      BY <3>1, <3>2, TotalCovers
    <3> QED
      BY <3>1, <3>3, <1>v
  <2>3. CASE v = 0
    BY <2>1, <2>3, <1>v
  <2>4. CASE v > 0
    <3>1. v \in 1 .. limit
      BY <2>2, <2>4, <1>v
    <3> QED
      BY <2>1, <2>2, <2>4, <3>1 DEF Budget!Next, Budget!Give
  <2> QED
    BY <2>3, <2>4
<1>14. ASSUME NEW t \in Threads, Broadcast(t) PROVE Budget!Next \/ UNCHANGED <<current, limit>>
  BY <1>14 DEF Broadcast
<1>15. CASE UNCHANGED vars
  BY <1>15
<1> QED
  BY <1>1, <1>2, <1>3, <1>4, <1>5, <1>6, <1>7, <1>8, <1>9, <1>10, <1>11, <1>12, <1>13, <1>14,
     <1>15 DEF Next, Step

(* KResourceLimit implements ResourceBudget: a Reserve that succeeds took  *)
(* an amount that fitted when it was taken, and a Release gives back what  *)
(* was taken, in spite of the wait in between and the two-phase release.   *)
THEOREM LimitImplementsBudget == Spec => BudgetSpec
<1>1. Init => Budget!Init
  <2>1. \A l \in Limits : l \in Nat
    BY AmountRanges
  <2> QED
    BY <2>1 DEF Init, Budget!Init
<1> QED
  BY <1>1, LimitInvariant, BudgetStep, PTL DEF Spec, BudgetSpec, Budget!Spec
=============================================================================

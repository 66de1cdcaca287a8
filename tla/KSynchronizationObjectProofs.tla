-------------------- MODULE KSynchronizationObjectProofs --------------------
(***************************************************************************)
(* Proofs about KSynchronizationObject, for every number of threads and    *)
(* objects and every length of a wait: the intrusive wait lists hold       *)
(* exactly the nodes of the threads that wait, whatever order waits end    *)
(* in, and no wake-up or cancellation is lost.                             *)
(*                                                                         *)
(* The module goes from numbers to lists to steps: induction up to n, the  *)
(* loops of Wait and of OnTimer, one list and its first and last node,     *)
(* all lists together, and then one lemma for each action.                 *)
(***************************************************************************)
EXTENDS KSynchronizationObject, FiniteSetTheorems, WellFoundedInduction, TLAPS

(* A non-empty set of natural numbers has a least element. *)
LEMMA LeastNumber ==
    ASSUME NEW T \in SUBSET Nat, T # {}
    PROVE  \E x \in T : \A y \in T : x <= y
<1>1. PICK R : R = OpToRel(<, Nat)
  BY Zenon
<1>2. IsWellFoundedOn(R, Nat)
  BY <1>1, NatLessThanWellFounded, Zenon
<1>3. \E x \in T : \A y \in T : ~ (<<y, x>> \in R)
  BY <1>2, WFMin, Zenon
<1>4. PICK x \in T : \A y \in T : ~ (<<y, x>> \in R)
  BY <1>3
<1>5. \A y \in T : ~ (y < x)
  BY <1>4, <1>1 DEF OpToRel
<1> QED
  BY <1>5

(* Induction up to n, with the set of the numbers that are done for the property. *)
LEMMA InductionUpTo ==
    ASSUME NEW n \in Nat, NEW T, 0 \in T,
           \A i \in 1 .. n : i - 1 \in T => i \in T
    PROVE  \A i \in 0 .. n : i \in T
<1> SUFFICES ASSUME NEW j \in 0 .. n, j \notin T
             PROVE  FALSE
  OBVIOUS
<1>1. PICK U : U = {i \in 0 .. n : i \notin T}
  OBVIOUS
<1>2. PICK x \in U : \A y \in U : x <= y
  <2>1. U \in SUBSET Nat /\ U # {}
    BY <1>1
  <2> QED
    BY <2>1, LeastNumber
<1>3. x \in 1 .. n /\ x - 1 \in 0 .. n /\ x \notin T
  BY <1>1
<1>4. x - 1 \notin U
  BY <1>2, <1>3
<1>5. x - 1 \in T
  BY <1>1, <1>3, <1>4
<1> QED
  BY <1>3, <1>5

(* What the loop of Wait computes: one function of the number of iterations       *)
(* starts with L, each value coming from the one before.                          *)
IsLinkAllLoop(g, L, t, os) ==
    /\ g[0] = L
    /\ \A i \in 1 .. Len(os) : g[i] = LinkNode(g[i - 1], os[i], <<t, i - 1>>)
    /\ LinkAll(L, t, os) = g[Len(os)]

(* Such a function exists, for every list of objects. *)
LEMMA LinkAllLoop ==
    ASSUME NEW L, NEW t, NEW os \in Seq(Objects)
    PROVE  \E g : IsLinkAllLoop(g, L, t, os)
<1> DEFINE Def(k, g) == [i \in 0 .. k |->
                           IF i = 0 THEN L ELSE LinkNode(g[i - 1], os[i], <<t, i - 1>>)]
<1>1. PICK n \in Nat : n = Len(os)
  OBVIOUS
<1>2. PICK T : T = {k \in 0 .. n : \E g : g = Def(k, g)}
  OBVIOUS
<1>3. 0 \in T
  <2>1. [i \in 0 .. 0 |-> L] = Def(0, [i \in 0 .. 0 |-> L])
    OBVIOUS
  <2> HIDE DEF Def
  <2> QED
    BY <1>2, <2>1
<1>4. ASSUME NEW k \in 1 .. n, k - 1 \in T
      PROVE  k \in T
  <2>1. PICK g : g = Def(k - 1, g)
    BY <1>2, <1>4
  <2>2. PICK h : h = [i \in 0 .. k |->
                        IF i = k THEN LinkNode(g[k - 1], os[k], <<t, k - 1>>) ELSE g[i]]
    OBVIOUS
  <2>3. ASSUME NEW i \in 0 .. k
        PROVE  h[i] = IF i = 0 THEN L ELSE LinkNode(h[i - 1], os[i], <<t, i - 1>>)
    <3>1. CASE i = k
      BY <2>2, <3>1
    <3>2. CASE i # k
      <4>1. h[i] = g[i] /\ (i # 0 => h[i - 1] = g[i - 1])
        BY <2>2, <3>2
      <4>2. g[i] = IF i = 0 THEN L ELSE LinkNode(g[i - 1], os[i], <<t, i - 1>>)
        BY <2>1, <3>2
      <4> QED
        BY <4>1, <4>2
    <3> QED
      BY <3>1, <3>2
  <2>4. h = Def(k, h)
    BY <2>2, <2>3
  <2> HIDE DEF Def
  <2> QED
    BY <1>2, <2>4
<1>5. PICK h : h = Def(n, h)
  <2> HIDE DEF Def
  <2>1. \A k \in 1 .. n : k - 1 \in T => k \in T
    BY <1>4
  <2>2. \A k \in 0 .. n : k \in T
    BY <1>3, <2>1, InductionUpTo
  <2>3. n \in T
    BY <2>2
  <2> QED
    BY <1>2, <2>3
<1>6. PICK g : g = CHOOSE f : f = Def(n, f)
  OBVIOUS
<1>7. g = Def(n, g)
  <2> HIDE DEF Def
  <2> QED
    BY <1>5, <1>6, Zenon
<1>8. LinkAll(L, t, os) = g[Len(os)]
  BY <1>1, <1>6 DEF LinkAll
<1>9. ASSUME NEW i \in 0 .. n
      PROVE  g[i] = IF i = 0 THEN L ELSE LinkNode(g[i - 1], os[i], <<t, i - 1>>)
  <2>1. Def(n, g)[i] = IF i = 0 THEN L ELSE LinkNode(g[i - 1], os[i], <<t, i - 1>>)
    OBVIOUS
  <2> HIDE DEF Def
  <2> QED
    BY <1>7, <2>1
<1>10. g[0] = L
  <2>1. 0 \in 0 .. n
    OBVIOUS
  <2> QED
    BY <1>9, <2>1
<1>11. ASSUME NEW i \in 1 .. Len(os)
       PROVE  g[i] = LinkNode(g[i - 1], os[i], <<t, i - 1>>)
  BY <1>1, <1>9
<1> QED
  BY <1>8, <1>10, <1>11 DEF IsLinkAllLoop

(* What the loop of NotifyAvailable and CancelWait computes: one function of the  *)
(* number of iterations starts with L, each value coming from the one before.     *)
IsUnlinkAllLoop(g, L, t, os) ==
    /\ g[0] = L
    /\ \A i \in 1 .. Len(os) : g[i] = UnlinkNode(g[i - 1], os[i], <<t, i - 1>>)
    /\ UnlinkAll(L, t, os) = g[Len(os)]

(* Such a function exists for the loop that unlinks, too. *)
LEMMA UnlinkAllLoop ==
    ASSUME NEW L, NEW t, NEW os \in Seq(Objects)
    PROVE  \E g : IsUnlinkAllLoop(g, L, t, os)
<1> DEFINE Def(k, g) == [i \in 0 .. k |->
                           IF i = 0 THEN L ELSE UnlinkNode(g[i - 1], os[i], <<t, i - 1>>)]
<1>1. PICK n \in Nat : n = Len(os)
  OBVIOUS
<1>2. PICK T : T = {k \in 0 .. n : \E g : g = Def(k, g)}
  OBVIOUS
<1>3. 0 \in T
  <2>1. [i \in 0 .. 0 |-> L] = Def(0, [i \in 0 .. 0 |-> L])
    OBVIOUS
  <2> HIDE DEF Def
  <2> QED
    BY <1>2, <2>1
<1>4. ASSUME NEW k \in 1 .. n, k - 1 \in T
      PROVE  k \in T
  <2>1. PICK g : g = Def(k - 1, g)
    BY <1>2, <1>4
  <2>2. PICK h : h = [i \in 0 .. k |->
                        IF i = k THEN UnlinkNode(g[k - 1], os[k], <<t, k - 1>>) ELSE g[i]]
    OBVIOUS
  <2>3. ASSUME NEW i \in 0 .. k
        PROVE  h[i] = IF i = 0 THEN L ELSE UnlinkNode(h[i - 1], os[i], <<t, i - 1>>)
    <3>1. CASE i = k
      BY <2>2, <3>1
    <3>2. CASE i # k
      <4>1. h[i] = g[i] /\ (i # 0 => h[i - 1] = g[i - 1])
        BY <2>2, <3>2
      <4>2. g[i] = IF i = 0 THEN L ELSE UnlinkNode(g[i - 1], os[i], <<t, i - 1>>)
        BY <2>1, <3>2
      <4> QED
        BY <4>1, <4>2
    <3> QED
      BY <3>1, <3>2
  <2>4. h = Def(k, h)
    BY <2>2, <2>3
  <2> HIDE DEF Def
  <2> QED
    BY <1>2, <2>4
<1>5. PICK h : h = Def(n, h)
  <2> HIDE DEF Def
  <2>1. \A k \in 1 .. n : k - 1 \in T => k \in T
    BY <1>4
  <2>2. \A k \in 0 .. n : k \in T
    BY <1>3, <2>1, InductionUpTo
  <2>3. n \in T
    BY <2>2
  <2> QED
    BY <1>2, <2>3
<1>6. PICK g : g = CHOOSE f : f = Def(n, f)
  OBVIOUS
<1>7. g = Def(n, g)
  <2> HIDE DEF Def
  <2> QED
    BY <1>5, <1>6, Zenon
<1>8. UnlinkAll(L, t, os) = g[Len(os)]
  BY <1>1, <1>6 DEF UnlinkAll
<1>9. ASSUME NEW i \in 0 .. n
      PROVE  g[i] = IF i = 0 THEN L ELSE UnlinkNode(g[i - 1], os[i], <<t, i - 1>>)
  <2>1. Def(n, g)[i] = IF i = 0 THEN L ELSE UnlinkNode(g[i - 1], os[i], <<t, i - 1>>)
    OBVIOUS
  <2> HIDE DEF Def
  <2> QED
    BY <1>7, <2>1
<1>10. g[0] = L
  <2>1. 0 \in 0 .. n
    OBVIOUS
  <2> QED
    BY <1>9, <2>1
<1>11. ASSUME NEW i \in 1 .. Len(os)
       PROVE  g[i] = UnlinkNode(g[i - 1], os[i], <<t, i - 1>>)
  BY <1>1, <1>9
<1> QED
  BY <1>8, <1>10, <1>11 DEF IsUnlinkAllLoop

-----------------------------------------------------------------------------
(* Pointers as the type invariant has them. *)
Links == [head : [Objects -> Nodes \cup {Null}],
          tail : [Objects -> Nodes \cup {Null}],
          next : [Nodes -> Nodes \cup {Null}]]

(* The list of o is q[1], ..., q[m], and q[m + 1] the null pointer at its end. *)
IsList(L, o, m, q) ==
    /\ m \in Nat
    /\ q \in [1 .. m + 1 -> Nodes \cup {Null}]
    /\ q[m + 1] = Null
    /\ \A i \in 1 .. m : q[i] \in Nodes /\ L.next[q[i]] = q[i + 1]
    /\ \A i, j \in 1 .. m : q[i] = q[j] => i = j
    /\ L.head[o] = q[1]
    /\ L.tail[o] = IF m = 0 THEN Null ELSE q[m]

(* The list of o holds the nodes N, each once, in some order. *)
ListHolds(L, o, N) == \E m, q : IsList(L, o, m, q) /\ N = {q[i] : i \in 1 .. m}

(* There are finitely many nodes. *)
LEMMA NodesFinite == IsFiniteSet(Nodes) /\ Cardinality(Nodes) \in Nat
<1>1. IsFiniteSet(0 .. ArgumentHandleCountMax - 1)
  BY WaitListsAssumption, FS_Interval
<1>2. IsFiniteSet(Nodes)
  BY <1>1, WaitersAssumption, FS_Product DEF Nodes
<1> QED
  BY <1>2, FS_CardinalityType

(* A list is no longer than there are nodes. *)
LEMMA ListLength ==
    ASSUME NEW L, NEW o, NEW m, NEW q, IsList(L, o, m, q)
    PROVE  m <= Cardinality(Nodes)
<1> SUFFICES ASSUME Cardinality(Nodes) < m
             PROVE  FALSE
  BY NodesFinite DEF IsList
<1>1. m \in Nat
  BY DEF IsList
<1>2. IsFiniteSet(1 .. m) /\ Cardinality(1 .. m) = m
  BY <1>1, FS_Interval, NodesFinite
<1>3. PICK f : f = [i \in 1 .. m |-> q[i]]
  OBVIOUS
<1>4. f \in [1 .. m -> Nodes]
  BY <1>1, <1>3 DEF IsList
<1>5. \E x, y \in 1 .. m : x # y /\ f[x] = f[y]
  BY <1>2, <1>4, NodesFinite, FS_PigeonHole
<1> QED
  BY <1>3, <1>5 DEF IsList

(* Linked finds the list, whatever it is. *)
LEMMA LinkedIsList ==
    ASSUME NEW L, NEW o, NEW m, NEW q, IsList(L, o, m, q)
    PROVE  Linked(L, o) = [i \in 1 .. m |-> q[i]]
<1>1. PICK n \in Nat : n = Cardinality(Nodes) + 1
  BY NodesFinite
<1>2. m \in Nat /\ m + 1 <= n
  <2>1. m <= Cardinality(Nodes)
    BY ListLength
  <2>2. m \in Nat
    BY DEF IsList
  <2> QED
    BY <1>1, <2>1, <2>2, NodesFinite
<1> DEFINE Def(g) == [k \in 1 .. n |-> IF k = 1 THEN L.head[o]
                                       ELSE IF g[k - 1] = Null THEN Null ELSE L.next[g[k - 1]]]
<1>3. PICK h : h = [k \in 1 .. n |-> IF k <= m THEN q[k] ELSE Null]
  OBVIOUS
<1>4. ASSUME NEW k \in 1 .. n
      PROVE  h[k] = IF k = 1 THEN L.head[o]
                    ELSE IF h[k - 1] = Null THEN Null ELSE L.next[h[k - 1]]
  <2>1. CASE k = 1
    BY <1>2, <1>3, <2>1 DEF IsList
  <2>2. CASE k # 1 /\ k - 1 <= m
    <3>1. h[k - 1] = q[k - 1] /\ k - 1 \in 1 .. m
      BY <1>2, <1>3, <2>2
    <3>2. h[k] = q[k]
      BY <1>2, <1>3, <2>2 DEF IsList
    <3>3. q[k - 1] # Null /\ L.next[q[k - 1]] = q[k]
      BY <3>1, NullAssumption DEF IsList
    <3> QED
      BY <2>2, <3>1, <3>2, <3>3
  <2>3. CASE k # 1 /\ ~ (k - 1 <= m)
    BY <1>2, <1>3, <2>3
  <2> QED
    BY <2>1, <2>2, <2>3
<1>5. h = Def(h)
  BY <1>3, <1>4
<1>6. PICK g : g = CHOOSE f : f = Def(f)
  OBVIOUS
<1>7. g = Def(g)
  <2> HIDE DEF Def
  <2> QED
    BY <1>5, <1>6, Zenon
<1>8. ASSUME NEW k \in 1 .. n
      PROVE  g[k] = IF k = 1 THEN L.head[o]
                    ELSE IF g[k - 1] = Null THEN Null ELSE L.next[g[k - 1]]
  <2>1. Def(g)[k] = IF k = 1 THEN L.head[o]
                    ELSE IF g[k - 1] = Null THEN Null ELSE L.next[g[k - 1]]
    OBVIOUS
  <2> HIDE DEF Def
  <2> QED
    BY <1>7, <2>1
<1>9. \A k \in 1 .. n : g[k] = h[k]
  <2>1. PICK T : T = {i \in 0 .. n - 1 : g[i + 1] = h[i + 1]}
    OBVIOUS
  <2>2. 0 \in T
    <3>1. 1 \in 1 .. n
      BY <1>2
    <3>2. g[1] = L.head[o] /\ h[1] = L.head[o]
      BY <1>4, <1>8, <3>1
    <3> QED
      BY <2>1, <3>1, <3>2
  <2>3. ASSUME NEW i \in 1 .. n - 1, i - 1 \in T
        PROVE  i \in T
    <3>1. i + 1 \in 1 .. n /\ i + 1 # 1 /\ (i + 1) - 1 = i
      OBVIOUS
    <3>2. g[i] = h[i]
      BY <2>1, <2>3
    <3>3. g[i + 1] = IF g[i] = Null THEN Null ELSE L.next[g[i]]
      BY <1>8, <3>1
    <3>4. h[i + 1] = IF h[i] = Null THEN Null ELSE L.next[h[i]]
      BY <1>4, <3>1
    <3> QED
      BY <2>1, <3>2, <3>3, <3>4
  <2>4. \A i \in 1 .. n - 1 : i - 1 \in T => i \in T
    BY <2>3
  <2>5. n - 1 \in Nat
    BY <1>2
  <2>6. \A i \in 0 .. n - 1 : i \in T
    BY <2>2, <2>4, <2>5, InductionUpTo
  <2>7. ASSUME NEW k \in 1 .. n
        PROVE  g[k] = h[k]
    <3>1. k - 1 \in 0 .. n - 1 /\ (k - 1) + 1 = k
      OBVIOUS
    <3> QED
      BY <2>1, <2>6, <3>1
  <2> QED
    BY <2>7
<1>10. {j \in 1 .. n : g[j] # Null} = 1 .. m
  <2>1. \A j \in 1 .. n : g[j] # Null <=> j <= m
    BY <1>2, <1>3, <1>9, NullAssumption DEF IsList
  <2> QED
    BY <1>2, <2>1
<1>11. Linked(L, o) = [k \in {j \in 1 .. n : g[j] # Null} |-> g[k]]
  BY <1>1, <1>6 DEF Linked
<1>12. \A k \in 1 .. m : g[k] = q[k]
  BY <1>2, <1>3, <1>9
<1> QED
  BY <1>10, <1>11, <1>12

(* UnlinkNode of the k-th node of the list: the one before it, or the head, *)
(* skips it, and the tail steps back if it was the last.                     *)
LEMMA UnlinkNodeResult ==
    ASSUME NEW L \in Links, NEW o \in Objects, NEW m, NEW q, IsList(L, o, m, q), NEW k \in 1 .. m
    PROVE  UnlinkNode(L, o, q[k]) =
              [head |-> IF k = 1 THEN [L.head EXCEPT ![o] = q[2]] ELSE L.head,
               tail |-> IF k = m THEN [L.tail EXCEPT ![o] = IF k = 1 THEN Null ELSE q[k - 1]]
                        ELSE L.tail,
               next |-> [n \in Nodes |-> IF k # 1 /\ n = q[k - 1] THEN q[k + 1] ELSE L.next[n]]]
<1>1. PICK ns : ns = [i \in 1 .. m |-> q[i]]
  OBVIOUS
<1>2. Linked(L, o) = ns
  BY <1>1, LinkedIsList
<1>3. PICK j : j = CHOOSE i \in DOMAIN ns : ns[i] = q[k]
  OBVIOUS
<1>4. m \in Nat /\ \A i \in 1 .. m : ns[i] = q[i] /\ q[i] \in Nodes
  BY <1>1 DEF IsList
<1>5. j = k
  <2>1. \E i \in DOMAIN ns : ns[i] = q[k]
    BY <1>1
  <2>2. j \in DOMAIN ns /\ ns[j] = q[k]
    BY <1>3, <2>1
  <2> QED
    BY <1>1, <2>2 DEF IsList
<1>6. PICK prev : prev = IF j = 1 THEN Null ELSE ns[j - 1]
  OBVIOUS
<1>7. prev = IF k = 1 THEN Null ELSE q[k - 1]
  BY <1>4, <1>5, <1>6
<1>8. prev = Null <=> k = 1
  BY <1>4, <1>7, NullAssumption
<1>9. UnlinkNode(L, o, q[k]) =
         [head |-> IF prev = Null THEN [L.head EXCEPT ![o] = L.next[q[k]]] ELSE L.head,
          tail |-> IF L.tail[o] = q[k] THEN [L.tail EXCEPT ![o] = prev] ELSE L.tail,
          next |-> [n \in Nodes |-> IF n = prev THEN L.next[q[k]] ELSE L.next[n]]]
  BY <1>2, <1>3, <1>6 DEF UnlinkNode
<1>10. L.next[q[k]] = q[k + 1]
  BY DEF IsList
<1>11. L.tail[o] = q[k] <=> k = m
  BY <1>4 DEF IsList
<1>12. ASSUME NEW n \in Nodes
       PROVE  n = prev <=> (k # 1 /\ n = q[k - 1])
  BY <1>7, NullAssumption
<1>13. [n \in Nodes |-> IF n = prev THEN L.next[q[k]] ELSE L.next[n]]
         = [n \in Nodes |-> IF k # 1 /\ n = q[k - 1] THEN q[k + 1] ELSE L.next[n]]
  BY <1>10, <1>12
<1>14. (IF prev = Null THEN [L.head EXCEPT ![o] = L.next[q[k]]] ELSE L.head)
         = IF k = 1 THEN [L.head EXCEPT ![o] = q[2]] ELSE L.head
  BY <1>8, <1>10
<1>15. (IF L.tail[o] = q[k] THEN [L.tail EXCEPT ![o] = prev] ELSE L.tail)
         = IF k = m THEN [L.tail EXCEPT ![o] = IF k = 1 THEN Null ELSE q[k - 1]] ELSE L.tail
  BY <1>7, <1>11
<1> QED
  BY <1>9, <1>13, <1>14, <1>15

(* The pointers M are L without n, which was in a list of o with the nodes N: *)
(* the head moves on only from n, to the node behind it; and the pointers of n, *)
(* and of every node that is not in the list, are left as they are.             *)
Unlinked(M, L, o, n, N) ==
    /\ \A p \in Objects : M.head[p] = IF p = o /\ L.head[o] = n THEN L.next[n] ELSE L.head[p]
    /\ \A x \in Nodes : x = n \/ x \notin N => M.next[x] = L.next[x]

(* What UnlinkNode of n from the list of o does to the pointers: the list of o  *)
(* loses n and no other, and a list without nodes of that one stays what it is. *)
LEMMA UnlinkNodeHolds ==
    ASSUME NEW L \in Links, NEW o \in Objects, NEW N, ListHolds(L, o, N), NEW n \in N
    PROVE  LET M == UnlinkNode(L, o, n)
           IN  /\ M \in Links
               /\ ListHolds(M, o, N \ {n})
               /\ \A p \in Objects \ {o} : \A P :
                     ListHolds(L, p, P) /\ P \cap N = {} => ListHolds(M, p, P)
               /\ Unlinked(M, L, o, n, N)
<1>1. PICK m, q : IsList(L, o, m, q) /\ N = {q[i] : i \in 1 .. m}
  BY DEF ListHolds
<1>2. PICK k \in 1 .. m : n = q[k]
  BY <1>1
<1>3. PICK M : M = UnlinkNode(L, o, n)
  OBVIOUS
<1>4. M = [head |-> IF k = 1 THEN [L.head EXCEPT ![o] = q[2]] ELSE L.head,
           tail |-> IF k = m THEN [L.tail EXCEPT ![o] = IF k = 1 THEN Null ELSE q[k - 1]]
                    ELSE L.tail,
           next |-> [x \in Nodes |-> IF k # 1 /\ x = q[k - 1] THEN q[k + 1] ELSE L.next[x]]]
  BY <1>1, <1>2, <1>3, UnlinkNodeResult
<1>5. /\ m \in Nat /\ q \in [1 .. m + 1 -> Nodes \cup {Null}]
      /\ \A i \in 1 .. m : q[i] \in Nodes /\ L.next[q[i]] = q[i + 1]
      /\ \A i, j \in 1 .. m : q[i] = q[j] => i = j
      /\ q[m + 1] = Null /\ L.head[o] = q[1]
      /\ L.tail[o] = IF m = 0 THEN Null ELSE q[m]
  BY <1>1 DEF IsList
<1>6. M \in Links
  <2>1. /\ L.head \in [Objects -> Nodes \cup {Null}]
        /\ L.tail \in [Objects -> Nodes \cup {Null}]
        /\ L.next \in [Nodes -> Nodes \cup {Null}]
    BY DEF Links
  <2>2. q[2] \in Nodes \cup {Null} /\ q[k + 1] \in Nodes \cup {Null}
    BY <1>5
  <2>3. (IF k = 1 THEN Null ELSE q[k - 1]) \in Nodes \cup {Null}
    BY <1>5
  <2>4. M.head \in [Objects -> Nodes \cup {Null}]
    BY <1>4, <2>1, <2>2
  <2>5. M.tail \in [Objects -> Nodes \cup {Null}]
    BY <1>4, <2>1, <2>3
  <2>6. M.next \in [Nodes -> Nodes \cup {Null}]
    BY <1>4, <2>1, <2>2
  <2>7. M = [head |-> M.head, tail |-> M.tail, next |-> M.next]
    BY <1>4
  <2> QED
    BY <2>4, <2>5, <2>6, <2>7 DEF Links
<1>7. \A x \in Nodes : M.next[x] = IF k # 1 /\ x = q[k - 1] THEN q[k + 1] ELSE L.next[x]
  BY <1>4
<1>8. \A p \in Objects : M.head[p] = IF k = 1 /\ p = o THEN q[2] ELSE L.head[p]
  BY <1>4 DEF Links
<1>9. \A p \in Objects : M.tail[p] = IF k = m /\ p = o THEN IF k = 1 THEN Null ELSE q[k - 1]
                                     ELSE L.tail[p]
  BY <1>4 DEF Links
<1>10. ListHolds(M, o, N \ {n})
  <2>1. PICK r : r = [i \in 1 .. m |-> IF i < k THEN q[i] ELSE q[i + 1]]
    OBVIOUS
  <2>2. m - 1 \in Nat /\ (m - 1) + 1 = m
    BY <1>5
  <2>3. r \in [1 .. m -> Nodes \cup {Null}] /\ r[m] = Null
    BY <1>5, <2>1
  <2>4. ASSUME NEW i \in 1 .. m - 1
        PROVE  r[i] \in Nodes /\ M.next[r[i]] = r[i + 1]
    <3>1. CASE i < k - 1
      <4>1. r[i] = q[i] /\ r[i + 1] = q[i + 1]
        BY <1>5, <2>1, <3>1
      <4>2. q[i] # q[k - 1] /\ q[i] \in Nodes /\ L.next[q[i]] = q[i + 1]
        BY <1>5, <3>1
      <4> QED
        BY <1>7, <4>1, <4>2
    <3>2. CASE i = k - 1
      <4>1. r[i] = q[k - 1] /\ r[i + 1] = q[k + 1]
        BY <1>5, <2>1, <3>2
      <4>2. q[k - 1] \in Nodes /\ k # 1
        BY <1>5, <3>2
      <4> QED
        BY <1>7, <4>1, <4>2
    <3>3. CASE i >= k
      <4>1. r[i] = q[i + 1] /\ r[i + 1] = q[i + 2]
        BY <1>5, <2>1, <3>3
      <4>2. i + 1 \in 1 .. m /\ (i + 1) + 1 = i + 2
        BY <1>5
      <4>3. q[i + 1] \in Nodes /\ L.next[q[i + 1]] = q[i + 2]
        BY <1>5, <4>2
      <4>4. k # 1 => q[i + 1] # q[k - 1]
        BY <1>5, <4>2, <3>3
      <4> QED
        BY <1>7, <4>1, <4>3, <4>4
    <3> QED
      BY <1>5, <3>1, <3>2, <3>3
  <2>5. ASSUME NEW i \in 1 .. m - 1, NEW j \in 1 .. m - 1, r[i] = r[j]
        PROVE  i = j
    <3> DEFINE s(l) == IF l < k THEN l ELSE l + 1
    <3>1. s(i) \in 1 .. m /\ s(j) \in 1 .. m /\ r[i] = q[s(i)] /\ r[j] = q[s(j)]
      BY <1>5, <2>1
    <3>2. s(i) = s(j)
      <4> HIDE DEF s
      <4> QED
        BY <1>5, <2>5, <3>1
    <3> QED
      BY <1>5, <3>2
  <2>6. M.head[o] = r[1]
    <3>1. CASE k = 1
      BY <1>5, <1>8, <2>1, <3>1
    <3>2. CASE k # 1
      BY <1>5, <1>8, <2>1, <3>2
    <3> QED
      BY <3>1, <3>2
  <2>7. M.tail[o] = IF m - 1 = 0 THEN Null ELSE r[m - 1]
    <3>1. CASE k = m
      BY <1>5, <1>9, <2>1, <3>1
    <3>2. CASE k # m
      <4>1. m # 1 /\ m - 1 \in 1 .. m /\ ~ (m - 1 < k) /\ (m - 1) + 1 = m
        BY <1>5, <3>2
      <4>2. r[m - 1] = q[m]
        BY <1>5, <2>1, <4>1
      <4> QED
        BY <1>5, <1>9, <3>2, <4>1, <4>2
    <3> QED
      BY <3>1, <3>2
  <2>8. IsList(M, o, m - 1, r)
    BY <2>2, <2>3, <2>4, <2>5, <2>6, <2>7 DEF IsList
  <2>9. N \ {n} = {r[i] : i \in 1 .. m - 1}
    <3>1. ASSUME NEW i \in 1 .. m - 1
          PROVE  r[i] \in N \ {n}
      <4>1. CASE i < k
        BY <1>1, <1>2, <1>5, <2>1, <4>1
      <4>2. CASE ~ (i < k)
        <5>1. r[i] = q[i + 1] /\ i + 1 \in 1 .. m /\ i + 1 # k
          BY <1>5, <2>1, <4>2
        <5> QED
          BY <1>1, <1>2, <1>5, <5>1
      <4> QED
        BY <4>1, <4>2
    <3>2. ASSUME NEW x \in N \ {n}
          PROVE  \E i \in 1 .. m - 1 : x = r[i]
      <4>1. PICK l \in 1 .. m : x = q[l]
        BY <1>1
      <4>2. l # k
        BY <1>2, <4>1
      <4>3. CASE l < k
        <5>1. l \in 1 .. m - 1
          BY <1>5, <4>3
        <5>2. r[l] = q[l]
          BY <2>1, <4>3
        <5> QED
          BY <4>1, <5>1, <5>2
      <4>4. CASE l > k
        <5>1. l - 1 \in 1 .. m - 1 /\ l - 1 \in 1 .. m /\ ~ (l - 1 < k) /\ (l - 1) + 1 = l
          BY <1>5, <4>4
        <5>2. r[l - 1] = q[l]
          BY <2>1, <5>1
        <5> QED
          BY <4>1, <5>1, <5>2
      <4> QED
        BY <4>2, <4>3, <4>4
    <3> QED
      BY <3>1, <3>2
  <2> QED
    BY <2>8, <2>9 DEF ListHolds
<1>11. ASSUME NEW p \in Objects \ {o}, NEW P, ListHolds(L, p, P), P \cap N = {}
       PROVE  ListHolds(M, p, P)
  <2>1. PICK l, r : IsList(L, p, l, r) /\ P = {r[i] : i \in 1 .. l}
    BY <1>11 DEF ListHolds
  <2>2. M.head[p] = L.head[p] /\ M.tail[p] = L.tail[p]
    BY <1>8, <1>9, <1>11
  <2>3. k # 1 => q[k - 1] \in N
    BY <1>1, <1>5
  <2>4. ASSUME NEW i \in 1 .. l
        PROVE  M.next[r[i]] = L.next[r[i]]
    <3>1. r[i] \in P /\ r[i] \in Nodes
      BY <2>1 DEF IsList
    <3>2. ~ (k # 1 /\ r[i] = q[k - 1])
      BY <1>11, <2>3, <3>1
    <3> QED
      BY <1>7, <3>1, <3>2
  <2>5. IsList(M, p, l, r)
    BY <2>1, <2>2, <2>4 DEF IsList
  <2> QED
    BY <2>1, <2>5 DEF ListHolds
<1>12. ASSUME NEW p \in Objects
       PROVE  M.head[p] = IF p = o /\ L.head[o] = n THEN L.next[n] ELSE L.head[p]
  <2>1. L.head[o] = n <=> k = 1
    BY <1>2, <1>5
  <2>2. L.next[n] = q[k + 1]
    BY <1>2, <1>5
  <2> QED
    BY <1>8, <2>1, <2>2
<1>13. ASSUME NEW x \in Nodes, x = n \/ x \notin N
       PROVE  M.next[x] = L.next[x]
  <2>1. k # 1 => q[k - 1] \in N /\ q[k - 1] # n
    BY <1>1, <1>2, <1>5
  <2> QED
    BY <1>7, <1>13, <2>1
<1> QED
  BY <1>3, <1>6, <1>10, <1>11, <1>12, <1>13 DEF Unlinked

(* What LinkNode of n into the list of o does: the list gains n at its end, and *)
(* a list that has no node in common with it, nor n, stays what it is.          *)
LEMMA LinkNodeHolds ==
    ASSUME NEW L \in Links, NEW o \in Objects, NEW N, ListHolds(L, o, N),
           NEW n \in Nodes, n \notin N
    PROVE  LET M == LinkNode(L, o, n)
           IN  /\ M \in Links
               /\ ListHolds(M, o, N \cup {n})
               /\ \A p \in Objects \ {o} : \A P :
                     ListHolds(L, p, P) /\ P \cap N = {} /\ n \notin P => ListHolds(M, p, P)
<1>1. PICK m, q : IsList(L, o, m, q) /\ N = {q[i] : i \in 1 .. m}
  BY DEF ListHolds
<1>2. PICK M : M = LinkNode(L, o, n)
  OBVIOUS
<1>3. /\ m \in Nat /\ q \in [1 .. m + 1 -> Nodes \cup {Null}]
      /\ \A i \in 1 .. m : q[i] \in Nodes /\ L.next[q[i]] = q[i + 1]
      /\ \A i, j \in 1 .. m : q[i] = q[j] => i = j
      /\ q[m + 1] = Null /\ L.head[o] = q[1]
      /\ L.tail[o] = IF m = 0 THEN Null ELSE q[m]
  BY <1>1 DEF IsList
<1>4. L.tail[o] = Null <=> m = 0
  BY <1>3, NullAssumption
<1>5. M = [head |-> IF m = 0 THEN [L.head EXCEPT ![o] = n] ELSE L.head,
           tail |-> [L.tail EXCEPT ![o] = n],
           next |-> [x \in Nodes |-> IF x = n THEN Null
                                     ELSE IF x = L.tail[o] THEN n ELSE L.next[x]]]
  BY <1>2, <1>4 DEF LinkNode
<1>6. M \in Links
  <2>1. /\ L.head \in [Objects -> Nodes \cup {Null}]
        /\ L.tail \in [Objects -> Nodes \cup {Null}]
        /\ L.next \in [Nodes -> Nodes \cup {Null}]
    BY DEF Links
  <2>2. M.head \in [Objects -> Nodes \cup {Null}]
    BY <1>5, <2>1
  <2>3. M.tail \in [Objects -> Nodes \cup {Null}]
    BY <1>5, <2>1
  <2>4. M.next \in [Nodes -> Nodes \cup {Null}]
    BY <1>5, <2>1
  <2>5. M = [head |-> M.head, tail |-> M.tail, next |-> M.next]
    BY <1>5
  <2> QED
    BY <2>2, <2>3, <2>4, <2>5 DEF Links
<1>7. \A x \in Nodes : M.next[x] = IF x = n THEN Null
                                   ELSE IF x = L.tail[o] THEN n ELSE L.next[x]
  BY <1>5
<1>8. \A p \in Objects : M.head[p] = IF m = 0 /\ p = o THEN n ELSE L.head[p]
  BY <1>5 DEF Links
<1>9. \A p \in Objects : M.tail[p] = IF p = o THEN n ELSE L.tail[p]
  BY <1>5 DEF Links
<1>10. ListHolds(M, o, N \cup {n})
  <2>1. PICK r : r = [i \in 1 .. (m + 1) + 1 |-> IF i <= m THEN q[i]
                                               ELSE IF i = m + 1 THEN n ELSE Null]
    OBVIOUS
  <2>2. /\ m + 1 \in Nat
        /\ r \in [1 .. (m + 1) + 1 -> Nodes \cup {Null}]
        /\ r[(m + 1) + 1] = Null
        /\ r[m + 1] = n
        /\ \A i \in 1 .. m : r[i] = q[i] /\ q[i] # n
    BY <1>1, <1>3, <2>1
  <2>3. ASSUME NEW i \in 1 .. m + 1
        PROVE  r[i] \in Nodes /\ M.next[r[i]] = r[i + 1]
    <3>1. CASE i = m + 1
      BY <1>7, <2>2, <3>1
    <3>2. CASE i = m
      <4>1. i \in 1 .. m /\ L.tail[o] = q[m]
        BY <1>3, <3>2
      <4>2. r[i] = q[m] /\ q[m] \in Nodes /\ q[m] # n /\ r[i + 1] = n
        BY <1>3, <2>2, <3>2, <4>1
      <4> QED
        BY <1>7, <4>1, <4>2
    <3>3. CASE i < m
      <4>1. i \in 1 .. m /\ i + 1 \in 1 .. m /\ m \in 1 .. m /\ i # m
        BY <1>3, <3>3
      <4>2. r[i] = q[i] /\ r[i + 1] = q[i + 1] /\ q[i] # n
        BY <2>2, <4>1
      <4>3. q[i] \in Nodes /\ L.next[q[i]] = q[i + 1] /\ q[i] # q[m]
        BY <1>3, <4>1
      <4>4. L.tail[o] = q[m]
        BY <1>3, <3>3
      <4> QED
        BY <1>7, <4>2, <4>3, <4>4
    <3> QED
      BY <1>3, <3>1, <3>2, <3>3
  <2>4. ASSUME NEW i \in 1 .. m + 1, NEW j \in 1 .. m + 1, r[i] = r[j]
        PROVE  i = j
    <3>1. CASE i \in 1 .. m /\ j \in 1 .. m
      BY <1>3, <2>2, <2>4, <3>1
    <3>2. CASE i = m + 1 \/ j = m + 1
      BY <1>3, <2>2, <2>4, <3>2
    <3> QED
      BY <1>3, <3>1, <3>2
  <2>5. M.head[o] = r[1]
    <3>1. CASE m = 0
      BY <1>8, <2>2, <3>1
    <3>2. CASE m # 0
      BY <1>3, <1>8, <2>2, <3>2
    <3> QED
      BY <3>1, <3>2
  <2>6. M.tail[o] = IF m + 1 = 0 THEN Null ELSE r[m + 1]
    BY <1>3, <1>9, <2>2
  <2>7. IsList(M, o, m + 1, r)
    BY <2>2, <2>3, <2>4, <2>5, <2>6 DEF IsList
  <2>8. N \cup {n} = {r[i] : i \in 1 .. m + 1}
    <3>1. \A i \in 1 .. m + 1 : i \in 1 .. m \/ i = m + 1
      BY <1>3
    <3>2. m + 1 \in 1 .. m + 1 /\ \A i \in 1 .. m : i \in 1 .. m + 1
      BY <1>3
    <3> QED
      BY <1>1, <2>2, <3>1, <3>2
  <2> QED
    BY <2>7, <2>8 DEF ListHolds
<1>11. ASSUME NEW p \in Objects \ {o}, NEW P, ListHolds(L, p, P), P \cap N = {}, n \notin P
       PROVE  ListHolds(M, p, P)
  <2>1. PICK l, r : IsList(L, p, l, r) /\ P = {r[i] : i \in 1 .. l}
    BY <1>11 DEF ListHolds
  <2>2. M.head[p] = L.head[p] /\ M.tail[p] = L.tail[p]
    BY <1>8, <1>9, <1>11
  <2>3. L.tail[o] = Null \/ L.tail[o] \in N
    BY <1>1, <1>3
  <2>4. ASSUME NEW i \in 1 .. l
        PROVE  M.next[r[i]] = L.next[r[i]]
    <3>1. r[i] \in P /\ r[i] \in Nodes
      BY <2>1 DEF IsList
    <3>2. r[i] # n /\ r[i] # L.tail[o]
      BY <1>11, <2>3, <3>1, NullAssumption
    <3> QED
      BY <1>7, <3>1, <3>2
  <2>5. IsList(M, p, l, r)
    BY <2>1, <2>2, <2>4 DEF IsList
  <2> QED
    BY <2>1, <2>5 DEF ListHolds
<1> QED
  BY <1>2, <1>6, <1>10, <1>11

-----------------------------------------------------------------------------
(* The nodes of the first i objects of a wait, those for o among them, and all. *)
FirstNodes(t, i) == {<<t, j - 1>> : j \in 1 .. i}
NodesFor(t, os, i, o) == {<<t, j - 1>> : j \in {l \in 1 .. i : os[l] = o}}

(* The lists of L hold the nodes W[o], and no node is in two of them. *)
ListsHold(L, W) ==
    /\ L \in Links
    /\ W \in [Objects -> SUBSET Nodes]
    /\ \A o \in Objects : ListHolds(L, o, W[o])
    /\ \A o, p \in Objects : o # p => W[o] \cap W[p] = {}

(* The next pointers lead from n to h through nodes of D only. *)
LeadsTo(L, n, h, D) ==
    \E k \in Nat : \E c : /\ c[1] = n
                          /\ c[k + 1] = h
                          /\ \A i \in 1 .. k : c[i] \in D /\ L.next[c[i]] = c[i + 1]

(* UnlinkNode, for all lists at once. *)
LEMMA UnlinkNodeLists ==
    ASSUME NEW L, NEW W, ListsHold(L, W), NEW o \in Objects, NEW n \in W[o]
    PROVE  ListsHold(UnlinkNode(L, o, n), [W EXCEPT ![o] = @ \ {n}])
<1>1. L \in Links /\ ListHolds(L, o, W[o]) /\ W \in [Objects -> SUBSET Nodes]
  BY DEF ListsHold
<1>2. PICK M : M = UnlinkNode(L, o, n)
  OBVIOUS
<1>3. PICK V : V = [W EXCEPT ![o] = @ \ {n}]
  OBVIOUS
<1>4. /\ M \in Links
      /\ ListHolds(M, o, W[o] \ {n})
      /\ \A p \in Objects \ {o} : \A P :
            ListHolds(L, p, P) /\ P \cap W[o] = {} => ListHolds(M, p, P)
  BY <1>1, <1>2, UnlinkNodeHolds
<1>5. /\ V \in [Objects -> SUBSET Nodes]
      /\ \A p \in Objects : V[p] = IF p = o THEN W[o] \ {n} ELSE W[p]
  BY <1>1, <1>3
<1>6. ASSUME NEW p \in Objects
      PROVE  ListHolds(M, p, V[p])
  <2>1. CASE p = o
    BY <1>4, <1>5, <2>1
  <2>2. CASE p # o
    <3>1. ListHolds(L, p, W[p]) /\ W[p] \cap W[o] = {}
      BY <2>2 DEF ListsHold
    <3> QED
      BY <1>4, <1>5, <2>2, <3>1
  <2> QED
    BY <2>1, <2>2
<1>7. ASSUME NEW p \in Objects, NEW r \in Objects, p # r
      PROVE  V[p] \cap V[r] = {}
  <2>1. W[p] \cap W[r] = {}
    BY <1>7 DEF ListsHold
  <2> QED
    BY <1>5, <2>1
<1>8. ListsHold(M, V)
  BY <1>4, <1>5, <1>6, <1>7 DEF ListsHold
<1> QED
  BY <1>2, <1>3, <1>8

(* LinkNode, for all lists at once. *)
LEMMA LinkNodeLists ==
    ASSUME NEW L, NEW W, ListsHold(L, W), NEW o \in Objects,
           NEW n \in Nodes, \A p \in Objects : n \notin W[p]
    PROVE  ListsHold(LinkNode(L, o, n), [W EXCEPT ![o] = @ \cup {n}])
<1>1. L \in Links /\ ListHolds(L, o, W[o]) /\ W \in [Objects -> SUBSET Nodes]
  BY DEF ListsHold
<1>2. PICK M : M = LinkNode(L, o, n)
  OBVIOUS
<1>3. PICK V : V = [W EXCEPT ![o] = @ \cup {n}]
  OBVIOUS
<1>4. /\ M \in Links
      /\ ListHolds(M, o, W[o] \cup {n})
      /\ \A p \in Objects \ {o} : \A P :
            ListHolds(L, p, P) /\ P \cap W[o] = {} /\ n \notin P => ListHolds(M, p, P)
  BY <1>1, <1>2, LinkNodeHolds
<1>5. /\ V \in [Objects -> SUBSET Nodes]
      /\ \A p \in Objects : V[p] = IF p = o THEN W[o] \cup {n} ELSE W[p]
  BY <1>1, <1>3
<1>6. ASSUME NEW p \in Objects
      PROVE  ListHolds(M, p, V[p])
  <2>1. CASE p = o
    BY <1>4, <1>5, <2>1
  <2>2. CASE p # o
    <3>1. ListHolds(L, p, W[p]) /\ W[p] \cap W[o] = {}
      BY <2>2 DEF ListsHold
    <3> QED
      BY <1>4, <1>5, <2>2, <3>1
  <2> QED
    BY <2>1, <2>2
<1>7. ASSUME NEW p \in Objects, NEW r \in Objects, p # r
      PROVE  V[p] \cap V[r] = {}
  <2>1. W[p] \cap W[r] = {}
    BY <1>7 DEF ListsHold
  <2> QED
    BY <1>5, <1>7, <2>1
<1>8. ListsHold(M, V)
  BY <1>4, <1>5, <1>6, <1>7 DEF ListsHold
<1> QED
  BY <1>2, <1>3, <1>8

(* The nodes of a wait are nodes. *)
LEMMA FirstNodesAreNodes ==
    ASSUME NEW t \in Threads, NEW os \in WaitLists, NEW i \in 1 .. Len(os)
    PROVE  os \in Seq(Objects) /\ os[i] \in Objects /\ <<t, i - 1>> \in Nodes
<1>1. os \in Seq(Objects) /\ Len(os) <= ArgumentHandleCountMax /\ ArgumentHandleCountMax \in Nat
  BY WaitListsAssumption
<1>2. Len(os) \in Nat /\ os[i] \in Objects
  BY <1>1
<1>3. i - 1 \in 0 .. ArgumentHandleCountMax - 1
  BY <1>1, <1>2
<1> QED
  BY <1>1, <1>2, <1>3 DEF Nodes

(* The loop of Wait: every object's list gains the nodes of t that are for it. *)
LEMMA LinkAllLists ==
    ASSUME NEW L, NEW W, ListsHold(L, W), NEW t \in Threads, NEW os \in WaitLists,
           \A o \in Objects : \A n \in W[o] : n[1] # t
    PROVE  ListsHold(LinkAll(L, t, os), [o \in Objects |-> W[o] \cup NodesFor(t, os, Len(os), o)])
<1>1. os \in Seq(Objects) /\ Len(os) \in Nat
  BY WaitListsAssumption
<1>2. PICK g : /\ g[0] = L
               /\ \A i \in 1 .. Len(os) : g[i] = LinkNode(g[i - 1], os[i], <<t, i - 1>>)
               /\ LinkAll(L, t, os) = g[Len(os)]
  <2>1. PICK f : IsLinkAllLoop(f, L, t, os)
    BY <1>1, LinkAllLoop
  <2> QED
    BY <2>1 DEF IsLinkAllLoop
<1> DEFINE V(i) == [o \in Objects |-> W[o] \cup NodesFor(t, os, i, o)]
<1>3. PICK T : T = {i \in 0 .. Len(os) : ListsHold(g[i], V(i))}
  OBVIOUS
<1>4. 0 \in T
  <2>1. V(0) = W
    BY DEF ListsHold, NodesFor
  <2> HIDE DEF V
  <2> QED
    BY <1>1, <1>2, <1>3, <2>1
<1>5. ASSUME NEW i \in 1 .. Len(os), i - 1 \in T
      PROVE  i \in T
  <2>1. ListsHold(g[i - 1], V(i - 1))
    BY <1>3, <1>5
  <2>2. os[i] \in Objects /\ <<t, i - 1>> \in Nodes
    BY FirstNodesAreNodes
  <2>3. ASSUME NEW p \in Objects
        PROVE  <<t, i - 1>> \notin V(i - 1)[p]
    BY <1>1 DEF NodesFor
  <2>4. V(i) = [V(i - 1) EXCEPT ![os[i]] = @ \cup {<<t, i - 1>>}]
    <3>1. ASSUME NEW p \in Objects
          PROVE  V(i)[p] = IF p = os[i] THEN V(i - 1)[p] \cup {<<t, i - 1>>} ELSE V(i - 1)[p]
      <4>1. 1 .. i = (1 .. i - 1) \cup {i}
        BY <1>1
      <4>2. {l \in 1 .. i : os[l] = p} = {l \in 1 .. i - 1 : os[l] = p} \cup
                                         (IF p = os[i] THEN {i} ELSE {})
        BY <4>1
      <4>3. NodesFor(t, os, i, p) = NodesFor(t, os, i - 1, p) \cup
                                    (IF p = os[i] THEN {<<t, i - 1>>} ELSE {})
        BY <4>2 DEF NodesFor
      <4> QED
        BY <4>3
    <3>2. V(i) = [p \in Objects |-> V(i)[p]] /\ V(i - 1) = [p \in Objects |-> V(i - 1)[p]]
      OBVIOUS
    <3> HIDE DEF V
    <3> QED
      BY <2>2, <3>1, <3>2
  <2> HIDE DEF V
  <2>5. ListsHold(LinkNode(g[i - 1], os[i], <<t, i - 1>>),
                  [V(i - 1) EXCEPT ![os[i]] = @ \cup {<<t, i - 1>>}])
    BY <2>1, <2>2, <2>3, LinkNodeLists
  <2>6. ListsHold(g[i], V(i))
    BY <1>2, <2>4, <2>5
  <2>7. i \in 0 .. Len(os)
    BY <1>1
  <2> QED
    BY <1>3, <2>6, <2>7
<1>6. \A i \in 1 .. Len(os) : i - 1 \in T => i \in T
  BY <1>5
<1>7. \A i \in 0 .. Len(os) : i \in T
  BY <1>1, <1>4, <1>6, InductionUpTo
<1>8. Len(os) \in T
  BY <1>1, <1>7
<1> QED
  BY <1>2, <1>3, <1>8

(* The loop of NotifyAvailable and CancelWait: every list loses the nodes of t, *)
(* and whoever stands at a node of t that was the head of a list finds the new  *)
(* head along the next pointers, through nodes of t.                            *)
LEMMA UnlinkAllLists ==
    ASSUME NEW L, NEW W, ListsHold(L, W), NEW t \in Threads, NEW os \in WaitLists,
           \A i \in 1 .. Len(os) : <<t, i - 1>> \in W[os[i]],
           \A o \in Objects : \A n \in W[o] : n[1] = t => n \in FirstNodes(t, Len(os))
    PROVE  LET M == UnlinkAll(L, t, os)
           IN  /\ ListsHold(M, [o \in Objects |-> {n \in W[o] : n[1] # t}])
               /\ \A o \in Objects : LeadsTo(M, L.head[o], M.head[o], FirstNodes(t, Len(os)))
<1>1. os \in Seq(Objects) /\ Len(os) \in Nat
  BY WaitListsAssumption
<1>2. PICK g : /\ g[0] = L
               /\ \A i \in 1 .. Len(os) : g[i] = UnlinkNode(g[i - 1], os[i], <<t, i - 1>>)
               /\ UnlinkAll(L, t, os) = g[Len(os)]
  <2>1. PICK f : IsUnlinkAllLoop(f, L, t, os)
    BY <1>1, UnlinkAllLoop
  <2> QED
    BY <2>1 DEF IsUnlinkAllLoop
<1> DEFINE V(i) == [o \in Objects |-> W[o] \ FirstNodes(t, i)]
           Done(i) == /\ ListsHold(g[i], V(i))
                      /\ \A o \in Objects :
                            LeadsTo(g[i], L.head[o], g[i].head[o], FirstNodes(t, i))
<1>3. PICK T : T = {i \in 0 .. Len(os) : Done(i)}
  OBVIOUS
<1>4. 0 \in T
  <2>1. V(0) = W
    BY DEF ListsHold, FirstNodes
  <2>2. ASSUME NEW o \in Objects
        PROVE  LeadsTo(g[0], L.head[o], g[0].head[o], FirstNodes(t, 0))
    <3>1. PICK c : c = [i \in 1 .. 1 |-> L.head[o]]
      OBVIOUS
    <3>2. 0 \in Nat /\ c[1] = L.head[o] /\ c[0 + 1] = g[0].head[o]
      BY <1>2, <3>1
    <3>3. \A i \in 1 .. 0 : FALSE
      OBVIOUS
    <3> QED
      BY <3>2, <3>3 DEF LeadsTo
  <2> HIDE DEF V
  <2>3. Done(0)
    BY <1>2, <2>1, <2>2
  <2> HIDE DEF Done
  <2> QED
    BY <1>1, <1>3, <2>3
<1>5. ASSUME NEW i \in 1 .. Len(os), i - 1 \in T
      PROVE  i \in T
  <2>1. Done(i - 1)
    <3> HIDE DEF Done
    <3> QED
      BY <1>3, <1>5
  <2>2. os[i] \in Objects /\ <<t, i - 1>> \in Nodes
    BY FirstNodesAreNodes
  <2>3. <<t, i - 1>> \in V(i - 1)[os[i]]
    <3>1. <<t, i - 1>> \notin FirstNodes(t, i - 1)
      BY <1>1 DEF FirstNodes
    <3> QED
      BY <2>2, <3>1
  <2>4. FirstNodes(t, i) = FirstNodes(t, i - 1) \cup {<<t, i - 1>>}
    <3>1. 1 .. i = (1 .. i - 1) \cup {i}
      BY <1>1
    <3> QED
      BY <3>1 DEF FirstNodes
  <2>5. V(i) = [V(i - 1) EXCEPT ![os[i]] = @ \ {<<t, i - 1>>}]
    <3>1. ASSUME NEW p \in Objects
          PROVE  V(i)[p] = IF p = os[i] THEN V(i - 1)[p] \ {<<t, i - 1>>} ELSE V(i - 1)[p]
      <4>1. p # os[i] => <<t, i - 1>> \notin W[p]
        <5>1. <<t, i - 1>> \in W[os[i]]
          OBVIOUS
        <5> QED
          BY <2>2, <5>1 DEF ListsHold
      <4> QED
        BY <2>4, <4>1
    <3>2. V(i) = [p \in Objects |-> V(i)[p]] /\ V(i - 1) = [p \in Objects |-> V(i - 1)[p]]
      OBVIOUS
    <3> HIDE DEF V
    <3> QED
      BY <2>2, <3>1, <3>2
  <2>6. PICK x : x = <<t, i - 1>>
    OBVIOUS
  <2>7. PICK K : K = g[i - 1]
    OBVIOUS
  <2>8. PICK M : M = UnlinkNode(K, os[i], x)
    OBVIOUS
  <2>9. g[i] = M
    BY <1>2, <2>6, <2>7, <2>8
  <2>10. PICK U : U = V(i - 1)
    OBVIOUS
  <2>11. ListsHold(K, U) /\ x \in U[os[i]]
    <3> HIDE DEF V
    <3> QED
      BY <2>1, <2>3, <2>6, <2>7, <2>10
  <2>12. ListsHold(M, [U EXCEPT ![os[i]] = @ \ {x}])
    BY <2>2, <2>8, <2>11, UnlinkNodeLists
  <2>13. ListsHold(g[i], V(i))
    <3> HIDE DEF V
    <3> QED
      BY <2>5, <2>6, <2>9, <2>10, <2>12
  <2>14. /\ \A p \in Objects : M.head[p] = IF p = os[i] /\ K.head[os[i]] = x THEN K.next[x]
                                           ELSE K.head[p]
         /\ \A y \in Nodes : y = x \/ y \notin U[os[i]] => M.next[y] = K.next[y]
    <3>1. K \in Links /\ ListHolds(K, os[i], U[os[i]])
      BY <2>2, <2>11 DEF ListsHold
    <3>2. Unlinked(M, K, os[i], x, U[os[i]])
      BY <2>2, <2>8, <2>11, <3>1, UnlinkNodeHolds
    <3> QED
      BY <3>2 DEF Unlinked
  <2>15. \A y \in FirstNodes(t, i - 1) : y \in Nodes /\ y \notin U[os[i]]
    <3>1. ASSUME NEW j \in 1 .. i - 1
          PROVE  <<t, j - 1>> \in Nodes
      <4>1. j \in 1 .. Len(os)
        BY <1>1
      <4> QED
        BY <4>1, FirstNodesAreNodes
    <3>2. \A y \in FirstNodes(t, i - 1) : y \in Nodes
      BY <3>1 DEF FirstNodes
    <3> QED
      BY <2>2, <2>10, <3>2
  <2>16. ASSUME NEW o \in Objects
         PROVE  LeadsTo(g[i], L.head[o], g[i].head[o], FirstNodes(t, i))
    <3>1. LeadsTo(K, L.head[o], K.head[o], FirstNodes(t, i - 1))
      <4> HIDE DEF V
      <4> QED
        BY <2>1, <2>7
    <3>2. PICK k \in Nat : \E c : /\ c[1] = L.head[o]
                                 /\ c[k + 1] = K.head[o]
                                 /\ \A l \in 1 .. k : /\ c[l] \in FirstNodes(t, i - 1)
                                                      /\ K.next[c[l]] = c[l + 1]
      BY <3>1 DEF LeadsTo
    <3>3. PICK c : /\ c[1] = L.head[o]
                   /\ c[k + 1] = K.head[o]
                   /\ \A l \in 1 .. k : c[l] \in FirstNodes(t, i - 1) /\ K.next[c[l]] = c[l + 1]
      BY <3>2
    <3>4. \A l \in 1 .. k : c[l] \in FirstNodes(t, i) /\ M.next[c[l]] = c[l + 1]
      BY <2>4, <2>14, <2>15, <3>3
    <3>5. CASE ~ (o = os[i] /\ K.head[os[i]] = x)
      <4>1. M.head[o] = K.head[o]
        BY <2>14, <3>5
      <4>2. LeadsTo(M, L.head[o], M.head[o], FirstNodes(t, i))
        BY <3>3, <3>4, <4>1 DEF LeadsTo
      <4> QED
        BY <2>9, <4>2
    <3>6. CASE o = os[i] /\ K.head[os[i]] = x
      <4>1. PICK d : d = [l \in 1 .. (k + 1) + 1 |-> IF l <= k + 1 THEN c[l] ELSE K.next[x]]
        OBVIOUS
      <4>2. d[1] = L.head[o] /\ d[(k + 1) + 1] = K.next[x] /\ d[k + 1] = x
        BY <3>3, <3>6, <4>1
      <4>3. M.head[o] = K.next[x] /\ M.next[x] = K.next[x]
        BY <2>2, <2>6, <2>14, <3>6
      <4>4. ASSUME NEW l \in 1 .. k + 1
            PROVE  d[l] \in FirstNodes(t, i) /\ M.next[d[l]] = d[l + 1]
        <5>1. CASE l = k + 1
          BY <2>4, <2>6, <4>2, <4>3, <5>1
        <5>2. CASE l \in 1 .. k
          <6>1. d[l] = c[l] /\ d[l + 1] = c[l + 1]
            BY <4>1, <5>2
          <6> QED
            BY <3>4, <5>2, <6>1
        <5> QED
          BY <5>1, <5>2
      <4>5. k + 1 \in Nat
        OBVIOUS
      <4>6. LeadsTo(M, L.head[o], M.head[o], FirstNodes(t, i))
        BY <4>2, <4>3, <4>4, <4>5 DEF LeadsTo
      <4> QED
        BY <2>9, <4>6
    <3> QED
      BY <3>5, <3>6
  <2>17. i \in 0 .. Len(os)
    BY <1>1
  <2>18. Done(i)
    <3> HIDE DEF V
    <3> QED
      BY <2>13, <2>16
  <2> HIDE DEF Done
  <2> QED
    BY <1>3, <2>17, <2>18
<1>6. \A i \in 1 .. Len(os) : i - 1 \in T => i \in T
  BY <1>5
<1>7. \A i \in 0 .. Len(os) : i \in T
  BY <1>1, <1>4, <1>6, InductionUpTo
<1>8. Done(Len(os))
  <2>1. Len(os) \in T
    BY <1>1, <1>7
  <2> HIDE DEF Done
  <2> QED
    BY <1>3, <2>1
<1>9. V(Len(os)) = [o \in Objects |-> {n \in W[o] : n[1] # t}]
  <2>1. ASSUME NEW o \in Objects
        PROVE  W[o] \ FirstNodes(t, Len(os)) = {n \in W[o] : n[1] # t}
    BY DEF FirstNodes
  <2> QED
    BY <2>1
<1> HIDE DEF V
<1> QED
  BY <1>2, <1>8, <1>9

-----------------------------------------------------------------------------
(* The nodes that each list should hold, and those of threads that do not wait. *)
WaitSets == [o \in Objects |-> WaitNodes(o)]
DeadNodes == {n \in Nodes : n[1] \notin waiting}

(* What the wait queue knows of a thread that waits. *)
WaitersInv ==
    \A t \in waiting : /\ pc[t] = "wait"
                       /\ objects[t] \in WaitLists
                       /\ syncedIndex[t] = -1
                       /\ t \in cancellable
                       /\ t \notin waitCancelled

(* The loop of NotifyAvailable stands at a node from which the pointers of  *)
(* nodes that are out of the list lead to what is left of it.               *)
NotifyingInv ==
    SchedulerUnlocked \/
       /\ notifying.object \in Objects
       /\ notifying.node \in Nodes
       /\ signaled[notifying.object]
       /\ LeadsTo(lists, notifying.node, lists.head[notifying.object], DeadNodes)

(* A thread that waits for a signaled object waits for the one NotifyAvailable is at. *)
ReadyInv ==
    \A t \in waiting : \A i \in Ready(objects[t]) :
       ~ SchedulerUnlocked /\ objects[t][i + 1] = notifying.object

(* The inductive invariant. *)
Inv ==
    /\ TypeOK
    /\ WaitersInv
    /\ NoStaleTimer
    /\ ListsHold(lists, WaitSets)
    /\ NotifyingInv
    /\ ReadyInv

(* The sets of nodes are what their type says. *)
LEMMA WaitSetsType ==
    /\ WaitSets \in [Objects -> SUBSET Nodes]
    /\ \A o, p \in Objects : o # p => WaitSets[o] \cap WaitSets[p] = {}
BY DEF WaitSets, WaitNodes

(* Nothing changes for the lists as long as they, the waiting threads and   *)
(* what these wait for stay the same.                                       *)
LEMMA ListsUnchanged ==
    ASSUME ListsHold(lists, WaitSets), UNCHANGED lists, UNCHANGED waiting, 
           \A t \in waiting : objects'[t] = objects[t]
    PROVE  ListsHold(lists, WaitSets)'
<1>1. WaitSets' = WaitSets
  <2>1. \A o \in Objects : WaitNodes(o)' = WaitNodes(o)
    BY DEF WaitNodes
  <2> QED
    BY <2>1 DEF WaitSets
<1>2. ListsHold(lists', WaitSets')
  BY <1>1
<1> QED
  BY <1>2 DEF ListsHold, ListHolds, IsList, Links

(* Whatever ends a wait takes the thread's nodes, and no others, out of the lists. *)
LEMMA EndWaitLists ==
    ASSUME ListsHold(lists, WaitSets), NEW t \in Threads, t \in waiting, objects[t] \in WaitLists,
           lists' = UnlinkAll(lists, t, objects[t]), waiting' = waiting \ {t}, UNCHANGED objects
    PROVE  /\ ListsHold(lists, WaitSets)'
           /\ \A o \in Objects : LeadsTo(lists', lists.head[o], lists'.head[o],
                                         FirstNodes(t, Len(objects[t])))
<1>1. PICK os \in WaitLists : os = objects[t]
  OBVIOUS
<1>2. os \in Seq(Objects) /\ Len(os) \in Nat
  BY WaitListsAssumption
<1>3. ASSUME NEW i \in 1 .. Len(os)
      PROVE  <<t, i - 1>> \in WaitSets[os[i]]
  <2>1. os[i] \in Objects /\ <<t, i - 1>> \in Nodes
    BY FirstNodesAreNodes
  <2>2. i - 1 \in 0 .. Len(os) - 1 /\ (i - 1) + 1 = i
    BY <1>2
  <2> QED
    BY <1>1, <2>1, <2>2 DEF WaitSets, WaitNodes, Indices
<1>4. ASSUME NEW o \in Objects, NEW n \in WaitSets[o], n[1] = t
      PROVE  n \in FirstNodes(t, Len(os))
  <2>1. n \in Nodes /\ n[2] \in 0 .. Len(os) - 1
    BY <1>1, <1>4 DEF WaitSets, WaitNodes, Indices
  <2>2. n = <<t, (n[2] + 1) - 1>> /\ n[2] + 1 \in 1 .. Len(os)
    BY <1>2, <1>4, <2>1 DEF Nodes
  <2> QED
    BY <2>2 DEF FirstNodes
<1>5. PICK L, W : L = lists /\ W = WaitSets
  OBVIOUS
<1>6. PICK M : M = UnlinkAll(L, t, os)
  OBVIOUS
<1>7. /\ ListsHold(M, [o \in Objects |-> {n \in W[o] : n[1] # t}])
      /\ \A o \in Objects : LeadsTo(M, L.head[o], M.head[o], FirstNodes(t, Len(os)))
  BY <1>3, <1>4, <1>5, <1>6, UnlinkAllLists
<1>8. M = lists'
  BY <1>1, <1>5, <1>6
<1>9. WaitSets' = [o \in Objects |-> {n \in W[o] : n[1] # t}]
  <2>1. ASSUME NEW o \in Objects
        PROVE  WaitNodes(o)' = {n \in W[o] : n[1] # t}
    <3>1. W[o] = WaitNodes(o)
      BY <1>5 DEF WaitSets
    <3> QED
      BY <3>1 DEF WaitNodes
  <2> QED
    BY <2>1 DEF WaitSets
<1>10. ListsHold(lists', WaitSets')
  BY <1>7, <1>8, <1>9
<1>11. ListsHold(lists, WaitSets)'
  BY <1>10 DEF ListsHold, ListHolds, IsList, Links
<1> QED
  BY <1>1, <1>5, <1>7, <1>8, <1>11

(* Initially every list is empty. *)
LEMMA InitInv == Init => Inv
<1> SUFFICES ASSUME Init
             PROVE  Inv
  OBVIOUS
<1>1. TypeOK
  BY WaitListsAssumption DEF Init, TypeOK, NotNotifying, Results
<1>2. WaitSets = [o \in Objects |-> {}]
  BY DEF Init, WaitSets, WaitNodes
<1>3. ASSUME NEW o \in Objects
      PROVE  ListHolds(lists, o, {})
  <2>1. PICK q : q = [i \in 1 .. 0 + 1 |-> Null]
    OBVIOUS
  <2>2. IsList(lists, o, 0, q)
    BY <2>1 DEF Init, IsList
  <2>3. {} = {q[i] : i \in 1 .. 0}
    OBVIOUS
  <2> QED
    BY <2>2, <2>3 DEF ListHolds
<1>4. lists \in Links
  BY DEF Init, Links
<1>5. ListsHold(lists, WaitSets)
  BY <1>2, <1>3, <1>4 DEF ListsHold
<1>6. WaitersInv /\ NoStaleTimer /\ NotifyingInv /\ ReadyInv
  BY DEF Init, WaitersInv, NoStaleTimer, NotifyingInv, ReadyInv, SchedulerUnlocked
<1> QED
  BY <1>1, <1>5, <1>6 DEF Inv

(* A list depends on the next pointers of its own nodes only. *)
LEMMA ListDependsOnItsNodes ==
    ASSUME NEW L, NEW M, NEW o, NEW N, ListHolds(L, o, N),
           M.head[o] = L.head[o], M.tail[o] = L.tail[o],
           \A n \in N : M.next[n] = L.next[n]
    PROVE  ListHolds(M, o, N)
<1>1. PICK m, q : IsList(L, o, m, q) /\ N = {q[i] : i \in 1 .. m}
  BY DEF ListHolds
<1>2. \A i \in 1 .. m : M.next[q[i]] = L.next[q[i]]
  BY <1>1
<1>3. IsList(M, o, m, q)
  BY <1>1, <1>2 DEF IsList
<1> QED
  BY <1>1, <1>3 DEF ListHolds

(* Wait that returns at once. *)
LEMMA WaitReturnsAtOnceInv ==
    ASSUME Inv, NEW t \in Threads, NEW os \in WaitLists, NEW timeout \in Timeouts,
           pc[t] = "run", SchedulerUnlocked, WaitReturnsAtOnce(t, os, timeout),
           UNCHANGED <<signaled, termReq, notifying>>
    PROVE  Inv'
<1>1. t \notin waiting
  BY DEF Inv, WaitersInv
<1>2. TypeOK'
  <2>1. (IF t \in termReq THEN "exited" ELSE "run") \in {"run", "wait", "exited"}
    OBVIOUS
  <2> QED
    BY <2>1 DEF Inv, TypeOK, WaitReturnsAtOnce, Return
<1>3. ASSUME NEW u \in waiting
      PROVE  pc'[u] = pc[u] /\ (u \in waitCancelled' => u \in waitCancelled)
  BY <1>1 DEF Inv, TypeOK, WaitReturnsAtOnce, Return
<1>4. WaitersInv'
  BY <1>3 DEF Inv, WaitersInv, WaitReturnsAtOnce
<1>5. ListsHold(lists, WaitSets)'
  BY ListsUnchanged DEF Inv, WaitReturnsAtOnce
<1>6. NotifyingInv'
  BY DEF NotifyingInv, SchedulerUnlocked, NotNotifying
<1>7. ReadyInv'
  BY DEF Inv, ReadyInv, Ready, SchedulerUnlocked, NotNotifying, WaitReturnsAtOnce
<1>8. NoStaleTimer'
  BY DEF Inv, NoStaleTimer, WaitReturnsAtOnce
<1> QED
  BY <1>2, <1>4, <1>5, <1>6, <1>7, <1>8 DEF Inv

(* Wait that blocks: the thread's nodes go into the lists of objects that are not signaled. *)
LEMMA WaitBlocksInv ==
    ASSUME Inv, NEW t \in Threads, NEW os \in WaitLists, NEW timeout \in Timeouts,
           pc[t] = "run", SchedulerUnlocked, WaitBlocks(t, os, timeout),
           UNCHANGED <<signaled, termReq, notifying>>
    PROVE  Inv'
<1>1. t \notin waiting
  BY DEF Inv, WaitersInv
<1>2. PICK L, W : L = lists /\ W = WaitSets
  OBVIOUS
<1>3. ListsHold(L, W)
  BY <1>2 DEF Inv
<1>4. \A o \in Objects : \A n \in W[o] : n[1] # t
  BY <1>1, <1>2 DEF WaitSets, WaitNodes
<1>5. PICK M : M = LinkAll(L, t, os)
  OBVIOUS
<1>6. ListsHold(M, [o \in Objects |-> W[o] \cup NodesFor(t, os, Len(os), o)])
  BY <1>3, <1>4, <1>5, LinkAllLists
<1>7. M = lists' /\ waiting' = waiting \cup {t}
  BY <1>2, <1>5 DEF WaitBlocks
<1>8. \A u \in Threads : objects'[u] = IF u = t THEN os ELSE objects[u]
  BY DEF WaitBlocks, Inv, TypeOK
<1>9. WaitSets' = [o \in Objects |-> W[o] \cup NodesFor(t, os, Len(os), o)]
  <2>1. ASSUME NEW o \in Objects, NEW n \in Nodes
        PROVE  n \in WaitNodes(o)' <=> n \in W[o] \/ n \in NodesFor(t, os, Len(os), o)
    <3>1. n[1] \in Threads /\ n[2] \in Nat /\ n = <<n[1], n[2]>>
      BY WaitListsAssumption DEF Nodes
    <3>2. CASE n[1] = t
      <4>1. n \notin W[o]
        BY <1>4, <3>2
      <4>2. n \in WaitNodes(o)' <=> n[2] \in 0 .. Len(os) - 1 /\ os[n[2] + 1] = o
        BY <1>7, <1>8, <3>1, <3>2 DEF WaitNodes, Indices
      <4>3. Len(os) \in Nat
        BY WaitListsAssumption
      <4>4. ASSUME n \in NodesFor(t, os, Len(os), o)
            PROVE  n[2] \in 0 .. Len(os) - 1 /\ os[n[2] + 1] = o
        <5>1. PICK j \in 1 .. Len(os) : os[j] = o /\ n = <<t, j - 1>>
          BY <4>4 DEF NodesFor
        <5>2. n[2] = j - 1 /\ n[2] + 1 = j
          BY <4>3, <5>1
        <5> QED
          BY <4>3, <5>1, <5>2
      <4>5. ASSUME n[2] \in 0 .. Len(os) - 1, os[n[2] + 1] = o
            PROVE  n \in NodesFor(t, os, Len(os), o)
        <5>1. n[2] + 1 \in {l \in 1 .. Len(os) : os[l] = o} /\ n = <<t, (n[2] + 1) - 1>>
          BY <3>1, <3>2, <4>3, <4>5
        <5> QED
          BY <5>1 DEF NodesFor
      <4> QED
        BY <4>1, <4>2, <4>4, <4>5
    <3>3. CASE n[1] # t
      <4>1. n \notin NodesFor(t, os, Len(os), o)
        BY <3>3 DEF NodesFor
      <4>2. n \in WaitNodes(o)' <=> n \in WaitNodes(o)
        BY <1>7, <1>8, <3>1, <3>3 DEF WaitNodes
      <4>3. W[o] = WaitNodes(o)
        BY <1>2 DEF WaitSets
      <4> QED
        BY <4>1, <4>2, <4>3
    <3> QED
      BY <3>2, <3>3
  <2>2. ASSUME NEW o \in Objects
        PROVE  WaitNodes(o)' = W[o] \cup NodesFor(t, os, Len(os), o)
    <3>1. W[o] \subseteq Nodes
      BY <1>3 DEF ListsHold
    <3>2. NodesFor(t, os, Len(os), o) \subseteq Nodes
      BY FirstNodesAreNodes DEF NodesFor
    <3>3. WaitNodes(o)' \subseteq Nodes
      BY DEF WaitNodes
    <3> QED
      BY <2>1, <3>1, <3>2, <3>3
  <2> QED
    BY <2>2 DEF WaitSets
<1>10. ListsHold(lists, WaitSets)'
  <2>1. ListsHold(lists', WaitSets')
    BY <1>6, <1>7, <1>9
  <2> QED
    BY <2>1 DEF ListsHold, ListHolds, IsList, Links
<1>11. TypeOK'
  <2>1. lists' \in Links
    BY <1>10 DEF ListsHold, Links
  <2>2. pc' \in [Threads -> {"run", "wait", "exited"}]
    BY DEF Inv, TypeOK, WaitBlocks
  <2>3. syncedIndex' \in [Threads -> -1 .. ArgumentHandleCountMax - 1]
    BY WaitListsAssumption DEF Inv, TypeOK, WaitBlocks
  <2>4. objects' \in [Threads -> WaitLists \cup {<<>>}]
    BY DEF Inv, TypeOK, WaitBlocks
  <2> QED
    BY <2>1, <2>2, <2>3, <2>4 DEF Inv, TypeOK, WaitBlocks, Links
<1>12. t \notin waitCancelled /\ Ready(os) = {}
  BY DEF WaitBlocks, MustReturn
<1>13. WaitersInv'
  <2>1. ASSUME NEW u \in waiting'
        PROVE  /\ pc'[u] = "wait" /\ objects'[u] \in WaitLists /\ syncedIndex'[u] = -1
               /\ u \in cancellable' /\ u \notin waitCancelled'
    <3>1. CASE u = t
      BY <1>8, <1>12, <3>1 DEF Inv, TypeOK, WaitBlocks
    <3>2. CASE u # t
      BY <2>1, <1>8, <3>2 DEF Inv, TypeOK, WaitersInv, WaitBlocks
    <3> QED
      BY <3>1, <3>2
  <2> QED
    BY <2>1 DEF WaitersInv
<1>14. NotifyingInv'
  BY DEF NotifyingInv, SchedulerUnlocked, NotNotifying
<1>15. ReadyInv'
  <2>1. ASSUME NEW u \in waiting'
        PROVE  Ready(objects[u])' = {}
    <3>1. CASE u = t
      BY <1>8, <1>12, <3>1 DEF Ready
    <3>2. CASE u # t
      <4>1. u \in waiting /\ u \in Threads
        BY <1>7, <3>2 DEF Inv, TypeOK
      <4>2. Ready(objects[u]) = {}
        BY <4>1 DEF Inv, ReadyInv
      <4> QED
        BY <1>8, <3>2, <4>1, <4>2 DEF Ready
    <3> QED
      BY <3>1, <3>2
  <2> QED
    BY <2>1 DEF ReadyInv
<1>16. NoStaleTimer'
  BY DEF Inv, NoStaleTimer, WaitBlocks
<1> QED
  BY <1>10, <1>11, <1>13, <1>14, <1>15, <1>16 DEF Inv

(* The end of Wait: the nodes that go with the stack are in no list. *)
LEMMA WaitReturnsInv ==
    ASSUME Inv, NEW t \in Threads, WaitReturns(t)
    PROVE  Inv'
<1>1. /\ t \notin waiting /\ waiting' = waiting /\ signaled' = signaled
      /\ notifying' = notifying /\ SchedulerUnlocked
  BY DEF WaitReturns
<1>2. \A u \in Threads \ {t} :
         objects'[u] = objects[u] /\ pc'[u] = pc[u] /\ syncedIndex'[u] = syncedIndex[u]
  BY DEF WaitReturns, Return, Inv, TypeOK
<1>3. WaitSets' = WaitSets
  <2>1. ASSUME NEW o \in Objects, NEW n \in Nodes
        PROVE  n \in WaitNodes(o)' <=> n \in WaitNodes(o)
    <3>1. n[1] \in Threads
      BY DEF Nodes
    <3> QED
      BY <1>1, <1>2, <3>1 DEF WaitNodes
  <2>2. \A o \in Objects : WaitNodes(o)' = WaitNodes(o)
    BY <2>1 DEF WaitNodes
  <2> QED
    BY <2>2 DEF WaitSets
<1>4. PICK L, M : L = lists /\ M = lists'
  OBVIOUS
<1>5. L \in Links
  BY <1>4 DEF Inv, ListsHold
<1>6. M = [L EXCEPT !.next = [n \in Nodes |-> IF n[1] = t THEN Null ELSE @[n]]]
  BY <1>4 DEF WaitReturns
<1>7. M.head = L.head /\ M.tail = L.tail /\ M \in Links
      /\ \A n \in Nodes : n[1] # t => M.next[n] = L.next[n]
  BY <1>5, <1>6 DEF Links
<1>8. ListsHold(M, WaitSets)
  <2>1. ASSUME NEW o \in Objects
        PROVE  ListHolds(M, o, WaitSets[o])
    <3>1. ListHolds(L, o, WaitSets[o])
      BY <1>4 DEF Inv, ListsHold
    <3>2. \A n \in WaitSets[o] : n \in Nodes /\ n[1] # t
      BY <1>1 DEF WaitSets, WaitNodes
    <3> QED
      BY <1>7, <3>1, <3>2, ListDependsOnItsNodes
  <2> QED
    BY <1>7, <2>1, WaitSetsType DEF ListsHold
<1>9. ListsHold(lists, WaitSets)'
  <2>1. ListsHold(lists', WaitSets')
    BY <1>3, <1>4, <1>8
  <2> QED
    BY <2>1 DEF ListsHold, ListHolds, IsList, Links
<1>10. TypeOK'
  <2>1. lists' \in Links
    BY <1>4, <1>7
  <2>2. (IF t \in termReq THEN "exited" ELSE "run") \in {"run", "wait", "exited"}
    OBVIOUS
  <2>3. pc' \in [Threads -> {"run", "wait", "exited"}]
    BY <2>2 DEF Inv, TypeOK, WaitReturns, Return
  <2>4. objects' \in [Threads -> WaitLists \cup {<<>>}]
    BY DEF Inv, TypeOK, WaitReturns
  <2>5. result' \in [Threads -> Results]
    BY DEF Inv, TypeOK, WaitReturns, Results
  <2>6. syncedIndex' \in [Threads -> -1 .. ArgumentHandleCountMax - 1]
    BY WaitListsAssumption DEF Inv, TypeOK, WaitReturns
  <2> QED
    BY <2>1, <2>3, <2>4, <2>5, <2>6 DEF Inv, TypeOK, WaitReturns, Links
<1>11. WaitersInv'
  <2>1. \A u \in waiting : u \in Threads \ {t}
    BY <1>1 DEF Inv, TypeOK
  <2> QED
    BY <1>1, <1>2, <2>1 DEF Inv, WaitersInv, WaitReturns
<1>12. NotifyingInv'
  BY <1>1 DEF NotifyingInv, SchedulerUnlocked, NotNotifying
<1>13. ReadyInv'
  <2>1. \A u \in waiting : objects'[u] = objects[u]
    BY <1>1, <1>2 DEF Inv, TypeOK
  <2> QED
    BY <1>1, <2>1 DEF Inv, ReadyInv, Ready, SchedulerUnlocked, NotNotifying
<1>14. NoStaleTimer'
  BY DEF Inv, NoStaleTimer, WaitReturns
<1> QED
  BY <1>9, <1>10, <1>11, <1>12, <1>13, <1>14 DEF Inv

(* The parts of the invariant that ending a wait, in whatever way, preserves. *)
LEMMA EndWaitInv ==
    ASSUME Inv, NEW t \in Threads, NEW r \in Results, t \in waiting, EndWait(t, r),
           lists' = UnlinkAll(lists, t, objects[t]), UNCHANGED <<signaled, pc, objects>>,
           \A u \in Threads \ {t} : syncedIndex'[u] = syncedIndex[u],
           waitCancelled' \subseteq waitCancelled, termReq' \in SUBSET Threads,
           syncedIndex' \in [Threads -> -1 .. ArgumentHandleCountMax - 1],
           notifying' \in [object : Objects \cup {Null}, node : Nodes \cup {Null}]
    PROVE  /\ TypeOK' /\ WaitersInv' /\ NoStaleTimer' /\ ListsHold(lists, WaitSets)'
           /\ \A o \in Objects : LeadsTo(lists', lists.head[o], lists'.head[o],
                                         FirstNodes(t, Len(objects[t])))
<1>1. objects[t] \in WaitLists
  BY DEF Inv, WaitersInv
<1>2. waiting' = waiting \ {t}
  BY DEF EndWait
<1>3. /\ ListsHold(lists, WaitSets)'
      /\ \A o \in Objects : LeadsTo(lists', lists.head[o], lists'.head[o],
                                    FirstNodes(t, Len(objects[t])))
  BY <1>1, <1>2, EndWaitLists DEF Inv
<1>4. TypeOK'
  <2>1. lists' \in Links
    BY <1>3 DEF ListsHold, Links
  <2>2. result' \in [Threads -> Results]
    BY DEF Inv, TypeOK, EndWait
  <2> QED
    BY <2>1, <2>2 DEF Inv, TypeOK, EndWait, Links
<1>5. WaitersInv'
  <2>1. \A u \in waiting' : u \in waiting /\ u \in Threads \ {t}
    BY <1>2 DEF Inv, TypeOK
  <2> QED
    BY <2>1 DEF Inv, WaitersInv, EndWait
<1>6. NoStaleTimer'
  BY DEF Inv, NoStaleTimer, EndWait
<1> QED
  BY <1>3, <1>4, <1>5, <1>6

(* CancelWait, for a timeout, a cancellation or a termination. *)
LEMMA CancelWaitInv ==
    ASSUME Inv, NEW t \in Threads, NEW r \in Results, t \in waiting, SchedulerUnlocked,
           CancelWait(t, r), waitCancelled' \subseteq waitCancelled, termReq' \in SUBSET Threads
    PROVE  Inv'
<1>1. TypeOK' /\ WaitersInv' /\ NoStaleTimer' /\ ListsHold(lists, WaitSets)'
  BY EndWaitInv DEF CancelWait, Inv, TypeOK
<1>2. NotifyingInv'
  BY DEF NotifyingInv, SchedulerUnlocked, NotNotifying, CancelWait
<1>3. ReadyInv'
  <2>1. \A u \in waiting' : u \in waiting /\ Ready(objects[u]) = {}
    BY DEF Inv, ReadyInv, CancelWait, EndWait
  <2> QED
    BY <2>1 DEF ReadyInv, Ready, CancelWait
<1> QED
  BY <1>1, <1>2, <1>3 DEF Inv

(* OnTimer. *)
LEMMA OnTimerInv ==
    ASSUME Inv, NEW t \in Threads, OnTimer(t)
    PROVE  Inv'
<1>1. t \in waiting /\ SchedulerUnlocked
  BY DEF OnTimer, Inv, NoStaleTimer
<1>2. CancelWait(t, "TimedOut") /\ UNCHANGED <<waitCancelled, termReq>>
  BY <1>1 DEF OnTimer
<1>3. "TimedOut" \in Results
  BY DEF Results
<1>4. waitCancelled' \subseteq waitCancelled /\ termReq' \in SUBSET Threads
  BY <1>2 DEF Inv, TypeOK
<1> QED
  BY <1>1, <1>2, <1>3, <1>4, CancelWaitInv

(* A step that leaves lists, waits, signals and the loop alone. *)
LEMMA FlagsInv ==
    ASSUME Inv, SchedulerUnlocked,
           UNCHANGED <<signaled, lists, callVars, syncedIndex, waiting, cancellable, timer,
                       notifying>>,
           waitCancelled' \in SUBSET Threads, termReq' \in SUBSET Threads,
           \A t \in waiting : t \notin waitCancelled'
    PROVE  Inv'
<1>1. TypeOK'
  BY DEF Inv, TypeOK, callVars
<1>2. WaitersInv'
  BY DEF Inv, WaitersInv, callVars
<1>3. NoStaleTimer'
  BY DEF Inv, NoStaleTimer
<1>4. ListsHold(lists, WaitSets)'
  BY ListsUnchanged DEF Inv, callVars
<1>5. NotifyingInv'
  BY DEF NotifyingInv, SchedulerUnlocked, NotNotifying
<1>6. ReadyInv'
  BY DEF Inv, ReadyInv, Ready, SchedulerUnlocked, NotNotifying, callVars
<1> QED
  BY <1>1, <1>2, <1>3, <1>4, <1>5, <1>6 DEF Inv

(* WaitCancel: a cancellation is kept only for a thread that does not wait. *)
LEMMA WaitCancelInv ==
    ASSUME Inv, NEW t \in Threads, WaitCancel(t)
    PROVE  Inv'
<1>1. SchedulerUnlocked /\ termReq' = termReq
  BY DEF WaitCancel
<1>2. t \in waiting => t \in cancellable
  BY DEF Inv, WaitersInv
<1>3. CASE t \in waiting
  <2>1. CancelWait(t, "Cancelled") /\ waitCancelled' = waitCancelled \ {t}
    BY <1>2, <1>3 DEF WaitCancel
  <2>2. "Cancelled" \in Results
    BY DEF Results
  <2>3. waitCancelled' \subseteq waitCancelled /\ termReq' \in SUBSET Threads
    BY <1>1, <2>1 DEF Inv, TypeOK
  <2> QED
    BY <1>1, <1>3, <2>1, <2>2, <2>3, CancelWaitInv
<1>4. CASE t \notin waiting
  <2>1. /\ waitCancelled' = waitCancelled \cup {t}
        /\ UNCHANGED <<signaled, lists, callVars, syncedIndex, waiting, cancellable, timer,
                       notifying>>
    BY <1>4 DEF WaitCancel
  <2>2. waitCancelled' \in SUBSET Threads /\ termReq' \in SUBSET Threads
    BY <1>1, <2>1 DEF Inv, TypeOK
  <2>3. \A u \in waiting : u \notin waitCancelled'
    BY <1>4, <2>1 DEF Inv, WaitersInv
  <2> QED
    BY <1>1, <2>1, <2>2, <2>3, FlagsInv
<1> QED
  BY <1>3, <1>4

(* RequestTerminate. *)
LEMMA RequestTerminateInv ==
    ASSUME Inv, NEW t \in Threads, RequestTerminate(t)
    PROVE  Inv'
<1>1. SchedulerUnlocked /\ termReq' = termReq \cup {t} /\ waitCancelled' = waitCancelled
  BY DEF RequestTerminate
<1>2. /\ waitCancelled' \subseteq waitCancelled
      /\ termReq' \in SUBSET Threads /\ waitCancelled' \in SUBSET Threads
  BY <1>1 DEF Inv, TypeOK
<1>3. CASE t \in waiting
  <2>1. CancelWait(t, "TerminationRequested")
    BY <1>3 DEF RequestTerminate
  <2>2. "TerminationRequested" \in Results
    BY DEF Results
  <2> QED
    BY <1>1, <1>2, <1>3, <2>1, <2>2, CancelWaitInv
<1>4. CASE t \notin waiting
  <2>1. UNCHANGED <<signaled, lists, callVars, syncedIndex, waiting, cancellable, timer,
                    notifying>>
    BY <1>4 DEF RequestTerminate
  <2>2. \A u \in waiting : u \notin waitCancelled'
    BY <1>1 DEF Inv, WaitersInv
  <2> QED
    BY <1>1, <1>2, <2>1, <2>2, FlagsInv
<1> QED
  BY <1>3, <1>4

(* The head of a list is one of its nodes, and null if it has none. *)
LEMMA HeadInList ==
    ASSUME NEW L, NEW o, NEW N, ListHolds(L, o, N)
    PROVE  IF N = {} THEN L.head[o] = Null ELSE L.head[o] \in N
<1>1. PICK m, q : IsList(L, o, m, q) /\ N = {q[i] : i \in 1 .. m}
  BY DEF ListHolds
<1>2. m \in Nat /\ q[m + 1] = Null /\ L.head[o] = q[1]
  BY <1>1 DEF IsList
<1>3. CASE m = 0
  BY <1>1, <1>2, <1>3
<1>4. CASE m # 0
  <2>1. 1 \in 1 .. m
    BY <1>2, <1>4
  <2> QED
    BY <1>1, <1>2, <2>1
<1> QED
  BY <1>3, <1>4

(* More nodes to lead through do no harm. *)
LEMMA LeadsToThroughMore ==
    ASSUME NEW L, NEW n, NEW h, NEW D, NEW E, LeadsTo(L, n, h, D), D \subseteq E
    PROVE  LeadsTo(L, n, h, E)
BY DEF LeadsTo

(* From a node that it does not lead through, the pointers lead to that node only. *)
LEMMA LeadsNowhere ==
    ASSUME NEW L, NEW n, NEW h, NEW D, LeadsTo(L, n, h, D), n \notin D
    PROVE  h = n
<1>1. PICK k \in Nat : \E c : /\ c[1] = n /\ c[k + 1] = h
                              /\ \A i \in 1 .. k : c[i] \in D /\ L.next[c[i]] = c[i + 1]
  BY DEF LeadsTo
<1>2. k = 0
  <2> SUFFICES ASSUME k # 0
               PROVE  FALSE
    OBVIOUS
  <2>1. 1 \in 1 .. k
    OBVIOUS
  <2> QED
    BY <1>1, <2>1
<1> QED
  BY <1>1, <1>2

(* cur_node = cur_node->next: from a node that is out of the list, one step nearer. *)
(* The loop ends, at a null pointer, only if the list is empty.                     *)
LEMMA NextNodeLeads ==
    ASSUME NEW L \in Links, NEW o \in Objects, NEW N, ListHolds(L, o, N), NEW D \in SUBSET Nodes,
           NEW n \in D, n \notin N, LeadsTo(L, n, L.head[o], D)
    PROVE  /\ L.next[n] \in Nodes \cup {Null}
           /\ LeadsTo(L, L.next[n], L.head[o], D)
           /\ L.next[n] = Null => N = {}
<1>1. PICK k \in Nat : \E c : /\ c[1] = n /\ c[k + 1] = L.head[o]
                              /\ \A i \in 1 .. k : c[i] \in D /\ L.next[c[i]] = c[i + 1]
  BY DEF LeadsTo
<1>2. PICK c : /\ c[1] = n /\ c[k + 1] = L.head[o]
               /\ \A i \in 1 .. k : c[i] \in D /\ L.next[c[i]] = c[i + 1]
  BY <1>1
<1>3. IF N = {} THEN L.head[o] = Null ELSE L.head[o] \in N
  BY HeadInList
<1>4. k # 0
  <2> SUFFICES ASSUME k = 0
               PROVE  FALSE
    OBVIOUS
  <2>1. L.head[o] = n
    BY <1>2
  <2> QED
    BY <1>3, <2>1, NullAssumption
<1>5. k - 1 \in Nat /\ 1 \in 1 .. k /\ (k - 1) + 2 = k + 1
  BY <1>4
<1>6. L.next[n] = c[2]
  BY <1>2, <1>5
<1>7. PICK d : d = [i \in 1 .. k |-> c[i + 1]]
  OBVIOUS
<1>8. d[1] = L.next[n] /\ d[(k - 1) + 1] = L.head[o]
  BY <1>2, <1>5, <1>6, <1>7
<1>9. ASSUME NEW i \in 1 .. k - 1
      PROVE  d[i] \in D /\ L.next[d[i]] = d[i + 1]
  <2>1. i + 1 \in 1 .. k /\ i \in 1 .. k /\ (i + 1) + 1 = i + 2
    BY <1>5
  <2>2. d[i] = c[i + 1] /\ d[i + 1] = c[(i + 1) + 1]
    BY <1>7, <2>1
  <2> QED
    BY <1>2, <2>1, <2>2
<1>10. LeadsTo(L, L.next[n], L.head[o], D)
  BY <1>5, <1>8, <1>9 DEF LeadsTo
<1>11. L.next[n] \in Nodes \cup {Null}
  BY DEF Links
<1>12. ASSUME L.next[n] = Null
       PROVE  N = {}
  <2>1. L.next[n] \notin D
    BY <1>12, NullAssumption
  <2>2. L.head[o] = L.next[n]
    BY <1>10, <2>1, LeadsNowhere
  <2>3. N \subseteq Nodes
    <3>1. PICK m, q : IsList(L, o, m, q) /\ N = {q[i] : i \in 1 .. m}
      BY DEF ListHolds
    <3> QED
      BY <3>1 DEF IsList
  <2> QED
    BY <1>3, <1>12, <2>2, <2>3, NullAssumption
<1> QED
  BY <1>10, <1>11, <1>12

(* The index NotifyAvailable reports is one of the signaled object. *)
LEMMA SyncIndexFound ==
    ASSUME NEW t \in Threads, NEW o, objects[t] \in WaitLists,
           NEW i \in Indices(objects[t]), objects[t][i + 1] = o
    PROVE  /\ SyncIndex(t, o) \in Indices(objects[t])
           /\ objects[t][SyncIndex(t, o) + 1] = o
           /\ SyncIndex(t, o) \in -1 .. ArgumentHandleCountMax - 1
<1>1. PICK S : S = {j \in Indices(objects[t]) : objects[t][j + 1] = o}
  OBVIOUS
<1>2. /\ Len(objects[t]) \in Nat /\ ArgumentHandleCountMax \in Nat
      /\ Len(objects[t]) <= ArgumentHandleCountMax
  BY WaitListsAssumption
<1>3. S \in SUBSET Nat /\ S # {}
  <2>1. \A j \in Indices(objects[t]) : j \in Nat
    BY <1>2 DEF Indices
  <2>2. i \in S
    BY <1>1
  <2> QED
    BY <1>1, <2>1, <2>2
<1>4. PICK x \in S : \A y \in S : x <= y
  BY <1>3, LeastNumber
<1>5. \E j \in Indices(objects[t]) : /\ objects[t][j + 1] = o
                                     /\ \A l \in Indices(objects[t]) :
                                           objects[t][l + 1] = o => j <= l
  BY <1>1, <1>4
<1>6. SyncIndex(t, o) \in Indices(objects[t]) /\ objects[t][SyncIndex(t, o) + 1] = o
  BY <1>5 DEF SyncIndex
<1> QED
  BY <1>2, <1>6 DEF Indices

(* The thread whose node the loop has reached, if it still waits, waits for *)
(* the object, whose first waiter it is.                                    *)
LEMMA NotifiedWaits ==
    ASSUME Inv, ~ SchedulerUnlocked, NEW t, t = notifying.node[1], t \in waiting
    PROVE  /\ notifying.node = lists.head[notifying.object]
           /\ notifying.node[2] \in Indices(objects[t])
           /\ objects[t][notifying.node[2] + 1] = notifying.object
<1>1. PICK o, n : o = notifying.object /\ n = notifying.node
  OBVIOUS
<1>2. o \in Objects /\ n \in Nodes /\ LeadsTo(lists, n, lists.head[o], DeadNodes)
  BY <1>1 DEF Inv, NotifyingInv
<1>3. n \notin DeadNodes
  BY <1>1 DEF DeadNodes
<1>4. lists.head[o] = n
  BY <1>2, <1>3, LeadsNowhere
<1>5. ListHolds(lists, o, WaitSets[o])
  BY <1>2 DEF Inv, ListsHold
<1>6. n \in WaitSets[o]
  BY <1>2, <1>4, <1>5, HeadInList, NullAssumption
<1>7. n \in WaitNodes(o)
  BY <1>2, <1>6 DEF WaitSets
<1> QED
  BY <1>1, <1>4, <1>7 DEF WaitNodes

(* One iteration of the loop of NotifyAvailable. *)
LEMMA NotifyAvailableInv ==
    ASSUME Inv, NotifyAvailable
    PROVE  Inv'
<1>1. PICK o, n, t : o = notifying.object /\ n = notifying.node /\ t = n[1]
  OBVIOUS
<1>2. ~ SchedulerUnlocked
  BY DEF NotifyAvailable
<1>3. /\ o \in Objects /\ n \in Nodes /\ t \in Threads /\ signaled[o]
      /\ LeadsTo(lists, n, lists.head[o], DeadNodes)
  BY <1>1, <1>2 DEF Inv, NotifyingInv, Nodes
<1>4. notifying = [object |-> o, node |-> n]
  BY <1>1 DEF Inv, TypeOK
<1>5. /\ UNCHANGED <<signaled, pc, objects, waitCancelled, termReq>>
      /\ notifying' = IF lists'.next[n] = Null THEN NotNotifying
                      ELSE [object |-> o, node |-> lists'.next[n]]
  BY <1>1, <1>4 DEF NotifyAvailable, NextNode
<1>6. lists'.next[n] \in Nodes \cup {Null} =>
         notifying' \in [object : Objects \cup {Null}, node : Nodes \cup {Null}]
  BY <1>3, <1>5 DEF NotNotifying
<1>7. /\ lists' \in Links /\ ListsHold(lists, WaitSets)' /\ WaitersInv' /\ NoStaleTimer'
      /\ waiting' \subseteq waiting /\ t \notin waiting'
      /\ LeadsTo(lists', n, lists'.head[o], DeadNodes')
      /\ (lists'.next[n] \in Nodes \cup {Null} => TypeOK')
  <2>1. CASE t \in waiting
    <3>1. /\ lists' = UnlinkAll(lists, t, objects[t])
          /\ syncedIndex' = [syncedIndex EXCEPT ![t] = SyncIndex(t, o)]
          /\ EndWait(t, "Success")
      BY <1>1, <2>1 DEF NotifyAvailable
    <3>2. "Success" \in Results
      BY DEF Results
    <3>3. n = lists.head[o] /\ n[2] \in Indices(objects[t]) /\ objects[t][n[2] + 1] = o
      BY <1>1, <1>2, <2>1, NotifiedWaits
    <3>4. objects[t] \in WaitLists
      BY <2>1 DEF Inv, WaitersInv
    <3>5. SyncIndex(t, o) \in -1 .. ArgumentHandleCountMax - 1
      BY <1>3, <3>3, <3>4, SyncIndexFound
    <3>6. /\ syncedIndex' \in [Threads -> -1 .. ArgumentHandleCountMax - 1]
          /\ \A u \in Threads \ {t} : syncedIndex'[u] = syncedIndex[u]
      BY <3>1, <3>5 DEF Inv, TypeOK
    <3>7. waitCancelled' \subseteq waitCancelled /\ termReq' \in SUBSET Threads
      BY <1>5 DEF Inv, TypeOK
    <3>8. waiting' = waiting \ {t}
      BY <3>1 DEF EndWait
    <3>9. /\ ListsHold(lists, WaitSets)'
          /\ \A p \in Objects : LeadsTo(lists', lists.head[p], lists'.head[p],
                                        FirstNodes(t, Len(objects[t])))
      BY <1>3, <1>5, <2>1, <3>1, <3>4, <3>8, EndWaitLists DEF Inv
    <3>10. lists' \in Links
      BY <3>9 DEF ListsHold, Links
    <3>11. FirstNodes(t, Len(objects[t])) \subseteq DeadNodes'
      <4>1. \A i \in 1 .. Len(objects[t]) : <<t, i - 1>> \in Nodes
        BY <1>3, <3>4, FirstNodesAreNodes
      <4> QED
        BY <3>8, <4>1 DEF FirstNodes, DeadNodes
    <3>12. LeadsTo(lists', n, lists'.head[o], DeadNodes')
      <4>1. PICK D, E : D = FirstNodes(t, Len(objects[t])) /\ E = DeadNodes'
        OBVIOUS
      <4>2. LeadsTo(lists', n, lists'.head[o], D) /\ D \subseteq E
        BY <1>3, <3>3, <3>9, <3>11, <4>1
      <4>3. LeadsTo(lists', n, lists'.head[o], E)
        BY <4>2, LeadsToThroughMore
      <4> QED
        BY <4>1, <4>3
    <3>13. WaitersInv'
      <4>1. \A u \in waiting' : u \in waiting /\ u \in Threads \ {t}
        BY <3>8 DEF Inv, TypeOK
      <4> QED
        BY <1>5, <3>1, <3>6, <4>1 DEF Inv, WaitersInv, EndWait
    <3>14. NoStaleTimer'
      BY <3>1 DEF Inv, NoStaleTimer, EndWait
    <3>15. ASSUME lists'.next[n] \in Nodes \cup {Null}
           PROVE  TypeOK'
      BY <1>3, <1>5, <1>6, <2>1, <3>1, <3>2, <3>6, <3>7, <3>15, EndWaitInv
    <3> QED
      BY <3>8, <3>9, <3>10, <3>12, <3>13, <3>14, <3>15
  <2>2. CASE t \notin waiting
    <3>1. UNCHANGED <<lists, syncedIndex, waiting, result, cancellable, timer>>
      BY <1>1, <2>2 DEF NotifyAvailable
    <3>2. ListsHold(lists, WaitSets)'
      BY <1>5, <3>1, ListsUnchanged DEF Inv
    <3>3. DeadNodes' = DeadNodes
      BY <3>1 DEF DeadNodes
    <3>4. LeadsTo(lists', n, lists'.head[o], DeadNodes')
      BY <1>3, <3>1, <3>3
    <3>5. WaitersInv' /\ NoStaleTimer'
      BY <1>5, <3>1 DEF Inv, WaitersInv, NoStaleTimer
    <3>6. ASSUME lists'.next[n] \in Nodes \cup {Null}
          PROVE  TypeOK'
      BY <1>5, <1>6, <3>1, <3>6 DEF Inv, TypeOK
    <3>7. lists' \in Links
      BY <3>1 DEF Inv, ListsHold
    <3> QED
      BY <2>2, <3>1, <3>2, <3>4, <3>5, <3>6, <3>7
  <2> QED
    BY <2>1, <2>2
<1>8. PICK M, D, N : M = lists' /\ D = DeadNodes' /\ N = WaitSets'[o]
  OBVIOUS
<1>9. ListHolds(M, o, N)
  BY <1>3, <1>7, <1>8 DEF ListsHold, ListHolds, IsList
<1>10. D \in SUBSET Nodes /\ n \in D /\ n \notin N
  <2>1. DeadNodes' = {x \in Nodes : x[1] \notin waiting'}
    BY DEF DeadNodes
  <2>2. \A x \in WaitSets'[o] : x[1] \in waiting'
    BY <1>3 DEF WaitSets, WaitNodes
  <2> QED
    BY <1>1, <1>3, <1>7, <1>8, <2>1, <2>2
<1>11. /\ M.next[n] \in Nodes \cup {Null}
       /\ LeadsTo(M, M.next[n], M.head[o], D)
       /\ M.next[n] = Null => N = {}
  BY <1>3, <1>7, <1>8, <1>9, <1>10, NextNodeLeads
<1>12. TypeOK'
  BY <1>7, <1>8, <1>11
<1>13. NotifyingInv'
  <2>1. CASE M.next[n] = Null
    BY <1>5, <1>8, <2>1 DEF NotifyingInv, SchedulerUnlocked, NotNotifying
  <2>2. CASE M.next[n] # Null
    <3>1. notifying'.object = o /\ notifying'.node = M.next[n]
      BY <1>5, <1>8, <2>2
    <3>2. LeadsTo(lists', notifying'.node, lists'.head[notifying'.object], DeadNodes')
      BY <1>8, <1>11, <3>1
    <3>3. LeadsTo(lists, notifying.node, lists.head[notifying.object], DeadNodes)'
      BY <3>2 DEF LeadsTo
    <3> QED
      BY <1>3, <1>5, <1>11, <2>2, <3>1, <3>3 DEF NotifyingInv
  <2> QED
    BY <2>1, <2>2
<1>14. ReadyInv'
  <2> SUFFICES ASSUME NEW u \in waiting', NEW i \in Ready(objects[u])'
               PROVE  ~ SchedulerUnlocked' /\ objects'[u][i + 1] = notifying'.object
    BY DEF ReadyInv
  <2>1. u \in waiting /\ u \in Threads /\ objects[u] \in WaitLists
    BY <1>7 DEF Inv, TypeOK, WaitersInv
  <2>2. i \in Ready(objects[u]) /\ objects'[u] = objects[u]
    BY <1>5 DEF Ready
  <2>3. objects[u][i + 1] = o
    BY <1>1, <2>1, <2>2 DEF Inv, ReadyInv
  <2>4. i \in Indices(objects[u]) /\ i + 1 \in 1 .. Len(objects[u]) /\ (i + 1) - 1 = i
    <3>1. Len(objects[u]) \in Nat
      BY <2>1, WaitListsAssumption
    <3> QED
      BY <2>2, <3>1 DEF Ready, Indices
  <2>5. <<u, i>> \in Nodes
    BY <2>1, <2>4, FirstNodesAreNodes
  <2>6. <<u, i>> \in N
    BY <1>3, <1>8, <2>2, <2>3, <2>4, <2>5 DEF WaitSets, WaitNodes
  <2>7. M.next[n] # Null
    BY <1>11, <2>6
  <2>8. notifying'.object = o /\ notifying'.node # Null
    BY <1>5, <1>8, <2>7
  <2> QED
    BY <2>2, <2>3, <2>8 DEF SchedulerUnlocked, NotNotifying
<1> QED
  BY <1>7, <1>12, <1>13, <1>14 DEF Inv

(* KEvent::Signal: whoever waits for the object is in the list that is walked next. *)
LEMMA SignalInv ==
    ASSUME Inv, NEW o \in Objects, Signal(o)
    PROVE  Inv'
<1>1. /\ SchedulerUnlocked /\ signaled' = [signaled EXCEPT ![o] = TRUE]
      /\ notifying' = IF lists.head[o] = Null THEN NotNotifying
                      ELSE [object |-> o, node |-> lists.head[o]]
      /\ UNCHANGED <<lists, callVars, threadVars>>
  BY DEF Signal
<1>2. lists.head[o] \in Nodes \cup {Null}
  BY DEF Inv, TypeOK
<1>3. TypeOK'
  <2>1. signaled' \in [Objects -> BOOLEAN]
    BY <1>1 DEF Inv, TypeOK
  <2>2. notifying' \in [object : Objects \cup {Null}, node : Nodes \cup {Null}]
    BY <1>1, <1>2 DEF NotNotifying
  <2> QED
    BY <1>1, <2>1, <2>2 DEF Inv, TypeOK, callVars, threadVars
<1>4. WaitersInv' /\ NoStaleTimer'
  BY <1>1 DEF Inv, WaitersInv, NoStaleTimer, callVars, threadVars
<1>5. ListsHold(lists, WaitSets)'
  BY <1>1, ListsUnchanged DEF Inv, callVars, threadVars
<1>6. NotifyingInv'
  <2>1. CASE lists.head[o] = Null
    BY <1>1, <2>1 DEF NotifyingInv, SchedulerUnlocked, NotNotifying
  <2>2. CASE lists.head[o] # Null
    <3>1. notifying'.object = o /\ notifying'.node = lists.head[o]
      BY <1>1, <2>2
    <3>2. signaled'[o]
      BY <1>1 DEF Inv, TypeOK
    <3>3. LeadsTo(lists, notifying.node, lists.head[notifying.object], DeadNodes)'
      <4>1. PICK c : c = [i \in 1 .. 0 + 1 |-> lists.head[o]]
        OBVIOUS
      <4>2. /\ c[1] = notifying'.node /\ c[0 + 1] = lists'.head[notifying'.object]
            /\ \A i \in 1 .. 0 : FALSE
        BY <1>1, <3>1, <4>1
      <4> QED
        BY <4>2 DEF LeadsTo
    <3> QED
      BY <1>2, <2>2, <3>1, <3>2, <3>3 DEF NotifyingInv
  <2> QED
    BY <2>1, <2>2
<1>7. ReadyInv'
  <2> SUFFICES ASSUME NEW u \in waiting', NEW i \in Ready(objects[u])'
               PROVE  ~ SchedulerUnlocked' /\ objects'[u][i + 1] = notifying'.object
    BY DEF ReadyInv
  <2>1. u \in waiting /\ u \in Threads /\ objects[u] \in WaitLists /\ objects'[u] = objects[u]
    BY <1>1 DEF Inv, TypeOK, WaitersInv, callVars, threadVars
  <2>2. i \in Indices(objects[u]) /\ signaled'[objects[u][i + 1]] /\ i \notin Ready(objects[u])
    BY <1>1, <2>1 DEF Ready, Inv, ReadyInv
  <2>3. i + 1 \in 1 .. Len(objects[u]) /\ (i + 1) - 1 = i
    <3>1. Len(objects[u]) \in Nat
      BY <2>1, WaitListsAssumption
    <3> QED
      BY <2>2, <3>1 DEF Indices
  <2>4. objects[u][i + 1] \in Objects /\ <<u, i>> \in Nodes
    BY <2>1, <2>3, FirstNodesAreNodes
  <2>5. objects[u][i + 1] = o
    BY <1>1, <2>2, <2>4 DEF Ready, Inv, TypeOK
  <2>6. <<u, i>> \in WaitSets[o]
    BY <2>1, <2>2, <2>4, <2>5 DEF WaitSets, WaitNodes
  <2>7. ListHolds(lists, o, WaitSets[o])
    BY DEF Inv, ListsHold
  <2>8. lists.head[o] \in WaitSets[o]
    BY <2>6, <2>7, HeadInList
  <2>9. lists.head[o] # Null
    BY <2>8, NullAssumption, WaitSetsType
  <2> QED
    BY <1>1, <2>1, <2>5, <2>9 DEF SchedulerUnlocked, NotNotifying
<1> QED
  BY <1>3, <1>4, <1>5, <1>6, <1>7 DEF Inv

(* KEvent::Clear and ResetSignal. *)
LEMMA ResetInv ==
    ASSUME Inv, NEW o \in Objects, Reset(o)
    PROVE  Inv'
<1>1. /\ SchedulerUnlocked /\ signaled' = [signaled EXCEPT ![o] = FALSE]
      /\ UNCHANGED <<lists, callVars, threadVars, notifying>>
  BY DEF Reset
<1>2. TypeOK'
  BY <1>1 DEF Inv, TypeOK, callVars, threadVars
<1>3. WaitersInv' /\ NoStaleTimer'
  BY <1>1 DEF Inv, WaitersInv, NoStaleTimer, callVars, threadVars
<1>4. ListsHold(lists, WaitSets)'
  BY <1>1, ListsUnchanged DEF Inv, callVars, threadVars
<1>5. NotifyingInv'
  BY <1>1 DEF NotifyingInv, SchedulerUnlocked, NotNotifying
<1>6. ReadyInv'
  <2> SUFFICES ASSUME NEW u \in waiting', NEW i \in Ready(objects[u])'
               PROVE  FALSE
    BY DEF ReadyInv
  <2>1. u \in waiting /\ u \in Threads /\ objects[u] \in WaitLists /\ objects'[u] = objects[u]
    BY <1>1 DEF Inv, TypeOK, WaitersInv, callVars, threadVars
  <2>2. i \in Indices(objects[u]) /\ signaled'[objects[u][i + 1]] /\ i \notin Ready(objects[u])
    BY <1>1, <2>1 DEF Ready, Inv, ReadyInv
  <2>3. i + 1 \in 1 .. Len(objects[u])
    <3>1. Len(objects[u]) \in Nat
      BY <2>1, WaitListsAssumption
    <3> QED
      BY <2>2, <3>1 DEF Indices
  <2>4. objects[u][i + 1] \in Objects
    BY <2>1, <2>3, FirstNodesAreNodes
  <2> QED
    BY <1>1, <2>2, <2>4 DEF Ready, Inv, TypeOK
<1> QED
  BY <1>2, <1>3, <1>4, <1>5, <1>6 DEF Inv

-----------------------------------------------------------------------------
(* Every step preserves the invariant. *)
LEMMA NextInv == Inv /\ [Next]_vars => Inv'
<1> SUFFICES ASSUME Inv, [Next]_vars
             PROVE  Inv'
  OBVIOUS
<1>1. ASSUME NEW t \in Threads, NEW os \in WaitLists, NEW timeout \in Timeouts,
             Wait(t, os, timeout)
      PROVE  Inv'
  BY <1>1, WaitReturnsAtOnceInv, WaitBlocksInv DEF Wait
<1>2. ASSUME NEW t \in Threads, WaitReturns(t)
      PROVE  Inv'
  BY <1>2, WaitReturnsInv
<1>3. ASSUME NEW t \in Threads, OnTimer(t)
      PROVE  Inv'
  BY <1>3, OnTimerInv
<1>4. ASSUME NEW t \in Threads, WaitCancel(t)
      PROVE  Inv'
  BY <1>4, WaitCancelInv
<1>5. ASSUME NEW t \in Threads, RequestTerminate(t)
      PROVE  Inv'
  BY <1>5, RequestTerminateInv
<1>6. ASSUME NEW o \in Objects, Signal(o) \/ Reset(o)
      PROVE  Inv'
  BY <1>6, SignalInv, ResetInv
<1>7. CASE NotifyAvailable
  BY <1>7, NotifyAvailableInv
<1>8. CASE UNCHANGED vars
  <2>1. UNCHANGED <<signaled, lists, callVars, threadVars, notifying>>
    BY <1>8 DEF vars
  <2>2. TypeOK' /\ WaitersInv' /\ NoStaleTimer'
    BY <2>1 DEF Inv, TypeOK, WaitersInv, NoStaleTimer, callVars, threadVars
  <2>3. ListsHold(lists, WaitSets)'
    BY <2>1, ListsUnchanged DEF Inv, callVars, threadVars
  <2>4. NotifyingInv'
    <3>1. DeadNodes' = DeadNodes
      BY <2>1 DEF DeadNodes, threadVars
    <3>2. CASE SchedulerUnlocked
      BY <2>1, <3>2 DEF NotifyingInv, SchedulerUnlocked, NotNotifying
    <3>3. CASE ~ SchedulerUnlocked
      <4>1. LeadsTo(lists', notifying'.node, lists'.head[notifying'.object], DeadNodes')
        BY <2>1, <3>1, <3>3 DEF Inv, NotifyingInv
      <4>2. LeadsTo(lists, notifying.node, lists.head[notifying.object], DeadNodes)'
        BY <4>1 DEF LeadsTo
      <4> QED
        BY <2>1, <3>3, <4>2 DEF Inv, NotifyingInv
    <3> QED
      BY <3>2, <3>3
  <2>5. ReadyInv'
    BY <2>1 DEF Inv, ReadyInv, Ready, SchedulerUnlocked, NotNotifying, callVars, threadVars
  <2> QED
    BY <2>2, <2>3, <2>4, <2>5 DEF Inv
<1> QED
  BY <1>1, <1>2, <1>3, <1>4, <1>5, <1>6, <1>7, <1>8 DEF Next

(* The inductive invariant holds always. *)
LEMMA InvAlways == Spec => []Inv
<1>1. Init => Inv
  BY InitInv
<1>2. Inv /\ [Next]_vars => Inv'
  BY NextInv
<1> QED
  BY <1>1, <1>2, PTL DEF Spec

(* A list as the invariant describes it is what ListIntegrity says of Linked. *)
LEMMA ListsAreIntact == Inv => ListIntegrity
<1> SUFFICES ASSUME Inv, NEW o \in Objects
             PROVE  LET ns == Linked(lists, o)
                    IN  /\ IsInjective(ns)
                        /\ ToSet(ns) = WaitNodes(o)
                        /\ lists.tail[o] = IF ns = <<>> THEN Null ELSE Last(ns)
  BY DEF ListIntegrity
<1>1. ListHolds(lists, o, WaitNodes(o))
  BY DEF Inv, ListsHold, WaitSets
<1>2. PICK m, q : IsList(lists, o, m, q) /\ WaitNodes(o) = {q[i] : i \in 1 .. m}
  BY <1>1 DEF ListHolds
<1>3. PICK ns : ns = [i \in 1 .. m |-> q[i]]
  OBVIOUS
<1>4. Linked(lists, o) = ns
  BY <1>2, <1>3, LinkedIsList
<1>5. /\ m \in Nat /\ \A i \in 1 .. m : q[i] \in Nodes
      /\ \A i, j \in 1 .. m : q[i] = q[j] => i = j
      /\ lists.tail[o] = IF m = 0 THEN Null ELSE q[m]
  BY <1>2 DEF IsList
<1>6. ns \in Seq(Nodes) /\ Len(ns) = m
  BY <1>3, <1>5
<1>7. IsInjective(ns)
  BY <1>3, <1>5 DEF IsInjective
<1>8. ToSet(ns) = WaitNodes(o)
  BY <1>2, <1>3 DEF ToSet
<1>9. lists.tail[o] = IF ns = <<>> THEN Null ELSE Last(ns)
  <2>1. CASE m = 0
    <3>1. ns = <<>>
      BY <1>6, <2>1
    <3> QED
      BY <1>5, <2>1, <3>1
  <2>2. CASE m # 0
    <3>1. ns # <<>> /\ Last(ns) = q[m]
      BY <1>3, <1>5, <1>6, <2>2 DEF Last
    <3> QED
      BY <1>5, <2>2, <3>1
  <2> QED
    BY <2>1, <2>2
<1> QED
  BY <1>4, <1>7, <1>8, <1>9

(* Lists and timer tasks belong to the threads that wait, whoever ends a wait: *)
(* the list of every object holds exactly the nodes of its waiters, each once. *)
THEOREM WaitsStayConsistent == Spec => []WaitsConsistent
<1>1. Inv => WaitsConsistent
  BY ListsAreIntact DEF Inv, WaitsConsistent
<1> QED
  BY <1>1, InvAlways, PTL

(* No wake-up is lost: when the loop of NotifyAvailable is done nobody is left *)
(* waiting for an object that is signaled.                                     *)
THEOREM NoLostWakeUp == Spec => []NoWaiterOnSignaled
<1>1. Inv => NoWaiterOnSignaled
  BY DEF Inv, ReadyInv, NoWaiterOnSignaled
<1> QED
  BY <1>1, InvAlways, PTL

(* No thread sits in a cancellable wait while a cancellation from before is pending. *)
THEOREM CancelReachesWaiter == Spec => []CancelNotLost
<1>1. Inv => CancelNotLost
  BY DEF Inv, WaitersInv, CancelNotLost
<1> QED
  BY <1>1, InvAlways, PTL

(* A wait that ends with success reports the index of an object that is signaled, *)
(* and every other way to end it reports none.                                    *)
THEOREM WokenForASignal == Spec => WokenBySignaled
<1> DEFINE Woken(t) == IF result'[t] = "Success"
                       THEN syncedIndex'[t] \in Ready(objects[t])
                       ELSE syncedIndex'[t] = -1
<1>1. ASSUME Inv, [Next]_vars, NEW t \in waiting \ waiting'
      PROVE  Woken(t)
  <2>1. t \in Threads /\ syncedIndex[t] = -1 /\ objects[t] \in WaitLists
    BY <1>1 DEF Inv, TypeOK, WaitersInv
  <2>2. ASSUME NEW r, NEW u \in Threads, r # "Success", CancelWait(u, r)
        PROVE  Woken(t)
    <3>1. t = u /\ syncedIndex' = syncedIndex /\ result' = [result EXCEPT ![t] = r]
      BY <1>1, <2>2 DEF CancelWait, EndWait
    <3>2. result'[t] = r
      BY <1>1, <2>1, <3>1 DEF Inv, TypeOK
    <3> QED
      BY <2>1, <2>2, <3>1, <3>2
  <2>3. ASSUME NEW u \in Threads, NEW os \in WaitLists, NEW timeout \in Timeouts,
               Wait(u, os, timeout)
        PROVE  FALSE
    BY <1>1, <2>3 DEF Wait, WaitReturnsAtOnce, WaitBlocks
  <2>4. ASSUME NEW u \in Threads, WaitReturns(u)
        PROVE  FALSE
    BY <1>1, <2>4 DEF WaitReturns
  <2>5. ASSUME NEW u \in Threads, OnTimer(u)
        PROVE  Woken(t)
    <3>1. CancelWait(u, "TimedOut")
      BY <1>1, <2>5 DEF OnTimer
    <3> QED
      BY <2>2, <3>1
  <2>6. ASSUME NEW u \in Threads, WaitCancel(u)
        PROVE  Woken(t)
    <3>1. CancelWait(u, "Cancelled")
      BY <1>1, <2>6 DEF WaitCancel
    <3> QED
      BY <2>2, <3>1
  <2>7. ASSUME NEW u \in Threads, RequestTerminate(u)
        PROVE  Woken(t)
    <3>1. CancelWait(u, "TerminationRequested")
      BY <1>1, <2>7 DEF RequestTerminate
    <3> QED
      BY <2>2, <3>1
  <2>8. ASSUME NEW o \in Objects, Signal(o) \/ Reset(o)
        PROVE  FALSE
    BY <1>1, <2>8 DEF Signal, Reset, threadVars
  <2>9. CASE NotifyAvailable
    <3>1. PICK o, n : o = notifying.object /\ n = notifying.node
      OBVIOUS
    <3>2. /\ t = n[1] /\ syncedIndex' = [syncedIndex EXCEPT ![t] = SyncIndex(t, o)]
          /\ EndWait(t, "Success")
      BY <1>1, <2>9, <3>1 DEF NotifyAvailable, EndWait
    <3>3. ~ SchedulerUnlocked
      BY <2>9 DEF NotifyAvailable
    <3>4. signaled[o]
      BY <1>1, <3>1, <3>3 DEF Inv, NotifyingInv
    <3>5. n[2] \in Indices(objects[t]) /\ objects[t][n[2] + 1] = o
      BY <1>1, <3>1, <3>2, <3>3, NotifiedWaits
    <3>6. SyncIndex(t, o) \in Indices(objects[t]) /\ objects[t][SyncIndex(t, o) + 1] = o
      BY <2>1, <3>5, SyncIndexFound
    <3>7. syncedIndex'[t] = SyncIndex(t, o) /\ result'[t] = "Success"
      BY <1>1, <2>1, <3>2 DEF Inv, TypeOK, EndWait
    <3>8. SyncIndex(t, o) \in Ready(objects[t])
      BY <3>4, <3>6 DEF Ready
    <3> QED
      BY <3>7, <3>8
  <2>10. CASE UNCHANGED vars
    BY <1>1, <2>10 DEF vars, threadVars
  <2> HIDE DEF Woken
  <2> QED
    BY <1>1, <2>3, <2>4, <2>5, <2>6, <2>7, <2>8, <2>9, <2>10 DEF Next
<1>2. Inv /\ [Next]_vars => [\A t \in waiting \ waiting' : Woken(t)]_vars
  BY <1>1
<1> QED
  BY <1>2, InvAlways, PTL DEF Spec, WokenBySignaled

=============================================================================

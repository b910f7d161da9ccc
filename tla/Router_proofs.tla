---------------------------- MODULE Router_proofs ----------------------------
(***************************************************************************)
(* Proofs about the parts of the Router around its routing core, for any   *)
(* routes, keys, peers, accounts, connections and Routers, any limits and  *)
(* any settings: the deadline heap and its loop, the idempotency table,    *)
(* the registry, the auth document, accounts with their tokens, the        *)
(* process and its socket, and the settings.  Each part has an inductive   *)
(* invariant of its own; the suite's theorems, at the end, follow from     *)
(* them.                                                                   *)
(***************************************************************************)
EXTENDS MCRouter, SequenceLemmas

\* The instances count as FiniteSets does.
LEMMA Counting ==
  \A S : /\ Expiry!Cardinality(S) = Cardinality(S) /\ Pools!Cardinality(S) = Cardinality(S)
         /\ Reading!Cardinality(S) = Cardinality(S) /\ Process!Cardinality(S) = Cardinality(S)
         /\ (Expiry!IsFiniteSet(S) <=> IsFiniteSet(S))
  <1>1. \A S : Expiry!IsFiniteSet(S) <=> IsFiniteSet(S)
    BY Zenon DEF Expiry!IsFiniteSet, IsFiniteSet
  <1>2. \A S : Expiry!Cardinality(S) = Cardinality(S)
    BY Zenon DEF Expiry!Cardinality, Cardinality
  <1>3. \A S : Pools!Cardinality(S) = Cardinality(S)
    BY Zenon DEF Pools!Cardinality, Cardinality
  <1>4. \A S : Reading!Cardinality(S) = Cardinality(S)
    BY Zenon DEF Reading!Cardinality, Cardinality
  <1>5. \A S : Process!Cardinality(S) = Cardinality(S)
    BY Zenon DEF Process!Cardinality, Cardinality
  <1> QED BY <1>1, <1>2, <1>3, <1>4, <1>5, Zenon

-------------------------------------------------------------------------------
(* deadline.go: the heap and expireLoop.                                   *)

\* The parent of a position.
LEMMA Halves ==
  /\ \A j \in Nat : j >= 2 => j \div 2 \in Nat /\ 1 <= j \div 2 /\ j \div 2 < j
  /\ \A j, i \in Nat : (j \div 2 = i) <=> (j = 2 * i \/ j = 2 * i + 1)
  OBVIOUS

\* The keys of the first m in heap order; in heap order but for the one at j and
\* its parent; but for the one at i and its children.
Sorted(K, m) == \A i \in 2..m : K[i \div 2] <= K[i]
RiseReady(K, j, m) ==
  \A i \in 2..m : /\ i # j => K[i \div 2] <= K[i]
                  /\ i \div 2 = j /\ j > 1 => K[j \div 2] <= K[i]
SinkReady(K, j, m) ==
  \A i \in 2..m : /\ i \div 2 # j => K[i \div 2] <= K[i]
                  /\ i \div 2 = j /\ j > 1 => K[j \div 2] <= K[i]
Exchanged(K, L, p, j, m) ==
  /\ L[p] = K[j] /\ L[j] = K[p]
  /\ \A i \in 1..m : i # p /\ i # j => L[i] = K[i]

LEMMA RiseOrder ==
  ASSUME NEW m \in Nat, NEW K \in [1..m -> Int], NEW L \in [1..m -> Int], NEW j \in 2..m,
         K[j] < K[j \div 2], Exchanged(K, L, j \div 2, j, m), RiseReady(K, j, m)
  PROVE  RiseReady(L, j \div 2, m)
  <1> DEFINE p == j \div 2
  <1>1. p \in 1..m /\ p < j
    BY Halves
  <1>2. /\ L[p] = K[j] /\ L[j] = K[p] /\ K[j] < K[p]
        /\ \A i \in 1..m : i # p /\ i # j => L[i] = K[i]
    BY DEF Exchanged
  <1>3. \A i \in 2..m : i # j => K[i \div 2] <= K[i]
    BY DEF RiseReady
  <1>4. \A i \in 2..m : i \div 2 = j => K[p] <= K[i]
    BY DEF RiseReady
  <1> HIDE DEF p
  <1>5. ASSUME NEW i \in 2..m, i # p PROVE L[i \div 2] <= L[i]
    <2> DEFINE q == i \div 2
    <2>1. q \in 1..m /\ q < i
      BY Halves
    <2>2. i # j => K[q] <= K[i]
      BY <1>3
    <2>3. q = j => K[p] <= K[i]
      BY <1>4
    <2>4. i = j => q = p
      BY DEF p
    <2> HIDE DEF q
    <2>5. L[q] <= L[i]
      <3>1. CASE i = j
        BY <3>1, <2>4, <1>1, <1>2
      <3>2. CASE i # j /\ q = j
        BY <3>2, <2>1, <2>3, <1>1, <1>2, <1>5
      <3>3. CASE i # j /\ q = p
        BY <3>3, <2>1, <2>2, <1>1, <1>2, <1>5
      <3>4. CASE i # j /\ q # j /\ q # p
        BY <3>4, <2>1, <2>2, <1>1, <1>2, <1>5
      <3> QED BY <3>1, <3>2, <3>3, <3>4
    <2> QED BY <2>5 DEF q
  <1>6. ASSUME NEW i \in 2..m, i \div 2 = p, p > 1 PROVE L[p \div 2] <= L[i]
    <2> DEFINE g == p \div 2
    <2>1. g \in 1..m /\ g < p
      BY <1>1, <1>6, Halves
    <2>2. p < i
      BY <1>6, <1>1, Halves
    <2>3. K[g] <= K[p]
      <3>1. p \in 2..m /\ p # j
        BY <1>1, <1>6
      <3> QED BY <3>1, <1>3
    <2>4. i # j => K[p] <= K[i]
      BY <1>3, <1>6
    <2> HIDE DEF g
    <2>5. L[g] = K[g]
      BY <2>1, <1>1, <1>2
    <2>6. L[g] <= L[i]
      <3>1. CASE i = j
        BY <3>1, <2>1, <2>3, <2>5, <1>1, <1>2
      <3>2. CASE i # j
        BY <3>2, <2>1, <2>2, <2>3, <2>4, <2>5, <1>1, <1>2
      <3> QED BY <3>1, <3>2
    <2> QED BY <2>6 DEF g
  <1> QED BY <1>5, <1>6 DEF RiseReady, p

LEMMA SinkOrder ==
  ASSUME NEW m \in Nat, NEW K \in [1..m -> Int], NEW L \in [1..m -> Int], NEW j \in 1..m,
         NEW c \in 2..m, c \div 2 = j, K[c] < K[j],
         \A i \in 2..m : i \div 2 = j => K[c] <= K[i],
         Exchanged(K, L, j, c, m), SinkReady(K, j, m)
  PROVE  SinkReady(L, c, m)
  <1>1. j < c
    BY Halves
  <1>2. /\ L[j] = K[c] /\ L[c] = K[j]
        /\ \A i \in 1..m : i # j /\ i # c => L[i] = K[i]
    BY DEF Exchanged
  <1>3. \A i \in 2..m : i \div 2 # j => K[i \div 2] <= K[i]
    BY DEF SinkReady
  <1>4. \A i \in 2..m : i \div 2 = j /\ j > 1 => K[j \div 2] <= K[i]
    BY DEF SinkReady
  <1>5. ASSUME NEW i \in 2..m, i \div 2 # c PROVE L[i \div 2] <= L[i]
    <2> DEFINE q == i \div 2
    <2>1. q \in 1..m /\ q < i /\ q # c
      BY <1>5, Halves
    <2>2. q # j => K[q] <= K[i]
      BY <1>3
    <2>3. i = j => K[q] <= K[c]
      BY <1>4
    <2>4. i = c => q = j
      OBVIOUS
    <2>5. q = j => K[c] <= K[i]
      OBVIOUS
    <2> HIDE DEF q
    <2>6. L[q] <= L[i]
      <3>1. CASE i = c
        BY <3>1, <2>4, <1>1, <1>2
      <3>2. CASE i # c /\ q = j
        BY <3>2, <2>1, <2>5, <1>1, <1>2
      <3>3. CASE i = j
        BY <3>3, <2>1, <2>3, <1>1, <1>2
      <3>4. CASE i # c /\ q # j /\ i # j
        BY <3>4, <2>1, <2>2, <1>1, <1>2
      <3> QED BY <3>1, <3>2, <3>3, <3>4
    <2> QED BY <2>6 DEF q
  <1>6. ASSUME NEW i \in 2..m, i \div 2 = c PROVE L[c \div 2] <= L[i]
    <2>1. c < i
      BY <1>6, Halves
    <2>2. K[c] <= K[i]
      BY <1>1, <1>3, <1>6
    <2>3. L[j] <= L[i]
      BY <2>1, <2>2, <1>1, <1>2
    <2> QED BY <2>3
  <1> QED BY <1>5, <1>6 DEF SinkReady

\* The first of a heap is the least.
LEMMA FirstLeast ==
  ASSUME NEW m \in Nat, NEW K \in [1..m -> Int], Sorted(K, m)
  PROVE  \A i \in 1..m : K[1] <= K[i]
  <1> DEFINE T == {i \in 1..m : ~(K[1] <= K[i])}
  <1> SUFFICES ASSUME T # {} PROVE FALSE
    OBVIOUS
  <1>1. T \in SUBSET Nat /\ \A i \in 1..m : i \in T <=> K[i] < K[1]
    OBVIOUS
  <1>2. T \subseteq 1..m
    OBVIOUS
  <1> HIDE DEF T
  <1>3. PICK x \in T : \A y \in T : x <= y
    BY <1>1, LeastExists
  <1>4. x \in 2..m
    BY <1>1, <1>2, <1>3
  <1>5. x \div 2 \in 1..m /\ x \div 2 < x
    BY <1>4, Halves
  <1>6. x \div 2 \notin T
    BY <1>3, <1>4, <1>5
  <1>7. K[x \div 2] <= K[x]
    BY <1>4 DEF Sorted
  <1> DEFINE q == x \div 2
  <1>8. q \in 1..m /\ q \notin T /\ K[q] <= K[x]
    BY <1>5, <1>6, <1>7
  <1> HIDE DEF q
  <1> QED BY <1>1, <1>3, <1>4, <1>8


-----------------------------------------------------------------------------
Heaps == [h : Seq(TimedRoutes), idx : [TimedRoutes -> Int], dl : [TimedRoutes -> Int]]

\* Every route knows its place, and one that is not there knows that.
Placed(H) ==
  /\ \A i \in 1..Len(H.h) : H.idx[H.h[i]] = i - 1
  /\ \A rt \in TimedRoutes :
       \/ H.idx[rt] = -1
       \/ H.idx[rt] + 1 \in 1..Len(H.h) /\ H.h[H.idx[rt] + 1] = rt

KeysOf(H, m) == [i \in 1..m |-> H.dl[H.h[i]]]
Ordered(H, m) == Sorted(KeysOf(H, m), m)

\* G has the routes of H, those behind the first m where they were.
Rearranged(H, G, m) ==
  /\ G \in Heaps /\ Placed(G) /\ Len(G.h) = Len(H.h) /\ G.dl = H.dl
  /\ \A rt \in TimedRoutes : G.idx[rt] >= 0 <=> H.idx[rt] >= 0
  /\ \A k \in 1..Len(H.h) : k > m => G.h[k] = H.h[k]

LEMMA HeapFacts ==
  ASSUME NEW H \in Heaps
  PROVE  /\ H = [h |-> H.h, idx |-> H.idx, dl |-> H.dl]
         /\ H.h \in Seq(TimedRoutes) /\ H.idx \in [TimedRoutes -> Int] /\ H.dl \in [TimedRoutes -> Int]
         /\ Len(H.h) \in Nat /\ DOMAIN H.h = 1..Len(H.h)
         /\ \A i \in 1..Len(H.h) : H.h[i] \in TimedRoutes
  <1>1. /\ H = [h |-> H.h, idx |-> H.idx, dl |-> H.dl]
        /\ H.h \in Seq(TimedRoutes) /\ H.idx \in [TimedRoutes -> Int] /\ H.dl \in [TimedRoutes -> Int]
    BY DEF Heaps
  <1> QED BY <1>1, LenProperties, ElementOfSeq

LEMMA KeysType ==
  ASSUME NEW H \in Heaps, NEW m \in 0..Len(H.h)
  PROVE  /\ KeysOf(H, m) \in [1..m -> Int]
         /\ \A i \in 1..m : KeysOf(H, m)[i] = H.dl[H.h[i]]
  <1>1. \A i \in 1..m : H.h[i] \in TimedRoutes /\ H.dl[H.h[i]] \in Int
    BY HeapFacts
  <1> QED BY <1>1 DEF KeysOf

LEMMA SwapFacts ==
  ASSUME NEW H \in Heaps, Placed(H), NEW i \in 1..Len(H.h), NEW j \in 1..Len(H.h)
  PROVE  /\ Expiry!Swap(H, i, j) \in Heaps /\ Placed(Expiry!Swap(H, i, j))
         /\ Len(Expiry!Swap(H, i, j).h) = Len(H.h) /\ Expiry!Swap(H, i, j).dl = H.dl
         /\ Expiry!Swap(H, i, j).h[i] = H.h[j] /\ Expiry!Swap(H, i, j).h[j] = H.h[i]
         /\ \A k \in 1..Len(H.h) : k # i /\ k # j => Expiry!Swap(H, i, j).h[k] = H.h[k]
         /\ \A rt \in TimedRoutes : Expiry!Swap(H, i, j).idx[rt] >= 0 <=> H.idx[rt] >= 0
  <1> DEFINE n == Len(H.h)
             a == H.h
             x == H.idx
             b == [a EXCEPT ![i] = a[j], ![j] = a[i]]
             y == [x EXCEPT ![a[i]] = j - 1, ![a[j]] = i - 1]
             T == Expiry!Swap(H, i, j)
  <1>1. /\ a \in Seq(TimedRoutes) /\ x \in [TimedRoutes -> Int] /\ H.dl \in [TimedRoutes -> Int]
        /\ n \in Nat /\ \A k \in 1..n : a[k] \in TimedRoutes
        /\ H = [h |-> a, idx |-> x, dl |-> H.dl]
    BY HeapFacts
  <1>2. /\ b \in Seq(TimedRoutes) /\ Len(b) = n /\ b[i] = a[j] /\ b[j] = a[i]
        /\ \A k \in 1..n : k # i /\ k # j => b[k] = a[k]
    <2> DEFINE c == [a EXCEPT ![i] = a[j]]
    <2>1. /\ c \in Seq(TimedRoutes) /\ Len(c) = n /\ c[i] = a[j]
          /\ \A k \in 1..n : k # i => c[k] = a[k]
      BY <1>1, ExceptSeq
    <2>2. b = [c EXCEPT ![j] = a[i]]
      OBVIOUS
    <2>3. j \in 1..Len(c) /\ a[i] \in TimedRoutes
      BY <1>1, <2>1
    <2> HIDE DEF c, a, b
    <2>4. /\ [c EXCEPT ![j] = a[i]] \in Seq(TimedRoutes) /\ Len([c EXCEPT ![j] = a[i]]) = Len(c)
          /\ [c EXCEPT ![j] = a[i]][j] = a[i]
          /\ \A k \in 1..Len(c) : k # j => [c EXCEPT ![j] = a[i]][k] = c[k]
      BY <2>1, <2>3, ExceptSeq
    <2>5. /\ b \in Seq(TimedRoutes) /\ Len(b) = n /\ b[j] = a[i]
          /\ \A k \in 1..n : k # j => b[k] = c[k]
      BY <2>1, <2>2, <2>4
    <2> QED BY <2>1, <2>5
  <1>3. T = [h |-> b, idx |-> y, dl |-> H.dl]
    BY Zenon DEF Expiry!Swap
  <1>4. T.h = b /\ T.idx = y /\ T.dl = H.dl
    BY <1>3
  <1>p. x[a[i]] = i - 1 /\ x[a[j]] = j - 1
    BY DEF Placed
  <1>a. a[i] \in TimedRoutes /\ a[j] \in TimedRoutes /\ i \in Int /\ j \in Int
    BY <1>1
  <1>5. y \in [TimedRoutes -> Int] /\ y[a[j]] = i - 1 /\ (i # j => a[i] # a[j])
    <2> HIDE DEF a, x
    <2>1. i # j => a[i] # a[j]
      BY <1>p, <1>a
    <2> QED BY <1>1, <1>a, <2>1
  <1>6. (a[i] # a[j] => y[a[i]] = j - 1)
        /\ \A rt \in TimedRoutes : rt # a[i] /\ rt # a[j] => y[rt] = x[rt]
    BY <1>1
  <1>7. /\ \A k \in 1..n : x[a[k]] = k - 1
        /\ \A rt \in TimedRoutes : x[rt] = -1 \/ (x[rt] + 1 \in 1..n /\ a[x[rt] + 1] = rt)
    BY DEF Placed
  <1> HIDE DEF b, y, T, a, x
  <1>8. \A k \in 1..n : y[b[k]] = k - 1
    <2> SUFFICES ASSUME NEW k \in 1..n PROVE y[b[k]] = k - 1
      OBVIOUS
    <2>1. CASE k = i
      BY <2>1, <1>2, <1>5
    <2>2. CASE k = j /\ i # j
      BY <2>2, <1>2, <1>5, <1>6
    <2>3. CASE k # i /\ k # j
      <3>1. b[k] = a[k] /\ a[k] \in TimedRoutes
        BY <2>3, <1>1, <1>2
      <3>2. x[a[k]] = k - 1 /\ x[a[i]] = i - 1 /\ x[a[j]] = j - 1
        BY <1>7
      <3>3. a[k] # a[i] /\ a[k] # a[j]
        BY <2>3, <3>2
      <3> QED BY <3>1, <3>2, <3>3, <1>6
    <2> QED BY <2>1, <2>2, <2>3
  <1>9. ASSUME NEW rt \in TimedRoutes
        PROVE  /\ y[rt] = -1 \/ (y[rt] + 1 \in 1..n /\ b[y[rt] + 1] = rt)
               /\ y[rt] >= 0 <=> x[rt] >= 0
    <2>1. CASE rt = a[j]
      <3>1. y[rt] = i - 1 /\ x[rt] = j - 1
        BY <2>1, <1>5, <1>7
      <3> QED BY <3>1, <2>1, <1>2
    <2>2. CASE rt = a[i] /\ rt # a[j]
      <3>1. y[rt] = j - 1 /\ x[rt] = i - 1
        BY <2>2, <1>6, <1>7
      <3> QED BY <3>1, <2>2, <1>2
    <2>3. CASE rt # a[i] /\ rt # a[j]
      <3>1. y[rt] = x[rt] /\ x[rt] \in Int
        BY <2>3, <1>1, <1>6
      <3>2. CASE x[rt] = -1
        BY <3>1, <3>2
      <3>3. CASE x[rt] + 1 \in 1..n /\ a[x[rt] + 1] = rt
        <4>1. x[rt] + 1 # i /\ x[rt] + 1 # j
          BY <2>3, <3>3
        <4> QED BY <3>1, <3>3, <4>1, <1>2
      <3> QED BY <3>2, <3>3, <1>7
    <2> QED BY <2>1, <2>2, <2>3
  <1>10. Placed(T)
    BY <1>2, <1>4, <1>8, <1>9 DEF Placed
  <1>11. T \in Heaps
    BY <1>1, <1>2, <1>3, <1>5 DEF Heaps
  <1> QED BY <1>2, <1>4, <1>9, <1>10, <1>11 DEF T, a, x


-----------------------------------------------------------------------------
\* A route on its way through H, among the first m, at one of the first n.
Moving(H, m, n) ==
  {s \in [heap : Heaps, at : Nat \ {0}] : Rearranged(H, s.heap, m) /\ s.at \in 1..n}

LEMMA MovingFacts ==
  ASSUME NEW H \in Heaps, NEW m \in 0..Len(H.h), NEW n \in Nat, NEW s \in Moving(H, m, n)
  PROVE  /\ s = [heap |-> s.heap, at |-> s.at]
         /\ s.heap \in Heaps /\ s.at \in 1..n /\ Rearranged(H, s.heap, m)
         /\ Placed(s.heap) /\ Len(s.heap.h) = Len(H.h) /\ s.heap.dl = H.dl
  BY DEF Moving, Rearranged

\* Two of the first m trade places.
LEMMA SwapMoves ==
  ASSUME NEW H \in Heaps, NEW m \in 0..Len(H.h), NEW G \in Heaps, Rearranged(H, G, m),
         NEW i \in 1..m, NEW j \in 1..m
  PROVE  /\ Rearranged(H, Expiry!Swap(G, i, j), m)
         /\ Exchanged(KeysOf(G, m), KeysOf(Expiry!Swap(G, i, j), m), i, j, m)
  <1> DEFINE T == Expiry!Swap(G, i, j)
  <1>0. Len(H.h) \in Nat /\ Len(G.h) = Len(H.h) /\ Placed(G) /\ G.dl = H.dl
    BY HeapFacts DEF Rearranged
  <1>1. i \in 1..Len(G.h) /\ j \in 1..Len(G.h) /\ m \in 0..Len(G.h)
    BY <1>0
  <1>2. /\ T \in Heaps /\ Placed(T) /\ Len(T.h) = Len(G.h) /\ T.dl = G.dl
        /\ T.h[i] = G.h[j] /\ T.h[j] = G.h[i]
        /\ \A k \in 1..Len(G.h) : k # i /\ k # j => T.h[k] = G.h[k]
        /\ \A rt \in TimedRoutes : T.idx[rt] >= 0 <=> G.idx[rt] >= 0
    BY <1>0, <1>1, SwapFacts
  <1> HIDE DEF T
  <1>3. Rearranged(H, T, m)
    <2>1. \A k \in 1..Len(H.h) : k > m => T.h[k] = H.h[k]
      BY <1>0, <1>2 DEF Rearranged
    <2>2. \A rt \in TimedRoutes : T.idx[rt] >= 0 <=> H.idx[rt] >= 0
      BY <1>2 DEF Rearranged
    <2> QED BY <1>0, <1>2, <2>1, <2>2 DEF Rearranged
  <1>4. /\ \A k \in 1..m : KeysOf(T, m)[k] = T.dl[T.h[k]]
        /\ \A k \in 1..m : KeysOf(G, m)[k] = G.dl[G.h[k]]
    BY DEF KeysOf
  <1>5. \A k \in 1..m : k # i /\ k # j => T.h[k] = G.h[k]
    BY <1>0, <1>2
  <1>6. Exchanged(KeysOf(G, m), KeysOf(T, m), i, j, m)
    BY <1>2, <1>4, <1>5 DEF Exchanged
  <1> QED BY <1>3, <1>6 DEF T

LEMMA RiseRound ==
  ASSUME NEW H \in Heaps, NEW m \in 0..Len(H.h), NEW s \in Moving(H, m, m)
  PROVE  /\ Expiry!Rise(s) \in Moving(H, m, m)
         /\ RiseReady(KeysOf(s.heap, m), s.at, m)
              => RiseReady(KeysOf(Expiry!Rise(s).heap, m), Expiry!Rise(s).at, m)
         /\ Expiry!Rise(s).at < s.at \/ (Expiry!Rise(s) = s /\ (s.at = 1 \/ ~Expiry!Less(s.heap, s.at, s.at \div 2)))
  <1> DEFINE j == s.at
             p == j \div 2
             G == s.heap
             T == Expiry!Swap(G, p, j)
  <1>0. /\ s = [heap |-> G, at |-> j] /\ G \in Heaps /\ j \in 1..m /\ Rearranged(H, G, m)
        /\ Len(G.h) = Len(H.h) /\ Len(H.h) \in Nat /\ m \in Nat
    BY MovingFacts, HeapFacts
  <1>1. CASE j = 1 \/ ~Expiry!Less(G, j, p)
    BY <1>1, <1>0 DEF Expiry!Rise
  <1>2. CASE ~(j = 1 \/ ~Expiry!Less(G, j, p))
    <2>1. Expiry!Rise(s) = [heap |-> T, at |-> p]
      BY <1>2 DEF Expiry!Rise
    <2>2. j \in 2..m /\ p \in 1..m /\ p < j
      BY <1>0, <1>2, Halves
    <2>3. Rearranged(H, T, m) /\ Exchanged(KeysOf(G, m), KeysOf(T, m), p, j, m)
      BY <1>0, <2>2, SwapMoves
    <2>4. T \in Heaps /\ Len(T.h) = Len(H.h)
      BY <2>3 DEF Rearranged
    <2>5. Expiry!Rise(s).heap = T /\ Expiry!Rise(s).at = p
      BY <2>1
    <2>6. Expiry!Rise(s) \in Moving(H, m, m)
      BY <2>1, <2>2, <2>3, <2>4 DEF Moving
    <2>7. KeysOf(G, m)[j] < KeysOf(G, m)[p]
      <3>1. j \in 1..m
        BY <2>2
      <3>k. \A k \in 1..m : KeysOf(G, m)[k] = G.dl[G.h[k]]
        BY <1>0, KeysType
      <3>2. KeysOf(G, m)[j] = G.dl[G.h[j]] /\ KeysOf(G, m)[p] = G.dl[G.h[p]]
        BY <2>2, <3>1, <3>k, Zenon
      <3>3. G.dl[G.h[j]] < G.dl[G.h[p]]
        BY <1>2 DEF Expiry!Less
      <3> QED BY <3>2, <3>3
    <2>8. KeysOf(G, m) \in [1..m -> Int] /\ KeysOf(T, m) \in [1..m -> Int]
      BY <1>0, <2>4, KeysType
    <2>9. RiseReady(KeysOf(G, m), j, m) => RiseReady(KeysOf(T, m), p, m)
      BY <1>0, <2>2, <2>3, <2>7, <2>8, RiseOrder
    <2> QED BY <2>2, <2>5, <2>6, <2>9
  <1> QED BY <1>1, <1>2


\* The child that is chosen is the least of the children.
LEMMA ChildFacts ==
  ASSUME NEW G \in Heaps, NEW m \in 0..Len(G.h), NEW i \in Nat \ {0}, 2 * i <= m
  PROVE  /\ Expiry!Child(G, i, m) \in 2..m /\ Expiry!Child(G, i, m) \div 2 = i /\ i \in 1..m
         /\ \A k \in 2..m : k \div 2 = i => KeysOf(G, m)[Expiry!Child(G, i, m)] <= KeysOf(G, m)[k]
  <1> DEFINE K == KeysOf(G, m)
             c == Expiry!Child(G, i, m)
  <1>0. m \in Nat /\ i \in 1..m /\ K \in [1..m -> Int]
    BY HeapFacts, KeysType
  <1>1. \A k \in 2..m : k \div 2 = i => k = 2 * i \/ k = 2 * i + 1
    BY <1>0, Halves
  <1>2. (2 * i) \div 2 = i /\ (2 * i + 1) \div 2 = i
    BY Halves
  <1>3. 2 * i + 1 <= m => (Expiry!Less(G, 2 * i + 1, 2 * i) <=> K[2 * i + 1] < K[2 * i])
    <2>1. 2 * i \in 1..m /\ (2 * i + 1 <= m => 2 * i + 1 \in 1..m)
      BY <1>0
    <2>2. \A k \in 1..m : K[k] = G.dl[G.h[k]]
      BY KeysType
    <2> HIDE DEF K
    <2> QED BY <2>1, <2>2 DEF Expiry!Less
  <1>4. CASE 2 * i + 1 <= m /\ Expiry!Less(G, 2 * i + 1, 2 * i)
    <2>1. c = 2 * i + 1
      BY <1>4 DEF Expiry!Child
    <2> HIDE DEF K, c
    <2>2. c \in 2..m /\ c \div 2 = i
      BY <1>0, <1>2, <1>4, <2>1
    <2>a. K[c] < K[2 * i] /\ K[c] \in Int /\ K[2 * i] \in Int
      <3>1. 2 * i \in 1..m /\ 2 * i + 1 \in 1..m
        BY <1>0, <1>4
      <3> QED BY <1>0, <1>3, <1>4, <2>1, <3>1
    <2>3. \A k \in 2..m : k \div 2 = i => K[c] <= K[k]
      <3> SUFFICES ASSUME NEW k \in 2..m, k \div 2 = i PROVE K[c] <= K[k]
        OBVIOUS
      <3>1. k = 2 * i \/ k = c
        BY <1>1, <2>1
      <3> QED BY <2>a, <3>1
    <2> QED BY <1>0, <2>2, <2>3 DEF K, c
  <1>5. CASE ~(2 * i + 1 <= m /\ Expiry!Less(G, 2 * i + 1, 2 * i))
    <2>1. c = 2 * i
      BY <1>5 DEF Expiry!Child
    <2> HIDE DEF K, c
    <2>2. c \in 2..m /\ c \div 2 = i
      BY <1>0, <1>2, <2>1
    <2>3. 2 * i + 1 <= m => K[2 * i] <= K[2 * i + 1]
      BY <1>0, <1>3, <1>5
    <2>4. \A k \in 2..m : k \div 2 = i => K[c] <= K[k]
      BY <1>0, <1>1, <2>1, <2>3
    <2> QED BY <1>0, <2>2, <2>4 DEF K, c
  <1> QED BY <1>4, <1>5

SinkStuck(s, m) == 2 * s.at > m \/ ~Expiry!Less(s.heap, Expiry!Child(s.heap, s.at, m), s.at)

LEMMA SinkRound ==
  ASSUME NEW H \in Heaps, NEW m \in 0..Len(H.h), NEW s \in Moving(H, m, Len(H.h))
  PROVE  /\ Expiry!Sink(s, m) \in Moving(H, m, Len(H.h))
         /\ SinkReady(KeysOf(s.heap, m), s.at, m)
              => SinkReady(KeysOf(Expiry!Sink(s, m).heap, m), Expiry!Sink(s, m).at, m)
         /\ Expiry!Sink(s, m).at > s.at \/ (Expiry!Sink(s, m) = s /\ SinkStuck(s, m))
  <1> DEFINE j == s.at
             G == s.heap
             c == Expiry!Child(G, j, m)
             T == Expiry!Swap(G, j, c)
  <1>0. /\ s = [heap |-> G, at |-> j] /\ G \in Heaps /\ j \in 1..Len(H.h) /\ Rearranged(H, G, m)
        /\ Len(G.h) = Len(H.h) /\ Len(H.h) \in Nat /\ m \in Nat
    BY MovingFacts, HeapFacts
  <1>1. CASE SinkStuck(s, m)
    BY <1>1, <1>0, Zenon DEF Expiry!Sink, SinkStuck
  <1>2. CASE ~SinkStuck(s, m)
    <2>1. Expiry!Sink(s, m) = [heap |-> T, at |-> c] /\ 2 * j <= m /\ Expiry!Less(G, c, j)
      BY <1>0, <1>2 DEF Expiry!Sink, SinkStuck
    <2>2. /\ c \in 2..m /\ c \div 2 = j /\ j \in 1..m
          /\ \A k \in 2..m : k \div 2 = j => KeysOf(G, m)[c] <= KeysOf(G, m)[k]
      BY <1>0, <2>1, ChildFacts
    <2>a. c \in 1..m /\ j < c
      BY <1>0, <2>2, Halves
    <2>3. Rearranged(H, T, m) /\ Exchanged(KeysOf(G, m), KeysOf(T, m), j, c, m)
      BY <1>0, <2>2, <2>a, SwapMoves
    <2>4. T \in Heaps /\ Len(T.h) = Len(H.h)
      BY <2>3 DEF Rearranged
    <2>5. Expiry!Sink(s, m).heap = T /\ Expiry!Sink(s, m).at = c
      BY <2>1
    <2>b. c \in Nat \ {0} /\ c \in 1..Len(H.h)
      BY <1>0, <2>a
    <2>6. Expiry!Sink(s, m) \in Moving(H, m, Len(H.h))
      BY <2>1, <2>b, <2>3, <2>4 DEF Moving
    <2>7. KeysOf(G, m)[c] < KeysOf(G, m)[j]
      <3>k. \A k \in 1..m : KeysOf(G, m)[k] = G.dl[G.h[k]]
        BY <1>0, KeysType
      <3>2. KeysOf(G, m)[j] = G.dl[G.h[j]] /\ KeysOf(G, m)[c] = G.dl[G.h[c]]
        BY <2>2, <2>a, <3>k, Zenon
      <3>3. G.dl[G.h[c]] < G.dl[G.h[j]]
        BY <2>1 DEF Expiry!Less
      <3> QED BY <3>2, <3>3
    <2>8. KeysOf(G, m) \in [1..m -> Int] /\ KeysOf(T, m) \in [1..m -> Int]
      BY <1>0, <2>4, KeysType
    <2>9. SinkReady(KeysOf(G, m), j, m) => SinkReady(KeysOf(T, m), c, m)
      <3> DEFINE K == KeysOf(G, m)
                 L == KeysOf(T, m)
      <3> HIDE DEF K, L, j, c
      <3>1. \A k \in 2..m : k \div 2 = j => K[c] <= K[k]
        BY <2>2 DEF K
      <3>2. Exchanged(K, L, j, c, m) /\ K[c] < K[j]
        BY <2>3, <2>7 DEF K, L
      <3>3. K \in [1..m -> Int] /\ L \in [1..m -> Int]
        BY <2>8 DEF K, L
      <3>4. SinkReady(K, j, m) => SinkReady(L, c, m)
        BY <1>0, <2>2, <3>1, <3>2, <3>3, SinkOrder
      <3> QED BY <3>4 DEF K, L
    <2> QED BY <2>a, <2>5, <2>6, <2>9
  <1> QED BY <1>1, <1>2

\* What Up does, round by round.
UpRun(H, m, j, f) ==
  /\ f \in [Nat -> Moving(H, m, m)]
  /\ f[0] = [heap |-> H, at |-> j] /\ Expiry!Up(H, j) = f[j].heap
  /\ \A k \in Nat : f[k + 1] = Expiry!Rise(f[k])

LEMMA UpRounds ==
  ASSUME NEW H \in Heaps, NEW m \in 0..Len(H.h), NEW j \in 1..m, Placed(H)
  PROVE  \E f : UpRun(H, m, j, f)
  <1> DEFINE M == Moving(H, m, m)
             x == [heap |-> H, at |-> j]
             F == [s \in M |-> Expiry!Rise(s)]
             P(f) == f = [k \in Nat |-> IF k = 0 THEN x ELSE Expiry!Rise(f[k - 1])]
             run == CHOOSE f : P(f)
  <1>1. x \in M
    BY HeapFacts DEF Moving, Rearranged
  <1>2. F \in [M -> M] /\ \A s \in M : F[s] = Expiry!Rise(s)
    BY RiseRound
  <1> HIDE DEF M, F, x
  <1>i. PICK g : Iterates(M, F, x, g)
    <2>1. F \in [M -> M]
      BY <1>2
    <2> QED BY <1>1, <2>1, Iteration, Zenon
  <1>3. g \in [Nat -> M] /\ g[0] = x /\ \A n \in Nat : g[n + 1] = F[g[n]]
    BY <1>i DEF Iterates
  <1>4. P(g)
    <2>1. ASSUME NEW k \in Nat PROVE g[k] = IF k = 0 THEN x ELSE Expiry!Rise(g[k - 1])
      <3>1. CASE k = 0
        BY <3>1, <1>3
      <3>2. CASE k # 0
        <4>1. k - 1 \in Nat /\ (k - 1) + 1 = k
          BY <3>2
        <4> QED BY <3>2, <4>1, <1>2, <1>3
      <3> QED BY <3>1, <3>2
    <2>2. g = [k \in Nat |-> g[k]]
      BY <1>3
    <2>3. [k \in Nat |-> g[k]] = [k \in Nat |-> IF k = 0 THEN x ELSE Expiry!Rise(g[k - 1])]
      BY <2>1, Zenon
    <2> QED BY <2>2, <2>3, Zenon
  <1>5. Expiry!Up(H, j) = run[j].heap
    BY Zenon DEF Expiry!Up, x
  <1>6. P(run)
    <2> HIDE DEF P
    <2> QED BY <1>4, Zenon
  <1> HIDE DEF run
  <1>7. run[0] = x /\ \A k \in Nat : run[k + 1] = Expiry!Rise(run[k])
    <2>1. run[0] = x
      BY <1>6
    <2>2. ASSUME NEW k \in Nat PROVE run[k + 1] = Expiry!Rise(run[k])
      <3>1. k + 1 \in Nat /\ k + 1 # 0 /\ (k + 1) - 1 = k
        OBVIOUS
      <3>2. run[k + 1] = IF k + 1 = 0 THEN x ELSE Expiry!Rise(run[(k + 1) - 1])
        BY <1>6, <3>1
      <3> QED BY <3>1, <3>2
    <2> QED BY <2>1, <2>2
  <1>8. \A k \in Nat : run[k] \in M
    <2> DEFINE S == {k \in Nat : run[k] \in M}
    <2>1. 0 \in S
      BY <1>1, <1>7
    <2>2. ASSUME NEW k \in Nat, k \in S PROVE k + 1 \in S
      <3>1. run[k] \in M /\ run[k + 1] = Expiry!Rise(run[k])
        BY <2>2, <1>7
      <3> QED BY <3>1, RiseRound DEF M
    <2> HIDE DEF S
    <2>3. \A k \in Nat : k \in S
      BY <2>1, <2>2, Induction
    <2> QED BY <2>3 DEF S
  <1>9. run \in [Nat -> M]
    <2>1. run = [k \in Nat |-> run[k]]
      <3>1. DOMAIN run = Nat
        BY <1>6
      <3> QED BY <1>6
    <2> QED BY <2>1, <1>8
  <1>10. UpRun(H, m, j, run)
    BY <1>5, <1>7, <1>9 DEF M, x, UpRun
  <1> QED BY <1>10

\* What Down does, round by round.
DownRun(H, m, j, f) ==
  /\ f \in [Nat -> Moving(H, m, Len(H.h))]
  /\ f[0] = [heap |-> H, at |-> j] /\ Expiry!Down(H, j, m) = f[m].heap
  /\ \A k \in Nat : f[k + 1] = Expiry!Sink(f[k], m)

LEMMA DownRounds ==
  ASSUME NEW H \in Heaps, NEW m \in 0..Len(H.h), NEW j \in 1..Len(H.h), Placed(H)
  PROVE  \E f : DownRun(H, m, j, f)
  <1> DEFINE M == Moving(H, m, Len(H.h))
             x == [heap |-> H, at |-> j]
             F == [s \in M |-> Expiry!Sink(s, m)]
             P(f) == f = [k \in Nat |-> IF k = 0 THEN x ELSE Expiry!Sink(f[k - 1], m)]
             run == CHOOSE f : P(f)
  <1>1. x \in M
    BY HeapFacts DEF Moving, Rearranged
  <1>2. F \in [M -> M] /\ \A s \in M : F[s] = Expiry!Sink(s, m)
    BY SinkRound
  <1> HIDE DEF M, F, x
  <1>i. PICK g : Iterates(M, F, x, g)
    <2>1. F \in [M -> M]
      BY <1>2
    <2> QED BY <1>1, <2>1, Iteration, Zenon
  <1>3. g \in [Nat -> M] /\ g[0] = x /\ \A n \in Nat : g[n + 1] = F[g[n]]
    BY <1>i DEF Iterates
  <1>4. P(g)
    <2>1. ASSUME NEW k \in Nat PROVE g[k] = IF k = 0 THEN x ELSE Expiry!Sink(g[k - 1], m)
      <3>1. CASE k = 0
        BY <3>1, <1>3
      <3>2. CASE k # 0
        <4>1. k - 1 \in Nat /\ (k - 1) + 1 = k
          BY <3>2
        <4> QED BY <3>2, <4>1, <1>2, <1>3
      <3> QED BY <3>1, <3>2
    <2>2. g = [k \in Nat |-> g[k]]
      BY <1>3
    <2>3. [k \in Nat |-> g[k]] = [k \in Nat |-> IF k = 0 THEN x ELSE Expiry!Sink(g[k - 1], m)]
      BY <2>1, Zenon
    <2> QED BY <2>2, <2>3, Zenon
  <1>5. Expiry!Down(H, j, m) = run[m].heap
    BY Zenon DEF Expiry!Down, x
  <1>6. P(run)
    <2> HIDE DEF P
    <2> QED BY <1>4, Zenon
  <1> HIDE DEF run
  <1>7. run[0] = x /\ \A k \in Nat : run[k + 1] = Expiry!Sink(run[k], m)
    <2>1. run[0] = x
      BY <1>6
    <2>2. ASSUME NEW k \in Nat PROVE run[k + 1] = Expiry!Sink(run[k], m)
      <3>1. k + 1 \in Nat /\ k + 1 # 0 /\ (k + 1) - 1 = k
        OBVIOUS
      <3>2. run[k + 1] = IF k + 1 = 0 THEN x ELSE Expiry!Sink(run[(k + 1) - 1], m)
        BY <1>6, <3>1
      <3> QED BY <3>1, <3>2
    <2> QED BY <2>1, <2>2
  <1>8. \A k \in Nat : run[k] \in M
    <2> DEFINE S == {k \in Nat : run[k] \in M}
    <2>1. 0 \in S
      BY <1>1, <1>7
    <2>2. ASSUME NEW k \in Nat, k \in S PROVE k + 1 \in S
      <3>1. run[k] \in M /\ run[k + 1] = Expiry!Sink(run[k], m)
        BY <2>2, <1>7
      <3> QED BY <3>1, SinkRound DEF M
    <2> HIDE DEF S
    <2>3. \A k \in Nat : k \in S
      BY <2>1, <2>2, Induction
    <2> QED BY <2>3 DEF S
  <1>9. run \in [Nat -> M]
    <2>1. run = [k \in Nat |-> run[k]]
      <3>1. DOMAIN run = Nat
        BY <1>6
      <3> QED BY <1>6
    <2> QED BY <2>1, <1>8
  <1>10. DownRun(H, m, j, run)
    BY <1>5, <1>7, <1>9 DEF M, x, DownRun
  <1> QED BY <1>10


RiseStuck(s) == s.at = 1 \/ ~Expiry!Less(s.heap, s.at, s.at \div 2)

\* A route that rises comes to a place where all are in order.
LEMMA UpOrders ==
  ASSUME NEW H \in Heaps, NEW m \in 0..Len(H.h), NEW j \in 1..m, Placed(H),
         RiseReady(KeysOf(H, m), j, m)
  PROVE  Rearranged(H, Expiry!Up(H, j), m) /\ Ordered(Expiry!Up(H, j), m)
  <1>r. PICK f : UpRun(H, m, j, f)
    BY UpRounds, Zenon
  <1>1. /\ f \in [Nat -> Moving(H, m, m)]
        /\ f[0] = [heap |-> H, at |-> j] /\ Expiry!Up(H, j) = f[j].heap
        /\ \A k \in Nat : f[k + 1] = Expiry!Rise(f[k])
    BY <1>r DEF UpRun
  <1> DEFINE Good(s) == RiseReady(KeysOf(s.heap, m), s.at, m)
             S == {k \in Nat : Good(f[k]) /\ (RiseStuck(f[k]) \/ f[k].at <= j - k)}
  <1>0. m \in Nat /\ j \in Nat
    BY HeapFacts
  <1>2. 0 \in S
    <2>1. f[0].heap = H /\ f[0].at = j
      BY <1>1
    <2> QED BY <1>0, <2>1
  <1>3. ASSUME NEW k \in Nat, k \in S PROVE k + 1 \in S
    <2> DEFINE s == f[k]
               t == f[k + 1]
    <2>1. s \in Moving(H, m, m) /\ t = Expiry!Rise(s) /\ Good(s) /\ (RiseStuck(s) \/ s.at <= j - k)
      BY <1>1, <1>3
    <2>t. t \in Moving(H, m, m)
      BY <1>1
    <2> HIDE DEF s, t
    <2>2. Good(t) /\ (t.at < s.at \/ (t = s /\ RiseStuck(s)))
      BY <2>1, RiseRound DEF RiseStuck
    <2>a. s.at \in 1..m /\ t.at \in 1..m
      BY <1>0, <2>1, <2>t, MovingFacts, Zenon
    <2>3. s.at \in Nat /\ t.at \in Nat
      BY <1>0, <2>a
    <2>4. RiseStuck(t) \/ t.at <= j - (k + 1)
      <3>1. CASE RiseStuck(s)
        BY <3>1, <2>1 DEF Expiry!Rise, RiseStuck
      <3>2. CASE s.at <= j - k /\ t.at < s.at
        BY <3>2, <1>0, <2>3
      <3> QED BY <2>1, <2>2, <3>1, <3>2
    <2> HIDE DEF Good
    <2> QED BY <2>2, <2>4 DEF s, t
  <1>4. j \in S
    <2> HIDE DEF S
    <2> QED BY <1>0, <1>2, <1>3, Induction
  <1> DEFINE s == f[j]
  <1>5. s \in Moving(H, m, m) /\ Good(s) /\ (RiseStuck(s) \/ s.at <= 0) /\ Expiry!Up(H, j) = s.heap
    BY <1>0, <1>1, <1>4
  <1> HIDE DEF s
  <1>6. /\ s.heap \in Heaps /\ s.at \in 1..m /\ Rearranged(H, s.heap, m)
        /\ Len(s.heap.h) = Len(H.h) /\ m \in 0..Len(s.heap.h)
    BY <1>0, <1>5, MovingFacts
  <1> DEFINE K == KeysOf(s.heap, m)
             q == s.at
  <1>7. RiseReady(K, q, m)
    BY <1>5
  <1>8. K \in [1..m -> Int]
    BY <1>6, KeysType
  <1>9. q = 1 \/ ~(K[q] < K[q \div 2])
    <2>1. RiseStuck(s)
      BY <1>5, <1>6
    <2>2. q # 1 => q \div 2 \in 1..m
      BY <1>0, <1>6, Halves
    <2> QED BY <2>1, <2>2, <1>6, KeysType DEF RiseStuck, Expiry!Less
  <1> HIDE DEF K
  <1>10. Sorted(K, m)
    <2> SUFFICES ASSUME NEW i \in 2..m PROVE K[i \div 2] <= K[i]
      BY DEF Sorted
    <2>1. i \div 2 \in 1..m
      BY <1>0, Halves
    <2>2. CASE i = q
      BY <2>1, <2>2, <1>6, <1>8, <1>9
    <2>3. CASE i # q
      BY <2>3, <1>7 DEF RiseReady
    <2> QED BY <2>2, <2>3
  <1> QED BY <1>5, <1>6, <1>10 DEF Ordered, K

\* A route that sinks comes to a place where all are in order.
LEMMA DownOrders ==
  ASSUME NEW H \in Heaps, NEW m \in 0..Len(H.h), NEW j \in 1..Len(H.h), Placed(H),
         SinkReady(KeysOf(H, m), j, m)
  PROVE  Rearranged(H, Expiry!Down(H, j, m), m) /\ Ordered(Expiry!Down(H, j, m), m)
  <1>r. PICK f : DownRun(H, m, j, f)
    BY DownRounds, Zenon
  <1>1. /\ f \in [Nat -> Moving(H, m, Len(H.h))]
        /\ f[0] = [heap |-> H, at |-> j] /\ Expiry!Down(H, j, m) = f[m].heap
        /\ \A k \in Nat : f[k + 1] = Expiry!Sink(f[k], m)
    BY <1>r DEF DownRun
  <1> DEFINE Good(s) == SinkReady(KeysOf(s.heap, m), s.at, m)
             S == {k \in Nat : Good(f[k]) /\ (SinkStuck(f[k], m) \/ f[k].at > k)}
  <1>0. m \in Nat /\ j \in Nat /\ j > 0 /\ Len(H.h) \in Nat
    BY HeapFacts
  <1>2. 0 \in S
    <2>1. f[0].heap = H /\ f[0].at = j
      BY <1>1
    <2> QED BY <1>0, <2>1
  <1>3. ASSUME NEW k \in Nat, k \in S PROVE k + 1 \in S
    <2> DEFINE s == f[k]
               t == f[k + 1]
    <2>1. s \in Moving(H, m, Len(H.h)) /\ t = Expiry!Sink(s, m) /\ Good(s) /\ (SinkStuck(s, m) \/ s.at > k)
      BY <1>1, <1>3
    <2>t. t \in Moving(H, m, Len(H.h))
      BY <1>1
    <2> HIDE DEF s, t
    <2>2. Good(t) /\ (t.at > s.at \/ (t = s /\ SinkStuck(s, m)))
      BY <2>1, SinkRound
    <2>a. s.at \in 1..Len(H.h) /\ t.at \in 1..Len(H.h)
      BY <1>0, <2>1, <2>t, MovingFacts, Zenon
    <2>3. s.at \in Nat /\ t.at \in Nat
      BY <1>0, <2>a
    <2>4. SinkStuck(t, m) \/ t.at > k + 1
      <3>1. CASE SinkStuck(s, m)
        BY <3>1, <2>1, Zenon DEF Expiry!Sink, SinkStuck
      <3>2. CASE s.at > k /\ t.at > s.at
        BY <3>2, <1>0, <2>3
      <3> QED BY <2>1, <2>2, <3>1, <3>2
    <2> HIDE DEF Good
    <2> QED BY <2>2, <2>4 DEF s, t
  <1>4. m \in S
    <2> HIDE DEF S
    <2> QED BY <1>0, <1>2, <1>3, Induction
  <1> DEFINE s == f[m]
  <1>5. s \in Moving(H, m, Len(H.h)) /\ Good(s) /\ (SinkStuck(s, m) \/ s.at > m) /\ Expiry!Down(H, j, m) = s.heap
    BY <1>0, <1>1, <1>4
  <1> HIDE DEF s
  <1>6. /\ s.heap \in Heaps /\ s.at \in 1..Len(H.h) /\ Rearranged(H, s.heap, m)
        /\ Len(s.heap.h) = Len(H.h) /\ m \in 0..Len(s.heap.h)
    BY <1>0, <1>5, MovingFacts
  <1> DEFINE K == KeysOf(s.heap, m)
             q == s.at
             c == Expiry!Child(s.heap, s.at, m)
  <1>7. SinkReady(K, q, m)
    BY <1>5
  <1>8. K \in [1..m -> Int]
    BY <1>6, KeysType
  <1>9. 2 * q <= m => /\ c \in 2..m /\ q \in 1..m /\ ~(K[c] < K[q])
                      /\ \A k \in 2..m : k \div 2 = q => K[c] <= K[k]
    <2> SUFFICES ASSUME 2 * q <= m
                 PROVE  /\ c \in 2..m /\ q \in 1..m /\ ~(K[c] < K[q])
                        /\ \A k \in 2..m : k \div 2 = q => K[c] <= K[k]
      OBVIOUS
    <2>1. SinkStuck(s, m)
      BY <1>0, <1>5, <1>6
    <2>2. ~Expiry!Less(s.heap, c, q)
      BY <2>1, <1>0, <1>6 DEF SinkStuck
    <2>q. q \in Nat \ {0}
      BY <1>0, <1>6
    <2>3. /\ c \in 2..m /\ q \in 1..m
          /\ \A k \in 2..m : k \div 2 = q => K[c] <= K[k]
      BY <2>q, <1>6, ChildFacts
    <2>4. K[c] = s.heap.dl[s.heap.h[c]] /\ K[q] = s.heap.dl[s.heap.h[q]]
      <3>1. c \in 1..m
        BY <2>3, <1>0
      <3> QED BY <3>1, <2>3, <1>6, KeysType
    <2>5. ~(K[c] < K[q])
      BY <2>2, <2>4 DEF Expiry!Less
    <2> QED BY <2>3, <2>5
  <1> HIDE DEF K, c
  <1>10. Sorted(K, m)
    <2> SUFFICES ASSUME NEW i \in 2..m PROVE K[i \div 2] <= K[i]
      BY DEF Sorted
    <2>1. CASE i \div 2 = q
      <3>1. 2 * q <= m
        BY <2>1, <1>0, Halves
      <3>a. c \in 2..m /\ q \in 1..m /\ ~(K[c] < K[q]) /\ K[c] <= K[i]
        BY <2>1, <3>1, <1>9
      <3>b. K[c] \in Int /\ K[q] \in Int /\ K[i] \in Int
        BY <3>a, <1>0, <1>8
      <3>2. K[q] <= K[c] /\ K[c] <= K[i]
        BY <3>a, <3>b
      <3>3. K[q] <= K[i]
        BY <3>1, <3>2, <1>8, <1>9
      <3> QED BY <2>1, <3>3
    <2>2. CASE i \div 2 # q
      BY <2>2, <1>7 DEF SinkReady
    <2> QED BY <2>1, <2>2
  <1> QED BY <1>5, <1>6, <1>10 DEF Ordered, K

\* A route that no child goes before stays where it is.
LEMMA DownStays ==
  ASSUME NEW H \in Heaps, NEW m \in 0..Len(H.h), NEW j \in 1..Len(H.h), Placed(H),
         SinkStuck([heap |-> H, at |-> j], m)
  PROVE  Expiry!Down(H, j, m) = H
  <1>r. PICK f : DownRun(H, m, j, f)
    BY DownRounds, Zenon
  <1>1. /\ f \in [Nat -> Moving(H, m, Len(H.h))]
        /\ f[0] = [heap |-> H, at |-> j] /\ Expiry!Down(H, j, m) = f[m].heap
        /\ \A k \in Nat : f[k + 1] = Expiry!Sink(f[k], m)
    BY <1>r DEF DownRun
  <1> DEFINE x == [heap |-> H, at |-> j]
             S == {k \in Nat : f[k] = x}
  <1>2. 0 \in S
    BY <1>1
  <1>3. Expiry!Sink(x, m) = x
    BY Zenon DEF Expiry!Sink, SinkStuck
  <1>4. ASSUME NEW k \in Nat, k \in S PROVE k + 1 \in S
    BY <1>1, <1>3, <1>4
  <1>5. m \in Nat /\ m \in S
    <2>1. m \in Nat
      BY HeapFacts
    <2> HIDE DEF S
    <2> QED BY <2>1, <1>2, <1>4, Induction
  <1>6. f[m] = x
    BY <1>5
  <1> QED BY <1>1, <1>6


-----------------------------------------------------------------------------
\* G is H without the route rt.
Lost(H, G, rt) ==
  /\ G \in Heaps /\ Placed(G) /\ Ordered(G, Len(G.h)) /\ Len(G.h) = Len(H.h) - 1
  /\ \A q \in TimedRoutes : G.idx[q] >= 0 <=> H.idx[q] >= 0 /\ q # rt
  /\ \A q \in TimedRoutes : q # rt => G.dl[q] = H.dl[q]

LEMMA PoppedFacts ==
  ASSUME NEW H \in Heaps, Placed(H), Len(H.h) > 0, Ordered(H, Len(H.h) - 1)
  PROVE  Lost(H, Expiry!Popped(H), H.h[Len(H.h)])
  <1> DEFINE n == Len(H.h)
             a == H.h
             x == H.idx
             last == a[n]
             b == SubSeq(a, 1, n - 1)
             y == [x EXCEPT ![last] = -1]
             d == [H.dl EXCEPT ![last] = 0]
             G == Expiry!Popped(H)
  <1>1. /\ a \in Seq(TimedRoutes) /\ x \in [TimedRoutes -> Int] /\ H.dl \in [TimedRoutes -> Int]
        /\ n \in Nat /\ n > 0 /\ \A k \in 1..n : a[k] \in TimedRoutes
    BY HeapFacts
  <1>2. last \in TimedRoutes
    BY <1>1
  <1>3. b \in Seq(TimedRoutes) /\ Len(b) = n - 1 /\ \A k \in 1..n - 1 : b[k] = a[k]
    BY <1>1
  <1>4. G = [h |-> b, idx |-> y, dl |-> d]
    BY Zenon DEF Expiry!Popped
  <1>5. /\ y \in [TimedRoutes -> Int] /\ y[last] = -1 /\ \A q \in TimedRoutes : q # last => y[q] = x[q]
        /\ d \in [TimedRoutes -> Int] /\ \A q \in TimedRoutes : q # last => d[q] = H.dl[q]
    BY <1>1, <1>2
  <1>6. /\ \A k \in 1..n : x[a[k]] = k - 1
        /\ \A q \in TimedRoutes : x[q] = -1 \/ (x[q] + 1 \in 1..n /\ a[x[q] + 1] = q)
    BY DEF Placed
  <1>7. G.h = b /\ G.idx = y /\ G.dl = d /\ G \in Heaps
    BY <1>3, <1>4, <1>5 DEF Heaps
  <1>8. x[last] = n - 1 /\ \A k \in 1..n - 1 : a[k] # last
    <2>1. x[last] = n - 1
      BY <1>1, <1>6
    <2>2. ASSUME NEW k \in 1..n - 1 PROVE x[a[k]] # n - 1
      <3>1. k \in 1..n /\ k - 1 # n - 1
        BY <1>1
      <3>2. x[a[k]] = k - 1
        BY <3>1, <1>6
      <3> HIDE DEF x, a, n
      <3> QED BY <3>1, <3>2
    <2> QED BY <2>1, <2>2
  <1> HIDE DEF a, b, x, y, d, G, last
  <1>9. \A k \in 1..n - 1 : y[b[k]] = k - 1
    <2> SUFFICES ASSUME NEW k \in 1..n - 1 PROVE y[b[k]] = k - 1
      OBVIOUS
    <2>0. k \in 1..n
      BY <1>1
    <2>1. b[k] = a[k] /\ a[k] \in TimedRoutes /\ a[k] # last
      BY <2>0, <1>1, <1>3, <1>8
    <2>2. x[a[k]] = k - 1
      BY <2>0, <1>6
    <2> QED BY <2>1, <2>2, <1>5
  <1>10. ASSUME NEW q \in TimedRoutes
         PROVE  /\ y[q] = -1 \/ (y[q] + 1 \in 1..n - 1 /\ b[y[q] + 1] = q)
                /\ y[q] >= 0 <=> x[q] >= 0 /\ q # last
    <2>1. CASE q = last
      BY <2>1, <1>5
    <2>2. CASE q # last /\ x[q] = -1
      BY <2>2, <1>5
    <2>3. CASE q # last /\ x[q] + 1 \in 1..n /\ a[x[q] + 1] = q
      <3>1. y[q] = x[q] /\ x[q] \in Int /\ x[q] + 1 # n
        BY <2>3, <1>1, <1>5 DEF last
      <3>2. x[q] + 1 \in 1..n - 1
        BY <2>3, <3>1, <1>1
      <3> QED BY <2>3, <3>1, <3>2, <1>3
    <2> QED BY <2>1, <2>2, <2>3, <1>6
  <1>11. Placed(G)
    BY <1>3, <1>7, <1>9, <1>10 DEF Placed
  <1>12. Ordered(G, n - 1)
    <2>1. ASSUME NEW i \in 1..n - 1 PROVE d[b[i]] = H.dl[a[i]]
      <3>1. i \in 1..n
        BY <1>1
      <3>2. b[i] = a[i] /\ a[i] \in TimedRoutes /\ a[i] # last
        BY <3>1, <1>1, <1>3, <1>8
      <3> QED BY <3>2, <1>5
    <2>2. KeysOf(G, n - 1) = KeysOf(H, n - 1)
      BY <2>1, <1>7 DEF KeysOf, a
    <2> QED BY <2>2 DEF Ordered
  <1> QED BY <1>3, <1>5, <1>7, <1>10, <1>11, <1>12 DEF Lost, last, a, x, G

LEMMA SortedFewer ==
  ASSUME NEW H \in Heaps, Ordered(H, Len(H.h)), NEW m \in 0..Len(H.h)
  PROVE  Ordered(H, m)
  <1> DEFINE n == Len(H.h)
  <1>0. n \in Nat
    BY HeapFacts
  <1>1. \A i \in 1..m : KeysOf(H, m)[i] = KeysOf(H, n)[i]
    BY <1>0 DEF KeysOf
  <1> SUFFICES ASSUME NEW i \in 2..m PROVE KeysOf(H, m)[i \div 2] <= KeysOf(H, m)[i]
    BY DEF Ordered, Sorted
  <1>2. i \div 2 \in 1..m /\ i \in 2..n /\ i \in 1..m
    BY <1>0, Halves
  <1>3. KeysOf(H, n)[i \div 2] <= KeysOf(H, n)[i]
    BY <1>2 DEF Ordered, Sorted
  <1> QED BY <1>1, <1>2, <1>3

\* What is popped after a rearrangement is the route that was behind.
LEMMA PoppedAfter ==
  ASSUME NEW H \in Heaps, Len(H.h) > 0, NEW S \in Heaps, Len(S.h) = Len(H.h), S.dl = H.dl,
         \A q \in TimedRoutes : S.idx[q] >= 0 <=> H.idx[q] >= 0,
         NEW D, Rearranged(S, D, Len(H.h) - 1), Ordered(D, Len(H.h) - 1)
  PROVE  Lost(H, Expiry!Popped(D), S.h[Len(H.h)])
  <1>1. D \in Heaps /\ Placed(D) /\ Len(D.h) = Len(H.h) /\ D.dl = H.dl
    BY DEF Rearranged
  <1>2. D.h[Len(H.h)] = S.h[Len(H.h)]
    <2> DEFINE n == Len(H.h)
    <2>1. n \in Nat /\ n > 0
      BY HeapFacts
    <2>2. \A k \in 1..n : k > n - 1 => D.h[k] = S.h[k]
      BY DEF Rearranged
    <2> HIDE DEF n
    <2>3. D.h[n] = S.h[n]
      BY <2>1, <2>2
    <2> QED BY <2>3 DEF n
  <1>3. Lost(D, Expiry!Popped(D), S.h[Len(H.h)])
    BY <1>1, <1>2, PoppedFacts
  <1>4. \A q \in TimedRoutes : D.idx[q] >= 0 <=> H.idx[q] >= 0
    BY DEF Rearranged
  <1> QED BY <1>1, <1>3, <1>4 DEF Lost

LEMMA HeapPopFacts ==
  ASSUME NEW H \in Heaps, Placed(H), Ordered(H, Len(H.h)), Len(H.h) > 0
  PROVE  Lost(H, Expiry!HeapPop(H), H.h[1])
  <1> DEFINE n == Len(H.h)
             m == n - 1
             S == Expiry!Swap(H, 1, n)
             D == Expiry!Down(S, 1, m)
  <1>0. n \in Nat /\ n > 0 /\ 1 \in 1..n /\ n \in 1..n /\ m \in 0..n
    BY HeapFacts
  <1>1. /\ S \in Heaps /\ Placed(S) /\ Len(S.h) = n /\ S.dl = H.dl
        /\ S.h[n] = H.h[1]
        /\ \A k \in 1..n : k # 1 /\ k # n => S.h[k] = H.h[k]
        /\ \A rt \in TimedRoutes : S.idx[rt] >= 0 <=> H.idx[rt] >= 0
    BY <1>0, SwapFacts
  <1> HIDE DEF S
  <1>2. SinkReady(KeysOf(S, m), 1, m)
    <2> SUFFICES ASSUME NEW i \in 2..m, i \div 2 # 1
                 PROVE  KeysOf(S, m)[i \div 2] <= KeysOf(S, m)[i]
      BY DEF SinkReady
    <2> DEFINE q == i \div 2
    <2>1. q \in 1..m /\ q # 1 /\ i \in 1..m /\ i # 1 /\ i # n /\ q # n /\ i \in 1..n /\ q \in 1..n /\ i \in 2..n
      BY <1>0, Halves
    <2>2. KeysOf(H, n)[q] <= KeysOf(H, n)[i]
      BY <2>1 DEF Ordered, Sorted
    <2> HIDE DEF q
    <2>3. S.h[q] = H.h[q] /\ S.h[i] = H.h[i]
      BY <2>1, <1>1
    <2>4. KeysOf(S, m)[q] = KeysOf(H, n)[q] /\ KeysOf(S, m)[i] = KeysOf(H, n)[i]
      BY <2>1, <2>3, <1>1 DEF KeysOf
    <2>5. KeysOf(S, m)[q] <= KeysOf(S, m)[i]
      BY <2>2, <2>4
    <2> QED BY <2>5 DEF q
  <1>3. Rearranged(S, D, m) /\ Ordered(D, m)
    BY <1>0, <1>1, <1>2, DownOrders
  <1> HIDE DEF D
  <1>4. Lost(H, Expiry!Popped(D), S.h[n])
    BY <1>0, <1>1, <1>3, PoppedAfter
  <1>5. Expiry!HeapPop(H) = Expiry!Popped(D)
    BY DEF Expiry!HeapPop, D, S
  <1> QED BY <1>1, <1>4, <1>5


LEMMA HeapRemoveFacts ==
  ASSUME NEW H \in Heaps, Placed(H), Ordered(H, Len(H.h)), NEW i \in 1..Len(H.h)
  PROVE  Lost(H, Expiry!HeapRemove(H, i), H.h[i])
  <1> DEFINE n == Len(H.h)
             m == n - 1
             S == Expiry!Swap(H, i, n)
             D == Expiry!Down(S, i, m)
  <1>0. n \in Nat /\ n > 0 /\ i \in 1..n /\ n \in 1..n /\ m \in 0..n /\ m \in Nat
    BY HeapFacts
  <1>1. CASE i = n
    <2>1. Expiry!HeapRemove(H, i) = Expiry!Popped(H)
      BY <1>1 DEF Expiry!HeapRemove
    <2>2. Ordered(H, m)
      BY <1>0, SortedFewer
    <2> QED BY <1>0, <1>1, <2>1, <2>2, PoppedFacts
  <1>2. CASE i # n
    <2>0. i \in 1..m
      BY <1>0, <1>2
    <2>1. /\ S \in Heaps /\ Placed(S) /\ Len(S.h) = n /\ S.dl = H.dl /\ S.h[n] = H.h[i]
          /\ \A k \in 1..n : k # i /\ k # n => S.h[k] = H.h[k]
          /\ \A rt \in TimedRoutes : S.idx[rt] >= 0 <=> H.idx[rt] >= 0
      BY <1>0, SwapFacts
    <2>d. Expiry!HeapRemove(H, i) = Expiry!Popped(IF D /= S THEN D ELSE Expiry!Up(S, i))
      BY <1>2 DEF Expiry!HeapRemove
    <2> DEFINE L == KeysOf(H, n)
               K == KeysOf(S, m)
    <2> HIDE DEF S
    <2>a. m \in 0..Len(S.h) /\ n \in 0..Len(H.h)
      BY <1>0, <2>1
    <2>2. L \in [1..n -> Int] /\ K \in [1..m -> Int]
      BY <2>a, <2>1, KeysType
    <2>3. \A k \in 1..m : k # i => K[k] = L[k]
      BY <1>0, <2>1 DEF KeysOf
    <2>4. \A k \in 2..n : L[k \div 2] <= L[k]
      BY DEF Ordered, Sorted
    <2>5. \A k \in 2..m : /\ k \div 2 \in 1..m /\ k \div 2 \in 1..n /\ k \in 1..m
                         /\ k \in 2..n /\ k \in 1..n
      BY <1>0, Halves
    <2> HIDE DEF L, K
    <2>6. \A k \in 2..m : k # i /\ k \div 2 # i => K[k \div 2] <= K[k]
      BY <2>3, <2>4, <2>5
    <2>7. ASSUME NEW k \in 2..m, k \div 2 = i, i > 1 PROVE K[i \div 2] <= K[k]
      <3>1. /\ i \in 2..m /\ i \div 2 \in 1..m /\ i \div 2 \in 1..n /\ i \div 2 # i
            /\ k # i /\ i \in 1..n
        BY <2>0, <2>7, Halves, <1>0
      <3>2. L[i \div 2] <= L[i] /\ L[i] <= L[k]
        BY <2>4, <2>5, <2>7, <3>1
      <3>3. K[i \div 2] = L[i \div 2] /\ K[k] = L[k]
        BY <2>3, <2>5, <3>1
      <3>4. L[i \div 2] \in Int /\ L[i] \in Int /\ L[k] \in Int
        BY <2>2, <2>5, <3>1
      <3> QED BY <3>2, <3>3, <3>4
    <2> DEFINE E == IF D /= S THEN D ELSE Expiry!Up(S, i)
               x == [heap |-> S, at |-> i]
    <2>8. ASSUME RiseReady(K, i, m) PROVE Rearranged(S, Expiry!Up(S, i), m) /\ Ordered(Expiry!Up(S, i), m)
      BY <2>0, <2>1, <2>8, <1>0, UpOrders DEF K
    <2>9. Rearranged(S, E, m) /\ Ordered(E, m)
      <3>1. CASE SinkStuck(x, m)
        <4>1. D = S
          BY <3>1, <2>1, <1>0, DownStays
        <4>2. \A k \in 2..m : k \div 2 = i => K[i] <= K[k]
          <5> SUFFICES ASSUME NEW k \in 2..m, k \div 2 = i PROVE K[i] <= K[k]
            OBVIOUS
          <5>1. 2 * i <= m /\ i \in Nat \ {0}
            BY <2>0, <1>0, Halves
          <5> DEFINE c == Expiry!Child(S, i, m)
          <5>2. ~Expiry!Less(S, c, i)
            BY <3>1, <5>1, <1>0, <2>0 DEF SinkStuck
          <5>3. c \in 2..m /\ KeysOf(S, m)[c] <= KeysOf(S, m)[k]
            BY <5>1, <1>0, <2>1, ChildFacts
          <5> HIDE DEF c
          <5>4. c \in 1..m
            BY <5>3, <1>0
          <5>5. ~(K[c] < K[i])
            BY <5>2, <5>4, <2>0 DEF Expiry!Less, K, KeysOf
          <5>6. K[c] <= K[k]
            BY <5>3 DEF K
          <5>7. K[c] \in Int /\ K[i] \in Int /\ K[k] \in Int
            BY <5>4, <2>0, <2>2, <2>5
          <5> QED BY <5>5, <5>6, <5>7
        <4>3. RiseReady(K, i, m)
          BY <4>2, <2>6, <2>7 DEF RiseReady
        <4> QED BY <4>1, <4>3, <2>8
      <3>2. CASE ~SinkStuck(x, m)
        <4> DEFINE c == Expiry!Child(S, i, m)
        <4>1. 2 * i <= m /\ i \in Nat \ {0} /\ Expiry!Less(S, c, i)
          BY <3>2, <1>0, <2>0 DEF SinkStuck
        <4>2. c \in 2..m /\ c \div 2 = i
          BY <4>1, <2>a, <2>1, ChildFacts
        <4> HIDE DEF c
        <4>3. c \in 1..m
          BY <4>2, <1>0
        <4>4. K[c] < K[i]
          BY <4>1, <4>3, <2>0 DEF Expiry!Less, K, KeysOf
        <4>5. i > 1 => K[i \div 2] <= K[i]
          <5> SUFFICES ASSUME i > 1 PROVE K[i \div 2] <= K[i]
            OBVIOUS
          <5>1. K[i \div 2] <= K[c]
            BY <4>2, <2>7
          <5>2. i \div 2 \in 1..m
            BY <2>0, <1>0, Halves
          <5>3. K[i \div 2] \in Int /\ K[c] \in Int /\ K[i] \in Int
            BY <5>2, <4>3, <2>0, <2>2
          <5> QED BY <5>1, <5>3, <4>4
        <4>6. SinkReady(K, i, m)
          <5>1. \A k \in 2..m : k \div 2 # i => K[k \div 2] <= K[k]
            <6> SUFFICES ASSUME NEW k \in 2..m, k \div 2 # i PROVE K[k \div 2] <= K[k]
              OBVIOUS
            <6>1. CASE k = i
              BY <6>1, <4>5
            <6>2. CASE k # i
              BY <6>2, <2>6
            <6> QED BY <6>1, <6>2
          <5> QED BY <5>1, <2>7 DEF SinkReady
        <4>7. Rearranged(S, D, m) /\ Ordered(D, m)
          BY <4>6, <1>0, <2>1, DownOrders DEF K
        <4>8. CASE D = S
          <5>1. Sorted(K, m)
            BY <4>7, <4>8 DEF Ordered, K
          <5>2. RiseReady(K, i, m)
            BY <5>1, <2>7 DEF Sorted, RiseReady
          <5> QED BY <4>8, <5>2, <2>8
        <4> QED BY <4>7, <4>8
      <3> QED BY <3>1, <3>2
    <2> HIDE DEF E
    <2>10. Lost(H, Expiry!Popped(E), S.h[n])
      BY <1>0, <2>1, <2>9, PoppedAfter
    <2> QED BY <2>1, <2>10, <2>d DEF E
  <1> QED BY <1>1, <1>2

\* untrack: the route that knows its place is taken out, any other stays out.
LEMMA UntrackedFacts ==
  ASSUME NEW H \in Heaps, Placed(H), Ordered(H, Len(H.h)), NEW rt \in TimedRoutes
  PROVE  /\ H.idx[rt] >= 0 => Lost(H, Expiry!Untracked(H, rt), rt)
         /\ ~(H.idx[rt] >= 0) => Expiry!Untracked(H, rt) = H
  <1>1. CASE H.idx[rt] >= 0
    <2>1. H.idx[rt] + 1 \in 1..Len(H.h) /\ H.h[H.idx[rt] + 1] = rt
      BY <1>1 DEF Placed
    <2> QED BY <1>1, <2>1, HeapRemoveFacts DEF Expiry!Untracked
  <1> QED BY <1>1 DEF Expiry!Untracked

\* A route that was not there is pushed.
LEMMA HeapPushFacts ==
  ASSUME NEW H \in Heaps, Placed(H), Ordered(H, Len(H.h)), NEW rt \in TimedRoutes, H.idx[rt] = -1
  PROVE  /\ Expiry!HeapPush(H, rt) \in Heaps /\ Placed(Expiry!HeapPush(H, rt))
         /\ Len(Expiry!HeapPush(H, rt).h) = Len(H.h) + 1
         /\ Ordered(Expiry!HeapPush(H, rt), Len(Expiry!HeapPush(H, rt).h)) /\ Expiry!HeapPush(H, rt).dl = H.dl
         /\ \A q \in TimedRoutes : Expiry!HeapPush(H, rt).idx[q] >= 0 <=> H.idx[q] >= 0 \/ q = rt
  <1> DEFINE n == Len(H.h)
             a == H.h
             x == H.idx
             b == Append(a, rt)
             y == [x EXCEPT ![rt] = n]
             G == Expiry!Pushed(H, rt)
             E == Expiry!Up(G, n + 1)
  <1>1. /\ a \in Seq(TimedRoutes) /\ x \in [TimedRoutes -> Int] /\ H.dl \in [TimedRoutes -> Int]
        /\ n \in Nat /\ \A k \in 1..n : a[k] \in TimedRoutes
    BY HeapFacts
  <1>2. /\ b \in Seq(TimedRoutes) /\ Len(b) = n + 1 /\ b[n + 1] = rt
        /\ \A k \in 1..n : b[k] = a[k]
    BY <1>1, AppendProperties
  <1>3. y \in [TimedRoutes -> Int] /\ y[rt] = n /\ \A q \in TimedRoutes : q # rt => y[q] = x[q]
    BY <1>1
  <1>4. G = [h |-> b, idx |-> y, dl |-> H.dl]
    BY Zenon DEF Expiry!Pushed
  <1>5. G.h = b /\ G.idx = y /\ G.dl = H.dl /\ G \in Heaps
    BY <1>1, <1>2, <1>3, <1>4 DEF Heaps
  <1>6. /\ \A k \in 1..n : x[a[k]] = k - 1
        /\ \A q \in TimedRoutes : x[q] = -1 \/ (x[q] + 1 \in 1..n /\ a[x[q] + 1] = q)
        /\ x[rt] = -1
    BY DEF Placed
  <1> HIDE DEF a, b, x, y, G
  <1>7. \A k \in 1..n + 1 : y[b[k]] = k - 1
    <2> SUFFICES ASSUME NEW k \in 1..n + 1 PROVE y[b[k]] = k - 1
      OBVIOUS
    <2>1. CASE k = n + 1
      BY <2>1, <1>1, <1>2, <1>3
    <2>2. CASE k \in 1..n
      <3>1. b[k] = a[k] /\ a[k] \in TimedRoutes /\ x[a[k]] = k - 1
        BY <2>2, <1>1, <1>2, <1>6
      <3>2. a[k] # rt
        BY <2>2, <3>1, <1>1, <1>6
      <3> QED BY <3>1, <3>2, <1>3
    <2> QED BY <2>1, <2>2, <1>1
  <1>8. ASSUME NEW q \in TimedRoutes
        PROVE  /\ y[q] = -1 \/ (y[q] + 1 \in 1..n + 1 /\ b[y[q] + 1] = q)
               /\ y[q] >= 0 <=> x[q] >= 0 \/ q = rt
    <2>1. CASE q = rt
      BY <2>1, <1>1, <1>2, <1>3
    <2>2. CASE q # rt /\ x[q] = -1
      BY <2>2, <1>3
    <2>3. CASE q # rt /\ x[q] + 1 \in 1..n /\ a[x[q] + 1] = q
      <3>1. y[q] = x[q] /\ x[q] \in Int
        BY <2>3, <1>1, <1>3
      <3>3. b[x[q] + 1] = q
        BY <2>3, <1>2
      <3>2. x[q] + 1 \in 1..n + 1 /\ b[x[q] + 1] = q
        BY <2>3, <3>1, <3>3, <1>1
      <3> QED BY <2>3, <3>1, <3>2
    <2> QED BY <2>1, <2>2, <2>3, <1>6
  <1>9. Placed(G)
    BY <1>2, <1>5, <1>7, <1>8 DEF Placed
  <1>10. RiseReady(KeysOf(G, n + 1), n + 1, n + 1)
    <2> DEFINE K == KeysOf(G, n + 1)
               L == KeysOf(H, n)
    <2>1. \A k \in 1..n : K[k] = L[k]
      <3> SUFFICES ASSUME NEW k \in 1..n PROVE K[k] = L[k]
        OBVIOUS
      <3>1. k \in 1..n + 1 /\ b[k] = a[k]
        BY <1>1, <1>2
      <3> QED BY <3>1, <1>5 DEF KeysOf, a
    <2>2. \A k \in 2..n : L[k \div 2] <= L[k]
      BY DEF Ordered, Sorted
    <2> HIDE DEF K, L, n
    <2> SUFFICES ASSUME NEW i \in 2..n + 1
                 PROVE  /\ i # n + 1 => K[i \div 2] <= K[i]
                        /\ i \div 2 # n + 1
      BY DEF RiseReady, K
    <2>3. i \div 2 # n + 1
      BY <1>1, Halves
    <2>4. ASSUME i # n + 1 PROVE K[i \div 2] <= K[i]
      <3>1. i \in 2..n /\ i \in 1..n /\ i \div 2 \in 1..n
        BY <2>4, <1>1, Halves
      <3> QED BY <3>1, <2>1, <2>2
    <2> QED BY <2>3, <2>4
  <1>11. n + 1 \in 1..n + 1 /\ n + 1 \in 0..Len(G.h)
    BY <1>1, <1>2, <1>5
  <1>12. Rearranged(G, E, n + 1) /\ Ordered(E, n + 1)
    BY <1>5, <1>9, <1>10, <1>11, UpOrders
  <1>13. Expiry!HeapPush(H, rt) = E
    BY DEF Expiry!HeapPush, G
  <1> HIDE DEF E
  <1>14. /\ E \in Heaps /\ Placed(E) /\ Len(E.h) = n + 1 /\ E.dl = H.dl
         /\ \A q \in TimedRoutes : E.idx[q] >= 0 <=> y[q] >= 0
    BY <1>2, <1>5, <1>12 DEF Rearranged
  <1> QED BY <1>8, <1>12, <1>13, <1>14 DEF x


-----------------------------------------------------------------------------
Statuses == [TimedRoutes -> {"new", "live", "over"}]

\* What the rounds of expireLoop make of B: the routes of the heap are there as
\* before, or were due and are over; nothing else has changed.
Fate(B, S, q) ==
  \/ /\ S.heap.idx[q] >= 0 /\ B.heap.idx[q] >= 0
     /\ S.status[q] = B.status[q] /\ S.heap.dl[q] = B.heap.dl[q]
  \/ /\ ~(S.heap.idx[q] >= 0) /\ B.heap.idx[q] >= 0
     /\ S.status[q] = "over" /\ B.heap.dl[q] <= deadlineNow
  \/ /\ ~(S.heap.idx[q] >= 0) /\ ~(B.heap.idx[q] >= 0) /\ S.status[q] = B.status[q]
Expiring(B) ==
  {S \in [heap : Heaps, status : Statuses] :
     /\ Placed(S.heap) /\ Ordered(S.heap, Len(S.heap.h)) /\ \A q \in TimedRoutes : Fate(B, S, q)}

LEMMA ExpireRound ==
  ASSUME NEW B, \A q \in TimedRoutes : B.heap.idx[q] >= 0 => B.status[q] = "live",
         NEW S \in Expiring(B)
  PROVE  /\ Expiry!Expire(S) \in Expiring(B)
         /\ \/ Len(Expiry!Expire(S).heap.h) = Len(S.heap.h) - 1
            \/ Expiry!Expire(S) = S /\ ~Expiry!Due(S.heap)
  <1>1. CASE ~Expiry!Due(S.heap)
    BY <1>1 DEF Expiry!Expire
  <1>2. CASE Expiry!Due(S.heap)
    <2> DEFINE G == S.heap
               rt == G.h[1]
               H == Expiry!HeapPop(G)
               st == [S.status EXCEPT ![rt] = "over"]
    <2>1. /\ G \in Heaps /\ Placed(G) /\ Ordered(G, Len(G.h)) /\ S.status \in Statuses
          /\ \A q \in TimedRoutes : Fate(B, S, q)
      BY DEF Expiring
    <2>2. G.h # <<>> /\ G.dl[rt] <= deadlineNow
      BY <1>2 DEF Expiry!Due
    <2>3. Len(G.h) \in Nat /\ Len(G.h) > 0
      BY <2>1, <2>2, HeapFacts, EmptySeq
    <2>4. rt \in TimedRoutes /\ G.idx[rt] = 0
      <3>1. 1 \in 1..Len(G.h)
        BY <2>3
      <3>2. G.idx[rt] = 1 - 1 /\ rt \in TimedRoutes
        BY <2>1, <3>1, HeapFacts DEF Placed
      <3> QED BY <3>2
    <2>5. Lost(G, H, rt)
      BY <2>1, <2>3, HeapPopFacts
    <2>6. S.status[rt] = "live" /\ B.heap.idx[rt] >= 0 /\ B.heap.dl[rt] <= deadlineNow
      BY <2>1, <2>2, <2>4 DEF Fate
    <2>7. ~(H.idx[rt] >= 0) /\ H \in Heaps /\ Placed(H) /\ Ordered(H, Len(H.h))
      BY <2>4, <2>5 DEF Lost
    <2>8. Expiry!Untracked(H, rt) = H
      BY <2>7 DEF Expiry!Untracked
    <2>9. Expiry!Expire(S) = [heap |-> H, status |-> st]
      BY <1>2, <2>6, <2>8 DEF Expiry!Expire
    <2>10. Expiry!Expire(S).heap = H /\ Expiry!Expire(S).status = st
      BY <2>9
    <2>11. st \in Statuses /\ st[rt] = "over" /\ \A q \in TimedRoutes : q # rt => st[q] = S.status[q]
      BY <2>1, <2>4 DEF Statuses
    <2> HIDE DEF st, H
    <2>12. ASSUME NEW q \in TimedRoutes PROVE Fate(B, Expiry!Expire(S), q)
      <3>1. CASE q = rt
        BY <3>1, <2>6, <2>7, <2>10, <2>11 DEF Fate
      <3>2. CASE q # rt
        <4>1. (H.idx[q] >= 0 <=> G.idx[q] >= 0) /\ H.dl[q] = G.dl[q] /\ st[q] = S.status[q]
          BY <3>2, <2>5, <2>11 DEF Lost
        <4>2. Fate(B, S, q)
          BY <2>1
        <4> QED BY <4>1, <4>2, <2>10 DEF Fate
      <3> QED BY <3>1, <3>2
    <2>13. Expiry!Expire(S) \in Expiring(B)
      BY <2>7, <2>9, <2>10, <2>11, <2>12 DEF Expiring
    <2>14. Len(Expiry!Expire(S).heap.h) = Len(S.heap.h) - 1
      BY <2>5, <2>10 DEF Lost
    <2> QED BY <2>13, <2>14
  <1> QED BY <1>1, <1>2

ExpiredRun(B, f) ==
  /\ f \in [Nat -> Expiring(B)] /\ f[0] = B /\ Expiry!Expired(B) = f[Len(B.heap.h)]
  /\ \A k \in Nat : f[k + 1] = Expiry!Expire(f[k])

LEMMA ExpiredRounds ==
  ASSUME NEW B, \A q \in TimedRoutes : B.heap.idx[q] >= 0 => B.status[q] = "live",
         B \in Expiring(B)
  PROVE  \E f : ExpiredRun(B, f)
  <1> DEFINE M == Expiring(B)
             F == [s \in M |-> Expiry!Expire(s)]
             P(f) == f = [k \in Nat |-> IF k = 0 THEN B ELSE Expiry!Expire(f[k - 1])]
             run == CHOOSE f : P(f)
  <1>1. B \in M
    OBVIOUS
  <1>2. F \in [M -> M] /\ \A s \in M : F[s] = Expiry!Expire(s)
    BY ExpireRound
  <1> HIDE DEF M, F
  <1>i. PICK g : Iterates(M, F, B, g)
    <2>1. F \in [M -> M]
      BY <1>2
    <2> QED BY <1>1, <2>1, Iteration, Zenon
  <1>3. g \in [Nat -> M] /\ g[0] = B /\ \A n \in Nat : g[n + 1] = F[g[n]]
    BY <1>i DEF Iterates
  <1>4. P(g)
    <2>1. ASSUME NEW k \in Nat PROVE g[k] = IF k = 0 THEN B ELSE Expiry!Expire(g[k - 1])
      <3>1. CASE k = 0
        BY <3>1, <1>3
      <3>2. CASE k # 0
        <4>1. k - 1 \in Nat /\ (k - 1) + 1 = k
          BY <3>2
        <4> QED BY <3>2, <4>1, <1>2, <1>3
      <3> QED BY <3>1, <3>2
    <2>2. g = [k \in Nat |-> g[k]]
      BY <1>3
    <2>3. [k \in Nat |-> g[k]] = [k \in Nat |-> IF k = 0 THEN B ELSE Expiry!Expire(g[k - 1])]
      BY <2>1, Zenon
    <2> QED BY <2>2, <2>3, Zenon
  <1>5. Expiry!Expired(B) = run[Len(B.heap.h)]
    BY Zenon DEF Expiry!Expired
  <1>6. P(run)
    <2> HIDE DEF P
    <2> QED BY <1>4, Zenon
  <1> HIDE DEF run
  <1>7. run[0] = B /\ \A k \in Nat : run[k + 1] = Expiry!Expire(run[k])
    <2>1. run[0] = B
      BY <1>6
    <2>2. ASSUME NEW k \in Nat PROVE run[k + 1] = Expiry!Expire(run[k])
      <3>1. k + 1 \in Nat /\ k + 1 # 0 /\ (k + 1) - 1 = k
        OBVIOUS
      <3>2. run[k + 1] = IF k + 1 = 0 THEN B ELSE Expiry!Expire(run[(k + 1) - 1])
        BY <1>6, <3>1
      <3> QED BY <3>1, <3>2
    <2> QED BY <2>1, <2>2
  <1>8. \A k \in Nat : run[k] \in M
    <2> DEFINE S == {k \in Nat : run[k] \in M}
    <2>1. 0 \in S
      BY <1>1, <1>7
    <2>2. ASSUME NEW k \in Nat, k \in S PROVE k + 1 \in S
      <3>1. run[k] \in M /\ run[k + 1] = Expiry!Expire(run[k])
        BY <2>2, <1>7
      <3> QED BY <3>1, ExpireRound DEF M
    <2> HIDE DEF S
    <2>3. \A k \in Nat : k \in S
      BY <2>1, <2>2, Induction
    <2> QED BY <2>3 DEF S
  <1>9. run \in [Nat -> M]
    <2>1. run = [k \in Nat |-> run[k]]
      <3>1. DOMAIN run = Nat
        BY <1>6
      <3> QED BY <1>6
    <2> QED BY <2>1, <1>8
  <1>10. ExpiredRun(B, run)
    BY <1>5, <1>7, <1>9 DEF M, ExpiredRun
  <1> QED BY <1>10

\* When the loop has looked, nothing in the heap is due.
LEMMA ExpiredFacts ==
  ASSUME NEW B, \A q \in TimedRoutes : B.heap.idx[q] >= 0 => B.status[q] = "live",
         B \in Expiring(B)
  PROVE  Expiry!Expired(B) \in Expiring(B) /\ ~Expiry!Due(Expiry!Expired(B).heap)
  <1>r. PICK f : ExpiredRun(B, f)
    BY ExpiredRounds, Zenon
  <1> DEFINE n == Len(B.heap.h)
  <1>1. /\ f \in [Nat -> Expiring(B)] /\ f[0] = B /\ Expiry!Expired(B) = f[n]
        /\ \A k \in Nat : f[k + 1] = Expiry!Expire(f[k])
    BY <1>r DEF ExpiredRun
  <1> DEFINE S == {k \in Nat : ~Expiry!Due(f[k].heap) \/ Len(f[k].heap.h) <= n - k}
  <1>0. \A T \in Expiring(B) : T.heap \in Heaps /\ T.heap.h \in Seq(TimedRoutes) /\ Len(T.heap.h) \in Nat
    BY HeapFacts DEF Expiring
  <1>n. n \in Nat
    BY <1>0
  <1>2. 0 \in S
    BY <1>1, <1>n
  <1>3. ASSUME NEW k \in Nat, k \in S PROVE k + 1 \in S
    <2> DEFINE s == f[k]
               t == f[k + 1]
    <2>1. s \in Expiring(B) /\ t = Expiry!Expire(s) /\ (~Expiry!Due(s.heap) \/ Len(s.heap.h) <= n - k)
      BY <1>1, <1>3
    <2>t. t \in Expiring(B)
      BY <1>1
    <2> HIDE DEF s, t, n
    <2>2. Len(t.heap.h) = Len(s.heap.h) - 1 \/ (t = s /\ ~Expiry!Due(s.heap))
      BY <2>1, ExpireRound
    <2>3. Len(s.heap.h) \in Nat /\ Len(t.heap.h) \in Nat
      BY <1>0, <2>1, <2>t
    <2>4. ~Expiry!Due(t.heap) \/ Len(t.heap.h) <= n - (k + 1)
      <3>1. CASE ~Expiry!Due(s.heap)
        BY <3>1, <2>1 DEF Expiry!Expire
      <3>2. CASE Len(s.heap.h) <= n - k /\ Len(t.heap.h) = Len(s.heap.h) - 1
        BY <3>2, <1>n, <2>3
      <3> QED BY <2>1, <2>2, <3>1, <3>2
    <2> QED BY <2>4 DEF s, t
  <1>4. n \in S
    <2> HIDE DEF S, n
    <2> QED BY <1>n, <1>2, <1>3, Induction
  <1> DEFINE T == f[n]
  <1>a. T \in Expiring(B) /\ (~Expiry!Due(T.heap) \/ Len(T.heap.h) <= n - n) /\ Expiry!Expired(B) = T
    BY <1>1, <1>4, <1>n
  <1> HIDE DEF T, n
  <1>b. n - n = 0
    BY <1>n
  <1>5. T \in Expiring(B) /\ (~Expiry!Due(T.heap) \/ Len(T.heap.h) <= 0) /\ Expiry!Expired(B) = T
    BY <1>a, <1>b
  <1>6. Len(T.heap.h) <= 0 => T.heap.h = <<>>
    BY <1>0, <1>5, EmptySeq
  <1> QED BY <1>5, <1>6 DEF Expiry!Due


-----------------------------------------------------------------------------
DeadlineTypes ==
  /\ deadlineNow \in 0..LastTick /\ status \in Statuses
  /\ asked \in [TimedRoutes -> Timeouts \cup {Nothing}]
  /\ openedAt \in [TimedRoutes -> 0..LastTick]
  /\ woken \in BOOLEAN /\ loopClosed \in BOOLEAN
  /\ loop \in {"look", "arm", "sleep", "gone"}
  /\ next \in Int /\ aim \in Int /\ lag \in 0..MaxLag
  /\ timer \in [due : Int, set : BOOLEAN, fired : BOOLEAN]

HeapInv == Expiry!Heap \in Heaps /\ Placed(Expiry!Heap) /\ Ordered(Expiry!Heap, Len(Expiry!Heap.h))

\* The heap holds the timed calls, each with the deadline it asked for.
TrackInv ==
  /\ \A rt \in TimedRoutes : index[rt] >= 0 <=> Expiry!Timed(rt)
  /\ \A rt \in TimedRoutes : Expiry!Timed(rt) => deadline[rt] = openedAt[rt] + Expiry!Budget(asked[rt])

DeadlinesInv == DeadlineTypes /\ HeapInv /\ TrackInv /\ Expiry!NeverOversleeps

NoOverflow == \A t \in Timeouts : t * Millisecond + Grace < 2^(Width - 1)

LEMMA WrapFacts ==
  ASSUME NEW d \in Int, NEW u \in Nat \ {0}
  PROVE  /\ ((d + u) % (2 * u)) - u \in Int
         /\ -u <= d /\ d < u => ((d + u) % (2 * u)) - u = d
  OBVIOUS

LEMMA BudgetFacts ==
  ASSUME Expiry!DeadlinesAssumption, NEW t \in Timeouts
  PROVE  Expiry!Budget(t) \in Int /\ (NoOverflow => Expiry!Budget(t) = t * Millisecond + Grace)
  <1> DEFINE u == 2^(Width - 1)
  <1>1. /\ u \in Nat \ {0} /\ 2^Width = 2 * u /\ t \in Nat
        /\ Millisecond \in Nat /\ Grace \in Nat
    BY DEF Expiry!DeadlinesAssumption
  <1>2. \A d : Expiry!Wrap(d) = ((d + u) % (2 * u)) - u
    BY <1>1, Zenon DEF Expiry!Wrap
  <1>3. NoOverflow => t * Millisecond + Grace < u
    BY DEF NoOverflow
  <1> HIDE DEF u
  <1> DEFINE p == t * Millisecond
  <1>4. p \in Nat
    BY <1>1
  <1>5. NoOverflow => p + Grace < u
    BY <1>3
  <1> HIDE DEF p
  <1>6. Expiry!Wrap(p) \in Int /\ (p < u => Expiry!Wrap(p) = p)
    BY <1>1, <1>2, <1>4, WrapFacts
  <1>7. Expiry!Wrap(p) + Grace \in Int
    BY <1>1, <1>6
  <1>8. Expiry!Wrap(Expiry!Wrap(p) + Grace) \in Int
    BY <1>1, <1>2, <1>7, WrapFacts
  <1>9. ASSUME NoOverflow PROVE Expiry!Wrap(Expiry!Wrap(p) + Grace) = p + Grace
    <2>1. p < u /\ p + Grace < u /\ p + Grace \in Int /\ -u <= p + Grace
      BY <1>1, <1>4, <1>5, <1>9
    <2>2. Expiry!Wrap(p) = p
      BY <1>6, <2>1
    <2> QED BY <1>1, <1>2, <2>1, <2>2, WrapFacts
  <1> QED BY <1>8, <1>9 DEF Expiry!Budget, p

\* The first of a heap has the earliest deadline.
LEMMA FirstFacts ==
  ASSUME NEW H \in Heaps, Placed(H), Ordered(H, Len(H.h)), H.h # <<>>
  PROVE  /\ H.h[1] \in TimedRoutes /\ H.idx[H.h[1]] = 0
         /\ \A q \in TimedRoutes : H.idx[q] >= 0 => H.dl[H.h[1]] <= H.dl[q]
  <1> DEFINE n == Len(H.h)
             K == KeysOf(H, n)
  <1>1. n \in Nat /\ n > 0 /\ 1 \in 1..n /\ n \in 0..n
    BY HeapFacts, EmptySeq
  <1>2. H.h[1] \in TimedRoutes /\ H.idx[H.h[1]] = 1 - 1
    BY <1>1, HeapFacts DEF Placed
  <1>3. K \in [1..n -> Int] /\ \A i \in 1..n : K[i] = H.dl[H.h[i]]
    BY <1>1, KeysType
  <1>4. \A i \in 1..n : K[1] <= K[i]
    BY <1>1, <1>3, FirstLeast DEF Ordered
  <1>5. ASSUME NEW q \in TimedRoutes, H.idx[q] >= 0 PROVE H.dl[H.h[1]] <= H.dl[q]
    <2>1. H.idx[q] + 1 \in 1..n /\ H.h[H.idx[q] + 1] = q
      BY <1>5 DEF Placed
    <2> HIDE DEF K, n
    <2>2. K[H.idx[q] + 1] = H.dl[q] /\ K[1] = H.dl[H.h[1]]
      BY <2>1, <1>1, <1>3
    <2>3. K[1] <= K[H.idx[q] + 1]
      BY <2>1, <1>4
    <2> QED BY <2>2, <2>3
  <1> QED BY <1>2, <1>5

\* What the heap is after a step that set it.
LEMMA HeapSet ==
  ASSUME NEW H \in Heaps, Expiry!SetHeap(H)
  PROVE  Expiry!Heap' = H /\ index' = H.idx /\ deadline' = H.dl /\ deadlines' = H.h
  <1>1. Expiry!Heap' = [h |-> deadlines', idx |-> index', dl |-> deadline']
    BY DEF Expiry!Heap
  <1> QED BY <1>1, HeapFacts DEF Expiry!SetHeap

LEMMA HeapFields ==
  Expiry!Heap.h = deadlines /\ Expiry!Heap.idx = index /\ Expiry!Heap.dl = deadline
  BY DEF Expiry!Heap

\* The loop is still in time when the route that is first now was there before.
LEMMA StillInTime ==
  ASSUME Expiry!DeadlinesAssumption, DeadlinesInv, HeapInv', loop' = loop, aim' = aim,
         ~woken' => ~woken,
         ~woken' /\ deadlines' # <<>> =>
           /\ index[deadlines'[1]] >= 0 /\ deadlines'[1] \in TimedRoutes
           /\ deadline'[deadlines'[1]] = deadline[deadlines'[1]]
  PROVE  Expiry!NeverOversleeps'
  <1> SUFFICES ASSUME loop \in {"arm", "sleep"}, ~woken', deadlines' # <<>>
               PROVE  aim < deadline'[deadlines'[1]] + Millisecond
    BY DEF Expiry!NeverOversleeps
  <1> DEFINE f == deadlines'[1]
             H == Expiry!Heap
  <1>1. f \in TimedRoutes /\ index[f] >= 0 /\ deadline'[f] = deadline[f] /\ ~woken
    OBVIOUS
  <1>2. H \in Heaps /\ Placed(H) /\ Ordered(H, Len(H.h)) /\ H.h = deadlines /\ H.idx = index /\ H.dl = deadline
    BY HeapFields DEF DeadlinesInv, HeapInv
  <1> HIDE DEF f, H
  <1>3. H.h # <<>>
    <2>1. H.idx[f] + 1 \in 1..Len(H.h)
      BY <1>1, <1>2 DEF Placed
    <2>2. Len(H.h) # 0
      BY <2>1, <1>2, HeapFacts
    <2> QED BY <2>2
  <1>4. H.h[1] \in TimedRoutes /\ H.dl[H.h[1]] <= H.dl[f]
    BY <1>1, <1>2, <1>3, FirstFacts
  <1>5. aim < deadline[deadlines[1]] + Millisecond
    BY <1>1, <1>2, <1>3 DEF DeadlinesInv, Expiry!NeverOversleeps
  <1>a. H.dl[H.h[1]] \in Int /\ H.dl[f] \in Int
    BY <1>1, <1>2, <1>4, HeapFacts
  <1>b. Millisecond \in Int /\ aim \in Int
    BY DEF DeadlinesInv, DeadlineTypes, Expiry!DeadlinesAssumption
  <1>6. /\ deadline[deadlines[1]] \in Int /\ deadline[f] \in Int /\ Millisecond \in Int /\ aim \in Int
        /\ deadline[deadlines[1]] <= deadline[f]
    BY <1>2, <1>4, <1>a, <1>b, Zenon
  <1>7. aim < deadline[f] + Millisecond
    BY <1>5, <1>6
  <1> QED BY <1>1, <1>7 DEF f

LEMMA DeadlinesInitially ==
  ASSUME Expiry!DeadlinesAssumption, Expiry!Init
  PROVE  DeadlinesInv
  <1>1. DeadlineTypes
    <2>1. 0 \in 0..LastTick /\ 0 \in 0..MaxLag /\ Hour \in Int
      BY DEF Expiry!DeadlinesAssumption
    <2>2. timer \in [due : Int, set : BOOLEAN, fired : BOOLEAN]
      BY <2>1 DEF Expiry!Init
    <2>3. /\ status \in Statuses /\ asked \in [TimedRoutes -> Timeouts \cup {Nothing}]
          /\ openedAt \in [TimedRoutes -> 0..LastTick]
      BY <2>1 DEF Expiry!Init, Statuses
    <2>4. /\ deadlineNow = 0 /\ woken = FALSE /\ loopClosed = FALSE /\ loop = "look"
          /\ next = 0 /\ aim = 0 /\ lag = 0
      BY Zenon DEF Expiry!Init
    <2>5. deadlineNow \in 0..LastTick /\ lag \in 0..MaxLag /\ next \in Int /\ aim \in Int
      BY <2>1, <2>4
    <2>7. woken \in BOOLEAN /\ loopClosed \in BOOLEAN
      BY <2>4, Zenon
    <2>6. loop \in {"look", "arm", "sleep", "gone"}
      BY <2>4
    <2> QED BY <2>2, <2>3, <2>5, <2>6, <2>7, Zenon DEF DeadlineTypes
  <1>2. Expiry!Heap \in Heaps /\ Expiry!Heap.h = <<>> /\ Expiry!Heap.idx = index
    <2>1. <<>> \in Seq(TimedRoutes)
      OBVIOUS
    <2>2. deadlines = <<>> /\ index \in [TimedRoutes -> Int] /\ deadline \in [TimedRoutes -> Int]
      BY DEF Expiry!Init
    <2> QED BY <2>1, <2>2 DEF Expiry!Heap, Heaps
  <1>3. HeapInv
    <2>1. Len(Expiry!Heap.h) = 0 /\ \A i : i \notin 1..0
      BY <1>2
    <2>2. Placed(Expiry!Heap)
      BY <1>2, <2>1 DEF Placed, Expiry!Init
    <2>3. Ordered(Expiry!Heap, Len(Expiry!Heap.h))
      BY <2>1 DEF Ordered, Sorted
    <2> QED BY <1>2, <2>2, <2>3 DEF HeapInv
  <1>4. TrackInv
    BY DEF Expiry!Init, TrackInv, Expiry!Timed
  <1>5. Expiry!NeverOversleeps
    BY DEF Expiry!Init, Expiry!NeverOversleeps
  <1> QED BY <1>1, <1>3, <1>4, <1>5 DEF DeadlinesInv

LEMMA OpenStep ==
  ASSUME Expiry!DeadlinesAssumption, DeadlinesInv, NEW rt \in TimedRoutes, Expiry!Open(rt)
  PROVE  DeadlinesInv'
  <1>1. PICK t \in Timeouts \cup {Nothing} :
          /\ asked' = [asked EXCEPT ![rt] = t]
          /\ IF t = Nothing
             THEN UNCHANGED <<Expiry!heapVars, woken>>
             ELSE LET H == Expiry!HeapPush([Expiry!Heap EXCEPT !.dl[rt] = deadlineNow + Expiry!Budget(t)], rt)
                  IN  Expiry!SetHeap(H) /\ woken' = (woken \/ Expiry!Wakes(H, rt))
    BY Zenon DEF Expiry!Open
  <1>2. /\ status[rt] = "new" /\ status' = [status EXCEPT ![rt] = "live"]
        /\ openedAt' = [openedAt EXCEPT ![rt] = deadlineNow]
        /\ UNCHANGED <<deadlineNow, Expiry!loopVars, loopClosed>>
    BY Zenon DEF Expiry!Open
  <1>3. DeadlineTypes /\ HeapInv /\ TrackInv /\ Expiry!NeverOversleeps
    BY DEF DeadlinesInv
  <1>4. Expiry!Heap \in Heaps /\ Placed(Expiry!Heap) /\ Ordered(Expiry!Heap, Len(Expiry!Heap.h))
    BY <1>3 DEF HeapInv
  <1>5. index[rt] = -1
    <2>1. ~(index[rt] >= 0)
      BY <1>2, <1>3 DEF TrackInv, Expiry!Timed
    <2>2. Expiry!Heap.idx[rt] = -1 \/ (Expiry!Heap.idx[rt] + 1 \in 1..Len(Expiry!Heap.h))
      BY <1>4 DEF Placed
    <2>3. index[rt] \in Int /\ Len(Expiry!Heap.h) \in Nat
      BY <1>4, HeapFacts, HeapFields
    <2> QED BY <2>1, <2>2, <2>3, HeapFields
  <1>6. /\ status' \in Statuses /\ status'[rt] = "live" /\ \A q \in TimedRoutes : q # rt => status'[q] = status[q]
        /\ asked' \in [TimedRoutes -> Timeouts \cup {Nothing}] /\ asked'[rt] = t
        /\ \A q \in TimedRoutes : q # rt => asked'[q] = asked[q]
        /\ openedAt' \in [TimedRoutes -> 0..LastTick] /\ openedAt'[rt] = deadlineNow
        /\ \A q \in TimedRoutes : q # rt => openedAt'[q] = openedAt[q]
    BY <1>1, <1>2, <1>3 DEF DeadlineTypes, Statuses
  <1>7. loop' = loop /\ next' = next /\ aim' = aim /\ lag' = lag /\ timer' = timer /\ deadlineNow' = deadlineNow /\ loopClosed' = loopClosed
    BY <1>2 DEF Expiry!loopVars
  <1>8. CASE t = Nothing
    <2>1. deadlines' = deadlines /\ index' = index /\ deadline' = deadline /\ woken' = woken
      BY <1>1, <1>8 DEF Expiry!heapVars
    <2>2. DeadlineTypes'
      BY <1>3, <1>6, <1>7, <2>1 DEF DeadlineTypes
    <2>3. HeapInv'
      BY <1>3, <2>1 DEF HeapInv, Expiry!Heap
    <2>4. TrackInv'
      <3>1. \A q \in TimedRoutes : q # rt => (Expiry!Timed(q)' <=> Expiry!Timed(q))
        BY <1>6 DEF Expiry!Timed
      <3>2. ~Expiry!Timed(rt)' /\ ~(index[rt] >= 0)
        BY <1>5, <1>6, <1>8 DEF Expiry!Timed
      <3> QED BY <1>3, <1>6, <2>1, <3>1, <3>2 DEF TrackInv
    <2>5. Expiry!NeverOversleeps'
      BY <1>3, <1>7, <2>1 DEF Expiry!NeverOversleeps
    <2> QED BY <2>2, <2>3, <2>4, <2>5 DEF DeadlinesInv
  <1>9. CASE t # Nothing
    <2> DEFINE d == deadlineNow + Expiry!Budget(t)
               G == [Expiry!Heap EXCEPT !.dl[rt] = d]
               H == Expiry!HeapPush(G, rt)
    <2>t. t \in Timeouts
      BY <1>9
    <2>b. d \in Int
      BY <2>t, <1>3, BudgetFacts DEF DeadlineTypes
    <2>s. Expiry!SetHeap(H) /\ woken' = (woken \/ Expiry!Wakes(H, rt))
      BY <1>1, <1>9, Zenon
    <2>1. G = [h |-> deadlines, idx |-> index, dl |-> [deadline EXCEPT ![rt] = d]]
      BY DEF Expiry!Heap
    <2> HIDE DEF d
    <2>2. /\ G \in Heaps /\ G.h = deadlines /\ G.idx = index /\ G.dl[rt] = d
          /\ \A q \in TimedRoutes : q # rt => G.dl[q] = deadline[q]
      <3>1. deadlines \in Seq(TimedRoutes) /\ index \in [TimedRoutes -> Int] /\ deadline \in [TimedRoutes -> Int]
        BY <1>4, HeapFields, HeapFacts
      <3> QED BY <2>1, <2>b, <3>1 DEF Heaps
    <2> HIDE DEF G
    <2>3. Placed(G)
      BY <1>4, <2>2, HeapFields DEF Placed
    <2>4. Ordered(G, Len(G.h))
      <3> DEFINE n == Len(deadlines)
      <3>1. n \in Nat /\ \A i \in 1..n : deadlines[i] \in TimedRoutes /\ deadlines[i] # rt
        <4>1. Len(Expiry!Heap.h) \in Nat /\ \A i \in 1..Len(Expiry!Heap.h) : Expiry!Heap.h[i] \in TimedRoutes /\ Expiry!Heap.idx[Expiry!Heap.h[i]] = i - 1
          BY <1>4, HeapFacts DEF Placed
        <4>2. \A i \in 1..n : index[deadlines[i]] = i - 1
          BY <4>1, HeapFields
        <4> QED BY <4>1, <4>2, <1>5, HeapFields
      <3>2. \A i \in 1..n : G.dl[G.h[i]] = Expiry!Heap.dl[Expiry!Heap.h[i]]
        BY <3>1, <2>2, HeapFields
      <3>3. KeysOf(G, n) = KeysOf(Expiry!Heap, n)
        BY <3>2, Zenon DEF KeysOf
      <3>4. Len(G.h) = n /\ Len(Expiry!Heap.h) = n
        BY <2>2, HeapFields
      <3> QED BY <1>4, <3>3, <3>4 DEF Ordered
    <2>5. G.idx[rt] = -1
      BY <1>5, <2>2
    <2>6. /\ H \in Heaps /\ Placed(H) /\ Len(H.h) = Len(G.h) + 1 /\ Ordered(H, Len(H.h)) /\ H.dl = G.dl
          /\ \A q \in TimedRoutes : H.idx[q] >= 0 <=> G.idx[q] >= 0 \/ q = rt
      BY <2>2, <2>3, <2>4, <2>5, HeapPushFacts
    <2> HIDE DEF H
    <2>7. Expiry!Heap' = H /\ index' = H.idx /\ deadline' = H.dl /\ deadlines' = H.h
      BY <2>6, <2>s, HeapSet
    <2>8. DeadlineTypes'
      <3>1. woken' \in BOOLEAN
        BY <2>s, <1>3 DEF DeadlineTypes, Expiry!Wakes
      <3> QED BY <1>3, <1>6, <1>7, <3>1 DEF DeadlineTypes
    <2>9. HeapInv'
      BY <2>6, <2>7 DEF HeapInv
    <2>10. TrackInv'
      <3> SUFFICES ASSUME NEW q \in TimedRoutes
                   PROVE  /\ index'[q] >= 0 <=> Expiry!Timed(q)'
                          /\ Expiry!Timed(q)' => deadline'[q] = openedAt'[q] + Expiry!Budget(asked'[q])
        BY DEF TrackInv
      <3>1. CASE q = rt
        <4>1. Expiry!Timed(rt)' /\ index'[rt] >= 0 /\ deadline'[rt] = d
          BY <1>6, <1>9, <2>2, <2>6, <2>7 DEF Expiry!Timed
        <4> QED BY <3>1, <4>1, <1>6 DEF d
      <3>2. CASE q # rt
        <4>1. (Expiry!Timed(q)' <=> Expiry!Timed(q)) /\ openedAt'[q] = openedAt[q] /\ asked'[q] = asked[q]
          BY <1>6, <3>2 DEF Expiry!Timed
        <4>2. (index'[q] >= 0 <=> index[q] >= 0) /\ deadline'[q] = deadline[q]
          BY <2>2, <2>6, <2>7, <3>2
        <4> QED BY <4>1, <4>2, <1>3 DEF TrackInv
      <3> QED BY <3>1, <3>2
    <2>11. Expiry!NeverOversleeps'
      <3>1. ASSUME ~woken', deadlines' # <<>>
            PROVE  /\ ~woken /\ index[deadlines'[1]] >= 0 /\ deadlines'[1] \in TimedRoutes
                   /\ deadline'[deadlines'[1]] = deadline[deadlines'[1]]
        <4> DEFINE f == H.h[1]
        <4>1. f \in TimedRoutes /\ H.idx[f] = 0
          BY <2>6, <2>7, <3>1, FirstFacts
        <4>2. ~woken /\ H.idx[rt] # 0
          BY <2>s, <3>1, <1>3 DEF Expiry!Wakes, DeadlineTypes
        <4>3. f # rt
          BY <4>1, <4>2
        <4>4. index[f] >= 0
          BY <4>1, <4>3, <2>2, <2>6
        <4> QED BY <4>1, <4>2, <4>3, <4>4, <2>2, <2>6, <2>7
      <3>2. ~woken' => ~woken
        BY <2>s, <1>3 DEF DeadlineTypes, Expiry!Wakes
      <3> QED BY <3>1, <3>2, <2>9, <1>7, StillInTime
    <2> QED BY <2>8, <2>9, <2>10, <2>11 DEF DeadlinesInv
  <1> QED BY <1>8, <1>9

LEMMA EndStep ==
  ASSUME Expiry!DeadlinesAssumption, DeadlinesInv, NEW rt \in TimedRoutes, Expiry!End(rt)
  PROVE  DeadlinesInv'
  <1> DEFINE H == Expiry!Untracked(Expiry!Heap, rt)
  <1>1. /\ status' = [status EXCEPT ![rt] = "over"] /\ Expiry!SetHeap(H) /\ Expiry!Forget({rt})
        /\ UNCHANGED <<deadlineNow, woken, Expiry!loopVars, loopClosed>>
    BY DEF Expiry!End
  <1>2. DeadlineTypes /\ HeapInv /\ TrackInv /\ Expiry!NeverOversleeps
    BY DEF DeadlinesInv
  <1>3. Expiry!Heap \in Heaps /\ Placed(Expiry!Heap) /\ Ordered(Expiry!Heap, Len(Expiry!Heap.h)) /\ Expiry!Heap.h = deadlines
        /\ Expiry!Heap.idx = index /\ Expiry!Heap.dl = deadline
    BY <1>2, HeapFields DEF HeapInv
  <1>4. /\ H \in Heaps /\ Placed(H) /\ Ordered(H, Len(H.h))
        /\ \A q \in TimedRoutes : H.idx[q] >= 0 <=> index[q] >= 0 /\ q # rt
        /\ \A q \in TimedRoutes : q # rt => H.dl[q] = deadline[q]
    <2>1. CASE index[rt] >= 0
      <3>1. Lost(Expiry!Heap, H, rt)
        BY <1>3, <2>1, UntrackedFacts
      <3> QED BY <3>1, <1>3 DEF Lost
    <2>2. CASE ~(index[rt] >= 0)
      <3>1. H = Expiry!Heap
        BY <1>3, <2>2, UntrackedFacts
      <3> QED BY <3>1, <1>3, <2>2
    <2> QED BY <2>1, <2>2
  <1> HIDE DEF H
  <1>5. Expiry!Heap' = H /\ index' = H.idx /\ deadline' = H.dl /\ deadlines' = H.h
    BY <1>1, <1>4, HeapSet
  <1>6. /\ status' \in Statuses /\ status'[rt] = "over" /\ \A q \in TimedRoutes : q # rt => status'[q] = status[q]
        /\ asked' \in [TimedRoutes -> Timeouts \cup {Nothing}]
        /\ \A q \in TimedRoutes : q # rt => asked'[q] = asked[q]
        /\ openedAt' \in [TimedRoutes -> 0..LastTick]
        /\ \A q \in TimedRoutes : q # rt => openedAt'[q] = openedAt[q]
    BY <1>1, <1>2 DEF DeadlineTypes, Statuses, Expiry!Forget, Expiry!DeadlinesAssumption
  <1>7. loop' = loop /\ next' = next /\ aim' = aim /\ lag' = lag /\ timer' = timer /\ deadlineNow' = deadlineNow /\ loopClosed' = loopClosed
        /\ woken' = woken
    BY <1>1 DEF Expiry!loopVars
  <1>8. DeadlineTypes'
    BY <1>2, <1>6, <1>7 DEF DeadlineTypes
  <1>9. HeapInv'
    BY <1>4, <1>5 DEF HeapInv
  <1>10. TrackInv'
    <2> SUFFICES ASSUME NEW q \in TimedRoutes
                 PROVE  /\ index'[q] >= 0 <=> Expiry!Timed(q)'
                        /\ Expiry!Timed(q)' => deadline'[q] = openedAt'[q] + Expiry!Budget(asked'[q])
      BY DEF TrackInv
    <2>1. CASE q = rt
      BY <2>1, <1>4, <1>5, <1>6 DEF Expiry!Timed
    <2>2. CASE q # rt
      <3>1. (Expiry!Timed(q)' <=> Expiry!Timed(q)) /\ openedAt'[q] = openedAt[q] /\ asked'[q] = asked[q]
        BY <1>6, <2>2 DEF Expiry!Timed
      <3>2. (index'[q] >= 0 <=> index[q] >= 0) /\ deadline'[q] = deadline[q]
        BY <1>4, <1>5, <2>2
      <3> QED BY <3>1, <3>2, <1>2 DEF TrackInv
    <2> QED BY <2>1, <2>2
  <1>11. Expiry!NeverOversleeps'
    <2>1. ASSUME deadlines' # <<>>
          PROVE  /\ index[deadlines'[1]] >= 0 /\ deadlines'[1] \in TimedRoutes
                 /\ deadline'[deadlines'[1]] = deadline[deadlines'[1]]
      <3> DEFINE f == H.h[1]
      <3>1. f \in TimedRoutes /\ H.idx[f] = 0
        BY <1>4, <1>5, <2>1, FirstFacts
      <3>2. index[f] >= 0 /\ f # rt
        BY <3>1, <1>4
      <3> QED BY <3>1, <3>2, <1>4, <1>5
    <2> QED BY <2>1, <1>7, <1>9, StillInTime
  <1> QED BY <1>8, <1>9, <1>10, <1>11 DEF DeadlinesInv

\* What a look of the loop does to the routes.
LEMMA LookFacts ==
  ASSUME Expiry!DeadlinesAssumption, DeadlinesInv, Expiry!Look
  PROVE  \E S : /\ S \in Expiring([heap |-> Expiry!Heap, status |-> status]) /\ ~Expiry!Due(S.heap)
                /\ Expiry!Heap' = S.heap /\ index' = S.heap.idx /\ deadline' = S.heap.dl
                /\ deadlines' = S.heap.h /\ status' = S.status
                /\ Expiry!Forget({rt \in TimedRoutes : status[rt] /= S.status[rt]})
                /\ next' = Expiry!Sleep(S.heap) /\ aim' = deadlineNow + Expiry!Sleep(S.heap)
  <1> DEFINE B == [heap |-> Expiry!Heap, status |-> status]
             S == Expiry!Expired(B)
  <1>1. /\ Expiry!SetHeap(S.heap) /\ status' = S.status
        /\ Expiry!Forget({rt \in TimedRoutes : status[rt] /= S.status[rt]})
        /\ next' = Expiry!Sleep(S.heap) /\ aim' = deadlineNow + Expiry!Sleep(S.heap)
    BY Zenon DEF Expiry!Look
  <1>2. /\ Expiry!Heap \in Heaps /\ Placed(Expiry!Heap) /\ Ordered(Expiry!Heap, Len(Expiry!Heap.h)) /\ status \in Statuses
        /\ \A q \in TimedRoutes : Expiry!Heap.idx[q] >= 0 => status[q] = "live"
    BY HeapFields DEF DeadlinesInv, HeapInv, TrackInv, DeadlineTypes, Expiry!Timed
  <1>3. B.heap = Expiry!Heap /\ B.status = status /\ B \in [heap : Heaps, status : Statuses]
    BY <1>2
  <1> HIDE DEF B
  <1>4. \A q \in TimedRoutes : B.heap.idx[q] >= 0 => B.status[q] = "live"
    BY <1>2, <1>3
  <1>5. \A q \in TimedRoutes : Fate(B, B, q)
    BY DEF Fate
  <1>6. B \in Expiring(B)
    BY <1>2, <1>3, <1>5 DEF Expiring
  <1>7. S \in Expiring(B) /\ ~Expiry!Due(S.heap)
    BY <1>4, <1>6, ExpiredFacts
  <1> HIDE DEF S
  <1>8. S.heap \in Heaps
    BY <1>7 DEF Expiring
  <1>9. Expiry!Heap' = S.heap /\ index' = S.heap.idx /\ deadline' = S.heap.dl /\ deadlines' = S.heap.h
    BY <1>1, <1>8, HeapSet
  <1> QED BY <1>1, <1>7, <1>9, Zenon DEF B

LEMMA LookStep ==
  ASSUME Expiry!DeadlinesAssumption, DeadlinesInv, Expiry!Look
  PROVE  /\ DeadlinesInv'
         /\ NoOverflow => \A rt \in TimedRoutes : status[rt] = "live" /\ status'[rt] = "over"
               => deadlineNow >= openedAt[rt] + asked[rt] * Millisecond + Grace
  <1> DEFINE B == [heap |-> Expiry!Heap, status |-> status]
  <1>1. PICK S : /\ S \in Expiring(B) /\ ~Expiry!Due(S.heap)
                 /\ Expiry!Heap' = S.heap /\ index' = S.heap.idx /\ deadline' = S.heap.dl
                 /\ deadlines' = S.heap.h /\ status' = S.status
                 /\ Expiry!Forget({rt \in TimedRoutes : status[rt] /= S.status[rt]})
                 /\ next' = Expiry!Sleep(S.heap) /\ aim' = deadlineNow + Expiry!Sleep(S.heap)
    BY LookFacts, Zenon
  <1>2. loop' = "arm" /\ lag' = 0 /\ UNCHANGED <<deadlineNow, woken, timer, loopClosed>>
    BY Zenon DEF Expiry!Look
  <1>3. B.heap = Expiry!Heap /\ B.status = status /\ Expiry!Heap.idx = index /\ Expiry!Heap.dl = deadline
    BY HeapFields
  <1>4. /\ S.heap \in Heaps /\ Placed(S.heap) /\ Ordered(S.heap, Len(S.heap.h)) /\ S.status \in Statuses
        /\ \A q \in TimedRoutes : Fate(B, S, q)
    BY <1>1 DEF Expiring
  <1> HIDE DEF B
  <1>5. DeadlineTypes /\ TrackInv
    BY DEF DeadlinesInv
  <1>6. ASSUME NEW q \in TimedRoutes
        PROVE  \/ /\ index'[q] >= 0 /\ index[q] >= 0 /\ status'[q] = status[q] /\ deadline'[q] = deadline[q]
               \/ /\ ~(index'[q] >= 0) /\ index[q] >= 0 /\ status'[q] = "over" /\ deadline[q] <= deadlineNow
               \/ /\ ~(index'[q] >= 0) /\ ~(index[q] >= 0) /\ status'[q] = status[q]
    BY <1>1, <1>3, <1>4 DEF Fate
  <1>7. /\ asked' \in [TimedRoutes -> Timeouts \cup {Nothing}] /\ openedAt' \in [TimedRoutes -> 0..LastTick]
        /\ \A q \in TimedRoutes : status'[q] = status[q] => asked'[q] = asked[q] /\ openedAt'[q] = openedAt[q]
    BY <1>1, <1>5 DEF Expiry!Forget, DeadlineTypes, Expiry!DeadlinesAssumption
  <1>h. HeapInv'
    BY <1>1, <1>4 DEF HeapInv
  <1>8. TrackInv'
    <2> SUFFICES ASSUME NEW q \in TimedRoutes
                 PROVE  /\ index'[q] >= 0 <=> Expiry!Timed(q)'
                        /\ Expiry!Timed(q)' => deadline'[q] = openedAt'[q] + Expiry!Budget(asked'[q])
      BY DEF TrackInv
    <2>1. /\ index[q] >= 0 <=> Expiry!Timed(q)
          /\ Expiry!Timed(q) => deadline[q] = openedAt[q] + Expiry!Budget(asked[q])
      BY <1>5 DEF TrackInv
    <2>2. CASE status'[q] = status[q]
      <3>1. (Expiry!Timed(q)' <=> Expiry!Timed(q)) /\ openedAt'[q] = openedAt[q] /\ asked'[q] = asked[q]
        BY <1>7, <2>2 DEF Expiry!Timed
      <3>2. index[q] >= 0 => status[q] = "live"
        BY <2>1 DEF Expiry!Timed
      <3> QED BY <3>1, <3>2, <2>1, <2>2, <1>6
    <2>3. CASE status'[q] # status[q]
      <3>1. ~(index'[q] >= 0) /\ status'[q] = "over"
        BY <2>3, <1>6
      <3> QED BY <3>1 DEF Expiry!Timed
    <2> QED BY <2>2, <2>3
  <1>9. Expiry!Sleep(S.heap) \in Int /\ (S.heap.h # <<>> => deadlineNow + Expiry!Sleep(S.heap) < S.heap.dl[S.heap.h[1]] + Millisecond)
    <2> DEFINE d == S.heap.dl[S.heap.h[1]]
    <2>1. Hour \in Int /\ Millisecond \in Nat \ {0} /\ deadlineNow \in Int
      BY <1>5 DEF Expiry!DeadlinesAssumption, DeadlineTypes
    <2>2. CASE S.heap.h = <<>>
      BY <2>1, <2>2 DEF Expiry!Sleep
    <2>3. CASE S.heap.h # <<>>
      <3>1. S.heap.h[1] \in TimedRoutes
        BY <1>4, <2>3, FirstFacts
      <3>2. d \in Int
        BY <1>4, <3>1, HeapFacts
      <3>3. ~(d <= deadlineNow) /\ Expiry!Sleep(S.heap) = IF d - deadlineNow > Millisecond THEN d - deadlineNow ELSE Millisecond
        BY <1>1, <2>3 DEF Expiry!Due, Expiry!Sleep, Expiry!Longer
      <3> HIDE DEF d
      <3>4. Expiry!Sleep(S.heap) \in Int /\ deadlineNow + Expiry!Sleep(S.heap) < d + Millisecond
        BY <2>1, <3>2, <3>3
      <3> QED BY <3>4 DEF d
    <2> QED BY <2>2, <2>3
  <1>10. DeadlineTypes'
    <2>1. next' \in Int /\ aim' \in Int /\ lag' \in 0..MaxLag
      BY <1>1, <1>2, <1>5, <1>9 DEF DeadlineTypes, Expiry!DeadlinesAssumption
    <2>2. status' \in Statuses
      BY <1>1, <1>4
    <2> QED BY <1>2, <1>5, <1>7, <2>1, <2>2 DEF DeadlineTypes
  <1>11. Expiry!NeverOversleeps'
    BY <1>1, <1>9 DEF Expiry!NeverOversleeps
  <1>12. ASSUME NoOverflow, NEW rt \in TimedRoutes, status[rt] = "live", status'[rt] = "over"
         PROVE  deadlineNow >= openedAt[rt] + asked[rt] * Millisecond + Grace
    <2>1. index[rt] >= 0 /\ deadline[rt] <= deadlineNow
      BY <1>6, <1>12
    <2>2. Expiry!Timed(rt) /\ deadline[rt] = openedAt[rt] + Expiry!Budget(asked[rt])
      BY <2>1, <1>5 DEF TrackInv
    <2>3. asked[rt] \in Timeouts
      BY <2>2, <1>5 DEF DeadlineTypes, Expiry!Timed
    <2>4. Expiry!Budget(asked[rt]) = asked[rt] * Millisecond + Grace
      BY <2>3, <1>12, BudgetFacts
    <2>5. openedAt[rt] \in Int /\ deadlineNow \in Int /\ Grace \in Int
      BY <1>5 DEF DeadlineTypes, Expiry!DeadlinesAssumption
    <2>m. asked[rt] \in Nat /\ Millisecond \in Nat
      BY <2>3 DEF Expiry!DeadlinesAssumption
    <2>6. asked[rt] * Millisecond \in Int
      BY <2>m
    <2> QED BY <2>1, <2>2, <2>4, <2>5, <2>6
  <1> QED BY <1>10, <1>h, <1>8, <1>11, <1>12 DEF DeadlinesInv

\* The steps that leave the routes and their deadlines alone.
LEMMA QuietStep ==
  ASSUME DeadlinesInv, UNCHANGED <<status, asked, openedAt, Expiry!heapVars>>, DeadlineTypes', Expiry!NeverOversleeps'
  PROVE  DeadlinesInv'
  <1>1. HeapInv'
    BY DEF DeadlinesInv, HeapInv, Expiry!heapVars, Expiry!Heap
  <1>2. TrackInv'
    BY DEF DeadlinesInv, TrackInv, Expiry!heapVars, Expiry!Timed
  <1> QED BY <1>1, <1>2 DEF DeadlinesInv

LEMMA LoopSteps ==
  ASSUME Expiry!DeadlinesAssumption, DeadlinesInv, Expiry!Arm \/ Expiry!WakeUp \/ Expiry!TimerWakes \/ Expiry!Stop
  PROVE  DeadlinesInv'
  <1>1. DeadlineTypes /\ Expiry!NeverOversleeps
    BY DEF DeadlinesInv
  <1>2. UNCHANGED <<deadlineNow, status, asked, openedAt, Expiry!heapVars, aim, loopClosed>> /\ UNCHANGED <<status, asked, openedAt, Expiry!heapVars>>
    BY DEF Expiry!Arm, Expiry!WakeUp, Expiry!TimerWakes, Expiry!Stop
  <1>3. timer = [due |-> timer.due, set |-> timer.set, fired |-> timer.fired] /\ timer.due \in Int
        /\ timer.set \in BOOLEAN /\ timer.fired \in BOOLEAN
    BY <1>1 DEF DeadlineTypes
  <1>4. CASE Expiry!Arm
    <2>1. /\ loop = "arm" /\ timer' = [due |-> deadlineNow + next, set |-> TRUE, fired |-> FALSE]
          /\ loop' = "sleep" /\ next' = 0 /\ lag' = 0 /\ woken' = woken
      BY <1>4 DEF Expiry!Arm
    <2>2. timer' \in [due : Int, set : BOOLEAN, fired : BOOLEAN]
      <3>1. deadlineNow + next \in Int
        BY <1>1 DEF DeadlineTypes
      <3> QED BY <2>1, <3>1
    <2>3. DeadlineTypes'
      BY <1>1, <1>2, <2>1, <2>2 DEF DeadlineTypes, Expiry!DeadlinesAssumption
    <2>4. Expiry!NeverOversleeps'
      BY <1>1, <1>2, <2>1 DEF Expiry!NeverOversleeps, Expiry!heapVars
    <2> QED BY <1>2, <2>3, <2>4, QuietStep
  <1>5. CASE Expiry!WakeUp
    <2>1. loop' = "look" /\ woken' = FALSE /\ next' = next /\ lag' = lag /\ timer' = timer
      BY <1>5 DEF Expiry!WakeUp
    <2>2. DeadlineTypes' /\ Expiry!NeverOversleeps'
      BY <1>1, <1>2, <2>1 DEF DeadlineTypes, Expiry!NeverOversleeps
    <2> QED BY <1>2, <2>2, QuietStep
  <1>6. CASE Expiry!TimerWakes
    <2>1. loop' = "look" /\ timer' = [timer EXCEPT !.fired = FALSE] /\ next' = next /\ lag' = lag /\ woken' = woken
      BY <1>6 DEF Expiry!TimerWakes
    <2>2. timer' \in [due : Int, set : BOOLEAN, fired : BOOLEAN]
      BY <1>1, <2>1 DEF DeadlineTypes
    <2>3. DeadlineTypes' /\ Expiry!NeverOversleeps'
      BY <1>1, <1>2, <2>1, <2>2 DEF DeadlineTypes, Expiry!NeverOversleeps
    <2> QED BY <1>2, <2>3, QuietStep
  <1>7. CASE Expiry!Stop
    <2>1. loop' = "gone" /\ timer' = [timer EXCEPT !.set = FALSE] /\ next' = next /\ lag' = lag /\ woken' = woken
      BY <1>7 DEF Expiry!Stop
    <2>2. timer' \in [due : Int, set : BOOLEAN, fired : BOOLEAN]
      BY <1>1, <2>1 DEF DeadlineTypes
    <2>3. DeadlineTypes' /\ Expiry!NeverOversleeps'
      BY <1>1, <1>2, <2>1, <2>2 DEF DeadlineTypes, Expiry!NeverOversleeps
    <2> QED BY <1>2, <2>3, QuietStep
  <1> QED BY <1>4, <1>5, <1>6, <1>7

LEMMA SurroundingSteps ==
  ASSUME Expiry!DeadlinesAssumption, DeadlinesInv, Expiry!Close \/ Expiry!TimerFires \/ Expiry!Tick \/ UNCHANGED Expiry!vars
  PROVE  DeadlinesInv'
  <1>1. DeadlineTypes /\ Expiry!NeverOversleeps
    BY DEF DeadlinesInv
  <1>2. /\ UNCHANGED <<status, asked, openedAt, Expiry!heapVars>>
        /\ woken' = woken /\ loop' = loop /\ next' = next /\ aim' = aim
    BY DEF Expiry!Close, Expiry!TimerFires, Expiry!Tick, Expiry!vars, Expiry!loopVars
  <1>3. Expiry!NeverOversleeps'
    BY <1>1, <1>2 DEF Expiry!NeverOversleeps, Expiry!heapVars
  <1>4. CASE Expiry!Close
    <2>1. loopClosed' = TRUE /\ deadlineNow' = deadlineNow /\ lag' = lag /\ timer' = timer
      BY <1>4 DEF Expiry!Close, Expiry!loopVars
    <2>2. DeadlineTypes'
      BY <1>1, <1>2, <2>1 DEF DeadlineTypes
    <2> QED BY <1>2, <1>3, <2>2, QuietStep
  <1>5. CASE Expiry!TimerFires
    <2>1. loopClosed' = loopClosed /\ deadlineNow' = deadlineNow /\ lag' = lag /\ timer' = [due |-> 0, set |-> FALSE, fired |-> TRUE]
      BY <1>5 DEF Expiry!TimerFires
    <2>2. timer' \in [due : Int, set : BOOLEAN, fired : BOOLEAN]
      BY <2>1
    <2>3. DeadlineTypes'
      BY <1>1, <1>2, <2>1, <2>2 DEF DeadlineTypes
    <2> QED BY <1>2, <1>3, <2>3, QuietStep
  <1>6. CASE Expiry!Tick
    <2>1. loopClosed' = loopClosed /\ deadlineNow < LastTick /\ deadlineNow' = deadlineNow + 1 /\ timer' = timer
          /\ (lag' = lag \/ (lag < MaxLag /\ lag' = lag + 1))
      BY <1>6 DEF Expiry!Tick
    <2>2. deadlineNow' \in 0..LastTick /\ lag' \in 0..MaxLag
      BY <1>1, <2>1 DEF DeadlineTypes, Expiry!DeadlinesAssumption
    <2>3. DeadlineTypes'
      BY <1>1, <1>2, <2>1, <2>2 DEF DeadlineTypes
    <2> QED BY <1>2, <1>3, <2>3, QuietStep
  <1>7. CASE UNCHANGED Expiry!vars
    <2>1. DeadlineTypes'
      BY <1>1, <1>7 DEF DeadlineTypes, Expiry!vars, Expiry!loopVars
    <2> QED BY <1>2, <1>3, <2>1, QuietStep
  <1> QED BY <1>4, <1>5, <1>6, <1>7

LEMMA DeadlinesStep ==
  ASSUME Expiry!DeadlinesAssumption, DeadlinesInv, [Expiry!Next]_Expiry!vars
  PROVE  DeadlinesInv'
  <1>1. CASE \E rt \in TimedRoutes : Expiry!Open(rt) \/ Expiry!End(rt)
    BY <1>1, OpenStep, EndStep
  <1>2. CASE Expiry!Look
    BY <1>2, LookStep
  <1>3. CASE Expiry!Arm \/ Expiry!WakeUp \/ Expiry!TimerWakes \/ Expiry!Stop
    BY <1>3, LoopSteps
  <1>4. CASE Expiry!Close \/ Expiry!TimerFires \/ Expiry!Tick \/ UNCHANGED Expiry!vars
    BY <1>4, SurroundingSteps
  <1> QED BY <1>1, <1>2, <1>3, <1>4 DEF Expiry!Next

LEMMA DeadlinesMean ==
  ASSUME Expiry!DeadlinesAssumption, DeadlinesInv
  PROVE  Expiry!TypeOK /\ Expiry!TimedCallsTracked /\ Expiry!FirstIsEarliest /\ Expiry!NeverOversleeps
  <1> DEFINE T == {rt \in TimedRoutes : Expiry!Timed(rt)}
             n == Len(deadlines)
  <1>1. DeadlineTypes /\ TrackInv /\ Expiry!NeverOversleeps
    BY DEF DeadlinesInv
  <1>2. /\ Expiry!Heap \in Heaps /\ Placed(Expiry!Heap) /\ Ordered(Expiry!Heap, Len(Expiry!Heap.h))
        /\ Expiry!Heap.h = deadlines /\ Expiry!Heap.idx = index /\ Expiry!Heap.dl = deadline
    BY HeapFields DEF DeadlinesInv, HeapInv
  <1>3. /\ deadlines \in Seq(TimedRoutes) /\ index \in [TimedRoutes -> Int] /\ deadline \in [TimedRoutes -> Int]
        /\ n \in Nat /\ deadlines \in [1..n -> TimedRoutes]
        /\ \A i \in 1..n : deadlines[i] \in TimedRoutes /\ index[deadlines[i]] = i - 1
    <2>1. /\ deadlines \in Seq(TimedRoutes) /\ index \in [TimedRoutes -> Int] /\ deadline \in [TimedRoutes -> Int]
          /\ n \in Nat /\ DOMAIN deadlines = 1..n
      BY <1>2, HeapFacts
    <2>2. \A i \in 1..n : index[deadlines[i]] = i - 1
      BY <1>2 DEF Placed
    <2>3. deadlines \in [1..n -> TimedRoutes]
      BY <2>1
    <2> QED BY <2>1, <2>2, <2>3
  <1> HIDE DEF n
  <1>4. \A q \in TimedRoutes : index[q] >= 0 <=> q \in T
    BY <1>1 DEF TrackInv
  <1>5. \A q \in TimedRoutes : index[q] >= 0 => index[q] + 1 \in 1..n /\ deadlines[index[q] + 1] = q
    BY <1>2 DEF Placed, n
  <1>6. \A q \in TimedRoutes : ~(index[q] >= 0) => index[q] = -1
    <2> SUFFICES ASSUME NEW q \in TimedRoutes, ~(index[q] >= 0) PROVE index[q] = -1
      OBVIOUS
    <2>1. index[q] = -1 \/ index[q] + 1 \in 1..n
      BY <1>2 DEF Placed, n
    <2> QED BY <2>1, <1>3
  <1>7. {deadlines[i] : i \in 1..n} = T
    <2>1. ASSUME NEW i \in 1..n PROVE deadlines[i] \in T
      <3>1. index[deadlines[i]] >= 0 /\ deadlines[i] \in TimedRoutes
        BY <1>3
      <3> QED BY <3>1, <1>4
    <2>2. ASSUME NEW q \in T PROVE \E i \in 1..n : deadlines[i] = q
      <3>1. q \in TimedRoutes /\ index[q] >= 0
        BY <1>4
      <3> QED BY <3>1, <1>5
    <2> HIDE DEF T
    <2> QED BY <2>1, <2>2
  <1>8. \A i, j \in 1..n : deadlines[i] = deadlines[j] => i = j
    BY <1>3
  <1>9. n = Cardinality(T) /\ n <= Cardinality(TimedRoutes) /\ Cardinality(TimedRoutes) \in Nat
    <2>1. n = Cardinality(ToSet(deadlines)) /\ ToSet(deadlines) = {deadlines[i] : i \in 1..n}
      BY <1>3, <1>8, DistinctLength, ToSetByIndex DEF n
    <2>2. IsFiniteSet(TimedRoutes) /\ T \subseteq TimedRoutes
      BY Counting DEF Expiry!DeadlinesAssumption
    <2>3. Cardinality(T) <= Cardinality(TimedRoutes) /\ Cardinality(TimedRoutes) \in Nat
      BY <2>2, FS_Subset, FS_CardinalityType
    <2> HIDE DEF T
    <2> QED BY <2>1, <2>3, <1>7
  <1>10. Expiry!TimedCallsTracked
    BY <1>7, <1>9, Counting DEF Expiry!TimedCallsTracked, n
  <1>11. Expiry!FirstIsEarliest
    <2> SUFFICES ASSUME NEW i \in 1..n PROVE deadline[deadlines[1]] <= deadline[deadlines[i]]
      BY DEF Expiry!FirstIsEarliest, n
    <2>1. deadlines # <<>>
      <3>1. n # 0
        BY <1>3
      <3> QED BY <3>1 DEF n
    <2>2. deadlines[i] \in TimedRoutes /\ index[deadlines[i]] >= 0
      BY <1>3
    <2> QED BY <2>1, <2>2, <1>2, FirstFacts
  <1>12. Expiry!TypeOK
    <2> DEFINE c == Cardinality(TimedRoutes)
    <2>1. n \in 0..c /\ c \in Nat
      BY <1>3, <1>9
    <2>2. deadlines \in UNION {[1..m -> TimedRoutes] : m \in 0..c}
      BY <1>3, <2>1
    <2>3. index \in [TimedRoutes -> -1..(c - 1)]
      <3> SUFFICES ASSUME NEW q \in TimedRoutes PROVE index[q] \in -1..(c - 1)
        BY <1>3
      <3>1. CASE index[q] >= 0
        <4>1. index[q] + 1 \in 1..n /\ index[q] \in Int
          BY <3>1, <1>3, <1>5
        <4> HIDE DEF c
        <4> QED BY <4>1, <2>1
      <3>2. CASE ~(index[q] >= 0)
        <4>1. index[q] = -1
          BY <3>2, <1>6
        <4> HIDE DEF c
        <4> QED BY <4>1, <2>1
      <3> QED BY <3>1, <3>2
    <2>4. DOMAIN deadline = TimedRoutes /\ \A rt \in TimedRoutes : deadline[rt] \in Int
      BY <1>3
    <2>5. timer.set \in BOOLEAN /\ timer.fired \in BOOLEAN
      BY <1>1 DEF DeadlineTypes
    <2> HIDE DEF c
    <2>6. /\ deadlineNow \in 0..LastTick /\ status \in [TimedRoutes -> {"new", "live", "over"}]
          /\ asked \in [TimedRoutes -> Timeouts \cup {Nothing}] /\ openedAt \in [TimedRoutes -> 0..LastTick]
          /\ woken \in BOOLEAN /\ loopClosed \in BOOLEAN /\ loop \in {"look", "arm", "sleep", "gone"}
          /\ lag \in 0..MaxLag
      BY <1>1 DEF DeadlineTypes, Statuses
    <2> QED BY <2>2, <2>3, <2>4, <2>5, <2>6, Counting DEF Expiry!TypeOK, c
  <1> QED BY <1>1, <1>10, <1>11, <1>12

-------------------------------------------------------------------------------
(* dedup.go: the idempotency table.                                        *)

Live == {k \in Keys : table[k] /= None}

\* A list and a map of entries that agree.
Agree(T, s) ==
    /\ T \in [Keys -> Entry \cup {None}] /\ s \in Seq(Keys)
    /\ \A i, j \in 1..Len(s) : s[i] = s[j] => i = j
    /\ ToSet(s) = {k \in Keys : T[k] /= None}

\* A call that executes is the one its key's entry points at: this is why a key
\* in flight has one execution.
CallsInv ==
    \A rt \in Routes : calls[rt] /= None =>
        table[calls[rt]] /= None /\ table[calls[rt]].route = rt

DedupInv == TypeOK /\ Agree(table, order) /\ CallsInv

-------------------------------------------------------------------------------
(* The operations on list and map.                                         *)

LEMMA EntryIsRecord ==
    ASSUME NEW e \in Entry
    PROVE  e.route \in Routes \cup {None} /\ e.result \in BOOLEAN
  BY DEF Entry

\* dedupRemove takes one entry out of both.
LEMMA RemovedAgrees ==
    ASSUME DedupAssumption, NEW T, NEW s, Agree(T, s), NEW k \in Keys, T[k] /= None,
           NEW R, R = Removed([table |-> T, order |-> s], k)
    PROVE  Agree(R.table, R.order) /\ R.table = [T EXCEPT ![k] = None]
  <1> DEFINE p == CHOOSE i \in 1..Len(s) : s[i] = k
  <1>1. R.table = [T EXCEPT ![k] = None] /\ R.order = RemoveAt(s, p)
    BY DEF Removed
  <1>2. s \in Seq(Keys) /\ T \in [Keys -> Entry \cup {None}]
    BY DEF Agree
  <1>3. \E i \in 1..Len(s) : s[i] = k
    BY <1>2, ToSetByIndex DEF Agree
  <1>4. p \in 1..Len(s) /\ s[p] = k
    BY <1>3
  <1> HIDE DEF p
  <1>5. /\ RemoveAt(s, p) \in Seq(Keys)
        /\ \A i, j \in 1..Len(RemoveAt(s, p)) : RemoveAt(s, p)[i] = RemoveAt(s, p)[j] => i = j
        /\ ToSet(RemoveAt(s, p)) = ToSet(s) \ {k}
    BY <1>2, <1>4, RemoveAtProperties, RemoveAtDistinct DEF Agree
  <1>6. {j \in Keys : R.table[j] /= None} = {j \in Keys : T[j] /= None} \ {k}
    BY <1>1, <1>2
  <1>7. R.table \in [Keys -> Entry \cup {None}]
    BY <1>1, <1>2
  <1> QED BY <1>1, <1>5, <1>6, <1>7 DEF Agree

\* The loop of dedupInsert ends, and has passed settled entries only.
LEMMA EvictedFacts ==
    ASSUME DedupAssumption, NEW T, NEW s, Agree(T, s), NEW n,
           n = Evicted([table |-> T, order |-> s])
    PROVE  /\ n \in 0..Len(s)
           /\ Len(s) - n < Capacity \/ (n + 1 \in 1..Len(s) /\ InFlight(T, s[n + 1]))
           /\ \A i \in 1..n : ~InFlight(T, s[i])
  <1> DEFINE ends(m) == Len(s) - m < Capacity \/ InFlight(T, s[m + 1])
             S == {m \in 0..Len(s) : ends(m)}
  <1>0. Len(s) \in Nat /\ Capacity \in Nat \ {0}
    BY LenProperties DEF Agree, DedupAssumption
  <1>1. Len(s) \in S
    BY <1>0
  <1>2. \E x \in S : \A y \in S : x <= y
    <2>1. S \in SUBSET Nat
      BY <1>0
    <2> HIDE DEF S
    <2> QED BY <1>1, <2>1, LeastExists
  <1>3. n = Min(S)
    BY DEF Evicted
  <1>4. n \in S /\ \A y \in S : n <= y
    <2> HIDE DEF S
    <2> QED BY <1>2, <1>3 DEF Min
  <1>5. n \in 0..Len(s) /\ ends(n)
    BY <1>4
  <1>6. Len(s) - n < Capacity \/ (n + 1 \in 1..Len(s) /\ InFlight(T, s[n + 1]))
    <2>1. ~(Len(s) - n < Capacity) => n + 1 \in 1..Len(s)
      BY <1>0, <1>5
    <2> QED BY <1>5, <2>1
  <1>7. ASSUME NEW i \in 1..n PROVE ~InFlight(T, s[i])
    <2>1. i - 1 \in 0..Len(s) /\ (i - 1) + 1 = i /\ ~(n <= i - 1)
      BY <1>0, <1>5
    <2>2. i - 1 \notin S
      BY <1>4, <2>1
    <2>3. ~ends(i - 1)
      BY <2>1, <2>2
    <2> QED BY <2>1, <2>3
  <1> QED BY <1>5, <1>6, <1>7

\* r is what is left of the list s without its first n elements.
Behind(S, s, n, r) ==
    /\ r \in Seq(S) /\ Len(r) = Len(s) - n
    /\ \A i \in 1..Len(s) - n : r[i] = s[n + i]
    /\ \A i, j \in 1..Len(r) : r[i] = r[j] => i = j
    /\ ToSet(r) = ToSet(s) \ {s[i] : i \in 1..n}

LEMMA BehindFront ==
    ASSUME NEW S, NEW s \in Seq(S), NEW n \in 0..Len(s),
           \A i, j \in 1..Len(s) : s[i] = s[j] => i = j
    PROVE  Behind(S, s, n, SubSeq(s, n + 1, Len(s)))
  <1> DEFINE r == SubSeq(s, n + 1, Len(s))
  <1>0. Len(s) \in Nat /\ n \in Nat /\ n <= Len(s)
    BY LenProperties
  <1>1. r \in Seq(S) /\ Len(r) = Len(s) - n /\ \A i \in 1..Len(s) - n : r[i] = s[n + i]
    <2>1. \A i \in n + 1..Len(s) : s[i] \in S
      BY <1>0, ElementOfSeq
    <2>2. /\ r \in Seq(S)
          /\ Len(r) = IF n + 1 <= Len(s) THEN Len(s) - (n + 1) + 1 ELSE 0
          /\ \A i \in 1..Len(s) - (n + 1) + 1 : r[i] = s[n + 1 + i - 1]
      BY <1>0, <2>1, SubSeqProperties
    <2> HIDE DEF r
    <2>3. Len(r) = Len(s) - n
      BY <1>0, <2>2
    <2>4. ASSUME NEW i \in 1..Len(s) - n PROVE r[i] = s[n + i]
      <3>1. i \in 1..Len(s) - (n + 1) + 1 /\ n + 1 + i - 1 = n + i
        BY <1>0
      <3> QED BY <2>2, <3>1
    <2> QED BY <2>2, <2>3, <2>4
  <1> HIDE DEF r
  <1>2. \A i \in 1..Len(s) - n : n + i \in 1..Len(s)
    BY <1>0
  <1>3. ASSUME NEW i \in 1..Len(r), NEW j \in 1..Len(r), r[i] = r[j] PROVE i = j
    <2>1. n + i = n + j
      BY <1>1, <1>2, <1>3
    <2> QED BY <1>0, <1>1, <2>1
  <1>4. ToSet(r) = {r[i] : i \in 1..Len(r)} /\ ToSet(s) = {s[i] : i \in 1..Len(s)}
    BY <1>1, ToSetByIndex
  <1>5. ASSUME NEW x PROVE x \in ToSet(r) <=> x \in ToSet(s) \ {s[i] : i \in 1..n}
    <2>1. ASSUME x \in ToSet(r) PROVE x \in ToSet(s) \ {s[i] : i \in 1..n}
      <3>1. PICK i \in 1..Len(s) - n : x = s[n + i]
        BY <1>1, <1>4, <2>1
      <3>2. \A j \in 1..n : j \in 1..Len(s) /\ j # n + i
        BY <1>0, <3>1
      <3>3. \A j \in 1..n : s[j] # x
        BY <1>2, <3>1, <3>2
      <3> QED BY <1>2, <1>4, <3>1, <3>3
    <2>2. ASSUME x \in ToSet(s) \ {s[i] : i \in 1..n} PROVE x \in ToSet(r)
      <3>1. PICK j \in 1..Len(s) : x = s[j]
        BY <1>4, <2>2
      <3>2. ~(j \in 1..n)
        BY <2>2, <3>1
      <3>3. j - n \in 1..Len(s) - n /\ n + (j - n) = j
        BY <1>0, <3>1, <3>2
      <3>4. r[j - n] = x
        BY <1>1, <3>1, <3>3
      <3> QED BY <1>1, <1>4, <3>3, <3>4
    <2> QED BY <2>1, <2>2
  <1>6. ToSet(r) = ToSet(s) \ {s[i] : i \in 1..n}
    BY <1>5
  <1> QED BY <1>1, <1>3, <1>6 DEF r, Behind

\* The map with the entry e for k, and without the entries of gone.
Forgetting(T, k, gone, e) ==
    [j \in Keys |-> IF j = k THEN e ELSE IF j \in gone THEN None ELSE T[j]]

\* dedupInsert keeps both in step, evicts no entry in flight, and leaves the
\* table within its capacity or behind one.
LEMMA InsertedAgrees ==
    ASSUME DedupAssumption, NEW T, NEW s, Agree(T, s), NEW k \in Keys, T[k] = None,
           NEW rt \in Routes, NEW R, R = Inserted([table |-> T, order |-> s], k, rt)
    PROVE  /\ Agree(R.table, R.order)
           /\ R.table[k] = [route |-> rt, result |-> FALSE, expires |-> 0]
           /\ \E gone \in SUBSET (Keys \ {k}) :
                /\ \A j \in gone : T[j] /= None /\ ~InFlight(T, j)
                /\ R.table = Forgetting(T, k, gone, R.table[k])
           /\ Len(R.order) <= Capacity \/ InFlight(R.table, R.order[1])
  <1> DEFINE D == [table |-> T, order |-> s]
             n == Evicted(D)
             gone == {s[i] : i \in 1..n}
             new == [route |-> rt, result |-> FALSE, expires |-> 0]
             r == SubSeq(s, n + 1, Len(s))
  <1>0. /\ T \in [Keys -> Entry \cup {None}] /\ s \in Seq(Keys) /\ Len(s) \in Nat
        /\ ToSet(s) = {j \in Keys : T[j] /= None}
        /\ Capacity \in Nat \ {0}
    BY LenProperties DEF Agree, DedupAssumption
  <1>1. /\ n \in 0..Len(s)
        /\ Len(s) - n < Capacity \/ (n + 1 \in 1..Len(s) /\ InFlight(T, s[n + 1]))
        /\ \A i \in 1..n : ~InFlight(T, s[i])
    BY EvictedFacts
  <1>2. /\ R.table = [j \in Keys |-> IF j = k THEN new ELSE IF j \in gone THEN None ELSE T[j]]
        /\ R.order = Append(r, k)
    BY DEF Inserted
  <1> HIDE DEF n
  <1>3. /\ r \in Seq(Keys) /\ Len(r) = Len(s) - n
        /\ \A i \in 1..Len(s) - n : r[i] = s[n + i]
        /\ \A i, j \in 1..Len(r) : r[i] = r[j] => i = j
        /\ ToSet(r) = ToSet(s) \ gone
    <2>1. \A i, j \in 1..Len(s) : s[i] = s[j] => i = j
      BY DEF Agree
    <2>2. s \in Seq(Keys) /\ n \in 0..Len(s)
      BY <1>0, <1>1
    <2>3. Behind(Keys, s, n, r)
      BY <2>1, <2>2, BehindFront, Zenon
    <2> HIDE DEF r
    <2> QED BY <2>3 DEF Behind
  <1> HIDE DEF r
  <1>4. \A i \in 1..n : s[i] \in ToSet(s)
    <2>1. \A i \in 1..n : i \in 1..Len(s)
      BY <1>0, <1>1
    <2>2. ToSet(s) = {s[i] : i \in 1..Len(s)}
      BY <1>0, ToSetByIndex
    <2> QED BY <2>1, <2>2
  <1>5. gone \in SUBSET (Keys \ {k}) /\ \A j \in gone : T[j] /= None /\ ~InFlight(T, j)
    BY <1>0, <1>1, <1>4
  <1>6. new \in Entry /\ new /= None
    <2>1. 0 \in 0..(MaxTime + TTL)
      BY DEF DedupAssumption
    <2>2. new \in Entry
      BY <2>1 DEF Entry
    <2> QED BY <2>2 DEF DedupAssumption
  <1> HIDE DEF new
  <1>7. R.table[k] = new
    BY <1>2
  <1>8. k \notin ToSet(r)
    BY <1>0, <1>3
  <1>9. /\ Append(r, k) \in Seq(Keys) /\ ToSet(Append(r, k)) = ToSet(r) \cup {k}
        /\ \A i, j \in 1..Len(Append(r, k)) : Append(r, k)[i] = Append(r, k)[j] => i = j
        /\ Len(Append(r, k)) = Len(r) + 1
        /\ \A i \in 1..Len(r) : Append(r, k)[i] = r[i]
    BY <1>3, <1>8, AppendProperties, AppendToSet, AppendDistinct
  <1>10. R.table \in [Keys -> Entry \cup {None}]
    BY <1>0, <1>2, <1>6
  <1>11. {j \in Keys : R.table[j] /= None} = ToSet(r) \cup {k}
    <2> HIDE DEF gone
    <2> QED BY <1>0, <1>2, <1>3, <1>6
  <1>12. Agree(R.table, R.order)
    BY <1>2, <1>9, <1>10, <1>11, ZenonT(40) DEF Agree
  <1>13. R.table = Forgetting(T, k, gone, R.table[k])
    <2> HIDE DEF gone
    <2> QED BY <1>2, <1>7 DEF Forgetting
  <1>14. Len(R.order) <= Capacity \/ InFlight(R.table, R.order[1])
    <2>1. CASE Len(s) - n < Capacity
      <3>1. Len(R.order) = Len(s) - n + 1
        BY <1>2, <1>3, <1>9
      <3> QED BY <1>0, <1>1, <2>1, <3>1
    <2>2. CASE n + 1 \in 1..Len(s) /\ InFlight(T, s[n + 1])
      <3>1. 1 \in 1..Len(s) - n /\ 1 \in 1..Len(r)
        BY <1>0, <1>1, <1>3, <2>2
      <3>2. R.order[1] = s[n + 1]
        BY <1>2, <1>3, <1>9, <3>1
      <3>3. s[n + 1] \in ToSet(r)
        <4>1. ToSet(r) = {r[i] : i \in 1..Len(r)}
          BY <1>3, ToSetByIndex
        <4> QED BY <1>3, <3>1, <4>1, ZenonT(40)
      <3>4. s[n + 1] \in Keys /\ s[n + 1] # k /\ s[n + 1] \notin gone
        BY <1>0, <1>3, <1>8, <3>3
      <3> HIDE DEF gone
      <3>5. R.table[s[n + 1]] = T[s[n + 1]]
        BY <1>2, <3>4
      <3> QED BY <2>2, <3>2, <3>5 DEF InFlight
    <2> QED BY <1>1, <2>1, <2>2
  <1>15. \E g \in SUBSET (Keys \ {k}) :
           /\ \A j \in g : T[j] /= None /\ ~InFlight(T, j)
           /\ R.table = Forgetting(T, k, g, R.table[k])
    BY <1>5, <1>13
  <1> QED BY <1>7, <1>12, <1>14, <1>15 DEF new

-------------------------------------------------------------------------------
(* Steps.                                                                  *)

LEMMA FreshNotInFlight ==
    ASSUME NEW k, Fresh(k)
    PROVE  table[k] /= None => ~InFlight(table, k)
  BY DEF Fresh, Stale

LEMMA OpenEffect ==
    ASSUME DedupAssumption, DedupInv, NEW k \in Keys, NEW rt \in Routes, Open(k, rt)
    PROVE  /\ Agree(table', order')
           /\ table'[k] = [route |-> rt, result |-> FALSE, expires |-> 0]
           /\ \E gone \in SUBSET (Keys \ {k}) :
                /\ \A j \in gone : table[j] /= None /\ ~InFlight(table, j)
                /\ table' = Forgetting(table, k, gone, table'[k])
           /\ Len(order') <= Capacity \/ InFlight(table', order'[1])
           /\ table[k] /= None => ~InFlight(table, k)
  <1>0. Agree(table, order) /\ table \in [Keys -> Entry \cup {None}]
    BY DEF DedupInv, TypeOK
  <1>1. PICK T, s : /\ LookedUp(k) = [table |-> T, order |-> s] /\ Agree(T, s)
                    /\ T = [table EXCEPT ![k] = None]
    <2>1. CASE table[k] = None
      <3>1. table = [table EXCEPT ![k] = None]
        BY <1>0, <2>1
      <3>2. LookedUp(k) = [table |-> table, order |-> order]
        BY <2>1 DEF LookedUp, Dedup
      <3> QED BY <1>0, <3>1, <3>2
    <2>2. CASE table[k] # None
      <3> DEFINE R == Removed([table |-> table, order |-> order], k)
      <3>1. LookedUp(k) = R
        BY <2>2 DEF LookedUp, Dedup
      <3>2. R = [table |-> R.table, order |-> R.order]
        BY DEF Removed
      <3>0. R = Removed([table |-> table, order |-> order], k)
        OBVIOUS
      <3> HIDE DEF R
      <3>3. Agree(R.table, R.order) /\ R.table = [table EXCEPT ![k] = None]
        BY <1>0, <2>2, <3>0, RemovedAgrees, ZenonT(40)
      <3>4. LookedUp(k) = [table |-> R.table, order |-> R.order]
        BY <3>1, <3>2
      <3> QED BY <3>3, <3>4
    <2> QED BY <2>1, <2>2
  <1>2. T[k] = None /\ \A j \in Keys : j # k => T[j] = table[j]
    BY <1>0, <1>1
  <1>3. PICK R : /\ table' = R.table /\ order' = R.order
                 /\ R = Inserted([table |-> T, order |-> s], k, rt)
    BY <1>1 DEF Open, Become
  <1>4. /\ Agree(R.table, R.order)
        /\ R.table[k] = [route |-> rt, result |-> FALSE, expires |-> 0]
        /\ \E gone \in SUBSET (Keys \ {k}) :
             /\ \A j \in gone : T[j] /= None /\ ~InFlight(T, j)
             /\ R.table = Forgetting(T, k, gone, R.table[k])
        /\ Len(R.order) <= Capacity \/ InFlight(R.table, R.order[1])
    <2>1. Agree(T, s) /\ T[k] = None /\ R = Inserted([table |-> T, order |-> s], k, rt)
      BY <1>1, <1>2, <1>3
    <2> QED BY <2>1, InsertedAgrees
  <1>5. PICK gone \in SUBSET (Keys \ {k}) :
          /\ \A j \in gone : T[j] /= None /\ ~InFlight(T, j)
          /\ R.table = Forgetting(T, k, gone, R.table[k])
    BY <1>4
  <1>6. \A j \in gone : table[j] /= None /\ ~InFlight(table, j)
    BY <1>2, <1>5 DEF InFlight
  <1>7. table' = Forgetting(table, k, gone, table'[k])
    <2>1. R.table = Forgetting(table, k, gone, R.table[k])
      BY <1>2, <1>5 DEF Forgetting
    <2> QED BY <1>3, <2>1
  <1>8. table[k] /= None => ~InFlight(table, k)
    BY FreshNotInFlight DEF Open
  <1> QED BY <1>3, <1>4, <1>6, <1>7, <1>8

LEMMA UnroutableEffect ==
    ASSUME DedupAssumption, DedupInv, NEW k \in Keys, OpenUnroutable(k)
    PROVE  /\ Agree(table', order') /\ table' = [table EXCEPT ![k] = None]
           /\ table[k] /= None /\ ~InFlight(table, k)
  <1> DEFINE R == Removed([table |-> table, order |-> order], k)
  <1>0. Agree(table, order) /\ table[k] /= None
    BY DEF DedupInv, OpenUnroutable
  <1>1. table' = R.table /\ order' = R.order
    BY DEF OpenUnroutable, Become, Dedup
  <1>2. Agree(R.table, R.order) /\ R.table = [table EXCEPT ![k] = None]
    BY <1>0, RemovedAgrees
  <1>3. ~InFlight(table, k)
    BY <1>0, FreshNotInFlight DEF OpenUnroutable
  <1> HIDE DEF R
  <1> QED BY <1>0, <1>1, <1>2, <1>3

\* The end of a call concludes its key's entry: the entry still is its own.
LEMMA ConcludeEffect ==
    ASSUME DedupAssumption, DedupInv, NEW rt \in Routes, NEW result \in BOOLEAN,
           Conclude(rt, result)
    PROVE  /\ calls[rt] \in Keys /\ table[calls[rt]] /= None /\ table[calls[rt]].route = rt
           /\ table' = [table EXCEPT ![calls[rt]] =
                          [route |-> None, result |-> result, expires |-> now + TTL]]
           /\ Agree(table', order')
  <1> DEFINE done == [route |-> None, result |-> result, expires |-> now + TTL]
  <1>1. calls[rt] \in Keys /\ table[calls[rt]] /= None /\ table[calls[rt]].route = rt
    BY DEF Conclude, DedupInv, TypeOK, CallsInv
  <1>2. PICK k \in Keys : k = calls[rt]
    BY <1>1
  <1>3. Mine(rt) = {k}
    BY <1>1, <1>2 DEF Mine
  <1>4. table \in [Keys -> Entry \cup {None}]
    BY DEF DedupInv, TypeOK
  <1>5. done \in Entry /\ done # None
    <2>1. now + TTL \in 0..(MaxTime + TTL)
      BY DEF DedupInv, TypeOK, DedupAssumption
    <2>2. done \in Entry
      BY <2>1 DEF Entry
    <2> QED BY <2>2 DEF DedupAssumption
  <1>6. table' = [j \in Keys |-> IF j \in Mine(rt) THEN done ELSE table[j]] /\ order' = order
    BY DEF Conclude, Concluded
  <1> HIDE DEF done
  <1>7. table' = [table EXCEPT ![k] = done]
    BY <1>3, <1>4, <1>6
  <1>8. /\ {j \in Keys : table'[j] /= None} = {j \in Keys : table[j] /= None}
        /\ table' \in [Keys -> Entry \cup {None}]
    BY <1>1, <1>2, <1>4, <1>5, <1>7
  <1>9. Agree(table', order')
    BY <1>6, <1>8 DEF DedupInv, Agree
  <1> QED BY <1>1, <1>2, <1>7, <1>9 DEF done

LEMMA DedupInvStep ==
    ASSUME DedupAssumption, DedupInv, [Next]_vars
    PROVE  DedupInv'
  <1>0. TypeOK /\ Agree(table, order) /\ CallsInv
    BY DEF DedupInv
  <1>1. ASSUME NEW k \in Keys, NEW rt \in Routes, Open(k, rt) PROVE DedupInv'
    <2>1. /\ Agree(table', order')
          /\ table'[k] = [route |-> rt, result |-> FALSE, expires |-> 0]
          /\ table[k] /= None => ~InFlight(table, k)
      BY <1>1, OpenEffect
    <2>2. PICK gone \in SUBSET (Keys \ {k}) :
            /\ \A j \in gone : table[j] /= None /\ ~InFlight(table, j)
            /\ table' = Forgetting(table, k, gone, table'[k])
      BY <1>1, OpenEffect
    <2>3. calls' = [calls EXCEPT ![rt] = k] /\ now' = now
      BY <1>1 DEF Open
    <2>4. TypeOK'
      BY <1>0, <2>1, <2>3 DEF TypeOK, Agree
    <2>5. ASSUME NEW q \in Routes, calls'[q] /= None
          PROVE  table'[calls'[q]] /= None /\ table'[calls'[q]].route = q
      <3>1. CASE q = rt
        <4>1. calls'[q] = k /\ k \in Live'
          <5>1. table'[k] # None
            <6>1. 0 \in 0..(MaxTime + TTL)
              BY DEF DedupAssumption
            <6>2. table'[k] \in Entry
              BY <2>1, <6>1 DEF Entry
            <6> QED BY <6>2 DEF DedupAssumption
          <5> QED BY <1>0, <2>3, <3>1, <5>1 DEF Live, TypeOK
        <4> QED BY <2>1, <3>1, <4>1 DEF Live
      <3>2. CASE q # rt
        <4>1. calls'[q] = calls[q] /\ calls[q] # None
          BY <1>0, <2>3, <2>5, <3>2 DEF TypeOK
        <4>2. table[calls[q]] /= None /\ table[calls[q]].route = q /\ calls[q] \in Keys
          BY <1>0, <4>1 DEF CallsInv, TypeOK
        <4>3. InFlight(table, calls[q])
          BY <4>2 DEF InFlight, DedupAssumption
        <4>4. calls[q] # k /\ calls[q] \notin gone
          BY <2>1, <2>2, <4>2, <4>3
        <4>5. table'[calls[q]] = table[calls[q]]
          BY <2>2, <4>2, <4>4 DEF Forgetting
        <4> QED BY <4>1, <4>2, <4>5
      <3> QED BY <3>1, <3>2
    <2>6. CallsInv'
      BY <2>5 DEF CallsInv
    <2> QED BY <2>1, <2>4, <2>6 DEF DedupInv
  <1>2. ASSUME NEW k \in Keys, OpenUnroutable(k) PROVE DedupInv'
    <2>1. /\ Agree(table', order') /\ table' = [table EXCEPT ![k] = None]
          /\ table[k] /= None /\ ~InFlight(table, k)
      BY <1>2, UnroutableEffect
    <2>2. UNCHANGED <<now, calls>>
      BY <1>2 DEF OpenUnroutable
    <2>3. TypeOK'
      BY <1>0, <2>1, <2>2 DEF TypeOK, Agree
    <2>4. ASSUME NEW q \in Routes, calls[q] /= None
          PROVE  table'[calls[q]] /= None /\ table'[calls[q]].route = q
      <3>1. table[calls[q]] /= None /\ table[calls[q]].route = q /\ calls[q] \in Keys
        BY <1>0, <2>4 DEF CallsInv, TypeOK
      <3>2. InFlight(table, calls[q])
        BY <3>1 DEF InFlight, DedupAssumption
      <3>3. table'[calls[q]] = table[calls[q]]
        BY <1>0, <2>1, <3>1, <3>2 DEF TypeOK
      <3> QED BY <3>1, <3>3
    <2>5. CallsInv'
      BY <2>2, <2>4 DEF CallsInv
    <2> QED BY <2>1, <2>3, <2>5 DEF DedupInv
  <1>3. ASSUME NEW rt \in Routes, NEW result \in BOOLEAN, Conclude(rt, result) PROVE DedupInv'
    <2> DEFINE done == [route |-> None, result |-> result, expires |-> now + TTL]
    <2>1. PICK k \in Keys : k = calls[rt]
      BY <1>3, ConcludeEffect
    <2>2. table' = [table EXCEPT ![k] = done] /\ Agree(table', order') /\ table[k].route = rt
      BY <1>3, <2>1, ConcludeEffect
    <2>3. calls' = [calls EXCEPT ![rt] = None] /\ UNCHANGED <<now, order>>
      BY <1>3 DEF Conclude
    <2>4. TypeOK'
      BY <1>0, <2>2, <2>3 DEF TypeOK, Agree
    <2> HIDE DEF done
    <2>5. ASSUME NEW q \in Routes, calls'[q] /= None
          PROVE  table'[calls'[q]] /= None /\ table'[calls'[q]].route = q
      <3>1. q # rt /\ calls'[q] = calls[q]
        BY <1>0, <2>3, <2>5 DEF TypeOK
      <3>2. table[calls[q]] /= None /\ table[calls[q]].route = q /\ calls[q] \in Keys
        BY <1>0, <2>5, <3>1 DEF CallsInv, TypeOK
      <3>3. calls[q] # k
        BY <2>2, <3>1, <3>2
      <3>4. table'[calls[q]] = table[calls[q]]
        BY <1>0, <2>2, <3>2, <3>3 DEF TypeOK
      <3> QED BY <3>1, <3>2, <3>4
    <2>6. CallsInv'
      BY <2>5 DEF CallsInv
    <2> QED BY <2>2, <2>4, <2>6 DEF DedupInv
  <1>4. ASSUME NEW rt \in Routes, Abandon(rt) PROVE DedupInv'
    <2>1. calls' = [calls EXCEPT ![rt] = None] /\ UNCHANGED <<now, table, order>>
      BY <1>4 DEF Abandon
    <2>2. TypeOK'
      BY <1>0, <2>1 DEF TypeOK
    <2>3. CallsInv'
      BY <1>0, <2>1 DEF CallsInv, TypeOK
    <2> QED BY <1>0, <2>1, <2>2, <2>3 DEF DedupInv, Agree
  <1>5. CASE Tick
    <2>1. now' = now + 1 /\ now < MaxTime /\ UNCHANGED <<table, order, calls>>
      BY <1>5 DEF Tick
    <2>2. now' \in 0..MaxTime
      BY <1>0, <2>1 DEF TypeOK, DedupAssumption
    <2> QED BY <1>0, <2>1, <2>2 DEF DedupInv, TypeOK, Agree, CallsInv
  <1>6. CASE UNCHANGED vars
    BY <1>0, <1>6 DEF vars, DedupInv, TypeOK, Agree, CallsInv
  <1> QED BY <1>1, <1>2, <1>3, <1>4, <1>5, <1>6 DEF Next

LEMMA DedupInitially ==
    ASSUME DedupAssumption, Init
    PROVE  DedupInv
  <1>1. ToSet(<<>>) = {} /\ <<>> \in Seq(Keys) /\ Len(<<>>) = 0
    BY EmptySeq, ToSetByIndex
  <1>2. table \in [Keys -> Entry \cup {None}] /\ {k \in Keys : table[k] /= None} = {}
    BY DEF Init
  <1>3. Agree(table, order)
    BY <1>1, <1>2 DEF Agree, Init
  <1>4. TypeOK
    BY <1>1, <1>2 DEF TypeOK, Init, DedupAssumption
  <1> QED BY <1>3, <1>4 DEF DedupInv, CallsInv, Init

LEMMA DedupMeans ==
    ASSUME DedupInv
    PROVE  TypeOK /\ ListIsMap /\ OneExecutionPerKey
  <1>1. /\ TypeOK /\ order \in Seq(Keys) /\ ToSet(order) = {k \in Keys : table[k] /= None}
        /\ \A i, j \in 1..Len(order) : order[i] = order[j] => i = j
    BY DEF DedupInv, Agree
  <1>2. /\ ToSet(order) = {order[i] : i \in 1..Len(order)}
        /\ Len(order) = Cardinality(ToSet(order))
    BY <1>1, ToSetByIndex, DistinctLength
  <1>3. OneExecutionPerKey
    BY DEF DedupInv, CallsInv, OneExecutionPerKey
  <1> QED BY <1>1, <1>2, <1>3 DEF ListIsMap

LEMMA WordFacts ==
    ASSUME NEW k \in Keys
    PROVE  /\ Words[k] = Word(table[k])
           /\ Words[k] = "inflight" <=> table[k] /= None /\ InFlight(table, k)
           /\ (table[k] /= None /\ ~InFlight(table, k)) => Words[k] \in {"settled", "failed"}
  BY DEF Words, Word, InFlight

\* Every step of the table is a step of the memory of keys, or none.
LEMMA MemoryStep ==
    ASSUME DedupAssumption, DedupInv, [Next]_vars
    PROVE  \/ \E k \in Keys :
                \/ /\ Words[k] /= "inflight"
                   /\ \E F \in SUBSET ({j \in Keys : Words[j] \in {"settled", "failed"}} \ {k}) :
                        Words' = [j \in Keys |-> IF j = k THEN "inflight"
                                                 ELSE IF j \in F THEN "none" ELSE Words[j]]
                \/ /\ k \in {j \in Keys : Words[j] \in {"settled", "failed"}}
                   /\ Words' = [Words EXCEPT ![k] = "none"]
                \/ \E outcome \in {"settled", "failed"} :
                     /\ Words[k] = "inflight"
                     /\ Words' = [Words EXCEPT ![k] = outcome]
           \/ Words' = Words
  <1>0. table \in [Keys -> Entry \cup {None}] /\ DOMAIN Words = Keys
    BY DEF DedupInv, TypeOK, Words
  <1>1. ASSUME NEW k \in Keys, NEW rt \in Routes, Open(k, rt)
        PROVE  /\ Words[k] /= "inflight"
               /\ \E F \in SUBSET ({j \in Keys : Words[j] \in {"settled", "failed"}} \ {k}) :
                    Words' = [j \in Keys |-> IF j = k THEN "inflight"
                                             ELSE IF j \in F THEN "none" ELSE Words[j]]
    <2>1. /\ table'[k] = [route |-> rt, result |-> FALSE, expires |-> 0]
          /\ table[k] /= None => ~InFlight(table, k)
      BY <1>1, OpenEffect
    <2>2. PICK F \in SUBSET (Keys \ {k}) :
            /\ \A j \in F : table[j] /= None /\ ~InFlight(table, j)
            /\ table' = Forgetting(table, k, F, table'[k])
      BY <1>1, OpenEffect
    <2>3. F \in SUBSET ({j \in Keys : Words[j] \in {"settled", "failed"}} \ {k})
      BY <2>2, WordFacts
    <2>4. Word(table'[k]) = "inflight"
      <3>1. table'[k] \in Entry
        BY <2>1 DEF Entry, DedupAssumption
      <3>2. table'[k] # None /\ rt # None
        BY <3>1 DEF DedupAssumption
      <3>3. table'[k].route = rt
        BY <2>1
      <3> QED BY <3>2, <3>3 DEF Word
    <2>5. ASSUME NEW j \in Keys
          PROVE  Word(table'[j]) = IF j = k THEN "inflight"
                                   ELSE IF j \in F THEN "none" ELSE Words[j]
      <3>1. CASE j = k
        BY <2>4, <3>1
      <3>2. CASE j # k /\ j \in F
        <4>1. table'[j] = None
          BY <2>2, <3>2 DEF Forgetting
        <4> QED BY <3>2, <4>1 DEF Word
      <3>3. CASE j # k /\ j \notin F
        <4>1. table'[j] = table[j]
          BY <2>2, <3>3 DEF Forgetting
        <4> QED BY <3>3, <4>1, WordFacts
      <3> QED BY <3>1, <3>2, <3>3
    <2>6. Words' = [j \in Keys |-> IF j = k THEN "inflight"
                                   ELSE IF j \in F THEN "none" ELSE Words[j]]
      <3>1. Words' = [j \in Keys |-> Word(table'[j])]
        BY DEF Words, Word
      <3> QED BY <2>5, <3>1
    <2>7. Words[k] /= "inflight"
      BY <2>1, WordFacts
    <2> QED BY <2>3, <2>6, <2>7
  <1>2. ASSUME NEW k \in Keys, OpenUnroutable(k)
        PROVE  /\ k \in {j \in Keys : Words[j] \in {"settled", "failed"}}
               /\ Words' = [Words EXCEPT ![k] = "none"]
    <2>1. table' = [table EXCEPT ![k] = None] /\ table[k] /= None /\ ~InFlight(table, k)
      BY <1>2, UnroutableEffect
    <2>2. \A j \in Keys : Word(table'[j]) = IF j = k THEN "none" ELSE Words[j]
      BY <1>0, <2>1 DEF Word, Words
    <2>3. Words' = [j \in Keys |-> Word(table'[j])]
      BY DEF Words, Word
    <2> QED BY <1>0, <2>1, <2>2, <2>3, WordFacts
  <1>3. ASSUME NEW rt \in Routes, NEW result \in BOOLEAN, Conclude(rt, result)
        PROVE  \E k \in Keys : \E outcome \in {"settled", "failed"} :
                 /\ Words[k] = "inflight"
                 /\ Words' = [Words EXCEPT ![k] = outcome]
    <2> DEFINE done == [route |-> None, result |-> result, expires |-> now + TTL]
               outcome == IF result THEN "settled" ELSE "failed"
    <2>1. PICK k \in Keys : k = calls[rt]
      BY <1>3, ConcludeEffect
    <2>2. table' = [table EXCEPT ![k] = done] /\ table[k] # None /\ table[k].route = rt
      BY <1>3, <2>1, ConcludeEffect
    <2>3. Words[k] = "inflight"
      BY <2>2, WordFacts DEF InFlight, DedupAssumption
    <2>4. Word(done) = outcome
      <3>1. now + TTL \in 0..(MaxTime + TTL)
        BY DEF DedupInv, TypeOK, DedupAssumption
      <3>2. done \in Entry
        BY <3>1 DEF Entry
      <3>3. done # None
        BY <3>2 DEF DedupAssumption
      <3> QED BY <3>3 DEF Word
    <2>5. Words' = [j \in Keys |-> Word(table'[j])]
      BY DEF Words, Word
    <2> HIDE DEF done, outcome
    <2>6. \A j \in Keys : Word(table'[j]) = IF j = k THEN outcome ELSE Words[j]
      BY <1>0, <2>2, <2>4, WordFacts
    <2>7. Words' = [Words EXCEPT ![k] = outcome]
      BY <1>0, <2>5, <2>6
    <2>8. outcome \in {"settled", "failed"}
      BY DEF outcome
    <2> QED BY <2>3, <2>7, <2>8
  <1>4. ASSUME (\E rt \in Routes : Abandon(rt)) \/ Tick \/ UNCHANGED vars PROVE Words' = Words
    <2>1. UNCHANGED table
      BY <1>4 DEF Abandon, Tick, vars
    <2> QED BY <2>1 DEF Words, Word
  <1> QED BY <1>1, <1>2, <1>3, <1>4 DEF Next

-------------------------------------------------------------------------------
(* Theorems.                                                               *)

\* The list of the idempotency table and its map agree, whatever dedupLookup,
\* dedupInsert and dedupRemove take out of them, and in which order.
THEOREM ListCorrect ==
    ASSUME DedupAssumption
    PROVE  Spec => [](TypeOK /\ ListIsMap)
  <1>1. Init => DedupInv
    BY DedupInitially
  <1>2. DedupInv /\ [Next]_vars => DedupInv'
    BY DedupInvStep
  <1>3. DedupInv => TypeOK /\ ListIsMap
    BY DedupMeans
  <1> QED BY <1>1, <1>2, <1>3, PTL DEF Spec

\* Two calls never execute one key at the same time, however small the table and
\* however long the calls.
THEOREM OneExecution ==
    ASSUME DedupAssumption
    PROVE  Spec => []OneExecutionPerKey
  <1>1. Init => DedupInv
    BY DedupInitially
  <1>2. DedupInv /\ [Next]_vars => DedupInv'
    BY DedupInvStep
  <1>3. DedupInv => OneExecutionPerKey
    BY DedupMeans
  <1> QED BY <1>1, <1>2, <1>3, PTL DEF Spec

\* The table implements the memory of keys that the routing core relies on, and
\* exceeds its capacity only behind an entry that is in flight.
THEOREM KeysKept ==
    ASSUME DedupAssumption
    PROVE  Spec => KeepsKeysInFlight
  <1> DEFINE Grows == (\E rt \in Routes : calls[rt] = None /\ calls'[rt] /= None)
                        => Len(order') <= Capacity \/ InFlight(table', order'[1])
  <1>1. Init => DedupInv
    BY DedupInitially
  <1>2. DedupInv /\ [Next]_vars => DedupInv'
    BY DedupInvStep
  <1>3. Init => Memory!Init
    BY DEF Init, Memory!Init, Words, Word
  <1>4. ASSUME DedupInv, [Next]_vars PROVE [Memory!Next]_Words
    BY <1>4, MemoryStep
       DEF Memory!Next, Memory!Begin, Memory!Forget, Memory!Conclude, Memory!Forgettable
  <1>5. ASSUME DedupInv, [Next]_vars PROVE [Grows]_vars
    <2> SUFFICES ASSUME NEW rt \in Routes, calls[rt] = None, calls'[rt] /= None
                 PROVE  Len(order') <= Capacity \/ InFlight(table', order'[1])
      OBVIOUS
    <2>0. calls \in [Routes -> Keys \cup {None}]
      BY <1>5 DEF DedupInv, TypeOK
    <2>1. ~((\E k \in Keys : OpenUnroutable(k)) \/ Tick \/ UNCHANGED vars)
      BY DEF OpenUnroutable, Tick, vars
    <2>2. ~(\E q \in Routes : Abandon(q) \/ \E result \in BOOLEAN : Conclude(q, result))
      BY <2>0 DEF Abandon, Conclude
    <2>3. PICK k \in Keys, q \in Routes : Open(k, q)
      BY <1>5, <2>1, <2>2 DEF Next
    <2> QED BY <1>5, <2>3, OpenEffect
  <1> QED BY <1>1, <1>2, <1>3, <1>4, <1>5, PTL
          DEF Spec, KeepsKeysInFlight, Memory!Spec, GrowsOnlyBehindInFlight

-------------------------------------------------------------------------------
(* router.go: pools and registrations.                                     *)

IsPool(pool) ==
    /\ pool = [targeted |-> pool.targeted, methods |-> pool.methods, contract |-> pool.contract,
               width |-> pool.width, instances |-> pool.instances]
    /\ DOMAIN pool.methods \subseteq Methods
    /\ pool.contract \subseteq Methods

\* What a connection has registered passed the checks, and is forgotten with it.
PeersInv ==
    /\ DOMAIN peer = Peers
    /\ \A p \in Peers :
         /\ peer[p] = [state |-> peer[p].state, services |-> peer[p].services]
         /\ peer[p].state \in {"out", "in", "draining"}
         /\ IF peer[p].state = "out" THEN peer[p].services = <<>>
            ELSE peer[p].services \in Registrations /\ Pools!WellFormed(peer[p].services)

PoolsInv ==
    /\ DOMAIN services \subseteq Services \ Reserved
    /\ \A s \in DOMAIN services : IsPool(services[s])

\* What a pool takes a method to mean is what each of its instances means by it.
MeaningInv ==
    \A s \in DOMAIN services :
        Pools!Apart(s) => \A p \in services[s].instances : \A i \in Pools!Named(p, s) :
            \A m \in DOMAIN peer[p].services[i].methods :
                services[s].methods[m] = peer[p].services[i].methods[m]

RegistryInv == PeersInv /\ PoolsInv /\ Pools!PoolsMirrorInstances /\ Pools!NoMethodLost /\ MeaningInv

-------------------------------------------------------------------------------
LEMMA RegistryInitially == ASSUME Pools!Init PROVE RegistryInv
  <1>1. DOMAIN services = {}
    BY DEF Pools!Init
  <1>2. PeersInv
    BY DEF Pools!Init, PeersInv, Pools!Out
  <1>3. \A p \in Peers : peer[p].state = "out"
    BY DEF Pools!Init, Pools!Out
  <1> QED BY <1>1, <1>2, <1>3
          DEF RegistryInv, PoolsInv, Pools!PoolsMirrorInstances, Pools!NoMethodLost, MeaningInv

\* The entry that Register finds for a service is the only one of that name.
LEMMA EntryOf ==
    ASSUME NEW reg, Pools!WellFormed(reg), NEW i \in DOMAIN reg
    PROVE  (CHOOSE j \in DOMAIN reg : reg[j].name = reg[i].name) = i
  BY DEF Pools!WellFormed

\* What a registration makes of the pool of one of its services.
LEMMA JoinedPool ==
    ASSUME NEW pool, IsPool(pool), NEW entry, DOMAIN entry.methods \subseteq Methods, NEW p
    PROVE  /\ IsPool(Pools!Joined(pool, entry, p))
           /\ Pools!Joined(pool, entry, p).instances = pool.instances \cup {p}
           /\ DOMAIN Pools!Joined(pool, entry, p).methods = DOMAIN pool.methods \cup DOMAIN entry.methods
           /\ \A m \in DOMAIN entry.methods : Pools!Joined(pool, entry, p).methods[m] = entry.methods[m]
           /\ \A m \in DOMAIN pool.methods \ DOMAIN entry.methods :
                  Pools!Joined(pool, entry, p).methods[m] = pool.methods[m]
  <1> DEFINE J == Pools!Joined(pool, entry, p)
             U == Pools!Union(pool.methods, entry.methods)
  <1>0. pool = [targeted |-> pool.targeted, methods |-> pool.methods, contract |-> pool.contract,
                width |-> pool.width, instances |-> pool.instances]
    BY DEF IsPool
  <1> DEFINE C == IF Pools!Wider(pool, entry) THEN DOMAIN entry.methods ELSE pool.contract
             N == IF Pools!Wider(pool, entry) THEN Pools!Cardinality(DOMAIN entry.methods) ELSE pool.width
  <1>1. J = [targeted |-> pool.targeted, methods |-> U, contract |-> C,
             width |-> N, instances |-> pool.instances \cup {p}]
    <2>1. J = [pool EXCEPT !.methods = U, !.contract = C, !.width = N,
                           !.instances = pool.instances \cup {p}]
      BY Zenon DEF Pools!Joined
    <2> HIDE DEF J, U, C, N
    <2> QED BY <2>1, <1>0
  <1>2. C \in {DOMAIN entry.methods, pool.contract}
    OBVIOUS
  <1>3. /\ DOMAIN U = DOMAIN pool.methods \cup DOMAIN entry.methods
        /\ \A m \in DOMAIN entry.methods : U[m] = entry.methods[m]
        /\ \A m \in DOMAIN pool.methods \ DOMAIN entry.methods : U[m] = pool.methods[m]
    BY DEF Pools!Union
  <1>4. J.methods = U /\ J.instances = pool.instances \cup {p}
    BY <1>1
  <1> HIDE DEF J, U, C, N
  <1>5. IsPool(J)
    BY <1>1, <1>2, <1>3, <1>4 DEF IsPool
  <1> QED BY <1>3, <1>4, <1>5 DEF J

LEMMA NewPoolIsPool == ASSUME NEW entry PROVE IsPool(Pools!NewPool(entry))
  BY DEF IsPool, Pools!NewPool

LEMMA RegisterEffect ==
    ASSUME RegistryInv, NEW p \in Peers, NEW reg \in Registrations, Pools!Register(p, reg)
    PROVE  /\ DOMAIN services' = DOMAIN services \cup {reg[i].name : i \in DOMAIN reg}
           /\ \A s \in DOMAIN services :
                  s \notin {reg[i].name : i \in DOMAIN reg} => services'[s] = services[s]
           /\ \A i \in DOMAIN reg :
                  services'[reg[i].name] =
                      Pools!Joined(IF reg[i].name \in DOMAIN services THEN services[reg[i].name]
                             ELSE Pools!NewPool(reg[i]), reg[i], p)
  <1> DEFINE pool(s, entry) == IF s \in DOMAIN services THEN services[s] ELSE Pools!NewPool(entry)
             entryOf(s) == reg[CHOOSE j \in DOMAIN reg : reg[j].name = s]
  <1>1. services' = [s \in DOMAIN services \cup {reg[i].name : i \in DOMAIN reg} |->
                        IF \E i \in DOMAIN reg : reg[i].name = s
                        THEN Pools!Joined(pool(s, entryOf(s)), entryOf(s), p)
                        ELSE services[s]]
    BY DEF Pools!Register
  <1>2. \A i \in DOMAIN reg : entryOf(reg[i].name) = reg[i]
    BY EntryOf DEF Pools!Register
  <1> HIDE DEF pool, entryOf
  <1>3. \A i \in DOMAIN reg : services'[reg[i].name] = Pools!Joined(pool(reg[i].name, reg[i]), reg[i], p)
    BY <1>1, <1>2
  <1> QED BY <1>1, <1>3 DEF pool

LEMMA GreatestExists ==
    ASSUME NEW n \in Nat, NEW S \in SUBSET (0 .. n), S # {}
    PROVE  \E x \in S : \A y \in S : y <= x
  <1> DEFINE T == {n - x : x \in S}
  <1>1. T \in SUBSET Nat /\ T # {}
    <2>1. \A x \in S : n - x \in Nat
      OBVIOUS
    <2>2. \E x : x \in S
      OBVIOUS
    <2> QED BY <2>1, <2>2
  <1>2. \A y \in S : n - y \in T
    OBVIOUS
  <1>3. \A t \in T : \E x \in S : t = n - x
    OBVIOUS
  <1> HIDE DEF T
  <1>4. PICK t \in T : \A u \in T : t <= u
    BY <1>1, LeastExists
  <1>5. PICK x \in S : t = n - x
    BY <1>3
  <1>6. \A y \in S : y <= x
    BY <1>2, <1>4, <1>5
  <1> QED BY <1>6

\* Of the services that are walked and have a method, one comes last.
LEMMA LastIsThere ==
    ASSUME Pools!RegistryAssumption, PeersInv, NEW I \in SUBSET Peers, NEW m,
           NEW c \in Pools!Walked(I), m \in DOMAIN peer[c[1]].services[c[2]].methods
    PROVE  /\ Pools!LastWith(Pools!Walked(I), m) \in Pools!Walked(I)
           /\ m \in DOMAIN peer[Pools!LastWith(Pools!Walked(I), m)[1]].services[Pools!LastWith(Pools!Walked(I), m)[2]].methods
  <1> DEFINE has(p, i) == m \in DOMAIN peer[p].services[i].methods
             S == {p \in I : \E i \in DOMAIN peer[p].services : has(p, i)}
  <1>1. \A a \in Pools!Walked(I) : a = <<a[1], a[2]>> /\ a[1] \in I /\ a[2] \in DOMAIN peer[a[1]].services
    BY DEF Pools!Walked
  <1>2. \A p \in I : \A i \in DOMAIN peer[p].services : <<p, i>> \in Pools!Walked(I)
    BY DEF Pools!Walked
  <1>3. \E x \in S : \A y \in S : y <= x
    <2>1. PICK n \in Nat : Peers \subseteq 0 .. n
      BY DEF Pools!RegistryAssumption
    <2>2. S \in SUBSET (0 .. n) /\ S # {}
      BY <2>1, <1>1
    <2> HIDE DEF S
    <2> QED BY <2>2, GreatestExists
  <1>4. PICK p \in S : \A y \in S : y <= p
    BY <1>3
  <1>p. p \in I
    OBVIOUS
  <1> DEFINE T == {i \in DOMAIN peer[p].services : has(p, i)}
  <1>5. PICK k \in Nat : DOMAIN peer[p].services = 1 .. k
    <2>1. peer[p].services \in Registrations \/ peer[p].services = <<>>
      BY <1>p DEF PeersInv
    <2>2. DOMAIN <<>> = 1 .. 0
      OBVIOUS
    <2> QED BY <2>1, <2>2 DEF Pools!RegistryAssumption
  <1>6. \E x \in T : \A y \in T : y <= x
    <2>1. T \in SUBSET (0 .. k) /\ T # {}
      BY <1>5
    <2> HIDE DEF T
    <2> QED BY <2>1, GreatestExists
  <1>7. PICK i \in T : \A y \in T : y <= i
    BY <1>6
  <1> DEFINE last(a) == /\ m \in DOMAIN peer[a[1]].services[a[2]].methods
                        /\ \A b \in Pools!Walked(I) :
                             Pools!After(b, a) => m \notin DOMAIN peer[b[1]].services[b[2]].methods
  <1>8. <<p, i>> \in Pools!Walked(I)
    BY <1>2, <1>p
  <1>9. ASSUME NEW b \in Pools!Walked(I), Pools!After(b, <<p, i>>), has(b[1], b[2]) PROVE FALSE
    <2>1. b[1] \in S
      BY <1>1, <1>9
    <2>2. b[1] > p \/ (b[1] = p /\ b[2] > i)
      BY <1>9 DEF Pools!After
    <2>3. p \in Int /\ b[1] \in Int
      BY <1>p, <1>1 DEF Pools!RegistryAssumption
    <2>4. b[1] <= p
      BY <2>1, <1>4
    <2>5. b[1] = p /\ b[2] > i
      BY <2>2, <2>3, <2>4
    <2>6. b[2] \in T /\ b[2] \in Int /\ i \in Int
      BY <2>5, <1>1, <1>9, <1>5
    <2> QED BY <2>5, <2>6, <1>7
  <1>10. last(<<p, i>>)
    BY <1>9
  <1>11. Pools!LastWith(Pools!Walked(I), m) = CHOOSE a \in Pools!Walked(I) : last(a)
    BY Zenon DEF Pools!LastWith
  <1> HIDE DEF last
  <1>12. Pools!LastWith(Pools!Walked(I), m) \in Pools!Walked(I) /\ last(Pools!LastWith(Pools!Walked(I), m))
    BY <1>8, <1>10, <1>11
  <1> QED BY <1>12 DEF last

\* What leavePools makes of the pools.
LEMMA LeaveEffect ==
    ASSUME Pools!RegistryAssumption, RegistryInv, NEW p \in Peers, Pools!leavePools(p)
    PROVE  /\ DOMAIN services' = {s \in DOMAIN services : ~Pools!Emptied(p, s)}
           /\ \A s \in DOMAIN services' :
                /\ IsPool(services'[s])
                /\ services'[s].instances = services[s].instances \ {p}
                /\ \A q \in services[s].instances \ {p} : \A i \in Pools!Named(q, s) :
                     DOMAIN peer[q].services[i].methods \subseteq DOMAIN services'[s].methods
                /\ Pools!Apart(s) =>
                     \A q \in services[s].instances \ {p} : \A i \in Pools!Named(q, s) :
                         \A m \in DOMAIN peer[q].services[i].methods :
                             services'[s].methods[m] = peer[q].services[i].methods[m]
  <1>1. services' = [s \in {n \in DOMAIN services : ~Pools!Emptied(p, n)} |->
                       IF Pools!Offers(p, s)
                       THEN [services[s] EXCEPT
                               !.instances = services[s].instances \ {p},
                               !.methods = Pools!rebuildMethods(services[s].instances \ {p})]
                       ELSE services[s]]
    BY DEF Pools!leavePools
  <1>2. DOMAIN services' = {s \in DOMAIN services : ~Pools!Emptied(p, s)}
    BY <1>1
  <1>3. ASSUME NEW s \in DOMAIN services', ~Pools!Offers(p, s)
        PROVE  services'[s] = services[s] /\ services[s].instances \ {p} = services[s].instances
    BY <1>1, <1>3 DEF RegistryInv, Pools!PoolsMirrorInstances
  <1>4. ASSUME NEW s \in DOMAIN services', Pools!Offers(p, s)
        PROVE  services'[s] = [targeted |-> services[s].targeted,
                               methods |-> Pools!rebuildMethods(services[s].instances \ {p}),
                               contract |-> services[s].contract, width |-> services[s].width,
                               instances |-> services[s].instances \ {p}]
    <2>1. services[s] = [targeted |-> services[s].targeted, methods |-> services[s].methods,
                         contract |-> services[s].contract, width |-> services[s].width,
                         instances |-> services[s].instances]
      BY <1>2 DEF RegistryInv, PoolsInv, IsPool
    <2>2. services'[s] = [services[s] EXCEPT
                               !.instances = services[s].instances \ {p},
                               !.methods = Pools!rebuildMethods(services[s].instances \ {p})]
      BY <1>1, <1>4
    <2> QED BY <2>1, <2>2
  <1>5. ASSUME NEW s \in DOMAIN services',
               NEW q \in services[s].instances \ {p}, NEW i \in Pools!Named(q, s)
        PROVE  /\ s \in DOMAIN services /\ q \in Peers /\ i \in DOMAIN peer[q].services
               /\ peer[q].services[i].name = s
               /\ services[s].instances \in SUBSET Peers
               /\ peer[q].state = "in"
    BY <1>2, <1>5 DEF RegistryInv, Pools!PoolsMirrorInstances, Pools!Named
  <1>6. ASSUME NEW s \in DOMAIN services', ~Pools!Offers(p, s),
               NEW q \in services[s].instances \ {p}, NEW i \in Pools!Named(q, s),
               NEW m \in DOMAIN peer[q].services[i].methods
        PROVE  /\ m \in DOMAIN services'[s].methods
               /\ Pools!Apart(s) => services'[s].methods[m] = peer[q].services[i].methods[m]
    <2>1. m \in Methods
      BY <1>5, <1>6 DEF RegistryInv, PeersInv, Pools!RegistryAssumption
    <2>2. Pools!serves(q, s, m)
      BY <1>6 DEF Pools!serves
    <2>3. m \in DOMAIN services[s].methods
      BY <1>5, <1>6, <2>1, <2>2 DEF RegistryInv, Pools!NoMethodLost
    <2>4. Pools!Apart(s) => services[s].methods[m] = peer[q].services[i].methods[m]
      BY <1>5, <1>6 DEF RegistryInv, MeaningInv
    <2> QED BY <2>3, <2>4, <1>3, <1>6
  <1>7. ASSUME NEW s \in DOMAIN services', Pools!Offers(p, s),
               NEW q \in services[s].instances \ {p}, NEW i \in Pools!Named(q, s),
               NEW m \in DOMAIN peer[q].services[i].methods
        PROVE  /\ m \in DOMAIN services'[s].methods
               /\ Pools!Apart(s) => services'[s].methods[m] = peer[q].services[i].methods[m]
    <2> DEFINE I == services[s].instances \ {p}
               W == Pools!Walked(I)
               a == Pools!LastWith(W, m)
               names == UNION {DOMAIN peer[b[1]].services[b[2]].methods : b \in W}
    <2>0. services'[s].methods = Pools!rebuildMethods(I)
      BY <1>4, <1>7
    <2>1. I \in SUBSET Peers /\ q \in I /\ i \in DOMAIN peer[q].services
      BY <1>5, <1>7
    <2>2. <<q, i>> \in W
      BY <2>1 DEF Pools!Walked
    <2>3. m \in names
      BY <2>2, <1>7
    <2>4. Pools!rebuildMethods(I) = [n \in names |->
             peer[Pools!LastWith(W, n)[1]].services[Pools!LastWith(W, n)[2]].methods[n]]
      BY DEF Pools!rebuildMethods
    <2>5. /\ m \in DOMAIN services'[s].methods
          /\ services'[s].methods[m] = peer[a[1]].services[a[2]].methods[m]
      BY <2>0, <2>3, <2>4
    <2>6. a \in W /\ m \in DOMAIN peer[a[1]].services[a[2]].methods
      <3> HIDE DEF I
      <3> QED BY <2>1, <2>2, <1>7, LastIsThere DEF RegistryInv
    <2> HIDE DEF I, a, names
    <2>7. a[1] \in I /\ a[2] \in DOMAIN peer[a[1]].services
      BY <2>6 DEF Pools!Walked
    <2> HIDE DEF W
    <2>8. ASSUME Pools!Apart(s) PROVE services'[s].methods[m] = peer[q].services[i].methods[m]
      <3>1. CASE peer[a[1]].services[a[2]].name = s
        <4>1. a[1] \in services[s].instances /\ a[2] \in Pools!Named(a[1], s) /\ s \in DOMAIN services
          BY <3>1, <2>7, <1>5, <1>7 DEF Pools!Named, I
        <4>2. services[s].methods[m] = peer[a[1]].services[a[2]].methods[m]
          BY <4>1, <2>6, <2>8 DEF RegistryInv, MeaningInv
        <4>3. services[s].methods[m] = peer[q].services[i].methods[m]
          BY <4>1, <1>7, <2>8 DEF RegistryInv, MeaningInv
        <4> QED BY <4>2, <4>3, <2>5
      <3>2. CASE peer[a[1]].services[a[2]].name # s
        <4>1. peer[a[1]].state = "in" /\ a[1] \in Peers
          BY <2>7, <1>5, <1>7 DEF I, RegistryInv, Pools!PoolsMirrorInstances
        <4>2. peer[a[1]].services \in Registrations /\ peer[q].services \in Registrations
          BY <4>1, <1>5, <1>7 DEF RegistryInv, PeersInv
        <4>3. peer[q].services[i].name = s /\ i \in DOMAIN peer[q].services
          BY <1>5, <1>7
        <4>4. PICK k \in DOMAIN peer[a[1]].services : peer[a[1]].services[k].name = s
          BY <2>7, <1>5, <1>7 DEF I, RegistryInv, Pools!PoolsMirrorInstances, Pools!Offers, Pools!Named
        <4>5. peer[a[1]].services \in Pools!Offering(s) /\ peer[q].services \in Pools!Offering(s)
          BY <4>2, <4>3, <4>4 DEF Pools!Offering
        <4> QED BY <3>2, <4>3, <4>5, <2>5, <2>6, <2>7, <2>8, <1>7 DEF Pools!Apart
      <3> QED BY <3>1, <3>2
    <2> QED BY <2>5, <2>8
  <1>8. ASSUME NEW s \in DOMAIN services' PROVE IsPool(services'[s])
    <2>1. CASE ~Pools!Offers(p, s)
      BY <2>1, <1>2, <1>3 DEF RegistryInv, PoolsInv
    <2>2. CASE Pools!Offers(p, s)
      <3> DEFINE I == services[s].instances \ {p}
      <3>1. I \in SUBSET Peers /\ services[s].contract \subseteq Methods
        BY <1>2 DEF RegistryInv, Pools!PoolsMirrorInstances, PoolsInv, IsPool
      <3> HIDE DEF I
      <3>2. DOMAIN Pools!rebuildMethods(I) = UNION {DOMAIN peer[b[1]].services[b[2]].methods : b \in Pools!Walked(I)}
        BY DEF Pools!rebuildMethods
      <3>3. \A b \in Pools!Walked(I) : DOMAIN peer[b[1]].services[b[2]].methods \subseteq Methods
        <4> TAKE b \in Pools!Walked(I)
        <4>1. b[1] \in Peers /\ b[2] \in DOMAIN peer[b[1]].services
          BY <3>1 DEF Pools!Walked
        <4>2. peer[b[1]].services \in Registrations
          BY <4>1 DEF RegistryInv, PeersInv
        <4> QED BY <4>1, <4>2 DEF Pools!RegistryAssumption
      <3>4. services'[s] = [targeted |-> services[s].targeted, methods |-> Pools!rebuildMethods(I),
                            contract |-> services[s].contract, width |-> services[s].width,
                            instances |-> I]
        BY <1>4, <2>2 DEF I
      <3>5. DOMAIN Pools!rebuildMethods(I) \subseteq Methods
        BY <3>2, <3>3
      <3> QED BY <3>1, <3>4, <3>5 DEF IsPool
    <2> QED BY <2>1, <2>2
  <1>9. \A s \in DOMAIN services' : services'[s].instances = services[s].instances \ {p}
    <2> TAKE s \in DOMAIN services'
    <2>1. CASE Pools!Offers(p, s)
      <3> DEFINE I == services[s].instances \ {p}
                 M == Pools!rebuildMethods(I)
      <3>1. services'[s] = [targeted |-> services[s].targeted, methods |-> M,
                            contract |-> services[s].contract, width |-> services[s].width,
                            instances |-> I]
        BY <1>4, <2>1
      <3> HIDE DEF I, M
      <3>2. services'[s].instances = I
        BY <3>1
      <3> QED BY <3>2 DEF I
    <2>2. CASE ~Pools!Offers(p, s)
      BY <2>2, <1>3
    <2> QED BY <2>1, <2>2
  <1> QED BY <1>2, <1>6, <1>7, <1>8, <1>9

-------------------------------------------------------------------------------
(* The steps.                                                              *)

\* A peer that registers.
LEMMA RegisterStep ==
    ASSUME Pools!RegistryAssumption, RegistryInv, NEW p \in Peers, NEW reg \in Registrations,
           Pools!Register(p, reg)
    PROVE  RegistryInv'
  <1> DEFINE names == {reg[i].name : i \in DOMAIN reg}
             old(i) == IF reg[i].name \in DOMAIN services THEN services[reg[i].name]
                       ELSE Pools!NewPool(reg[i])
  <1>1. /\ DOMAIN services' = DOMAIN services \cup names
        /\ \A s \in DOMAIN services : s \notin names => services'[s] = services[s]
        /\ \A i \in DOMAIN reg : services'[reg[i].name] = Pools!Joined(old(i), reg[i], p)
    BY RegisterEffect
  <1>2. /\ peer' = [peer EXCEPT ![p] = [state |-> "in", services |-> reg]]
        /\ peer[p].state = "out" /\ Pools!WellFormed(reg) /\ Pools!Compatible(reg)
    BY DEF Pools!Register
  <1>3. DOMAIN peer = Peers
    BY DEF RegistryInv, PeersInv
  <1>4. /\ peer'[p] = [state |-> "in", services |-> reg]
        /\ \A q \in Peers : q # p => peer'[q] = peer[q]
        /\ DOMAIN peer' = Peers
    BY <1>2, <1>3
  <1>5. Pools!WellFormed(reg)'
    BY <1>2 DEF Pools!WellFormed, Pools!NameOK
  <1>6. \A s : names = names /\ (s \in names <=> \E i \in DOMAIN reg : reg[i].name = s)
    OBVIOUS
  <1>7. \A i \in DOMAIN reg : DOMAIN reg[i].methods \subseteq Methods
    BY DEF Pools!RegistryAssumption
  <1>8. \A i \in DOMAIN reg : IsPool(old(i))
    BY NewPoolIsPool DEF RegistryInv, PoolsInv
  <1>9. \A i \in DOMAIN reg :
           /\ IsPool(services'[reg[i].name])
           /\ services'[reg[i].name].instances = old(i).instances \cup {p}
           /\ DOMAIN services'[reg[i].name].methods = DOMAIN old(i).methods \cup DOMAIN reg[i].methods
           /\ \A m \in DOMAIN reg[i].methods : services'[reg[i].name].methods[m] = reg[i].methods[m]
           /\ \A m \in DOMAIN old(i).methods \ DOMAIN reg[i].methods :
                  services'[reg[i].name].methods[m] = old(i).methods[m]
    <2> HIDE DEF old
    <2> TAKE i \in DOMAIN reg
    <2> QED BY <1>1, <1>7, <1>8, JoinedPool
  <1>10. \A i \in DOMAIN reg : old(i).instances = {q \in Peers : peer[q].state = "in" /\ Pools!Offers(q, reg[i].name)}
    <2> TAKE i \in DOMAIN reg
    <2>1. CASE reg[i].name \in DOMAIN services
      BY <2>1 DEF RegistryInv, Pools!PoolsMirrorInstances
    <2>2. CASE reg[i].name \notin DOMAIN services
      <3>1. reg[i].name \in Services
        BY <1>2 DEF Pools!WellFormed, Pools!NameOK
      <3>2. old(i).instances = {}
        BY <2>2 DEF Pools!NewPool
      <3> QED BY <2>2, <3>1, <3>2 DEF RegistryInv, Pools!PoolsMirrorInstances
    <2> QED BY <2>1, <2>2
  <1>11. \A q \in Peers : \A s : q # p => Pools!Named(q, s)' = Pools!Named(q, s) /\ (Pools!Offers(q, s)' <=> Pools!Offers(q, s))
    BY <1>4 DEF Pools!Named, Pools!Offers
  <1>12. \A s : Pools!Named(p, s)' = {i \in DOMAIN reg : reg[i].name = s}
    BY <1>4 DEF Pools!Named
  <1>13. \A s : Pools!Offers(p, s)' <=> s \in names
    BY <1>12 DEF Pools!Offers
  <1>14. \A s : ~Pools!Offers(p, s)
    BY <1>2 DEF RegistryInv, PeersInv, Pools!Offers, Pools!Named
  <1>15. PeersInv'
    BY <1>4, <1>5, <1>2 DEF RegistryInv, PeersInv
  <1>16. PoolsInv'
    <2>1. names \subseteq Services \ Reserved
      BY <1>2 DEF Pools!WellFormed, Pools!NameOK
    <2>2. \A s \in DOMAIN services' : IsPool(services'[s])
      BY <1>1, <1>9 DEF RegistryInv, PoolsInv
    <2> QED BY <2>1, <2>2, <1>1 DEF RegistryInv, PoolsInv
  <1>17. \A s \in DOMAIN services' :
            services'[s].instances = {q \in Peers : peer'[q].state = "in" /\ Pools!Offers(q, s)'}
    <2> TAKE s \in DOMAIN services'
    <2>1. CASE s \in names
      <3>1. PICK i \in DOMAIN reg : reg[i].name = s
        BY <2>1
      <3>2. services'[s].instances = {q \in Peers : peer[q].state = "in" /\ Pools!Offers(q, s)} \cup {p}
        BY <3>1, <1>9, <1>10
      <3> QED BY <3>2, <2>1, <1>4, <1>11, <1>13, <1>14
    <2>2. CASE s \notin names
      <3>1. services'[s].instances = {q \in Peers : peer[q].state = "in" /\ Pools!Offers(q, s)}
        BY <2>2, <1>1 DEF RegistryInv, Pools!PoolsMirrorInstances
      <3> QED BY <3>1, <2>2, <1>4, <1>11, <1>13, <1>14
    <2> QED BY <2>1, <2>2
  <1>18. Pools!PoolsMirrorInstances'
    <2>1. \A q \in Peers, s \in Services : peer'[q].state = "in" /\ Pools!Offers(q, s)' => s \in DOMAIN services'
      BY <1>1, <1>4, <1>11, <1>13 DEF RegistryInv, Pools!PoolsMirrorInstances
    <2>2. \A s \in DOMAIN services' : services'[s].instances # {}
      <3> TAKE s \in DOMAIN services'
      <3>1. CASE s \in names
        BY <3>1, <1>9
      <3>2. CASE s \notin names
        BY <3>2, <1>1 DEF RegistryInv, Pools!PoolsMirrorInstances
      <3> QED BY <3>1, <3>2
    <2> QED BY <1>17, <2>1, <2>2 DEF Pools!PoolsMirrorInstances
  <1>19. ASSUME NEW s \in DOMAIN services', NEW q \in services'[s].instances,
                NEW j \in Pools!Named(q, s)', NEW m \in DOMAIN peer'[q].services[j].methods
         PROVE  /\ m \in DOMAIN services'[s].methods
                /\ Pools!Apart(s) => services'[s].methods[m] = peer'[q].services[j].methods[m]
    <2>1. CASE q = p
      <3>1. j \in DOMAIN reg /\ reg[j].name = s /\ m \in DOMAIN reg[j].methods
            /\ peer'[q].services[j].methods = reg[j].methods
        BY <2>1, <1>4, <1>12, <1>19
      <3> QED BY <3>1, <1>9
    <2>2. CASE q # p
      <3>1. /\ q \in Peers /\ peer[q].state = "in" /\ Pools!Offers(q, s) /\ peer'[q] = peer[q]
            /\ j \in Pools!Named(q, s) /\ m \in DOMAIN peer[q].services[j].methods
        BY <2>2, <1>4, <1>11, <1>17, <1>19
      <3>2. s \in DOMAIN services /\ q \in services[s].instances
        <4>1. s \in Services
          BY <1>16 DEF PoolsInv
        <4> QED BY <3>1, <4>1 DEF RegistryInv, Pools!PoolsMirrorInstances
      <3>3. m \in DOMAIN services[s].methods
        <4>1. m \in Methods
          BY <3>1 DEF RegistryInv, PeersInv, Pools!RegistryAssumption, Pools!Named
        <4> QED BY <3>1, <3>2, <4>1 DEF RegistryInv, Pools!NoMethodLost, Pools!serves
      <3>4. Pools!Apart(s) => services[s].methods[m] = peer[q].services[j].methods[m]
        BY <3>1, <3>2 DEF RegistryInv, MeaningInv
      <3>5. CASE s \notin names
        BY <3>5, <3>1, <3>2, <3>3, <3>4, <1>1
      <3>6. CASE s \in names
        <4>1. PICK i \in DOMAIN reg : reg[i].name = s
          BY <3>6
        <4>2. old(i) = services[s]
          BY <4>1, <3>2
        <4>3. m \in DOMAIN reg[i].methods => services[s].methods[m] = reg[i].methods[m]
          BY <4>1, <3>2, <3>3, <1>2 DEF Pools!Compatible, Pools!SameShape
        <4> QED BY <4>1, <4>2, <4>3, <3>1, <3>3, <3>4, <1>9
      <3> QED BY <3>5, <3>6
    <2> QED BY <2>1, <2>2
  <1>20. Pools!NoMethodLost' /\ MeaningInv'
    BY <1>19 DEF Pools!NoMethodLost, MeaningInv, Pools!serves
  <1> QED BY <1>15, <1>16, <1>18, <1>20 DEF RegistryInv

\* A peer that drains, or is gone.
LEMMA LeaveStep ==
    ASSUME Pools!RegistryAssumption, RegistryInv, NEW p \in Peers, Pools!leavePools(p),
           DOMAIN peer' = Peers, \A q \in Peers : q # p => peer'[q] = peer[q],
           \/ peer'[p] = Pools!Out
           \/ /\ peer'[p] = [state |-> "draining", services |-> peer[p].services]
              /\ peer[p].state # "out"
    PROVE  RegistryInv'
  <1>1. /\ DOMAIN services' = {s \in DOMAIN services : ~Pools!Emptied(p, s)}
        /\ \A s \in DOMAIN services' :
                /\ IsPool(services'[s])
                /\ services'[s].instances = services[s].instances \ {p}
                /\ \A q \in services[s].instances \ {p} : \A i \in Pools!Named(q, s) :
                     DOMAIN peer[q].services[i].methods \subseteq DOMAIN services'[s].methods
                /\ Pools!Apart(s) =>
                     \A q \in services[s].instances \ {p} : \A i \in Pools!Named(q, s) :
                         \A m \in DOMAIN peer[q].services[i].methods :
                             services'[s].methods[m] = peer[q].services[i].methods[m]
    BY LeaveEffect
  <1>2. \A q \in Peers : \A s : q # p => Pools!Named(q, s)' = Pools!Named(q, s) /\ (Pools!Offers(q, s)' <=> Pools!Offers(q, s))
    BY DEF Pools!Named, Pools!Offers
  <1>3. PeersInv'
    <2>1. peer'[p] = [state |-> peer'[p].state, services |-> peer'[p].services]
      BY DEF Pools!Out
    <2>2. CASE peer'[p] = Pools!Out
      BY <2>2, <2>1 DEF RegistryInv, PeersInv, Pools!Out, Pools!WellFormed, Pools!NameOK
    <2>3. CASE /\ peer'[p] = [state |-> "draining", services |-> peer[p].services]
               /\ peer[p].state # "out"
      BY <2>3, <2>1 DEF RegistryInv, PeersInv, Pools!Out, Pools!WellFormed, Pools!NameOK
    <2> QED BY <2>2, <2>3
  <1>4. PoolsInv'
    BY <1>1 DEF RegistryInv, PoolsInv
  <1>5. peer'[p].state # "in"
    BY DEF Pools!Out
  <1>6. \A s \in DOMAIN services' :
            services'[s].instances = {q \in Peers : peer'[q].state = "in" /\ Pools!Offers(q, s)'}
    <2> TAKE s \in DOMAIN services'
    <2>1. services[s].instances = {q \in Peers : peer[q].state = "in" /\ Pools!Offers(q, s)}
      BY <1>1 DEF RegistryInv, Pools!PoolsMirrorInstances
    <2> QED BY <2>1, <1>1, <1>2, <1>5
  <1>7. Pools!PoolsMirrorInstances'
    <2>1. ASSUME NEW q \in Peers, NEW s \in Services, peer'[q].state = "in", Pools!Offers(q, s)'
          PROVE  s \in DOMAIN services'
      <3>1. q # p /\ peer[q].state = "in" /\ Pools!Offers(q, s)
        BY <2>1, <1>2, <1>5
      <3>2. s \in DOMAIN services /\ q \in services[s].instances
        BY <3>1 DEF RegistryInv, Pools!PoolsMirrorInstances
      <3> QED BY <3>1, <3>2, <1>1 DEF Pools!Emptied
    <2>2. ASSUME NEW s \in DOMAIN services' PROVE services'[s].instances # {}
      <3>1. s \in DOMAIN services /\ ~Pools!Emptied(p, s)
        BY <1>1
      <3>2. services[s].instances # {} /\ (p \in services[s].instances => Pools!Offers(p, s))
        BY <3>1 DEF RegistryInv, Pools!PoolsMirrorInstances
      <3> QED BY <3>1, <3>2, <1>1 DEF Pools!Emptied
    <2> QED BY <1>6, <2>1, <2>2 DEF Pools!PoolsMirrorInstances
  <1>8. ASSUME NEW s \in DOMAIN services', NEW q \in services'[s].instances,
               NEW j \in Pools!Named(q, s)', NEW m \in DOMAIN peer'[q].services[j].methods
        PROVE  /\ m \in DOMAIN services'[s].methods
               /\ Pools!Apart(s) => services'[s].methods[m] = peer'[q].services[j].methods[m]
    <2>1. q \in Peers /\ q # p /\ q \in services[s].instances
      BY <1>1, <1>5, <1>6
    <2>2. peer'[q] = peer[q] /\ j \in Pools!Named(q, s) /\ m \in DOMAIN peer[q].services[j].methods
      BY <2>1, <1>2, <1>8
    <2> QED BY <2>1, <2>2, <1>1
  <1>9. Pools!NoMethodLost' /\ MeaningInv'
    BY <1>8 DEF Pools!NoMethodLost, MeaningInv, Pools!serves
  <1> QED BY <1>3, <1>4, <1>7, <1>9 DEF RegistryInv

LEMMA RegistryStep ==
    ASSUME Pools!RegistryAssumption, RegistryInv, [Pools!Next]_Pools!vars PROVE RegistryInv'
  <1>0. DOMAIN peer = Peers
    BY DEF RegistryInv, PeersInv
  <1>1. ASSUME NEW p \in Peers, Pools!Drain(p) PROVE RegistryInv'
    <2>1. peer[p] = [state |-> peer[p].state, services |-> peer[p].services] /\ peer[p].state = "in"
      BY <1>1 DEF RegistryInv, PeersInv, Pools!Drain
    <2>2. peer' = [peer EXCEPT ![p].state = "draining"] /\ Pools!leavePools(p)
      BY <1>1 DEF Pools!Drain
    <2>3. /\ DOMAIN peer' = Peers
          /\ \A q \in Peers : q # p => peer'[q] = peer[q]
          /\ peer'[p] = [state |-> "draining", services |-> peer[p].services]
      BY <2>1, <2>2, <1>0
    <2> QED BY <2>1, <2>2, <2>3, LeaveStep
  <1>2. ASSUME NEW p \in Peers, Pools!RemovePeer(p) PROVE RegistryInv'
    <2>1. peer' = [peer EXCEPT ![p] = Pools!Out] /\ Pools!leavePools(p)
      BY <1>2 DEF Pools!RemovePeer
    <2>2. /\ DOMAIN peer' = Peers
          /\ \A q \in Peers : q # p => peer'[q] = peer[q]
          /\ peer'[p] = Pools!Out
      BY <2>1, <1>0
    <2> QED BY <2>1, <2>2, LeaveStep
  <1>3. ASSUME UNCHANGED Pools!vars PROVE RegistryInv'
    BY <1>3
    DEF Pools!vars, RegistryInv, PeersInv, PoolsInv, Pools!PoolsMirrorInstances,
        Pools!NoMethodLost, MeaningInv, Pools!WellFormed, Pools!NameOK, Pools!Named, Pools!Offers,
        Pools!serves
  <1> QED BY <1>1, <1>2, <1>3, RegisterStep DEF Pools!Next

LEMMA RegistryMeans ==
    ASSUME RegistryInv
    PROVE  Pools!TypeOK /\ Pools!PoolsMirrorInstances /\ Pools!NoMethodLost /\ Pools!SameMeaning /\ Pools!SeesWhatItMayCall
  <1>1. Pools!TypeOK
    BY DEF Pools!TypeOK, RegistryInv, PeersInv, PoolsInv, IsPool, Pools!PoolsMirrorInstances
  <1>2. Pools!SameMeaning
    BY DEF RegistryInv, MeaningInv, Pools!SameMeaning
  <1>3. Pools!SeesWhatItMayCall
    <2> SUFFICES ASSUME NEW u \in Callers, NEW s \in Pools!List(u)
                 PROVE  LET shown == Pools!describeService(u, s)
                        IN  /\ DOMAIN shown.methods # {}
                            /\ \A m \in DOMAIN shown.methods \cup shown.contract : <<s, m>> \in u
                            /\ shown.instances.pool \cap shown.instances.draining = {}
      BY DEF Pools!SeesWhatItMayCall
    <2>1. s \in DOMAIN services /\ Pools!allowsAnyCall(u, s)
      BY DEF Pools!List
    <2>2. DOMAIN Pools!DescribedMethods(u, s) = {n \in DOMAIN services[s].methods : <<s, n>> \in u}
      BY DEF Pools!DescribedMethods
    <2>3. DOMAIN Pools!DescribedMethods(u, s) # {}
      BY <2>1, <2>2 DEF Pools!allowsAnyCall
    <2>4. \A m \in DOMAIN Pools!DescribedMethods(u, s) \cup Pools!visibleContract(u, s) : <<s, m>> \in u
      BY <2>2 DEF Pools!visibleContract
    <2>5. Pools!DescribedInstances(s).pool \cap Pools!DescribedInstances(s).draining = {}
      BY <2>1 DEF Pools!DescribedInstances, RegistryInv, Pools!PoolsMirrorInstances
    <2> QED BY <2>3, <2>4, <2>5 DEF Pools!describeService
  <1> QED BY <1>1, <1>2, <1>3 DEF RegistryInv

-------------------------------------------------------------------------------
(* auth.go: ParseAuth.                                                     *)

\* The rules of an identity can match.
Matching(u) ==
    /\ u.register \subseteq {<<"*">>} \cup {<<s>> : s \in Names}
    /\ u.call.rules \subseteq
         {<<"*">>} \cup {<<s, m>> : s \in Names, m \in Names \cup {"*"}}

AccountIdentities == {users[n] : n \in DOMAIN users}
KeyIdentities == {apiKeys[k] : k \in DOMAIN apiKeys}

\* The identities that entries of the document gave.
Granted ==
    AccountIdentities \cup KeyIdentities
        \cup (IF nobody.call.given THEN {nobody} ELSE {})

UsersInv ==
    \A n \in DOMAIN users :
        /\ users[n].username = n /\ users[n].kind = "account"
        /\ Len(n) = 1 /\ n # Reading!AnonymousUser
        /\ Matching(users[n])

KeysInv ==
    \A k \in DOMAIN apiKeys :
        /\ apiKeys[k].username = <<"api-key", k>> /\ apiKeys[k].kind = "api_key"
        /\ Matching(apiKeys[k])

AnonymousInv ==
    /\ nobody.username = Reading!AnonymousUser /\ nobody.kind = "anonymous"
    /\ nobody.roles = {"client"} /\ nobody.register = {}
    /\ Matching(nobody)
    /\ nobody.call.given \in BOOLEAN
    /\ nobody.call.given <=>
         \E i \in 1 .. Len(doc.users) : i <= read /\ doc.users[i].name = Reading!AnonymousUser

ReadInv ==
    /\ doc \in Documents
    /\ read \in Nat /\ read <= Len(Reading!Entries)
    /\ verdict \in {"reading", "accepted", "refused"}
    /\ verdict = "accepted" => read = Len(Reading!Entries)

\* Every entry read so far gave an identity of its own.
GrantedInv == IsFiniteSet(Granted) /\ Cardinality(Granted) = read

DocumentInv == ReadInv /\ UsersInv /\ KeysInv /\ AnonymousInv /\ GrantedInv

-------------------------------------------------------------------------------
LEMMA DocumentInitially == ASSUME Reading!DocumentsAssumption, Reading!Init PROVE DocumentInv
  <1>1. DOMAIN users = {} /\ DOMAIN apiKeys = {}
    BY DEF Reading!Init
  <1>2. doc \in Documents /\ read = 0 /\ verdict = "reading"
    BY DEF Reading!Init
  <1>3. doc.users \in Seq(Reading!Entered) /\ doc.api_keys \in Seq(Reading!Entered)
    BY <1>2 DEF Reading!DocumentsAssumption
  <1>4. Len(Reading!Entries) \in Nat
    BY <1>3, ConcatProperties, LenProperties DEF Reading!Entries
  <1>5. ReadInv
    BY <1>2, <1>4 DEF ReadInv
  <1>6. /\ nobody.username = Reading!AnonymousUser /\ nobody.kind = "anonymous"
        /\ nobody.roles = {"client"} /\ nobody.register = {}
        /\ nobody.call = Reading!Nil
    BY DEF Reading!Init
  <1>7. nobody.call.given = FALSE /\ nobody.call.rules = {}
    BY <1>6 DEF Reading!Nil
  <1>8. AnonymousInv
    <2>1. Matching(nobody)
      BY <1>6, <1>7 DEF Matching
    <2>2. ~\E i \in 1 .. Len(doc.users) : i <= read /\ doc.users[i].name = Reading!AnonymousUser
      BY <1>2, <1>3, LenProperties
    <2> QED BY <1>6, <1>7, <2>1, <2>2 DEF AnonymousInv
  <1>9. Granted = {}
    BY <1>1, <1>7 DEF Granted, AccountIdentities, KeyIdentities
  <1>10. GrantedInv
    BY <1>2, <1>9, FS_EmptySet DEF GrantedInv
  <1> QED BY <1>1, <1>5, <1>8, <1>10 DEF DocumentInv, UsersInv, KeysInv

\* What the entry being read is.
LEMMA EntryFacts ==
    ASSUME Reading!DocumentsAssumption, ReadInv
    PROVE  /\ doc.users \in Seq(Reading!Entered) /\ doc.api_keys \in Seq(Reading!Entered)
           /\ Len(doc.users) \in Nat /\ Len(doc.users) <= Len(Reading!Entries) /\ Len(Reading!Entries) \in Nat
           /\ Reading!AtUser => /\ read + 1 \in 1 .. Len(doc.users) /\ Reading!Entry = doc.users[read + 1]
                                /\ Reading!Entry \in Reading!Entered
           /\ Reading!AtKey => /\ read >= Len(doc.users) /\ read + 1 \in 1 .. Len(Reading!Entries)
                               /\ Reading!Entry \in Reading!Entered
  <1>1. doc.users \in Seq(Reading!Entered) /\ doc.api_keys \in Seq(Reading!Entered)
    BY DEF Reading!DocumentsAssumption, ReadInv
  <1>2. /\ Len(doc.users) \in Nat /\ Len(doc.api_keys) \in Nat
        /\ Reading!Entries \in Seq(Reading!Entered) /\ Len(Reading!Entries) = Len(doc.users) + Len(doc.api_keys)
        /\ \A i \in 1 .. Len(Reading!Entries) : Reading!Entries[i] =
             IF i <= Len(doc.users) THEN doc.users[i] ELSE doc.api_keys[i - Len(doc.users)]
    <2>1. /\ doc.users \o doc.api_keys \in Seq(Reading!Entered)
          /\ Len(doc.users \o doc.api_keys) = Len(doc.users) + Len(doc.api_keys)
          /\ \A i \in 1 .. Len(doc.users) + Len(doc.api_keys) : (doc.users \o doc.api_keys)[i] =
               IF i <= Len(doc.users) THEN doc.users[i] ELSE doc.api_keys[i - Len(doc.users)]
      BY <1>1, ConcatProperties
    <2>2. Len(doc.users) \in Nat /\ Len(doc.api_keys) \in Nat
      BY <1>1, LenProperties
    <2> QED BY <2>1, <2>2 DEF Reading!Entries
  <1> DEFINE a == Len(doc.users)
             b == Len(doc.api_keys)
             c == Len(Reading!Entries)
             E(i) == Reading!Entries[i]
             D(i) == doc.users[i]
  <1>0. /\ read \in Nat /\ a \in Nat /\ b \in Nat /\ c = a + b
    BY <1>2 DEF ReadInv
  <1>e. \A i \in 1 .. c : i <= a => E(i) = D(i)
    BY <1>2
  <1>f. \A i \in 1 .. c : E(i) \in Reading!Entered
    BY <1>2, ElementOfSeq
  <1>g. Reading!Entry = E(read + 1)
    BY DEF Reading!Entry
  <1>h. Reading!AtUser => read < a
    BY DEF Reading!AtUser
  <1>k. Reading!AtKey => read \in a .. c - 1
    BY DEF Reading!AtKey
  <1>3. SUFFICES /\ a \in Nat /\ a <= c /\ c \in Nat
                 /\ Reading!AtUser => /\ read + 1 \in 1 .. a /\ Reading!Entry = D(read + 1)
                                      /\ Reading!Entry \in Reading!Entered
                 /\ Reading!AtKey => /\ read >= a /\ read + 1 \in 1 .. c /\ Reading!Entry \in Reading!Entered
    BY <1>1
  <1> HIDE DEF a, b, c, D, E
  <1> QED BY <1>0, <1>e, <1>f, <1>g, <1>h, <1>k

\* Permissions that validatePermissions accepts can match.
LEMMA PermissionsMatch ==
    ASSUME NEW e \in Reading!Entered, Reading!validatePermissions(e)
    PROVE  /\ e.register \subseteq {<<"*">>} \cup {<<s>> : s \in Names}
           /\ e.call.rules \subseteq
                {<<"*">>} \cup {<<s, m>> : s \in Names, m \in Names \cup {"*"}}
  <1>1. e.register \subseteq Seq(STRING) /\ e.call.rules \subseteq Seq(STRING)
    BY DEF Reading!Entered, Reading!Rules
  <1>2. ASSUME NEW rule \in e.register PROVE rule \in {<<"*">>} \cup {<<s>> : s \in Names}
    <2>1. Reading!RegisterRuleOK(rule) /\ rule \in Seq(STRING)
      BY <1>1, <1>2 DEF Reading!validatePermissions
    <2>2. CASE rule = <<"*">>
      BY <2>2
    <2>3. CASE Len(rule) = 1 /\ rule[1] \in Names
      <3>1. rule = <<rule[1]>>
        BY <2>1, <2>3
      <3> QED BY <2>3, <3>1
    <2> QED BY <2>1, <2>2, <2>3 DEF Reading!RegisterRuleOK
  <1>3. ASSUME NEW rule \in e.call.rules
        PROVE  rule \in {<<"*">>} \cup {<<s, m>> : s \in Names, m \in Names \cup {"*"}}
    <2>1. Reading!CallRuleOK(rule) /\ rule \in Seq(STRING)
      BY <1>1, <1>3 DEF Reading!validatePermissions
    <2>2. CASE rule = <<"*">>
      BY <2>2
    <2>3. CASE Len(rule) = 2 /\ rule[1] \in Names /\ rule[2] \in Names \cup {"*"}
      <3>1. rule = <<rule[1], rule[2]>>
        BY <2>1, <2>3
      <3> QED BY <2>3, <3>1
    <2> QED BY <2>1, <2>2, <2>3 DEF Reading!CallRuleOK
  <1> QED BY <1>2, <1>3

\* An entry that is accepted gives one identity more.
LEMMA OneMore ==
    ASSUME NEW S, IsFiniteSet(S), Cardinality(S) = read, NEW u, u \notin S, NEW T,
           T = S \cup {u}
    PROVE  IsFiniteSet(T) /\ Cardinality(T) = read + 1
  BY FS_AddElement

LEMMA ReadUserStep ==
    ASSUME Reading!DocumentsAssumption, DocumentInv, Reading!ReadUser PROVE DocumentInv'
  <1> DEFINE n == Reading!Entry.name
             u == Reading!User(n, "account", Reading!Entry)
  <1>0. /\ Reading!AtUser /\ Reading!UserOK /\ n # Reading!AnonymousUser
        /\ users' = [k \in DOMAIN users \cup {n} |->
                        IF k = n THEN Reading!User(k, "account", Reading!Entry) ELSE users[k]]
        /\ read' = read + 1
        /\ doc' = doc /\ apiKeys' = apiKeys /\ nobody' = nobody /\ verdict' = verdict
    BY DEF Reading!ReadUser
  <1>1. /\ read + 1 \in 1 .. Len(doc.users) /\ Reading!Entry = doc.users[read + 1] /\ Reading!Entry \in Reading!Entered
        /\ Len(doc.users) \in Nat /\ Len(doc.users) <= Len(Reading!Entries) /\ Len(Reading!Entries) \in Nat
        /\ read \in Nat /\ verdict = "reading"
    BY <1>0, EntryFacts DEF DocumentInv, ReadInv, Reading!AtUser
  <1>2. Reading!Entries' = Reading!Entries
    BY <1>0 DEF Reading!Entries
  <1>3. ReadInv'
    <2>1. read' \in Nat /\ read' <= Len(Reading!Entries)
      BY <1>0, <1>1
    <2> QED BY <2>1, <1>0, <1>1, <1>2 DEF DocumentInv, ReadInv
  <1>4. Len(n) = 1 /\ n \notin DOMAIN users /\ Reading!validatePermissions(Reading!Entry)
    BY <1>0 DEF Reading!UserOK, Reading!UsernameOK, Reading!TakenUsername
  <1>5. /\ u.username = n /\ u.kind = "account"
        /\ u.register = Reading!Entry.register /\ u.call = Reading!Entry.call
    BY DEF Reading!User
  <1>6. Matching(u)
    BY <1>1, <1>4, <1>5, PermissionsMatch DEF Matching
  <1>7. /\ DOMAIN users' = DOMAIN users \cup {n} /\ users'[n] = u
        /\ \A k \in DOMAIN users : users'[k] = users[k]
    BY <1>0, <1>4
  <1> HIDE DEF u, n
  <1>8. UsersInv'
    BY <1>0, <1>4, <1>5, <1>6, <1>7 DEF DocumentInv, UsersInv, Matching, Reading!AnonymousUser
  <1>9. KeysInv'
    BY <1>0 DEF DocumentInv, KeysInv, Matching
  <1>10. AnonymousInv'
    <2>1. \A i \in 1 .. Len(doc.users) :
             (i <= read /\ doc.users[i].name = Reading!AnonymousUser) <=>
             (i <= read + 1 /\ doc.users[i].name = Reading!AnonymousUser)
      BY <1>0, <1>1 DEF n
    <2> QED BY <1>0, <2>1 DEF DocumentInv, AnonymousInv, Matching, Reading!AnonymousUser
  <1>11. GrantedInv'
    <2>1. Granted' = Granted \cup {u}
      BY <1>0, <1>7 DEF Granted, AccountIdentities, KeyIdentities
    <2>2. u \notin Granted
      <3>1. \A x \in AccountIdentities : x.username \in DOMAIN users
        BY DEF DocumentInv, UsersInv, AccountIdentities
      <3>2. \A x \in KeyIdentities : x.kind = "api_key"
        BY DEF DocumentInv, KeysInv, KeyIdentities
      <3>3. nobody.kind = "anonymous"
        BY DEF DocumentInv, AnonymousInv
      <3>4. u \notin AccountIdentities /\ u \notin KeyIdentities /\ u # nobody
        BY <3>1, <3>2, <3>3, <1>4, <1>5
      <3> QED BY <3>4 DEF Granted
    <2> QED BY <1>0, <2>1, <2>2, OneMore DEF DocumentInv, GrantedInv
  <1> QED BY <1>3, <1>8, <1>9, <1>10, <1>11 DEF DocumentInv

LEMMA ReadKeyStep ==
    ASSUME Reading!DocumentsAssumption, DocumentInv, Reading!ReadKey PROVE DocumentInv'
  <1> DEFINE n == Reading!Entry.name[1]
             u == Reading!User(<<"api-key", n>>, "api_key", Reading!Entry)
  <1>0. /\ Reading!AtKey /\ Reading!KeyOK
        /\ apiKeys' = [k \in DOMAIN apiKeys \cup {n} |->
                        IF k = n THEN Reading!User(<<"api-key", k>>, "api_key", Reading!Entry) ELSE apiKeys[k]]
        /\ read' = read + 1
        /\ doc' = doc /\ users' = users /\ nobody' = nobody /\ verdict' = verdict
    BY DEF Reading!ReadKey
  <1>1. /\ read >= Len(doc.users) /\ read + 1 \in 1 .. Len(Reading!Entries) /\ Reading!Entry \in Reading!Entered
        /\ Len(doc.users) \in Nat /\ Len(Reading!Entries) \in Nat
        /\ read \in Nat /\ verdict = "reading"
    BY <1>0, EntryFacts DEF DocumentInv, ReadInv, Reading!AtKey
  <1>2. Reading!Entries' = Reading!Entries
    BY <1>0 DEF Reading!Entries
  <1>3. ReadInv'
    <2>1. read' \in Nat /\ read' <= Len(Reading!Entries)
      BY <1>0, <1>1
    <2> QED BY <2>1, <1>0, <1>1, <1>2 DEF DocumentInv, ReadInv
  <1>4. n \notin DOMAIN apiKeys /\ Reading!validatePermissions(Reading!Entry)
    BY <1>0 DEF Reading!KeyOK
  <1>5. /\ u.username = <<"api-key", n>> /\ u.kind = "api_key"
        /\ u.register = Reading!Entry.register /\ u.call = Reading!Entry.call
    BY DEF Reading!User
  <1>6. Matching(u)
    BY <1>1, <1>4, <1>5, PermissionsMatch DEF Matching
  <1>7. /\ DOMAIN apiKeys' = DOMAIN apiKeys \cup {n} /\ apiKeys'[n] = u
        /\ \A k \in DOMAIN apiKeys : apiKeys'[k] = apiKeys[k]
    BY <1>0, <1>4
  <1> HIDE DEF u, n
  <1>8. KeysInv'
    <2>1. ASSUME NEW k \in DOMAIN apiKeys'
          PROVE  /\ apiKeys'[k].username = <<"api-key", k>> /\ apiKeys'[k].kind = "api_key"
                 /\ Matching(apiKeys'[k])
      <3>1. CASE k = n
        BY <3>1, <1>5, <1>6, <1>7
      <3>2. CASE k # n
        BY <3>2, <1>7 DEF DocumentInv, KeysInv
      <3> QED BY <3>1, <3>2
    <2> QED BY <2>1 DEF KeysInv, Matching
  <1>9. UsersInv'
    BY <1>0 DEF DocumentInv, UsersInv, Matching, Reading!AnonymousUser
  <1>10. AnonymousInv'
    <2>1. \A i \in 1 .. Len(doc.users) : i <= read /\ i <= read + 1
      BY <1>1
    <2> QED BY <1>0, <2>1 DEF DocumentInv, AnonymousInv, Matching, Reading!AnonymousUser
  <1>11. GrantedInv'
    <2>1. Granted' = Granted \cup {u}
      <3>1. KeyIdentities' = KeyIdentities \cup {u}
        BY <1>7 DEF KeyIdentities
      <3>2. AccountIdentities' = AccountIdentities
        BY <1>0 DEF AccountIdentities
      <3> QED BY <3>1, <3>2, <1>0 DEF Granted
    <2>2. u \notin Granted
      <3>1. \A x \in KeyIdentities : \E k \in DOMAIN apiKeys : x.username = <<"api-key", k>>
        BY DEF DocumentInv, KeysInv, KeyIdentities
      <3>2. \A x \in AccountIdentities : x.kind = "account"
        BY DEF DocumentInv, UsersInv, AccountIdentities
      <3>3. nobody.kind = "anonymous"
        BY DEF DocumentInv, AnonymousInv
      <3>4. u \notin KeyIdentities
        BY <3>1, <1>4, <1>5
      <3>5. u \notin AccountIdentities /\ u # nobody
        BY <3>2, <3>3, <1>5
      <3> QED BY <3>4, <3>5 DEF Granted
    <2> QED BY <1>0, <2>1, <2>2, OneMore DEF DocumentInv, GrantedInv
  <1> QED BY <1>3, <1>8, <1>9, <1>10, <1>11 DEF DocumentInv

LEMMA ReadAnonymousStep ==
    ASSUME Reading!DocumentsAssumption, DocumentInv, Reading!ReadAnonymous PROVE DocumentInv'
  <1>0. /\ Reading!AtUser /\ Reading!UserOK /\ Reading!Entry.name = Reading!AnonymousUser
        /\ nobody' = [Reading!User(Reading!AnonymousUser, "anonymous", Reading!Entry)
                            EXCEPT !.call = Reading!nonNilRules(Reading!Entry.call), !.register = {}]
        /\ read' = read + 1
        /\ doc' = doc /\ apiKeys' = apiKeys /\ users' = users /\ verdict' = verdict
    BY DEF Reading!ReadAnonymous
  <1>1. /\ read + 1 \in 1 .. Len(doc.users) /\ Reading!Entry = doc.users[read + 1] /\ Reading!Entry \in Reading!Entered
        /\ Len(doc.users) \in Nat /\ Len(doc.users) <= Len(Reading!Entries) /\ Len(Reading!Entries) \in Nat
        /\ read \in Nat /\ verdict = "reading"
    BY <1>0, EntryFacts DEF DocumentInv, ReadInv, Reading!AtUser
  <1>2. Reading!Entries' = Reading!Entries
    BY <1>0 DEF Reading!Entries
  <1>3. ReadInv'
    <2>1. read' \in Nat /\ read' <= Len(Reading!Entries)
      BY <1>0, <1>1
    <2> QED BY <2>1, <1>0, <1>1, <1>2 DEF DocumentInv, ReadInv
  <1>4. ~nobody.call.given /\ Reading!validatePermissions(Reading!Entry) /\ Reading!Entry.roles = <<"client">>
    BY <1>0 DEF Reading!UserOK, Reading!TakenUsername, Reading!AnonymousOK
  <1>5. {Reading!Entry.roles[i] : i \in DOMAIN Reading!Entry.roles} = {"client"}
    BY <1>4
  <1>6. /\ nobody'.username = Reading!AnonymousUser /\ nobody'.kind = "anonymous"
        /\ nobody'.roles = {"client"} /\ nobody'.register = {}
        /\ nobody'.call = Reading!nonNilRules(Reading!Entry.call)
    BY <1>0, <1>5 DEF Reading!User
  <1>7. nobody'.call.given = TRUE /\ nobody'.call.rules = Reading!Entry.call.rules
    BY <1>6 DEF Reading!nonNilRules, Reading!Given
  <1>8. Matching(nobody)'
    BY <1>1, <1>4, <1>6, <1>7, PermissionsMatch DEF Matching
  <1>9. UsersInv' /\ KeysInv'
    BY <1>0 DEF DocumentInv, UsersInv, KeysInv, Matching, Reading!AnonymousUser
  <1>10. AnonymousInv'
    <2>1. \E i \in 1 .. Len(doc.users) : i <= read + 1 /\ doc.users[i].name = Reading!AnonymousUser
      BY <1>0, <1>1
    <2>2. nobody'.username = Reading!AnonymousUser' /\ Reading!AnonymousUser' = Reading!AnonymousUser
      BY <1>6 DEF Reading!AnonymousUser
    <2> QED BY <1>0, <1>6, <1>7, <1>8, <2>1, <2>2 DEF AnonymousInv
  <1>11. GrantedInv'
    <2>1. Granted = AccountIdentities \cup KeyIdentities
      BY <1>4 DEF Granted
    <2>2. Granted' = Granted \cup {nobody'}
      BY <1>0, <1>7, <2>1 DEF Granted, AccountIdentities, KeyIdentities
    <2>3. nobody' \notin Granted
      <3>1. \A x \in KeyIdentities : x.kind = "api_key"
        BY DEF DocumentInv, KeysInv, KeyIdentities
      <3>2. \A x \in AccountIdentities : x.kind = "account"
        BY DEF DocumentInv, UsersInv, AccountIdentities
      <3> QED BY <3>1, <3>2, <2>1, <1>6
    <2> QED BY <1>0, <2>2, <2>3, OneMore DEF DocumentInv, GrantedInv
  <1> QED BY <1>3, <1>9, <1>10, <1>11 DEF DocumentInv

LEMMA DocumentStep ==
    ASSUME Reading!DocumentsAssumption, DocumentInv, [Reading!Next]_Reading!vars PROVE DocumentInv'
  <1>1. ASSUME UNCHANGED <<doc, read, users, apiKeys, nobody>>,
               verdict' \in {"reading", "accepted", "refused"},
               verdict' = "accepted" => read = Len(Reading!Entries)
        PROVE  DocumentInv'
    <2>1. ReadInv'
      BY <1>1 DEF DocumentInv, ReadInv, Reading!Entries
    <2>2. UsersInv' /\ KeysInv' /\ AnonymousInv'
      BY <1>1 DEF DocumentInv, UsersInv, KeysInv, AnonymousInv, Matching, Reading!AnonymousUser
    <2>3. GrantedInv'
      BY <1>1 DEF DocumentInv, GrantedInv, Granted, AccountIdentities, KeyIdentities
    <2> QED BY <2>1, <2>2, <2>3 DEF DocumentInv
  <1>2. CASE Reading!RefuseEmpty \/ Reading!RefuseUser \/ Reading!RefuseKey
    BY <1>1, <1>2 DEF Reading!RefuseEmpty, Reading!RefuseUser, Reading!RefuseKey
  <1>3. CASE Reading!Accept
    BY <1>1, <1>3 DEF Reading!Accept
  <1>4. CASE UNCHANGED Reading!vars
    BY <1>1, <1>4 DEF Reading!vars, DocumentInv, ReadInv
  <1> QED BY <1>2, <1>3, <1>4, ReadUserStep, ReadKeyStep, ReadAnonymousStep DEF Reading!Next

LEMMA DocumentMeans ==
    ASSUME Reading!DocumentsAssumption, DocumentInv
    PROVE  /\ Reading!TypeOK /\ Reading!EveryEntryItsIdentity /\ Reading!UsernamesDistinct
           /\ Reading!AnonymousIsAClient /\ Reading!RulesCanMatch
  <1>1. Reading!Identities = AccountIdentities \cup KeyIdentities \cup {nobody}
    BY DEF Reading!Identities, AccountIdentities, KeyIdentities
  <1>2. Len(doc.users) \in Nat /\ Len(doc.users) <= Len(Reading!Entries) /\ Len(Reading!Entries) \in Nat
    BY EntryFacts DEF DocumentInv
  <1>3. Reading!TypeOK
    BY <1>2 DEF Reading!TypeOK, DocumentInv, ReadInv, UsersInv, KeysInv, AnonymousInv
  <1>4. Reading!RulesCanMatch
    BY <1>1 DEF Reading!RulesCanMatch, DocumentInv, UsersInv, KeysInv, AnonymousInv, Matching,
        AccountIdentities, KeyIdentities
  <1>5. Reading!AnonymousIsAClient
    BY DEF Reading!AnonymousIsAClient, DocumentInv, AnonymousInv
  <1>6. /\ \A x \in AccountIdentities : /\ x.username \in DOMAIN users /\ x = users[x.username]
                                        /\ Len(x.username) = 1 /\ x.username # Reading!AnonymousUser
                                        /\ x.kind = "account"
        /\ \A x \in KeyIdentities : /\ \E k \in DOMAIN apiKeys : x.username = <<"api-key", k>> /\ x = apiKeys[k]
                                    /\ Len(x.username) = 2 /\ x.kind = "api_key"
        /\ nobody.username = Reading!AnonymousUser /\ Len(Reading!AnonymousUser) = 1 /\ nobody.kind = "anonymous"
    <2>1. \A n \in DOMAIN users : /\ users[n].username = n /\ Len(n) = 1 /\ n # Reading!AnonymousUser
                                  /\ users[n].kind = "account"
      BY DEF DocumentInv, UsersInv
    <2>2. \A k \in DOMAIN apiKeys : apiKeys[k].username = <<"api-key", k>> /\ apiKeys[k].kind = "api_key"
      BY DEF DocumentInv, KeysInv
    <2>3. \A k \in DOMAIN apiKeys : Len(apiKeys[k].username) = 2
      <3> TAKE k \in DOMAIN apiKeys
      <3>1. Len(<<"api-key", k>>) = 2
        OBVIOUS
      <3> QED BY <3>1, <2>2
    <2>4. \A x \in AccountIdentities : \E n \in DOMAIN users : x = users[n]
      BY DEF AccountIdentities
    <2>5. \A x \in KeyIdentities : \E k \in DOMAIN apiKeys : x = apiKeys[k]
      BY DEF KeyIdentities
    <2>6. nobody.username = Reading!AnonymousUser /\ Len(Reading!AnonymousUser) = 1 /\ nobody.kind = "anonymous"
      BY DEF DocumentInv, AnonymousInv, Reading!AnonymousUser
    <2>7. \A x \in AccountIdentities : /\ x.username \in DOMAIN users /\ x = users[x.username]
                                       /\ Len(x.username) = 1 /\ x.username # Reading!AnonymousUser
                                       /\ x.kind = "account"
      BY <2>1, <2>4
    <2>8. \A x \in KeyIdentities :
             /\ \E k \in DOMAIN apiKeys : x.username = <<"api-key", k>> /\ x = apiKeys[k]
             /\ Len(x.username) = 2 /\ x.kind = "api_key"
      BY <2>2, <2>3, <2>5
    <2> QED BY <2>6, <2>7, <2>8
  <1>7. Reading!UsernamesDistinct
    <2> SUFFICES ASSUME NEW a \in Reading!Identities, NEW b \in Reading!Identities, a.username = b.username
                 PROVE  a = b
      BY DEF Reading!UsernamesDistinct
    <2>1. CASE a \in AccountIdentities
      BY <2>1, <1>1, <1>6
    <2>2. CASE a \in KeyIdentities
      <3>1. b \in KeyIdentities
        BY <2>2, <1>1, <1>6
      <3> QED BY <2>2, <3>1, <1>6
    <2>3. CASE a = nobody
      BY <2>3, <1>1, <1>6
    <2> QED BY <2>1, <2>2, <2>3, <1>1
  <1>8. Reading!EveryEntryItsIdentity
    <2> SUFFICES ASSUME verdict = "accepted"
                 PROVE  Cardinality(Reading!Identities)
                          = Len(Reading!Entries) + (IF \E i \in DOMAIN doc.users :
                                                  doc.users[i].name = Reading!AnonymousUser
                                            THEN 0 ELSE 1)
      BY Counting DEF Reading!EveryEntryItsIdentity
    <2>1. /\ read = Len(Reading!Entries) /\ IsFiniteSet(Granted) /\ Cardinality(Granted) = read
          /\ nobody.call.given <=>
               \E i \in 1 .. Len(doc.users) : i <= read /\ doc.users[i].name = Reading!AnonymousUser
      BY DEF DocumentInv, ReadInv, GrantedInv, AnonymousInv
    <2>2. DOMAIN doc.users = 1 .. Len(doc.users)
      BY EntryFacts, LenProperties DEF DocumentInv
    <2>3. nobody.call.given <=> \E i \in DOMAIN doc.users : doc.users[i].name = Reading!AnonymousUser
      BY <2>1, <2>2, <1>2
    <2>4. CASE nobody.call.given
      <3>1. Reading!Identities = Granted
        BY <2>4, <1>1 DEF Granted
      <3> QED BY <2>1, <2>3, <2>4, <3>1, <1>2
    <2>5. CASE ~nobody.call.given
      <3>1. Reading!Identities = Granted \cup {nobody} /\ nobody \notin Granted
        BY <2>5, <1>1, <1>6 DEF Granted
      <3>2. Cardinality(Reading!Identities) = read + 1
        BY <3>1, <2>1, OneMore
      <3> QED BY <2>1, <2>3, <2>5, <3>2, <1>2
    <2> QED BY <2>4, <2>5
  <1> QED BY <1>3, <1>4, <1>5, <1>7, <1>8

-------------------------------------------------------------------------------
(* auth.go and router.go: accounts, tokens and admission.                  *)

\* What FiniteSets says of finite sets, of the instance's operators.
LEMMA AccessFinite ==
  /\ Access!IsFiniteSet({}) /\ Access!Cardinality({}) = 0
  /\ \A S : Access!IsFiniteSet(S) => Access!Cardinality(S) \in Nat
  /\ \A S, T : Access!IsFiniteSet(S) /\ T \subseteq S =>
                 Access!IsFiniteSet(T) /\ Access!Cardinality(T) <= Access!Cardinality(S)
  /\ \A S, x : Access!IsFiniteSet(S) =>
       /\ Access!IsFiniteSet(S \cup {x})
       /\ x \in S => Access!Cardinality(S \cup {x}) = Access!Cardinality(S)
       /\ x \notin S => Access!Cardinality(S \cup {x}) = Access!Cardinality(S) + 1
       /\ x \in S => Access!Cardinality(S \ {x}) = Access!Cardinality(S) - 1
  <1>1. \A S : Access!IsFiniteSet(S) <=> IsFiniteSet(S)
    BY Zenon DEF Access!IsFiniteSet, IsFiniteSet
  <1>2. \A S : Access!Cardinality(S) = Cardinality(S)
    BY Zenon DEF Access!Cardinality, Cardinality
  <1>3. Access!IsFiniteSet({}) /\ Access!Cardinality({}) = 0
    BY <1>1, <1>2, FS_EmptySet
  <1>4. \A S : Access!IsFiniteSet(S) => Access!Cardinality(S) \in Nat
    BY <1>1, <1>2, FS_CardinalityType
  <1>5. ASSUME NEW S, NEW T, Access!IsFiniteSet(S), T \subseteq S
        PROVE  Access!IsFiniteSet(T) /\ Access!Cardinality(T) <= Access!Cardinality(S)
    BY <1>1, <1>2, <1>5, FS_Subset
  <1>6. ASSUME NEW S, NEW x, Access!IsFiniteSet(S)
        PROVE  /\ Access!IsFiniteSet(S \cup {x})
               /\ x \in S => Access!Cardinality(S \cup {x}) = Access!Cardinality(S)
               /\ x \notin S => Access!Cardinality(S \cup {x}) = Access!Cardinality(S) + 1
               /\ x \in S => Access!Cardinality(S \ {x}) = Access!Cardinality(S) - 1
    BY <1>1, <1>2, <1>6, FS_AddElement, FS_RemoveElement
  <1> QED BY <1>3, <1>4, <1>5, <1>6


-------------------------------------------------------------------------------
(* Who a connection may be.                                                *)

\* An identity that a token stands for: it can do what its account can, none of
\* the Router's own business, and its id was issued.
TokenOK(u) ==
  /\ u.kind = "token" /\ u.username \in Usernames /\ u.token \in used /\ u.expires \in Nat
  /\ u.roles \subseteq Accounts[u.username].roles
  /\ \A s \in AccountServices, m \in AccountMethods :
       Access!allowsCall(u, s, m) => Access!allowsCall(Accounts[u.username], s, m)
  /\ \A s \in AccountServices :
       Access!allowsRegistration(u, s) => Access!allowsRegistration(Accounts[u.username], s)
  /\ \A s \in ManagedServices, m \in AccountMethods : ~Access!allowsCall(u, s, m)

UserOK(u) ==
  \/ u = Access!Nobody \/ u = Anonymous
  \/ \E k \in KeyIDs : u = APIKeys[k]
  \/ \E n \in Usernames : u = Accounts[n]
  \/ TokenOK(u)

\* Where a connection is tells what it can have: nobody is known before the
\* check, only a peer has calls and services, and whoever holds an id of the
\* token table is the identity that the table has for it.
ConnOK(c) ==
  /\ UserOK(user[c])
  /\ connPc[c] \in {"idle", "admitted", "hashing"} => user[c] = Access!Nobody
  /\ connPc[c] = "hashing" => Access!Password(header[c])
  /\ ~Access!IsPeer(c) => opened[c] = {} /\ serving[c] = {}
  /\ user[c].token \in DOMAIN tokens => tokens[user[c].token] = user[c]

AccountTypes ==
  /\ accountNow \in 0 .. LastSecond
  /\ DOMAIN tokens \subseteq used /\ used \subseteq TokenIDs
  /\ DOMAIN verified \subseteq {h \in Access!Headers : h.form = "basic" /\ h.right}
  /\ connPc \in [Conns -> {"idle", "over", "admitted", "hashing", "upgrading",
                       "peer", "open", "serving"}]
  /\ header \in [Conns -> Access!Headers]
  /\ role \in [Conns -> {"", "client", "server"}]
  /\ cancelled \in [Conns -> BOOLEAN]
  /\ serving \in [Conns -> SUBSET AccountServices]
  /\ opened \in [Conns -> SUBSET (AccountServices \X AccountMethods)]
  /\ DOMAIN user = Conns

TokensInv == \A t \in DOMAIN tokens : TokenOK(tokens[t]) /\ tokens[t].token = t

ConnsInv == \A c \in Conns : ConnOK(c)

AuthInv == AccountTypes /\ TokensInv /\ ConnsInv

\* Facts about identities that are not a token's.
LEMMA KnownIdentities ==
  ASSUME Access!AccountsAssumption, used \subseteq TokenIDs, NEW u, UserOK(u)
  PROVE  /\ u.kind = "account" => \E n \in Usernames : u = Accounts[n] /\ u.username = n
         /\ u.kind = "token" <=> TokenOK(u)
         /\ u.token # Access!NoToken <=> TokenOK(u)
         /\ u.kind = "anonymous" => u = Anonymous
  <1>1. CASE u = Access!Nobody
    BY <1>1 DEF Access!Nobody, TokenOK
  <1>2. CASE u = Anonymous
    BY <1>2 DEF Access!AccountsAssumption, TokenOK
  <1>3. CASE \E k \in KeyIDs : u = APIKeys[k]
    BY <1>3 DEF Access!AccountsAssumption, TokenOK
  <1>4. CASE \E n \in Usernames : u = Accounts[n]
    BY <1>4 DEF Access!AccountsAssumption, TokenOK
  <1>5. CASE TokenOK(u)
    <2>1. u.kind = "token" /\ u.token \in TokenIDs
      BY <1>5 DEF TokenOK
    <2> QED BY <1>5, <2>1 DEF Access!AccountsAssumption
  <1> QED BY <1>1, <1>2, <1>3, <1>4, <1>5 DEF UserOK

\* issue gives the new identity no rule that its account does not have: also not
\* where a scope names every method of a service.
LEMMA TokenUserWithin ==
  ASSUME Access!AccountsAssumption, NEW n \in Usernames, NEW request, NEW id, accountNow \in Nat,
         Access!RequestOK(Accounts[n], request), id \in used',
         NEW e, e = Access!TokenUser(Accounts[n], request, id)
  PROVE  TokenOK(e)' /\ e.token = id
  <1> DEFINE u == Accounts[n]
  <1>0. u.username = n
    BY DEF Access!AccountsAssumption
  <1>1. /\ e.username = n /\ e.kind = "token" /\ e.token = id /\ e.expires = accountNow + request.ttl
        /\ e.register = Access!TokenRegisters(request) /\ e.call = Access!TokenCalls(request)
        /\ e.roles = (IF Access!TokenCalls(request) = {} THEN {} ELSE {"client"})
                       \cup (IF Access!TokenRegisters(request) = {} THEN {} ELSE {"server"})
    BY <1>0 DEF Access!TokenUser
  <1>2. \A p \in Access!TokenCalls(request) :
          \E s \in AccountServices \ ManagedServices : \E m \in AccountMethods \cup {"*"} :
            p = <<s, m>> /\ Access!allowsRole(u, "client") /\ Access!allowsCall(u, s, m)
    BY DEF Access!TokenCalls, Access!RequestOK, Access!ScopeOK, Access!MethodScopeOK,
           Access!ScopeServiceOK
  <1>3. \A p \in Access!TokenRegisters(request) :
          \E s \in AccountServices \ ManagedServices :
            p = <<s>> /\ Access!allowsRole(u, "server") /\ Access!allowsRegistration(u, s)
    BY DEF Access!TokenRegisters, Access!RequestOK, Access!ScopeOK, Access!ScopeServiceOK
  <1>4. e.roles \subseteq u.roles
    BY <1>1, <1>2, <1>3 DEF Access!allowsRole
  <1>5. \A p \in e.call : p # <<"*">>
    BY <1>1, <1>2
  <1>6. ASSUME NEW s \in AccountServices, NEW m \in AccountMethods, Access!allowsCall(e, s, m)
        PROVE  Access!allowsCall(u, s, m)
    <2>1. <<s, "*">> \in e.call \/ <<s, m>> \in e.call
      BY <1>5, <1>6 DEF Access!allowsCall
    <2>2. CASE <<s, "*">> \in e.call
      <3>1. Access!allowsCall(u, s, "*")
        BY <1>1, <1>2, <2>2
      <3> QED BY <3>1 DEF Access!allowsCall
    <2>3. CASE <<s, m>> \in e.call
      BY <1>1, <1>2, <2>3
    <2> QED BY <2>1, <2>2, <2>3
  <1>7. ASSUME NEW s \in AccountServices, Access!allowsRegistration(e, s) PROVE Access!allowsRegistration(u, s)
    <2>1. CASE <<"*">> \in e.register
      <3>1. Access!allowsRegistration(u, "*")
        BY <1>1, <1>3, <2>1
      <3> QED BY <3>1 DEF Access!allowsRegistration
    <2>2. CASE <<s>> \in e.register
      BY <1>1, <1>3, <2>2
    <2> QED BY <1>7, <2>1, <2>2 DEF Access!allowsRegistration
  <1>8. ASSUME NEW s \in ManagedServices, NEW m \in AccountMethods PROVE ~Access!allowsCall(e, s, m)
    <2>1. <<s, "*">> \notin e.call /\ <<s, m>> \notin e.call
      BY <1>1, <1>2
    <2> QED BY <1>5, <2>1 DEF Access!allowsCall
  <1>9. e.expires \in Nat
    <2>1. request.ttl \in 1..MaxTTL /\ MaxTTL \in Nat
      BY DEF Access!RequestOK, Access!AccountsAssumption
    <2>2. request.ttl \in Nat
      BY <2>1
    <2>3. \A a, b \in Nat : a + b \in Nat
      OBVIOUS
    <2> QED BY <1>1, <2>2, <2>3
  <1>10. e.token \in used'
    BY <1>1
  <1>11. e.kind = "token" /\ e.username \in Usernames /\ Accounts[e.username] = u
    BY <1>1
  <1> QED BY <1>1, <1>4, <1>6, <1>7, <1>8, <1>9, <1>10, <1>11 DEF TokenOK

-------------------------------------------------------------------------------
(* The steps, in the kinds that the proofs tell apart.                     *)

\* The handler returns, from wherever it is.
LeavesHandler(c) ==
  /\ connPc[c] # "idle"
  /\ Access!Return(c)
  /\ UNCHANGED <<Access!Auth, verified>>

\* A check with credentials succeeds.
Identifies(c, u) ==
  /\ connPc[c] \in {"admitted", "hashing"}
  /\ UserOK(u) /\ u.kind # "anonymous"
  /\ u.token \in DOMAIN tokens => tokens[u.token] = u
  /\ Access!Identify(c, u)
  /\ UNCHANGED Access!Auth
  /\ UNCHANGED verified \/ Access!PasswordRight(c)

ConnStep(c) ==
  \/ \E h \in Access!Headers : Access!Arrive(c, h)
  \/ LeavesHandler(c) \/ Access!CheckNone(c) \/ Access!TakeSlot(c) \/ Access!EnterPeers(c) \/ Access!ForwardStale(c)
  \/ \E u : Identifies(c, u)
  \/ \E r \in {"client", "server"} : Access!Hello(c, r)
  \/ \E names \in SUBSET AccountServices : Access!Register(c, names)
  \/ \E s \in AccountServices, m \in AccountMethods : Access!Call(c, s, m)
  \/ \E call \in AccountServices \X AccountMethods : Access!CallEnds(c, call)
  \/ \E request \in Requests :
       Access!IssueFull(c, request) \/ \E id \in TokenIDs : Access!IssueToken(c, request, id)
  \/ \E id \in TokenIDs : Access!RevokeToken(c, id)

LEMMA HeaderForms ==
  ASSUME NEW h \in Access!Headers
  PROVE  /\ h.form = "basic" => h.name \in Usernames
         /\ h.form = "garbled" => ~h.right
  BY DEF Access!Headers

LEMMA IdentifiedOK ==
  ASSUME Access!AccountsAssumption, AuthInv, NEW c \in Conns,
         Access!CheckKey(c) \/ Access!CheckToken(c) \/ Access!CheckCached(c) \/ Access!PasswordRight(c)
  PROVE  \E u : Identifies(c, u)
  <1>0. header[c] \in Access!Headers /\ used \subseteq TokenIDs /\ DOMAIN tokens \subseteq used
    BY DEF AuthInv, AccountTypes
  <1>n. Access!NoToken \notin DOMAIN tokens
    BY <1>0 DEF Access!AccountsAssumption
  <1>1. CASE Access!CheckKey(c)
    <2>1. PICK k \in KeyIDs : k = header[c].name
      BY <1>1 DEF Access!CheckKey, Access!KeyKnown
    <2>2. APIKeys[k].kind = "api_key" /\ APIKeys[k].token = Access!NoToken /\ UserOK(APIKeys[k])
      BY DEF Access!AccountsAssumption, UserOK
    <2> QED BY <1>1, <1>n, <2>1, <2>2 DEF Access!CheckKey, Identifies
  <1>2. CASE Access!CheckToken(c)
    <2>1. header[c].name \in DOMAIN tokens
      BY <1>2 DEF Access!CheckToken, Access!TokenKnown
    <2> DEFINE u == tokens[header[c].name]
    <2>2. TokenOK(u) /\ u.token = header[c].name
      BY <2>1 DEF AuthInv, TokensInv
    <2>3. u.kind # "anonymous" /\ UserOK(u)
      BY <2>2 DEF TokenOK, UserOK
    <2> QED BY <1>2, <2>2, <2>3 DEF Access!CheckToken, Identifies
  <1>3. CASE Access!CheckCached(c) \/ Access!PasswordRight(c)
    <2>1. header[c].form = "basic"
      <3>1. CASE Access!CheckCached(c)
        BY <3>1 DEF Access!CheckCached
      <3>2. CASE Access!PasswordRight(c)
        <4>1. Access!Password(header[c]) /\ header[c].right
          BY <3>2 DEF Access!PasswordRight, AuthInv, ConnsInv, ConnOK
        <4> QED BY <4>1, <1>0, HeaderForms DEF Access!Password
      <3> QED BY <1>3, <3>1, <3>2
    <2>2. PICK n \in Usernames : n = header[c].name
      BY <2>1, <1>0, HeaderForms
    <2>3. Accounts[n].kind = "account" /\ Accounts[n].token = Access!NoToken /\ UserOK(Accounts[n])
      BY DEF Access!AccountsAssumption, UserOK
    <2>4. Access!Identify(c, Accounts[n]) /\ UNCHANGED Access!Auth /\ connPc[c] \in {"admitted", "hashing"}
          /\ (UNCHANGED verified \/ Access!PasswordRight(c))
      BY <1>3, <2>2 DEF Access!CheckCached, Access!PasswordRight
    <2> QED BY <1>n, <2>3, <2>4 DEF Identifies
  <1> QED BY <1>1, <1>2, <1>3

LEMMA StepKinds ==
  ASSUME Access!AccountsAssumption, AuthInv, [Access!Next]_Access!vars
  PROVE  Access!Tick \/ UNCHANGED Access!vars \/ \E c \in Conns : ConnStep(c)
  <1> SUFFICES ASSUME NEW c \in Conns,
                      \/ \E h \in Access!Headers : Access!Arrive(c, h)
                      \/ Access!Check(c)
                      \/ Access!EnterPeers(c) \/ Access!UpgradeFails(c) \/ Access!TooLate(c) \/ Access!Leave(c)
                      \/ Access!Frame(c)
                      \/ \E call \in AccountServices \X AccountMethods : Access!CallEnds(c, call)
               PROVE  ConnStep(c)
    BY DEF Access!Next
  <1>1. CASE Access!Check(c)
    <2>1. CASE Access!Refuse(c) \/ Access!TurnAway(c)
      BY <2>1 DEF Access!Refuse, Access!TurnAway, Access!CredentialsFail, LeavesHandler, ConnStep
    <2>2. CASE Access!CheckKey(c) \/ Access!CheckToken(c) \/ Access!CheckCached(c) \/ Access!PasswordRight(c)
      BY <2>2, IdentifiedOK DEF ConnStep
    <2> QED BY <1>1, <2>1, <2>2 DEF Access!Check, ConnStep
  <1>2. CASE Access!UpgradeFails(c) \/ Access!TooLate(c) \/ Access!Leave(c)
    BY <1>2
    DEF Access!UpgradeFails, Access!TooLate, Access!Leave, Access!IsPeer, LeavesHandler, ConnStep
  <1>3. CASE Access!Frame(c)
    BY <1>3 DEF Access!Frame, ConnStep
  <1> QED BY <1>1, <1>2, <1>3 DEF ConnStep

-------------------------------------------------------------------------------
(* The token table: ids are never used twice, and what an id stands for    *)
(* never changes.                                                          *)

TokensStep ==
  /\ used \subseteq used' /\ used' \subseteq TokenIDs /\ DOMAIN tokens' \subseteq used'
  /\ \A t \in DOMAIN tokens' :
       (t \in DOMAIN tokens /\ tokens'[t] = tokens[t]) \/ t \notin used

LEMMA UserStays ==
  ASSUME used \subseteq used', NEW u
  PROVE  (TokenOK(u) => TokenOK(u)') /\ (UserOK(u) => UserOK(u)')
  <1>1. TokenOK(u) => TokenOK(u)'
    BY DEF TokenOK
  <1> QED BY <1>1 DEF UserOK

LEMMA NowIsNat ==
  ASSUME Access!AccountsAssumption, AuthInv
  PROVE  accountNow \in Nat
  <1>1. LastSecond \in Nat
    BY DEF Access!AccountsAssumption
  <1>2. accountNow \in 0 .. LastSecond
    BY DEF AuthInv, AccountTypes
  <1> QED BY <1>1, <1>2

\* The caller of the token service is an account.
LEMMA IssuerIsAccount ==
  ASSUME Access!AccountsAssumption, AuthInv, NEW c \in Conns, Access!mayIssueTokens(user[c])
  PROVE  \E n \in Usernames : user[c] = Accounts[n]
  BY KnownIdentities DEF AuthInv, AccountTypes, ConnsInv, ConnOK, Access!mayIssueTokens

LEMMA IssuedWithin ==
  ASSUME Access!AccountsAssumption, AuthInv, NEW c \in Conns, NEW request, NEW id,
         Access!IssueToken(c, request, id)
  PROVE  \E e : /\ TokenOK(e)' /\ e.token = id
                /\ DOMAIN tokens' = Access!Unexpired \cup {id}
                /\ tokens'[id] = e
                /\ \A t \in Access!Unexpired : t # id => tokens'[t] = tokens[t]
  <1>1. PICK n \in Usernames : user[c] = Accounts[n]
    BY IssuerIsAccount DEF Access!IssueToken
  <1>2. PICK e : e = Access!TokenUser(Accounts[n], request, id)
    OBVIOUS
  <1>3. Access!RequestOK(Accounts[n], request) /\ id \in used'
    BY <1>1 DEF Access!IssueToken
  <1>4. accountNow \in Nat
    BY NowIsNat
  <1>5. TokenOK(e)' /\ e.token = id
    BY <1>2, <1>3, <1>4, TokenUserWithin
  <1> QED BY <1>1, <1>2, <1>5 DEF Access!IssueToken

LEMMA TokensMove ==
  ASSUME Access!AccountsAssumption, AuthInv, [Access!Next]_Access!vars
  PROVE  TokensStep /\ TokensInv'
  <1>a. AuthInv
    OBVIOUS
  <1> USE DEF AuthInv, AccountTypes, TokensInv
  <1>0. used \subseteq TokenIDs /\ DOMAIN tokens \subseteq used
    OBVIOUS
  <1>1. CASE UNCHANGED <<tokens, used>>
    BY <1>0, <1>1, UserStays DEF TokensStep
  <1>2. ASSUME NEW c \in Conns, NEW request \in Requests, NEW id \in TokenIDs,
               Access!IssueToken(c, request, id)
        PROVE  TokensStep /\ TokensInv'
    <2>1. PICK e : /\ TokenOK(e)' /\ e.token = id
                   /\ DOMAIN tokens' = Access!Unexpired \cup {id}
                   /\ tokens'[id] = e
                   /\ \A t \in Access!Unexpired : t # id => tokens'[t] = tokens[t]
      <3> HIDE DEF AuthInv, AccountTypes, TokensInv
      <3> QED BY <1>2, <1>a, IssuedWithin
    <2>3. /\ id \notin used /\ used' = used \cup {id}
          /\ Access!Unexpired \subseteq DOMAIN tokens
      BY <1>2 DEF Access!IssueToken, Access!Unexpired
    <2>6. TokensStep
      BY <1>0, <2>1, <2>3 DEF TokensStep
    <2>7. \A t \in DOMAIN tokens' : t = id \/ (t \in DOMAIN tokens /\ tokens'[t] = tokens[t])
      BY <2>1, <2>3
    <2> QED BY <2>1, <2>3, <2>6, <2>7, UserStays
  <1>3. ASSUME NEW c \in Conns, NEW request \in Requests, Access!IssueFull(c, request)
        PROVE  TokensStep /\ TokensInv'
    <2>1. /\ used' = used
          /\ \A t \in DOMAIN tokens' : t \in DOMAIN tokens /\ tokens'[t] = tokens[t]
      BY <1>3 DEF Access!IssueFull, Access!Unexpired
    <2> QED BY <1>0, <2>1, UserStays DEF TokensStep
  <1>4. ASSUME NEW c \in Conns, NEW id \in TokenIDs, Access!RevokeToken(c, id)
        PROVE  TokensStep /\ TokensInv'
    <2>1. /\ used' = used
          /\ \A t \in DOMAIN tokens' : t \in DOMAIN tokens /\ tokens'[t] = tokens[t]
      BY <1>4 DEF Access!RevokeToken
    <2> QED BY <1>0, <2>1, UserStays DEF TokensStep
  <1>5. CASE Access!Tick \/ UNCHANGED Access!vars
    BY <1>1, <1>5 DEF Access!Tick, Access!vars
  <1>6. ASSUME NEW c \in Conns, ConnStep(c)
        PROVE  TokensStep /\ TokensInv'
    BY <1>1, <1>2, <1>3, <1>4, <1>6
    DEF ConnStep, Access!Arrive, LeavesHandler, Access!CheckNone, Access!TakeSlot,
        Access!EnterPeers, Access!ForwardStale, Identifies, Access!Hello, Access!Register,
        Access!Call, Access!CallEnds, Access!Auth
  <1> QED BY <1>5, <1>6, StepKinds

-------------------------------------------------------------------------------
(* The connections.                                                        *)

SameConnection(d) ==
  /\ connPc'[d] = connPc[d] /\ header'[d] = header[d] /\ user'[d] = user[d]
  /\ opened'[d] = opened[d] /\ serving'[d] = serving[d]

\* What one connection does leaves the others as they are.
LEMMA SameConn ==
  ASSUME Access!AccountsAssumption, AuthInv, TokensStep, NEW d \in Conns, SameConnection(d)
  PROVE  ConnOK(d)'
  <1>1. ConnOK(d) /\ UserOK(user[d]) /\ used \subseteq TokenIDs /\ used \subseteq used'
    BY DEF AuthInv, ConnsInv, ConnOK, AccountTypes, TokensStep
  <1>2. PICK u : u = user[d]
    OBVIOUS
  <1>3. UserOK(u)'
    BY <1>1, <1>2, UserStays
  <1>4. u.token \in DOMAIN tokens' => tokens'[u.token] = u
    <2>1. CASE TokenOK(u)
      <3>1. u.token \in used
        BY <2>1 DEF TokenOK
      <3> QED BY <1>1, <1>2, <3>1 DEF TokensStep, ConnOK
    <2>2. CASE ~TokenOK(u)
      <3>1. u.token = Access!NoToken
        BY <1>1, <1>2, <2>2, KnownIdentities
      <3> QED BY <3>1 DEF TokensStep, Access!AccountsAssumption
    <2> QED BY <2>1, <2>2
  <1>5. user'[d] = u
    BY <1>2 DEF SameConnection
  <1>6. UserOK(user[d])'
    BY <1>3, <1>5
  <1> QED BY <1>1, <1>2, <1>4, <1>5, <1>6 DEF SameConnection, ConnOK, Access!IsPeer

LEMMA AccountTypesInit == ASSUME Access!AccountsAssumption, Access!Init PROVE AuthInv
  <1>0. /\ accountNow = 0 /\ used = {} /\ tokens = <<>> /\ verified = <<>>
        /\ connPc = [c \in Conns |-> "idle"] /\ user = [c \in Conns |-> Access!Nobody]
        /\ role = [c \in Conns |-> ""] /\ cancelled = [c \in Conns |-> FALSE]
        /\ serving = [c \in Conns |-> {}] /\ opened = [c \in Conns |-> {}]
    BY DEF Access!Init
  <1>1. accountNow \in 0 .. LastSecond
    <2>1. LastSecond \in Nat
      BY DEF Access!AccountsAssumption
    <2>2. accountNow = 0
      BY <1>0
    <2> QED BY <2>1, <2>2
  <1>2. header \in [Conns -> Access!Headers]
    <2>1. [form |-> "none", name |-> "", right |-> FALSE] \in Access!Headers
      BY DEF Access!Headers
    <2> QED BY <2>1 DEF Access!Init
  <1>3. DOMAIN tokens = {} /\ DOMAIN verified = {}
    <2>1. tokens = <<>> /\ verified = <<>>
      BY <1>0
    <2>2. DOMAIN <<>> = {}
      OBVIOUS
    <2> QED BY <2>1, <2>2
  <1>4. AccountTypes
    BY <1>0, <1>1, <1>2, <1>3 DEF AccountTypes
  <1>5. TokensInv
    BY <1>3 DEF TokensInv
  <1>6. ASSUME NEW c \in Conns PROVE ConnOK(c)
    <2>1. connPc[c] = "idle" /\ user[c] = Access!Nobody /\ opened[c] = {} /\ serving[c] = {}
      BY <1>0
    <2> QED BY <1>3, <2>1 DEF ConnOK, UserOK, Access!IsPeer
  <1> QED BY <1>4, <1>5, <1>6 DEF AuthInv, ConnsInv

LEMMA CacheRoomDomain ==
  ASSUME NEW cached
  PROVE  DOMAIN Access!CacheRoom(cached) = IF Access!Cardinality(DOMAIN cached) >= CacheSize
                                     THEN {} ELSE DOMAIN cached
  <1>1. DOMAIN <<>> = {}
    OBVIOUS
  <1> QED BY <1>1 DEF Access!CacheRoom

LEMMA AccountTypesStep ==
  ASSUME Access!AccountsAssumption, AuthInv, [Access!Next]_Access!vars
  PROVE  AccountTypes'
  <1>n. Access!Tick => accountNow' \in 0 .. LastSecond
    <2>1. LastSecond \in Nat /\ accountNow \in Nat
      BY NowIsNat DEF Access!AccountsAssumption
    <2> QED BY <2>1 DEF Access!Tick
  <1> USE DEF AccountTypes
  <1>0. AccountTypes /\ TokensStep /\ DOMAIN tokens' \subseteq used' /\ used' \subseteq TokenIDs
    BY TokensMove DEF AuthInv, TokensStep
  <1> USE <1>0
  <1>1. CASE UNCHANGED Access!vars
    BY <1>1 DEF Access!vars, Access!conn
  <1>2. CASE Access!Tick
    BY <1>2, <1>n DEF Access!Tick, Access!conn
  <1>3. ASSUME NEW c \in Conns, ConnStep(c) PROVE AccountTypes'
    <2>h. [form |-> "none", name |-> "", right |-> FALSE] \in Access!Headers
      BY DEF Access!Headers
    <2>1. ASSUME NEW h \in Access!Headers, Access!Arrive(c, h) PROVE AccountTypes'
      BY <2>1 DEF Access!Arrive, Access!Auth
    <2>2. CASE LeavesHandler(c)
      BY <2>2, <2>h DEF LeavesHandler, Access!Return, Access!Auth
    <2>3. CASE Access!CheckNone(c)
      BY <2>3 DEF Access!CheckNone, Access!Auth
    <2>4. CASE Access!TakeSlot(c) \/ Access!EnterPeers(c) \/ Access!ForwardStale(c)
      BY <2>4 DEF Access!TakeSlot, Access!EnterPeers, Access!ForwardStale, Access!Auth
    <2>5. ASSUME NEW u, Identifies(c, u) PROVE AccountTypes'
      <3>1. /\ UNCHANGED <<accountNow, header, role, cancelled, serving, opened>>
            /\ connPc' = [connPc EXCEPT ![c] = "upgrading"] /\ user' = [user EXCEPT ![c] = u]
        BY <2>5 DEF Identifies, Access!Identify, Access!Auth
      <3>2. CASE UNCHANGED verified
        BY <3>1, <3>2
      <3>3. CASE Access!PasswordRight(c)
        <4>1. Access!Password(header[c]) /\ header[c].right /\ header[c] \in Access!Headers
          BY <3>3 DEF Access!PasswordRight, AuthInv, ConnsInv, ConnOK
        <4>2. header[c].form = "basic"
          BY <4>1, HeaderForms DEF Access!Password
        <4>3. DOMAIN verified' \subseteq DOMAIN verified \cup {header[c]}
          <5>1. DOMAIN Access!CacheRoom(verified) \subseteq DOMAIN verified
            BY CacheRoomDomain, Zenon
          <5> QED BY <3>3, <5>1 DEF Access!PasswordRight
        <4>4. DOMAIN verified' \subseteq {h \in Access!Headers : h.form = "basic" /\ h.right}
          BY <4>1, <4>2, <4>3
        <4> QED BY <3>1, <4>4
      <3> QED BY <2>5, <3>2, <3>3 DEF Identifies
    <2>6. ASSUME NEW r \in {"client", "server"}, Access!Hello(c, r) PROVE AccountTypes'
      BY <2>6 DEF Access!Hello, Access!Auth
    <2>7. ASSUME NEW names \in SUBSET AccountServices, Access!Register(c, names) PROVE AccountTypes'
      BY <2>7 DEF Access!Register, Access!Auth
    <2>8. ASSUME NEW s \in AccountServices, NEW m \in AccountMethods, Access!Call(c, s, m) PROVE AccountTypes'
      <3>1. <<s, m>> \in AccountServices \X AccountMethods /\ opened[c] \in SUBSET (AccountServices \X AccountMethods)
        OBVIOUS
      <3>2. opened[c] \cup {<<s, m>>} \in SUBSET (AccountServices \X AccountMethods)
        BY <3>1
      <3> QED BY <2>8, <3>2 DEF Access!Call, Access!Auth
    <2>9. ASSUME NEW call \in AccountServices \X AccountMethods, Access!CallEnds(c, call) PROVE AccountTypes'
      BY <2>9 DEF Access!CallEnds, Access!Auth
    <2>10. ASSUME NEW request \in Requests,
                  Access!IssueFull(c, request) \/ \E id \in TokenIDs : Access!IssueToken(c, request, id)
           PROVE  AccountTypes'
      BY <2>10 DEF Access!IssueFull, Access!IssueToken, Access!conn
    <2>11. ASSUME NEW id \in TokenIDs, Access!RevokeToken(c, id) PROVE AccountTypes'
      BY <2>11 DEF Access!RevokeToken, Access!IsPeer, Access!RevokesPeer
    <2> QED BY <1>3, <2>1, <2>2, <2>3, <2>4, <2>5, <2>6, <2>7, <2>8, <2>9, <2>10, <2>11
            DEF ConnStep
  <1> QED BY <1>1, <1>2, <1>3, StepKinds

LEMMA OthersSame ==
  ASSUME AuthInv, NEW c \in Conns, ConnStep(c)
  PROVE  \A d \in Conns : d # c => SameConnection(d) /\ (cancelled[d] => cancelled'[d])
  <1> SUFFICES ASSUME NEW d \in Conns, d # c
               PROVE  SameConnection(d) /\ (cancelled[d] => cancelled'[d])
    OBVIOUS
  <1>1. AccountTypes
    BY DEF AuthInv
  <1>2. CASE \E id \in TokenIDs : Access!RevokeToken(c, id)
    BY <1>1, <1>2 DEF Access!RevokeToken, SameConnection, AccountTypes
  <1>3. CASE LeavesHandler(c)
    BY <1>1, <1>3 DEF LeavesHandler, Access!Return, SameConnection, AccountTypes
  <1>4. CASE \E u : Identifies(c, u)
    BY <1>1, <1>4 DEF Identifies, Access!Identify, SameConnection, AccountTypes
  <1>5. CASE \E request \in Requests :
               Access!IssueFull(c, request) \/ \E id \in TokenIDs : Access!IssueToken(c, request, id)
    BY <1>1, <1>5 DEF Access!IssueFull, Access!IssueToken, Access!conn, SameConnection
  <1>6. CASE \/ \E h \in Access!Headers : Access!Arrive(c, h)
             \/ Access!CheckNone(c) \/ Access!TakeSlot(c) \/ Access!EnterPeers(c) \/ Access!ForwardStale(c)
             \/ \E r \in {"client", "server"} : Access!Hello(c, r)
    BY <1>1, <1>6
    DEF Access!Arrive, Access!CheckNone, Access!TakeSlot, Access!EnterPeers, Access!ForwardStale,
        Access!Hello, SameConnection, AccountTypes
  <1>7. CASE \/ \E names \in SUBSET AccountServices : Access!Register(c, names)
             \/ \E s \in AccountServices, m \in AccountMethods : Access!Call(c, s, m)
             \/ \E call \in AccountServices \X AccountMethods : Access!CallEnds(c, call)
    BY <1>1, <1>7 DEF Access!Register, Access!Call, Access!CallEnds, SameConnection, AccountTypes
  <1> QED BY <1>2, <1>3, <1>4, <1>5, <1>6, <1>7 DEF ConnStep

\* A connection that is given an identity: one that is in order and that the
\* token table agrees with.
LEMMA NewIdentity ==
  ASSUME Access!AccountsAssumption, AuthInv, UNCHANGED <<tokens, used>>, NEW c \in Conns, NEW u,
         UserOK(u), u.token \in DOMAIN tokens => tokens[u.token] = u,
         connPc'[c] \in {"over", "upgrading"}, user'[c] = u,
         opened'[c] = opened[c], serving'[c] = serving[c], ~Access!IsPeer(c)
  PROVE  ConnOK(c)'
  <1>1. UserOK(u)' /\ (u.token \in DOMAIN tokens' => tokens'[u.token] = u)
    BY UserStays
  <1>2. opened'[c] = {} /\ serving'[c] = {}
    BY DEF AuthInv, ConnsInv, ConnOK
  <1>3. UserOK(user[c])'
    BY <1>1
  <1> QED BY <1>1, <1>2, <1>3 DEF ConnOK

LEMMA NotAToken ==
  ASSUME Access!AccountsAssumption, AuthInv, NEW u, u = Access!Nobody \/ u = Anonymous
  PROVE  UserOK(u) /\ u.token \notin DOMAIN tokens
  <1>1. u.token = Access!NoToken
    <2>1. Access!Nobody.token = Access!NoToken
      BY DEF Access!Nobody
    <2>2. Anonymous.token = Access!NoToken
      BY DEF Access!AccountsAssumption
    <2> QED BY <2>1, <2>2
  <1>2. Access!NoToken \notin DOMAIN tokens
    BY DEF Access!AccountsAssumption, AuthInv, AccountTypes
  <1> QED BY <1>1, <1>2 DEF UserOK

LEMMA ConnMoves ==
  ASSUME Access!AccountsAssumption, AuthInv, [Access!Next]_Access!vars, NEW c \in Conns, ConnStep(c)
  PROVE  ConnOK(c)'
  <1>0. AccountTypes /\ ConnOK(c) /\ TokensStep
    BY TokensMove DEF AuthInv, ConnsInv
  <1>1. CASE LeavesHandler(c)
    <2>1. /\ connPc'[c] = "idle" /\ user'[c] = Access!Nobody /\ opened'[c] = {} /\ serving'[c] = {}
          /\ tokens' = tokens
      BY <1>0, <1>1 DEF LeavesHandler, Access!Return, AccountTypes, Access!Auth
    <2>2. UserOK(user[c])' /\ user'[c].token \notin DOMAIN tokens'
      BY <2>1, NotAToken DEF UserOK
    <2> QED BY <2>1, <2>2 DEF ConnOK
  <1>2. CASE Access!CheckNone(c)
    <2>1. /\ connPc[c] = "admitted" /\ connPc'[c] \in {"over", "upgrading"} /\ user'[c] = Anonymous
          /\ opened' = opened /\ serving' = serving /\ UNCHANGED <<tokens, used>>
      BY <1>0, <1>2 DEF Access!CheckNone, AccountTypes, Access!Auth
    <2>2. UserOK(Anonymous) /\ Anonymous.token \notin DOMAIN tokens
      BY NotAToken
    <2>3. ~Access!IsPeer(c)
      BY <2>1 DEF Access!IsPeer
    <2> QED BY <2>1, <2>2, <2>3, NewIdentity
  <1>3. ASSUME NEW u, Identifies(c, u) PROVE ConnOK(c)'
    <2>1. /\ connPc[c] \in {"admitted", "hashing"} /\ connPc'[c] = "upgrading" /\ user'[c] = u
          /\ opened' = opened /\ serving' = serving /\ UNCHANGED <<tokens, used>>
          /\ UserOK(u) /\ (u.token \in DOMAIN tokens => tokens[u.token] = u)
      BY <1>0, <1>3 DEF Identifies, Access!Identify, AccountTypes, Access!Auth
    <2>2. ~Access!IsPeer(c)
      BY <2>1 DEF Access!IsPeer
    <2> QED BY <2>1, <2>2, NewIdentity
  <1>4. ASSUME UNCHANGED <<tokens, used, user>>,
               connPc'[c] = "hashing" => Access!Password(header'[c]),
               connPc'[c] \in {"idle", "admitted", "hashing"} => user[c] = Access!Nobody,
               ~Access!IsPeer(c)' => opened'[c] = {} /\ serving'[c] = {}
        PROVE  ConnOK(c)'
    <2>1. PICK u : u = user[c]
      OBVIOUS
    <2>2. UserOK(u)'
      BY <1>0, <1>4, <2>1, UserStays DEF ConnOK
    <2>3. UserOK(user[c])'
      BY <1>4, <2>1, <2>2
    <2> QED BY <1>0, <1>4, <2>3 DEF ConnOK
  <1>5. ASSUME NEW h \in Access!Headers, Access!Arrive(c, h) PROVE ConnOK(c)'
    <2>1. /\ UNCHANGED <<tokens, used, user, opened, serving>>
          /\ connPc[c] = "idle" /\ connPc'[c] \in {"admitted", "over"}
      BY <1>0, <1>5 DEF Access!Arrive, AccountTypes, Access!Auth
    <2> QED BY <1>0, <1>4, <2>1 DEF ConnOK, Access!IsPeer
  <1>6. CASE Access!TakeSlot(c)
    <2>1. /\ UNCHANGED <<tokens, used, user, opened, serving, header>>
          /\ connPc[c] = "admitted" /\ connPc'[c] = "hashing" /\ Access!Password(header[c])
      BY <1>0, <1>6 DEF Access!TakeSlot, AccountTypes, Access!Auth
    <2> QED BY <1>0, <1>4, <2>1 DEF ConnOK, Access!IsPeer
  <1>7. CASE \/ Access!EnterPeers(c) \/ \E r \in {"client", "server"} : Access!Hello(c, r)
             \/ \E names \in SUBSET AccountServices : Access!Register(c, names)
    <2>1. UNCHANGED <<tokens, used, user>> /\ connPc'[c] \in {"peer", "open", "serving"}
      BY <1>0, <1>7
      DEF Access!EnterPeers, Access!Hello, Access!Register, AccountTypes, Access!Auth
    <2> QED BY <1>0, <1>4, <2>1 DEF ConnOK, Access!IsPeer
  <1>8. ASSUME NEW s \in AccountServices, NEW m \in AccountMethods, Access!Call(c, s, m) PROVE ConnOK(c)'
    <2>1. UNCHANGED <<tokens, used, user, connPc, header>> /\ connPc[c] = "open"
      BY <1>8 DEF Access!Call, Access!MayCall, Access!Auth
    <2> QED BY <1>0, <1>4, <2>1 DEF ConnOK, Access!IsPeer
  <1>9. ASSUME NEW call \in AccountServices \X AccountMethods, Access!CallEnds(c, call) PROVE ConnOK(c)'
    <2>1. UNCHANGED <<tokens, used, user, connPc, header, serving>>
          /\ opened'[c] = opened[c] \ {call}
      BY <1>0, <1>9 DEF Access!CallEnds, AccountTypes, Access!Auth
    <2> QED BY <1>0, <1>4, <2>1 DEF ConnOK, Access!IsPeer
  <1>10. CASE \/ Access!ForwardStale(c)
              \/ \E request \in Requests :
                   Access!IssueFull(c, request) \/ \E id \in TokenIDs : Access!IssueToken(c, request, id)
              \/ \E id \in TokenIDs : Access!RevokeToken(c, id)
    <2>1. SameConnection(c)
      BY <1>10
      DEF Access!ForwardStale, Access!IssueFull, Access!IssueToken, Access!RevokeToken,
          Access!conn, SameConnection
    <2> QED BY <1>0, <2>1, SameConn
  <1> QED BY <1>1, <1>2, <1>3, <1>5, <1>6, <1>7, <1>8, <1>9, <1>10 DEF ConnStep

LEMMA AuthStep ==
  ASSUME Access!AccountsAssumption, AuthInv, [Access!Next]_Access!vars
  PROVE  AuthInv'
  <1>1. AccountTypes' /\ TokensInv' /\ TokensStep
    BY AccountTypesStep, TokensMove
  <1>2. ASSUME NEW d \in Conns PROVE ConnOK(d)'
    <2>1. CASE Access!Tick \/ UNCHANGED Access!vars
      <3>1. SameConnection(d)
        BY <2>1 DEF Access!Tick, Access!vars, Access!conn, SameConnection
      <3> QED BY <1>1, <3>1, SameConn
    <2>2. ASSUME NEW c \in Conns, ConnStep(c) PROVE ConnOK(d)'
      <3>1. CASE d = c
        BY <2>2, <3>1, ConnMoves
      <3>2. CASE d # c
        <4>1. SameConnection(d)
          BY <2>2, <3>2, OthersSame
        <4> QED BY <1>1, <4>1, SameConn
      <3> QED BY <3>1, <3>2
    <2> QED BY <2>1, <2>2, StepKinds
  <1> QED BY <1>1, <1>2 DEF AuthInv, ConnsInv

LEMMA AuthAlways == ASSUME Access!AccountsAssumption PROVE Access!Spec => []AuthInv
  <1>1. Access!Init => AuthInv
    BY AccountTypesInit
  <1>2. AuthInv /\ [Access!Next]_Access!vars => AuthInv'
    BY AuthStep
  <1> QED BY <1>1, <1>2, PTL DEF Access!Spec

\* No token can do more than the account it was issued by, and of the Router's own
\* services it reaches whoami only: for any accounts, whatever scopes were asked for.
THEOREM TokensCorrect ==
  ASSUME Access!AccountsAssumption
  PROVE  Access!Spec => [](Access!TokensWithinIssuer /\ Access!TokensLeaveManagement)
  <1>1. AuthInv => Access!TokensWithinIssuer /\ Access!TokensLeaveManagement
    BY DEF AuthInv, TokensInv, TokenOK, Access!TokensWithinIssuer, Access!TokensLeaveManagement,
           Access!MayReach
  <1> QED BY <1>1, AuthAlways, PTL

-------------------------------------------------------------------------------
(* A revoked token has no peer whose context is alive.                     *)

\* A peer was one before, as the same user and no less cancelled, or enters now.
LEMMA PeerOrigin ==
  ASSUME Access!AccountsAssumption, AuthInv, [Access!Next]_Access!vars, NEW d \in Conns, Access!IsPeer(d)'
  PROVE  \/ Access!IsPeer(d) /\ user'[d] = user[d] /\ (cancelled[d] => cancelled'[d])
         \/ Access!EnterPeers(d)
  <1>1. CASE Access!Tick \/ UNCHANGED Access!vars
    BY <1>1 DEF Access!Tick, Access!vars, Access!conn, Access!IsPeer
  <1>2. ASSUME NEW c \in Conns, ConnStep(c), c # d
        PROVE  Access!IsPeer(d) /\ user'[d] = user[d] /\ (cancelled[d] => cancelled'[d])
    BY <1>2, OthersSame DEF SameConnection, Access!IsPeer
  <1>3. CASE ConnStep(d)
    <2>0. AccountTypes
      BY DEF AuthInv
    <2>1. ~(\E h \in Access!Headers : Access!Arrive(d, h)) /\ ~LeavesHandler(d) /\ ~Access!CheckNone(d) /\ ~Access!TakeSlot(d)
      BY <2>0
      DEF Access!Arrive, LeavesHandler, Access!Return, Access!CheckNone, Access!TakeSlot,
          Access!IsPeer, AccountTypes
    <2>2. ~(\E u : Identifies(d, u))
      BY <2>0 DEF Identifies, Access!Identify, Access!IsPeer, AccountTypes
    <2>3. CASE \/ \E r \in {"client", "server"} : Access!Hello(d, r)
               \/ \E names \in SUBSET AccountServices : Access!Register(d, names)
               \/ \E s \in AccountServices, m \in AccountMethods : Access!Call(d, s, m)
               \/ \E call \in AccountServices \X AccountMethods : Access!CallEnds(d, call)
      BY <2>0, <2>3 DEF Access!Hello, Access!Register, Access!Call, Access!CallEnds, Access!IsPeer
    <2>4. CASE Access!ForwardStale(d)
      BY <2>0, <2>4 DEF Access!ForwardStale, Access!IsPeer, AccountTypes
    <2>5. CASE \/ \E request \in Requests :
                    Access!IssueFull(d, request) \/ \E id \in TokenIDs : Access!IssueToken(d, request, id)
      BY <2>5 DEF Access!IssueFull, Access!IssueToken, Access!conn, Access!IsPeer
    <2>6. CASE \E id \in TokenIDs : Access!RevokeToken(d, id)
      BY <2>0, <2>6 DEF Access!RevokeToken, Access!IsPeer, AccountTypes
    <2> QED BY <1>3, <2>1, <2>2, <2>3, <2>4, <2>5, <2>6 DEF ConnStep
  <1> QED BY <1>1, <1>2, <1>3, StepKinds

\* An id leaves the table because it ran out or because it was revoked, and the
\* revocation reaches the peers in the same step.
LEMMA TokenLeaves ==
  ASSUME Access!AccountsAssumption, AuthInv, [Access!Next]_Access!vars, NEW d \in Conns, Access!IsPeer(d),
         user[d].token \in DOMAIN tokens, user[d].token \notin DOMAIN tokens'
  PROVE  cancelled'[d] \/ ~(accountNow < user[d].expires)
  <1>0. AccountTypes /\ tokens[user[d].token] = user[d]
    BY DEF AuthInv, ConnsInv, ConnOK
  <1>1. ~UNCHANGED tokens
    OBVIOUS
  <1>2. ~Access!Tick /\ ~UNCHANGED Access!vars
    BY <1>1 DEF Access!Tick, Access!vars
  <1>3. PICK c \in Conns : ConnStep(c)
    BY <1>2, StepKinds
  <1>4. CASE \E request \in Requests :
               Access!IssueFull(c, request) \/ \E id \in TokenIDs : Access!IssueToken(c, request, id)
    <2>1. user[d].token \notin Access!Unexpired
      BY <1>4 DEF Access!IssueFull, Access!IssueToken
    <2> QED BY <1>0, <2>1 DEF Access!Unexpired
  <1>5. ASSUME NEW id \in TokenIDs, Access!RevokeToken(c, id) PROVE cancelled'[d]
    <2>1. user[d].token = id
      BY <1>5 DEF Access!RevokeToken
    <2> QED BY <1>5, <2>1 DEF Access!RevokeToken, Access!RevokesPeer
  <1> QED BY <1>1, <1>3, <1>4, <1>5
          DEF ConnStep, Access!Arrive, LeavesHandler, Access!CheckNone, Access!TakeSlot,
              Access!EnterPeers, Access!ForwardStale, Identifies, Access!Hello, Access!Register,
              Access!Call, Access!CallEnds, Access!Auth

LEMMA ClockMoves ==
  ASSUME Access!AccountsAssumption, AuthInv, [Access!Next]_Access!vars
  PROVE  accountNow \in Nat /\ accountNow' \in Nat /\ accountNow <= accountNow'
  <1>0. accountNow \in Nat
    BY NowIsNat
  <1>1. CASE Access!Tick
    BY <1>0, <1>1 DEF Access!Tick
  <1>2. CASE UNCHANGED accountNow
    BY <1>0, <1>2
  <1>3. ASSUME NEW c \in Conns, ConnStep(c) PROVE UNCHANGED accountNow
    BY <1>3, Zenon
    DEF ConnStep, Access!Arrive, LeavesHandler, Access!CheckNone, Access!TakeSlot,
        Access!EnterPeers, Access!ForwardStale, Identifies, Access!Hello, Access!Register,
        Access!Call, Access!CallEnds, Access!IssueFull, Access!IssueToken, Access!RevokeToken,
        Access!Auth
  <1> QED BY <1>1, <1>2, <1>3, StepKinds DEF Access!vars

LEMMA RevocationInit == ASSUME Access!Init PROVE Access!RevokedPeersEnded
  BY DEF Access!Init, Access!RevokedPeersEnded, Access!IsPeer

LEMMA RevocationStep ==
  ASSUME Access!AccountsAssumption, AuthInv, Access!RevokedPeersEnded, [Access!Next]_Access!vars
  PROVE  Access!RevokedPeersEnded'
  <1> SUFFICES ASSUME NEW d \in Conns, Access!IsPeer(d)', user'[d].token # Access!NoToken,
                      user'[d].token \notin DOMAIN tokens'
               PROVE  Access!CtxEnded(d)'
    BY DEF Access!RevokedPeersEnded
  <1>1. ASSUME Access!EnterPeers(d) PROVE FALSE
    <2>1. user'[d] = user[d] /\ tokens' = tokens /\ Access!Valid(user[d])
      BY <1>1 DEF Access!EnterPeers, Access!Enters, Access!Auth
    <2> QED BY <2>1 DEF Access!Valid
  <1>2. Access!IsPeer(d) /\ user'[d] = user[d] /\ (cancelled[d] => cancelled'[d])
    BY <1>1, PeerOrigin
  <1>3. accountNow \in Nat /\ accountNow' \in Nat /\ accountNow <= accountNow'
    BY ClockMoves
  <1>4. user[d].expires \in Nat
    <2>1. UserOK(user[d]) /\ used \subseteq TokenIDs
      BY DEF AuthInv, ConnsInv, ConnOK, AccountTypes
    <2>2. TokenOK(user[d])
      BY <1>2, <2>1, KnownIdentities
    <2> QED BY <2>2 DEF TokenOK
  <1>5. cancelled'[d] \/ ~(accountNow < user[d].expires)
    <2>1. CASE user[d].token \in DOMAIN tokens
      BY <1>2, <2>1, TokenLeaves
    <2>2. CASE user[d].token \notin DOMAIN tokens
      <3>1. Access!CtxEnded(d)
        BY <1>2, <2>2 DEF Access!RevokedPeersEnded
      <3> QED BY <1>2, <3>1 DEF Access!CtxEnded
    <2> QED BY <2>1, <2>2
  <1>6. ~(accountNow < user[d].expires) => ~(accountNow' < user'[d].expires)
    BY <1>2, <1>3, <1>4
  <1> QED BY <1>2, <1>5, <1>6 DEF Access!CtxEnded

\* A peer whose token was revoked has a context that has ended, also when the
\* revocation fell between its authentication and its entry among the peers.
THEOREM RevocationCorrect ==
  ASSUME Access!AccountsAssumption
  PROVE  Access!Spec => []Access!RevokedPeersEnded
  <1>1. Access!Init => Access!RevokedPeersEnded
    BY RevocationInit
  <1>2. AuthInv /\ Access!RevokedPeersEnded /\ [Access!Next]_Access!vars => Access!RevokedPeersEnded'
    BY RevocationStep
  <1> QED BY <1>1, <1>2, AuthAlways, PTL DEF Access!Spec

-------------------------------------------------------------------------------
(* What a connection has open is what its account may do.                  *)

WithinConn(c) ==
  user[c].kind \in {"account", "token"} =>
    LET account == Accounts[user[c].username]
    IN  /\ \A call \in opened[c] : Access!allowsCall(account, call[1], call[2])
        /\ \A s \in serving[c] : Access!allowsRegistration(account, s)

\* What a user may do, the account behind it may.
LEMMA AccountMay ==
  ASSUME Access!AccountsAssumption, AuthInv, NEW c \in Conns, user[c].kind \in {"account", "token"}
  PROVE  /\ \A s \in AccountServices, m \in AccountMethods :
              Access!allowsCall(user[c], s, m) => Access!allowsCall(Accounts[user[c].username], s, m)
         /\ \A s \in AccountServices :
              Access!allowsRegistration(user[c], s)
                => Access!allowsRegistration(Accounts[user[c].username], s)
  <1>1. UserOK(user[c]) /\ used \subseteq TokenIDs
    BY DEF AuthInv, ConnsInv, ConnOK, AccountTypes
  <1>2. CASE user[c].kind = "account"
    BY <1>1, <1>2, KnownIdentities
  <1>3. CASE user[c].kind = "token"
    <2>1. TokenOK(user[c])
      BY <1>1, <1>3, KnownIdentities
    <2> QED BY <2>1 DEF TokenOK
  <1> QED BY <1>2, <1>3

LEMMA AccountsInit == ASSUME Access!Init PROVE Access!WithinAccount
  BY DEF Access!Init, Access!WithinAccount

LEMMA WithinStep ==
  ASSUME Access!AccountsAssumption, AuthInv, Access!WithinAccount, [Access!Next]_Access!vars
  PROVE  Access!WithinAccount'
  <1>0. AccountTypes /\ AuthInv'
    BY AuthStep DEF AuthInv
  <1>e. ASSUME NEW d \in Conns, opened'[d] = {}, serving'[d] = {} PROVE WithinConn(d)'
    BY <1>e DEF WithinConn
  <1>s. ASSUME NEW d \in Conns, user'[d] = user[d], opened'[d] \subseteq opened[d],
               serving'[d] \subseteq serving[d]
        PROVE  WithinConn(d)'
    BY <1>s DEF Access!WithinAccount, WithinConn
  <1>1. ASSUME NEW d \in Conns, Access!Tick \/ UNCHANGED Access!vars PROVE WithinConn(d)'
    BY <1>1, <1>s DEF Access!Tick, Access!vars, Access!conn
  <1>2. ASSUME NEW d \in Conns, NEW c \in Conns, ConnStep(c), c # d PROVE WithinConn(d)'
    BY <1>2, <1>s, OthersSame DEF SameConnection
  <1>3. ASSUME NEW d \in Conns, ConnStep(d) PROVE WithinConn(d)'
    <2>1. CASE ~Access!IsPeer(d)'
      BY <1>0, <1>e, <2>1 DEF AuthInv, ConnsInv, ConnOK
    <2>2. CASE Access!EnterPeers(d)
      BY <1>s, <2>2 DEF Access!EnterPeers
    <2>3. ASSUME NEW s \in AccountServices, NEW m \in AccountMethods, Access!Call(d, s, m), Access!IsPeer(d)'
          PROVE  WithinConn(d)'
      <3>1. /\ user' = user /\ serving' = serving /\ opened'[d] = opened[d] \cup {<<s, m>>}
            /\ Access!allowsCall(user[d], s, m)
        BY <1>0, <2>3 DEF Access!Call, Access!MayCall, Access!MayReach, AccountTypes,
                          Access!AccountsAssumption
      <3>2. user[d].kind \in {"account", "token"}
              => Access!allowsCall(Accounts[user[d].username], s, m)
        BY <3>1, AccountMay
      <3>3. \A call \in opened'[d] : call \in opened[d] \/ (call[1] = s /\ call[2] = m)
        BY <3>1
      <3> QED BY <3>1, <3>2, <3>3 DEF Access!WithinAccount, WithinConn
    <2>4. ASSUME NEW names \in SUBSET AccountServices, Access!Register(d, names) PROVE WithinConn(d)'
      <3>1. /\ user' = user /\ opened' = opened /\ serving'[d] = names
            /\ \A s \in names : Access!allowsRegistration(user[d], s)
        BY <1>0, <2>4 DEF Access!Register, AccountTypes
      <3>2. user[d].kind \in {"account", "token"} =>
              \A s \in names : Access!allowsRegistration(Accounts[user[d].username], s)
        BY <3>1, AccountMay
      <3> QED BY <3>1, <3>2 DEF Access!WithinAccount, WithinConn
    <2>5. CASE (\E r \in {"client", "server"} : Access!Hello(d, r)) \/ Access!ForwardStale(d)
      BY <1>s, <2>5 DEF Access!Hello, Access!ForwardStale
    <2>8. ASSUME NEW call \in AccountServices \X AccountMethods, Access!CallEnds(d, call) PROVE WithinConn(d)'
      <3>1. user' = user /\ serving' = serving /\ opened'[d] = opened[d] \ {call}
        BY <1>0, <2>8 DEF Access!CallEnds, AccountTypes
      <3> QED BY <1>s, <3>1
    <2>6. CASE \/ \E request \in Requests :
                    Access!IssueFull(d, request) \/ \E id \in TokenIDs : Access!IssueToken(d, request, id)
               \/ \E id \in TokenIDs : Access!RevokeToken(d, id)
      BY <1>s, <2>6 DEF Access!IssueFull, Access!IssueToken, Access!RevokeToken, Access!conn
    <2>7. Access!IsPeer(d)' => /\ ~(\E h \in Access!Headers : Access!Arrive(d, h)) /\ ~LeavesHandler(d)
                               /\ ~Access!CheckNone(d) /\ ~Access!TakeSlot(d) /\ ~(\E u : Identifies(d, u))
      BY <1>0
      DEF Access!Arrive, LeavesHandler, Access!Return, Access!CheckNone, Access!TakeSlot,
          Identifies, Access!Identify, Access!IsPeer, AccountTypes
    <2> QED BY <1>3, <2>1, <2>2, <2>3, <2>4, <2>5, <2>6, <2>7, <2>8 DEF ConnStep
  <1>4. \A d \in Conns : WithinConn(d)'
    BY <1>1, <1>2, <1>3, StepKinds
  <1> QED BY <1>4 DEF Access!WithinAccount, WithinConn

\* Whatever is open on a connection, and whatever it serves, its account may
\* call and register: also where the connection came with a token.
THEOREM AccountsHold ==
  ASSUME Access!AccountsAssumption
  PROVE  Access!Spec => []Access!WithinAccount
  <1>1. Access!Init => Access!WithinAccount
    BY AccountsInit
  <1>2. AuthInv /\ Access!WithinAccount /\ [Access!Next]_Access!vars => Access!WithinAccount'
    BY WithinStep
  <1> QED BY <1>1, <1>2, AuthAlways, PTL DEF Access!Spec

-------------------------------------------------------------------------------
(* The admission counters and the limits.                                  *)

Active == {c \in Conns : connPc[c] # "idle"}
Admitted == {c \in Conns : connPc[c] \notin {"idle", "over"}}
Anons == {c \in Conns : user[c].kind = "anonymous"}
AdmittedAnons == {c \in Admitted : user[c].kind = "anonymous"}

CountersInv ==
  /\ connections = Access!Cardinality(Active)
  /\ anonymous = Access!Cardinality(Anons)
  /\ Access!Cardinality(Admitted) <= MaxConnections
  /\ Access!Cardinality(AdmittedAnons) <= MaxAnonymousConnections
  /\ Access!Cardinality(Access!Hashing) <= Slots

LEMMA CountSets ==
  ASSUME Access!AccountsAssumption, NEW S, S \subseteq Conns
  PROVE  /\ Access!IsFiniteSet(S) /\ Access!Cardinality(S) \in Nat
         /\ \A c \in Conns \ S : Access!Cardinality(S \cup {c}) = Access!Cardinality(S) + 1
         /\ \A c \in S : Access!Cardinality(S \ {c}) = Access!Cardinality(S) - 1
         /\ \A T : T \subseteq S => Access!Cardinality(T) \in Nat /\ Access!Cardinality(T) <= Access!Cardinality(S)
  <1>1. Access!IsFiniteSet(Conns)
    BY DEF Access!AccountsAssumption
  <1>2. Access!IsFiniteSet(S) /\ Access!Cardinality(S) \in Nat
    BY <1>1, AccessFinite
  <1>3. ASSUME NEW T, T \subseteq S
        PROVE  Access!Cardinality(T) \in Nat /\ Access!Cardinality(T) <= Access!Cardinality(S)
    BY <1>2, <1>3, AccessFinite
  <1> QED BY <1>2, <1>3, AccessFinite

LEMMA LimitsAreNat ==
  ASSUME Access!AccountsAssumption
  PROVE  MaxConnections \in Nat /\ MaxAnonymousConnections \in Nat /\ Slots \in Nat
  BY DEF Access!AccountsAssumption

\* A step that moves no connection into or out of the counted sets.
QuietAccounts ==
  /\ UNCHANGED <<connections, anonymous>>
  /\ Active' = Active /\ Anons' = Anons
  /\ Admitted' = Admitted /\ AdmittedAnons' = AdmittedAnons

\* Only these steps change what is counted.
LEMMA QuietAccountSteps ==
  ASSUME Access!AccountsAssumption, AuthInv, [Access!Next]_Access!vars
  PROVE  \/ QuietAccounts /\ (Access!Hashing' = Access!Hashing \/ \E c \in Conns : Access!TakeSlot(c))
         \/ \E c \in Conns : \/ \E h \in Access!Headers : Access!Arrive(c, h)
                             \/ LeavesHandler(c) \/ Access!CheckNone(c)
                             \/ \E u : Identifies(c, u)
  <1> DEFINE Goal == QuietAccounts /\ (Access!Hashing' = Access!Hashing \/ \E c \in Conns : Access!TakeSlot(c))
  <1>0. AccountTypes
    BY DEF AuthInv
  <1>1. ASSUME UNCHANGED <<connections, anonymous, user, connPc>> PROVE Goal
    BY <1>1 DEF QuietAccounts, Active, Anons, Admitted, AdmittedAnons, Access!Hashing
  <1>2. ASSUME UNCHANGED <<connections, anonymous, user>>, NEW c \in Conns, NEW to,
               connPc[c] \notin {"idle", "over", "hashing"}, to \notin {"idle", "over"},
               connPc' = [connPc EXCEPT ![c] = to],
               to # "hashing" \/ Access!TakeSlot(c)
        PROVE  Goal
    <2>1. \A d \in Conns : d # c => connPc'[d] = connPc[d]
      BY <1>0, <1>2 DEF AccountTypes
    <2>2. connPc'[c] = to
      BY <1>0, <1>2 DEF AccountTypes
    <2>3. Active' = Active /\ Admitted' = Admitted
      BY <1>2, <2>1, <2>2 DEF Active, Admitted
    <2>4. Anons' = Anons /\ AdmittedAnons' = AdmittedAnons
      BY <1>2, <2>3 DEF Anons, AdmittedAnons
    <2>5. to # "hashing" => Access!Hashing' = Access!Hashing
      BY <1>2, <2>1, <2>2 DEF Access!Hashing
    <2> QED BY <1>2, <2>3, <2>4, <2>5 DEF QuietAccounts
  <1>3. ASSUME NEW c \in Conns, ConnStep(c)
        PROVE  \/ Goal
               \/ \E h \in Access!Headers : Access!Arrive(c, h)
               \/ LeavesHandler(c) \/ Access!CheckNone(c)
               \/ \E u : Identifies(c, u)
    <2>1. CASE Access!TakeSlot(c)
      BY <1>2, <2>1 DEF Access!TakeSlot
    <2>2. CASE Access!EnterPeers(c)
      BY <1>2, <2>2 DEF Access!EnterPeers
    <2>3. ASSUME NEW r \in {"client", "server"}, Access!Hello(c, r) PROVE Goal
      BY <1>2, <2>3 DEF Access!Hello
    <2>4. ASSUME NEW names \in SUBSET AccountServices, Access!Register(c, names) PROVE Goal
      BY <1>2, <2>4 DEF Access!Register
    <2>5. CASE \/ Access!ForwardStale(c)
               \/ \E s \in AccountServices, m \in AccountMethods : Access!Call(c, s, m)
               \/ \E call \in AccountServices \X AccountMethods : Access!CallEnds(c, call)
               \/ \E id \in TokenIDs : Access!RevokeToken(c, id)
      BY <1>1, <2>5 DEF Access!ForwardStale, Access!Call, Access!CallEnds, Access!RevokeToken
    <2>6. CASE \E request \in Requests :
                 Access!IssueFull(c, request) \/ \E id \in TokenIDs : Access!IssueToken(c, request, id)
      BY <1>1, <2>6 DEF Access!IssueFull, Access!IssueToken, Access!conn
    <2> QED BY <1>3, <2>1, <2>2, <2>3, <2>4, <2>5, <2>6 DEF ConnStep
  <1>4. CASE Access!Tick \/ UNCHANGED Access!vars
    BY <1>1, <1>4 DEF Access!Tick, Access!vars, Access!conn
  <1> QED BY <1>3, <1>4, StepKinds

LEMMA CountersStep ==
  ASSUME Access!AccountsAssumption, AuthInv, CountersInv, [Access!Next]_Access!vars
  PROVE  CountersInv'
  <1>0. /\ AccountTypes
        /\ Active \subseteq Conns /\ Anons \subseteq Conns /\ Admitted \subseteq Active
        /\ AdmittedAnons \subseteq Anons /\ AdmittedAnons \subseteq Admitted
        /\ Access!Hashing \subseteq Conns
    BY DEF AuthInv, Active, Anons, Admitted, AdmittedAnons, Access!Hashing
  <1>l. MaxConnections \in Nat /\ MaxAnonymousConnections \in Nat /\ Slots \in Nat
    BY LimitsAreNat
  <1>n. Access!Nobody.kind = "none" /\ Anonymous.kind = "anonymous"
    BY DEF Access!Nobody, Access!AccountsAssumption
  <1>m. ASSUME NEW S, NEW T, NEW limit \in Nat, S \subseteq Conns, T \subseteq S,
               Access!Cardinality(S) <= limit
        PROVE  Access!Cardinality(T) <= limit
    <2>1. Access!Cardinality(S) \in Nat /\ Access!Cardinality(T) \in Nat /\ Access!Cardinality(T) <= Access!Cardinality(S)
      BY <1>m, CountSets
    <2> QED BY <1>m, <2>1
  <1>1. ASSUME QuietAccounts, Access!Hashing' = Access!Hashing \/ \E c \in Conns : Access!TakeSlot(c)
        PROVE  CountersInv'
    <2>1. CASE Access!Hashing' = Access!Hashing
      BY <1>1, <2>1 DEF QuietAccounts, CountersInv
    <2>2. ASSUME NEW c \in Conns, Access!TakeSlot(c) PROVE CountersInv'
      <3>1. connPc[c] = "admitted" /\ connPc' = [connPc EXCEPT ![c] = "hashing"] /\ Access!Cardinality(Access!Hashing) < Slots
        BY <2>2 DEF Access!TakeSlot, Access!SlotFree
      <3>2. Access!Hashing' = Access!Hashing \cup {c} /\ c \in Conns \ Access!Hashing
        BY <1>0, <3>1 DEF Access!Hashing, AccountTypes
      <3>3. Access!Cardinality(Access!Hashing') = Access!Cardinality(Access!Hashing) + 1 /\ Access!Cardinality(Access!Hashing) \in Nat
        BY <1>0, <3>2, CountSets
      <3>4. Access!Cardinality(Access!Hashing') <= Slots
        BY <1>l, <3>1, <3>3
      <3> QED BY <1>1, <3>4 DEF QuietAccounts, CountersInv
    <2> QED BY <1>1, <2>1, <2>2
  <1>2. ASSUME NEW c \in Conns, NEW h \in Access!Headers, Access!Arrive(c, h) PROVE CountersInv'
    <2>1. /\ connPc[c] = "idle" /\ user' = user /\ anonymous' = anonymous
          /\ connections' = connections + 1
          /\ connPc' = [connPc EXCEPT ![c] = IF Access!Admits(connections') THEN "admitted" ELSE "over"]
      BY <1>2 DEF Access!Arrive
    <2>2. \A d \in Conns : d # c => connPc'[d] = connPc[d]
      BY <1>0, <2>1 DEF AccountTypes
    <2>3. connPc'[c] \in {"admitted", "over"} /\ (connPc'[c] = "admitted" => Access!Admits(connections'))
      BY <1>0, <2>1 DEF AccountTypes
    <2>4. user[c] = Access!Nobody
      BY <2>1 DEF AuthInv, ConnsInv, ConnOK
    <2>5. Active' = Active \cup {c} /\ c \in Conns \ Active /\ Access!Hashing' = Access!Hashing
      BY <2>1, <2>2, <2>3 DEF Active, Access!Hashing
    <2>6. Anons' = Anons /\ AdmittedAnons' = AdmittedAnons
      BY <1>n, <2>1, <2>2, <2>3, <2>4 DEF Anons, AdmittedAnons, Admitted
    <2>7. connections' = Access!Cardinality(Active')
      BY <1>0, <2>1, <2>5, CountSets DEF CountersInv
    <2>8. Access!Cardinality(Admitted') <= MaxConnections
      <3>1. CASE connPc'[c] = "over"
        <4>1. Admitted' = Admitted
          BY <2>1, <2>2, <3>1 DEF Admitted
        <4> QED BY <4>1 DEF CountersInv
      <3>2. CASE connPc'[c] = "admitted"
        <4>1. Admitted' \subseteq Active' /\ Active' \subseteq Conns
          BY DEF Admitted, Active
        <4>2. Access!Cardinality(Active') <= MaxConnections
          BY <2>3, <2>7, <3>2 DEF Access!Admits
        <4> QED BY <1>l, <1>m, <4>1, <4>2
      <3> QED BY <2>3, <3>1, <3>2
    <2> QED BY <2>1, <2>5, <2>6, <2>7, <2>8 DEF CountersInv
  <1>3. ASSUME NEW c \in Conns, LeavesHandler(c) PROVE CountersInv'
    <2>1. /\ connPc[c] # "idle" /\ connPc' = [connPc EXCEPT ![c] = "idle"]
          /\ user' = [user EXCEPT ![c] = Access!Nobody]
          /\ connections' = connections - 1 /\ anonymous' = anonymous - Access!AnonymousShare(c)
      BY <1>3 DEF LeavesHandler, Access!Return
    <2>2. /\ connPc'[c] = "idle" /\ user'[c] = Access!Nobody
          /\ \A d \in Conns : d # c => connPc'[d] = connPc[d] /\ user'[d] = user[d]
      BY <1>0, <2>1 DEF AccountTypes
    <2>3. Active' = Active \ {c} /\ c \in Active
      BY <2>1, <2>2 DEF Active
    <2>4. Anons' = Anons \ {c}
      BY <1>n, <2>2 DEF Anons
    <2>5. Admitted' \subseteq Admitted /\ Access!Hashing' \subseteq Access!Hashing
      BY <2>2 DEF Admitted, Access!Hashing
    <2>6. AdmittedAnons' \subseteq AdmittedAnons
      BY <1>0, <1>n, <2>2, <2>5 DEF AdmittedAnons
    <2>7. connections' = Access!Cardinality(Active')
      BY <1>0, <2>1, <2>3, CountSets DEF CountersInv
    <2>8. anonymous' = Access!Cardinality(Anons')
      <3>1. Access!Cardinality(Anons) \in Nat /\ anonymous = Access!Cardinality(Anons)
        BY <1>0, CountSets DEF CountersInv
      <3>2. CASE c \in Anons
        <4>1. Access!AnonymousShare(c) = 1
          BY <3>2 DEF Anons, Access!AnonymousShare
        <4>2. Access!Cardinality(Anons \ {c}) = Access!Cardinality(Anons) - 1
          BY <1>0, <3>2, CountSets
        <4> QED BY <2>1, <2>4, <3>1, <4>1, <4>2
      <3>3. CASE c \notin Anons
        <4>1. Access!AnonymousShare(c) = 0
          BY <3>3 DEF Anons, Access!AnonymousShare
        <4>2. Anons' = Anons
          BY <2>4, <3>3
        <4> QED BY <2>1, <3>1, <4>1, <4>2
      <3> QED BY <3>2, <3>3
    <2>9. /\ Access!Cardinality(Admitted') <= MaxConnections
          /\ Access!Cardinality(AdmittedAnons') <= MaxAnonymousConnections
          /\ Access!Cardinality(Access!Hashing') <= Slots
      BY <1>0, <1>l, <1>m, <2>5, <2>6 DEF CountersInv
    <2> QED BY <2>7, <2>8, <2>9 DEF CountersInv
  <1>4. ASSUME NEW c \in Conns, Access!CheckNone(c) PROVE CountersInv'
    <2>1. /\ connPc[c] = "admitted" /\ connections' = connections /\ anonymous' = anonymous + 1
          /\ user' = [user EXCEPT ![c] = Anonymous]
          /\ connPc' = [connPc EXCEPT ![c] = IF anonymous' > MaxAnonymousConnections
                                       THEN "over" ELSE "upgrading"]
      BY <1>4 DEF Access!CheckNone
    <2>2. /\ user'[c] = Anonymous /\ connPc'[c] \in {"over", "upgrading"}
          /\ connPc'[c] = "upgrading" => ~(anonymous' > MaxAnonymousConnections)
          /\ \A d \in Conns : d # c => connPc'[d] = connPc[d] /\ user'[d] = user[d]
      BY <1>0, <2>1 DEF AccountTypes
    <2>3. user[c] = Access!Nobody
      BY <2>1 DEF AuthInv, ConnsInv, ConnOK
    <2>4. Active' = Active /\ Access!Hashing' = Access!Hashing /\ Admitted' \subseteq Admitted
      BY <2>1, <2>2 DEF Active, Access!Hashing, Admitted
    <2>5. Anons' = Anons \cup {c} /\ c \in Conns \ Anons
      BY <1>n, <2>2, <2>3 DEF Anons
    <2>6. anonymous' = Access!Cardinality(Anons')
      BY <1>0, <2>1, <2>5, CountSets DEF CountersInv
    <2>7. Access!Cardinality(AdmittedAnons') <= MaxAnonymousConnections
      <3>1. CASE connPc'[c] = "over"
        <4>1. AdmittedAnons' \subseteq AdmittedAnons
          BY <2>2, <3>1 DEF AdmittedAnons, Admitted
        <4>2. AdmittedAnons \subseteq Conns
          BY <1>0
        <4> QED BY <1>l, <1>m, <4>1, <4>2 DEF CountersInv
      <3>2. CASE connPc'[c] = "upgrading"
        <4>1. AdmittedAnons' \subseteq Anons' /\ Anons' \subseteq Conns
          BY DEF AdmittedAnons, Anons, Admitted
        <4>2. Access!Cardinality(Anons') \in Nat
          BY <4>1, CountSets
        <4>3. Access!Cardinality(Anons') <= MaxAnonymousConnections
          BY <1>l, <2>2, <2>6, <3>2, <4>2
        <4> QED BY <1>l, <1>m, <4>1, <4>3
      <3> QED BY <2>2, <3>1, <3>2
    <2>8. Access!Cardinality(Admitted') <= MaxConnections
      BY <1>0, <1>l, <1>m, <2>4 DEF CountersInv
    <2> QED BY <2>1, <2>4, <2>6, <2>7, <2>8 DEF CountersInv
  <1>5. ASSUME NEW c \in Conns, NEW u, Identifies(c, u) PROVE CountersInv'
    <2>1. /\ connPc[c] \in {"admitted", "hashing"} /\ u.kind # "anonymous"
          /\ user' = [user EXCEPT ![c] = u] /\ connPc' = [connPc EXCEPT ![c] = "upgrading"]
          /\ UNCHANGED <<connections, anonymous>>
      BY <1>5 DEF Identifies, Access!Identify
    <2>2. /\ user'[c] = u /\ connPc'[c] = "upgrading"
          /\ \A d \in Conns : d # c => connPc'[d] = connPc[d] /\ user'[d] = user[d]
      BY <1>0, <2>1 DEF AccountTypes
    <2>3. user[c] = Access!Nobody
      BY <2>1 DEF AuthInv, ConnsInv, ConnOK
    <2>4. Active' = Active /\ Access!Hashing' \subseteq Access!Hashing /\ Admitted' = Admitted
      BY <2>1, <2>2 DEF Active, Access!Hashing, Admitted
    <2>5. Anons' = Anons
      BY <1>n, <2>1, <2>2, <2>3 DEF Anons
    <2>6. AdmittedAnons' = AdmittedAnons
      BY <1>n, <2>1, <2>2, <2>3, <2>4 DEF AdmittedAnons
    <2>7. Access!Cardinality(Access!Hashing') <= Slots
      BY <1>0, <1>l, <1>m, <2>4 DEF CountersInv
    <2> QED BY <2>1, <2>4, <2>5, <2>6, <2>7 DEF CountersInv
  <1> QED BY <1>1, <1>2, <1>3, <1>4, <1>5, QuietAccountSteps

LEMMA CountersInit == ASSUME Access!AccountsAssumption, Access!Init PROVE CountersInv
  <1>1. Active = {} /\ Admitted = {} /\ Access!Hashing = {} /\ AdmittedAnons = {}
    BY DEF Access!Init, Active, Admitted, Access!Hashing, AdmittedAnons
  <1>2. Anons = {}
    BY DEF Access!Init, Anons, Access!Nobody
  <1>3. Access!Cardinality({}) = 0
    BY AccessFinite
  <1>4. connections = 0 /\ anonymous = 0
    BY DEF Access!Init
  <1> QED BY <1>1, <1>2, <1>3, <1>4, LimitsAreNat DEF CountersInv

LEMMA CountersMean ==
  ASSUME AuthInv, CountersInv
  PROVE  Access!TypeOK /\ Access!CountersExact /\ Access!LimitsHold
  <1>1. \A t \in DOMAIN tokens : tokens[t].token = t /\ tokens[t].kind = "token"
    BY DEF AuthInv, TokensInv, TokenOK
  <1>2. Access!TypeOK
    BY <1>1 DEF AuthInv, AccountTypes, Access!TypeOK, CountersInv
  <1>3. Access!CountersExact /\ Access!LimitsHold
    BY DEF CountersInv, Access!CountersExact, Access!LimitsHold, Active, Anons, Admitted,
           AdmittedAnons
  <1> QED BY <1>2, <1>3

\* The counters are exactly the connections there are: every way out of the
\* handler gives back what the connection was counted in. So no more are let in,
\* and no more passwords hashed at a time, than the limits say.
THEOREM AdmissionCorrect ==
  ASSUME Access!AccountsAssumption
  PROVE  Access!Spec => [](Access!TypeOK /\ Access!CountersExact /\ Access!LimitsHold)
  <1>1. Access!Init => CountersInv
    BY CountersInit
  <1>2. AuthInv /\ CountersInv /\ [Access!Next]_Access!vars => CountersInv'
    BY CountersStep
  <1>3. AuthInv /\ CountersInv => Access!TypeOK /\ Access!CountersExact /\ Access!LimitsHold
    BY CountersMean
  <1> QED BY <1>1, <1>2, <1>3, AuthAlways, PTL DEF Access!Spec

-------------------------------------------------------------------------------
(* The tables.                                                             *)

AuthTablesInv ==
  /\ Access!TablesBounded
  /\ Access!IsFiniteSet(DOMAIN tokens) /\ Access!IsFiniteSet(DOMAIN verified)

LEMMA AddOne ==
  ASSUME NEW S, Access!IsFiniteSet(S), NEW x, NEW limit \in Nat, Access!Cardinality(S) < limit
  PROVE  Access!IsFiniteSet(S \cup {x}) /\ Access!Cardinality(S \cup {x}) <= limit
  <1>1. /\ Access!IsFiniteSet(S \cup {x}) /\ Access!Cardinality(S) \in Nat
        /\ Access!Cardinality(S \cup {x}) = Access!Cardinality(S) \/ Access!Cardinality(S \cup {x}) = Access!Cardinality(S) + 1
    BY AccessFinite
  <1> QED BY <1>1

LEMMA TokenTableStep ==
  ASSUME Access!AccountsAssumption, AuthInv, AuthTablesInv, [Access!Next]_Access!vars
  PROVE  Access!IsFiniteSet(DOMAIN tokens') /\ Access!Cardinality(DOMAIN tokens') <= TokenCapacity
  <1> DEFINE Goal == Access!IsFiniteSet(DOMAIN tokens') /\ Access!Cardinality(DOMAIN tokens') <= TokenCapacity
  <1>0. TokenCapacity \in Nat
    BY DEF Access!AccountsAssumption
  <1>1. ASSUME DOMAIN tokens' \subseteq DOMAIN tokens PROVE Goal
    <2>1. Access!IsFiniteSet(DOMAIN tokens) /\ Access!Cardinality(DOMAIN tokens) <= TokenCapacity
      BY DEF AuthTablesInv, Access!TablesBounded
    <2>2. /\ Access!IsFiniteSet(DOMAIN tokens') /\ Access!Cardinality(DOMAIN tokens') <= Access!Cardinality(DOMAIN tokens)
          /\ Access!Cardinality(DOMAIN tokens') \in Nat /\ Access!Cardinality(DOMAIN tokens) \in Nat
      BY <1>1, <2>1, AccessFinite
    <2> QED BY <1>0, <2>1, <2>2
  <1>2. ASSUME NEW c \in Conns, NEW request \in Requests, NEW id \in TokenIDs,
               Access!IssueToken(c, request, id)
        PROVE  Goal
    <2>1. /\ DOMAIN tokens' = Access!Unexpired \cup {id} /\ Access!Cardinality(Access!Unexpired) < TokenCapacity
      BY <1>2 DEF Access!IssueToken, Access!TokenRoom
    <2>2. Access!IsFiniteSet(Access!Unexpired)
      BY AccessFinite DEF Access!Unexpired, AuthTablesInv
    <2> QED BY <1>0, <2>1, <2>2, AddOne
  <1>3. CASE \E c \in Conns : \/ \E request \in Requests : Access!IssueFull(c, request)
                              \/ \E id \in TokenIDs : Access!RevokeToken(c, id)
    BY <1>1, <1>3 DEF Access!IssueFull, Access!RevokeToken, Access!Unexpired
  <1>4. CASE UNCHANGED tokens
    BY <1>1, <1>4
  <1> QED BY <1>2, <1>3, <1>4, StepKinds
          DEF Access!Tick, Access!vars, ConnStep, Access!Arrive, LeavesHandler, Access!CheckNone,
              Access!TakeSlot, Access!EnterPeers, Access!ForwardStale, Identifies, Access!Hello,
              Access!Register, Access!Call, Access!CallEnds, Access!Auth

LEMMA CacheStep ==
  ASSUME Access!AccountsAssumption, AuthInv, AuthTablesInv, [Access!Next]_Access!vars
  PROVE  Access!IsFiniteSet(DOMAIN verified') /\ Access!Cardinality(DOMAIN verified') <= CacheSize
  <1> DEFINE Goal == Access!IsFiniteSet(DOMAIN verified') /\ Access!Cardinality(DOMAIN verified') <= CacheSize
  <1>0. CacheSize \in Nat /\ 0 < CacheSize
    BY DEF Access!AccountsAssumption
  <1>1. CASE UNCHANGED verified
    BY <1>1 DEF AuthTablesInv, Access!TablesBounded
  <1>2. ASSUME NEW c \in Conns, Access!PasswordRight(c) PROVE Goal
    <2>1. PICK D : D = DOMAIN Access!CacheRoom(verified)
      OBVIOUS
    <2>2. DOMAIN verified' = D \cup {header[c]}
      BY <1>2, <2>1 DEF Access!PasswordRight
    <2>3. D = IF Access!Cardinality(DOMAIN verified) >= CacheSize THEN {} ELSE DOMAIN verified
      BY <2>1, CacheRoomDomain, Zenon
    <2>4. Access!IsFiniteSet(D) /\ Access!Cardinality(D) < CacheSize
      <3>1. CASE Access!Cardinality(DOMAIN verified) >= CacheSize
        <4>1. D = {}
          BY <2>3, <3>1
        <4>2. Access!IsFiniteSet({}) /\ Access!Cardinality({}) = 0
          BY AccessFinite
        <4> QED BY <1>0, <4>1, <4>2
      <3>2. CASE ~(Access!Cardinality(DOMAIN verified) >= CacheSize)
        <4>1. D = DOMAIN verified
          BY <2>3, <3>2
        <4>2. Access!IsFiniteSet(DOMAIN verified) /\ Access!Cardinality(DOMAIN verified) \in Nat
          BY AccessFinite DEF AuthTablesInv
        <4> QED BY <1>0, <3>2, <4>1, <4>2
      <3> QED BY <3>1, <3>2
    <2> QED BY <1>0, <2>2, <2>4, AddOne
  <1> QED BY <1>1, <1>2, StepKinds, ZenonT(40)
          DEF Access!Tick, Access!vars, ConnStep, Access!Arrive, LeavesHandler, Access!CheckNone,
              Access!TakeSlot, Access!EnterPeers, Access!ForwardStale, Identifies, Access!Hello,
              Access!Register, Access!Call, Access!CallEnds, Access!IssueFull, Access!IssueToken,
              Access!RevokeToken

LEMMA AuthTablesInit == ASSUME Access!AccountsAssumption, Access!Init PROVE AuthTablesInv
  <1>1. tokens = <<>> /\ verified = <<>>
    BY DEF Access!Init
  <1>2. DOMAIN <<>> = {}
    OBVIOUS
  <1>3. DOMAIN tokens = {} /\ DOMAIN verified = {}
    BY <1>1, <1>2
  <1>4. Access!IsFiniteSet({}) /\ Access!Cardinality({}) = 0
    BY AccessFinite
  <1>5. TokenCapacity \in Nat /\ CacheSize \in Nat
    BY DEF Access!AccountsAssumption
  <1> QED BY <1>3, <1>4, <1>5 DEF AuthTablesInv, Access!TablesBounded

LEMMA AuthTablesStep ==
  ASSUME Access!AccountsAssumption, AuthInv, AuthTablesInv, [Access!Next]_Access!vars
  PROVE  AuthTablesInv'
  BY TokenTableStep, CacheStep DEF AuthTablesInv, Access!TablesBounded

\* The token table and the cache of checked passwords stay within their bounds,
\* although expired tokens are only dropped when another one is issued.
THEOREM TablesCorrect ==
  ASSUME Access!AccountsAssumption
  PROVE  Access!Spec => []Access!TablesBounded
  <1>1. Access!Init => AuthTablesInv
    BY AuthTablesInit
  <1>2. AuthInv /\ AuthTablesInv /\ [Access!Next]_Access!vars => AuthTablesInv'
    BY AuthTablesStep
  <1>3. AuthTablesInv => Access!TablesBounded
    BY DEF AuthTablesInv
  <1> QED BY <1>1, <1>2, <1>3, AuthAlways, PTL DEF Access!Spec

-------------------------------------------------------------------------------
(* All of it in one invariant, for the suite.                              *)

AccountsInv == AuthInv /\ Access!RevokedPeersEnded /\ Access!WithinAccount /\ CountersInv /\ AuthTablesInv

LEMMA AccountsInitially == ASSUME Access!AccountsAssumption, Access!Init PROVE AccountsInv
  BY AccountTypesInit, RevocationInit, AccountsInit, CountersInit, AuthTablesInit DEF AccountsInv

LEMMA AccountsStep ==
  ASSUME Access!AccountsAssumption, AccountsInv, [Access!Next]_Access!vars
  PROVE  AccountsInv'
  BY AuthStep, RevocationStep, WithinStep, CountersStep, AuthTablesStep DEF AccountsInv

LEMMA AccountsMean ==
  ASSUME AccountsInv
  PROVE  /\ Access!TypeOK /\ Access!TokensWithinIssuer /\ Access!TokensLeaveManagement /\ Access!RevokedPeersEnded
         /\ Access!WithinAccount /\ Access!TablesBounded /\ Access!CountersExact /\ Access!LimitsHold
  <1>1. Access!TokensWithinIssuer /\ Access!TokensLeaveManagement
    BY DEF AccountsInv, AuthInv, TokensInv, TokenOK, Access!TokensWithinIssuer,
           Access!TokensLeaveManagement, Access!MayReach
  <1>2. Access!RevokedPeersEnded /\ Access!WithinAccount /\ Access!TablesBounded
    BY DEF AccountsInv, AuthTablesInv
  <1>3. Access!TypeOK /\ Access!CountersExact /\ Access!LimitsHold
    BY CountersMean DEF AccountsInv
  <1> QED BY <1>1, <1>2, <1>3

-------------------------------------------------------------------------------
(* cmd/meshcall-router: the process and its socket.                        *)

ProcessTypes ==
    /\ file \in Nat /\ file <= made /\ made \in Nat /\ made <= MaxFiles
    /\ port \subseteq WithMetrics /\ \A a, b \in port : a = b
    /\ pc \in [Routers -> {"off", "binding", "bound", "metrics", "serving",
                           "draining", "leaving"}]
    /\ bound \in [Routers -> Nat] /\ owned \in [Routers -> Nat]
    /\ \A r \in Routers : bound[r] <= made /\ owned[r] <= made
    /\ closing \in [Routers -> {"no", "begun", "unlisted", "stopped",
                                "unlinking", "done"}]
    /\ routerCalls \in [Routers -> Nat] /\ \A r \in Routers : routerCalls[r] <= MaxCalls
    /\ replaced \in BOOLEAN /\ left \in Nat /\ left <= made

\* A Router past its start.
Up(r) == pc[r] \in {"serving", "draining", "leaving"}

\* A Router that made a file and has not removed it.
Holds(r) == pc[r] \in {"bound", "metrics"} \/ (Up(r) /\ closing[r] # "done")

\* How far a Router is, and what it knows of its file.
Stages ==
    \A r \in Routers :
        /\ pc[r] \in {"off", "binding"} => bound[r] = Process!NoFile /\ owned[r] = Process!NoFile
        /\ ~Up(r) => closing[r] = "no"
        /\ pc[r] = "bound" => bound[r] = file /\ owned[r] = Process!NoFile
        /\ pc[r] = "metrics" \/ (Up(r) /\ closing[r] \in {"no", "begun"}) =>
             bound[r] = file /\ owned[r] = file
        /\ Holds(r) /\ Up(r) => owned[r] = file
        /\ closing[r] \notin {"no", "begun"} => bound[r] = Process!NoFile
        /\ Up(r) /\ closing[r] = "done" => owned[r] # file /\ owned[r] # Process!NoFile

\* The file at the path is its maker's, who alone holds one, or was left there.
OneHolder ==
    /\ \A r, q \in Routers : Holds(r) /\ Holds(q) => r = q
    /\ \A r \in Routers : Holds(r) => file # Process!NoFile
    /\ file = Process!NoFile \/ file = left \/ \E r \in Routers : Holds(r)

ProcessInv == ProcessTypes /\ Stages /\ OneHolder

-------------------------------------------------------------------------------
LEMMA ProcessInitially == ASSUME Process!ProcessAssumption, Process!Init PROVE ProcessInv
  <1>1. ProcessTypes
    <2>1. MaxCalls \in Nat /\ MaxFiles \in Nat
      BY DEF Process!ProcessAssumption
    <2>2. \A r \in Routers : bound[r] = 0 /\ owned[r] = 0 /\ routerCalls[r] = 0
      BY DEF Process!Init, Process!NoFile
    <2>3. /\ bound \in [Routers -> Nat] /\ owned \in [Routers -> Nat] /\ routerCalls \in [Routers -> Nat]
          /\ pc \in [Routers -> {"off"}] /\ closing \in [Routers -> {"no"}]
      BY DEF Process!Init, Process!NoFile
    <2>4. file = 0 /\ made = 0 /\ port = {} /\ replaced = FALSE /\ left = 0
      BY DEF Process!Init, Process!NoFile
    <2>5. /\ pc \in [Routers -> {"off", "binding", "bound", "metrics", "serving",
                                 "draining", "leaving"}]
          /\ closing \in [Routers -> {"no", "begun", "unlisted", "stopped",
                                      "unlinking", "done"}]
      BY <2>3
    <2>6. port \subseteq WithMetrics /\ \A a, b \in port : a = b
      BY <2>4
    <2>7. replaced \in BOOLEAN
      BY <2>4
    <2>8. /\ file \in Nat /\ file <= made /\ made \in Nat /\ made <= MaxFiles
          /\ left \in Nat /\ left <= made
          /\ \A r \in Routers : bound[r] <= made /\ owned[r] <= made
          /\ \A r \in Routers : routerCalls[r] <= MaxCalls
      BY <2>1, <2>2, <2>4
    <2> QED BY <2>3, <2>5, <2>6, <2>7, <2>8, Zenon DEF ProcessTypes
  <1>2. Stages
    BY DEF Process!Init, Stages, Holds, Up, Process!NoFile
  <1>3. OneHolder
    BY DEF Process!Init, OneHolder, Holds, Up, Process!NoFile
  <1> QED BY <1>1, <1>2, <1>3 DEF ProcessInv

LEMMA ProcessInvStep ==
    ASSUME Process!ProcessAssumption, ~FALSE, ProcessInv, [Process!Next]_Process!vars PROVE ProcessInv'
  <1> USE DEF ProcessInv
  <1>1. ASSUME NEW r \in Routers, Process!Look(r) PROVE ProcessInv'
    <2> USE <1>1 DEF Process!Look, Process!NoFile
    <2>1. ProcessTypes'
      BY DEF ProcessTypes, Process!ProcessAssumption
    <2>2. Stages'
      BY DEF ProcessTypes, Stages, OneHolder, Holds, Up
    <2>3. OneHolder'
      BY DEF ProcessTypes, Stages, OneHolder, Holds, Up
    <2> QED BY <2>1, <2>2, <2>3
  <1>2. ASSUME NEW r \in Routers, Process!Bind(r) PROVE ProcessInv'
    <2> USE <1>2 DEF Process!Bind, Process!CanBind, Process!NoFile
    <2>1. ProcessTypes'
      BY DEF ProcessTypes, Process!ProcessAssumption
    <2>2. Stages'
      BY DEF ProcessTypes, Stages, OneHolder, Holds, Up
    <2>3. OneHolder'
      BY DEF ProcessTypes, Stages, OneHolder, Holds, Up
    <2> QED BY <2>1, <2>2, <2>3
  <1>3. ASSUME NEW r \in Routers, Process!BindFails(r) PROVE ProcessInv'
    <2> USE <1>3 DEF Process!BindFails, Process!CanBind, Process!Abandons, Process!Gone, Process!NoFile
    <2>1. ProcessTypes'
      BY DEF ProcessTypes, Process!ProcessAssumption
    <2>2. Stages'
      BY DEF ProcessTypes, Stages, OneHolder, Holds, Up
    <2>3. OneHolder'
      BY DEF ProcessTypes, Stages, OneHolder, Holds, Up
    <2> QED BY <2>1, <2>2, <2>3
  <1>4. ASSUME NEW r \in Routers, Process!Remember(r) PROVE ProcessInv'
    <2> USE <1>4 DEF Process!Remember, Process!NoFile
    <2>1. ProcessTypes'
      BY DEF ProcessTypes, Process!ProcessAssumption
    <2>2. Stages'
      BY DEF ProcessTypes, Stages, OneHolder, Holds, Up
    <2>3. OneHolder'
      BY DEF ProcessTypes, Stages, OneHolder, Holds, Up
    <2> QED BY <2>1, <2>2, <2>3
  <1>5. ASSUME NEW r \in Routers, Process!RememberFails(r) PROVE ProcessInv'
    <2> USE <1>5 DEF Process!RememberFails, Process!Abandons, Process!Gone, Process!NoFile
    <2>1. ProcessTypes'
      BY DEF ProcessTypes, Process!ProcessAssumption
    <2>2. Stages'
      BY DEF ProcessTypes, Stages, OneHolder, Holds, Up
    <2>3. OneHolder'
      BY DEF ProcessTypes, Stages, OneHolder, Holds, Up
    <2> QED BY <2>1, <2>2, <2>3
  <1>6. ASSUME NEW r \in Routers, Process!StartMetrics(r) PROVE ProcessInv'
    <2> USE <1>6 DEF Process!StartMetrics, Process!NoFile
    <2>1. ProcessTypes'
      BY DEF ProcessTypes, Process!ProcessAssumption
    <2>2. Stages'
      BY DEF ProcessTypes, Stages, OneHolder, Holds, Up
    <2>3. OneHolder'
      BY DEF ProcessTypes, Stages, OneHolder, Holds, Up
    <2> QED BY <2>1, <2>2, <2>3
  <1>7. ASSUME NEW r \in Routers, Process!MetricsFails(r) PROVE ProcessInv'
    <2> USE <1>7 DEF Process!MetricsFails, Process!Abandons, Process!Gone, Process!NoFile
    <2>1. ProcessTypes'
      BY DEF ProcessTypes, Process!ProcessAssumption
    <2>2. Stages'
      BY DEF ProcessTypes, Stages, OneHolder, Holds, Up
    <2>3. OneHolder'
      BY DEF ProcessTypes, Stages, OneHolder, Holds, Up
    <2> QED BY <2>1, <2>2, <2>3
  <1>8. ASSUME NEW r \in Routers, Process!CallOpens(r) PROVE ProcessInv'
    <2> USE <1>8 DEF Process!CallOpens, Process!NoFile
    <2>1. ProcessTypes'
      BY DEF ProcessTypes, Process!ProcessAssumption
    <2>2. Stages'
      BY DEF ProcessTypes, Stages, OneHolder, Holds, Up
    <2>3. OneHolder'
      BY DEF ProcessTypes, Stages, OneHolder, Holds, Up
    <2> QED BY <2>1, <2>2, <2>3
  <1>9. ASSUME NEW r \in Routers, Process!CallEnds(r) PROVE ProcessInv'
    <2> USE <1>9 DEF Process!CallEnds, Process!CanEnd, Process!NoFile
    <2>1. ProcessTypes'
      BY DEF ProcessTypes, Process!ProcessAssumption
    <2>2. Stages'
      BY DEF ProcessTypes, Stages, OneHolder, Holds, Up
    <2>3. OneHolder'
      BY DEF ProcessTypes, Stages, OneHolder, Holds, Up
    <2> QED BY <2>1, <2>2, <2>3
  <1>10. ASSUME NEW r \in Routers, Process!Signal(r) PROVE ProcessInv'
    <2> USE <1>10 DEF Process!Signal, Process!Goes, Process!NoFile
    <2>1. ProcessTypes'
      BY DEF ProcessTypes, Process!ProcessAssumption
    <2>2. Stages'
      BY DEF ProcessTypes, Stages, OneHolder, Holds, Up
    <2>3. OneHolder'
      BY DEF ProcessTypes, Stages, OneHolder, Holds, Up
    <2> QED BY <2>1, <2>2, <2>3
  <1>11. ASSUME NEW r \in Routers, Process!ParentGone(r) PROVE ProcessInv'
    <2> USE <1>11 DEF Process!ParentGone, Process!Goes, Process!NoFile
    <2>1. ProcessTypes'
      BY DEF ProcessTypes, Process!ProcessAssumption
    <2>2. Stages'
      BY DEF ProcessTypes, Stages, OneHolder, Holds, Up
    <2>3. OneHolder'
      BY DEF ProcessTypes, Stages, OneHolder, Holds, Up
    <2> QED BY <2>1, <2>2, <2>3
  <1>12. ASSUME NEW r \in Routers, Process!ListenerStopped(r) PROVE ProcessInv'
    <2> USE <1>12 DEF Process!ListenerStopped, Process!Goes, Process!NoFile
    <2>1. ProcessTypes'
      BY DEF ProcessTypes, Process!ProcessAssumption
    <2>2. Stages'
      BY DEF ProcessTypes, Stages, OneHolder, Holds, Up
    <2>3. OneHolder'
      BY DEF ProcessTypes, Stages, OneHolder, Holds, Up
    <2> QED BY <2>1, <2>2, <2>3
  <1>13. ASSUME NEW r \in Routers, Process!Drained(r) PROVE ProcessInv'
    <2> USE <1>13 DEF Process!Drained, Process!Goes, Process!NoFile
    <2>1. ProcessTypes'
      BY DEF ProcessTypes, Process!ProcessAssumption
    <2>2. Stages'
      BY DEF ProcessTypes, Stages, OneHolder, Holds, Up
    <2>3. OneHolder'
      BY DEF ProcessTypes, Stages, OneHolder, Holds, Up
    <2> QED BY <2>1, <2>2, <2>3
  <1>14. ASSUME NEW r \in Routers, Process!DrainTimeout(r) PROVE ProcessInv'
    <2> USE <1>14 DEF Process!DrainTimeout, Process!TimesOut, Process!Goes, Process!NoFile
    <2>1. ProcessTypes'
      BY DEF ProcessTypes, Process!ProcessAssumption
    <2>2. Stages'
      BY DEF ProcessTypes, Stages, OneHolder, Holds, Up
    <2>3. OneHolder'
      BY DEF ProcessTypes, Stages, OneHolder, Holds, Up
    <2> QED BY <2>1, <2>2, <2>3
  <1>15. ASSUME NEW r \in Routers, Process!CloseBegins(r) PROVE ProcessInv'
    <2> USE <1>15 DEF Process!CloseBegins, Process!Closes, Process!NoFile
    <2>1. ProcessTypes'
      BY DEF ProcessTypes, Process!ProcessAssumption
    <2>2. Stages'
      BY DEF ProcessTypes, Stages, OneHolder, Holds, Up
    <2>3. OneHolder'
      BY DEF ProcessTypes, Stages, OneHolder, Holds, Up
    <2> QED BY <2>1, <2>2, <2>3
  <1>16. ASSUME NEW r \in Routers, Process!CloseListener(r) PROVE ProcessInv'
    <2> USE <1>16 DEF Process!CloseListener, Process!Closes, Process!NoFile
    <2>1. ProcessTypes'
      BY DEF ProcessTypes, Process!ProcessAssumption
    <2>2. Stages'
      BY DEF ProcessTypes, Stages, OneHolder, Holds, Up
    <2>3. OneHolder'
      BY DEF ProcessTypes, Stages, OneHolder, Holds, Up
    <2> QED BY <2>1, <2>2, <2>3
  <1>17. ASSUME NEW r \in Routers, Process!CloseStops(r) PROVE ProcessInv'
    <2> USE <1>17 DEF Process!CloseStops, Process!Closes, Process!NoFile
    <2>1. ProcessTypes'
      BY DEF ProcessTypes, Process!ProcessAssumption
    <2>2. Stages'
      BY DEF ProcessTypes, Stages, OneHolder, Holds, Up
    <2>3. OneHolder'
      BY DEF ProcessTypes, Stages, OneHolder, Holds, Up
    <2> QED BY <2>1, <2>2, <2>3
  <1>18. ASSUME NEW r \in Routers, Process!CloseLooks(r) PROVE ProcessInv'
    <2> USE <1>18 DEF Process!CloseLooks, Process!Closes, Process!SameFile, Process!NoFile
    <2>1. ProcessTypes'
      BY DEF ProcessTypes, Process!ProcessAssumption
    <2>2. Stages'
      BY DEF ProcessTypes, Stages, OneHolder, Holds, Up
    <2>3. OneHolder'
      BY DEF ProcessTypes, Stages, OneHolder, Holds, Up
    <2> QED BY <2>1, <2>2, <2>3
  <1>19. ASSUME NEW r \in Routers, Process!CloseRemoves(r) PROVE ProcessInv'
    <2> USE <1>19 DEF Process!CloseRemoves, Process!Closes, Process!NoFile
    <2>1. ProcessTypes'
      BY DEF ProcessTypes, Process!ProcessAssumption
    <2>2. Stages'
      BY DEF ProcessTypes, Stages, OneHolder, Holds, Up
    <2>3. OneHolder'
      BY DEF ProcessTypes, Stages, OneHolder, Holds, Up
    <2> QED BY <2>1, <2>2, <2>3
  <1>20. ASSUME NEW r \in Routers, Process!Exit(r) PROVE ProcessInv'
    <2> USE <1>20 DEF Process!Exit, Process!Leaves, Process!Gone, Process!NoFile
    <2>1. ProcessTypes'
      BY DEF ProcessTypes, Process!ProcessAssumption
    <2>2. Stages'
      BY DEF ProcessTypes, Stages, OneHolder, Holds, Up
    <2>3. OneHolder'
      BY DEF ProcessTypes, Stages, OneHolder, Holds, Up
    <2> QED BY <2>1, <2>2, <2>3
  <1>21. ASSUME NEW r \in Routers, Process!Killed(r) PROVE ProcessInv'
    <2> USE <1>21 DEF Process!Killed, Process!Abandons, Process!Gone, Process!NoFile
    <2>1. ProcessTypes'
      BY DEF ProcessTypes, Process!ProcessAssumption
    <2>2. Stages'
      BY DEF ProcessTypes, Stages, OneHolder, Holds, Up
    <2>3. OneHolder'
      BY DEF ProcessTypes, Stages, OneHolder, Holds, Up
    <2> QED BY <2>1, <2>2, <2>3
  <1>22. ASSUME UNCHANGED Process!vars PROVE ProcessInv'
    BY <1>22 DEF Process!vars, ProcessTypes, Stages, OneHolder, Holds, Up, Process!NoFile
  <1> QED BY <1>1, <1>2, <1>3, <1>4, <1>5, <1>6, <1>7, <1>8, <1>9, <1>10, <1>11, <1>12, <1>13,
             <1>14, <1>15, <1>16, <1>17, <1>18, <1>19, <1>20, <1>21, <1>22
          DEF Process!Next, Process!Starting, Process!Leaving, Process!Closing,
              Process!OperatorRemoves

LEMMA ProcessMeans ==
    ASSUME Process!ProcessAssumption, ProcessInv
    PROVE  Process!TypeOK /\ Process!ReachableAtItsPath /\ Process!PathFreeAfterwards
  <1>1. Process!ReachableAtItsPath /\ Process!PathFreeAfterwards
    BY DEF ProcessInv, Stages, OneHolder, Up, Holds, Process!ReachableAtItsPath,
           Process!PathFreeAfterwards
  <1>2. Cardinality(port) <= 1
    <2>1. CASE port = {}
      BY <2>1, FS_EmptySet
    <2>2. CASE port # {}
      <3>1. PICK a \in port : TRUE
        BY <2>2
      <3>2. port = {a}
        BY DEF ProcessInv, ProcessTypes
      <3> QED BY <3>2, FS_Singleton
    <2> QED BY <2>1, <2>2
  <1>3. Process!TypeOK
    BY <1>2, Counting DEF ProcessInv, ProcessTypes, Process!TypeOK, Process!ProcessAssumption
  <1> QED BY <1>1, <1>3

-------------------------------------------------------------------------------
(* cmd/meshcall-router: flags, environment and limits.                     *)

\* What the operator asked for, and otherwise the default.
Merged(f) == IF Starting!Asked(f) = Nothing THEN Starting!Default[f] ELSE Starting!Asked(f)

\* The same with the command's zeros that mean "none".
Checked(f) == IF f \in Starting!ZeroIsNone /\ Merged(f) = 0 THEN -1 ELSE Merged(f)

\* The flags that applyEnvironment has still to visit.
Coming == {Starting!FlagOrder[i] : i \in at..Len(Starting!FlagOrder)}

InputInv ==
    /\ \A f \in Starting!Flags : cmd[f] \in Starting!Input(f) /\ env[f] \in Starting!Input(f)
    /\ inline \in BOOLEAN
    /\ phase \in {"parse", "env", "check", "auth", "start", "running", "failed", "shown"}
    /\ at \in Nat \ {0} /\ DOMAIN config = Starting!Flags
    /\ phase /= "parse" /\ phase /= "failed" => \A f \in Starting!Flags : cmd[f] /= Bad
    /\ phase = "parse" => config = Starting!Default /\ at = 1

\* A flag takes its variable's value when it is visited, and not before.
VisitInv ==
    phase = "env" =>
        \A f \in Starting!Flags :
            /\ cmd[f] /= Nothing => config[f] = cmd[f] /\ f \in actual
            /\ cmd[f] = Nothing => config[f] = Starting!Default[f] \/ config[f] = env[f]
            /\ cmd[f] = Nothing /\ env[f] = Nothing => config[f] = Starting!Default[f] /\ f \notin actual
            /\ cmd[f] = Nothing /\ env[f] /= Nothing /\ f \notin Coming =>
                 config[f] = env[f] /\ env[f] /= Bad /\ f \in actual

\* From then on every flag has what was asked for.
MergedInv ==
    /\ phase \in {"check", "auth", "start", "running"} => \A f \in Starting!Flags : Starting!Asked(f) /= Bad
    /\ phase = "check" => \A f \in Starting!Flags : /\ config[f] = Merged(f)
                                                    /\ f \in actual <=> Starting!Asked(f) /= Nothing
    /\ phase \in {"auth", "start"} => \A f \in Starting!Flags : config[f] = Checked(f)

LocalOnly ==
    Text \in {Starting!Asked("unix-socket"), Starting!Asked("pipe")} =>
        Starting!Asked("host") = Nothing /\ Starting!Asked("port") = Nothing

AuthAsked ==
    auth = CASE inline /\ Starting!Asked("auth-file") = Nothing -> "inline"
             [] ~inline /\ Starting!Asked("auth-file") /= Nothing -> "file"
             [] ~inline /\ Starting!Asked("auth-file") = Nothing -> "none"
             [] OTHER -> "both"

SettingsInv ==
    /\ InputInv /\ VisitInv /\ MergedInv
    /\ phase \in {"auth", "start", "running"} => LocalOnly
    /\ phase \in {"start", "running"} => AuthAsked
    /\ blamed /= Nothing => blamed \in Starting!Flags /\ cmd[blamed] = Nothing /\ env[blamed] = Bad
    /\ Starting!GivenIsInForce /\ Starting!RunsWithinLimits /\ Starting!LocalIsExclusive

-------------------------------------------------------------------------------
LEMMA FlagsAre ==
    /\ Len(Starting!FlagOrder) = 18
    /\ \A i \in 1..18 : Starting!FlagOrder[i] \in Starting!Flags
    /\ Starting!Flags = {"auth-file", "breaker-cooldown", "breaker-threshold", "deadline-grace",
       "host", "http-default-timeout", "http-max-inflight", "http-max-timeout",
       "idle-timeout", "max-anonymous-connections", "max-calls-per-connection",
       "max-connections", "max-frame-size", "outbox-size", "pipe", "port",
       "shutdown-timeout", "unix-socket"}
  <1>1. Len(Starting!FlagOrder) = 18
    BY DEF Starting!FlagOrder
  <1>2. 1..18 = {1, 2, 3, 4, 5, 6, 7, 8, 9, 10, 11, 12, 13, 14, 15, 16, 17, 18}
    OBVIOUS
  <1>3. Starting!Flags = {Starting!FlagOrder[i] : i \in 1..18}
    BY <1>1 DEF Starting!Flags
  <1>4. /\ Starting!FlagOrder[1] = "auth-file" /\ Starting!FlagOrder[2] = "breaker-cooldown"
        /\ Starting!FlagOrder[3] = "breaker-threshold" /\ Starting!FlagOrder[4] = "deadline-grace"
        /\ Starting!FlagOrder[5] = "host" /\ Starting!FlagOrder[6] = "http-default-timeout"
        /\ Starting!FlagOrder[7] = "http-max-inflight" /\ Starting!FlagOrder[8] = "http-max-timeout"
        /\ Starting!FlagOrder[9] = "idle-timeout" /\ Starting!FlagOrder[10] = "max-anonymous-connections"
        /\ Starting!FlagOrder[11] = "max-calls-per-connection" /\ Starting!FlagOrder[12] = "max-connections"
        /\ Starting!FlagOrder[13] = "max-frame-size" /\ Starting!FlagOrder[14] = "outbox-size"
        /\ Starting!FlagOrder[15] = "pipe" /\ Starting!FlagOrder[16] = "port"
        /\ Starting!FlagOrder[17] = "shutdown-timeout" /\ Starting!FlagOrder[18] = "unix-socket"
    BY DEF Starting!FlagOrder
  <1> QED BY <1>1, <1>2, <1>3, <1>4

LEMMA DefaultIs ==
    /\ DOMAIN Starting!Default = Starting!Flags
    /\ \A f \in Starting!Flags : /\ f \in Starting!Texts => Starting!Default[f] = Nothing
                                 /\ f \in Starting!ZeroAllowed => Starting!Default[f] = 0
                                 /\ f \notin Starting!Texts \cup Starting!ZeroAllowed => Starting!Default[f] \in {2, 3}
                                 /\ f \notin Starting!Texts => Starting!Default[f] \in Int
  BY DEF Starting!Default, Starting!Texts, Starting!ZeroAllowed

\* The kinds of value.
LEMMA Kinds ==
    ASSUME Starting!SettingsAssumption, NEW f \in Starting!Flags, NEW v \in Starting!Input(f)
    PROVE  /\ f \in Starting!Texts => v \in {Nothing, Text} /\ v /= Bad
           /\ f \notin Starting!Texts => v = Nothing \/ v = Bad \/ v \in Int
  BY DEF Starting!SettingsAssumption, Starting!Input, Starting!Values

LEMMA SaysInput ==
    ASSUME NEW source, NEW p \in Starting!Pairs, NEW v \in Starting!Input(p[1][2]), NEW w \in Starting!Input(p[2][2]),
           NEW f \in Starting!Flags
    PROVE  Starting!Says(source, p, v, w)[f] \in Starting!Input(f)
  <1>1. Nothing \in Starting!Input(f)
    BY DEF Starting!Input
  <1>2. p[1] = <<source, f>> => p[1][2] = f
    OBVIOUS
  <1>3. p[2] = <<source, f>> => p[2][2] = f
    OBVIOUS
  <1>4. Starting!Says(source, p, v, w)[f] = CASE p[1] = <<source, f>> -> v
                                     [] p[2] = <<source, f>> -> w
                                     [] OTHER -> Nothing
    BY DEF Starting!Says
  <1> QED BY <1>1, <1>2, <1>3, <1>4

LEMMA SettingsInitially == ASSUME Starting!SettingsAssumption, Starting!Init PROVE SettingsInv
  <1>1. \A f \in Starting!Flags : cmd[f] \in Starting!Input(f) /\ env[f] \in Starting!Input(f)
    <2>1. PICK p \in Starting!Pairs : \E v \in Starting!Input(p[1][2]), w \in Starting!Input(p[2][2]) :
              cmd = Starting!Says("cmd", p, v, w) /\ env = Starting!Says("env", p, v, w)
      BY DEF Starting!Init
    <2>2. PICK v \in Starting!Input(p[1][2]), w \in Starting!Input(p[2][2]) :
              cmd = Starting!Says("cmd", p, v, w) /\ env = Starting!Says("env", p, v, w)
      BY <2>1
    <2> QED BY <2>2, SaysInput
  <1>2. /\ inline \in BOOLEAN /\ phase = "parse" /\ at = 1
        /\ config = Starting!Default /\ blamed = Nothing
    BY DEF Starting!Init
  <1>3. InputInv
    BY <1>1, <1>2, DefaultIs DEF InputInv
  <1> QED BY <1>2, <1>3
          DEF SettingsInv, VisitInv, MergedInv, Starting!GivenIsInForce,
              Starting!RunsWithinLimits, Starting!LocalIsExclusive

\* A step into a phase from which nothing is asked any more.
LEMMA EndsInv ==
    ASSUME Starting!SettingsAssumption, SettingsInv, phase' \in {"failed", "shown"},
           UNCHANGED <<cmd, env, inline, at, actual, config, auth>>,
           phase' = "shown" => phase /= "parse" /\ phase /= "failed",
           blamed' = blamed \/ (blamed' \in Starting!Flags /\ cmd[blamed'] = Nothing /\ env[blamed'] = Bad)
    PROVE  SettingsInv'
  <1>1. InputInv'
    BY DEF SettingsInv, InputInv, Starting!Input
  <1>2. blamed' /= Nothing => blamed' \in Starting!Flags /\ cmd'[blamed'] = Nothing /\ env'[blamed'] = Bad
    BY DEF SettingsInv
  <1>3. phase' \notin {"parse", "env", "check", "auth", "start", "running"}
    OBVIOUS
  <1> QED BY <1>1, <1>2, <1>3 DEF SettingsInv, VisitInv, MergedInv, Starting!GivenIsInForce,
              Starting!RunsWithinLimits, Starting!LocalIsExclusive

LEMMA ParseStep == ASSUME Starting!SettingsAssumption, SettingsInv, Starting!Parse PROVE SettingsInv'
  <1>1. CASE Starting!Fail /\ UNCHANGED blamed
    BY <1>1, EndsInv DEF Starting!Fail, Starting!Inputs
  <1>2. CASE /\ \A f \in Starting!Flags : cmd[f] /= Bad
             /\ actual' = {f \in Starting!Flags : cmd[f] /= Nothing}
             /\ config' = [f \in Starting!Flags |-> IF cmd[f] = Nothing THEN Starting!Default[f] ELSE cmd[f]]
             /\ phase' = "env"
             /\ UNCHANGED <<Starting!Inputs, at, auth, blamed>>
    <2>0. /\ cmd' = cmd /\ env' = env /\ inline' = inline /\ at' = at /\ auth' = auth
          /\ blamed' = blamed
      BY <1>2 DEF Starting!Inputs
    <2>1. InputInv'
      BY <2>0, <1>2 DEF SettingsInv, InputInv, Starting!Input
    <2>2. phase = "parse" /\ at = at
      BY DEF Starting!Parse
    <2>3. VisitInv'
      <3> SUFFICES ASSUME NEW f \in Starting!Flags
                   PROVE  /\ cmd[f] /= Nothing => config'[f] = cmd[f] /\ f \in actual'
                          /\ cmd[f] = Nothing => config'[f] = Starting!Default[f] \/ config'[f] = env[f]
                          /\ cmd[f] = Nothing /\ env[f] = Nothing =>
                                config'[f] = Starting!Default[f] /\ f \notin actual'
                          /\ f \in Coming'
        BY <2>0 DEF VisitInv
      <3>1. at = 1
        BY <2>2 DEF SettingsInv, InputInv
      <3>2. f \in Coming'
        BY <3>1, <2>0, FlagsAre DEF Coming, Starting!Flags
      <3> QED BY <3>2, <1>2
    <2> QED BY <2>0, <2>1, <2>3, <1>2 DEF SettingsInv, MergedInv, Starting!GivenIsInForce,
              Starting!RunsWithinLimits, Starting!LocalIsExclusive
  <1> QED BY <1>1, <1>2 DEF Starting!Parse

LEMMA VisitStep == ASSUME Starting!SettingsAssumption, SettingsInv, Starting!Visit PROVE SettingsInv'
  <1>1. PICK i \in Starting!Left :
          /\ \A j \in Starting!Left : i <= j
          /\ \/ Starting!Refuses(Starting!FlagOrder[i]) /\ blamed' = Starting!FlagOrder[i] /\ Starting!Fail
             \/ /\ ~Starting!Refuses(Starting!FlagOrder[i])
                /\ config' = IF env[Starting!FlagOrder[i]] = Bad THEN config
                             ELSE [config EXCEPT ![Starting!FlagOrder[i]] = env[Starting!FlagOrder[i]]]
                /\ actual' = actual \cup {Starting!FlagOrder[i]}
                /\ at' = i + 1
                /\ UNCHANGED <<Starting!Inputs, phase, auth, blamed>>
    BY DEF Starting!Visit
  <1> DEFINE g == Starting!FlagOrder[i]
  <1>2. /\ i \in at..18 /\ at \in Nat \ {0} /\ g \in Starting!Flags /\ phase = "env"
        /\ cmd[g] = Nothing /\ env[g] /= Nothing
    <2>1. at \in Nat \ {0} /\ i \in at..18 /\ ~Starting!Skips(Starting!FlagOrder[i])
      BY FlagsAre DEF SettingsInv, InputInv, Starting!Left
    <2>2. i \in 1..18
      BY <2>1
    <2> QED BY <2>1, <2>2, FlagsAre DEF Starting!Skips, Starting!Visit
  <1>3. \A j \in at..18 : j < i => Starting!Skips(Starting!FlagOrder[j])
    BY <1>1, <1>2, FlagsAre DEF Starting!Left
  <1> HIDE DEF g
  <1>4. CASE Starting!Refuses(Starting!FlagOrder[i]) /\ blamed' = Starting!FlagOrder[i] /\ Starting!Fail
    BY <1>4, <1>2, EndsInv DEF Starting!Fail, Starting!Inputs, Starting!Refuses, g
  <1>5. CASE /\ ~Starting!Refuses(g)
             /\ config' = IF env[g] = Bad THEN config ELSE [config EXCEPT ![g] = env[g]]
             /\ actual' = actual \cup {g}
             /\ at' = i + 1
             /\ UNCHANGED <<Starting!Inputs, phase, auth, blamed>>
    <2>0. /\ cmd' = cmd /\ env' = env /\ inline' = inline /\ auth' = auth
          /\ blamed' = blamed /\ phase' = phase /\ at' = i + 1
          /\ config' = [config EXCEPT ![g] = env[g]] /\ env[g] /= Bad
      BY <1>5 DEF Starting!Inputs, Starting!Refuses
    <2>1. DOMAIN config = Starting!Flags
      BY DEF SettingsInv, InputInv
    <2>2. InputInv'
      BY <2>0, <2>1, <1>2 DEF SettingsInv, InputInv, Starting!Input
    <2>3. VisitInv'
      <3> SUFFICES ASSUME NEW f \in Starting!Flags
                   PROVE  /\ cmd[f] /= Nothing => config'[f] = cmd[f] /\ f \in actual'
                          /\ cmd[f] = Nothing => config'[f] = Starting!Default[f] \/ config'[f] = env[f]
                          /\ cmd[f] = Nothing /\ env[f] = Nothing =>
                                config'[f] = Starting!Default[f] /\ f \notin actual'
                          /\ cmd[f] = Nothing /\ env[f] /= Nothing /\ f \notin Coming' =>
                                config'[f] = env[f] /\ env[f] /= Bad /\ f \in actual'
        BY <2>0 DEF VisitInv
      <3>1. /\ cmd[f] /= Nothing => config[f] = cmd[f] /\ f \in actual
            /\ cmd[f] = Nothing => config[f] = Starting!Default[f] \/ config[f] = env[f]
            /\ cmd[f] = Nothing /\ env[f] = Nothing => config[f] = Starting!Default[f] /\ f \notin actual
            /\ cmd[f] = Nothing /\ env[f] /= Nothing /\ f \notin Coming =>
                 config[f] = env[f] /\ env[f] /= Bad /\ f \in actual
        BY <1>2 DEF SettingsInv, VisitInv
      <3>2. CASE f = g
        BY <3>2, <2>0, <2>1, <1>2, <1>5
      <3>3. CASE f /= g
        <4>1. config'[f] = config[f] /\ (f \in actual' <=> f \in actual)
          BY <3>3, <2>0, <2>1, <1>5
        <4>2. ASSUME cmd[f] = Nothing, env[f] /= Nothing, f \in Coming PROVE f \in Coming'
          <5>1. PICK j \in at..18 : f = Starting!FlagOrder[j]
            BY <4>2, FlagsAre DEF Coming
          <5>2. ~(j < i)
            BY <5>1, <4>2, <1>3 DEF Starting!Skips
          <5>3. j /= i
            BY <5>1, <3>3 DEF g
          <5>4. j \in (i + 1)..18
            BY <5>1, <5>2, <5>3, <1>2
          <5> QED BY <5>1, <5>4, <2>0, FlagsAre DEF Coming
        <4> QED BY <4>1, <4>2, <3>1
      <3> QED BY <3>2, <3>3
    <2> QED BY <2>0, <2>2, <2>3, <1>2 DEF SettingsInv, MergedInv, Starting!GivenIsInForce,
              Starting!RunsWithinLimits, Starting!LocalIsExclusive
  <1> QED BY <1>1, <1>4, <1>5 DEF g

LEMMA VisitedStep == ASSUME Starting!SettingsAssumption, SettingsInv, Starting!Visited PROVE SettingsInv'
  <1>0. /\ phase = "env" /\ Starting!Left = {} /\ phase' \in {"shown", "failed", "check"}
        /\ cmd' = cmd /\ env' = env /\ inline' = inline /\ at' = at /\ actual' = actual
        /\ config' = config /\ auth' = auth /\ blamed' = blamed
    BY DEF Starting!Visited, Starting!Inputs
  <1>1. CASE phase' \in {"shown", "failed"}
    BY <1>0, <1>1, EndsInv
  <1>2. CASE phase' = "check"
    <2>1. InputInv'
      BY <1>0, <1>2 DEF SettingsInv, InputInv, Starting!Input
    <2>2. ASSUME NEW f \in Starting!Flags
          PROVE  /\ Starting!Asked(f) /= Bad /\ config[f] = Merged(f)
                 /\ f \in actual <=> Starting!Asked(f) /= Nothing
      <3>1. cmd[f] /= Bad
        BY <1>0 DEF SettingsInv, InputInv
      <3>2. f \in Coming => Starting!Skips(f)
        BY <1>0 DEF Starting!Left, Coming
      <3>3. /\ cmd[f] /= Nothing => config[f] = cmd[f] /\ f \in actual
            /\ cmd[f] = Nothing /\ env[f] = Nothing => config[f] = Starting!Default[f] /\ f \notin actual
            /\ cmd[f] = Nothing /\ env[f] /= Nothing /\ f \notin Coming =>
                 config[f] = env[f] /\ env[f] /= Bad /\ f \in actual
        BY <1>0 DEF SettingsInv, VisitInv
      <3> QED BY <3>1, <3>2, <3>3
              DEF Starting!Skips, Starting!Asked, Merged, Starting!SettingsAssumption
    <2>3. MergedInv'
      BY <1>0, <1>2, <2>2 DEF MergedInv, Starting!Asked, Merged
    <2> QED BY <1>0, <1>2, <2>1, <2>3 DEF SettingsInv, VisitInv, Starting!GivenIsInForce,
              Starting!RunsWithinLimits, Starting!LocalIsExclusive
  <1> QED BY <1>0, <1>1, <1>2

LEMMA CheckStep == ASSUME Starting!SettingsAssumption, SettingsInv, Starting!Check PROVE SettingsInv'
  <1>1. CASE Starting!Conflict /\ Starting!Fail /\ UNCHANGED blamed
    BY <1>1, EndsInv DEF Starting!Fail, Starting!Inputs
  <1>2. CASE /\ ~Starting!Conflict
             /\ config' = [f \in Starting!Flags |-> IF f \in Starting!ZeroIsNone /\ config[f] = 0
                                           THEN -1 ELSE config[f]]
             /\ phase' = "auth"
             /\ UNCHANGED <<Starting!Inputs, at, actual, auth, blamed>>
    <2>0. /\ cmd' = cmd /\ env' = env /\ inline' = inline /\ at' = at /\ actual' = actual
          /\ auth' = auth /\ blamed' = blamed /\ phase' = "auth" /\ phase = "check"
      BY <1>2 DEF Starting!Inputs, Starting!Check
    <2>1. InputInv'
      BY <2>0, <1>2 DEF SettingsInv, InputInv, Starting!Input
    <2>2. \A f \in Starting!Flags : /\ Starting!Asked(f) /= Bad /\ config[f] = Merged(f)
                                    /\ f \in actual <=> Starting!Asked(f) /= Nothing
      BY <2>0 DEF SettingsInv, MergedInv
    <2>3. \A f : Starting!Asked(f)' = Starting!Asked(f) /\ Merged(f)' = Merged(f) /\ Checked(f)' = Checked(f)
      BY <2>0 DEF Starting!Asked, Merged, Checked
    <2>4. MergedInv'
      BY <2>0, <2>2, <2>3, <1>2 DEF MergedInv, Checked
    <2>5. LocalOnly'
      <3>1. {"unix-socket", "pipe", "host", "port"} \subseteq Starting!Flags
        BY FlagsAre
      <3>2. \A f \in Starting!Flags : Starting!Asked(f) = Text => config[f] = Text
        BY <2>2 DEF Merged, Starting!SettingsAssumption
      <3>3. Text \in {Starting!Asked("unix-socket"), Starting!Asked("pipe")} =>
              "host" \notin actual /\ "port" \notin actual
        BY <3>1, <3>2, <1>2 DEF Starting!Conflict
      <3> QED BY <3>1, <3>3, <2>2, <2>3 DEF LocalOnly
    <2> QED BY <2>0, <2>1, <2>4, <2>5 DEF SettingsInv, VisitInv, Starting!GivenIsInForce,
              Starting!RunsWithinLimits, Starting!LocalIsExclusive
  <1> QED BY <1>1, <1>2 DEF Starting!Check

LEMMA LoadAuthStep == ASSUME Starting!SettingsAssumption, SettingsInv, Starting!LoadAuth PROVE SettingsInv'
  <1>1. CASE Starting!Ambiguous /\ Starting!Fail /\ UNCHANGED blamed
    BY <1>1, EndsInv DEF Starting!Fail, Starting!Inputs
  <1>2. CASE /\ ~Starting!Ambiguous
             /\ auth' = CASE inline -> "inline"
                          [] config["auth-file"] /= Nothing -> "file"
                          [] OTHER -> "none"
             /\ phase' = "start"
             /\ UNCHANGED <<Starting!Inputs, at, actual, config, blamed>>
    <2>0. /\ cmd' = cmd /\ env' = env /\ inline' = inline /\ at' = at /\ actual' = actual
          /\ config' = config /\ blamed' = blamed /\ phase' = "start" /\ phase = "auth"
      BY <1>2 DEF Starting!Inputs, Starting!LoadAuth
    <2>1. InputInv'
      BY <2>0, <1>2 DEF SettingsInv, InputInv, Starting!Input
    <2>2. \A f \in Starting!Flags : Starting!Asked(f) /= Bad /\ config[f] = Checked(f)
      BY <2>0 DEF SettingsInv, MergedInv
    <2>3. \A f : Starting!Asked(f)' = Starting!Asked(f) /\ Merged(f)' = Merged(f) /\ Checked(f)' = Checked(f)
      BY <2>0 DEF Starting!Asked, Merged, Checked
    <2>4. MergedInv'
      BY <2>0, <2>2, <2>3 DEF MergedInv
    <2>5. LocalOnly'
      BY <2>0, <2>3 DEF SettingsInv, LocalOnly
    <2>6. AuthAsked'
      <3>1. "auth-file" \in Starting!Flags /\ "auth-file" \in Starting!Texts /\ "auth-file" \notin Starting!ZeroIsNone
        BY FlagsAre DEF Starting!Texts, Starting!ZeroIsNone
      <3>2. config["auth-file"] = Starting!Asked("auth-file")
        BY <3>1, <2>2, DefaultIs DEF Checked, Merged
      <3>3. inline \in BOOLEAN
        BY DEF SettingsInv, InputInv
      <3>4. ~(inline /\ Starting!Asked("auth-file") /= Nothing)
        BY <1>2, <3>2 DEF Starting!Ambiguous
      <3>5. auth' = CASE inline -> "inline" [] Starting!Asked("auth-file") /= Nothing -> "file" [] OTHER -> "none"
        BY <1>2, <3>2
      <3>6. AuthAsked' <=> (auth' = CASE inline /\ Starting!Asked("auth-file") = Nothing -> "inline"
                                     [] ~inline /\ Starting!Asked("auth-file") /= Nothing -> "file"
                                     [] ~inline /\ Starting!Asked("auth-file") = Nothing -> "none"
                                     [] OTHER -> "both")
        BY <2>0, <2>3 DEF AuthAsked
      <3> QED BY <3>3, <3>4, <3>5, <3>6
    <2> QED BY <2>0, <2>1, <2>4, <2>5, <2>6 DEF SettingsInv, VisitInv, Starting!GivenIsInForce,
              Starting!RunsWithinLimits, Starting!LocalIsExclusive
  <1> QED BY <1>1, <1>2 DEF Starting!LoadAuth

LEMMA StartStep == ASSUME Starting!SettingsAssumption, SettingsInv, Starting!Start PROVE SettingsInv'
  <1>1. CASE Starting!OutOfRange /\ Starting!Fail /\ UNCHANGED blamed
    BY <1>1, EndsInv DEF Starting!Fail, Starting!Inputs
  <1>2. CASE /\ ~Starting!OutOfRange
             /\ config' = Starting!Capped(Starting!Filled)
             /\ phase' = "running"
             /\ UNCHANGED <<Starting!Inputs, at, actual, auth, blamed>>
    <2>0. /\ cmd' = cmd /\ env' = env /\ inline' = inline /\ at' = at /\ actual' = actual
          /\ auth' = auth /\ blamed' = blamed /\ phase' = "running" /\ phase = "start"
          /\ config' = Starting!Capped(Starting!Filled)
      BY <1>2 DEF Starting!Inputs, Starting!Start
    <2> DEFINE c == Starting!Filled
               h == "http-default-timeout"
               top == c["http-max-timeout"]
    <2>1. DOMAIN c = Starting!Flags /\ h \in Starting!Flags /\ h \notin Starting!Texts \cup Starting!ZeroAllowed \cup Starting!ZeroIsNone
      BY FlagsAre DEF Starting!Filled, Starting!Texts, Starting!ZeroAllowed, Starting!ZeroIsNone
    <2>2. \A f \in Starting!Flags : Starting!Asked(f) /= Bad /\ config[f] = Checked(f)
      BY <2>0 DEF SettingsInv, MergedInv
    <2>3. \A f : Starting!Asked(f)' = Starting!Asked(f) /\ Starting!AskedFor(f)' = Starting!AskedFor(f)
      BY <2>0 DEF Starting!Asked, Starting!AskedFor
    <2>4. \A f \in Starting!Flags : f \notin Starting!Texts => Starting!Asked(f) = Nothing \/ Starting!Asked(f) \in Int
      BY <2>2, Kinds DEF SettingsInv, InputInv, Starting!Asked
    <2>5. \A f \in Starting!Flags \ Starting!Texts : config[f] \in Int /\ Merged(f) \in Int
      BY <2>2, <2>4, DefaultIs DEF Checked, Merged
    <2>6. \A f \in Starting!Flags : c[f] = IF f \notin Starting!Texts \cup Starting!ZeroAllowed /\ config[f] = 0
                                  THEN Starting!Default[f] ELSE config[f]
      BY DEF Starting!Filled
    <2>7. \A f \in Starting!Flags \ Starting!Texts : c[f] \in Int
      BY <2>5, <2>6, DefaultIs
    <2>8. \A f \in Starting!Flags \ (Starting!Texts \cup Starting!ZeroAllowed) : c[f] /= 0
      BY <2>6, DefaultIs
    <2>9. ~Starting!OutOfRange
      BY <1>2
    <2>10. \A f \in Starting!Flags : f /= h => config'[f] = c[f]
      <3> HIDE DEF c
      <3> QED BY <2>0, <2>1 DEF Starting!Capped, c
    <2>11. config'[h] = IF top > 0 /\ c[h] > top THEN top ELSE c[h]
      <3> HIDE DEF c
      <3> QED BY <2>0, <2>1 DEF Starting!Capped, c
    <2>12. InputInv'
      <3>1. DOMAIN config' = Starting!Flags
        <4> HIDE DEF c
        <4> QED BY <2>0, <2>1 DEF Starting!Capped, c
      <3> QED BY <2>0, <3>1 DEF SettingsInv, InputInv, Starting!Input
    <2>13. MergedInv'
      BY <2>0, <2>2, <2>3 DEF MergedInv
    <2>14. LocalOnly' /\ AuthAsked'
      BY <2>0, <2>3 DEF SettingsInv, LocalOnly, AuthAsked
    <2>15. /\ c["max-frame-size"] \in 1..Starting!MaxFrameSize
           /\ ~(c["outbox-size"] < c["max-frame-size"])
           /\ ~(c["deadline-grace"] < 0)
           /\ ~(c["idle-timeout"] < Starting!Second)
           /\ \A f \in {"max-connections", "http-default-timeout", "http-max-timeout",
                     "http-max-inflight", "max-anonymous-connections"} : ~(c[f] < 0)
           /\ ~(c["breaker-threshold"] < 1) /\ ~(c["breaker-cooldown"] <= 0)
           /\ ~(c["pipe"] = Text /\ c["unix-socket"] = Text)
      BY <2>9 DEF Starting!OutOfRange, Starting!OutboxTooSmall
    <2> HIDE DEF c
    <2>16. "http-max-timeout" \in Starting!Flags \ Starting!Texts /\ top \in Int /\ c[h] \in Int
      BY <2>1, <2>7, FlagsAre DEF Starting!Texts
    <2>17. \A f \in Starting!Flags \ (Starting!Texts \cup Starting!ZeroAllowed \cup Starting!ZeroIsNone) :
              f \in {"breaker-cooldown", "breaker-threshold", "deadline-grace",
                     "http-default-timeout", "http-max-inflight", "idle-timeout",
                     "max-anonymous-connections", "max-connections", "max-frame-size",
                     "outbox-size"}
      BY FlagsAre DEF Starting!Texts, Starting!ZeroAllowed, Starting!ZeroIsNone
    <2>18. \A f \in Starting!Flags \ (Starting!Texts \cup Starting!ZeroAllowed \cup Starting!ZeroIsNone) : c[f] > 0
      <3> SUFFICES ASSUME NEW f \in Starting!Flags \ (Starting!Texts \cup Starting!ZeroAllowed \cup Starting!ZeroIsNone) PROVE c[f] > 0
        OBVIOUS
      <3>1. c[f] \in Int /\ c[f] /= 0
        BY <2>7, <2>8
      <3>2. c["max-frame-size"] \in Int /\ c["outbox-size"] \in Int
        BY <2>7, FlagsAre DEF Starting!Texts
      <3>3. c[f] >= 0
        <4>1. CASE f \in {"max-connections", "http-default-timeout", "http-max-timeout",
                     "http-max-inflight", "max-anonymous-connections"}
          BY <4>1, <3>1, <2>15
        <4>2. CASE f = "max-frame-size" \/ f = "outbox-size"
          BY <4>2, <3>1, <3>2, <2>15 DEF Starting!MaxFrameSize
        <4>3. CASE f \in {"breaker-cooldown", "breaker-threshold", "deadline-grace", "idle-timeout"}
          BY <4>3, <3>1, <2>15 DEF Starting!Second
        <4> QED BY <4>1, <4>2, <4>3, <2>17
      <3> QED BY <3>1, <3>3
    <2>19. Starting!RunsWithinLimits'
      <3>1. {"max-frame-size", "outbox-size", "http-max-timeout"} \subseteq Starting!Flags
        BY FlagsAre
      <3>2. c["max-frame-size"] \in Int /\ c["outbox-size"] \in Int
        BY <2>7, FlagsAre DEF Starting!Texts
      <3>3. /\ config'["max-frame-size"] = c["max-frame-size"]
            /\ config'["outbox-size"] = c["outbox-size"]
            /\ config'["http-max-timeout"] = top
        BY <3>1, <2>10
      <3>4. config'["max-frame-size"] \in 1..Starting!MaxFrameSize
            /\ config'["outbox-size"] >= config'["max-frame-size"]
        BY <3>2, <3>3, <2>15
      <3>5. top > 0 => config'[h] <= top
        BY <2>11, <2>16
      <3>6. ASSUME NEW f \in Starting!Flags \ (Starting!Texts \cup Starting!ZeroAllowed \cup Starting!ZeroIsNone) PROVE config'[f] > 0
        <4>1. c[f] > 0
          BY <2>18
        <4>2. CASE f = h
          BY <4>1, <4>2, <2>11, <2>16
        <4>3. CASE f /= h
          BY <4>1, <4>3, <2>10
        <4> QED BY <4>2, <4>3
      <3>7. ASSUME NEW f \in Starting!ZeroIsNone PROVE config'[f] /= 0
        <4>1. f \in Starting!Flags \ (Starting!Texts \cup Starting!ZeroAllowed) /\ f /= h
          BY <3>7, FlagsAre DEF Starting!ZeroIsNone, Starting!Texts, Starting!ZeroAllowed
        <4> QED BY <4>1, <2>8, <2>10
      <3> QED BY <3>3, <3>4, <3>5, <3>6, <3>7 DEF Starting!RunsWithinLimits, Starting!MaxFrameSize
    <2>20. Starting!LocalIsExclusive'
      <3>1. {"unix-socket", "pipe"} \subseteq Starting!Flags /\ {"unix-socket", "pipe"} \subseteq Starting!Texts
            /\ {"unix-socket", "pipe"} \cap Starting!ZeroIsNone = {}
        BY FlagsAre DEF Starting!Texts, Starting!ZeroIsNone
      <3>2. \A f \in {"unix-socket", "pipe"} : c[f] = Starting!Asked(f)
        BY <3>1, <2>2, <2>6, DefaultIs DEF Checked, Merged, c
      <3>3. \A f \in {"unix-socket", "pipe"} : Starting!Asked(f) \in {Nothing, Text}
        BY <3>1, Kinds DEF SettingsInv, InputInv, Starting!Asked
      <3>4. Nothing \in {Starting!Asked("unix-socket"), Starting!Asked("pipe")}
        BY <3>2, <3>3, <2>15
      <3>5. LocalOnly
        BY <2>0 DEF SettingsInv
      <3> QED BY <3>4, <3>5, <2>3 DEF Starting!LocalIsExclusive, LocalOnly
    <2>21. Starting!GivenIsInForce'
      <3> SUFFICES ASSUME NEW f \in Starting!Flags, Starting!AskedFor(f) \notin {Nothing, 0}, ~Starting!CutToMaximum(f)'
                   PROVE  config'[f] = Starting!AskedFor(f)
        BY <2>3 DEF Starting!GivenIsInForce
      <3>1. Starting!Asked(f) /= Nothing
        BY DEF Starting!AskedFor, Starting!SettingsAssumption
      <3>2. config[f] = Starting!AskedFor(f)
        BY <3>1, <2>2 DEF Checked, Merged, Starting!AskedFor
      <3>3. c[f] = Starting!AskedFor(f)
        BY <3>2, <2>6 DEF c
      <3>4. CASE f /= h
        BY <3>3, <3>4, <2>10
      <3>5. CASE f = h
        <4>1. config'["http-max-timeout"] = top
          BY <2>10, <2>16
        <4>2. ~(top \in 1..(c[h] - 1))
          BY <3>3, <3>5, <4>1, <2>3 DEF Starting!CutToMaximum
        <4>3. ~(top > 0 /\ c[h] > top)
          BY <4>2, <2>16
        <4> QED BY <4>3, <3>3, <3>5, <2>11
      <3> QED BY <3>4, <3>5
    <2> QED BY <2>0, <2>12, <2>13, <2>14, <2>19, <2>20, <2>21 DEF SettingsInv, VisitInv
  <1> QED BY <1>1, <1>2 DEF Starting!Start

LEMMA SettingsStep == ASSUME Starting!SettingsAssumption, SettingsInv, [Starting!Next]_Starting!vars PROVE SettingsInv'
  <1>1. ASSUME UNCHANGED Starting!vars PROVE SettingsInv'
    BY <1>1
    DEF Starting!vars, SettingsInv, InputInv, Starting!Input, VisitInv, Coming, MergedInv,
        Starting!Asked, Merged, Checked, LocalOnly, AuthAsked, Starting!GivenIsInForce,
        Starting!AskedFor, Starting!CutToMaximum, Starting!RunsWithinLimits,
        Starting!LocalIsExclusive
  <1> QED BY <1>1, ParseStep, VisitStep, VisitedStep, CheckStep, LoadAuthStep, StartStep
          DEF Starting!Next

LEMMA SettingsMean ==
    ASSUME Starting!SettingsAssumption, SettingsInv
    PROVE  /\ Starting!BadVariableStops /\ Starting!GivenIsInForce /\ Starting!RunsWithinLimits
           /\ Starting!OneAuthInForce /\ Starting!LocalIsExclusive
  <1>1. Starting!BadVariableStops
    BY DEF SettingsInv, MergedInv, Starting!BadVariableStops, Starting!Asked,
           Starting!SettingsAssumption
  <1>2. Starting!OneAuthInForce
    BY DEF SettingsInv, AuthAsked, Starting!OneAuthInForce
  <1> QED BY <1>1, <1>2 DEF SettingsInv

-------------------------------------------------------------------------------
(* The suite.                                                              *)

\* What holds of the suite at every moment: the parts that do not run stand
\* still, and a part that stands still keeps its invariant.
SuiteInv ==
  /\ DeadlinesInv /\ DedupInv /\ RegistryInv /\ DocumentInv /\ AccountsInv /\ ProcessInv
  /\ part = "settings" => SettingsInv

\* A step of the suite is, for every part, a step of it or none.
LEMMA SuiteSteps ==
  ASSUME [SuiteNext]_suiteVars
  PROVE  /\ [Expiry!Next]_Expiry!vars /\ [Next]_vars /\ [Pools!Next]_Pools!vars
         /\ [Reading!Next]_Reading!vars /\ [Access!Next]_Access!vars
         /\ [Process!Next]_Process!vars /\ [Starting!Next]_Starting!vars /\ part' = part
  <1>1. UNCHANGED deadlineVars => UNCHANGED Expiry!vars
    BY DEF deadlineVars, Expiry!vars, Expiry!heapVars, Expiry!loopVars
  <1>2. UNCHANGED registryVars => UNCHANGED Pools!vars
    BY DEF registryVars, Pools!vars
  <1>3. UNCHANGED documentVars => UNCHANGED Reading!vars
    BY DEF documentVars, Reading!vars
  <1>4. UNCHANGED accountVars => UNCHANGED Access!vars
    BY DEF accountVars, Access!vars, Access!conn
  <1>5. UNCHANGED processVars => UNCHANGED Process!vars
    BY DEF processVars, Process!vars
  <1>6. UNCHANGED settingsVars => UNCHANGED Starting!vars
    BY DEF settingsVars, Starting!vars
  <1>7. \/ /\ Expiry!Next \/ UNCHANGED deadlineVars
           /\ UNCHANGED <<part, vars, registryVars, documentVars, accountVars, processVars, settingsVars>>
        \/ /\ Next
           /\ UNCHANGED <<part, deadlineVars, registryVars, documentVars, accountVars, processVars, settingsVars>>
        \/ /\ Pools!Next
           /\ UNCHANGED <<part, deadlineVars, vars, documentVars, accountVars, processVars, settingsVars>>
        \/ /\ Reading!Next
           /\ UNCHANGED <<part, deadlineVars, vars, registryVars, accountVars, processVars, settingsVars>>
        \/ /\ Access!Next
           /\ UNCHANGED <<part, deadlineVars, vars, registryVars, documentVars, processVars, settingsVars>>
        \/ /\ Process!Next
           /\ UNCHANGED <<part, deadlineVars, vars, registryVars, documentVars, accountVars, settingsVars>>
        \/ /\ Starting!Next
           /\ UNCHANGED <<part, deadlineVars, vars, registryVars, documentVars, accountVars, processVars>>
    BY Zenon
    DEF SuiteNext, ExpiryStep, DedupStep, PoolsStep, ReadingStep, AccessStep, ProcessStep,
        StartingStep, suiteVars
  <1> QED BY <1>1, <1>2, <1>3, <1>4, <1>5, <1>6, <1>7

LEMMA SuiteInitially == ASSUME SuiteInit PROVE SuiteInv
  <1>1. /\ Expiry!Init /\ Init /\ Pools!Init /\ Reading!Init /\ Access!Init /\ Process!Init
        /\ part = "settings" => Starting!Init
    BY DEF SuiteInit
  <1>2. DeadlinesInv /\ DedupInv /\ RegistryInv
    BY <1>1, Parameters, DeadlinesInitially, DedupInitially, RegistryInitially
  <1>3. DocumentInv /\ AccountsInv /\ ProcessInv
    BY <1>1, Parameters, DocumentInitially, AccountsInitially, ProcessInitially
  <1>4. part = "settings" => SettingsInv
    BY <1>1, Parameters, SettingsInitially
  <1> QED BY <1>2, <1>3, <1>4 DEF SuiteInv

LEMMA SuiteKeeps == ASSUME SuiteInv, [SuiteNext]_suiteVars PROVE SuiteInv'
  <1>1. /\ [Expiry!Next]_Expiry!vars /\ [Next]_vars /\ [Pools!Next]_Pools!vars
        /\ [Reading!Next]_Reading!vars /\ [Access!Next]_Access!vars
        /\ [Process!Next]_Process!vars /\ [Starting!Next]_Starting!vars /\ part' = part
    BY SuiteSteps
  <1>2. DeadlinesInv' /\ DedupInv'
    BY <1>1, Parameters, DeadlinesStep, DedupInvStep DEF SuiteInv
  <1>3. RegistryInv' /\ DocumentInv'
    BY <1>1, Parameters, RegistryStep, DocumentStep DEF SuiteInv
  <1>4. AccountsInv' /\ ProcessInv'
    BY <1>1, Parameters, AccountsStep, ProcessInvStep DEF SuiteInv
  <1>5. part' = "settings" => SettingsInv'
    BY <1>1, Parameters, SettingsStep DEF SuiteInv
  <1> QED BY <1>2, <1>3, <1>4, <1>5 DEF SuiteInv

LEMMA SuiteAlways == SuiteSpec => []SuiteInv
  <1>1. SuiteInit => SuiteInv
    BY SuiteInitially
  <1>2. SuiteInv /\ [SuiteNext]_suiteVars => SuiteInv'
    BY SuiteKeeps
  <1> QED BY <1>1, <1>2, PTL DEF SuiteSpec

-------------------------------------------------------------------------------
(* The suite's theorems.                                                   *)

\* track, untrack, wake and expireLoop, for any number of routes and timeouts:
\* the heap holds the timed calls and no other, its front is the earliest
\* deadline, and the loop never sleeps a millisecond beyond it.
THEOREM DeadlinesCorrect == SuiteSpec => []DeadlinesKept
  <1>1. SuiteInv => DeadlinesKept
    BY Parameters, DeadlinesMean DEF SuiteInv, DeadlinesKept
  <1> QED BY <1>1, SuiteAlways, PTL

\* expireLoop never ends a call before its timeout and the grace are over, as
\* long as no timeout that is asked for overflows a Duration.
THEOREM NeverEndedEarly ==
  ASSUME NoOverflow
  PROVE  SuiteSpec => NeverEarly
  <1> DEFINE Ends == Expiry!Look => \A rt \in TimedRoutes :
                status[rt] = "live" /\ status'[rt] = "over"
                  => deadlineNow >= openedAt[rt] + asked[rt] * Millisecond + Grace
  <1>1. SuiteInv => [Ends]_Expiry!vars
    BY Parameters, LookStep DEF SuiteInv
  <1> QED BY <1>1, SuiteAlways, PTL DEF NeverEarly, Expiry!NeverEarly

\* dedupInsert, dedupRemove, register and leavePools, for any keys, capacity,
\* peers and registrations: list and map agree and a key executes once at a
\* time; the pools are the instances that are in, with all of their methods.
THEOREM TablesAgree == SuiteSpec => []TablesConsistent
  <1>1. SuiteInv => TablesConsistent
    BY DedupMeans, RegistryMeans DEF SuiteInv, TablesConsistent
  <1> QED BY <1>1, SuiteAlways, PTL

\* ParseAuth, Auth.issue, Router.handle and admit, for any documents, accounts,
\* tokens and connections: no permission widens on its way from the document to
\* a call, and no more connections are in than the limits say.
THEOREM PermissionsHold == SuiteSpec => []PermissionsNeverWiden
  <1>1. SuiteInv => PermissionsNeverWiden
    BY Parameters, DocumentMeans, AccountsMean DEF SuiteInv, PermissionsNeverWiden
  <1> QED BY <1>1, SuiteAlways, PTL

\* run, applyEnvironment, loadAuth, listenLocal and Close, for any number of
\* Routers on a path and any settings: a Router runs with what it was given,
\* within the limits, and is reachable where it listens.
THEOREM RunsCorrectly == SuiteSpec => []RunsAsAsked
  <1>1. SuiteInv => RunsAsAsked
    BY Parameters, ProcessMeans, SettingsMean DEF SuiteInv, RunsAsAsked
  <1> QED BY <1>1, SuiteAlways, PTL

===============================================================================

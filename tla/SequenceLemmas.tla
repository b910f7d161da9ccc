----------------------------- MODULE SequenceLemmas ----------------------------
(***************************************************************************)
(* Facts about sequences, sets and natural numbers that the proofs of       *)
(* several components share.                                                *)
(***************************************************************************)
EXTENDS Integers, Sequences, SequencesExt, FiniteSets, FiniteSetTheorems, SequenceTheorems,
        TLAPS

\* A non-empty set of naturals has a least element.
LEMMA LeastExists ==
  ASSUME NEW S \in SUBSET Nat, S # {}
  PROVE  \E x \in S : \A y \in S : x <= y
  <1>1. PICK x \in S : \A y \in S : ~(<<y, x>> \in OpToRel(<, Nat))
    BY WFMin, NatLessThanWellFounded
  <1>2. \A y \in S : ~(y < x)
    BY <1>1 DEF OpToRel
  <1> QED BY <1>2

LEMMA RemoveAtProperties ==
  ASSUME NEW S, NEW s \in Seq(S), NEW k \in 1..Len(s)
  PROVE  /\ RemoveAt(s, k) \in Seq(S)
         /\ Len(RemoveAt(s, k)) = Len(s) - 1
         /\ \A i \in 1..Len(s) - 1 : RemoveAt(s, k)[i] = IF i < k THEN s[i] ELSE s[i + 1]
  <1> DEFINE a == SubSeq(s, 1, k - 1)
             b == SubSeq(s, k + 1, Len(s))
  <1>0. Len(s) \in Nat /\ \A i \in 1..Len(s) : s[i] \in S
    BY LenProperties, ElementOfSeq
  <1>1. a \in Seq(S) /\ Len(a) = k - 1 /\ \A i \in 1..k - 1 : a[i] = s[i]
    BY <1>0, SubSeqProperties
  <1>2. b \in Seq(S) /\ Len(b) = Len(s) - k /\ \A i \in 1..Len(s) - k : b[i] = s[k + i]
    BY <1>0, SubSeqProperties
  <1> HIDE DEF a, b
  <1>3. /\ a \o b \in Seq(S) /\ Len(a \o b) = Len(a) + Len(b)
        /\ \A i \in 1..Len(a) + Len(b) : (a \o b)[i] = IF i <= Len(a) THEN a[i] ELSE b[i - Len(a)]
    BY <1>1, <1>2, ConcatProperties
  <1>4. Len(a) + Len(b) = Len(s) - 1
    BY <1>0, <1>1, <1>2
  <1>5. ASSUME NEW i \in 1..Len(s) - 1
        PROVE  (a \o b)[i] = IF i < k THEN s[i] ELSE s[i + 1]
    <2>1. CASE i < k
      BY <1>0, <1>1, <1>3, <1>4, <2>1
    <2>2. CASE i >= k
      <3>1. i - Len(a) \in 1..Len(s) - k /\ k + (i - Len(a)) = i + 1 /\ ~(i <= Len(a))
        BY <1>0, <1>1, <2>2
      <3> QED BY <1>0, <1>2, <1>3, <1>4, <2>2, <3>1, SMTT(20)
    <2>3. i < k \/ i >= k
      BY <1>0
    <2> QED BY <2>1, <2>2, <2>3
  <1>6. RemoveAt(s, k) = a \o b
    BY DEF RemoveAt, a, b
  <1> QED BY <1>3, <1>4, <1>5, <1>6

\* The elements of a sequence, by its positions.
LEMMA ToSetByIndex ==
  ASSUME NEW S, NEW s \in Seq(S)
  PROVE  /\ ToSet(s) = {s[i] : i \in 1..Len(s)}
         /\ ToSet(s) = {} <=> s = <<>>
         /\ ToSet(s) \subseteq S
  <1>1. DOMAIN s = 1..Len(s) /\ Len(s) \in Nat /\ \A i \in 1..Len(s) : s[i] \in S
    BY LenProperties, ElementOfSeq
  <1>2. s # <<>> => 1 \in 1..Len(s)
    BY EmptySeq, <1>1
  <1>3. ToSet(s) = {s[i] : i \in 1..Len(s)}
    BY <1>1 DEF ToSet
  <1>4. s = <<>> => Len(s) = 0
    BY EmptySeq
  <1>5. Len(s) = 0 => {s[i] : i \in 1..Len(s)} = {}
    OBVIOUS
  <1> QED BY <1>1, <1>2, <1>3, <1>4, <1>5

LEMMA AppendToSet ==
  ASSUME NEW S, NEW s \in Seq(S), NEW e \in S
  PROVE  ToSet(Append(s, e)) = ToSet(s) \cup {e}
  <1>1. /\ Append(s, e) \in Seq(S) /\ Len(Append(s, e)) = Len(s) + 1 /\ Len(s) \in Nat
        /\ \A i \in 1..Len(s) : Append(s, e)[i] = s[i]
        /\ Append(s, e)[Len(s) + 1] = e
    BY AppendProperties, LenProperties
  <1>2. ToSet(Append(s, e)) = {Append(s, e)[i] : i \in 1..Len(s) + 1}
    <2> DEFINE t == Append(s, e)
    <2>1. t \in Seq(S) /\ Len(t) = Len(s) + 1
      BY <1>1
    <2> HIDE DEF t
    <2>2. ToSet(t) = {t[i] : i \in 1..Len(t)}
      BY <2>1, ToSetByIndex
    <2> QED BY <2>1, <2>2 DEF t
  <1>3. 1..Len(s) + 1 = (1..Len(s)) \cup {Len(s) + 1}
    BY <1>1
  <1>4. ToSet(s) = {s[i] : i \in 1..Len(s)}
    BY ToSetByIndex
  <1> QED BY <1>1, <1>2, <1>3, <1>4

\* Each element of a sequence but the first is an element of its tail.
LEMMA TailByIndex ==
  ASSUME NEW S, NEW s \in Seq(S), s # <<>>
  PROVE  /\ Tail(s) \in Seq(S) /\ Len(Tail(s)) = Len(s) - 1
         /\ Head(s) = s[1] /\ Head(s) \in S /\ Len(s) \in Nat \ {0}
         /\ \A i \in 1..Len(s) - 1 : Tail(s)[i] = s[i + 1]
  BY HeadTailProperties, EmptySeq, LenProperties

\* A sequence without repetitions is as long as the set of its elements.
LEMMA DistinctLength ==
  ASSUME NEW S, NEW s \in Seq(S), \A i, j \in 1..Len(s) : s[i] = s[j] => i = j
  PROVE  Len(s) = Cardinality(ToSet(s)) /\ IsFiniteSet(ToSet(s))
  <1>1. Len(s) \in Nat /\ DOMAIN s = 1..Len(s) /\ s \in [1..Len(s) -> ToSet(s)]
    BY LenProperties DEF ToSet
  <1>2. s \in Bijection(1..Len(s), ToSet(s))
    BY <1>1 DEF Bijection, Injection, Surjection, IsInjective, ToSet
  <1>3. ExistsBijection(1..Len(s), ToSet(s))
    BY <1>2 DEF ExistsBijection
  <1> QED BY <1>1, <1>3, FS_CountingElements, FS_NatBijection

\* Taking one element out of a sequence without repetitions.
LEMMA RemoveAtDistinct ==
  ASSUME NEW S, NEW s \in Seq(S), NEW k \in 1..Len(s),
         \A i, j \in 1..Len(s) : s[i] = s[j] => i = j
  PROVE  /\ \A i, j \in 1..Len(RemoveAt(s, k)) :
              RemoveAt(s, k)[i] = RemoveAt(s, k)[j] => i = j
         /\ ToSet(RemoveAt(s, k)) = ToSet(s) \ {s[k]}
  <1> DEFINE r == RemoveAt(s, k)
  <1>0. Len(s) \in Nat
    BY LenProperties
  <1>1. /\ r \in Seq(S) /\ Len(r) = Len(s) - 1
        /\ \A i \in 1..Len(s) - 1 : r[i] = IF i < k THEN s[i] ELSE s[i + 1]
    BY RemoveAtProperties
  <1>2. ToSet(s) = {s[i] : i \in 1..Len(s)}
    BY ToSetByIndex
  <1> HIDE DEF r
  <1>3. ToSet(r) = {r[i] : i \in 1..Len(s) - 1}
    BY <1>1, ToSetByIndex
  <1> DEFINE at(i) == IF i < k THEN i ELSE i + 1
  <1>4. \A i \in 1..Len(s) - 1 : at(i) \in 1..Len(s) /\ at(i) # k /\ r[i] = s[at(i)]
    BY <1>0, <1>1
  <1>5. \A i, j \in 1..Len(s) - 1 : at(i) = at(j) => i = j
    BY <1>0
  <1>6. \A x \in 1..Len(s) : x # k => \E i \in 1..Len(s) - 1 : at(i) = x
    <2> SUFFICES ASSUME NEW x \in 1..Len(s), x # k PROVE \E i \in 1..Len(s) - 1 : at(i) = x
      OBVIOUS
    <2>1. CASE x < k
      <3>1. x \in 1..Len(s) - 1 /\ at(x) = x
        BY <1>0, <2>1
      <3> QED BY <3>1
    <2>2. CASE x > k
      <3>1. x - 1 \in 1..Len(s) - 1 /\ at(x - 1) = x
        BY <1>0, <2>2
      <3> QED BY <3>1
    <2> QED BY <1>0, <2>1, <2>2
  <1> HIDE DEF at
  <1>7. \A i, j \in 1..Len(r) : r[i] = r[j] => i = j
    BY <1>1, <1>4, <1>5
  <1>8. ASSUME NEW x PROVE x \in ToSet(r) <=> x \in ToSet(s) \ {s[k]}
    <2>1. ASSUME x \in ToSet(r) PROVE x \in ToSet(s) \ {s[k]}
      <3>1. PICK i \in 1..Len(s) - 1 : x = r[i]
        BY <1>3, <2>1
      <3>2. x = s[at(i)] /\ at(i) \in 1..Len(s) /\ at(i) # k
        BY <1>4, <3>1
      <3> QED BY <1>2, <3>2
    <2>2. ASSUME x \in ToSet(s), x # s[k] PROVE x \in ToSet(r)
      <3>1. PICK y \in 1..Len(s) : x = s[y]
        BY <1>2, <2>2
      <3>2. PICK i \in 1..Len(s) - 1 : at(i) = y
        BY <1>6, <2>2, <3>1
      <3> QED BY <1>3, <1>4, <3>1, <3>2
    <2> QED BY <2>1, <2>2
  <1>9. ToSet(r) = ToSet(s) \ {s[k]}
    BY <1>8
  <1> QED BY <1>7, <1>9 DEF r

LEMMA AppendDistinct ==
  ASSUME NEW S, NEW s \in Seq(S), NEW e \in S, e \notin ToSet(s),
         \A i, j \in 1..Len(s) : s[i] = s[j] => i = j
  PROVE  \A i, j \in 1..Len(Append(s, e)) : Append(s, e)[i] = Append(s, e)[j] => i = j
  <1>1. \A i \in 1..Len(s) : s[i] # e
    BY ToSetByIndex
  <1>2. /\ Len(Append(s, e)) = Len(s) + 1 /\ Len(s) \in Nat
        /\ Append(s, e)[Len(s) + 1] = e
        /\ \A i \in 1..Len(s) : Append(s, e)[i] = s[i]
    BY AppendProperties, LenProperties
  <1> QED BY <1>1, <1>2

\* How often a value occurs in a sequence.
Count(s, x) == Cardinality({i \in DOMAIN s : s[i] = x})

LEMMA CountType ==
  ASSUME NEW S, NEW s \in Seq(S), NEW x
  PROVE  /\ IsFiniteSet({i \in DOMAIN s : s[i] = x})
         /\ Count(s, x) \in Nat
         /\ Count(s, x) = 0 <=> \A i \in DOMAIN s : s[i] # x
  <1> DEFINE P == {i \in DOMAIN s : s[i] = x}
  <1>1. DOMAIN s = 1..Len(s) /\ Len(s) \in Nat
    BY LenProperties
  <1>2. IsFiniteSet(1..Len(s))
    BY <1>1, FS_Interval
  <1>3. IsFiniteSet(P)
    BY <1>1, <1>2, FS_Subset
  <1>4. Cardinality(P) \in Nat
    BY <1>3, FS_CardinalityType
  <1>5. Cardinality(P) = 0 <=> P = {}
    BY <1>3, FS_EmptySet
  <1>6. P = {} <=> \A i \in DOMAIN s : s[i] # x
    OBVIOUS
  <1> HIDE DEF P
  <1> QED BY <1>3, <1>4, <1>5, <1>6 DEF P, Count

LEMMA CountEmpty == ASSUME NEW x PROVE Count(<<>>, x) = 0
  <1>1. <<>> \in Seq({}) /\ DOMAIN <<>> = {}
    OBVIOUS
  <1> QED BY <1>1, CountType

LEMMA CountAppend ==
  ASSUME NEW S, NEW s \in Seq(S), NEW e \in S, NEW x
  PROVE  Count(Append(s, e), x) = IF e = x THEN Count(s, x) + 1 ELSE Count(s, x)
  <1> DEFINE P == {i \in DOMAIN s : s[i] = x}
             Q == {i \in DOMAIN Append(s, e) : Append(s, e)[i] = x}
  <1>0. DOMAIN s = 1..Len(s) /\ Len(s) \in Nat
    BY LenProperties
  <1>1. /\ Append(s, e) \in Seq(S) /\ Len(Append(s, e)) = Len(s) + 1
        /\ \A i \in 1..Len(s) : Append(s, e)[i] = s[i]
        /\ Append(s, e)[Len(s) + 1] = e
    BY AppendProperties
  <1>2. DOMAIN Append(s, e) = 1..Len(s) + 1
    BY <1>1, LenProperties
  <1>3. 1..Len(s) + 1 = (1..Len(s)) \cup {Len(s) + 1} /\ Len(s) + 1 \notin 1..Len(s)
    BY <1>0
  <1>4. Q = IF e = x THEN P \cup {Len(s) + 1} ELSE P
    BY <1>0, <1>1, <1>2, <1>3
  <1>5. Len(s) + 1 \notin P
    BY <1>0, <1>3
  <1>6. IsFiniteSet(P) /\ Cardinality(P) \in Nat
    BY CountType DEF Count
  <1> HIDE DEF P, Q
  <1>7. Cardinality(P \cup {Len(s) + 1}) = Cardinality(P) + 1
    BY <1>5, <1>6, FS_AddElement
  <1>8. Count(s, x) = Cardinality(P) /\ Count(Append(s, e), x) = Cardinality(Q)
    BY DEF Count, P, Q
  <1> QED BY <1>4, <1>7, <1>8

LEMMA CountTail ==
  ASSUME NEW S, NEW s \in Seq(S), s # <<>>, NEW x
  PROVE  Count(s, x) = IF Head(s) = x THEN Count(Tail(s), x) + 1 ELSE Count(Tail(s), x)
  <1> DEFINE P == {i \in DOMAIN s : s[i] = x}
             Q == {i \in DOMAIN Tail(s) : Tail(s)[i] = x}
             f == [i \in Q |-> i + 1]
  <1>0. DOMAIN s = 1..Len(s) /\ Len(s) \in Nat
    BY LenProperties
  <1>1. /\ Tail(s) \in Seq(S) /\ Len(Tail(s)) = Len(s) - 1
        /\ Head(s) = s[1] /\ Len(s) \in Nat \ {0}
        /\ \A i \in 1..Len(s) - 1 : Tail(s)[i] = s[i + 1]
    BY TailByIndex
  <1>2. DOMAIN Tail(s) = 1..Len(s) - 1
    BY <1>1, LenProperties
  <1>3. \A i \in Q : i \in Nat /\ i \in 1..Len(s) - 1 /\ i + 1 \in 1..Len(s) /\ i + 1 # 1
    BY <1>0, <1>2
  <1>4. \A i \in Q : i + 1 \in P \ {1}
    BY <1>0, <1>1, <1>2, <1>3
  <1>5. \A j \in P \ {1} : j - 1 \in 1..Len(s) - 1 /\ (j - 1) + 1 = j
    BY <1>0
  <1>6. \A j \in P \ {1} : j - 1 \in Q
    BY <1>0, <1>1, <1>2, <1>5
  <1>7. \A i, j \in Q : i + 1 = j + 1 => i = j
    BY <1>3
  <1>8. IsFiniteSet(P) /\ IsFiniteSet(Q)
    BY <1>1, CountType
  <1> HIDE DEF P, Q
  <1>9. f \in [Q -> P \ {1}]
    BY <1>4
  <1>10. f \in Bijection(Q, P \ {1})
    <2>1. \A i, j \in Q : f[i] = f[j] => i = j
      BY <1>7
    <2>2. \A j \in P \ {1} : \E i \in Q : f[i] = j
      BY <1>5, <1>6
    <2> HIDE DEF f
    <2> QED BY <1>9, <2>1, <2>2 DEF Bijection, Injection, Surjection, IsInjective
  <1>11. Cardinality(Q) = Cardinality(P \ {1})
    <2>1. ExistsBijection(Q, P \ {1})
      BY <1>10 DEF ExistsBijection
    <2> QED BY <1>8, <2>1, FS_Bijection, FS_RemoveElement
  <1>12. 1 \in P <=> Head(s) = x
    BY <1>0, <1>1 DEF P
  <1>13. Cardinality(P \ {1}) = IF 1 \in P THEN Cardinality(P) - 1 ELSE Cardinality(P)
    BY <1>8, FS_RemoveElement
  <1>14. Cardinality(P) \in Nat /\ Cardinality(Q) \in Nat
    BY <1>8, FS_CardinalityType
  <1>15. Count(s, x) = Cardinality(P) /\ Count(Tail(s), x) = Cardinality(Q)
    BY DEF Count, P, Q
  <1> QED BY <1>11, <1>12, <1>13, <1>14, <1>15

\* Two ways to put elements at the end.
LEMMA AppendOne ==
  ASSUME NEW S, NEW s \in Seq(S), NEW a \in S
  PROVE  s \o <<a>> = Append(s, a)
  OBVIOUS

LEMMA AppendTwo ==
  ASSUME NEW S, NEW s \in Seq(S), NEW a \in S, NEW b \in S
  PROVE  s \o <<a, b>> = Append(Append(s, a), b)
  OBVIOUS

\* A set of naturals with 0 and the successor of each of its members has all.
LEMMA Induction ==
  ASSUME NEW S, 0 \in S, \A n \in Nat : n \in S => n + 1 \in S
  PROVE  \A n \in Nat : n \in S
  <1> DEFINE T == {n \in Nat : n \notin S}
  <1> SUFFICES ASSUME T # {} PROVE FALSE
    OBVIOUS
  <1>1. T \in SUBSET Nat
    OBVIOUS
  <1>2. \A n \in Nat : n \in T <=> n \notin S
    OBVIOUS
  <1> HIDE DEF T
  <1>3. PICK x \in T : \A y \in T : x <= y
    BY <1>1, LeastExists
  <1>4. x \in Nat /\ x # 0
    BY <1>1, <1>2, <1>3
  <1>5. x - 1 \in Nat /\ x - 1 \notin T
    BY <1>1, <1>3, <1>4
  <1> QED BY <1>2, <1>3, <1>4, <1>5

\* A function can be applied again and again.
Iterates(S, F, x, g) ==
  g \in [Nat -> S] /\ g[0] = x /\ \A n \in Nat : g[n + 1] = F[g[n]]

LEMMA Iteration ==
  ASSUME NEW S, NEW F \in [S -> S], NEW x \in S
  PROVE  \E g : Iterates(S, F, x, g)
  <1> DEFINE Trace(n, p) == p[0] = x /\ \A i \in 0..n - 1 : p[i + 1] = F[p[i]]
             D == {n \in Nat : \E p \in [0..n -> S] : Trace(n, p)}
  <1>1. 0 \in D
    <2>1. [i \in 0..0 |-> x] \in [0..0 -> S] /\ Trace(0, [i \in 0..0 |-> x])
      OBVIOUS
    <2> QED BY <2>1
  <1>2. ASSUME NEW n \in Nat, n \in D PROVE n + 1 \in D
    <2>1. PICK p \in [0..n -> S] : Trace(n, p)
      BY <1>2
    <2> DEFINE q == [i \in 0..n + 1 |-> IF i <= n THEN p[i] ELSE F[p[n]]]
    <2>2. q \in [0..n + 1 -> S]
      <3>1. p[n] \in S /\ F[p[n]] \in S
        OBVIOUS
      <3> QED BY <3>1
    <2>3. Trace(n + 1, q)
      <3>1. q[0] = x
        BY <2>1
      <3>2. ASSUME NEW i \in 0..n PROVE q[i + 1] = F[q[i]]
        <4>1. CASE i < n
          BY <4>1, <2>1
        <4>2. CASE i = n
          BY <4>2
        <4> QED BY <4>1, <4>2
      <3> HIDE DEF q
      <3>3. 0..(n + 1) - 1 = 0..n
        OBVIOUS
      <3> QED BY <3>1, <3>2, <3>3
    <2> HIDE DEF q, Trace
    <2> QED BY <2>2, <2>3
  <1>3. \A n \in Nat : \E p \in [0..n -> S] : Trace(n, p)
    <2> HIDE DEF D
    <2>1. \A n \in Nat : n \in D
      BY <1>1, <1>2, Induction
    <2> QED BY <2>1 DEF D
  <1> DEFINE P(n) == CHOOSE p \in [0..n -> S] : Trace(n, p)
             g == [n \in Nat |-> P(n)[n]]
  <1>4. \A n \in Nat : P(n) \in [0..n -> S] /\ Trace(n, P(n))
    <2> HIDE DEF Trace
    <2> QED BY <1>3
  <1> HIDE DEF P
  <1>5. ASSUME NEW n \in Nat PROVE P(n + 1)[n] = P(n)[n]
    <2> DEFINE p == P(n)
               q == P(n + 1)
               E == {i \in Nat : i <= n => p[i] = q[i]}
    <2>1. p[0] = x /\ q[0] = x
      BY <1>4
    <2>2. \A i \in 0..n - 1 : p[i + 1] = F[p[i]] /\ q[i + 1] = F[q[i]]
      BY <1>4
    <2> HIDE DEF p, q
    <2>3. 0 \in E
      BY <2>1
    <2>4. ASSUME NEW i \in Nat, i \in E PROVE i + 1 \in E
      <3>1. CASE i + 1 <= n
        BY <3>1, <2>2, <2>4
      <3>2. CASE ~(i + 1 <= n)
        BY <3>2
      <3> QED BY <3>1, <3>2
    <2>5. n \in E
      <3> HIDE DEF E
      <3> QED BY <2>3, <2>4, Induction
    <2> QED BY <2>5 DEF p, q
  <1>6. g \in [Nat -> S]
    BY <1>4
  <1>7. g[0] = x
    BY <1>4
  <1>8. ASSUME NEW n \in Nat PROVE g[n + 1] = F[g[n]]
    <2>1. P(n + 1)[n + 1] = F[P(n + 1)[n]]
      BY <1>4
    <2> QED BY <2>1, <1>5
  <1> HIDE DEF g
  <1>9. Iterates(S, F, x, g)
    BY <1>6, <1>7, <1>8 DEF Iterates
  <1> QED BY <1>9

===============================================================================

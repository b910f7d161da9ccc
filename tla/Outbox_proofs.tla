----------------------------- MODULE Outbox_proofs ----------------------------
(***************************************************************************)
(* Proofs about the outbox and its writer, for any number of calls, any     *)
(* frame sizes and limits, and any number of queued frames.                 *)
(***************************************************************************)
EXTENDS Outbox, SequenceLemmas, FiniteSetTheorems, SequenceTheorems, TLAPS

-------------------------------------------------------------------------------
(* The queue: QueueConsistent made inductive.                              *)

\* Every call in turn has frames, has one turn, and no other call has frames.
OrderInv ==
  /\ \A i, j \in 1..Len(order) : order[i] = order[j] => i = j
  /\ ToSet(order) = Waiting

\* Frames are queued under their own call and told apart by their numbers.
FramesInv ==
  \A c \in CallID :
    /\ \A i \in 1..Len(queue[c]) : queue[c][i].call = c /\ queue[c][i].n <= accepted[c]
    /\ \A i, j \in 1..Len(queue[c]) : queue[c][i].n = queue[c][j].n => i = j

BytesInv == IsFiniteSet(CostUnits) /\ bytes = Cardinality(CostUnits)

QueueTypes ==
  /\ queue \in [CallID -> Seq(Frame)]
  /\ order \in Seq(CallID)
  /\ bytes \in Nat
  /\ accepted \in [CallID -> Nat]

QueueInv ==
  /\ TypeOK /\ OrderInv /\ FramesInv /\ BytesInv
  /\ writer = "write" => current \in Frame

\* What push does with a frame that it accepts.
Accepts(c, f) ==
  /\ queue' = [queue EXCEPT ![c] = Append(@, f)]
  /\ order' = IF queue[c] = <<>> THEN Append(order, c) ELSE order
  /\ bytes' = bytes + Cost(f)
  /\ accepted' = [accepted EXCEPT ![c] = @ + 1]

\* What pop does when it takes the frame of the k-th call in turn.
Takes(k) ==
  /\ queue' = [queue EXCEPT ![order[k]] = Tail(@)]
  /\ order' = NextTurn(order[k], RemoveAt(order, k))
  /\ bytes' = bytes - Cost(Head(queue[order[k]]))
  /\ UNCHANGED accepted

LEMMA CostPositive ==
  ASSUME NEW f \in Frame
  PROVE  Cost(f) \in Nat \ {0}
  <1>1. f.size \in Size
    BY DEF Frame
  <1>2. Size \subseteq Nat /\ Overhead \in Nat \ {0}
    BY OutboxAssumption
  <1>3. f.size \in Nat
    BY <1>1, <1>2
  <1>4. \A m \in Nat, n \in Nat \ {0} : m + n \in Nat \ {0}
    OBVIOUS
  <1>5. f.size + Overhead \in Nat \ {0}
    BY <1>2, <1>3, <1>4
  <1> QED BY <1>5 DEF Cost

\* A frame costs as many units as it has.
LEMMA UnitsOfFrame ==
  ASSUME NEW f \in Frame
  PROVE  /\ IsFiniteSet({f} \X (1..Cost(f)))
         /\ Cardinality({f} \X (1..Cost(f))) = Cost(f)
  <1>1. Cost(f) \in Nat \ {0}
    BY CostPositive
  <1>2. IsFiniteSet({f}) /\ Cardinality({f}) = 1
    BY FS_Singleton
  <1>3. IsFiniteSet(1..Cost(f)) /\ Cardinality(1..Cost(f)) = Cost(f)
    BY <1>1, FS_Interval
  <1> HIDE DEF Cost
  <1>4. /\ IsFiniteSet({f} \X (1..Cost(f)))
        /\ Cardinality({f} \X (1..Cost(f))) = Cardinality({f}) * Cardinality(1..Cost(f))
    BY <1>2, <1>3, FS_Product
  <1> QED BY <1>1, <1>2, <1>3, <1>4

LEMMA UnitMembers ==
  ASSUME NEW x
  PROVE  x \in CostUnits <=> \E f \in Queued : x \in {f} \X (1..Cost(f))
  BY DEF CostUnits

LEMMA QueuedMembers ==
  ASSUME QueueTypes, NEW f
  PROVE  f \in Queued <=> \E c \in CallID : \E i \in 1..Len(queue[c]) : f = queue[c][i]
  <1>1. \A c \in CallID : ToSet(queue[c]) = {queue[c][i] : i \in 1..Len(queue[c])}
    BY ToSetByIndex DEF QueueTypes
  <1> QED BY <1>1 DEF Queued

\* The cost of the queued frames after one more, and after one less.
LEMMA UnitsAdded ==
  ASSUME BytesInv, NEW f \in Frame, f \notin Queued, Queued' = Queued \cup {f}
  PROVE  IsFiniteSet(CostUnits') /\ Cardinality(CostUnits') = Cardinality(CostUnits) + Cost(f)
  <1> DEFINE U == {f} \X (1..Cost(f))
  <1>1. CostUnits' = CostUnits \cup U
    BY DEF CostUnits, Cost
  <1>2. CostUnits \cap U = {}
    <2>1. SUFFICES ASSUME NEW x \in CostUnits, x \in U PROVE FALSE
      OBVIOUS
    <2>2. PICK g \in Queued : x \in {g} \X (1..Cost(g))
      BY <2>1, UnitMembers
    <2>3. x[1] = g /\ x[1] = f
      BY <2>1, <2>2
    <2> QED BY <2>3
  <1>3. IsFiniteSet(U) /\ Cardinality(U) = Cost(f) /\ Cost(f) \in Nat
    BY UnitsOfFrame, CostPositive
  <1>4. IsFiniteSet(CostUnits) /\ Cardinality(CostUnits) \in Nat
    BY FS_CardinalityType DEF BytesInv
  <1> HIDE DEF U
  <1>5. Cardinality(CostUnits \cap U) = 0
    BY <1>2, FS_EmptySet
  <1>6. /\ IsFiniteSet(CostUnits \cup U)
        /\ Cardinality(CostUnits \cup U)
             = Cardinality(CostUnits) + Cardinality(U) - Cardinality(CostUnits \cap U)
    BY <1>3, <1>4, FS_Union
  <1> QED BY <1>1, <1>3, <1>4, <1>5, <1>6

LEMMA UnitsRemoved ==
  ASSUME BytesInv, NEW f \in Frame, f \in Queued, Queued' = Queued \ {f}
  PROVE  /\ IsFiniteSet(CostUnits')
         /\ Cardinality(CostUnits') = Cardinality(CostUnits) - Cost(f)
         /\ Cardinality(CostUnits') \in Nat
  <1> DEFINE U == {f} \X (1..Cost(f))
  <1>1. CostUnits' = CostUnits \ U
    <2>1. ASSUME NEW x, x \in CostUnits' PROVE x \in CostUnits \ U
      <3>1. PICK g \in Queued \ {f} : x \in {g} \X (1..Cost(g))
        BY <2>1 DEF CostUnits, Cost
      <3>2. x[1] = g
        BY <3>1
      <3>3. x \notin U
        BY <3>1, <3>2
      <3> QED BY <3>1, <3>3, UnitMembers
    <2>2. ASSUME NEW x, x \in CostUnits \ U PROVE x \in CostUnits'
      <3>1. PICK g \in Queued : x \in {g} \X (1..Cost(g))
        BY <2>2, UnitMembers
      <3>2. g # f
        BY <2>2, <3>1
      <3> QED BY <3>1, <3>2 DEF CostUnits, Cost
    <2> QED BY <2>1, <2>2
  <1>2. U \subseteq CostUnits
    BY DEF CostUnits
  <1>3. IsFiniteSet(U) /\ Cardinality(U) = Cost(f) /\ Cost(f) \in Nat
    BY UnitsOfFrame, CostPositive
  <1>4. IsFiniteSet(CostUnits)
    BY DEF BytesInv
  <1> HIDE DEF U
  <1>5. CostUnits \cap U = U
    BY <1>2
  <1>6. IsFiniteSet(CostUnits') /\ Cardinality(CostUnits') = Cardinality(CostUnits) - Cost(f)
    <2>1. /\ IsFiniteSet(CostUnits \ U)
          /\ Cardinality(CostUnits \ U) = Cardinality(CostUnits) - Cardinality(CostUnits \cap U)
      BY <1>4, FS_Difference
    <2> QED BY <1>1, <1>3, <1>5, <2>1
  <1> QED BY <1>6, FS_CardinalityType

\* push keeps the three representations in step.
LEMMA AcceptKeepsQueue ==
  ASSUME QueueTypes, OrderInv, FramesInv, BytesInv,
         NEW c \in CallID, NEW f \in Frame, f.call = c, f.n = accepted[c] + 1,
         Accepts(c, f)
  PROVE  /\ QueueTypes' /\ OrderInv' /\ FramesInv' /\ BytesInv'
         /\ f \notin Queued /\ Queued' = Queued \cup {f}
         /\ Waiting' = Waiting \cup {c}
  <1>0. /\ queue[c] \in Seq(Frame) /\ accepted[c] \in Nat /\ order \in Seq(CallID)
        /\ Len(order) \in Nat /\ Len(queue[c]) \in Nat
    BY LenProperties DEF QueueTypes
  <1>1. /\ queue'[c] = Append(queue[c], f) /\ queue'[c] \in Seq(Frame) /\ queue'[c] # <<>>
        /\ \A d \in CallID \ {c} : queue'[d] = queue[d]
        /\ DOMAIN queue' = CallID
    BY <1>0, AppendProperties DEF Accepts, QueueTypes
  <1>2. /\ Len(queue'[c]) = Len(queue[c]) + 1
        /\ \A i \in 1..Len(queue[c]) : queue'[c][i] = queue[c][i]
        /\ queue'[c][Len(queue[c]) + 1] = f
    BY <1>0, <1>1, AppendProperties
  <1>3. accepted'[c] = accepted[c] + 1 /\ \A d \in CallID \ {c} : accepted'[d] = accepted[d]
    BY DEF Accepts, QueueTypes
  <1>4. Cost(f) \in Nat
    BY CostPositive
  <1>5. QueueTypes'
    <2>1. queue' \in [CallID -> Seq(Frame)]
      BY <1>1 DEF Accepts, QueueTypes
    <2>2. order' \in Seq(CallID)
      BY <1>0, AppendProperties DEF Accepts
    <2>3. bytes' \in Nat
      BY <1>4 DEF Accepts, QueueTypes
    <2>4. accepted' \in [CallID -> Nat]
      BY DEF Accepts, QueueTypes
    <2> QED BY <2>1, <2>2, <2>3, <2>4 DEF QueueTypes
  <1>6. Waiting' = Waiting \cup {c}
    BY <1>1 DEF Waiting
  <1>7. OrderInv'
    <2>1. CASE queue[c] = <<>>
      <3>1. order' = Append(order, c) /\ c \notin ToSet(order)
        BY <2>1 DEF Accepts, OrderInv, Waiting
      <3>2. ToSet(order') = ToSet(order) \cup {c}
        BY <1>0, <3>1, AppendToSet
      <3>3. \A i \in 1..Len(order) : order[i] # c
        BY <1>0, <3>1, ToSetByIndex
      <3>4. /\ Len(order') = Len(order) + 1 /\ order'[Len(order) + 1] = c
            /\ \A i \in 1..Len(order) : order'[i] = order[i]
        BY <1>0, <3>1, AppendProperties
      <3>5. ASSUME NEW i \in 1..Len(order'), NEW j \in 1..Len(order'), order'[i] = order'[j]
            PROVE  i = j
        BY <1>0, <3>3, <3>4, <3>5 DEF OrderInv
      <3> QED BY <1>6, <3>2, <3>5 DEF OrderInv
    <2>2. CASE queue[c] # <<>>
      <3>1. order' = order /\ c \in Waiting
        BY <2>2 DEF Accepts, Waiting
      <3> QED BY <1>6, <3>1 DEF OrderInv
    <2> QED BY <2>1, <2>2
  <1>8. FramesInv'
    <2> SUFFICES ASSUME NEW d \in CallID
                 PROVE  /\ \A i \in 1..Len(queue'[d]) :
                             queue'[d][i].call = d /\ queue'[d][i].n <= accepted'[d]
                        /\ \A i, j \in 1..Len(queue'[d]) :
                             queue'[d][i].n = queue'[d][j].n => i = j
      BY DEF FramesInv
    <2>1. CASE d # c
      BY <1>1, <1>3, <2>1 DEF FramesInv
    <2>2. CASE d = c
      <3>1. \A i \in 1..Len(queue[c]) : queue[c][i].call = c /\ queue[c][i].n <= accepted[c]
                                        /\ queue[c][i].n \in Nat
        <4>1. \A i \in 1..Len(queue[c]) : queue[c][i] \in Frame
          BY <1>0, ElementOfSeq
        <4>2. \A i \in 1..Len(queue[c]) : queue[c][i].n \in Nat
          BY <4>1 DEF Frame
        <4> QED BY <4>2 DEF FramesInv
      <3>0. \A m \in Nat : m <= accepted[c] => m <= accepted[c] + 1 /\ m # accepted[c] + 1
        BY <1>0
      <3>2. \A i \in 1..Len(queue'[c]) :
              queue'[c][i].call = c /\ queue'[c][i].n <= accepted'[c]
        <4>1. \A i \in 1..Len(queue[c]) :
                queue'[c][i].call = c /\ queue'[c][i].n <= accepted'[c]
          BY <1>2, <1>3, <3>0, <3>1
        <4>2. queue'[c][Len(queue[c]) + 1].call = c
              /\ queue'[c][Len(queue[c]) + 1].n <= accepted'[c]
          BY <1>0, <1>2, <1>3
        <4>3. \A i \in 1..Len(queue'[c]) : i \in 1..Len(queue[c]) \/ i = Len(queue[c]) + 1
          BY <1>0, <1>2
        <4> QED BY <4>1, <4>2, <4>3
      <3>3. ASSUME NEW i \in 1..Len(queue'[c]), NEW j \in 1..Len(queue'[c]),
                   queue'[c][i].n = queue'[c][j].n
            PROVE  i = j
        <4>1. CASE i \in 1..Len(queue[c]) /\ j \in 1..Len(queue[c])
          <5>1. queue[c][i].n = queue[c][j].n
            BY <1>2, <3>3, <4>1
          <5>2. \A x, y \in 1..Len(queue[c]) : queue[c][x].n = queue[c][y].n => x = y
            BY DEF FramesInv
          <5> QED BY <4>1, <5>1, <5>2
        <4>2. CASE i = Len(queue[c]) + 1 \/ j = Len(queue[c]) + 1
          <5>1. \A x \in 1..Len(queue[c]) : queue'[c][x].n # f.n
            BY <1>2, <3>0, <3>1
          <5> QED BY <1>0, <1>2, <3>3, <4>2, <5>1
        <4> QED BY <1>0, <1>2, <4>1, <4>2
      <3> QED BY <2>2, <3>2, <3>3
    <2> QED BY <2>1, <2>2
  <1>9. f \notin Queued
    <2>1. SUFFICES ASSUME f \in Queued PROVE FALSE
      OBVIOUS
    <2>2. PICK d \in CallID : \E i \in 1..Len(queue[d]) : f = queue[d][i]
      BY <2>1, QueuedMembers
    <2>3. d = c /\ f.n <= accepted[c]
      BY <2>2 DEF FramesInv
    <2> QED BY <1>0, <2>3
  <1>10. Queued' = Queued \cup {f}
    <2>1. ToSet(queue'[c]) = ToSet(queue[c]) \cup {f}
      BY <1>0, <1>1, AppendToSet
    <2>2. \A d \in CallID \ {c} : ToSet(queue'[d]) = ToSet(queue[d])
      BY <1>1
    <2> QED BY <2>1, <2>2 DEF Queued
  <1>11. BytesInv'
    BY <1>9, <1>10, UnitsAdded DEF BytesInv, Accepts
  <1> QED BY <1>5, <1>6, <1>7, <1>8, <1>9, <1>10, <1>11

\* pop keeps the three representations in step, whichever call's turn it is.
LEMMA TakeKeepsQueue ==
  ASSUME QueueTypes, OrderInv, FramesInv, BytesInv, NEW k \in 1..Len(order), Takes(k)
  PROVE  /\ QueueTypes' /\ OrderInv' /\ FramesInv' /\ BytesInv'
         /\ order[k] \in CallID /\ queue[order[k]] # <<>>
         /\ Head(queue[order[k]]) \in Frame
         /\ Head(queue[order[k]]).call = order[k]
         /\ Queued' = Queued \ {Head(queue[order[k]])}
         /\ Waiting' = IF Len(queue[order[k]]) > 1 THEN Waiting ELSE Waiting \ {order[k]}
  <1> DEFINE c == order[k]
             f == Head(queue[c])
             r == RemoveAt(order, k)
  <1>0. order \in Seq(CallID) /\ Len(order) \in Nat
    BY LenProperties DEF QueueTypes
  <1>1. c \in CallID /\ c \in Waiting
    BY <1>0, ToSetByIndex, ElementOfSeq DEF OrderInv
  <1>2. queue[c] \in Seq(Frame) /\ queue[c] # <<>>
    BY <1>1 DEF Waiting, QueueTypes
  <1>3. /\ Tail(queue[c]) \in Seq(Frame) /\ Len(Tail(queue[c])) = Len(queue[c]) - 1
        /\ f = queue[c][1] /\ f \in Frame /\ Len(queue[c]) \in Nat \ {0}
        /\ \A i \in 1..Len(queue[c]) - 1 : Tail(queue[c])[i] = queue[c][i + 1]
    BY <1>2, TailByIndex
  <1>4. /\ queue' = [queue EXCEPT ![c] = Tail(@)]
        /\ order' = NextTurn(c, r)
        /\ bytes' = bytes - Cost(f)
        /\ UNCHANGED accepted
    BY DEF Takes
  <1>5. /\ r \in Seq(CallID)
        /\ \A i, j \in 1..Len(r) : r[i] = r[j] => i = j
        /\ ToSet(r) = Waiting \ {c}
    BY <1>0, RemoveAtProperties, RemoveAtDistinct DEF OrderInv
  <1>6. f.call = c
    BY <1>1, <1>3 DEF FramesInv
  <1> HIDE DEF c, f, r
  <1>7. queue'[c] = Tail(queue[c]) /\ \A d \in CallID \ {c} : queue'[d] = queue[d]
    BY <1>1, <1>4 DEF QueueTypes
  <1>8. queue'[c] = <<>> <=> ~(Len(queue[c]) > 1)
    <2>1. queue'[c] = <<>> <=> Len(queue'[c]) = 0
      BY <1>3, <1>7, EmptySeq
    <2>2. Len(queue'[c]) = Len(queue[c]) - 1
      BY <1>3, <1>7
    <2>3. \A n \in Nat \ {0} : n - 1 = 0 <=> ~(n > 1)
      OBVIOUS
    <2> QED BY <1>3, <2>1, <2>2, <2>3
  <1>9. Waiting' = IF Len(queue[c]) > 1 THEN Waiting ELSE Waiting \ {c}
    BY <1>1, <1>7, <1>8 DEF Waiting
  <1>10. OrderInv'
    <2>1. CASE Len(queue[c]) > 1
      <3>1. order' = Append(r, c) /\ c \notin ToSet(r)
        BY <1>4, <1>5, <2>1 DEF NextTurn
      <3>2. ToSet(order') = Waiting
        BY <1>1, <1>5, <3>1, AppendToSet
      <3>3. \A i, j \in 1..Len(order') : order'[i] = order'[j] => i = j
        BY <1>1, <1>5, <3>1, AppendDistinct
      <3> QED BY <1>9, <2>1, <3>2, <3>3 DEF OrderInv
    <2>2. CASE ~(Len(queue[c]) > 1)
      <3>1. order' = r
        BY <1>4, <2>2 DEF NextTurn
      <3> QED BY <1>5, <1>9, <2>2, <3>1 DEF OrderInv
    <2> QED BY <2>1, <2>2
  <1>11. FramesInv'
    <2> SUFFICES ASSUME NEW d \in CallID
                 PROVE  /\ \A i \in 1..Len(queue'[d]) :
                             queue'[d][i].call = d /\ queue'[d][i].n <= accepted'[d]
                        /\ \A i, j \in 1..Len(queue'[d]) :
                             queue'[d][i].n = queue'[d][j].n => i = j
      BY DEF FramesInv
    <2>1. CASE d # c
      BY <1>4, <1>7, <2>1 DEF FramesInv
    <2>2. CASE d = c
      <3>1. \A i \in 1..Len(queue'[c]) : i + 1 \in 1..Len(queue[c]) /\ queue'[c][i] = queue[c][i + 1]
        BY <1>3, <1>7
      <3>2. \A i \in 1..Len(queue'[c]) :
              queue'[c][i].call = c /\ queue'[c][i].n <= accepted'[c]
        BY <1>1, <1>4, <3>1 DEF FramesInv
      <3>3. ASSUME NEW i \in 1..Len(queue'[c]), NEW j \in 1..Len(queue'[c]),
                   queue'[c][i].n = queue'[c][j].n
            PROVE  i = j
        <4>1. /\ i + 1 \in 1..Len(queue[c]) /\ j + 1 \in 1..Len(queue[c])
              /\ queue[c][i + 1].n = queue[c][j + 1].n
          BY <3>1, <3>3
        <4>2. i + 1 = j + 1
          BY <1>1, <4>1 DEF FramesInv
        <4> QED BY <1>3, <1>7, <4>2
      <3> QED BY <2>2, <3>2, <3>3
    <2> QED BY <2>1, <2>2
  <1>12. f \in Queued
    BY <1>1, <1>3, QueuedMembers
  <1>13. Queued' = Queued \ {f}
    <2>1. \A i \in 1..Len(queue[c]) : queue[c][i] = f => i = 1
      BY <1>1, <1>3 DEF FramesInv
    <2>2. ToSet(queue'[c]) = ToSet(queue[c]) \ {f}
      <3>1. ToSet(queue[c]) = {queue[c][i] : i \in 1..Len(queue[c])}
        BY <1>2, ToSetByIndex
      <3>2. ToSet(queue'[c]) = {queue'[c][i] : i \in 1..Len(queue[c]) - 1}
        <4>1. queue'[c] \in Seq(Frame) /\ Len(queue'[c]) = Len(queue[c]) - 1
          BY <1>3, <1>7
        <4>2. ToSet(queue'[c]) = {queue'[c][i] : i \in 1..Len(queue'[c])}
          BY <4>1, ToSetByIndex
        <4> QED BY <4>1, <4>2
      <3>3. \A i \in 1..Len(queue[c]) - 1 : i + 1 \in 1..Len(queue[c]) /\ i + 1 # 1
                                            /\ queue'[c][i] = queue[c][i + 1]
        BY <1>3, <1>7
      <3>4. \A i \in 1..Len(queue[c]) : i # 1 => i - 1 \in 1..Len(queue[c]) - 1
                                                 /\ queue'[c][i - 1] = queue[c][i]
        BY <1>3, <1>7
      <3>5. ASSUME NEW x \in ToSet(queue'[c]) PROVE x \in ToSet(queue[c]) /\ x # f
        BY <2>1, <3>1, <3>2, <3>3
      <3>6. ASSUME NEW x \in ToSet(queue[c]), x # f PROVE x \in ToSet(queue'[c])
        <4>1. PICK i \in 1..Len(queue[c]) : x = queue[c][i]
          BY <3>1
        <4>2. i # 1
          BY <1>3, <3>6, <4>1
        <4> QED BY <3>2, <3>4, <4>1, <4>2
      <3> QED BY <3>5, <3>6
    <2>3. \A d \in CallID \ {c} : f \notin ToSet(queue[d])
      <3> SUFFICES ASSUME NEW d \in CallID \ {c}, f \in ToSet(queue[d]) PROVE FALSE
        OBVIOUS
      <3>1. queue[d] \in Seq(Frame)
        BY DEF QueueTypes
      <3>2. PICK i \in 1..Len(queue[d]) : f = queue[d][i]
        BY <3>1, ToSetByIndex
      <3> QED BY <1>6, <3>2 DEF FramesInv
    <2> QED BY <1>1, <1>7, <2>2, <2>3 DEF Queued
  <1>14. BytesInv' /\ bytes' \in Nat
    BY <1>3, <1>4, <1>12, <1>13, UnitsRemoved DEF BytesInv
  <1>15. QueueTypes'
    <2>1. queue' \in [CallID -> Seq(Frame)]
      BY <1>1, <1>3, <1>4 DEF QueueTypes
    <2>2. order' \in Seq(CallID)
      BY <1>1, <1>4, <1>5, AppendProperties DEF NextTurn
    <2> QED BY <1>4, <1>14, <2>1, <2>2 DEF QueueTypes
  <1> USE DEF c, f
  <1> QED BY <1>1, <1>2, <1>3, <1>6, <1>9, <1>10, <1>11, <1>13, <1>14, <1>15

\* So does closing the outbox.
LEMMA EmptyKeepsQueue ==
  ASSUME QueueTypes, queue' = Empty, order' = <<>>, bytes' = 0, UNCHANGED accepted
  PROVE  /\ QueueTypes' /\ OrderInv' /\ FramesInv' /\ BytesInv'
         /\ Queued' = {} /\ Waiting' = {}
  <1>1. QueueTypes'
    BY EmptySeq DEF QueueTypes, Empty
  <1>2. Waiting' = {} /\ Queued' = {}
    <2>1. \A c \in CallID : queue'[c] = <<>> /\ ToSet(queue'[c]) = {}
      BY <1>1, ToSetByIndex DEF Empty, QueueTypes
    <2> QED BY <2>1 DEF Waiting, Queued
  <1>3. Len(<<>>) = 0 /\ ToSet(<<>>) = {}
    BY EmptySeq, ToSetByIndex
  <1>4. OrderInv'
    BY <1>2, <1>3 DEF OrderInv
  <1>5. FramesInv'
    BY <1>3 DEF FramesInv, Empty
  <1>6. BytesInv'
    <2>1. CostUnits' = {}
      BY <1>2 DEF CostUnits
    <2> QED BY <2>1, FS_EmptySet DEF BytesInv
  <1> QED BY <1>1, <1>2, <1>4, <1>5, <1>6

-------------------------------------------------------------------------------
(* Steps.                                                                  *)

\* The call that pop chooses is in turn, and it is the first one if the frame
\* is not a control frame.
LEMMA TurnInOrder ==
  ASSUME QueueTypes, order # <<>>
  PROVE  /\ Turn \in 1..Len(order)
         /\ ~Priority(Head(queue[order[Turn]])) => Turn = 1
  <1> DEFINE control == {i \in 1..Len(order) : Priority(Head(queue[order[i]]))}
  <1>0. Len(order) \in Nat \ {0}
    BY EmptySeq DEF QueueTypes
  <1>1. CASE control = {}
    BY <1>0, <1>1 DEF Turn
  <1>2. CASE control # {}
    <2>1. control \in SUBSET Nat
      OBVIOUS
    <2>2. \E x \in control : \A y \in control : x <= y
      BY <1>2, <2>1, LeastExists
    <2>3. Min(control) \in control
      BY <2>2 DEF Min
    <2>4. Turn = Min(control)
      BY <1>2 DEF Turn
    <2> QED BY <2>3, <2>4
  <1> QED BY <1>1, <1>2

\* A frame that push accepts.
Queues(c, f) ==
  /\ f.call = c /\ f.n = accepted[c] + 1
  /\ ~closed /\ Fits(f)
  /\ Accepts(c, f)
  /\ ready' = TRUE
  /\ UNCHANGED <<closed, ctx, passed>>

LEMMA PushKinds ==
  ASSUME TypeOK, NEW c \in CallID, NEW kind \in Kinds, NEW size \in Size, Push(c, kind, size)
  PROVE  \/ \E f \in Frame : f.kind = kind /\ Queues(c, f)
         \/ ctx' = "cancelled" /\ UNCHANGED <<outbox, ready>>
  <1> DEFINE f == [call |-> c, kind |-> kind, size |-> size, n |-> accepted[c] + 1]
  <1>1. f \in Frame /\ f.call = c /\ f.kind = kind /\ f.n = accepted[c] + 1
    BY DEF Frame, TypeOK
  <1>2. CASE ~closed /\ Fits(f)
    BY <1>1, <1>2 DEF Push, Queues, Accepts, Signal, Enqueue
  <1>3. CASE ~(~closed /\ Fits(f))
    BY <1>3 DEF Push
  <1> QED BY <1>2, <1>3

\* Every step that changes the outbox queues a frame, takes one or closes it.
LEMMA QueueKinds ==
  ASSUME TypeOK, [Next]_vars
  PROVE  \/ UNCHANGED outbox
         \/ /\ \E c \in CallID, f \in Frame : Queues(c, f)
            /\ UNCHANGED <<writer, current, written, goneAway, stage>>
         \/ Pop /\ order # <<>>
         \/ CloseOutbox
  <1> DEFINE Puts == /\ \E c \in CallID, f \in Frame : Queues(c, f)
                     /\ UNCHANGED <<writer, current, written, goneAway, stage>>
  <1>0. /\ Connection \in CallID /\ Calls \subseteq CallID
        /\ "data" \in Kinds /\ "terminal" \in Kinds /\ "control" \in Kinds
    BY OutboxAssumption DEF Kinds, Calls
  <1>1. ASSUME NEW c \in CallID, NEW kind \in Kinds, NEW size \in Size, Push(c, kind, size),
               UNCHANGED <<writer, current, written, goneAway, stage>>
        PROVE  UNCHANGED outbox \/ Puts
    BY <1>1, PushKinds
  <1> HIDE DEF Puts
  <1>2. ASSUME NEW size \in Size, NEW kind \in {"data", "control"}, ReaderSend(kind, size)
        PROVE  UNCHANGED outbox \/ Puts
    BY <1>0, <1>1, <1>2 DEF ReaderSend, router
  <1>3. ASSUME NEW c \in Calls, OpenCall(c) PROVE UNCHANGED outbox \/ Puts
    BY <1>0, <1>1, <1>3 DEF OpenCall
  <1>4. ASSUME NEW c \in Calls, NEW size \in Size, RefuseCall(c, size)
        PROVE  UNCHANGED outbox \/ Puts
    BY <1>0, <1>1, <1>4 DEF RefuseCall
  <1>5. ASSUME NEW c \in Calls, NEW size \in Size, NEW kind \in {"data", "control"},
               Forward(c, kind, size)
        PROVE  UNCHANGED outbox \/ Puts
    BY <1>0, <1>1, <1>5 DEF Forward, router
  <1>6. ASSUME NEW c \in Calls, NEW size \in Size, QueueLast(c, size)
        PROVE  UNCHANGED outbox \/ Puts
    BY <1>0, <1>1, <1>6 DEF QueueLast
  <1>7. ASSUME Pop, order = <<>> PROVE UNCHANGED outbox
    BY <1>7 DEF Pop
  <1>8. ASSUME \/ Write \/ Check \/ Wait \/ ReadFails \/ Shutdown \/ Close
               \/ \E c \in Calls, answered \in BOOLEAN : BeginEnd(c, answered)
               \/ \E c \in Calls : EndCall(c) \/ Abandon(c)
               \/ UNCHANGED vars
        PROVE  UNCHANGED outbox
    BY <1>8 DEF Write, Check, Wait, ReadFails, BeginEnd, EndCall, Abandon, Shutdown, Close, vars
  <1>9. UNCHANGED outbox \/ Puts \/ (Pop /\ order # <<>>) \/ CloseOutbox
    BY <1>2, <1>3, <1>4, <1>5, <1>6, <1>7, <1>8 DEF Next
  <1> QED BY <1>9 DEF Puts

\* The types of what is not the queue.
OtherTypes ==
  /\ closed \in BOOLEAN /\ ready \in BOOLEAN
  /\ ctx \in {"up", "cancelled"}
  /\ writer \in {"pop", "check", "wait", "write", "stopped"}
  /\ current \in Frame \cup {None}
  /\ stage \in {"running", "draining", "closed"}
  /\ call \in [Calls -> {"new", "open", "orphaned", "ended"}]
  /\ toQueue \subseteq Calls /\ toEnd \subseteq Calls /\ owed \subseteq Calls
  /\ written \in [CallID -> Seq(Frame)]
  /\ goneAway \in BOOLEAN
  /\ passed \in [CallID -> SUBSET CallID]
  /\ writer = "write" => current \in Frame

LEMMA TypesSplit == TypeOK /\ (writer = "write" => current \in Frame) <=> QueueTypes /\ OtherTypes
  BY DEF TypeOK, QueueTypes, OtherTypes

LEMMA PopTakes ==
  ASSUME QueueInv, Pop, order # <<>>
  PROVE  /\ Turn \in 1..Len(order) /\ Takes(Turn)
         /\ order[Turn] \in CallID
         /\ current' = Head(queue[order[Turn]]) /\ current' \in Frame
         /\ current'.call = order[Turn] /\ writer' = "write"
  <1>1. QueueTypes
    BY TypesSplit DEF QueueInv
  <1>2. Turn \in 1..Len(order)
    BY <1>1, TurnInOrder
  <1>3. Takes(Turn) /\ current' = Head(queue[order[Turn]]) /\ writer' = "write"
    BY DEF Pop, Takes
  <1>4. /\ order[Turn] \in CallID
        /\ Head(queue[order[Turn]]) \in Frame
        /\ Head(queue[order[Turn]]).call = order[Turn]
    BY <1>1, <1>2, <1>3, TakeKeepsQueue DEF QueueInv
  <1> QED BY <1>2, <1>3, <1>4

LEMMA OtherTypesStep ==
  ASSUME QueueInv, [Next]_vars
  PROVE  OtherTypes'
  <1> USE DEF OtherTypes
  <1>0. OtherTypes /\ TypeOK /\ Calls \subseteq CallID
    BY TypesSplit DEF QueueInv, Calls
  <1>1. ASSUME NEW c \in CallID, NEW kind \in Kinds, NEW size \in Size, Push(c, kind, size)
        PROVE  UNCHANGED <<closed, passed>> /\ ready' \in BOOLEAN /\ ctx' \in {"up", "cancelled"}
    BY <1>0, <1>1, PushKinds DEF Queues, outbox
  <1>2. CASE Pop
    <2>1. CASE order = <<>>
      BY <1>0, <1>2, <2>1 DEF Pop, outbox, router
    <2>2. CASE order # <<>>
      <3>1. current' \in Frame /\ order[Turn] \in CallID /\ writer' = "write"
        BY <1>2, <2>2, PopTakes
      <3>2. passed' \in [CallID -> SUBSET CallID]
        BY <1>0, <1>2, <2>2, <3>1 DEF Pop
      <3>3. UNCHANGED <<closed, ready, ctx, router, written, goneAway>>
        BY <1>2, <2>2 DEF Pop
      <3> QED BY <1>0, <3>1, <3>2, <3>3 DEF router
    <2> QED BY <2>1, <2>2
  <1>3. CASE Write
    <2>1. current \in Frame
      BY <1>3 DEF Write, QueueInv
    <2>2. current.call \in CallID
      BY <2>1 DEF Frame
    <2>3. written' \in [CallID -> Seq(Frame)]
      <3>1. Append(written[current.call], current) \in Seq(Frame)
        BY <1>0, <2>1, <2>2, AppendProperties
      <3> QED BY <1>0, <1>3, <2>2, <3>1 DEF Write
    <2> QED BY <1>0, <1>3, <2>3 DEF Write, outbox, router
  <1>4. CASE Check
    BY <1>0, <1>4 DEF Check, outbox, router
  <1>5. CASE Wait
    BY <1>0, <1>5 DEF Wait, outbox, router
  <1>6. CASE ReadFails \/ CloseOutbox
    BY <1>0, <1>6 DEF ReadFails, CloseOutbox, outbox, router
  <1>7. ASSUME NEW size \in Size, NEW kind \in {"data", "control"}, ReaderSend(kind, size)
        PROVE  OtherTypes'
    BY <1>0, <1>1, <1>7, OutboxAssumption DEF ReaderSend, router, Kinds
  <1>8. ASSUME NEW c \in Calls, OpenCall(c) PROVE OtherTypes'
    <2>1. call' \in [Calls -> {"new", "open", "orphaned", "ended"}]
      BY <1>0, <1>8 DEF OpenCall
    <2> QED BY <1>0, <1>1, <1>8, <2>1 DEF OpenCall, Kinds, outbox
  <1>9. ASSUME NEW c \in Calls, NEW size \in Size, RefuseCall(c, size) PROVE OtherTypes'
    <2>1. call' \in [Calls -> {"new", "open", "orphaned", "ended"}]
      BY <1>0, <1>9 DEF RefuseCall
    <2> QED BY <1>0, <1>1, <1>9, <2>1 DEF RefuseCall, Kinds
  <1>10. ASSUME NEW c \in Calls, NEW size \in Size, NEW kind \in {"data", "control"},
                Forward(c, kind, size)
         PROVE  OtherTypes'
    BY <1>0, <1>1, <1>10 DEF Forward, router, Kinds
  <1>11. ASSUME NEW c \in Calls, NEW answered \in BOOLEAN, BeginEnd(c, answered)
         PROVE  OtherTypes'
    BY <1>0, <1>11 DEF BeginEnd, outbox
  <1>12. ASSUME NEW c \in Calls, NEW size \in Size, QueueLast(c, size) PROVE OtherTypes'
    BY <1>0, <1>1, <1>12 DEF QueueLast, Kinds
  <1>13. ASSUME NEW c \in Calls, EndCall(c) PROVE OtherTypes'
    <2>1. call' \in [Calls -> {"new", "open", "orphaned", "ended"}]
      BY <1>0, <1>13 DEF EndCall
    <2> QED BY <1>0, <1>13, <2>1 DEF EndCall, WakeIfStopping, outbox
  <1>14. CASE Shutdown \/ Close
    BY <1>0, <1>14 DEF Shutdown, Close, outbox, Reached
  <1>16. ASSUME NEW c \in Calls, Abandon(c) PROVE OtherTypes'
    <2>1. call' \in [Calls -> {"new", "open", "orphaned", "ended"}]
      BY <1>0, <1>16 DEF Abandon
    <2> QED BY <1>0, <1>16, <2>1 DEF Abandon, outbox
  <1>15. CASE UNCHANGED vars
    BY <1>0, <1>15 DEF vars, outbox, router
  <1> QED BY <1>2, <1>3, <1>4, <1>5, <1>6, <1>7, <1>8, <1>9, <1>10, <1>11, <1>12, <1>13,
             <1>14, <1>15, <1>16 DEF Next

LEMMA QueueStep == QueueInv /\ [Next]_vars => QueueInv'
  <1> SUFFICES ASSUME QueueInv, [Next]_vars PROVE QueueInv'
    OBVIOUS
  <1> DEFINE Goal == QueueTypes' /\ OrderInv' /\ FramesInv' /\ BytesInv'
  <1>0. TypeOK /\ QueueTypes /\ OrderInv /\ FramesInv /\ BytesInv
    BY TypesSplit DEF QueueInv
  <1>1. OtherTypes'
    BY OtherTypesStep
  <1>2. ASSUME UNCHANGED outbox PROVE Goal
    <2>1. UNCHANGED <<queue, order, bytes, accepted>>
      BY <1>2 DEF outbox
    <2>2. Waiting' = Waiting /\ Queued' = Queued
      BY <2>1 DEF Waiting, Queued
    <2>3. CostUnits' = CostUnits
      BY <2>2 DEF CostUnits
    <2>4. QueueTypes' /\ OrderInv'
      BY <1>0, <2>1, <2>2 DEF QueueTypes, OrderInv
    <2>5. FramesInv'
      BY <1>0, <2>1 DEF FramesInv
    <2>6. BytesInv'
      BY <1>0, <2>1, <2>3 DEF BytesInv
    <2> QED BY <2>4, <2>5, <2>6
  <1>3. ASSUME NEW c \in CallID, NEW f \in Frame, Queues(c, f) PROVE Goal
    BY <1>0, <1>3, AcceptKeepsQueue DEF Queues
  <1>4. ASSUME Pop, order # <<>> PROVE Goal
    <2>1. Turn \in 1..Len(order) /\ Takes(Turn)
      BY <1>4, PopTakes
    <2> QED BY <1>0, <2>1, TakeKeepsQueue
  <1>5. ASSUME CloseOutbox PROVE Goal
    <2>1. queue' = Empty /\ order' = <<>> /\ bytes' = 0 /\ UNCHANGED accepted
      BY <1>5 DEF CloseOutbox
    <2> QED BY <1>0, <2>1, EmptyKeepsQueue
  <1> HIDE DEF Goal
  <1>6. Goal
    BY <1>0, <1>2, <1>3, <1>4, <1>5, QueueKinds
  <1>7. QueueTypes' /\ OrderInv' /\ FramesInv' /\ BytesInv'
    BY <1>6 DEF Goal
  <1>8. TypeOK' /\ (writer' = "write" => current' \in Frame)
    BY <1>1, <1>7 DEF TypeOK, QueueTypes, OtherTypes
  <1> QED BY <1>7, <1>8 DEF QueueInv

LEMMA QueueInitially == Init => QueueInv
  <1> SUFFICES ASSUME Init PROVE QueueInv
    OBVIOUS
  <1>1. QueueTypes /\ (\A c \in CallID : queue[c] = <<>>) /\ order = <<>>
    BY EmptySeq DEF Init, Empty, QueueTypes
  <1>2. Waiting = {} /\ Queued = {}
    <2>1. \A c \in CallID : ToSet(queue[c]) = {}
      BY <1>1, ToSetByIndex DEF QueueTypes
    <2> QED BY <1>1, <2>1 DEF Waiting, Queued
  <1>3. Len(<<>>) = 0 /\ ToSet(<<>>) = {}
    BY EmptySeq, ToSetByIndex
  <1>4. OrderInv /\ FramesInv
    BY <1>1, <1>2, <1>3 DEF OrderInv, FramesInv
  <1>5. BytesInv
    <2>1. CostUnits = {}
      BY <1>2 DEF CostUnits
    <2> QED BY <2>1, FS_EmptySet DEF BytesInv, Init
  <1>6. OtherTypes
    <2>1. written \in [CallID -> Seq(Frame)]
      BY EmptySeq DEF Init, Empty
    <2> QED BY <2>1 DEF Init, OtherTypes
  <1> QED BY <1>1, <1>4, <1>5, <1>6, TypesSplit DEF QueueInv

\* The outbox has the types that its operations rely on; in particular its
\* byte count never drops below zero.
THEOREM OutboxTypeCorrect == Spec => []TypeOK
  <1>1. QueueInv => TypeOK
    BY DEF QueueInv
  <1> QED BY <1>1, QueueInitially, QueueStep, PTL DEF Spec

\* push, pop and close keep the queues, the turns and the byte count in step.
THEOREM QueueCorrect == Spec => []QueueConsistent
  <1>1. QueueInv => QueueConsistent
    <2> SUFFICES ASSUME QueueInv PROVE QueueConsistent
      OBVIOUS
    <2>1. order \in Seq(CallID)
      BY DEF QueueInv, TypeOK
    <2>2. Len(order) = Cardinality(ToSet(order))
      BY <2>1, DistinctLength DEF QueueInv, OrderInv
    <2> QED BY <2>2 DEF QueueInv, OrderInv, BytesInv, QueueConsistent
  <1> QED BY <1>1, QueueInitially, QueueStep, PTL DEF Spec

-------------------------------------------------------------------------------
(* The limit.                                                              *)

\* An outbox that counts no bytes holds no frame.
LEMMA NoBytesNoFrames ==
  ASSUME QueueTypes, BytesInv, bytes = 0
  PROVE  Queued = {} /\ Waiting = {} /\ \A c \in CallID : queue[c] = <<>>
  <1>1. CostUnits = {}
    BY FS_EmptySet DEF BytesInv
  <1>2. ASSUME NEW c \in CallID, queue[c] # <<>> PROVE FALSE
    <2>1. queue[c] \in Seq(Frame) /\ Len(queue[c]) \in Nat \ {0}
      BY <1>2, EmptySeq DEF QueueTypes
    <2>2. 1 \in 1..Len(queue[c]) /\ queue[c][1] \in Frame
      BY <2>1, ElementOfSeq
    <2>3. queue[c][1] \in Queued
      BY <2>2, QueuedMembers
    <2>4. 1 \in 1..Cost(queue[c][1])
      BY <2>2, CostPositive
    <2>5. <<queue[c][1], 1>> \in {queue[c][1]} \X (1..Cost(queue[c][1]))
      BY <2>4
    <2> QED BY <1>1, <2>3, <2>5, UnitMembers
  <1>3. \A c \in CallID : queue[c] = <<>>
    BY <1>2
  <1>4. \A c \in CallID : Len(queue[c]) = 0
    BY <1>3
  <1>5. ASSUME NEW f \in Queued PROVE FALSE
    BY <1>4, QueuedMembers
  <1> QED BY <1>3, <1>5 DEF Waiting

LEMMA MemoryStep ==
  ASSUME QueueInv, MemoryBounded, [Next]_vars
  PROVE  MemoryBounded'
  <1>0. QueueTypes /\ OrderInv /\ FramesInv /\ BytesInv /\ bytes \in Nat /\ Limit \in Nat
    BY TypesSplit, OutboxAssumption DEF QueueInv, TypeOK
  <1>1. ASSUME UNCHANGED outbox PROVE MemoryBounded'
    <2>1. UNCHANGED <<queue, bytes>>
      BY <1>1 DEF outbox
    <2>2. Waiting' = Waiting
      BY <2>1 DEF Waiting
    <2> QED BY <2>1, <2>2 DEF MemoryBounded
  <1>2. ASSUME NEW c \in CallID, NEW f \in Frame, Queues(c, f) PROVE MemoryBounded'
    <2>1. Waiting' = Waiting \cup {c}
      BY <1>0, <1>2, AcceptKeepsQueue DEF Queues
    <2>2. CASE bytes = 0
      <3>1. Waiting' = {c} /\ queue[c] = <<>>
        BY <1>0, <2>1, <2>2, NoBytesNoFrames
      <3>2. queue'[c] = Append(queue[c], f)
        BY <1>0, <1>2 DEF Queues, Accepts, QueueTypes
      <3>3. queue'[c] = Append(<<>>, f)
        BY <3>1, <3>2
      <3>4. Len(queue'[c]) = 1
        BY <3>3
      <3> QED BY <3>1, <3>4 DEF MemoryBounded
    <2>3. CASE bytes + Cost(f) <= Limit
      <3>1. bytes' = bytes + Cost(f) /\ Cost(f) \in Nat
        BY <1>2, CostPositive DEF Queues, Accepts
      <3>2. ~(bytes' > Limit)
        BY <1>0, <2>3, <3>1
      <3> QED BY <3>2 DEF MemoryBounded
    <2> QED BY <1>2, <2>2, <2>3 DEF Queues, Fits
  <1>3. ASSUME Pop, order # <<>> PROVE MemoryBounded'
    <2> DEFINE f == Head(queue[order[Turn]])
    <2>1. Turn \in 1..Len(order) /\ Takes(Turn)
      BY <1>3, PopTakes
    <2>2. /\ QueueTypes' /\ BytesInv' /\ order[Turn] \in CallID /\ queue[order[Turn]] # <<>>
          /\ f \in Frame
          /\ Waiting' = IF Len(queue[order[Turn]]) > 1 THEN Waiting ELSE Waiting \ {order[Turn]}
      BY <1>0, <2>1, TakeKeepsQueue
    <2>3. bytes' = bytes - Cost(f)
      BY <2>1 DEF Takes
    <2>4. Cost(f) \in Nat
      BY <2>2, CostPositive
    <2> HIDE DEF f
    <2>5. CASE bytes > Limit
      <3>1. PICK c \in CallID : Waiting = {c} /\ Len(queue[c]) = 1
        BY <2>5 DEF MemoryBounded
      <3>2. order[Turn] \in Waiting
        BY <2>2 DEF Waiting
      <3>3. Waiting' = {}
        <4>1. order[Turn] = c
          BY <3>1, <3>2
        <4>2. ~(Len(queue[order[Turn]]) > 1)
          <5>1. Len(queue[order[Turn]]) = 1
            BY <3>1, <4>1
          <5> QED BY <5>1
        <4>3. Waiting' = Waiting \ {order[Turn]}
          BY <2>2, <4>2
        <4> QED BY <3>1, <4>1, <4>3
      <3>4. \A d \in CallID : queue'[d] = <<>>
        BY <3>3 DEF Waiting
      <3>5. Queued' = {}
        <4>1. \A d \in CallID : Len(queue'[d]) = 0
          BY <3>4
        <4>2. \A d \in CallID : ToSet(queue'[d]) = {queue'[d][i] : i \in 1..Len(queue'[d])}
          BY <2>2, ToSetByIndex DEF QueueTypes
        <4>3. \A d \in CallID : ToSet(queue'[d]) = {}
          BY <4>1, <4>2
        <4> QED BY <4>3 DEF Queued
      <3>6. CostUnits' = {}
        BY <3>5 DEF CostUnits
      <3>7. bytes' = 0
        BY <2>2, <3>6, FS_EmptySet DEF BytesInv
      <3> QED BY <1>0, <3>7 DEF MemoryBounded
    <2>6. CASE ~(bytes > Limit)
      <3>1. ~(bytes' > Limit)
        BY <1>0, <2>3, <2>4, <2>6
      <3> QED BY <3>1 DEF MemoryBounded
    <2> QED BY <2>5, <2>6
  <1>4. ASSUME CloseOutbox PROVE MemoryBounded'
    BY <1>0, <1>4 DEF CloseOutbox, MemoryBounded
  <1>5. TypeOK
    BY DEF QueueInv
  <1> QED BY <1>1, <1>2, <1>3, <1>4, <1>5, QueueKinds

\* However the frames' sizes and the limit relate, the bytes that push counts
\* keep what is held for a peer within the limit, or at one frame.
THEOREM MemoryCorrect == Spec => []MemoryBounded
  <1>1. Init => MemoryBounded
    BY OutboxAssumption DEF Init, MemoryBounded
  <1>2. QueueInv /\ MemoryBounded /\ [Next]_vars => MemoryBounded'
    BY MemoryStep
  <1> QED BY <1>1, <1>2, QueueInitially, QueueStep, PTL DEF Spec

-------------------------------------------------------------------------------
(* Wake-ups.                                                               *)

\* A writer that found nothing has a token or still nothing; and one that
\* sleeps through a stop without a token waits for a call that is open, or for
\* the critical section that ends it; after Close only orphaned calls are left.
WakeInv ==
  /\ (writer \in {"check", "wait"} /\ ~ready) => order = <<>>
  /\ (writer = "wait" /\ ~ready /\ stage # "running") =>
       \/ toEnd # {}
       \/ MuFree /\ Owing # {} /\ (stage = "closed" => Reached = {})

LEMMA WakeStep ==
  ASSUME TypeOK, WakeInv, [Next]_vars
  PROVE  WakeInv'
  <1>0. /\ Connection \in CallID /\ Calls \subseteq CallID
        /\ "data" \in Kinds /\ "terminal" \in Kinds /\ "control" \in Kinds
    BY OutboxAssumption DEF Kinds, Calls
  <1>1. ASSUME NEW c \in CallID, NEW kind \in Kinds, NEW size \in Size, Push(c, kind, size)
        PROVE  ready' = TRUE \/ UNCHANGED <<order, ready>>
    BY <1>1, PushKinds DEF Queues, outbox
  <1>2. CASE Pop
    BY <1>2 DEF Pop, WakeInv, outbox
  <1>3. CASE Write
    BY <1>3 DEF Write, WakeInv
  <1>4. CASE Check
    BY <1>4 DEF Check, WakeInv, TypeOK, GoingAway, MuFree, Owing, Reached, outbox, router
  <1>5. CASE Wait
    BY <1>5 DEF Wait, WakeInv, MuFree, Owing, Reached, outbox, router
  <1>6. CASE ReadFails \/ CloseOutbox
    BY <1>6 DEF ReadFails, CloseOutbox, WakeInv, MuFree, Owing, Reached, outbox, router
  <1>7. ASSUME NEW size \in Size, NEW kind \in {"data", "control"}, ReaderSend(kind, size)
        PROVE  WakeInv'
    BY <1>0, <1>1, <1>7 DEF ReaderSend, WakeInv, MuFree, Owing, Reached, router
  <1>8. ASSUME NEW c \in Calls, OpenCall(c) PROVE WakeInv'
    <2>1. stage' = "running" /\ UNCHANGED writer
      BY <1>8 DEF OpenCall
    <2>2. ready' = TRUE \/ UNCHANGED <<order, ready>>
      BY <1>0, <1>1, <1>8 DEF OpenCall, outbox
    <2> QED BY <2>1, <2>2 DEF WakeInv
  <1>9. ASSUME NEW c \in Calls, NEW size \in Size, RefuseCall(c, size) PROVE WakeInv'
    <2>1. Owing' = Owing /\ Reached' = Reached
      BY <1>9 DEF RefuseCall, Owing, Reached, TypeOK
    <2>2. MuFree' = MuFree /\ UNCHANGED <<writer, stage, toEnd>>
      BY <1>9 DEF RefuseCall, MuFree
    <2>3. ready' = TRUE \/ UNCHANGED <<order, ready>>
      BY <1>0, <1>1, <1>9 DEF RefuseCall
    <2> QED BY <2>1, <2>2, <2>3 DEF WakeInv
  <1>10. ASSUME NEW c \in Calls, NEW size \in Size, NEW kind \in {"data", "control"},
                Forward(c, kind, size)
         PROVE  WakeInv'
    BY <1>0, <1>1, <1>10 DEF Forward, WakeInv, MuFree, Owing, Reached, router
  <1>11. ASSUME NEW c \in Calls, NEW answered \in BOOLEAN, BeginEnd(c, answered)
         PROVE  WakeInv'
    BY <1>11 DEF BeginEnd, WakeInv, outbox
  <1>12. ASSUME NEW c \in Calls, NEW size \in Size, QueueLast(c, size) PROVE WakeInv'
    <2>1. ~MuFree /\ UNCHANGED <<writer, stage, toEnd>>
      BY <1>12 DEF QueueLast, MuFree
    <2>2. ready' = TRUE \/ UNCHANGED <<order, ready>>
      BY <1>0, <1>1, <1>12 DEF QueueLast
    <2> QED BY <2>1, <2>2 DEF WakeInv
  <1>13. ASSUME NEW c \in Calls, EndCall(c) PROVE WakeInv'
    BY <1>13 DEF EndCall, WakeIfStopping, WakeInv, outbox, TypeOK
  <1>14. CASE Shutdown
    BY <1>14 DEF Shutdown, WakeInv
  <1>15. CASE Close
    <2>1. /\ MuFree /\ toQueue' = Reached /\ toEnd' = Reached /\ UNCHANGED <<writer, order>>
          /\ ready' = (ready \/ stage = "running")
      BY <1>15 DEF Close, outbox
    <2>2. (writer = "wait" /\ ~ready /\ stage # "running") => Owing # {}
      BY <2>1 DEF WakeInv, MuFree
    <2>3. Owing' = Owing /\ Reached' = Reached
      BY <1>15 DEF Close, Owing, Reached
    <2>4. toEnd' = {} => MuFree' /\ Reached' = {}
      BY <2>1, <2>3 DEF MuFree
    <2> QED BY <2>1, <2>2, <2>3, <2>4 DEF WakeInv
  <1>17. ASSUME NEW c \in Calls, Abandon(c) PROVE WakeInv'
    <2>1. /\ MuFree /\ MuFree' /\ c \in Reached /\ UNCHANGED <<order, ready, writer, stage>>
          /\ Owing' = Owing
      BY <1>17 DEF Abandon, MuFree, Owing, Reached, TypeOK, outbox
    <2> QED BY <2>1 DEF WakeInv, MuFree
  <1>16. CASE UNCHANGED vars
    BY <1>16 DEF vars, WakeInv, MuFree, Owing, Reached, outbox, router
  <1> QED BY <1>2, <1>3, <1>4, <1>5, <1>6, <1>7, <1>8, <1>9, <1>10, <1>11, <1>12, <1>13,
             <1>14, <1>15, <1>16, <1>17 DEF Next

\* No wake-up is lost, in whatever order push, the end of a call, startDraining
\* and Close meet a writer that is about to sleep; in a closed Router a writer may
\* sleep on, without a token, only for a peer whose calls left are all orphaned.
THEOREM WakeupsCorrect == Spec => []NoLostWakeup
  <1>1. Init => WakeInv
    BY DEF Init, WakeInv
  <1>2. TypeOK /\ WakeInv /\ [Next]_vars => WakeInv'
    BY WakeStep
  <1>3. TypeOK /\ WakeInv => NoLostWakeup
    BY DEF WakeInv, NoLostWakeup, MuFree, TypeOK
  <1> QED BY <1>1, <1>2, <1>3, OutboxTypeCorrect, PTL DEF Spec

-------------------------------------------------------------------------------
(* Last frames.                                                            *)

\* The last frame of c is queued, in the writer's hands, or written.
Answered(c) ==
  \/ \E f \in Queued : f.call = c /\ f.kind = "terminal"
  \/ writer = "write" /\ current.call = c /\ current.kind = "terminal"
  \/ \E f \in ToSet(written[c]) : f.kind = "terminal"

\* While the connection is up no last frame is lost on the way, Close leaves no
\* call to anyone else, and a connection that was closed with 1001 stays closed.
AnswerInv ==
  /\ ctx = "up" => \A c \in owed : c \in toQueue \/ Answered(c)
  /\ stage = "closed" => Reached \subseteq toEnd
  /\ goneAway => ctx = "cancelled" /\ writer = "stopped" /\ stage # "running" /\ MuFree
  /\ AnsweredBeforeGoingAway

\* What a step leaves alone when it neither writes nor goes away.
LEMMA AnsweredStays ==
  ASSUME NEW c, Answered(c), UNCHANGED <<writer, current, written>>, Queued \subseteq Queued'
  PROVE  Answered(c)'
  BY DEF Answered

\* push keeps what is queued, and either queues its frame or ends the connection.
LEMMA PushQueues ==
  ASSUME QueueInv, NEW c \in CallID, NEW kind \in Kinds, NEW size \in Size, Push(c, kind, size)
  PROVE  /\ Queued \subseteq Queued'
         /\ ctx' = "up" => ctx = "up" /\ \E f \in Queued' : f.call = c /\ f.kind = kind
  <1>0. TypeOK /\ QueueTypes /\ OrderInv /\ FramesInv /\ BytesInv
    BY TypesSplit DEF QueueInv
  <1>1. ASSUME NEW f \in Frame, f.kind = kind, Queues(c, f)
        PROVE  Queued' = Queued \cup {f} /\ f.call = c /\ f.kind = kind /\ ctx' = ctx
    BY <1>0, <1>1, AcceptKeepsQueue DEF Queues
  <1>2. ASSUME UNCHANGED outbox PROVE Queued' = Queued
    BY <1>2 DEF outbox, Queued
  <1> QED BY <1>0, <1>1, <1>2, PushKinds

\* Nothing is queued when no call is in turn.
LEMMA NoTurnsNoFrames ==
  ASSUME QueueInv, order = <<>>
  PROVE  Queued = {}
  <1>0. QueueTypes /\ ToSet(order) = Waiting
    BY TypesSplit DEF QueueInv, OrderInv
  <1>1. Waiting = {}
    <2>1. ToSet(<<>>) = {}
      BY EmptySeq, ToSetByIndex
    <2> QED BY <1>0, <2>1
  <1>2. \A c \in CallID : queue[c] = <<>>
    BY <1>1 DEF Waiting
  <1>3. \A c \in CallID : Len(queue[c]) = 0
    BY <1>2
  <1>4. ASSUME NEW f \in Queued PROVE FALSE
    BY <1>0, <1>3, QueuedMembers
  <1> QED BY <1>4

LEMMA AnswerStep ==
  ASSUME QueueInv, AnswerInv, [Next]_vars
  PROVE  AnswerInv'
  <1>0. /\ TypeOK /\ Connection \in CallID /\ Calls \subseteq CallID
        /\ "data" \in Kinds /\ "terminal" \in Kinds /\ "control" \in Kinds
    BY OutboxAssumption DEF Kinds, Calls, QueueInv
  <1>1. ASSUME NEW c \in CallID, NEW kind \in Kinds, NEW size \in Size, Push(c, kind, size),
               UNCHANGED <<writer, current, written>>
        PROVE  ctx' = "up" => /\ ctx = "up"
                              /\ \A d \in owed : d \in toQueue \/ Answered(d)'
                              /\ kind = "terminal" => Answered(c)'
    <2>1. Queued \subseteq Queued'
      BY <1>1, PushQueues
    <2>2. ASSUME ctx' = "up" PROVE ctx = "up" /\ \E f \in Queued' : f.call = c /\ f.kind = kind
      BY <1>1, <2>2, PushQueues
    <2>3. ASSUME ctx' = "up" PROVE \A d \in owed : d \in toQueue \/ Answered(d)'
      BY <1>1, <2>1, <2>2, <2>3, AnsweredStays DEF AnswerInv
    <2>4. ASSUME ctx' = "up", kind = "terminal" PROVE Answered(c)'
      BY <2>2, <2>4 DEF Answered
    <2> QED BY <2>2, <2>3, <2>4
  <1>2. ASSUME UNCHANGED queue, UNCHANGED <<writer, current, written>>, ctx' = "up" => ctx = "up"
        PROVE  ctx' = "up" => \A d \in owed : d \in toQueue \/ Answered(d)'
    <2>1. Queued' = Queued
      BY <1>2 DEF Queued
    <2> QED BY <1>2, <2>1, AnsweredStays DEF AnswerInv
  \* The part that is about a connection that is gone.
  <1>3. ASSUME UNCHANGED <<goneAway, writer, stage, written, owed>>, goneAway => MuFree',
               ctx = "cancelled" => ctx' = "cancelled", Owing' = Owing, Reached' = Reached
        PROVE  /\ goneAway' => ctx' = "cancelled" /\ writer' = "stopped"
                               /\ stage' # "running" /\ MuFree'
               /\ AnsweredBeforeGoingAway'
    BY <1>3 DEF AnswerInv, AnsweredBeforeGoingAway
  <1>4. ASSUME UNCHANGED router PROVE Owing' = Owing /\ Reached' = Reached /\ MuFree' = MuFree
    BY <1>4 DEF router, Owing, Reached, MuFree
  <1>5. goneAway => Reached = {} /\ MuFree /\ stage # "running"
    BY DEF AnswerInv, AnsweredBeforeGoingAway
  <1>6. ASSUME NEW c \in CallID, NEW kind \in Kinds, NEW size \in Size, Push(c, kind, size)
        PROVE  ctx = "cancelled" => ctx' = "cancelled"
    BY <1>0, <1>6, PushKinds DEF Queues
  <1>10. CASE Pop
    <2>1. UNCHANGED <<ctx, router, written, goneAway>> /\ writer = "pop"
      BY <1>10 DEF Pop
    <2>2. /\ Owing' = Owing /\ Reached' = Reached /\ MuFree' = MuFree /\ ~goneAway
          /\ UNCHANGED <<stage, owed, toQueue, toEnd>>
      BY <1>4, <2>1 DEF AnswerInv, router
    <2>3. ctx' = "up" => \A c \in owed' : c \in toQueue' \/ Answered(c)'
      <3>1. CASE order = <<>>
        <4>1. UNCHANGED outbox /\ writer' = "check"
          BY <1>10, <3>1 DEF Pop
        <4>2. Queued' = Queued
          BY <4>1 DEF Queued, outbox
        <4>3. \A c : Answered(c) => Answered(c)'
          BY <2>1, <4>2 DEF Answered
        <4> QED BY <2>1, <2>2, <4>3 DEF AnswerInv
      <3>2. CASE order # <<>>
        <4>1. /\ Turn \in 1..Len(order) /\ Takes(Turn) /\ writer' = "write"
              /\ current' = Head(queue[order[Turn]])
          BY <1>10, <3>2, PopTakes
        <4>2. Queued' = Queued \ {current'}
          BY <4>1, TypesSplit, TakeKeepsQueue DEF QueueInv
        <4>3. \A c : Answered(c) => Answered(c)'
          BY <2>1, <4>1, <4>2 DEF Answered
        <4> QED BY <2>1, <2>2, <4>3 DEF AnswerInv
      <3> QED BY <3>1, <3>2
    <2> QED BY <2>1, <2>2, <2>3 DEF AnswerInv, AnsweredBeforeGoingAway
  <1>11. CASE Write
    <2>1. /\ UNCHANGED <<queue, router, goneAway>> /\ writer = "write" /\ current \in Frame
          /\ current.call \in CallID /\ written \in [CallID -> Seq(Frame)]
      BY <1>11 DEF Write, QueueInv, outbox, Frame, TypeOK
    <2>2. /\ Owing' = Owing /\ Reached' = Reached /\ MuFree' = MuFree /\ ~goneAway
          /\ UNCHANGED <<stage, owed, toQueue, toEnd>>
      BY <1>4, <2>1 DEF AnswerInv, router
    <2>3. ASSUME ctx' = "up" PROVE ctx = "up" /\ \A c \in owed : Answered(c) => Answered(c)'
      <3>1. ctx = "up" /\ written' = [written EXCEPT ![current.call] = Append(@, current)]
            /\ writer' = "pop"
        BY <1>11, <2>3 DEF Write
      <3>2. ToSet(written'[current.call]) = ToSet(written[current.call]) \cup {current}
        <4>1. written[current.call] \in Seq(Frame)
              /\ written'[current.call] = Append(written[current.call], current)
          BY <2>1, <3>1
        <4> QED BY <2>1, <4>1, AppendToSet
      <3>3. Queued' = Queued
        BY <2>1 DEF Queued
      <3>4. \A c \in CallID : ToSet(written[c]) \subseteq ToSet(written'[c])
        BY <2>1, <3>1, <3>2
      <3>5. owed \subseteq CallID
        BY <1>0 DEF TypeOK
      <3>6. ASSUME NEW c \in owed, Answered(c) PROVE Answered(c)'
        BY <2>1, <3>1, <3>2, <3>3, <3>4, <3>5, <3>6 DEF Answered
      <3> QED BY <3>1, <3>6
    <2> QED BY <2>1, <2>2, <2>3 DEF AnswerInv, AnsweredBeforeGoingAway
  <1>12. CASE Check
    <2>1. UNCHANGED <<queue, router, written, current>> /\ writer = "check" /\ ~goneAway
      BY <1>12 DEF Check, outbox, AnswerInv
    <2>2. /\ Owing' = Owing /\ Reached' = Reached /\ MuFree' = MuFree
          /\ UNCHANGED <<stage, owed, toQueue, toEnd>>
      BY <1>4, <2>1 DEF router
    <2>3. Queued' = Queued
      BY <2>1 DEF Queued
    <2>4. CASE writer' = "stopped"
      <3>1. /\ stage # "running" /\ MuFree /\ order = <<>> /\ ctx' = "cancelled"
            /\ stage = "closed" \/ Owing = {}
            /\ goneAway' = (ctx = "up")
        BY <1>12, <2>4 DEF Check, GoingAway
      <3>2. Reached = {} /\ (Owing # {} => stage = "closed")
        BY <3>1 DEF AnswerInv, MuFree, Owing, Reached
      <3>3. Queued = {}
        BY <3>1, NoTurnsNoFrames
      <3>4. ctx = "up" => \A c \in owed : \E f \in ToSet(written[c]) : f.kind = "terminal"
        BY <2>1, <3>1, <3>3 DEF AnswerInv, Answered, MuFree
      <3>5. AnsweredBeforeGoingAway'
        BY <2>1, <2>2, <3>1, <3>2, <3>4 DEF AnsweredBeforeGoingAway
      <3> QED BY <2>2, <2>4, <3>1, <3>2, <3>5 DEF AnswerInv
    <2>5. CASE writer' = "wait" /\ UNCHANGED <<ctx, goneAway>>
      <3>1. \A c : Answered(c) => Answered(c)'
        BY <2>1, <2>3, <2>5 DEF Answered
      <3> QED BY <2>1, <2>2, <2>5, <3>1 DEF AnswerInv, AnsweredBeforeGoingAway
    <2> QED BY <1>12, <2>4, <2>5 DEF Check
  <1>13. CASE Wait
    <2>1. UNCHANGED <<queue, router, written, current, goneAway, ctx>> /\ writer = "wait" /\ ~goneAway
          /\ writer' # "write"
      BY <1>13 DEF Wait, outbox, AnswerInv
    <2>2. /\ Owing' = Owing /\ Reached' = Reached /\ MuFree' = MuFree
          /\ UNCHANGED <<stage, owed, toQueue, toEnd>>
      BY <1>4, <2>1 DEF router
    <2>3. Queued' = Queued
      BY <2>1 DEF Queued
    <2>4. \A c : Answered(c) => Answered(c)'
      BY <2>1, <2>3 DEF Answered
    <2> QED BY <2>1, <2>2, <2>4 DEF AnswerInv, AnsweredBeforeGoingAway
  <1>14. CASE ReadFails \/ CloseOutbox
    <2>1. ctx' = "cancelled" /\ UNCHANGED <<writer, current, router, written, goneAway>>
      BY <1>14 DEF ReadFails, CloseOutbox
    <2>2. /\ Owing' = Owing /\ Reached' = Reached /\ MuFree' = MuFree
          /\ UNCHANGED <<stage, owed, toQueue, toEnd>>
      BY <1>4, <2>1 DEF router
    <2> QED BY <1>3, <1>5, <2>1, <2>2 DEF AnswerInv
  <1>15. ASSUME NEW size \in Size, NEW kind \in {"data", "control"}, ReaderSend(kind, size)
         PROVE  AnswerInv'
    <2>1. Push(Connection, kind, size) /\ UNCHANGED <<writer, current, router, written, goneAway>>
      BY <1>15 DEF ReaderSend
    <2>2. /\ Owing' = Owing /\ Reached' = Reached /\ MuFree' = MuFree
          /\ UNCHANGED <<stage, owed, toQueue, toEnd>>
      BY <1>4, <2>1 DEF router
    <2>3. kind \in Kinds
      BY <1>0
    <2> QED BY <1>0, <1>1, <1>3, <1>5, <1>6, <2>1, <2>2, <2>3 DEF AnswerInv
  <1>16. ASSUME NEW c \in Calls, OpenCall(c) PROVE AnswerInv'
    <2>1. /\ stage = "running" /\ ~goneAway
          /\ UNCHANGED <<stage, toQueue, toEnd, owed, writer, current, written, goneAway>>
      BY <1>5, <1>16 DEF OpenCall
    <2>2. ctx' = "up" => \A d \in owed : d \in toQueue \/ Answered(d)'
      <3>1. CASE UNCHANGED <<outbox, ready, ctx>>
        BY <1>2, <2>1, <3>1 DEF outbox
      <3>2. ASSUME NEW size \in Size, Push(c, "data", size)
            PROVE  ctx' = "up" => \A d \in owed : d \in toQueue \/ Answered(d)'
        BY <1>0, <1>1, <2>1, <3>2
      <3> QED BY <1>16, <3>1, <3>2 DEF OpenCall
    <2> QED BY <2>1, <2>2 DEF AnswerInv, AnsweredBeforeGoingAway
  <1>17. ASSUME NEW c \in Calls, NEW size \in Size, RefuseCall(c, size) PROVE AnswerInv'
    <2>1. /\ Push(c, "terminal", size)
          /\ UNCHANGED <<stage, toQueue, toEnd, owed, writer, current, written, goneAway>>
      BY <1>17 DEF RefuseCall
    <2>2. Owing' = Owing /\ Reached' = Reached
      BY <1>0, <1>17 DEF RefuseCall, Owing, Reached, TypeOK
    <2>3. MuFree' = MuFree
      BY <2>1 DEF MuFree
    <2> QED BY <1>0, <1>1, <1>3, <1>5, <1>6, <2>1, <2>2, <2>3 DEF AnswerInv
  <1>18. ASSUME NEW c \in Calls, NEW size \in Size, NEW kind \in {"data", "control"},
                Forward(c, kind, size)
         PROVE  AnswerInv'
    <2>1. Push(c, kind, size) /\ UNCHANGED <<writer, current, router, written, goneAway>>
      BY <1>18 DEF Forward
    <2>2. /\ Owing' = Owing /\ Reached' = Reached /\ MuFree' = MuFree
          /\ UNCHANGED <<stage, owed, toQueue, toEnd>>
      BY <1>4, <2>1 DEF router
    <2>3. kind \in Kinds
      BY <1>0
    <2> QED BY <1>0, <1>1, <1>3, <1>5, <1>6, <2>1, <2>2, <2>3 DEF AnswerInv
  <1>19. ASSUME NEW c \in Calls, NEW answered \in BOOLEAN, BeginEnd(c, answered)
         PROVE  AnswerInv'
    <2>1. /\ MuFree /\ c \in Reached /\ toEnd' = {c}
          /\ owed' = owed \cup toQueue'
          /\ UNCHANGED <<queue, ctx, writer, current, stage, call, written, goneAway>>
      BY <1>19 DEF BeginEnd, Reached, outbox
    <2>2. ~goneAway
      BY <1>5, <2>1
    <2>3. Reached' = Reached
      BY <2>1 DEF Reached
    <2>4. stage' = "closed" => Reached' \subseteq toEnd'
      BY <2>1, <2>3 DEF AnswerInv, MuFree
    <2>5. ctx' = "up" => \A d \in owed' : d \in toQueue' \/ Answered(d)'
      BY <1>2, <2>1 DEF MuFree
    <2> QED BY <2>1, <2>2, <2>4, <2>5 DEF AnswerInv, AnsweredBeforeGoingAway
  <1>20. ASSUME NEW c \in Calls, NEW size \in Size, QueueLast(c, size) PROVE AnswerInv'
    <2>1. /\ c \in toQueue /\ Push(c, "terminal", size) /\ toQueue' = toQueue \ {c}
          /\ UNCHANGED <<stage, call, toEnd, owed, writer, current, written, goneAway>>
      BY <1>20 DEF QueueLast
    <2>2. ~goneAway /\ Reached' = Reached
      BY <1>5, <2>1 DEF MuFree, Reached
    <2>3. ctx' = "up" => \A d \in owed' : d \in toQueue' \/ Answered(d)'
      BY <1>0, <1>1, <2>1
    <2> QED BY <2>1, <2>2, <2>3 DEF AnswerInv, AnsweredBeforeGoingAway
  <1>21. ASSUME NEW c \in Calls, EndCall(c) PROVE AnswerInv'
    <2>1. /\ c \in toEnd /\ toEnd' = toEnd \ {c} /\ call' = [call EXCEPT ![c] = "ended"]
          /\ UNCHANGED <<queue, ctx, writer, current, stage, toQueue, owed, written, goneAway>>
      BY <1>21 DEF EndCall, outbox
    <2>2. ~goneAway
      BY <1>5, <2>1 DEF MuFree
    <2>3. Reached' = Reached \ {c}
      BY <1>0, <2>1 DEF Reached, TypeOK
    <2>4. ctx' = "up" => \A d \in owed' : d \in toQueue' \/ Answered(d)'
      BY <1>2, <2>1
    <2> QED BY <2>1, <2>2, <2>3, <2>4 DEF AnswerInv, AnsweredBeforeGoingAway
  <1>22. CASE Shutdown
    <2>1. /\ stage = "running" /\ stage' = "draining"
          /\ UNCHANGED <<queue, ctx, writer, current, call, toQueue, toEnd, owed, written, goneAway>>
      BY <1>22 DEF Shutdown, outbox
    <2>2. ~goneAway
      BY <1>5, <2>1
    <2>3. ctx' = "up" => \A d \in owed' : d \in toQueue' \/ Answered(d)'
      BY <1>2, <2>1
    <2> QED BY <2>1, <2>2, <2>3 DEF AnswerInv, AnsweredBeforeGoingAway
  <1>23. CASE Close
    <2>1. /\ MuFree /\ stage' = "closed" /\ toQueue' = Reached /\ toEnd' = Reached
          /\ owed' = owed \cup Reached
          /\ UNCHANGED <<queue, ctx, writer, current, call, written, goneAway>>
      BY <1>23 DEF Close, outbox
    <2>2. Reached' = Reached
      BY <2>1 DEF Reached
    <2>3. ctx' = "up" => \A d \in owed' : d \in toQueue' \/ Answered(d)'
      BY <1>2, <2>1 DEF MuFree
    <2>4. goneAway => MuFree' /\ owed' = owed
      BY <1>5, <2>1 DEF MuFree
    <2>5. AnsweredBeforeGoingAway'
      BY <1>5, <2>1, <2>2, <2>4 DEF AnswerInv, AnsweredBeforeGoingAway
    <2> QED BY <2>1, <2>2, <2>3, <2>4, <2>5 DEF AnswerInv
  <1>24. CASE UNCHANGED vars
    <2>1. UNCHANGED <<queue, ctx, writer, current, router, written, goneAway>>
      BY <1>24 DEF vars, outbox
    <2>2. /\ Owing' = Owing /\ Reached' = Reached /\ MuFree' = MuFree
          /\ UNCHANGED <<stage, owed, toQueue, toEnd>>
      BY <1>4, <2>1 DEF router
    <2> QED BY <1>2, <1>3, <1>5, <2>1, <2>2 DEF AnswerInv
  <1>25. ASSUME NEW c \in Calls, Abandon(c) PROVE AnswerInv'
    <2>1. /\ MuFree /\ c \in Reached
          /\ UNCHANGED <<queue, ctx, writer, current, stage, toQueue, toEnd, owed, written, goneAway>>
      BY <1>25 DEF Abandon, Reached, outbox
    <2>2. ~goneAway /\ Reached' = Reached \ {c}
      BY <1>0, <1>5, <1>25, <2>1 DEF Abandon, Reached, TypeOK
    <2>3. ctx' = "up" => \A d \in owed' : d \in toQueue' \/ Answered(d)'
      BY <1>2, <2>1
    <2> QED BY <2>1, <2>2, <2>3 DEF AnswerInv, AnsweredBeforeGoingAway
  <1> QED BY <1>10, <1>11, <1>12, <1>13, <1>14, <1>15, <1>16, <1>17, <1>18, <1>19, <1>20,
             <1>21, <1>22, <1>23, <1>24, <1>25 DEF Next

\* The writer that closes a live connection with 1001 has written the last frame
\* of every call the peer was owed one for: goingAway reads under Router.mu.
THEOREM AnswersCorrect == Spec => []AnsweredBeforeGoingAway
  <1>1. Init => AnswerInv
    BY DEF Init, AnswerInv, AnsweredBeforeGoingAway
  <1>2. QueueInv /\ AnswerInv /\ [Next]_vars => AnswerInv'
    BY AnswerStep
  <1>3. AnswerInv => AnsweredBeforeGoingAway
    BY DEF AnswerInv
  <1> QED BY <1>1, <1>2, <1>3, QueueInitially, QueueStep, PTL DEF Spec

-------------------------------------------------------------------------------
(* Turns.                                                                  *)

\* The calls that were given a turn for data while the head of d's queue waits
\* are behind d; a call that waits for nothing was not passed.
TurnsInv ==
  ~closed =>
    /\ \A i, j \in 1..Len(order) : order[j] \in passed[order[i]] => i < j
    /\ \A c \in CallID \ Waiting : passed[c] = {}

\* pop moves the call it serves to the back, or drops it, and moves no other.
LEMMA TurnsAfterTake ==
  ASSUME QueueTypes, OrderInv, NEW k \in 1..Len(order), Takes(k)
  PROVE  \A i \in 1..Len(order') :
           \/ order'[i] = order[k] /\ i = Len(order')
           \/ /\ order'[i] # order[k]
              /\ order'[i] = order[IF i < k THEN i ELSE i + 1]
              /\ (IF i < k THEN i ELSE i + 1) \in 1..Len(order)
  <1> DEFINE r == RemoveAt(order, k)
             at(i) == IF i < k THEN i ELSE i + 1
  <1>0. order \in Seq(CallID) /\ Len(order) \in Nat
    BY LenProperties DEF QueueTypes
  <1>1. /\ r \in Seq(CallID) /\ Len(r) = Len(order) - 1
        /\ \A i \in 1..Len(order) - 1 : r[i] = IF i < k THEN order[i] ELSE order[i + 1]
    BY <1>0, RemoveAtProperties
  <1>2. order' = IF Len(queue[order[k]]) > 1 THEN Append(r, order[k]) ELSE r
    BY DEF Takes, NextTurn
  <1>3. order[k] \in CallID
    BY <1>0, ElementOfSeq
  <1> HIDE DEF r
  <1>4. \A i \in 1..Len(r) : at(i) \in 1..Len(order) /\ at(i) # k /\ r[i] = order[at(i)]
    BY <1>0, <1>1
  <1> HIDE DEF at
  <1>5. \A i \in 1..Len(r) : r[i] # order[k] /\ r[i] = order[at(i)] /\ at(i) \in 1..Len(order)
    BY <1>4 DEF OrderInv
  <1>6. ASSUME NEW i \in 1..Len(order')
        PROVE  \/ order'[i] = order[k] /\ i = Len(order')
               \/ order'[i] # order[k] /\ order'[i] = order[at(i)] /\ at(i) \in 1..Len(order)
    <2>1. CASE order' = r
      BY <1>5, <2>1
    <2>2. CASE order' = Append(r, order[k])
      <3>1. /\ Len(order') = Len(r) + 1 /\ Len(r) \in Nat
            /\ order'[Len(r) + 1] = order[k]
            /\ \A x \in 1..Len(r) : order'[x] = r[x]
        BY <1>0, <1>1, <1>3, <2>2, AppendProperties
      <3>2. i \in 1..Len(r) \/ i = Len(r) + 1
        BY <3>1
      <3> QED BY <1>5, <3>1, <3>2
    <2> QED BY <1>2, <2>1, <2>2
  <1> QED BY <1>6 DEF at

LEMMA TurnsStep ==
  ASSUME QueueInv, TurnsInv, [Next]_vars
  PROVE  TurnsInv'
  <1>0. /\ TypeOK /\ QueueTypes /\ OrderInv /\ FramesInv /\ BytesInv
        /\ passed \in [CallID -> SUBSET CallID] /\ order \in Seq(CallID) /\ Len(order) \in Nat
    BY TypesSplit, LenProperties DEF QueueInv, TypeOK
  <1>1. ASSUME UNCHANGED outbox PROVE TurnsInv'
    BY <1>1 DEF TurnsInv, outbox, Waiting
  <1>2. ASSUME NEW c \in CallID, NEW f \in Frame, Queues(c, f) PROVE TurnsInv'
    <2>1. Waiting' = Waiting \cup {c}
      BY <1>0, <1>2, AcceptKeepsQueue DEF Queues
    <2>2. ~closed /\ UNCHANGED <<closed, passed>>
      BY <1>2 DEF Queues
    <2>3. \A d \in CallID \ Waiting' : passed'[d] = {}
      BY <2>1, <2>2 DEF TurnsInv
    <2>4. CASE queue[c] # <<>>
      <3>1. order' = order
        BY <1>2, <2>4 DEF Queues, Accepts
      <3> QED BY <2>2, <2>3, <3>1 DEF TurnsInv
    <2>5. CASE queue[c] = <<>>
      <3>1. order' = Append(order, c) /\ passed[c] = {}
        BY <1>2, <2>2, <2>5 DEF Queues, Accepts, TurnsInv, Waiting
      <3>2. /\ Len(order') = Len(order) + 1 /\ order'[Len(order) + 1] = c
            /\ \A i \in 1..Len(order) : order'[i] = order[i]
        BY <1>0, <3>1, AppendProperties
      <3>3. ASSUME NEW i \in 1..Len(order'), NEW j \in 1..Len(order'),
                   order'[j] \in passed[order'[i]]
            PROVE  i < j
        <4>1. i # Len(order) + 1
          BY <3>1, <3>2, <3>3
        <4>2. i \in 1..Len(order)
          BY <1>0, <3>2, <4>1
        <4>3. CASE j = Len(order) + 1
          BY <1>0, <4>2, <4>3
        <4>4. CASE j \in 1..Len(order)
          BY <2>2, <3>2, <3>3, <4>2, <4>4 DEF TurnsInv
        <4> QED BY <1>0, <3>2, <4>3, <4>4
      <3> QED BY <2>2, <2>3, <3>3 DEF TurnsInv
    <2> QED BY <2>4, <2>5
  <1>3. ASSUME Pop, order # <<>> PROVE TurnsInv'
    <2> DEFINE c == order[Turn]
               f == Head(queue[c])
    <2>1. Turn \in 1..Len(order) /\ Takes(Turn) /\ c \in CallID
      BY <1>3, PopTakes
    <2>2. Waiting' = IF Len(queue[c]) > 1 THEN Waiting ELSE Waiting \ {c}
      BY <1>0, <2>1, TakeKeepsQueue
    <2>3. /\ UNCHANGED closed
          /\ passed' = [d \in CallID |->
                          IF d = c THEN {}
                          ELSE IF d \in Waiting /\ ~Priority(f) THEN passed[d] \cup {c}
                          ELSE passed[d]]
      BY <1>3 DEF Pop
    <2>4. /\ passed'[c] = {}
          /\ \A d \in CallID : passed'[d] \subseteq passed[d] \cup {c}
          /\ \A d \in CallID \ Waiting : d # c => passed'[d] = passed[d]
      BY <2>1, <2>3
    <2>5. ASSUME ~closed, NEW i \in 1..Len(order'), NEW j \in 1..Len(order'),
                 order'[j] \in passed'[order'[i]]
          PROVE  i < j
      <3> DEFINE at(x) == IF x < Turn THEN x ELSE x + 1
      <3>0. order' \in Seq(CallID) /\ Len(order') \in Nat
        BY <1>0, <2>1, TakeKeepsQueue, LenProperties DEF QueueTypes
      <3>1. \A x \in 1..Len(order') :
              \/ order'[x] = c /\ x = Len(order')
              \/ order'[x] # c /\ order'[x] = order[at(x)] /\ at(x) \in 1..Len(order)
        BY <1>0, <2>1, TurnsAfterTake
      <3>2. order'[i] # c
        BY <2>4, <2>5
      <3>3. order'[i] \in CallID
        BY <3>0, ElementOfSeq
      <3>4. CASE order'[j] = c
        <4>1. i # j
          BY <3>2, <3>4
        <4> QED BY <3>0, <3>1, <3>4, <4>1
      <3>5. CASE order'[j] # c
        <4>1. order[at(j)] \in passed[order[at(i)]]
          BY <2>4, <2>5, <3>1, <3>2, <3>3, <3>5
        <4>2. at(i) < at(j)
          BY <2>5, <3>1, <3>2, <3>5, <4>1 DEF TurnsInv
        <4> QED BY <2>1, <4>2
      <3> QED BY <3>4, <3>5
    <2>6. ASSUME ~closed, NEW d \in CallID \ Waiting' PROVE passed'[d] = {}
      <3>1. CASE d = c
        BY <2>4, <3>1
      <3>2. CASE d # c
        BY <2>2, <2>4, <2>6, <3>2 DEF TurnsInv
      <3> QED BY <3>1, <3>2
    <2> QED BY <2>3, <2>5, <2>6 DEF TurnsInv
  <1>4. ASSUME CloseOutbox PROVE TurnsInv'
    BY <1>4 DEF CloseOutbox, TurnsInv
  <1> QED BY <1>0, <1>1, <1>2, <1>3, <1>4, QueueKinds

\* A call that is given a turn for data has not been given one since the head of
\* any other waiting call's queue came to wait: pop's rotation is fair.
THEOREM TurnsFair == Spec => NoMonopoly
  <1> DEFINE Act == \A c \in Waiting :
                      (accepted' = accepted /\ Len(queue'[c]) < Len(queue[c]) /\ ~closed'
                       /\ ~Priority(Head(queue[c])))
                      => \A d \in Waiting \ {c} : c \notin passed[d]
  <1>1. Init => TurnsInv
    BY DEF Init, TurnsInv
  <1>2. QueueInv /\ TurnsInv /\ [Next]_vars => TurnsInv'
    BY TurnsStep
  <1>3. ASSUME QueueInv, TurnsInv, [Next]_vars PROVE [Act]_vars
    <2> SUFFICES ASSUME NEW c \in Waiting, accepted' = accepted,
                        Len(queue'[c]) < Len(queue[c]), ~closed', ~Priority(Head(queue[c])),
                        NEW d \in Waiting \ {c}
                 PROVE  c \notin passed[d]
      OBVIOUS
    <2>0. /\ TypeOK /\ QueueTypes /\ OrderInv /\ FramesInv /\ BytesInv
          /\ order \in Seq(CallID) /\ Len(order) \in Nat /\ c \in CallID
          /\ Len(queue[c]) \in Nat
      BY <1>3, TypesSplit, LenProperties DEF QueueInv, TypeOK, Waiting
    <2>1. ~UNCHANGED outbox
      BY <2>0 DEF outbox
    <2>2. ASSUME NEW e \in CallID, NEW f \in Frame, Queues(e, f) PROVE FALSE
      <3>1. accepted' # accepted
        BY <2>0, <2>2 DEF Queues, Accepts, QueueTypes
      <3> QED BY <3>1
    <2>3. ~CloseOutbox
      BY DEF CloseOutbox
    <2>4. Pop /\ order # <<>>
      BY <1>3, <2>0, <2>1, <2>2, <2>3, QueueKinds
    <2>5. Turn \in 1..Len(order) /\ Takes(Turn) /\ order[Turn] \in CallID
      BY <1>3, <2>4, PopTakes
    <2>6. c = order[Turn]
      <3>1. c # order[Turn] => queue'[c] = queue[c]
        BY <2>0, <2>5 DEF Takes, QueueTypes
      <3> QED BY <2>0, <3>1
    <2>7. Turn = 1
      BY <2>0, <2>4, <2>6, TurnInOrder
    <2>8. PICK i \in 1..Len(order) : d = order[i]
      BY <2>0, ToSetByIndex DEF OrderInv
    <2>9. ~(i < 1)
      BY <2>0, <2>8
    <2>10. ~closed
      BY <2>4 DEF Pop
    <2> QED BY <1>3, <2>5, <2>6, <2>7, <2>8, <2>9, <2>10 DEF TurnsInv
  <1> QED BY <1>1, <1>2, <1>3, QueueInitially, QueueStep, PTL DEF Spec, NoMonopoly

-------------------------------------------------------------------------------
(* The outbox and its writer implement a FIFO channel per call.            *)

LEMMA ConcatFacts ==
  ASSUME NEW S, NEW f \in S, NEW q \in Seq(S)
  PROVE  /\ <<f>> \o q # <<>> /\ Head(<<f>> \o q) = f /\ Tail(<<f>> \o q) = q
         /\ Append(q, f) # <<>> /\ Last(Append(q, f)) = f
         /\ \A g \in S : <<g>> \o Append(q, f) = Append(<<g>> \o q, f)
  <1>0. <<f>> \in Seq(S) /\ Len(<<f>>) = 1 /\ <<f>>[1] = f /\ Len(q) \in Nat
    OBVIOUS
  <1> DEFINE p == <<f>> \o q
  <1>1. /\ p \in Seq(S) /\ Len(p) = 1 + Len(q) /\ p[1] = f
        /\ \A i \in 1..Len(q) : p[i + 1] = q[i]
    BY <1>0, ConcatProperties
  <1> HIDE DEF p
  <1>2. p # <<>> /\ Head(p) = f
    BY <1>0, <1>1
  <1>3. Tail(p) \in Seq(S) /\ Len(Tail(p)) = Len(q) /\ \A i \in 1..Len(q) : Tail(p)[i] = p[i + 1]
    BY <1>0, <1>1, <1>2, HeadTailProperties
  <1>4. Tail(p) = q
    BY <1>0, <1>1, <1>3, SeqEqual
  <1>5. /\ Append(q, f) \in Seq(S) /\ Len(Append(q, f)) = Len(q) + 1 /\ Append(q, f)[Len(q) + 1] = f
        /\ \A i \in 1..Len(q) : Append(q, f)[i] = q[i]
    BY <1>0, AppendProperties
  <1>6. Append(q, f) # <<>> /\ Last(Append(q, f)) = f
    BY <1>0, <1>5 DEF Last
  <1>7. \A g \in S : <<g>> \o Append(q, f) = Append(<<g>> \o q, f)
    BY <1>0
  <1> QED BY <1>2, <1>4, <1>6, <1>7 DEF p

LEMMA PrefixFacts ==
  ASSUME NEW S, NEW s \in Seq(S), NEW q \in Seq(S)
  PROVE  IsPrefix(<<>>, q) /\ IsPrefix(s, s \o q) /\ IsPrefix(s, s)
  <1>1. IsPrefix(<<>>, q)
    <2>1. Len(<<>>) = 0 /\ Len(q) \in Nat
      OBVIOUS
    <2>2. SubSeq(q, 1, 0) = <<>> /\ SubSeq(<<>>, 1, 0) = <<>>
      BY SubSeqEmpty
    <2> QED BY <2>1, <2>2 DEF IsPrefix
  <1>2. IsPrefix(s, s \o q)
    <2>1. Len(s) \in Nat /\ Len(q) \in Nat /\ Len(s \o q) = Len(s) + Len(q)
      BY ConcatProperties
    <2>2. SubSeq(s \o q, 1, Len(s)) = SubSeq(s, 1, Len(s))
      <3>1. CASE Len(s) = 0
        BY <3>1, SubSeqEmpty
      <3>2. CASE Len(s) # 0
        BY <2>1, <3>2, SubSeqOfConcat1
      <3> QED BY <3>1, <3>2
    <2> QED BY <2>1, <2>2 DEF IsPrefix
  <1>3. IsPrefix(s, s)
    BY DEF IsPrefix
  <1> QED BY <1>1, <1>2, <1>3

\* A closed outbox stays empty, whatever is still pushed to it.
ClosedInv == closed => order = <<>>

LEMMA ClosedStep ==
  ASSUME TypeOK, ClosedInv, [Next]_vars
  PROVE  ClosedInv'
  <1>1. ASSUME UNCHANGED outbox PROVE ClosedInv'
    BY <1>1 DEF ClosedInv, outbox
  <1>2. ASSUME NEW c \in CallID, NEW f \in Frame, Queues(c, f) PROVE ClosedInv'
    BY <1>2 DEF ClosedInv, Queues
  <1>3. ASSUME Pop, order # <<>> PROVE ClosedInv'
    BY <1>3 DEF ClosedInv, Pop
  <1>4. ASSUME CloseOutbox PROVE ClosedInv'
    BY <1>4 DEF ClosedInv, CloseOutbox
  <1> QED BY <1>1, <1>2, <1>3, <1>4, QueueKinds

\* The refinement mapping's channels.
ChanOf(c) == IF Up THEN InWriter(c) \o queue[c] ELSE InWriter(c)
Chan == [c \in CallID |-> ChanOf(c)]

PutFrame(c) ==
  /\ Up
  /\ Chan'[c] # <<>> /\ Last(Chan'[c]) \in Frame
  /\ Chan' = [Chan EXCEPT ![c] = Append(@, Last(Chan'[c]))]
  /\ written' = written /\ Up' = Up

GetFrame(c) ==
  /\ Chan[c] # <<>>
  /\ written' = [written EXCEPT ![c] = Append(@, Head(Chan[c]))]
  /\ Chan' = [Chan EXCEPT ![c] = Tail(@)]
  /\ Up' = Up

BreakUp ==
  /\ Up' = FALSE
  /\ \A c \in CallID : IsPrefix(Chan'[c], Chan[c])
  /\ DOMAIN Chan' = CallID
  /\ written' = written

Still == Chan' = Chan /\ written' = written /\ Up' = Up

\* What the writer holds is a channel's first frame.
LEMMA ChanShape ==
  ASSUME QueueInv, NEW c \in CallID
  PROVE  /\ queue[c] \in Seq(Frame) /\ InWriter(c) \in Seq(Frame)
         /\ ChanOf(c) \in Seq(Frame) /\ Chan[c] = ChanOf(c)
         /\ IsPrefix(<<>>, ChanOf(c)) /\ IsPrefix(InWriter(c), ChanOf(c))
         /\ writer # "write" => ChanOf(c) = IF Up THEN queue[c] ELSE <<>>
  <1>1. queue[c] \in Seq(Frame)
    BY DEF QueueInv, TypeOK
  <1>2. InWriter(c) \in Seq(Frame)
    BY EmptySeq DEF InWriter, QueueInv
  <1>3. InWriter(c) \o queue[c] \in Seq(Frame)
    BY <1>1, <1>2, ConcatProperties
  <1>4. ChanOf(c) \in Seq(Frame) /\ Chan[c] = ChanOf(c)
    BY <1>2, <1>3 DEF ChanOf, Chan
  <1>5. IsPrefix(<<>>, ChanOf(c))
    BY <1>4, PrefixFacts
  <1>6. IsPrefix(InWriter(c), ChanOf(c))
    BY <1>1, <1>2, PrefixFacts DEF ChanOf
  <1>7. writer # "write" => ChanOf(c) = IF Up THEN queue[c] ELSE <<>>
    BY <1>1, ConcatEmptySeq DEF ChanOf, InWriter
  <1> QED BY <1>1, <1>2, <1>4, <1>5, <1>6, <1>7

\* When nothing that the channels are made of changes.
LEMMA ChannelsStill ==
  ASSUME UNCHANGED <<queue, closed, written>>,
         UNCHANGED <<writer, current>> \/ /\ writer # "write" /\ writer' # "write"
                                          /\ (writer = "stopped") = (writer' = "stopped")
  PROVE  Still
  <1>1. Up' = Up /\ \A c \in CallID : InWriter(c)' = InWriter(c)
    BY DEF Up, InWriter
  <1>2. \A c \in CallID : ChanOf(c)' = ChanOf(c)
    BY <1>1 DEF ChanOf
  <1> QED BY <1>1, <1>2 DEF Still, Chan

\* A writer that stops loses what is queued.
LEMMA WriterStops ==
  ASSUME QueueInv, writer' = "stopped", UNCHANGED written
  PROVE  BreakUp
  <1>1. Up' = FALSE /\ \A c \in CallID : InWriter(c)' = <<>>
    BY DEF Up, InWriter
  <1>2. \A c \in CallID : ChanOf(c)' = <<>>
    BY <1>1 DEF ChanOf
  <1>3. \A c \in CallID : Chan'[c] = <<>>
    BY <1>2 DEF Chan
  <1>4. DOMAIN Chan' = CallID
    BY DEF Chan
  <1>5. \A c \in CallID : IsPrefix(<<>>, Chan[c])
    BY ChanShape
  <1> QED BY <1>1, <1>3, <1>4, <1>5 DEF BreakUp

LEMMA PushPuts ==
  ASSUME QueueInv, NEW c \in CallID, NEW f \in Frame, Queues(c, f),
         UNCHANGED <<writer, current, written>>
  PROVE  PutFrame(c) \/ Still
  <1>0. /\ queue' = [queue EXCEPT ![c] = Append(@, f)] /\ ~closed /\ ~closed'
        /\ queue \in [CallID -> Seq(Frame)]
    BY DEF Queues, Accepts, QueueInv, TypeOK
  <1>1. Up' = Up /\ \A d \in CallID : InWriter(d)' = InWriter(d)
    BY <1>0 DEF Up, InWriter
  <1>2. CASE ~Up
    BY <1>1, <1>2 DEF Still, Chan, ChanOf
  <1>3. CASE Up
    <2>1. \A d \in CallID : d # c => ChanOf(d)' = ChanOf(d)
      BY <1>0, <1>1, <1>3 DEF ChanOf
    <2>2. ChanOf(c)' = Append(ChanOf(c), f)
      <3>1. ChanOf(c)' = InWriter(c) \o Append(queue[c], f) /\ ChanOf(c) = InWriter(c) \o queue[c]
        BY <1>0, <1>1, <1>3 DEF ChanOf
      <3>2. queue[c] \in Seq(Frame) /\ Append(queue[c], f) \in Seq(Frame)
        BY <1>0, AppendProperties
      <3>3. CASE writer = "write" /\ current.call = c
        <4>1. current \in Frame /\ InWriter(c) = <<current>>
          BY <3>3 DEF QueueInv, InWriter
        <4> QED BY <3>1, <3>2, <4>1, ConcatFacts
      <3>4. CASE ~(writer = "write" /\ current.call = c)
        <4>1. InWriter(c) = <<>>
          BY <3>4 DEF InWriter
        <4> QED BY <3>1, <3>2, <4>1, ConcatEmptySeq
      <3> QED BY <3>3, <3>4
    <2>3. ChanOf(c) \in Seq(Frame)
      BY ChanShape
    <2>4. Append(ChanOf(c), f) # <<>> /\ Last(Append(ChanOf(c), f)) = f
      BY <2>3, ConcatFacts
    <2>5. Chan'[c] = Append(ChanOf(c), f) /\ Chan[c] = ChanOf(c)
      BY <2>2 DEF Chan
    <2>6. Chan' = [Chan EXCEPT ![c] = Append(@, f)]
      BY <2>1, <2>2 DEF Chan
    <2> QED BY <1>1, <1>3, <2>4, <2>5, <2>6 DEF PutFrame
  <1> QED BY <1>2, <1>3

LEMMA PopKeepsChannels ==
  ASSUME QueueInv, ClosedInv, Pop, order # <<>>
  PROVE  Still
  <1> DEFINE c == order[Turn]
  <1>1. /\ Turn \in 1..Len(order) /\ Takes(Turn) /\ c \in CallID
        /\ current' = Head(queue[c]) /\ current'.call = c
        /\ writer' = "write" /\ writer = "pop" /\ UNCHANGED <<closed, written>> /\ ~closed
    BY PopTakes DEF Pop, ClosedInv
  <1>2. queue[c] \in Seq(Frame) /\ queue[c] # <<>> /\ current' \in Frame
    BY <1>1, TypesSplit, TakeKeepsQueue DEF QueueInv, QueueTypes
  <1>3. Up /\ Up'
    BY <1>1 DEF Up
  <1>4. queue' = [queue EXCEPT ![c] = Tail(@)] /\ queue \in [CallID -> Seq(Frame)]
    BY <1>1 DEF Takes, QueueInv, TypeOK
  <1> HIDE DEF c
  <1>5. ASSUME NEW d \in CallID PROVE ChanOf(d)' = ChanOf(d)
    <2>1. InWriter(d) = <<>> /\ InWriter(d)' = IF d = c THEN <<current'>> ELSE <<>>
      BY <1>1 DEF InWriter
    <2>2. ChanOf(d) = <<>> \o queue[d] /\ ChanOf(d)' = InWriter(d)' \o queue'[d]
      BY <1>3, <2>1 DEF ChanOf
    <2>3. CASE d # c
      BY <1>4, <2>1, <2>2, <2>3
    <2>4. CASE d = c
      <3>1. ChanOf(d)' = <<Head(queue[c])>> \o Tail(queue[c])
        BY <1>1, <1>4, <2>1, <2>2, <2>4
      <3>2. <<Head(queue[c])>> \o Tail(queue[c]) = queue[c]
        BY <1>2
      <3>3. <<>> \o queue[c] = queue[c]
        BY <1>2, ConcatEmptySeq
      <3> QED BY <2>2, <2>4, <3>1, <3>2, <3>3
    <2> QED BY <2>3, <2>4
  <1> QED BY <1>1, <1>3, <1>5 DEF Still, Chan

LEMMA WriteGets ==
  ASSUME QueueInv, Write
  PROVE  BreakUp \/ GetFrame(current.call)
  <1>1. /\ current \in Frame /\ writer = "write" /\ UNCHANGED <<queue, closed>>
        /\ queue \in [CallID -> Seq(Frame)]
    BY DEF Write, QueueInv, outbox, TypeOK
  <1>2. PICK c \in CallID : c = current.call
    BY <1>1 DEF Frame
  <1>3. CASE writer' = "stopped" /\ UNCHANGED written
    BY <1>3, WriterStops
  <1>4. CASE writer' = "pop" /\ written' = [written EXCEPT ![c] = Append(@, current)]
    <2>1. Up' = Up /\ \A d \in CallID : InWriter(d)' = <<>>
      BY <1>1, <1>4 DEF Up, InWriter
    <2>2. InWriter(c) = <<current>> /\ \A d \in CallID : d # c => InWriter(d) = <<>>
      BY <1>1, <1>2 DEF InWriter
    <2>3. \A d \in CallID : d # c => ChanOf(d)' = ChanOf(d)
      BY <1>1, <2>1, <2>2 DEF ChanOf
    <2>4. ChanOf(c) # <<>> /\ Head(ChanOf(c)) = current /\ ChanOf(c)' = Tail(ChanOf(c))
      <3>0. queue[c] \in Seq(Frame)
        BY <1>1, <1>2
      <3>1. CASE Up
        <4>1. ChanOf(c) = <<current>> \o queue[c] /\ ChanOf(c)' = <<>> \o queue[c]
          BY <1>1, <1>2, <2>1, <2>2, <3>1 DEF ChanOf
        <4> QED BY <1>1, <3>0, <4>1, ConcatFacts, ConcatEmptySeq
      <3>2. CASE ~Up
        <4>1. ChanOf(c) = <<current>> /\ ChanOf(c)' = <<>>
          BY <1>2, <2>1, <2>2, <3>2 DEF ChanOf
        <4> QED BY <1>1, <4>1
      <3> QED BY <3>1, <3>2
    <2>5. Chan[c] = ChanOf(c)
      BY <1>2 DEF Chan
    <2>6. Chan' = [Chan EXCEPT ![c] = Tail(@)]
      BY <1>2, <2>3, <2>4 DEF Chan
    <2> QED BY <1>2, <1>4, <2>1, <2>4, <2>5, <2>6 DEF GetFrame
  <1> QED BY <1>2, <1>3, <1>4 DEF Write

LEMMA CloseBreaks ==
  ASSUME QueueInv, CloseOutbox
  PROVE  BreakUp
  <1>1. Up' = FALSE /\ UNCHANGED written
    BY DEF Up, CloseOutbox
  <1>2. \A c \in CallID : Chan'[c] = InWriter(c)
    BY <1>1 DEF Chan, ChanOf, InWriter, CloseOutbox
  <1>3. DOMAIN Chan' = CallID
    BY DEF Chan
  <1>4. \A c \in CallID : IsPrefix(InWriter(c), Chan[c])
    BY ChanShape
  <1> QED BY <1>1, <1>2, <1>3, <1>4 DEF BreakUp

\* Every step of the outbox is a step of the channels, or leaves them alone.
LEMMA ChannelStep ==
  ASSUME QueueInv, ClosedInv, [Next]_vars
  PROVE  (\E c \in CallID : PutFrame(c) \/ GetFrame(c)) \/ BreakUp \/ Still
  <1> DEFINE Goal == (\E c \in CallID : PutFrame(c) \/ GetFrame(c)) \/ BreakUp \/ Still
  <1>0. TypeOK
    BY DEF QueueInv
  <1>1. ASSUME NEW c \in CallID, NEW f \in Frame, Queues(c, f),
               UNCHANGED <<writer, current, written>>
        PROVE  Goal
    BY <1>1, PushPuts
  <1>2. ASSUME Pop PROVE Goal
    <2>1. CASE order # <<>>
      BY <1>2, <2>1, PopKeepsChannels
    <2>2. CASE order = <<>>
      <3>1. /\ UNCHANGED <<queue, closed, written>>
            /\ writer # "write" /\ writer' # "write" /\ writer # "stopped" /\ writer' # "stopped"
        BY <1>2, <2>2 DEF Pop, outbox
      <3> QED BY <3>1, ChannelsStill
    <2> QED BY <2>1, <2>2
  <1>3. ASSUME CloseOutbox PROVE Goal
    BY <1>3, CloseBreaks
  <1>4. ASSUME Write PROVE Goal
    <2>1. current.call \in CallID
      BY <1>4 DEF Write, QueueInv, Frame
    <2> QED BY <1>4, <2>1, WriteGets
  <1>5. ASSUME Check \/ Wait PROVE Goal
    <2>1. UNCHANGED <<queue, closed, written>> /\ writer \in {"check", "wait"} /\ writer' # "write"
      BY <1>5 DEF Check, Wait, outbox
    <2>2. CASE writer' = "stopped"
      BY <2>1, <2>2, WriterStops
    <2>3. CASE writer' # "stopped"
      <3>1. writer # "write" /\ writer # "stopped"
        BY <2>1
      <3> QED BY <2>1, <2>3, <3>1, ChannelsStill
    <2> QED BY <2>2, <2>3
  <1>6. ASSUME UNCHANGED outbox, UNCHANGED <<writer, current, written>> PROVE Goal
    <2>1. UNCHANGED <<queue, closed, written>>
      BY <1>6 DEF outbox
    <2> QED BY <1>6, <2>1, ChannelsStill
  <1>7. UNCHANGED <<writer, current, written>> \/ Pop \/ Write \/ Check \/ Wait
    BY DEF Next, vars, ReaderSend, ReadFails, CloseOutbox, OpenCall, RefuseCall, Forward,
           BeginEnd, QueueLast, EndCall, Abandon, Shutdown, Close
  <1> HIDE DEF Goal
  <1>8. Goal
    BY <1>0, <1>1, <1>2, <1>3, <1>4, <1>5, <1>6, <1>7, QueueKinds
  <1> QED BY <1>8 DEF Goal

\* Frames of one call reach the peer in the order in which they were pushed,
\* none twice and none left out before a later one, although pop serves the
\* calls in turn and lets control frames pass; what a break loses is the end.
THEOREM ChannelsImplemented == Spec => FIFOPerCall
  <1>1. Init => Channels!CInit
    <2> SUFFICES ASSUME Init PROVE Channels!CInit
      OBVIOUS
    <2>1. Up /\ \A c \in CallID : InWriter(c) = <<>> /\ queue[c] = <<>>
      BY DEF Init, Up, InWriter, Empty
    <2>2. \A c \in CallID : ChanOf(c) = <<>>
      BY <2>1 DEF ChanOf
    <2>3. Chan = [c \in CallID |-> <<>>] /\ written = [c \in CallID |-> <<>>] /\ Up = TRUE
      BY <2>1, <2>2 DEF Chan, Init, Empty, Up
    <2> QED BY <2>3 DEF Channels!CInit, Chan, ChanOf
  <1>2. ASSUME QueueInv, ClosedInv, [Next]_vars PROVE [Channels!CNext]_(Channels!cvars)
    <2>1. ASSUME NEW c \in CallID, PutFrame(c) PROVE Channels!Put(c)
      BY <2>1 DEF PutFrame, Channels!Put, Chan, ChanOf, Last, Channels!Last
    <2>2. ASSUME NEW c \in CallID, GetFrame(c) PROVE Channels!Get(c)
      BY <2>2 DEF GetFrame, Channels!Get, Chan, ChanOf
    <2>3. ASSUME BreakUp PROVE Channels!Break
      BY <2>3 DEF BreakUp, Channels!Break, Chan, ChanOf, IsPrefix, Channels!IsPrefix
    <2>4. ASSUME Still PROVE UNCHANGED Channels!cvars
      BY <2>4 DEF Still, Channels!cvars, Chan, ChanOf
    <2> QED BY <1>2, <2>1, <2>2, <2>3, <2>4, ChannelStep DEF Channels!CNext
  <1>3. Init => ClosedInv
    BY DEF Init, ClosedInv
  <1>4. TypeOK /\ ClosedInv /\ [Next]_vars => ClosedInv'
    BY ClosedStep
  <1>5. QueueInv => TypeOK
    BY DEF QueueInv
  <1> QED BY <1>1, <1>2, <1>3, <1>4, <1>5, QueueInitially, QueueStep, PTL
          DEF Spec, FIFOPerCall, Channels!CSpec

===============================================================================

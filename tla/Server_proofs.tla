----------------------------- MODULE Server_proofs -----------------------------
(***************************************************************************)
(* Proofs about the serving side of the Go SDK.  For any number of Router  *)
(* links and direct clients and any limits: the counter of calls is real,  *)
(* a Drain that returns nil has left no Router that acknowledged it with a *)
(* call of its own, and Close leaves no Router connection behind.  For any *)
(* number of threads, meshes, subprocesses and servers: no Router          *)
(* subprocess is lost, and no server of a Mesh whose StartServing never    *)
(* overlap.  For any window, number of sending goroutines and number of    *)
(* items: what ServerCall_proofs has of one call.                          *)
(***************************************************************************)
EXTENDS MCServer, SequenceLemmas

-------------------------------------------------------------------------------
(* server.go: the sessions.  The inductive invariant.                      *)

\* On a connection's frames w: whether the drain acknowledgement is the last of
\* them, that it can be no other, and how many of them are calls.
EndsInAck(w) == w # <<>> /\ w[Len(w)] = "ack"
AckLast(w) == \A i \in 1..Len(w) : w[i] = "ack" => i = Len(w)
CallsOf(w) == IF EndsInAck(w) THEN Len(w) - 1 ELSE Len(w)

AckIn(p) == EndsInAck(wire[p])

Types ==
    /\ draining \in BOOLEAN /\ closed \in BOOLEAN
    /\ pc \in [Peers -> {"down", "connecting", "accepted", "made", "serving", "ended"}]
    /\ open \subseteq Peers /\ tracked \subseteq Peers /\ session \subseteq Links
    /\ routable \subseteq Peers /\ awaited \subseteq Links /\ told \subseteq Links
    /\ opening \subseteq Peers
    /\ wire \in [Peers -> Seq({"call", "ack"})] /\ calls \in [Peers -> Nat]
    /\ refused \in [Links -> 0..Refusals] /\ retrying \subseteq Links
    /\ policy \in Policies /\ expired \in BOOLEAN /\ unacked \subseteq Links
    /\ drain \in {"idle", "telling", "acks", "polling", "done", "gaveUp"} /\ toDrain \subseteq Links
    /\ close \in {"idle", "closing", "done"}

\* Where a peer's goroutine is tells which of the server's sets it is in.
PeerOK(p) ==
    /\ p \in open => pc[p] \notin {"down", "ended"}
    /\ pc[p] \in {"made", "serving"} => p \in tracked
    /\ p \in session <=> p \in Links /\ pc[p] = "serving"
    /\ p \in opening => pc[p] = "serving"
    /\ p \in awaited => p \in session
    /\ p \in told => p \in session /\ p \in open
    /\ p \in routable \/ wire[p] # <<>> => p \in open /\ pc[p] # "connecting"

\* The acknowledgement is the last frame of a connection.
WireOK(p) ==
    /\ AckLast(wire[p])
    /\ AckIn(p) => p \in session /\ p \notin routable /\ p \notin told
    /\ calls[p] + CallsOf(wire[p]) + (IF p \in opening THEN 1 ELSE 0) <= MaxCalls

Untold(l) == l \notin awaited /\ l \notin told /\ ~AckIn(l)

\* A link that Drain has looked at: its acknowledgement is to come, or came
\* after everything else.
Settled(l) ==
    \/ l \in awaited /\ (l \in told \/ AckIn(l))
    \/ l \notin awaited /\ l \notin told /\ l \notin routable /\ wire[l] = <<>> /\ l \notin opening

Serving(l) == l \in open /\ pc[l] = "serving"

DrainOK(l) ==
    /\ drain = "idle" \/ l \in toDrain => Untold(l)
    /\ Serving(l) /\ drain # "idle" /\ l \notin toDrain => Settled(l)
    /\ drain \in {"polling", "done"} /\ ~expired /\ l \in awaited => l \notin open
    /\ drain = "done" /\ Serving(l) /\ l \notin unacked => l \notin awaited /\ calls[l] = 0

FlagsInv ==
    /\ drain # "idle" => draining
    /\ drain \notin {"idle", "telling"} => toDrain = {}
    /\ close # "idle" => closed
    /\ unacked # {} => expired

-------------------------------------------------------------------------------
(* The types.                                                              *)

LEMMA LimitsAreNat ==
  ASSUME ServerLinkAssumption
  PROVE  MaxInflight \in Nat /\ MaxWire \in Nat /\ MaxCalls \in Nat /\ Refusals \in Nat
  BY DEF ServerLinkAssumption

LEMMA WireTypes ==
  ASSUME Types, NEW p \in Peers
  PROVE  /\ wire[p] \in Seq({"call", "ack"})
         /\ wire[p] # <<>> => Tail(wire[p]) \in Seq({"call", "ack"})
         /\ \A f \in {"call", "ack"} : Append(wire[p], f) \in Seq({"call", "ack"})
         /\ <<>> \in Seq({"call", "ack"})
  BY DEF Types

LEMMA TypesInit == ASSUME ServerLinkAssumption, Init PROVE Types
  <1>1. <<>> \in Seq({"call", "ack"})
    OBVIOUS
  <1>2. 0 \in 0..Refusals
    BY LimitsAreNat
  <1> QED BY <1>1, <1>2 DEF Init, Types

LEMMA TypesStep ==
  ASSUME ServerLinkAssumption, Types, [Next]_vars
  PROVE  Types'
  <1>p. Links \subseteq Peers /\ Clients \subseteq Peers
    BY DEF Peers
  <1>r. Refusals \in Nat
    BY LimitsAreNat
  <1> USE DEF server, peer, admit, ending, ctx, links
  <1>1. ASSUME NEW l \in Links, Connect(l) PROVE Types'
    BY <1>1, <1>p, WireTypes DEF Connect, Types
  <1>2. ASSUME NEW l \in Links, RouterAccepts(l) PROVE Types'
    <2>1. 0 \in 0..Refusals
      BY <1>r
    <2> QED BY <1>2, <1>p, <2>1 DEF RouterAccepts, Types
  <1>3. ASSUME NEW l \in Links, RegisterFails(l) PROVE Types'
    <2>1. refused[l] \in 0..Refusals
      BY DEF Types
    <2>2. (IF l \in retrying /\ refused[l] < Refusals THEN refused[l] + 1 ELSE refused[l]) \in 0..Refusals
      BY <1>r, <2>1
    <2> QED BY <1>3, <1>p, <2>2 DEF RegisterFails, GiveUpOrRetry, Types
  <1>4. ASSUME NEW p \in Peers, NewSession(p) PROVE Types'
    BY <1>4 DEF NewSession, Types
  <1>5. ASSUME NEW l \in Links, Registered(l) \/ SuperviseEnds(l) \/ GivesUp(l) PROVE Types'
    BY <1>5, <1>p DEF Registered, SuperviseEnds, GivesUp, Types
  <1>6. ASSUME NEW l \in Links, RegisteredTooLate(l) PROVE Types'
    BY <1>6, <1>p, WireTypes DEF RegisteredTooLate, GiveUpOrRetry, Types
  <1>7. ASSUME NEW c \in Clients, Accept(c) PROVE Types'
    BY <1>7, <1>p DEF Accept, Types
  <1>8. ASSUME NEW p \in Peers, SendCall(p) PROVE Types'
    BY <1>8, WireTypes DEF SendCall, Types
  <1>9. ASSUME NEW l \in Links, AckDrain(l) PROVE Types'
    BY <1>9, <1>p, WireTypes DEF AckDrain, Types
  <1>10. ASSUME NEW p \in Peers, Break(p) PROVE Types'
    BY <1>10, WireTypes DEF Break, Types
  <1>11. ASSUME NEW p \in Peers, ReceiveAck(p) \/ RejectCall(p) \/ AdmitCall(p) PROVE Types'
    BY <1>11, WireTypes, ZenonT(40) DEF ReceiveAck, RejectCall, AdmitCall, Reads, Types
  <1>12. ASSUME NEW p \in Peers, CountCall(p) \/ CallEnds(p) PROVE Types'
    <2>1. calls[p] \in Nat /\ calls[p] + 1 \in Nat /\ (calls[p] > 0 => calls[p] - 1 \in Nat)
      BY DEF Types
    <2> QED BY <1>12, <2>1 DEF CountCall, CallEnds, Types
  <1>13. ASSUME NEW p \in Peers, SessionEnds(p) PROVE Types'
    BY <1>13 DEF SessionEnds, Types
  <1>14. CASE DrainBegins \/ Told \/ Acked \/ Polled \/ DrainGivesUp \/ DrainExpires \/ CloseReturns
    BY <1>14 DEF DrainBegins, Told, Acked, Polled, DrainGivesUp, DrainExpires, CloseReturns, Types
  <1>15. ASSUME NEW l \in Links, Tell(l) PROVE Types'
    BY <1>15 DEF Tell, Types
  <1>16. CASE CloseBegins
    BY <1>16, WireTypes DEF CloseBegins, Types
  <1>17. CASE UNCHANGED vars
    BY <1>17 DEF vars, Types
  <1> QED BY <1>1, <1>2, <1>3, <1>4, <1>5, <1>6, <1>7, <1>8, <1>9, <1>10, <1>11, <1>12, <1>13,
             <1>14, <1>15, <1>16, <1>17, <1>p
          DEF Next, Link, Serve, DrainSteps

-------------------------------------------------------------------------------
(* The peers.                                                              *)

PeersInv == \A p \in Peers : PeerOK(p)

LEMMA PeersStep ==
  ASSUME ServerLinkAssumption, Types, PeersInv, [Next]_vars
  PROVE  PeersInv'
  <1> SUFFICES ASSUME NEW d \in Peers PROVE PeerOK(d)'
    BY DEF PeersInv
  <1>d. PeerOK(d)
    BY DEF PeersInv
  <1>p. Links \subseteq Peers /\ Clients \subseteq Peers /\ Links \cap Clients = {}
    BY DEF Peers, ServerLinkAssumption
  <1> USE <1>d, <1>p DEF server, peer, admit, ending, ctx, links, Types, PeerOK
  <1>1. ASSUME NEW l \in Links, Connect(l) PROVE PeerOK(d)'
    BY <1>1 DEF Connect
  <1>2. ASSUME NEW l \in Links, RouterAccepts(l) PROVE PeerOK(d)'
    BY <1>2 DEF RouterAccepts
  <1>3. ASSUME NEW l \in Links, RegisterFails(l) PROVE PeerOK(d)'
    BY <1>3 DEF RegisterFails, GiveUpOrRetry
  <1>4. ASSUME NEW p \in Peers, NewSession(p) PROVE PeerOK(d)'
    BY <1>4 DEF NewSession, Peers
  <1>5. ASSUME NEW l \in Links, Registered(l) PROVE PeerOK(d)'
    BY <1>5 DEF Registered
  <1>6. ASSUME NEW l \in Links, SuperviseEnds(l) \/ GivesUp(l) PROVE PeerOK(d)'
    BY <1>6 DEF SuperviseEnds, GivesUp
  <1>7. ASSUME NEW l \in Links, RegisteredTooLate(l) PROVE PeerOK(d)'
    BY <1>7 DEF RegisteredTooLate, GiveUpOrRetry
  <1>8. ASSUME NEW c \in Clients, Accept(c) PROVE PeerOK(d)'
    BY <1>8 DEF Accept
  <1>9. ASSUME NEW p \in Peers, SendCall(p) PROVE PeerOK(d)'
    BY <1>9 DEF SendCall
  <1>10. ASSUME NEW l \in Links, AckDrain(l) PROVE PeerOK(d)'
    BY <1>10 DEF AckDrain
  <1>11. ASSUME NEW p \in Peers, Break(p) PROVE PeerOK(d)'
    BY <1>11 DEF Break
  <1>12. ASSUME NEW p \in Peers, ReceiveAck(p) \/ RejectCall(p) \/ AdmitCall(p) PROVE PeerOK(d)'
    BY <1>12 DEF ReceiveAck, RejectCall, AdmitCall, Reads
  <1>13. ASSUME NEW p \in Peers, CountCall(p) \/ CallEnds(p) PROVE PeerOK(d)'
    BY <1>13 DEF CountCall, CallEnds
  <1>14. ASSUME NEW p \in Peers, SessionEnds(p) PROVE PeerOK(d)'
    BY <1>14 DEF SessionEnds
  <1>15. CASE DrainBegins \/ Told \/ Acked \/ Polled \/ DrainGivesUp \/ DrainExpires \/ CloseReturns
    BY <1>15 DEF DrainBegins, Told, Acked, Polled, DrainGivesUp, DrainExpires, CloseReturns
  <1>16. ASSUME NEW l \in Links, Tell(l) PROVE PeerOK(d)'
    BY <1>16 DEF Tell
  <1>17. CASE CloseBegins
    BY <1>17 DEF CloseBegins
  <1>18. CASE UNCHANGED vars
    BY <1>18 DEF vars
  <1> HIDE DEF Types, PeerOK
  <1> QED BY <1>1, <1>2, <1>3, <1>4, <1>5, <1>6, <1>7, <1>8, <1>9, <1>10, <1>11, <1>12, <1>13,
             <1>14, <1>15, <1>16, <1>17, <1>18
          DEF Next, Link, Serve, DrainSteps

-------------------------------------------------------------------------------
(* The frames on a connection.                                             *)

Frames == Seq({"call", "ack"})

LEMMA NoFrames == AckLast(<<>>) /\ ~EndsInAck(<<>>) /\ CallsOf(<<>>) = 0
  BY DEF AckLast, EndsInAck, CallsOf

LEMMA CallsOfType == ASSUME NEW w \in Frames PROVE CallsOf(w) \in Nat /\ Len(w) \in Nat
  <1>1. Len(w) \in Nat /\ (w # <<>> => Len(w) > 0)
    BY DEF Frames
  <1> QED BY <1>1 DEF CallsOf, EndsInAck

LEMMA AppendFrame ==
  ASSUME NEW w \in Frames, AckLast(w), ~EndsInAck(w), NEW f \in {"call", "ack"}
  PROVE  /\ AckLast(Append(w, f))
         /\ EndsInAck(Append(w, f)) <=> f = "ack"
         /\ CallsOf(Append(w, f)) = IF f = "call" THEN CallsOf(w) + 1 ELSE CallsOf(w)
  <1> DEFINE v == Append(w, f)
  <1>1. /\ Len(v) = Len(w) + 1 /\ v[Len(v)] = f /\ v # <<>>
        /\ \A i \in 1..Len(w) : v[i] = w[i]
        /\ Len(w) \in Nat /\ (w # <<>> => Len(w) \in Nat \ {0})
    BY AppendProperties, LenProperties, EmptySeq DEF Frames
  <1> HIDE DEF v
  <1>2. \A i \in 1..Len(w) : w[i] # "ack"
    BY <1>1 DEF AckLast, EndsInAck
  <1>3. AckLast(v)
    BY <1>1, <1>2 DEF AckLast
  <1>4. EndsInAck(v) <=> f = "ack"
    BY <1>1 DEF EndsInAck
  <1>5. CallsOf(v) = IF f = "call" THEN CallsOf(w) + 1 ELSE CallsOf(w)
    BY <1>1, <1>4 DEF CallsOf
  <1> QED BY <1>3, <1>4, <1>5 DEF v

LEMMA TailFrame ==
  ASSUME NEW w \in Frames, AckLast(w), w # <<>>
  PROVE  /\ AckLast(Tail(w))
         /\ Head(w) = "call" => /\ EndsInAck(Tail(w)) <=> EndsInAck(w)
                                /\ CallsOf(Tail(w)) = CallsOf(w) - 1
         /\ Head(w) = "ack" => EndsInAck(w) /\ Tail(w) = <<>> /\ CallsOf(w) = 0
  <1> DEFINE v == Tail(w)
  <1>1. /\ Len(v) = Len(w) - 1 /\ Len(w) \in Nat /\ Len(w) > 0 /\ Head(w) = w[1]
        /\ \A i \in 1..Len(v) : v[i] = w[i + 1]
        /\ v = <<>> => Len(v) = 0
        /\ v # <<>> => Len(v) \in Nat \ {0}
    <2>1. w \in Seq({"call", "ack"}) /\ Len(w) \in Nat \ {0} /\ Head(w) = w[1]
      BY EmptySeq DEF Frames
    <2>2. /\ v \in Seq({"call", "ack"}) /\ Len(v) = Len(w) - 1
          /\ \A i \in 1..Len(v) : v[i] = w[i + 1]
      BY <2>1, HeadTailProperties
    <2>3. (v = <<>> => Len(v) = 0) /\ (v # <<>> => Len(v) \in Nat \ {0})
      BY <2>2, EmptySeq
    <2> QED BY <2>1, <2>2, <2>3
  <1> HIDE DEF v
  <1>2. \A i \in 1..Len(v) : i + 1 \in 1..Len(w)
    BY <1>1
  <1>3. AckLast(v)
    BY <1>1, <1>2 DEF AckLast
  <1>4. ASSUME Head(w) = "call"
        PROVE  (EndsInAck(v) <=> EndsInAck(w)) /\ CallsOf(v) = CallsOf(w) - 1
    <2>1. EndsInAck(v) <=> EndsInAck(w)
      BY <1>1, <1>4 DEF EndsInAck
    <2> QED BY <1>1, <2>1 DEF CallsOf
  <1>5. ASSUME Head(w) = "ack" PROVE EndsInAck(w) /\ v = <<>> /\ CallsOf(w) = 0
    <2>1. Len(w) = 1
      BY <1>1, <1>5 DEF AckLast
    <2> QED BY <1>1, <1>5, <2>1 DEF EndsInAck, CallsOf
  <1> QED BY <1>3, <1>4, <1>5 DEF v

WiresInv == \A p \in Peers : WireOK(p)
DrainsInv == \A l \in Links : DrainOK(l)

\* A peer whose frames, calls and place among the told are as they were.
LEMMA SameWire ==
  ASSUME NEW d \in Peers, WireOK(d), wire'[d] = wire[d], calls'[d] = calls[d],
         d \in opening' <=> d \in opening, AckIn(d) => d \in session',
         d \in routable' => d \in routable, d \in told' => d \in told
  PROVE  WireOK(d)'
  <1>1. AckIn(d)' <=> AckIn(d)
    BY DEF AckIn
  <1>2. AckLast(wire[d])' /\ CallsOf(wire[d])' = CallsOf(wire[d])
    BY DEF WireOK
  <1>3. (IF d \in opening THEN 1 ELSE 0)' = IF d \in opening THEN 1 ELSE 0
    OBVIOUS
  <1> QED BY <1>1, <1>2, <1>3 DEF WireOK

\* A connection without frames.
LEMMA EmptyWire ==
  ASSUME ServerLinkAssumption, Types, NEW d \in Peers, WireOK(d), wire'[d] = <<>>,
         calls'[d] = calls[d], d \in opening' <=> d \in opening
  PROVE  WireOK(d)'
  <1>1. CallsOf(wire[d]) \in Nat /\ calls[d] \in Nat /\ MaxCalls \in Nat
    BY CallsOfType, LimitsAreNat DEF Types, Frames
  <1>2. calls[d] + CallsOf(wire[d]) + (IF d \in opening THEN 1 ELSE 0) <= MaxCalls
    BY DEF WireOK
  <1>3. calls[d] + 0 + (IF d \in opening THEN 1 ELSE 0) <= MaxCalls
    BY <1>1, <1>2
  <1>4. AckLast(wire[d])' /\ ~AckIn(d)' /\ CallsOf(wire[d])' = 0
    BY NoFrames DEF AckIn
  <1>5. calls'[d] + CallsOf(wire'[d]) + (IF d \in opening' THEN 1 ELSE 0) <= MaxCalls
    BY <1>3, <1>4
  <1> QED BY <1>4, <1>5 DEF WireOK

LEMMA WiresStep ==
  ASSUME ServerLinkAssumption, Types, PeersInv, WiresInv, DrainsInv, [Next]_vars
  PROVE  WiresInv'
  <1> SUFFICES ASSUME NEW d \in Peers PROVE WireOK(d)'
    BY DEF WiresInv
  <1>d. WireOK(d) /\ PeerOK(d) /\ wire[d] \in Frames
    BY DEF WiresInv, PeersInv, Types, Frames
  <1>p. Links \subseteq Peers /\ Clients \subseteq Peers
    BY DEF Peers
  <1>n. calls[d] \in Nat /\ MaxCalls \in Nat /\ CallsOf(wire[d]) \in Nat
    BY <1>d, CallsOfType, LimitsAreNat DEF Types
  <1>a. AckIn(d) => pc[d] = "serving" /\ d \in open /\ d \in Links
    <2>1. wire[d] # <<>> => d \in open
      BY <1>d DEF PeerOK
    <2> QED BY <1>d, <2>1 DEF WireOK, PeerOK, AckIn, EndsInAck
  <1>l. ASSUME NEW w, wire'[d] = w, AckLast(w), EndsInAck(w) => d \in session' /\ d \notin routable' /\ d \notin told',
               calls'[d] + CallsOf(w) + (IF d \in opening' THEN 1 ELSE 0) <= MaxCalls
        PROVE  WireOK(d)'
    BY <1>l DEF WireOK, AckIn
  <1> USE <1>d, <1>p DEF server, peer, admit, ending, ctx, links
  <1>1. ASSUME NEW l \in Links, Connect(l) PROVE WireOK(d)'
    <2>1. CASE d = l
      BY <1>1, <2>1, EmptyWire DEF Connect, Types
    <2>2. CASE d # l
      BY <1>1, <2>2, <1>a, SameWire DEF Connect, Types, WireOK
    <2> QED BY <2>1, <2>2
  <1>2. ASSUME NEW l \in Links, RouterAccepts(l) PROVE WireOK(d)'
    <2>1. CASE AckIn(d)
      <3>1. d # l
        BY <1>2, <1>a, <2>1 DEF RouterAccepts
      <3> QED BY <1>2, <3>1, SameWire DEF RouterAccepts, WireOK
    <2>2. CASE ~AckIn(d)
      BY <1>2, <2>2 DEF RouterAccepts, WireOK, AckIn
    <2> QED BY <2>1, <2>2
  <1>3. ASSUME NEW l \in Links, RegisterFails(l) \/ SuperviseEnds(l) \/ GivesUp(l) PROVE WireOK(d)'
    BY <1>3, SameWire DEF RegisterFails, SuperviseEnds, GivesUp, WireOK
  <1>4. ASSUME NEW p \in Peers, NewSession(p) PROVE WireOK(d)'
    BY <1>4, SameWire DEF NewSession, WireOK
  <1>5. ASSUME NEW l \in Links, Registered(l) PROVE WireOK(d)'
    BY <1>5, SameWire DEF Registered, WireOK
  <1>6. ASSUME NEW l \in Links, RegisteredTooLate(l) PROVE WireOK(d)'
    <2>1. CASE d = l
      BY <1>6, <2>1, EmptyWire DEF RegisteredTooLate, Types
    <2>2. CASE d # l
      BY <1>6, <2>2, SameWire DEF RegisteredTooLate, Types, WireOK
    <2> QED BY <2>1, <2>2
  <1>7. ASSUME NEW c \in Clients, Accept(c) PROVE WireOK(d)'
    <2>1. CASE AckIn(d)
      <3>1. d # c
        BY <1>7, <1>a, <2>1 DEF Accept
      <3> QED BY <1>7, <3>1, SameWire DEF Accept, WireOK
    <2>2. CASE ~AckIn(d)
      BY <1>7, <2>2 DEF Accept, WireOK, AckIn
    <2> QED BY <2>1, <2>2
  <1>8. ASSUME NEW p \in Peers, SendCall(p) PROVE WireOK(d)'
    <2>1. CASE d # p
      BY <1>8, <2>1, SameWire DEF SendCall, Types, WireOK
    <2>2. CASE d = p
      <3>1. /\ wire'[d] = Append(wire[d], "call") /\ calls' = calls /\ opening' = opening
            /\ d \in routable /\ calls[d] + Cardinality(opening \cap {d}) + Len(wire[d]) < MaxCalls
        BY <1>8, <2>2 DEF SendCall, Types
      <3>2. ~EndsInAck(wire[d]) /\ AckLast(wire[d])
        BY <3>1 DEF WireOK, AckIn
      <3>3. /\ AckLast(Append(wire[d], "call")) /\ ~EndsInAck(Append(wire[d], "call"))
            /\ CallsOf(Append(wire[d], "call")) = CallsOf(wire[d]) + 1
            /\ CallsOf(wire[d]) = Len(wire[d])
        BY <3>2, AppendFrame DEF CallsOf
      <3>4. Cardinality(opening \cap {d}) = IF d \in opening THEN 1 ELSE 0
        <4>1. CASE d \in opening
          <5>1. opening \cap {d} = {d}
            BY <4>1
          <5> QED BY <4>1, <5>1, FS_Singleton
        <4>2. CASE d \notin opening
          <5>1. opening \cap {d} = {}
            BY <4>2
          <5> QED BY <4>2, <5>1, FS_EmptySet
        <4> QED BY <4>1, <4>2
      <3>5. calls[d] + (CallsOf(wire[d]) + 1) + (IF d \in opening THEN 1 ELSE 0) <= MaxCalls
        BY <1>n, <3>1, <3>3, <3>4
      <3> QED BY <1>l, <3>1, <3>3, <3>5
    <2> QED BY <2>1, <2>2
  <1>9. ASSUME NEW l \in Links, AckDrain(l) PROVE WireOK(d)'
    <2>1. CASE d # l
      BY <1>9, <2>1, SameWire DEF AckDrain, Types, WireOK
    <2>2. CASE d = l
      <3>1. /\ wire'[d] = Append(wire[d], "ack") /\ calls' = calls /\ opening' = opening
            /\ d \in told /\ session' = session /\ d \notin routable' /\ d \notin told'
        BY <1>9, <2>2 DEF AckDrain, Types
      <3>2. ~EndsInAck(wire[d]) /\ AckLast(wire[d])
        BY <3>1 DEF WireOK, AckIn
      <3>3. AckLast(Append(wire[d], "ack")) /\ CallsOf(Append(wire[d], "ack")) = CallsOf(wire[d])
        BY <3>2, AppendFrame
      <3>4. d \in session
        BY <3>1 DEF PeerOK
      <3>5. calls[d] + CallsOf(wire[d]) + (IF d \in opening THEN 1 ELSE 0) <= MaxCalls
        BY DEF WireOK
      <3> QED BY <1>l, <3>1, <3>3, <3>4, <3>5
    <2> QED BY <2>1, <2>2
  <1>10. ASSUME NEW p \in Peers, Break(p) PROVE WireOK(d)'
    <2>1. CASE d = p
      BY <1>10, <2>1, EmptyWire DEF Break, Types
    <2>2. CASE d # p
      BY <1>10, <2>2, SameWire DEF Break, Types, WireOK
    <2> QED BY <2>1, <2>2
  <1>11. ASSUME NEW p \in Peers, ReceiveAck(p) \/ RejectCall(p) \/ AdmitCall(p) PROVE WireOK(d)'
    <2>1. CASE d # p
      BY <1>11, <2>1, SameWire DEF ReceiveAck, RejectCall, AdmitCall, Types, WireOK
    <2>2. CASE d = p /\ ReceiveAck(p)
      <3>1. /\ wire[d] # <<>> /\ Head(wire[d]) = "ack" /\ wire'[d] = Tail(wire[d])
            /\ calls' = calls /\ opening' = opening
        BY <2>2 DEF ReceiveAck, Reads, Types
      <3>2. Tail(wire[d]) = <<>>
        BY <3>1, TailFrame DEF WireOK
      <3> QED BY <3>1, <3>2, EmptyWire
    <2>3. CASE d = p /\ (RejectCall(p) \/ AdmitCall(p))
      <3>1. /\ wire[d] # <<>> /\ Head(wire[d]) = "call" /\ wire'[d] = Tail(wire[d])
            /\ calls' = calls /\ d \notin opening
            /\ UNCHANGED <<session, routable, told>>
        BY <2>3 DEF RejectCall, AdmitCall, Reads, Types
      <3>2. /\ AckLast(Tail(wire[d])) /\ (EndsInAck(Tail(wire[d])) => AckIn(d))
            /\ CallsOf(Tail(wire[d])) = CallsOf(wire[d]) - 1
        BY <3>1, TailFrame DEF WireOK, AckIn
      <3>3. calls[d] + CallsOf(wire[d]) <= MaxCalls
        BY <1>n, <3>1 DEF WireOK
      <3>4. calls[d] + (CallsOf(wire[d]) - 1) + (IF d \in opening' THEN 1 ELSE 0) <= MaxCalls
        BY <1>n, <3>3
      <3>5. EndsInAck(Tail(wire[d])) => d \in session /\ d \notin routable /\ d \notin told
        BY <3>2 DEF WireOK
      <3> QED BY <1>l, <3>1, <3>2, <3>4, <3>5
    <2> QED BY <1>11, <2>1, <2>2, <2>3
  <1>12. ASSUME NEW p \in Peers, CountCall(p) \/ CallEnds(p) PROVE WireOK(d)'
    <2>1. CASE d # p
      BY <1>12, <2>1, SameWire DEF CountCall, CallEnds, Types, WireOK
    <2>2. CASE d = p
      <3>0. calls[d] + CallsOf(wire[d]) + (IF d \in opening THEN 1 ELSE 0) <= MaxCalls
        BY DEF WireOK
      <3>1. UNCHANGED <<wire, session, routable, told>>
        BY <1>12 DEF CountCall, CallEnds
      <3>2. calls'[d] + CallsOf(wire[d]) + (IF d \in opening' THEN 1 ELSE 0) <= MaxCalls
        <4>1. CASE CountCall(p)
          <5>1. calls'[d] = calls[d] + 1 /\ d \in opening /\ d \notin opening'
            BY <2>2, <4>1 DEF CountCall, Types
          <5> QED BY <1>n, <3>0, <5>1
        <4>2. CASE CallEnds(p)
          <5>1. calls'[d] = calls[d] - 1 /\ opening' = opening
            BY <2>2, <4>2 DEF CallEnds, Types
          <5> QED BY <1>n, <3>0, <5>1
        <4> QED BY <1>12, <4>1, <4>2
      <3>3. AckLast(wire[d]) /\ (EndsInAck(wire[d]) => d \in session /\ d \notin routable /\ d \notin told)
        BY DEF WireOK, AckIn
      <3> QED BY <1>l, <3>1, <3>2, <3>3
    <2> QED BY <2>1, <2>2
  <1>13. ASSUME NEW p \in Peers, SessionEnds(p) PROVE WireOK(d)'
    <2>1. AckIn(d) => d # p
      BY <1>13, <1>a DEF SessionEnds
    <2> QED BY <1>13, <2>1, SameWire DEF SessionEnds, WireOK
  <1>14. CASE DrainBegins \/ Told \/ Acked \/ Polled \/ DrainGivesUp \/ DrainExpires \/ CloseReturns
    BY <1>14, SameWire
    DEF DrainBegins, Told, Acked, Polled, DrainGivesUp, DrainExpires, CloseReturns, WireOK
  <1>15. ASSUME NEW l \in Links, Tell(l) PROVE WireOK(d)'
    <2>1. AckIn(d) => d # l
      BY <1>15 DEF Tell, DrainsInv, DrainOK, Untold
    <2>2. UNCHANGED <<wire, calls, opening, session, routable>> /\ told' \subseteq told \cup {l}
      BY <1>15 DEF Tell
    <2>3. AckLast(wire[d]) /\ (EndsInAck(wire[d]) => d \in session /\ d \notin routable /\ d \notin told')
      BY <2>1, <2>2 DEF WireOK, AckIn
    <2>4. calls[d] + CallsOf(wire[d]) + (IF d \in opening THEN 1 ELSE 0) <= MaxCalls
      BY DEF WireOK
    <2> QED BY <1>l, <2>2, <2>3, <2>4
  <1>16. CASE CloseBegins
    <2>1. CASE d \in tracked
      BY <1>16, <2>1, EmptyWire DEF CloseBegins
    <2>2. CASE d \notin tracked
      BY <1>16, <2>2, SameWire DEF CloseBegins, WireOK
    <2> QED BY <2>1, <2>2
  <1>17. CASE UNCHANGED vars
    BY <1>17, SameWire DEF vars, WireOK
  <1> QED BY <1>1, <1>2, <1>3, <1>4, <1>5, <1>6, <1>7, <1>8, <1>9, <1>10, <1>11, <1>12, <1>13,
             <1>14, <1>15, <1>16, <1>17
          DEF Next, Link, Serve, DrainSteps

-------------------------------------------------------------------------------
(* Drain.                                                                  *)

LEMMA FlagsStep ==
  ASSUME Types, FlagsInv, DrainsInv, [Next]_vars
  PROVE  FlagsInv'
  <1> USE DEF server, peer, admit, ending, ctx, links
  <1>1. ASSUME UNCHANGED <<draining, closed, drain, toDrain, close, ctx>> PROVE FlagsInv'
    BY <1>1 DEF FlagsInv
  <1>2. CASE DrainBegins \/ Told \/ Acked \/ DrainGivesUp \/ DrainExpires
    BY <1>2 DEF DrainBegins, Told, Acked, DrainGivesUp, DrainExpires, FlagsInv
  <1>8. CASE Polled
    <2>1. awaited \cap open # {} => expired
      BY <1>8 DEF Polled, DrainsInv, DrainOK, Types
    <2> QED BY <1>8, <2>1 DEF Polled, FlagsInv
  <1>3. CASE CloseBegins \/ CloseReturns \/ \E l \in Links : Tell(l)
    BY <1>3 DEF CloseBegins, CloseReturns, Tell, FlagsInv
  <1>4. CASE UNCHANGED vars
    BY <1>1, <1>4 DEF vars
  <1>5. ASSUME NEW l \in Links, Link(l) \/ RouterAccepts(l) \/ RegisterFails(l) \/ AckDrain(l)
        PROVE  FlagsInv'
    BY <1>1, <1>5
    DEF Link, Connect, NewSession, Registered, RegisteredTooLate, SuperviseEnds, GivesUp,
        RouterAccepts, RegisterFails, AckDrain
  <1>6. ASSUME NEW c \in Clients, Accept(c) \/ NewSession(c) PROVE FlagsInv'
    BY <1>1, <1>6 DEF Accept, NewSession
  <1>7. ASSUME NEW p \in Peers, \/ Serve(p) \/ CountCall(p) \/ CallEnds(p) \/ SessionEnds(p)
                                \/ SendCall(p) \/ Break(p)
        PROVE  FlagsInv'
    BY <1>1, <1>7
    DEF Serve, ReceiveAck, RejectCall, AdmitCall, CountCall, CallEnds, SessionEnds, SendCall,
    Break
  <1> QED BY <1>2, <1>3, <1>4, <1>5, <1>6, <1>7, <1>8 DEF Next, DrainSteps

\* A link on whose connection nothing happens.
LEMMA SameDrain ==
  ASSUME NEW d \in Links, DrainOK(d), UNCHANGED <<drain, toDrain, expired, unacked>>,
         wire'[d] = wire[d], calls'[d] = calls[d],
         d \in awaited' <=> d \in awaited, d \in told' <=> d \in told,
         d \in opening' <=> d \in opening, d \in routable' => d \in routable,
         Serving(d)' /\ drain # "idle" => Serving(d), d \in awaited /\ d \in open' => d \in open
  PROVE  DrainOK(d)'
  <1>1. AckIn(d)' <=> AckIn(d)
    BY DEF AckIn
  <1>2. Untold(d) => Untold(d)'
    BY <1>1 DEF Untold
  <1>3. Settled(d) => Settled(d)'
    BY <1>1 DEF Settled
  <1> QED BY <1>2, <1>3 DEF DrainOK

\* A connection that is gone owes nothing.
LEMMA GoneDrain ==
  ASSUME NEW d \in Links, DrainOK(d), UNCHANGED <<drain, toDrain, expired, unacked>>, d \notin open',
         wire'[d] = <<>> \/ wire'[d] = wire[d],
         d \in awaited' => d \in awaited, d \in told' => d \in told
  PROVE  DrainOK(d)'
  <1>1. AckIn(d)' => AckIn(d)
    BY NoFrames DEF AckIn
  <1>2. Untold(d) => Untold(d)'
    BY <1>1 DEF Untold
  <1>3. ~Serving(d)'
    BY DEF Serving
  <1> QED BY <1>2, <1>3 DEF DrainOK

-------------------------------------------------------------------------------
(* The counter.                                                            *)

LEMMA RunningFinite ==
  ASSUME ServerLinkAssumption
  PROVE  IsFiniteSet(Running) /\ Cardinality(Running) \in Nat
  <1>1. IsFiniteSet(Peers) /\ MaxCalls \in Nat
    BY LimitsAreNat DEF ServerLinkAssumption
  <1>2. IsFiniteSet(1..MaxCalls)
    BY <1>1, FS_Interval
  <1>3. IsFiniteSet(Peers \X (1..MaxCalls))
    BY <1>1, <1>2, FS_Product
  <1>4. Running \subseteq Peers \X (1..MaxCalls)
    BY DEF Running
  <1> QED BY <1>3, <1>4, FS_Subset, FS_CardinalityType

\* The calls that are running fit under the bound.
LEMMA CallsBounded ==
  ASSUME ServerLinkAssumption, Types, WiresInv, NEW p \in Peers
  PROVE  /\ calls[p] \in 0..MaxCalls
         /\ p \in opening => calls[p] + 1 <= MaxCalls
  <1>1. CallsOf(wire[p]) \in Nat /\ calls[p] \in Nat /\ MaxCalls \in Nat
    BY CallsOfType, LimitsAreNat DEF Types, Frames
  <1>2. calls[p] + CallsOf(wire[p]) + (IF p \in opening THEN 1 ELSE 0) <= MaxCalls
    BY DEF WiresInv, WireOK
  <1> QED BY <1>1, <1>2

LEMMA CountsStep ==
  ASSUME ServerLinkAssumption, Types, WiresInv, InflightIsReal, [Next]_vars
  PROVE  InflightIsReal'
  <1>m. MaxCalls \in Nat /\ IsFiniteSet(Running) /\ Cardinality(Running) \in Nat
    BY LimitsAreNat, RunningFinite
  <1>1. ASSUME UNCHANGED <<calls, inflight>> PROVE InflightIsReal'
    BY <1>1 DEF InflightIsReal, Running
  <1>2. ASSUME NEW p \in Peers, CountCall(p) PROVE InflightIsReal'
    <2>1. /\ p \in opening /\ calls' = [calls EXCEPT ![p] = calls[p] + 1]
          /\ inflight' = inflight + 1
      BY <1>2 DEF CountCall
    <2>2. /\ calls'[p] = calls[p] + 1
          /\ \A q \in Peers : q # p => calls'[q] = calls[q]
          /\ \A q \in Peers : calls[q] \in Nat
      BY <2>1 DEF Types
    <2>3. calls[p] + 1 \in 1..MaxCalls
      BY <1>m, <2>1, <2>2, CallsBounded
    <2>4. Running' = Running \cup {<<p, calls[p] + 1>>}
      <3>1. ASSUME NEW q \in Peers, NEW i \in 1..MaxCalls
            PROVE  i <= calls'[q] <=> i <= calls[q] \/ <<q, i>> = <<p, calls[p] + 1>>
        BY <1>m, <2>2
      <3> QED BY <2>3, <3>1 DEF Running
    <2>5. <<p, calls[p] + 1>> \notin Running
      BY <2>2 DEF Running
    <2>6. Cardinality(Running') = Cardinality(Running) + 1
      BY <1>m, <2>4, <2>5, FS_AddElement
    <2> QED BY <2>1, <2>6 DEF InflightIsReal
  <1>3. ASSUME NEW p \in Peers, CallEnds(p) PROVE InflightIsReal'
    <2>1. /\ calls[p] > 0 /\ calls' = [calls EXCEPT ![p] = calls[p] - 1]
          /\ inflight' = inflight - 1
      BY <1>3 DEF CallEnds, CountDown
    <2>2. /\ calls'[p] = calls[p] - 1
          /\ \A q \in Peers : q # p => calls'[q] = calls[q]
          /\ \A q \in Peers : calls[q] \in Nat
      BY <2>1 DEF Types
    <2>3. calls[p] \in 1..MaxCalls
      BY <1>m, <2>1, <2>2, CallsBounded
    <2>4. Running' = Running \ {<<p, calls[p]>>}
      <3>1. ASSUME NEW q \in Peers, NEW i \in 1..MaxCalls
            PROVE  i <= calls'[q] <=> i <= calls[q] /\ <<q, i>> # <<p, calls[p]>>
        BY <1>m, <2>2
      <3> QED BY <2>3, <3>1 DEF Running
    <2>5. <<p, calls[p]>> \in Running
      BY <2>2, <2>3 DEF Running
    <2>6. Cardinality(Running') = Cardinality(Running) - 1
      BY <1>m, <2>4, <2>5, FS_RemoveElement
    <2> QED BY <2>1, <2>6 DEF InflightIsReal
  <1>4. CASE UNCHANGED vars
    BY <1>1, <1>4 DEF vars, server, admit
  <1>5. ASSUME NEW l \in Links, Link(l) \/ RouterAccepts(l) \/ RegisterFails(l) \/ AckDrain(l)
        PROVE  InflightIsReal'
    BY <1>1, <1>5
    DEF Link, Connect, NewSession, Registered, RegisteredTooLate, SuperviseEnds, GivesUp,
        RouterAccepts, RegisterFails, AckDrain, server, admit
  <1>6. ASSUME NEW c \in Clients, Accept(c) \/ NewSession(c) PROVE InflightIsReal'
    BY <1>1, <1>6 DEF Accept, NewSession, server, admit
  <1>7. ASSUME NEW p \in Peers, Serve(p) \/ SessionEnds(p) \/ SendCall(p) \/ Break(p)
        PROVE  InflightIsReal'
    BY <1>1, <1>7
    DEF Serve, ReceiveAck, RejectCall, AdmitCall, SessionEnds, SendCall, Break, server, admit
  <1>8. CASE DrainBegins \/ DrainSteps \/ DrainExpires \/ CloseBegins \/ CloseReturns
    BY <1>1, <1>8
    DEF DrainBegins, DrainSteps, Told, Acked, Polled, Tell, DrainGivesUp, DrainExpires,
        CloseBegins, CloseReturns, server, admit
  <1> QED BY <1>2, <1>3, <1>4, <1>5, <1>6, <1>7, <1>8 DEF Next

\* The counter at zero: no call is running anywhere.
LEMMA NoneRunning ==
  ASSUME ServerLinkAssumption, Types, WiresInv, InflightIsReal, inflight <= 0, NEW p \in Peers
  PROVE  calls[p] = 0
  <1>1. Cardinality(Running) = 0 /\ IsFiniteSet(Running)
    BY RunningFinite DEF InflightIsReal
  <1>2. Running = {}
    BY <1>1, FS_EmptySet
  <1>3. calls[p] \in 0..MaxCalls /\ MaxCalls \in Nat
    BY CallsBounded, LimitsAreNat
  <1>4. calls[p] >= 1 => <<p, 1>> \in Running
    BY <1>3 DEF Running
  <1> QED BY <1>2, <1>3, <1>4

-------------------------------------------------------------------------------
(* What Drain knows of a link.                                             *)

LEMMA DrainsStep ==
  ASSUME ServerLinkAssumption, Types, FlagsInv, PeersInv, WiresInv, DrainsInv, InflightIsReal,
         [Next]_vars
  PROVE  DrainsInv'
  <1> SUFFICES ASSUME NEW d \in Links PROVE DrainOK(d)'
    BY DEF DrainsInv
  <1>p. Links \subseteq Peers /\ Clients \subseteq Peers /\ Links \cap Clients = {} /\ d \in Peers
    BY DEF Peers, ServerLinkAssumption
  <1>d. DrainOK(d) /\ WireOK(d) /\ PeerOK(d) /\ wire[d] \in Frames
    BY <1>p DEF DrainsInv, WiresInv, PeersInv, Types, Frames
  <1>e. wire[d] # <<>> => d \in open
    BY <1>d DEF PeerOK
  <1> USE <1>d, <1>p DEF server, peer, admit, ending, ctx, links
  <1>1. ASSUME NEW l \in Links, Connect(l) PROVE DrainOK(d)'
    <2>1. CASE d = l
      <3>1. /\ wire'[d] = <<>> /\ pc[d] = "down" /\ pc'[d] = "connecting"
            /\ UNCHANGED <<drain, toDrain, expired, unacked, calls, awaited, told, opening, routable>>
        BY <1>1, <2>1 DEF Connect, Types
      <3>2. wire[d] = <<>> /\ d \notin awaited
        BY <3>1 DEF PeerOK
      <3> QED BY <3>1, <3>2, SameDrain DEF Serving
    <2>2. CASE d # l
      BY <1>1, <2>2, SameDrain DEF Connect, Types, Serving
    <2> QED BY <2>1, <2>2
  <1>2. ASSUME NEW l \in Links, RouterAccepts(l) PROVE DrainOK(d)'
    <2>1. CASE d = l
      <3>1. pc'[d] = "accepted" /\ UNCHANGED <<drain, toDrain, expired, unacked, calls, awaited, told, wire, open>>
        BY <1>2, <2>1 DEF RouterAccepts, Types
      <3>2. ~Serving(d)' /\ (Untold(d) => Untold(d)')
        BY <3>1 DEF Serving, Untold, AckIn
      <3> QED BY <3>1, <3>2 DEF DrainOK
    <2>2. CASE d # l
      BY <1>2, <2>2, SameDrain DEF RouterAccepts, Types, Serving
    <2> QED BY <2>1, <2>2
  <1>3. ASSUME NEW l \in Links, RegisterFails(l) PROVE DrainOK(d)'
    <2>1. CASE d = l
      BY <1>3, <2>1, GoneDrain DEF RegisterFails
    <2>2. CASE d # l
      BY <1>3, <2>2, SameDrain DEF RegisterFails, GiveUpOrRetry, Types, Serving
    <2> QED BY <2>1, <2>2
  <1>4. ASSUME NEW p \in Peers, NewSession(p) PROVE DrainOK(d)'
    <2>1. pc'[d] = "serving" => pc[d] = "serving"
      BY <1>4 DEF NewSession, Types
    <2> QED BY <1>4, <2>1, SameDrain DEF NewSession, Serving
  <1>5. ASSUME NEW l \in Links, Registered(l) PROVE DrainOK(d)'
    <2>1. drain = "idle"
      BY <1>5 DEF Registered, StopSeen, Stopping, FlagsInv
    <2> QED BY <1>5, <2>1, SameDrain DEF Registered
  <1>6. ASSUME NEW l \in Links, SuperviseEnds(l) \/ GivesUp(l) PROVE DrainOK(d)'
    <2>1. pc'[d] = "serving" => pc[d] = "serving"
      BY <1>6 DEF SuperviseEnds, GivesUp, Types
    <2> QED BY <1>6, <2>1, SameDrain DEF SuperviseEnds, GivesUp, Serving
  <1>7. ASSUME NEW l \in Links, RegisteredTooLate(l) PROVE DrainOK(d)'
    <2>1. CASE d = l
      BY <1>7, <2>1, GoneDrain DEF RegisteredTooLate, Types
    <2>2. CASE d # l
      BY <1>7, <2>2, SameDrain DEF RegisteredTooLate, GiveUpOrRetry, Types, Serving
    <2> QED BY <2>1, <2>2
  <1>8. ASSUME NEW c \in Clients, Accept(c) PROVE DrainOK(d)'
    BY <1>8, SameDrain DEF Accept, Types, Serving
  <1>9. ASSUME NEW p \in Peers, SendCall(p) PROVE DrainOK(d)'
    <2>1. CASE d = p
      <3>1. /\ wire'[d] = Append(wire[d], "call") /\ d \in routable
            /\ UNCHANGED <<drain, toDrain, expired, unacked, calls, awaited, told, opening, routable, open, pc>>
        BY <1>9, <2>1 DEF SendCall, Types
      <3>2. ~AckIn(d) /\ AckLast(wire[d])
        BY <3>1 DEF WireOK
      <3>3. ~AckIn(d)'
        BY <3>1, <3>2, AppendFrame DEF AckIn
      <3>4. (Untold(d) => Untold(d)') /\ (Settled(d) => Settled(d)')
        BY <3>1, <3>2, <3>3 DEF Untold, Settled
      <3>5. Serving(d)' => Serving(d)
        BY <3>1 DEF Serving
      <3> QED BY <3>1, <3>4, <3>5 DEF DrainOK
    <2>2. CASE d # p
      BY <1>9, <2>2, SameDrain DEF SendCall, Types, Serving
    <2> QED BY <2>1, <2>2
  <1>10. ASSUME NEW l \in Links, AckDrain(l) PROVE DrainOK(d)'
    <2>1. CASE d = l
      <3>1. /\ wire'[d] = Append(wire[d], "ack") /\ d \in told
            /\ UNCHANGED <<drain, toDrain, expired, unacked, calls, awaited, opening, open, pc>>
        BY <1>10, <2>1 DEF AckDrain, Types
      <3>2. ~AckIn(d) /\ AckLast(wire[d])
        BY <3>1 DEF WireOK
      <3>3. AckIn(d)'
        BY <3>1, <3>2, AppendFrame DEF AckIn
      <3>4. ~Untold(d) /\ (Settled(d) => Settled(d)')
        BY <3>1, <3>3 DEF Untold, Settled
      <3>5. Serving(d)' => Serving(d)
        BY <3>1 DEF Serving
      <3> QED BY <3>1, <3>4, <3>5 DEF DrainOK
    <2>2. CASE d # l
      BY <1>10, <2>2, SameDrain DEF AckDrain, Types, Serving
    <2> QED BY <2>1, <2>2
  <1>11. ASSUME NEW p \in Peers, Break(p) PROVE DrainOK(d)'
    <2>1. CASE d = p
      BY <1>11, <2>1, GoneDrain DEF Break, Types
    <2>2. CASE d # p
      BY <1>11, <2>2, SameDrain DEF Break, Types, Serving
    <2> QED BY <2>1, <2>2
  <1>12. ASSUME NEW p \in Peers, ReceiveAck(p) PROVE DrainOK(d)'
    <2>1. CASE d = p
      <3>1. /\ wire[d] # <<>> /\ Head(wire[d]) = "ack" /\ wire'[d] = Tail(wire[d])
            /\ d \notin opening /\ d \notin awaited'
            /\ UNCHANGED <<drain, toDrain, expired, unacked, calls, told, opening, routable, open, pc>>
        BY <1>12, <2>1 DEF ReceiveAck, Reads, Types
      <3>2. Tail(wire[d]) = <<>> /\ AckIn(d)
        BY <3>1, TailFrame DEF WireOK, AckIn
      <3>3. d \notin routable /\ d \notin told /\ ~AckIn(d)'
        BY <3>1, <3>2, NoFrames DEF WireOK, AckIn
      <3>4. Untold(d)' /\ Settled(d)'
        BY <3>1, <3>2, <3>3 DEF Untold, Settled
      <3>5. Serving(d)' => Serving(d)
        BY <3>1 DEF Serving
      <3> QED BY <3>1, <3>4, <3>5 DEF DrainOK
    <2>2. CASE d # p
      BY <1>12, <2>2, SameDrain DEF ReceiveAck, Types, Serving
    <2> QED BY <2>1, <2>2
  <1>13. ASSUME NEW p \in Peers, RejectCall(p) \/ AdmitCall(p) PROVE DrainOK(d)'
    <2>1. CASE d = p
      <3>1. /\ wire[d] # <<>> /\ Head(wire[d]) = "call" /\ wire'[d] = Tail(wire[d])
            /\ UNCHANGED <<drain, toDrain, expired, unacked, calls, awaited, told, routable, open, pc>>
        BY <1>13, <2>1 DEF RejectCall, AdmitCall, Reads, Types
      <3>2. AckIn(d)' <=> AckIn(d)
        BY <3>1, TailFrame DEF WireOK, AckIn
      <3>3. (Untold(d) => Untold(d)') /\ (Settled(d) => Settled(d)')
        BY <3>1, <3>2 DEF Untold, Settled
      <3>4. Serving(d)' => Serving(d)
        BY <3>1 DEF Serving
      <3> QED BY <3>1, <3>3, <3>4 DEF DrainOK
    <2>2. CASE d # p
      BY <1>13, <2>2, SameDrain DEF RejectCall, AdmitCall, Types, Serving
    <2> QED BY <2>1, <2>2
  <1>14. ASSUME NEW p \in Peers, CountCall(p) \/ CallEnds(p) PROVE DrainOK(d)'
    <2>1. CASE d = p
      <3>1. /\ UNCHANGED <<drain, toDrain, expired, unacked, awaited, told, routable, open, pc, wire>>
            /\ opening' \subseteq opening
            /\ d \in opening \/ calls[d] > 0
        BY <1>14, <2>1 DEF CountCall, CallEnds
      <3>2. AckIn(d)' <=> AckIn(d)
        BY <3>1 DEF AckIn
      <3>3. (Untold(d) => Untold(d)') /\ (Settled(d) => Settled(d)')
        BY <3>1, <3>2 DEF Untold, Settled
      <3>4. Serving(d)' <=> Serving(d)
        BY <3>1 DEF Serving
      <3>5. ~(drain = "done" /\ Serving(d) /\ d \notin unacked)
        <4> SUFFICES ASSUME drain = "done", Serving(d), d \notin unacked PROVE FALSE
          OBVIOUS
        <4>1. toDrain = {} /\ d \in open
          BY DEF FlagsInv, Serving
        <4>2. Settled(d) /\ d \notin awaited /\ calls[d] = 0
          BY <4>1 DEF DrainOK
        <4> QED BY <3>1, <4>2 DEF Settled
      <3> QED BY <3>1, <3>3, <3>4, <3>5 DEF DrainOK
    <2>2. CASE d # p
      BY <1>14, <2>2, SameDrain DEF CountCall, CallEnds, Types, Serving
    <2> QED BY <2>1, <2>2
  <1>15. ASSUME NEW p \in Peers, SessionEnds(p) PROVE DrainOK(d)'
    <2>1. CASE d = p
      BY <1>15, <2>1, GoneDrain DEF SessionEnds
    <2>2. CASE d # p
      BY <1>15, <2>2, SameDrain DEF SessionEnds, Types, Serving
    <2> QED BY <2>1, <2>2
  <1>16. CASE DrainBegins
    <2>1. Untold(d) => Untold(d)'
      BY <1>16 DEF DrainBegins, Untold, AckIn
    <2> QED BY <1>16, <2>1 DEF DrainBegins, DrainOK
  <1>17. ASSUME NEW l \in Links, Tell(l) PROVE DrainOK(d)'
    <2>0. /\ drain = "telling" /\ drain' = drain /\ toDrain' = toDrain \ {l}
          /\ UNCHANGED <<calls, opening, routable, open, pc, wire, session, expired, unacked>>
      BY <1>17 DEF Tell
    <2>1. CASE d = l
      <3>1. Serving(d)' => d \in awaited' /\ d \in told'
        BY <1>17, <2>0, <2>1 DEF Tell, Serving, PeerOK
      <3> QED BY <2>0, <2>1, <3>1 DEF DrainOK, Settled
    <2>2. CASE d # l
      <3>1. (d \in awaited' <=> d \in awaited) /\ (d \in told' <=> d \in told)
        BY <1>17, <2>2 DEF Tell
      <3>2. (AckIn(d)' <=> AckIn(d)) /\ (Serving(d)' <=> Serving(d))
        BY <2>0 DEF AckIn, Serving
      <3>3. (Untold(d) => Untold(d)') /\ (Settled(d) => Settled(d)')
        BY <2>0, <3>1, <3>2 DEF Untold, Settled
      <3> QED BY <2>0, <2>2, <3>2, <3>3 DEF DrainOK
    <2> QED BY <2>1, <2>2
  <1>18. CASE Told \/ Acked \/ Polled \/ DrainGivesUp
    <2>1. /\ UNCHANGED <<toDrain, calls, awaited, told, opening, routable, open, pc, wire>>
          /\ drain # "idle" /\ drain' # "idle"
          /\ drain # "done" /\ expired' = expired
          /\ drain' = "polling" => AllAcked \/ expired
          /\ drain' = "done" => drain = "polling" /\ inflight <= 0 /\ unacked' = awaited \cap open
      BY <1>18 DEF Told, Acked, Polled, DrainGivesUp
    <2>2. /\ AckIn(d)' <=> AckIn(d)
          /\ Serving(d)' <=> Serving(d)
      BY <2>1 DEF AckIn, Serving
    <2>3. (Untold(d) => Untold(d)') /\ (Settled(d) => Settled(d)')
      BY <2>1, <2>2 DEF Untold, Settled
    <2>4. drain' = "done" => calls'[d] = 0
      BY <2>1, NoneRunning
    <2>5. drain' \in {"polling", "done"} /\ ~expired' /\ d \in awaited' => d \notin open'
      BY <2>1 DEF AllAcked, DrainOK
    <2>6. drain' = "done" /\ Serving(d)' /\ d \notin unacked' => d \notin awaited'
      BY <2>1 DEF Serving
    <2> QED BY <2>1, <2>2, <2>3, <2>4, <2>5, <2>6 DEF DrainOK
  <1>21. CASE DrainExpires
    <2>1. /\ UNCHANGED <<drain, toDrain, unacked, calls, awaited, told, opening, routable, open, pc, wire>>
          /\ expired'
      BY <1>21 DEF DrainExpires
    <2>2. (AckIn(d)' <=> AckIn(d)) /\ (Serving(d)' <=> Serving(d))
      BY <2>1 DEF AckIn, Serving
    <2>3. (Untold(d) => Untold(d)') /\ (Settled(d) => Settled(d)')
      BY <2>1, <2>2 DEF Untold, Settled
    <2> QED BY <2>1, <2>2, <2>3 DEF DrainOK
  <1>19. CASE CloseBegins
    <2>1. CASE d \in tracked
      BY <1>19, <2>1, GoneDrain DEF CloseBegins
    <2>2. CASE d \notin tracked
      BY <1>19, <2>2, SameDrain DEF CloseBegins, Serving
    <2> QED BY <2>1, <2>2
  <1>20. CASE CloseReturns \/ UNCHANGED vars
    BY <1>20, SameDrain DEF CloseReturns, vars, Serving
  <1> QED BY <1>1, <1>2, <1>3, <1>4, <1>5, <1>6, <1>7, <1>8, <1>9, <1>10, <1>11, <1>12, <1>13,
             <1>14, <1>15, <1>16, <1>17, <1>18, <1>19, <1>20, <1>21
          DEF Next, Link, Serve, DrainSteps

-------------------------------------------------------------------------------
(* Close.                                                                  *)

ClosedInv == closed => \A l \in Links \cap open : pc[l] \in {"connecting", "accepted", "made"}

LEMMA ClosedStep ==
  ASSUME ServerLinkAssumption, Types, PeersInv, ClosedInv, [Next]_vars
  PROVE  ClosedInv'
  <1> SUFFICES ASSUME closed', NEW d \in Links, d \in open'
               PROVE  pc'[d] \in {"connecting", "accepted", "made"}
    BY DEF ClosedInv
  <1> DEFINE Goal == pc'[d] \in {"connecting", "accepted", "made"}
  <1>p. Links \subseteq Peers /\ Clients \subseteq Peers /\ Links \cap Clients = {} /\ d \in Peers
    BY DEF Peers, ServerLinkAssumption
  <1>d. PeerOK(d)
    BY <1>p DEF PeersInv
  <1> USE <1>d, <1>p DEF server, peer, admit, ending, ctx, links, Types
  <1>1. CASE CloseBegins
    <2>1. d \in open /\ d \notin tracked /\ pc' = pc
      BY <1>1 DEF CloseBegins
    <2> QED BY <2>1 DEF PeerOK
  <1>c. ASSUME closed, d \in open, pc'[d] = pc[d] \/ pc'[d] \in {"connecting", "accepted", "made"}
        PROVE  Goal
    BY <1>c DEF ClosedInv
  <1>2. ASSUME NEW l \in Links, Connect(l) PROVE Goal
    BY <1>2 DEF Connect
  <1>3. ASSUME NEW l \in Links, RouterAccepts(l) \/ RegisterFails(l) \/ AckDrain(l) PROVE Goal
    BY <1>3, <1>c DEF RouterAccepts, RegisterFails, GiveUpOrRetry, AckDrain
  <1>4. ASSUME NEW p \in Peers, NewSession(p) PROVE Goal
    BY <1>4, <1>c DEF NewSession
  <1>5. ASSUME NEW l \in Links, Registered(l) PROVE Goal
    BY <1>5 DEF Registered, StopSeen, Stopping
  <1>6. ASSUME NEW l \in Links, RegisteredTooLate(l) PROVE Goal
    BY <1>6, <1>c DEF RegisteredTooLate, GiveUpOrRetry
  <1>7. ASSUME NEW l \in Links, SuperviseEnds(l) \/ GivesUp(l) PROVE Goal
    BY <1>7, <1>c DEF SuperviseEnds, GivesUp, PeerOK
  <1>8. ASSUME NEW c \in Clients, Accept(c) PROVE Goal
    BY <1>8 DEF Accept, Stopping
  <1>9. ASSUME NEW p \in Peers, SendCall(p) \/ Break(p) \/ CountCall(p) \/ CallEnds(p) PROVE Goal
    BY <1>9, <1>c DEF SendCall, Break, CountCall, CallEnds
  <1>10. ASSUME NEW p \in Peers, ReceiveAck(p) \/ RejectCall(p) \/ AdmitCall(p) PROVE Goal
    BY <1>10, <1>c DEF ReceiveAck, RejectCall, AdmitCall
  <1>11. ASSUME NEW p \in Peers, SessionEnds(p) PROVE Goal
    BY <1>11, <1>c DEF SessionEnds
  <1>12. CASE DrainBegins \/ Told \/ Acked \/ Polled \/ DrainGivesUp \/ DrainExpires \/ CloseReturns
    BY <1>12, <1>c DEF DrainBegins, Told, Acked, Polled, DrainGivesUp, DrainExpires, CloseReturns
  <1>13. ASSUME NEW l \in Links, Tell(l) PROVE Goal
    BY <1>13, <1>c DEF Tell
  <1>14. CASE UNCHANGED vars
    BY <1>14, <1>c DEF vars
  <1> QED BY <1>1, <1>2, <1>3, <1>4, <1>5, <1>6, <1>7, <1>8, <1>9, <1>10, <1>11, <1>12, <1>13,
             <1>14
          DEF Next, Link, Serve, DrainSteps

-------------------------------------------------------------------------------
LEMMA LinksInit ==
  ASSUME ServerLinkAssumption, Init
  PROVE  FlagsInv /\ PeersInv /\ WiresInv /\ DrainsInv /\ ClosedInv /\ InflightIsReal
  <1>1. FlagsInv /\ ClosedInv
    BY DEF Init, FlagsInv, ClosedInv
  <1>2. PeersInv
    BY DEF Init, PeersInv, PeerOK
  <1>3. WiresInv
    <2> SUFFICES ASSUME NEW p \in Peers PROVE WireOK(p)
      BY DEF WiresInv
    <2>1. wire[p] = <<>> /\ calls[p] = 0 /\ p \notin opening
      BY DEF Init
    <2>2. AckLast(wire[p]) /\ ~AckIn(p) /\ CallsOf(wire[p]) = 0
      BY <2>1, NoFrames DEF AckIn
    <2>3. calls[p] + CallsOf(wire[p]) + (IF p \in opening THEN 1 ELSE 0) <= MaxCalls
      BY <2>1, <2>2, LimitsAreNat
    <2> QED BY <2>2, <2>3 DEF WireOK
  <1>4. DrainsInv
    <2> SUFFICES ASSUME NEW l \in Links PROVE DrainOK(l)
      BY DEF DrainsInv
    <2>1. l \in Peers
      BY DEF Peers
    <2>2. wire[l] = <<>> /\ drain = "idle" /\ l \notin awaited /\ l \notin told
      BY <2>1 DEF Init
    <2>3. Untold(l)
      BY <2>2, NoFrames DEF Untold, AckIn
    <2> QED BY <2>2, <2>3 DEF DrainOK
  <1>5. InflightIsReal
    <2>1. inflight = 0 /\ \A p \in Peers : calls[p] = 0
      BY DEF Init
    <2>2. Running = {}
      BY <2>1 DEF Running
    <2> QED BY <2>1, <2>2, FS_EmptySet DEF InflightIsReal
  <1> QED BY <1>1, <1>2, <1>3, <1>4, <1>5

\* However links, clients, calls, losses, the context of Drain and Close interleave:
\* the counter is the calls that have begun and not finished, so Drain and
\* max_inflight go by what is real; when Drain has returned nil, no Router that is
\* still connected and had acknowledged by then has a call of its own anywhere in
\* the server, and one that had not is there only if the context ended; and after
\* Close no Router connection is left that does not end by itself.
THEOREM ServerLinkCorrect ==
  ASSUME ServerLinkAssumption
  PROVE  Spec => []DrainedMeansIdle
  <1> DEFINE Inv == /\ Types /\ FlagsInv /\ PeersInv /\ WiresInv /\ DrainsInv /\ ClosedInv
                    /\ InflightIsReal
  <1>1. Init => Inv
    BY TypesInit, LinksInit
  <1>2. Inv /\ [Next]_vars => Inv'
    BY TypesStep, FlagsStep, PeersStep, WiresStep, DrainsStep, ClosedStep, CountsStep
  <1>3. ASSUME Inv PROVE DrainedMeansIdle
    <2>1. calls \in [Peers -> 0..MaxCalls] /\ inflight \in Nat
      BY <1>3, CallsBounded, RunningFinite DEF Types, InflightIsReal
    <2>2. TypeOK
      BY <1>3, <2>1 DEF Types, TypeOK
    <2>3. ClosedLinksEnd
      BY <1>3 DEF ClosedInv, FlagsInv, ClosedLinksEnd
    <2>4. DrainedIsIdle
      <3> SUFFICES ASSUME drain = "done", NEW l \in (Links \cap open) \ unacked, pc[l] = "serving"
                   PROVE  calls[l] = 0 /\ l \notin opening /\ "call" \notin Range(wire[l])
        BY <1>3 DEF DrainedIsIdle, FlagsInv
      <3>1. toDrain = {} /\ DrainOK(l) /\ Serving(l)
        BY <1>3 DEF FlagsInv, DrainsInv, Serving
      <3>2. Settled(l) /\ l \notin awaited /\ calls[l] = 0
        BY <3>1 DEF DrainOK
      <3>3. wire[l] = <<>> /\ l \notin opening
        BY <3>2 DEF Settled
      <3>4. Range(<<>>) = {}
        BY DEF Range
      <3> QED BY <3>2, <3>3, <3>4
    <2> QED BY <1>3, <2>2, <2>3, <2>4 DEF DrainedMeansIdle
  <1> QED BY <1>1, <1>2, <1>3, PTL DEF Spec

-------------------------------------------------------------------------------
(* router.go: LocalRouter and Mesh.  The inductive invariant.              *)

\* What a thread is doing tells its job, and which Mesh, process and server it holds.
Early == {"ensure", "locking", "starting", "own", "ready", "publish"}
ServerAt == {"serving", "closeRunning", "draining", "onClose", "afterClose"}
NoServerAt == {"idle", "closeServer", "dialing", "stop", "stopping", "waiting"}
Fits(step, job, m, p, s) ==
    /\ step = "idle" => job = "none" /\ m = None /\ p = None
    /\ job = "router" => m = None
    /\ step # "idle" /\ job # "router" => m \in Meshes
    /\ job \in {"none", "connect", "router"} \/ step \in NoServerAt => s = None
    /\ step \in Early => job \in {"connect", "router", "start", "serve"}
    /\ step \in Early /\ job \in {"start", "serve"} => s \in Servers
    /\ step = "publish" => job \in {"start", "serve"}
    /\ step = "serving" => job = "serve"
    /\ step \in ServerAt => s \in Servers
    /\ step \in {"closeServer", "release"} => job = "close"
    /\ step = "dialing" => job = "connect"
    /\ step \in {"starting", "stopping", "waiting"} => p \in Procs
ThreadsFit == \A t \in Threads : Fits(th[t].pc, th[t].job, th[t].mesh, th[t].proc, th[t].srv)
\* A server in use has a home; what a thread or a Mesh holds is in use.
Homes ==
    /\ \A s \in Servers : srv[s] # "unused" => home[s] \in Meshes
    /\ \A t \in Threads : th[t].srv # None => srv[th[t].srv] # "unused"
    /\ \A m \in Meshes : active[m] # None => srv[active[m]] # "unused"

\* While a thread starts a process it holds the lock and no other one is registered.
RouterInv ==
    /\ routerRunning <=> spawned # None
    /\ \A t \in Threads : Sharing!At(t, "starting") =>
         lock = t /\ spawned = None /\ starter[th[t].proc] = th[t].mesh

\* A process that a Mesh started is owned, or about to be owned or stopped.
OwnerInv ==
    spawned # None /\ starter[spawned] # None =>
        \/ \E m \in Meshes : owns[m]
        \/ \E t \in Threads : Sharing!At(t, "own") /\ th[t].job # "router"
        \/ \E t \in Threads : Sharing!At(t, "stop")

\* A server on its way up is its thread's alone, and unless two StartServing have
\* overlapped its Mesh has no other and none on the way; one that was let go is past
\* being open.
Rising(t) == th[t].pc \in Early /\ th[t].job \in {"start", "serve"}
Past == {"closing", "shut", "closed"}
Closed == {"draining", "onClose", "afterClose", "release"}
ServersInv ==
    /\ \A t \in Threads : Rising(t) =>
         /\ home[th[t].srv] = th[t].mesh
         /\ th[t].mesh \notin overlapped => active[th[t].mesh] = None
         /\ ~Sharing!At(t, "publish") => srv[th[t].srv] = "made"
    /\ \A t, u \in Threads : Rising(t) /\ Rising(u) /\ t # u =>
         /\ th[t].srv # th[u].srv
         /\ th[t].mesh = th[u].mesh => th[t].mesh \in overlapped
    /\ \A t \in Threads : th[t].srv # None /\ th[t].pc \in Closed => srv[th[t].srv] \in Past
    /\ \A m \in Meshes : active[m] # None => home[active[m]] = m

MeshInv ==
    /\ Sharing!TypeOK /\ ThreadsFit /\ Homes /\ RouterInv /\ Sharing!NoOrphanProcess /\ OwnerInv
    /\ ServersInv /\ Sharing!ServerTracked

-------------------------------------------------------------------------------
(* What a step makes of its thread. *)

ThreadStates == [pc : Sharing!Steps, job : Sharing!Jobs, mesh : Meshes \cup {None},
                 proc : Procs \cup {None}, srv : Servers \cup {None}]

Becomes(t, step, job, m, p, s) ==
    /\ th' \in [Threads -> ThreadStates]
    /\ th'[t].pc = step /\ th'[t].job = job /\ th'[t].mesh = m /\ th'[t].proc = p /\ th'[t].srv = s
    /\ \A u \in Threads \ {t} : th'[u] = th[u]

LEMMA ThreadFields ==
  ASSUME Sharing!TypeOK, NEW t \in Threads
  PROVE  /\ th[t] \in ThreadStates /\ th[t].pc \in Sharing!Steps /\ th[t].job \in Sharing!Jobs
         /\ th[t].mesh \in Meshes \cup {None} /\ th[t].proc \in Procs \cup {None}
         /\ th[t].srv \in Servers \cup {None}
  <1>1. th[t] \in ThreadStates
    BY DEF Sharing!TypeOK, ThreadStates
  <1> QED BY <1>1 DEF ThreadStates

LEMMA Went ==
  ASSUME Sharing!TypeOK, NEW t \in Threads, NEW step \in Sharing!Steps, Sharing!Goto(t, step)
  PROVE  Becomes(t, step, th[t].job, th[t].mesh, th[t].proc, th[t].srv)
  <1>1. th' = [th EXCEPT ![t] = [th[t] EXCEPT !.pc = step]] /\ th \in [Threads -> ThreadStates]
    BY DEF Sharing!Goto, Sharing!TypeOK, ThreadStates
  <1>2. [th[t] EXCEPT !.pc = step] \in ThreadStates
    BY <1>1 DEF ThreadStates
  <1> QED BY <1>1, <1>2 DEF Becomes, ThreadStates

LEMMA Began ==
  ASSUME Sharing!TypeOK, NEW t \in Threads, NEW r \in ThreadStates, th' = [th EXCEPT ![t] = r]
  PROVE  Becomes(t, r.pc, r.job, r.mesh, r.proc, r.srv)
  BY DEF Becomes, Sharing!TypeOK, ThreadStates

LEMMA Returned ==
  ASSUME Sharing!TypeOK, NEW t \in Threads, Sharing!Returns(t)
  PROVE  Becomes(t, "idle", "none", None, None, None)
  <1>1. Sharing!Idle \in ThreadStates
    BY DEF Sharing!Idle, ThreadStates, Sharing!Steps, Sharing!Jobs
  <1> HIDE DEF Sharing!Idle
  <1>2. Becomes(t, Sharing!Idle.pc, Sharing!Idle.job, Sharing!Idle.mesh, Sharing!Idle.proc, Sharing!Idle.srv)
    BY <1>1, Began DEF Sharing!Returns
  <1> QED BY <1>2 DEF Sharing!Idle

LEMMA Starts ==
  ASSUME Sharing!TypeOK, NEW t \in Threads, NEW step \in Sharing!Steps, NEW job \in Sharing!Jobs, NEW m \in Meshes \cup {None},
         NEW s \in Servers \cup {None},
         \/ th' = [th EXCEPT ![t] = [Sharing!Idle EXCEPT !.pc = step, !.job = job, !.mesh = m, !.srv = s]]
         \/ /\ th' = [th EXCEPT ![t] = [Sharing!Idle EXCEPT !.pc = step, !.job = job, !.mesh = m]]
            /\ s = None
         \/ /\ th' = [th EXCEPT ![t] = [Sharing!Idle EXCEPT !.pc = step, !.job = job]]
            /\ s = None /\ m = None
  PROVE  Becomes(t, step, job, m, None, s)
  <1> DEFINE r == [pc |-> step, job |-> job, mesh |-> m, proc |-> None, srv |-> s]
  <1>1. r \in ThreadStates
    BY DEF ThreadStates
  <1>2. th' = [th EXCEPT ![t] = r]
    BY DEF Sharing!Idle
  <1>3. r.pc = step /\ r.job = job /\ r.mesh = m /\ r.proc = None /\ r.srv = s
    OBVIOUS
  <1> HIDE DEF r
  <1>4. Becomes(t, r.pc, r.job, r.mesh, r.proc, r.srv)
    BY <1>1, <1>2, Began
  <1> QED BY <1>3, <1>4

LEMMA Takes ==
  ASSUME Sharing!TypeOK, NEW t \in Threads, NEW step \in Sharing!Steps, NEW p \in Procs \cup {None},
         th' = [th EXCEPT ![t].pc = step, ![t].proc = p]
  PROVE  Becomes(t, step, th[t].job, th[t].mesh, p, th[t].srv)
  <1>0. th \in [Threads -> ThreadStates] /\ th[t] \in ThreadStates
    BY DEF Sharing!TypeOK, ThreadStates
  <1> DEFINE r == [th[t] EXCEPT !.pc = step, !.proc = p]
  <1>1. r \in ThreadStates
    BY <1>0 DEF ThreadStates
  <1>2. th' = [th EXCEPT ![t] = r]
    BY <1>0
  <1>3. r.pc = step /\ r.job = th[t].job /\ r.mesh = th[t].mesh /\ r.proc = p /\ r.srv = th[t].srv
    BY <1>0 DEF ThreadStates
  <1> HIDE DEF r
  <1>4. Becomes(t, r.pc, r.job, r.mesh, r.proc, r.srv)
    BY <1>1, <1>2, Began
  <1> QED BY <1>3, <1>4

LEMMA TakesServer ==
  ASSUME Sharing!TypeOK, NEW t \in Threads, NEW step \in Sharing!Steps, NEW s \in Servers \cup {None},
         \/ th' = [th EXCEPT ![t].pc = step, ![t].srv = s]
         \/ th' = [th EXCEPT ![t].srv = s, ![t].pc = step]
  PROVE  Becomes(t, step, th[t].job, th[t].mesh, th[t].proc, s)
  <1>0. th \in [Threads -> ThreadStates] /\ th[t] \in ThreadStates
    BY DEF Sharing!TypeOK, ThreadStates
  <1> DEFINE r == [th[t] EXCEPT !.pc = step, !.srv = s]
  <1>1. r \in ThreadStates
    BY <1>0 DEF ThreadStates
  <1>2. th' = [th EXCEPT ![t] = r]
    BY <1>0 DEF ThreadStates
  <1>3. r.pc = step /\ r.job = th[t].job /\ r.mesh = th[t].mesh /\ r.proc = th[t].proc /\ r.srv = s
    BY <1>0 DEF ThreadStates
  <1> HIDE DEF r
  <1>4. Becomes(t, r.pc, r.job, r.mesh, r.proc, r.srv)
    BY <1>1, <1>2, Began
  <1> QED BY <1>3, <1>4


Goes(t, step) == Becomes(t, step, th[t].job, th[t].mesh, th[t].proc, th[t].srv)
Rests(t) == Becomes(t, "idle", "none", None, None, None)
Closes(t) == Becomes(t, "closeServer", "close", th[t].mesh, None, None)

LEMMA StepNames == "idle" \in Sharing!Steps /\ "ensure" \in Sharing!Steps /\ "locking" \in Sharing!Steps /\ "starting" \in Sharing!Steps
    /\ "own" \in Sharing!Steps /\ "ready" \in Sharing!Steps /\ "dialing" \in Sharing!Steps /\ "publish" \in Sharing!Steps
    /\ "serving" \in Sharing!Steps /\ "closeServer" \in Sharing!Steps /\ "closeRunning" \in Sharing!Steps
    /\ "draining" \in Sharing!Steps /\ "onClose" \in Sharing!Steps /\ "afterClose" \in Sharing!Steps /\ "release" \in Sharing!Steps
    /\ "stop" \in Sharing!Steps /\ "stopping" \in Sharing!Steps /\ "waiting" \in Sharing!Steps
    /\ "close" \in Sharing!Jobs /\ "connect" \in Sharing!Jobs /\ "router" \in Sharing!Jobs /\ "handle" \in Sharing!Jobs
    /\ "start" \in Sharing!Jobs /\ "serve" \in Sharing!Jobs
  BY DEF Sharing!Steps, Sharing!Jobs

LEMMA StartingMoves ==
  ASSUME Sharing!TypeOK, ThreadsFit, NEW t \in Threads
  PROVE  /\ Sharing!EnsureRunning(t) => Goes(t, "ready") \/ Goes(t, "locking")
         /\ Sharing!StartFindsRunning(t) => Goes(t, "own")
         /\ \A p \in Procs : Sharing!Spawn(t, p) =>
              Becomes(t, "starting", th[t].job, th[t].mesh, p, th[t].srv)
         /\ Sharing!SpawnReady(t) => Becomes(t, "own", th[t].job, th[t].mesh, None, th[t].srv)
         /\ Sharing!SpawnFails(t) \/ Sharing!SpawnExited(t) \/ Sharing!SpawnCancelled(t) => Rests(t)
         /\ Sharing!Own(t) => IF th[t].job = "router" THEN Rests(t) ELSE Goes(t, "ready")
  <1>1. ASSUME Sharing!EnsureRunning(t) PROVE Goes(t, "ready") \/ Goes(t, "locking")
    BY <1>1, Went, StepNames DEF Sharing!EnsureRunning, Goes
  <1>2. ASSUME Sharing!StartFindsRunning(t) PROVE Goes(t, "own")
    BY <1>2, Went, StepNames DEF Sharing!StartFindsRunning, Goes
  <1>3. ASSUME NEW p \in Procs, Sharing!Spawn(t, p)
        PROVE  Becomes(t, "starting", th[t].job, th[t].mesh, p, th[t].srv)
    BY <1>3, Takes, StepNames DEF Sharing!Spawn
  <1>4. ASSUME Sharing!SpawnReady(t) PROVE Becomes(t, "own", th[t].job, th[t].mesh, None, th[t].srv)
    BY <1>4, Takes, StepNames DEF Sharing!SpawnReady
  <1>5. ASSUME Sharing!SpawnFails(t) \/ Sharing!SpawnExited(t) \/ Sharing!SpawnCancelled(t) PROVE Rests(t)
    BY <1>5, Returned DEF Sharing!SpawnFails, Sharing!SpawnExited, Sharing!SpawnCancelled,
       Sharing!StartFails, Rests
  <1>6. ASSUME Sharing!Own(t) PROVE IF th[t].job = "router" THEN Rests(t) ELSE Goes(t, "ready")
    BY <1>6, Returned, Went, StepNames DEF Sharing!Own, Rests, Goes
  <1> QED BY <1>1, <1>2, <1>3, <1>4, <1>5, <1>6

LEMMA StoppingMoves ==
  ASSUME Sharing!TypeOK, ThreadsFit, NEW t \in Threads
  PROVE  /\ Sharing!StopTakes(t) => IF spawned = None THEN Rests(t)
                            ELSE Becomes(t, "stopping", th[t].job, th[t].mesh, spawned, th[t].srv)
         /\ Sharing!StopTells(t) => Goes(t, "waiting")
         /\ Sharing!StopReturns(t) => Rests(t)
         /\ Sharing!CloseFirst(t) => Goes(t, "draining")
         /\ Sharing!Drained(t) => Goes(t, "onClose")
         /\ Sharing!OnClose(t) \/ Sharing!CloseWaits(t) => Goes(t, "afterClose")
         /\ Sharing!AfterClose(t) =>
              \/ th[t].job = "close" /\ Goes(t, "release")
              \/ th[t].job = "serve" /\ Closes(t)
              \/ Rests(t)
         /\ Sharing!TakeServer(t) =>
              \/ /\ active[th[t].mesh] = None
                 /\ Becomes(t, "release", th[t].job, th[t].mesh, th[t].proc, None)
              \/ /\ active[th[t].mesh] \in Servers
                 /\ Becomes(t, "closeRunning", th[t].job, th[t].mesh, th[t].proc, active[th[t].mesh])
         /\ Sharing!ReleaseRouter(t) =>
              IF owns[th[t].mesh] THEN Becomes(t, "stop", th[t].job, th[t].mesh, th[t].proc, None)
              ELSE Rests(t)
  <1>1. ASSUME Sharing!StopTakes(t)
        PROVE  IF spawned = None THEN Rests(t)
               ELSE Becomes(t, "stopping", th[t].job, th[t].mesh, spawned, th[t].srv)
    <2>1. spawned \in Procs \cup {None}
      BY DEF Sharing!TypeOK
    <2> QED BY <1>1, <2>1, Takes, Returned, StepNames DEF Sharing!StopTakes,
               Sharing!NothingSpawned, Rests
  <1>2. ASSUME Sharing!StopTells(t) PROVE Goes(t, "waiting")
    BY <1>2, Went, StepNames DEF Sharing!StopTells, Goes
  <1>3. ASSUME Sharing!StopReturns(t) PROVE Rests(t)
    BY <1>3, Returned DEF Sharing!StopReturns, Rests
  <1>4. ASSUME Sharing!CloseFirst(t) PROVE Goes(t, "draining")
    BY <1>4, Went, StepNames DEF Sharing!CloseFirst, Goes
  <1>5. ASSUME Sharing!Drained(t) PROVE Goes(t, "onClose")
    BY <1>5, Went, StepNames DEF Sharing!Drained, Goes
  <1>6. ASSUME Sharing!OnClose(t) \/ Sharing!CloseWaits(t) PROVE Goes(t, "afterClose")
    BY <1>6, Went, StepNames DEF Sharing!OnClose, Sharing!CloseWaits, Goes
  <1>7. ASSUME Sharing!AfterClose(t)
        PROVE  \/ th[t].job = "close" /\ Goes(t, "release")
               \/ th[t].job = "serve" /\ Closes(t)
               \/ Rests(t)
    <2>1. CASE th[t].job = "close"
      <3>1. Sharing!Goto(t, "release")
        BY <1>7, <2>1 DEF Sharing!AfterClose
      <3> QED BY <2>1, <3>1, Went, StepNames DEF Goes
    <2>2. CASE th[t].job = "serve" /\ owns[th[t].mesh]
      <3>1. th' = [th EXCEPT ![t] = [Sharing!Idle EXCEPT !.pc = "closeServer", !.job = "close", !.mesh = th[t].mesh]]
        BY <1>7, <2>2 DEF Sharing!AfterClose
      <3> QED BY <2>2, <3>1, Starts, StepNames, ThreadFields DEF Closes
    <2>3. CASE th[t].job # "close" /\ ~(th[t].job = "serve" /\ owns[th[t].mesh])
      <3>1. Sharing!Returns(t)
        BY <1>7, <2>3 DEF Sharing!AfterClose
      <3> QED BY <3>1, Returned DEF Rests
    <2> QED BY <2>1, <2>2, <2>3
  <1>8. ASSUME Sharing!TakeServer(t)
        PROVE  \/ /\ active[th[t].mesh] = None
                  /\ Becomes(t, "release", th[t].job, th[t].mesh, th[t].proc, None)
               \/ /\ active[th[t].mesh] \in Servers
                  /\ Becomes(t, "closeRunning", th[t].job, th[t].mesh, th[t].proc, active[th[t].mesh])
    <2>1. th[t].mesh \in Meshes
      BY <1>8, ThreadFields DEF Sharing!TakeServer, ThreadsFit, Fits, Sharing!At
    <2>2. active[th[t].mesh] \in Servers \cup {None}
      BY <2>1 DEF Sharing!TypeOK
    <2>3. CASE active[th[t].mesh] = None
      <3>1. th' = [th EXCEPT ![t].srv = active[th[t].mesh], ![t].pc = "release"]
        BY <1>8, <2>3 DEF Sharing!TakeServer
      <3> QED BY <2>2, <2>3, <3>1, TakesServer, StepNames
    <2>4. CASE active[th[t].mesh] # None
      <3>1. th' = [th EXCEPT ![t].srv = active[th[t].mesh], ![t].pc = "closeRunning"]
        BY <1>8, <2>4 DEF Sharing!TakeServer
      <3> QED BY <2>2, <2>4, <3>1, TakesServer, StepNames
    <2> QED BY <2>3, <2>4
  <1>9. ASSUME Sharing!ReleaseRouter(t)
        PROVE  IF owns[th[t].mesh] THEN Becomes(t, "stop", th[t].job, th[t].mesh, th[t].proc, None)
               ELSE Rests(t)
    BY <1>9, TakesServer, Returned, StepNames DEF Sharing!ReleaseRouter, Sharing!MustStop, Rests
  <1> QED BY <1>1, <1>2, <1>3, <1>4, <1>5, <1>6, <1>7, <1>8, <1>9

LEMMA UsingMoves ==
  ASSUME Sharing!TypeOK, ThreadsFit, NEW t \in Threads
  PROVE  /\ Sharing!BeginStart(t) => Becomes(t, "locking", "router", None, None, None)
         /\ Sharing!BeginStop(t) => Becomes(t, "stop", "router", None, None, None)
         /\ \A m \in Meshes : Sharing!BeginConnect(t, m) => Becomes(t, "ensure", "connect", m, None, None)
         /\ Sharing!NewClient(t) => Goes(t, "dialing")
         /\ Sharing!Connected(t) \/ Sharing!ConnectFails(t) => Rests(t)
         /\ \A m \in Meshes, s \in Servers, job \in {"start", "serve"}, direct \in BOOLEAN :
              Sharing!BeginServing(t, m, s, job, direct) =>
                  Becomes(t, IF direct THEN "publish" ELSE "ensure", job, m, None, s)
         /\ Sharing!Register(t) => Goes(t, "publish")
         /\ Sharing!RegisterFails(t) => Rests(t) \/ Closes(t)
         /\ Sharing!Publish(t) => IF th[t].job = "serve" THEN Goes(t, "serving") ELSE Rests(t)
         /\ Sharing!ServeEnds(t) => Goes(t, "closeRunning")
         /\ \A s \in Servers : Sharing!BeginCloseRunning(t, s) =>
              Becomes(t, "closeRunning", "handle", home[s], None, s)
         /\ \A m \in Meshes : Sharing!BeginClose(t, m) => Becomes(t, "closeServer", "close", m, None, None)
  <1>1. ASSUME Sharing!BeginStart(t) PROVE Becomes(t, "locking", "router", None, None, None)
    BY <1>1, Starts, StepNames DEF Sharing!BeginStart
  <1>2. ASSUME Sharing!BeginStop(t) PROVE Becomes(t, "stop", "router", None, None, None)
    BY <1>2, Starts, StepNames DEF Sharing!BeginStop
  <1>3. ASSUME NEW m \in Meshes, Sharing!BeginConnect(t, m)
        PROVE  Becomes(t, "ensure", "connect", m, None, None)
    BY <1>3, Starts, StepNames DEF Sharing!BeginConnect
  <1>4. ASSUME Sharing!NewClient(t) PROVE Goes(t, "dialing")
    BY <1>4, Went, StepNames DEF Sharing!NewClient, Goes
  <1>5. ASSUME Sharing!Connected(t) \/ Sharing!ConnectFails(t) PROVE Rests(t)
    BY <1>5, Returned DEF Sharing!Connected, Sharing!ConnectFails, Rests
  <1>6. ASSUME NEW m \in Meshes, NEW s \in Servers, NEW job \in {"start", "serve"},
               NEW direct \in BOOLEAN, Sharing!BeginServing(t, m, s, job, direct)
        PROVE  Becomes(t, IF direct THEN "publish" ELSE "ensure", job, m, None, s)
    <2>1. CASE direct
      <3>1. th' = [th EXCEPT ![t] = [Sharing!Idle EXCEPT !.pc = "publish", !.job = job, !.mesh = m, !.srv = s]]
        BY <1>6, <2>1 DEF Sharing!BeginServing
      <3>2. Becomes(t, "publish", job, m, None, s)
        BY <3>1, Starts, StepNames
      <3> QED BY <2>1, <3>2
    <2>2. CASE ~direct
      <3>1. th' = [th EXCEPT ![t] = [Sharing!Idle EXCEPT !.pc = "ensure", !.job = job, !.mesh = m, !.srv = s]]
        BY <1>6, <2>2 DEF Sharing!BeginServing
      <3>2. Becomes(t, "ensure", job, m, None, s)
        BY <3>1, Starts, StepNames
      <3> QED BY <2>2, <3>2
    <2> QED BY <2>1, <2>2
  <1>7. ASSUME Sharing!Register(t) PROVE Goes(t, "publish")
    BY <1>7, Went, StepNames DEF Sharing!Register, Goes
  <1>8. ASSUME Sharing!RegisterFails(t) PROVE Rests(t) \/ Closes(t)
    <2>1. \/ Sharing!Returns(t)
          \/ th' = [th EXCEPT ![t] = [Sharing!Idle EXCEPT !.pc = "closeServer", !.job = "close", !.mesh = th[t].mesh]]
      BY <1>8 DEF Sharing!RegisterFails
    <2> QED BY <2>1, Returned, Starts, StepNames, ThreadFields DEF Rests, Closes
  <1>9. ASSUME Sharing!Publish(t) PROVE IF th[t].job = "serve" THEN Goes(t, "serving") ELSE Rests(t)
    BY <1>9, Went, Returned, StepNames DEF Sharing!Publish, Goes, Rests
  <1>10. ASSUME Sharing!ServeEnds(t) PROVE Goes(t, "closeRunning")
    BY <1>10, Went, StepNames DEF Sharing!ServeEnds, Goes
  <1>11. ASSUME NEW s \in Servers, Sharing!BeginCloseRunning(t, s)
         PROVE  Becomes(t, "closeRunning", "handle", home[s], None, s)
    <2>1. home[s] \in Meshes \cup {None}
      BY DEF Sharing!TypeOK
    <2> QED BY <1>11, <2>1, Starts, StepNames DEF Sharing!BeginCloseRunning
  <1>12. ASSUME NEW m \in Meshes, Sharing!BeginClose(t, m)
         PROVE  Becomes(t, "closeServer", "close", m, None, None)
    BY <1>12, Starts, StepNames DEF Sharing!BeginClose
  <1> QED BY <1>1, <1>2, <1>3, <1>4, <1>5, <1>6, <1>7, <1>8, <1>9, <1>10, <1>11, <1>12

-------------------------------------------------------------------------------
(* Types. *)

RouterTypes ==
    /\ proc \in [Procs -> {"unused", "live", "exited", "reaped"}]
    /\ announced \subseteq Procs /\ meshTold \subseteq Procs
    /\ starter \in [Procs -> Meshes \cup {None}]
    /\ lock \in Threads \cup {None} /\ spawned \in Procs \cup {None} /\ routerRunning \in BOOLEAN

MeshTypes ==
    /\ mounted \in [Meshes -> BOOLEAN] /\ active \in [Meshes -> Servers \cup {None}]
    /\ owns \in [Meshes -> BOOLEAN] /\ hasClient \in [Meshes -> BOOLEAN]
    /\ srv \in [Servers -> {"unused", "made", "open", "closing", "shut", "closed"}]
    /\ home \in [Servers -> Meshes \cup {None}] /\ overlapped \subseteq Meshes

LEMMA TypesApart == Sharing!TypeOK <=> RouterTypes /\ MeshTypes /\ th \in [Threads -> ThreadStates]
  BY DEF Sharing!TypeOK, RouterTypes, MeshTypes, ThreadStates

LEMMA TypesTogether ==
  ASSUME RouterTypes', MeshTypes', th' \in [Threads -> ThreadStates]
  PROVE  Sharing!TypeOK'
  BY DEF Sharing!TypeOK, RouterTypes, MeshTypes, ThreadStates

LEMMA TypesStay ==
  ASSUME Sharing!TypeOK
  PROVE  /\ UNCHANGED Sharing!router => RouterTypes'
         /\ UNCHANGED Sharing!mesh => MeshTypes'
         /\ UNCHANGED th => th' \in [Threads -> ThreadStates]
  BY DEF Sharing!TypeOK, RouterTypes, MeshTypes, ThreadStates, Sharing!router, Sharing!mesh

LEMMA ThreadProc ==
  ASSUME Sharing!TypeOK, ThreadsFit, NEW t \in Threads, th[t].pc \in {"starting", "stopping", "waiting"}
  PROVE  th[t].proc \in Procs
  BY DEF ThreadsFit, Fits

\* Servers in use stay in use, at home.
UsedStays ==
    /\ \A s \in Servers : srv[s] # "unused" => srv'[s] # "unused" /\ home'[s] = home[s]
    /\ \A s \in Servers : srv'[s] # "unused" => srv[s] # "unused" \/ home'[s] \in Meshes

LEMMA HomesKept ==
  ASSUME Sharing!MeshAssumption, Sharing!TypeOK, Homes, UsedStays,
         \A t \in Threads : th'[t].srv # None =>
             th'[t].srv \in Servers /\ (th'[t].srv = th[t].srv \/ srv'[th'[t].srv] # "unused"),
         \A m \in Meshes : active'[m] # None =>
             active'[m] \in Servers /\ (active'[m] = active[m] \/ srv'[active'[m]] # "unused")
  PROVE  Homes'
  <1>1. \A s \in Servers : srv'[s] # "unused" => home'[s] \in Meshes
    BY DEF UsedStays, Homes
  <1>2. \A t \in Threads : th'[t].srv # None => srv'[th'[t].srv] # "unused"
    BY DEF UsedStays, Homes
  <1>3. \A m \in Meshes : active'[m] # None => srv'[active'[m]] # "unused"
    BY DEF UsedStays, Homes
  <1> QED BY <1>1, <1>2, <1>3 DEF Homes

\* The same when the servers do not change and threads take none.
LEMMA HomesStay ==
  ASSUME Sharing!MeshAssumption, Sharing!TypeOK, Homes, UNCHANGED <<srv, home, active>>,
         \A t \in Threads : th'[t].srv \in {None, th[t].srv}
  PROVE  Homes'
  BY DEF Homes

\* One server changes, and the thread that changes it keeps it or lets it go.
LEMMA HomesOfOne ==
  ASSUME Sharing!MeshAssumption, Sharing!TypeOK, Homes, NEW s \in Servers, NEW x, x # "unused", srv[s] # "unused",
         srv' = [srv EXCEPT ![s] = x], UNCHANGED home,
         \A t \in Threads : th'[t].srv \in {None, th[t].srv},
         \A m \in Meshes : active'[m] \in {None, active[m], s}
  PROVE  Homes'
  <1>1. UsedStays
    BY DEF UsedStays, Sharing!TypeOK
  <1>2. \A t \in Threads : th[t].srv \in Servers \cup {None}
    BY ThreadFields
  <1>3. \A m \in Meshes : active[m] \in Servers \cup {None}
    BY DEF Sharing!TypeOK
  <1>4. srv'[s] # "unused"
    BY DEF Sharing!TypeOK
  <1> QED BY <1>1, <1>2, <1>3, <1>4, HomesKept

LEMMA SrvOf ==
  ASSUME NEW t, NEW step, NEW job, NEW m, NEW p, NEW s, s \in {None, th[t].srv},
         Becomes(t, step, job, m, p, s)
  PROVE  \A u \in Threads : th'[u].srv \in {None, th[u].srv}
  BY DEF Becomes

LEMMA MovesOf ==
  ASSUME NEW t, NEW step, Goes(t, step) \/ Rests(t) \/ Closes(t)
  PROVE  /\ th' \in [Threads -> ThreadStates]
         /\ \A u \in Threads : th'[u].srv \in {None, th[u].srv}
  BY DEF Goes, Rests, Closes, Becomes

LEMMA StartingTypes ==
  ASSUME Sharing!MeshAssumption, Sharing!TypeOK, ThreadsFit, Homes, NEW t \in Threads,
         Sharing!Starting(t) \/ Sharing!SpawnCancelled(t)
  PROVE  Sharing!TypeOK' /\ Homes'
  <1>f. ASSUME Sharing!StartFails(t), Rests(t) PROVE MeshTypes' /\ Homes' /\ th' \in [Threads -> ThreadStates]
    <2>1. srv' \in [Servers -> {"unused", "made", "open", "closing", "shut", "closed"}]
      BY <1>f DEF Sharing!StartFails, Sharing!TypeOK
    <2>2. MeshTypes'
      BY <1>f, <2>1 DEF Sharing!StartFails, Sharing!TypeOK, MeshTypes
    <2>3. /\ th' \in [Threads -> ThreadStates]
          /\ \A u \in Threads : th'[u].srv \in {None, th[u].srv}
      BY <1>f, MovesOf
    <2>4. CASE th[t].srv = None
      BY <1>f, <2>2, <2>3, <2>4, HomesStay DEF Sharing!StartFails
    <2>5. CASE th[t].srv # None
      <3>1. th[t].srv \in Servers /\ srv[th[t].srv] # "unused"
        BY <2>5, ThreadFields DEF Homes
      <3>2. \A m \in Meshes : active'[m] = active[m]
        BY <1>f DEF Sharing!StartFails
      <3> QED BY <1>f, <2>2, <2>3, <2>5, <3>1, <3>2, HomesOfOne DEF Sharing!StartFails
    <2> QED BY <2>4, <2>5
  <1>1. CASE Sharing!EnsureRunning(t) \/ Sharing!StartFindsRunning(t)
    <2>1. Goes(t, "ready") \/ Goes(t, "locking") \/ Goes(t, "own")
      BY <1>1, StartingMoves
    <2>2. UNCHANGED <<Sharing!router, Sharing!mesh>>
      BY <1>1 DEF Sharing!EnsureRunning, Sharing!StartFindsRunning
    <2> QED BY <2>1, <2>2, MovesOf, TypesStay, TypesTogether, HomesStay DEF Sharing!mesh
  <1>2. ASSUME NEW p \in Procs, Sharing!Spawn(t, p) PROVE Sharing!TypeOK' /\ Homes'
    <2>1. Becomes(t, "starting", th[t].job, th[t].mesh, p, th[t].srv)
      BY <1>2, StartingMoves
    <2>2. th' \in [Threads -> ThreadStates] /\ \A u \in Threads : th'[u].srv \in {None, th[u].srv}
      BY <2>1, SrvOf DEF Becomes
    <2>3. RouterTypes'
      BY <1>2, ThreadFields DEF Sharing!Spawn, Sharing!TypeOK, RouterTypes
    <2>4. UNCHANGED Sharing!mesh
      BY <1>2 DEF Sharing!Spawn
    <2> QED BY <2>2, <2>3, <2>4, TypesStay, TypesTogether, HomesStay DEF Sharing!mesh
  <1>3. CASE Sharing!SpawnReady(t)
    <2>1. Becomes(t, "own", th[t].job, th[t].mesh, None, th[t].srv)
      BY <1>3, StartingMoves
    <2>2. th' \in [Threads -> ThreadStates] /\ \A u \in Threads : th'[u].srv \in {None, th[u].srv}
      BY <2>1, SrvOf DEF Becomes
    <2>3. RouterTypes'
      BY <1>3, ThreadFields DEF Sharing!SpawnReady, Sharing!Release, Sharing!TypeOK, RouterTypes
    <2>4. UNCHANGED Sharing!mesh
      BY <1>3 DEF Sharing!SpawnReady
    <2> QED BY <2>2, <2>3, <2>4, TypesStay, TypesTogether, HomesStay DEF Sharing!mesh
  <1>4. CASE Sharing!SpawnFails(t) \/ Sharing!SpawnExited(t) \/ Sharing!SpawnCancelled(t)
    <2>1. Sharing!StartFails(t) /\ Rests(t)
      BY <1>4, StartingMoves DEF Sharing!SpawnFails, Sharing!SpawnExited, Sharing!SpawnCancelled
    <2>2. RouterTypes'
      <3>1. CASE Sharing!SpawnFails(t)
        BY <3>1, TypesStay DEF Sharing!SpawnFails
      <3>2. CASE Sharing!SpawnExited(t) \/ Sharing!SpawnCancelled(t)
        <4>1. th[t].proc \in Procs
          BY <3>2, ThreadProc DEF Sharing!SpawnExited, Sharing!SpawnCancelled, Sharing!At
        <4> QED BY <3>2, <4>1 DEF Sharing!SpawnExited, Sharing!SpawnCancelled, Sharing!Release,
                   Sharing!TypeOK, RouterTypes
      <3> QED BY <1>4, <3>1, <3>2
    <2> QED BY <1>f, <2>1, <2>2, TypesTogether
  <1>5. CASE Sharing!Own(t)
    <2>1. Rests(t) \/ Goes(t, "ready")
      BY <1>5, StartingMoves
    <2>2. UNCHANGED Sharing!router /\ UNCHANGED <<srv, home, active>>
      BY <1>5 DEF Sharing!Own
    <2>3. MeshTypes'
      BY <1>5 DEF Sharing!Own, Sharing!TypeOK, MeshTypes
    <2> QED BY <2>1, <2>2, <2>3, MovesOf, TypesStay, TypesTogether, HomesStay
  <1> QED BY <1>1, <1>2, <1>3, <1>4, <1>5 DEF Sharing!Starting
LEMMA EndingTypes ==
  ASSUME Sharing!MeshAssumption, Sharing!TypeOK, ThreadsFit, Homes, NEW t \in Threads,
         Sharing!Ending(t) \/ Sharing!ServeEnds(t)
  PROVE  Sharing!TypeOK' /\ Homes'
  <1>1. CASE Sharing!StopTakes(t)
    <2>1. Rests(t) \/ Becomes(t, "stopping", th[t].job, th[t].mesh, spawned, th[t].srv)
      BY <1>1, StoppingMoves
    <2>2. th' \in [Threads -> ThreadStates] /\ \A u \in Threads : th'[u].srv \in {None, th[u].srv}
      BY <2>1, MovesOf, SrvOf DEF Becomes
    <2>3. RouterTypes' /\ UNCHANGED Sharing!mesh
      BY <1>1 DEF Sharing!StopTakes, Sharing!TypeOK, RouterTypes
    <2> QED BY <2>2, <2>3, TypesStay, TypesTogether, HomesStay DEF Sharing!mesh
  <1>2. CASE Sharing!StopTells(t) \/ Sharing!StopReturns(t)
    <2>1. Goes(t, "waiting") \/ Rests(t)
      BY <1>2, StoppingMoves
    <2>2. th[t].proc \in Procs
      BY <1>2, ThreadProc DEF Sharing!StopTells, Sharing!StopReturns, Sharing!At
    <2>3. RouterTypes' /\ UNCHANGED Sharing!mesh
      BY <1>2, <2>2 DEF Sharing!StopTells, Sharing!StopReturns, Sharing!TypeOK, RouterTypes
    <2> QED BY <2>1, <2>3, MovesOf, TypesStay, TypesTogether, HomesStay DEF Sharing!mesh
  <1>3. CASE Sharing!CloseFirst(t) \/ Sharing!Drained(t) \/ Sharing!OnClose(t)
    <2>1. Goes(t, "draining") \/ Goes(t, "onClose") \/ Goes(t, "afterClose")
      BY <1>3, StoppingMoves
    <2>2. /\ th' \in [Threads -> ThreadStates]
          /\ \A u \in Threads : th'[u].srv \in {None, th[u].srv}
      BY <2>1, MovesOf
    <2>3. th[t].srv \in Servers /\ srv[th[t].srv] # "unused"
      <3>1. th[t].pc \in ServerAt
        BY <1>3 DEF Sharing!CloseFirst, Sharing!Drained, Sharing!OnClose, Sharing!At, ServerAt
      <3>2. th[t].srv \in Servers
        BY <3>1 DEF ThreadsFit, Fits
      <3> QED BY <3>2 DEF Homes, Sharing!MeshAssumption
    <2>4. PICK x \in {"closing", "shut", "closed"} : srv' = [srv EXCEPT ![th[t].srv] = x]
      BY <1>3 DEF Sharing!CloseFirst, Sharing!Drained, Sharing!OnClose
    <2>5. /\ UNCHANGED <<Sharing!router, home, overlapped, mounted, owns, hasClient>>
          /\ active' = active \/ active' = [active EXCEPT ![th[t].mesh] = None]
      BY <1>3 DEF Sharing!CloseFirst, Sharing!Drained, Sharing!OnClose
    <2>6. \A m \in Meshes : active'[m] \in {None, active[m], th[t].srv}
      BY <2>5 DEF Sharing!TypeOK
    <2>7. MeshTypes'
      BY <2>4, <2>5 DEF Sharing!TypeOK, MeshTypes
    <2>8. Homes'
      BY <2>2, <2>3, <2>4, <2>5, <2>6, HomesOfOne
    <2> QED BY <2>2, <2>5, <2>7, <2>8, TypesStay, TypesTogether
  <1>4. CASE Sharing!CloseWaits(t) \/ Sharing!AfterClose(t) \/ Sharing!ServeEnds(t)
    <2>1. \/ Goes(t, "afterClose") \/ Goes(t, "release") \/ Goes(t, "closeRunning") \/ Closes(t)
          \/ Rests(t)
      BY <1>4, StoppingMoves, UsingMoves
    <2>2. UNCHANGED <<Sharing!router, Sharing!mesh>>
      BY <1>4 DEF Sharing!CloseWaits, Sharing!AfterClose, Sharing!ServeEnds
    <2> QED BY <2>1, <2>2, MovesOf, TypesStay, TypesTogether, HomesStay DEF Sharing!mesh
  <1>5. CASE Sharing!TakeServer(t)
    <2>1. PICK step : Becomes(t, step, th[t].job, th[t].mesh, th[t].proc, active[th[t].mesh])
      BY <1>5, StoppingMoves
    <2>2. /\ active' = [active EXCEPT ![th[t].mesh] = None]
          /\ UNCHANGED <<Sharing!router, mounted, owns, hasClient, srv, home>>
      BY <1>5 DEF Sharing!TakeServer
    <2>3. MeshTypes' /\ th[t].mesh \in Meshes
      BY <1>5, <2>2 DEF Sharing!TypeOK, MeshTypes, ThreadsFit, Fits, Sharing!TakeServer,
         Sharing!At
    <2>4. UsedStays
      BY <2>2 DEF UsedStays
    <2>5. \A m \in Meshes : active'[m] \in {None, active[m]}
      BY <2>2 DEF Sharing!TypeOK
    <2>6. \A m \in Meshes : active[m] \in Servers \cup {None}
      BY DEF Sharing!TypeOK
    <2>7. active[th[t].mesh] # None => srv'[active[th[t].mesh]] # "unused"
      BY <2>2, <2>3 DEF Homes
    <2>8. \A u \in Threads : th'[u].srv = th[u].srv \/ (u = t /\ th'[u].srv = active[th[t].mesh])
      BY <2>1 DEF Becomes
    <2>9. \A u \in Threads : th[u].srv \in Servers \cup {None}
      BY ThreadFields
    <2>10. Homes'
      BY <2>3, <2>4, <2>5, <2>6, <2>7, <2>8, <2>9, HomesKept
    <2> QED BY <2>1, <2>2, <2>3, <2>10, TypesStay, TypesTogether DEF Becomes
  <1>6. CASE Sharing!ReleaseRouter(t)
    <2>1. Rests(t) \/ Becomes(t, "stop", th[t].job, th[t].mesh, th[t].proc, None)
      BY <1>6, StoppingMoves
    <2>2. th' \in [Threads -> ThreadStates] /\ \A u \in Threads : th'[u].srv \in {None, th[u].srv}
      BY <2>1, MovesOf, SrvOf DEF Becomes
    <2>3. MeshTypes' /\ UNCHANGED <<srv, home, active>> /\ UNCHANGED Sharing!router
      BY <1>6 DEF Sharing!ReleaseRouter, Sharing!TypeOK, MeshTypes
    <2> QED BY <2>2, <2>3, TypesStay, TypesTogether, HomesStay
  <1> QED BY <1>1, <1>2, <1>3, <1>4, <1>5, <1>6 DEF Sharing!Ending

LEMMA UsingTypes ==
  ASSUME Sharing!MeshAssumption, Sharing!TypeOK, ThreadsFit, Homes, NEW t \in Threads,
         Sharing!Using(t) \/ Sharing!Begin(t)
  PROVE  Sharing!TypeOK' /\ Homes'
  <1>1. CASE Sharing!NewClient(t) \/ Sharing!Connected(t) \/ Sharing!ConnectFails(t)
    <2>1. Goes(t, "dialing") \/ Rests(t)
      BY <1>1, UsingMoves
    <2>2. UNCHANGED Sharing!router /\ UNCHANGED <<srv, home, active>>
      BY <1>1 DEF Sharing!NewClient, Sharing!Connected, Sharing!ConnectFails, Sharing!mesh
    <2>3. MeshTypes'
      BY <1>1 DEF Sharing!NewClient, Sharing!Connected, Sharing!ConnectFails, Sharing!mesh,
         Sharing!TypeOK, MeshTypes
    <2> QED BY <2>1, <2>2, <2>3, MovesOf, TypesStay, TypesTogether, HomesStay
  <1>2. CASE Sharing!Register(t) \/ Sharing!RegisterFails(t)
    <2>1. Goes(t, "publish") \/ Rests(t) \/ Closes(t)
      BY <1>2, UsingMoves
    <2>2. /\ th' \in [Threads -> ThreadStates]
          /\ \A u \in Threads : th'[u].srv \in {None, th[u].srv}
      BY <2>1, MovesOf
    <2>3. th[t].srv \in Servers /\ srv[th[t].srv] # "unused"
      BY <1>2, ThreadFields DEF Sharing!Register, Sharing!RegisterFails, Homes
    <2>4. PICK x \in {"open", "closed"} : srv' = [srv EXCEPT ![th[t].srv] = x]
      BY <1>2 DEF Sharing!Register, Sharing!RegisterFails
    <2>5. UNCHANGED <<Sharing!router, home, overlapped, mounted, owns, hasClient, active>>
      BY <1>2 DEF Sharing!Register, Sharing!RegisterFails
    <2>7. MeshTypes'
      BY <2>4, <2>5 DEF Sharing!TypeOK, MeshTypes
    <2>8. Homes'
      BY <2>2, <2>3, <2>4, <2>5, HomesOfOne
    <2> QED BY <2>2, <2>5, <2>7, <2>8, TypesStay, TypesTogether
  <1>3. CASE Sharing!Publish(t)
    <2>1. Goes(t, "serving") \/ Rests(t)
      BY <1>3, UsingMoves
    <2>2. /\ active' = [active EXCEPT ![th[t].mesh] = th[t].srv]
          /\ UNCHANGED <<Sharing!router, mounted, owns, hasClient, srv, home, overlapped>>
      BY <1>3 DEF Sharing!Publish
    <2>3. /\ th' \in [Threads -> ThreadStates]
          /\ \A u \in Threads : th'[u].srv \in {None, th[u].srv}
      BY <2>1, MovesOf
    <2>4. \A u \in Threads : th[u].srv \in Servers \cup {None}
      BY ThreadFields
    <2>5. MeshTypes'
      BY <2>2, <2>4 DEF Sharing!TypeOK, MeshTypes
    <2>6. UsedStays
      BY <2>2 DEF UsedStays
    <2>7. \A m \in Meshes : active'[m] \in {active[m], th[t].srv} /\ active[m] \in Servers \cup {None}
      BY <2>2 DEF Sharing!TypeOK
    <2>8. th[t].srv # None => srv'[th[t].srv] # "unused"
      BY <2>2 DEF Homes
    <2>9. Homes'
      BY <2>3, <2>4, <2>6, <2>7, <2>8, HomesKept
    <2> QED BY <2>2, <2>3, <2>5, <2>9, TypesStay, TypesTogether
  <1>4. ASSUME \/ Sharing!BeginStart(t) \/ Sharing!BeginStop(t)
               \/ \E m \in Meshes : Sharing!BeginConnect(t, m) \/ Sharing!BeginClose(t, m)
        PROVE  Sharing!TypeOK' /\ Homes'
    <2>1. \E step, job, m : Becomes(t, step, job, m, None, None)
      BY <1>4, UsingMoves
    <2>2. th' \in [Threads -> ThreadStates] /\ \A u \in Threads : th'[u].srv \in {None, th[u].srv}
      BY <2>1, SrvOf DEF Becomes
    <2>3. UNCHANGED <<Sharing!router, Sharing!mesh>>
      <3>1. CASE Sharing!BeginStart(t) \/ Sharing!BeginStop(t)
        BY <3>1 DEF Sharing!BeginStart, Sharing!BeginStop
      <3>2. CASE \E m \in Meshes : Sharing!BeginConnect(t, m) \/ Sharing!BeginClose(t, m)
        BY <3>2 DEF Sharing!BeginConnect, Sharing!BeginClose
      <3> QED BY <1>4, <3>1, <3>2
    <2> QED BY <2>2, <2>3, TypesStay, TypesTogether, HomesStay DEF Sharing!mesh
  <1>5. ASSUME NEW m \in Meshes, Sharing!EnsureCaller(t, m) \/ Sharing!Mount(t, m) PROVE Sharing!TypeOK' /\ Homes'
    <2>1. UNCHANGED <<Sharing!router, th, srv, home, active, owns>>
      BY <1>5 DEF Sharing!EnsureCaller, Sharing!Mount
    <2>2. MeshTypes'
      BY <1>5 DEF Sharing!EnsureCaller, Sharing!Mount, Sharing!TypeOK, MeshTypes
    <2> QED BY <2>1, <2>2, TypesStay, TypesTogether, HomesStay
  <1>6. ASSUME NEW m \in Meshes, NEW s \in Servers, NEW job \in {"start", "serve"},
               NEW direct \in BOOLEAN, Sharing!BeginServing(t, m, s, job, direct)
        PROVE  Sharing!TypeOK' /\ Homes'
    <2>1. Becomes(t, IF direct THEN "publish" ELSE "ensure", job, m, None, s)
      BY <1>6, UsingMoves
    <2>2. /\ srv[s] = "unused" /\ srv' = [srv EXCEPT ![s] = IF direct THEN "open" ELSE "made"]
          /\ home' = [home EXCEPT ![s] = m]
          /\ UNCHANGED <<Sharing!router, mounted, active, owns, hasClient>>
          /\ overlapped' \subseteq overlapped \cup {m}
      BY <1>6 DEF Sharing!BeginServing
    <2>3. MeshTypes'
      BY <2>2 DEF Sharing!TypeOK, MeshTypes
    <2>4. UsedStays
      BY <2>2 DEF UsedStays, Sharing!TypeOK
    <2>5. srv'[s] # "unused"
      BY <2>2 DEF Sharing!TypeOK
    <2>6. \A u \in Threads : th[u].srv \in Servers \cup {None}
      BY ThreadFields
    <2>7. \A u \in Threads : th'[u].srv = th[u].srv \/ (u = t /\ th'[u].srv = s)
      BY <2>1 DEF Becomes
    <2>8. \A k \in Meshes : active'[k] = active[k] /\ active[k] \in Servers \cup {None}
      BY <2>2 DEF Sharing!TypeOK
    <2>9. Homes'
      BY <2>4, <2>5, <2>6, <2>7, <2>8, HomesKept
    <2> QED BY <2>1, <2>2, <2>3, <2>9, TypesStay, TypesTogether DEF Becomes
  <1>7. ASSUME NEW s \in Servers, Sharing!BeginCloseRunning(t, s) PROVE Sharing!TypeOK' /\ Homes'
    <2>1. Becomes(t, "closeRunning", "handle", home[s], None, s)
      BY <1>7, UsingMoves
    <2>2. UNCHANGED <<Sharing!router, Sharing!mesh>> /\ srv[s] = "open"
      BY <1>7 DEF Sharing!BeginCloseRunning
    <2>3. UsedStays /\ srv'[s] # "unused"
      BY <2>2 DEF UsedStays, Sharing!mesh
    <2>4. \A u \in Threads : th[u].srv \in Servers \cup {None}
      BY ThreadFields
    <2>5. \A u \in Threads : th'[u].srv = th[u].srv \/ (u = t /\ th'[u].srv = s)
      BY <2>1 DEF Becomes
    <2>6. \A k \in Meshes : active'[k] = active[k] /\ active[k] \in Servers \cup {None}
      BY <2>2 DEF Sharing!TypeOK, Sharing!mesh
    <2>7. Homes'
      BY <2>3, <2>4, <2>5, <2>6, HomesKept
    <2> QED BY <2>1, <2>2, <2>7, TypesStay, TypesTogether DEF Becomes
  <1> QED BY <1>1, <1>2, <1>3, <1>4, <1>5, <1>6, <1>7 DEF Sharing!Using, Sharing!Begin

LEMMA ProcessTypes ==
  ASSUME Sharing!MeshAssumption, Sharing!TypeOK, Homes,
         UNCHANGED Sharing!vars \/ \E p \in Procs : Sharing!Announce(p) \/ Sharing!Exit(p) \/ Sharing!ReaderReaps(p)
  PROVE  Sharing!TypeOK' /\ Homes'
  <1>1. UNCHANGED <<Sharing!mesh, th>>
    BY DEF Sharing!vars, Sharing!Announce, Sharing!Exit, Sharing!ReaderReaps
  <1>2. RouterTypes'
    BY DEF Sharing!vars, Sharing!router, Sharing!Announce, Sharing!Exit, Sharing!ReaderReaps,
       Sharing!TypeOK, RouterTypes
  <1>3. \A u \in Threads : th'[u].srv \in {None, th[u].srv}
    BY <1>1
  <1> QED BY <1>1, <1>2, <1>3, TypesStay, TypesTogether, HomesStay DEF Sharing!mesh

LEMMA MeshTypesStep ==
  ASSUME Sharing!MeshAssumption, Sharing!TypeOK, ThreadsFit, Homes, [Sharing!Next]_Sharing!vars
  PROVE  Sharing!TypeOK' /\ Homes'
  BY StartingTypes, EndingTypes, UsingTypes, ProcessTypes DEF Sharing!Next

LEMMA FitsKept ==
  ASSUME ThreadsFit, NEW t \in Threads, NEW step, NEW job, NEW m, NEW p, NEW s,
         Becomes(t, step, job, m, p, s), Fits(step, job, m, p, s)
  PROVE  ThreadsFit'
  BY DEF ThreadsFit, Becomes

LEMMA RestsFit == Fits("idle", "none", None, None, None)
  BY DEF Fits, Early, ServerAt, NoServerAt

LEMMA ClosesFit == ASSUME NEW m \in Meshes PROVE Fits("closeServer", "close", m, None, None)
  BY DEF Fits, Early, ServerAt, NoServerAt

LEMMA ThreadsFitStep ==
  ASSUME Sharing!MeshAssumption, Sharing!TypeOK, ThreadsFit, Homes, [Sharing!Next]_Sharing!vars
  PROVE  ThreadsFit'
  <1>u. ASSUME UNCHANGED th PROVE ThreadsFit'
    BY <1>u DEF ThreadsFit
  <1>r. ASSUME NEW t \in Threads, Rests(t) PROVE ThreadsFit'
    BY <1>r, RestsFit, FitsKept DEF Rests
  <1>g. ASSUME NEW t \in Threads, NEW step, Goes(t, step),
               Fits(th[t].pc, th[t].job, th[t].mesh, th[t].proc, th[t].srv) =>
                 Fits(step, th[t].job, th[t].mesh, th[t].proc, th[t].srv)
        PROVE  ThreadsFit'
    <2>1. Fits(th[t].pc, th[t].job, th[t].mesh, th[t].proc, th[t].srv)
      BY <1>g DEF ThreadsFit
    <2> QED BY <1>g, <2>1, FitsKept DEF Goes
  <1>f. ASSUME NEW t \in Threads
        PROVE  Fits(th[t].pc, th[t].job, th[t].mesh, th[t].proc, th[t].srv)
    BY DEF ThreadsFit
  <1>1. ASSUME NEW t \in Threads, Sharing!Starting(t) \/ Sharing!SpawnCancelled(t) PROVE ThreadsFit'
    <2>1. CASE Sharing!EnsureRunning(t)
      <3>1. Sharing!At(t, "ensure") /\ (Goes(t, "ready") \/ Goes(t, "locking"))
        BY <2>1, StartingMoves DEF Sharing!EnsureRunning
      <3> QED BY <3>1, <1>g DEF Sharing!At, Fits, Early, ServerAt, NoServerAt
    <2>2. CASE Sharing!StartFindsRunning(t)
      <3>1. Sharing!At(t, "locking") /\ Goes(t, "own")
        BY <2>2, StartingMoves DEF Sharing!StartFindsRunning
      <3> QED BY <3>1, <1>g DEF Sharing!At, Fits, Early, ServerAt, NoServerAt
    <2>3. ASSUME NEW p \in Procs, Sharing!Spawn(t, p) PROVE ThreadsFit'
      <3>1. Sharing!At(t, "locking") /\ Becomes(t, "starting", th[t].job, th[t].mesh, p, th[t].srv)
        BY <2>3, StartingMoves DEF Sharing!Spawn
      <3>2. Fits("starting", th[t].job, th[t].mesh, p, th[t].srv)
        BY <3>1, <1>f DEF Sharing!At, Fits, Early, ServerAt, NoServerAt
      <3> QED BY <3>1, <3>2, FitsKept
    <2>4. CASE Sharing!SpawnReady(t)
      <3>1. Sharing!At(t, "starting") /\ Becomes(t, "own", th[t].job, th[t].mesh, None, th[t].srv)
        BY <2>4, StartingMoves DEF Sharing!SpawnReady
      <3>2. Fits("own", th[t].job, th[t].mesh, None, th[t].srv)
        BY <3>1, <1>f DEF Sharing!At, Fits, Early, ServerAt, NoServerAt
      <3> QED BY <3>1, <3>2, FitsKept
    <2>5. CASE Sharing!SpawnFails(t) \/ Sharing!SpawnExited(t) \/ Sharing!SpawnCancelled(t)
      BY <2>5, <1>r, StartingMoves
    <2>6. CASE Sharing!Own(t)
      <3>1. Sharing!At(t, "own") /\ (Rests(t) \/ Goes(t, "ready"))
        BY <2>6, StartingMoves DEF Sharing!Own
      <3> QED BY <3>1, <1>r, <1>g DEF Sharing!At, Fits, Early, ServerAt, NoServerAt
    <2> QED BY <1>1, <2>1, <2>2, <2>3, <2>4, <2>5, <2>6 DEF Sharing!Starting
  <1>2. ASSUME NEW t \in Threads, Sharing!Ending(t) \/ Sharing!ServeEnds(t) PROVE ThreadsFit'
    <2>1. CASE Sharing!StopTakes(t)
      <3>1. /\ Sharing!At(t, "stop")
            /\ IF spawned = None THEN Rests(t)
               ELSE Becomes(t, "stopping", th[t].job, th[t].mesh, spawned, th[t].srv)
        BY <2>1, StoppingMoves DEF Sharing!StopTakes
      <3>2. spawned # None => Fits("stopping", th[t].job, th[t].mesh, spawned, th[t].srv)
        BY <3>1, <1>f DEF Sharing!At, Fits, Early, ServerAt, NoServerAt, Sharing!TypeOK
      <3> QED BY <3>1, <3>2, <1>r, FitsKept
    <2>2. CASE Sharing!StopTells(t)
      <3>1. Sharing!At(t, "stopping") /\ Goes(t, "waiting")
        BY <2>2, StoppingMoves DEF Sharing!StopTells
      <3> QED BY <3>1, <1>g DEF Sharing!At, Fits, Early, ServerAt, NoServerAt
    <2>3. CASE Sharing!StopReturns(t)
      BY <2>3, <1>r, StoppingMoves
    <2>4. CASE Sharing!CloseFirst(t) \/ Sharing!Drained(t) \/ Sharing!OnClose(t) \/ Sharing!CloseWaits(t)
      <3>1. /\ th[t].pc \in {"closeRunning", "draining", "onClose"}
            /\ Goes(t, "draining") \/ Goes(t, "onClose") \/ Goes(t, "afterClose")
        BY <2>4, StoppingMoves DEF Sharing!CloseFirst, Sharing!Drained, Sharing!OnClose,
           Sharing!CloseWaits, Sharing!At
      <3> QED BY <3>1, <1>g DEF Sharing!At, Fits, Early, ServerAt, NoServerAt
    <2>5. CASE Sharing!AfterClose(t)
      <3>1. /\ Sharing!At(t, "afterClose")
            /\ \/ th[t].job = "close" /\ Goes(t, "release")
               \/ th[t].job = "serve" /\ Closes(t)
               \/ Rests(t)
        <4>1. Sharing!At(t, "afterClose")
          BY <2>5, Zenon DEF Sharing!AfterClose
        <4> QED BY <2>5, <4>1, StoppingMoves
      <3>2. ASSUME th[t].job = "close", Goes(t, "release") PROVE ThreadsFit'
        BY <3>1, <3>2, <1>g DEF Sharing!At, Fits, Early, ServerAt, NoServerAt
      <3>3. ASSUME th[t].job = "serve", Closes(t) PROVE ThreadsFit'
        <4>1. th[t].mesh \in Meshes
          BY <3>1, <3>3, <1>f DEF Sharing!At, Fits
        <4> QED BY <3>3, <4>1, ClosesFit, FitsKept DEF Closes
      <3> QED BY <3>1, <3>2, <3>3, <1>r
    <2>6. CASE Sharing!TakeServer(t)
      <3>1. /\ Sharing!At(t, "closeServer")
            /\ \/ Becomes(t, "release", th[t].job, th[t].mesh, th[t].proc, None)
               \/ /\ active[th[t].mesh] \in Servers
                  /\ Becomes(t, "closeRunning", th[t].job, th[t].mesh, th[t].proc, active[th[t].mesh])
        BY <2>6, StoppingMoves DEF Sharing!TakeServer
      <3>2. Fits("release", th[t].job, th[t].mesh, th[t].proc, None)
        BY <3>1, <1>f DEF Sharing!At, Fits, Early, ServerAt, NoServerAt
      <3>3. active[th[t].mesh] \in Servers =>
              Fits("closeRunning", th[t].job, th[t].mesh, th[t].proc, active[th[t].mesh])
        BY <3>1, <1>f DEF Sharing!At, Fits, Early, ServerAt, NoServerAt
      <3> QED BY <3>1, <3>2, <3>3, FitsKept
    <2>7. CASE Sharing!ReleaseRouter(t)
      <3>1. /\ Sharing!At(t, "release")
            /\ Rests(t) \/ Becomes(t, "stop", th[t].job, th[t].mesh, th[t].proc, None)
        BY <2>7, StoppingMoves DEF Sharing!ReleaseRouter
      <3>2. Fits("stop", th[t].job, th[t].mesh, th[t].proc, None)
        BY <3>1, <1>f DEF Sharing!At, Fits, Early, ServerAt, NoServerAt
      <3> QED BY <3>1, <3>2, <1>r, FitsKept
    <2>8. CASE Sharing!ServeEnds(t)
      <3>1. Sharing!At(t, "serving") /\ Goes(t, "closeRunning")
        BY <2>8, UsingMoves DEF Sharing!ServeEnds
      <3> QED BY <3>1, <1>g DEF Sharing!At, Fits, Early, ServerAt, NoServerAt
    <2> QED BY <1>2, <2>1, <2>2, <2>3, <2>4, <2>5, <2>6, <2>7, <2>8 DEF Sharing!Ending
  <1>3. ASSUME NEW t \in Threads, Sharing!Using(t) PROVE ThreadsFit'
    <2>1. CASE Sharing!NewClient(t)
      <3>1. Sharing!At(t, "ready") /\ th[t].job = "connect" /\ Goes(t, "dialing")
        BY <2>1, UsingMoves DEF Sharing!NewClient
      <3> QED BY <3>1, <1>g DEF Sharing!At, Fits, Early, ServerAt, NoServerAt
    <2>2. CASE Sharing!Connected(t) \/ Sharing!ConnectFails(t)
      BY <2>2, <1>r, UsingMoves
    <2>3. CASE Sharing!Register(t)
      <3>1. Sharing!At(t, "ready") /\ th[t].srv # None /\ Goes(t, "publish")
        BY <2>3, UsingMoves DEF Sharing!Register
      <3> QED BY <3>1, <1>g DEF Sharing!At, Fits, Early, ServerAt, NoServerAt
    <2>4. CASE Sharing!RegisterFails(t)
      <3>1. Sharing!At(t, "ready") /\ th[t].srv # None /\ (Rests(t) \/ Closes(t))
        <4>1. Sharing!At(t, "ready") /\ th[t].srv # None
          BY <2>4, Zenon DEF Sharing!RegisterFails
        <4> QED BY <2>4, <4>1, UsingMoves
      <3>2. th[t].mesh \in Meshes
        BY <3>1, <1>f DEF Sharing!At, Fits
      <3> QED BY <3>1, <3>2, <1>r, ClosesFit, FitsKept DEF Closes
    <2>5. CASE Sharing!Publish(t)
      <3>1. Sharing!At(t, "publish") /\ (IF th[t].job = "serve" THEN Goes(t, "serving") ELSE Rests(t))
        BY <2>5, UsingMoves DEF Sharing!Publish
      <3> QED BY <3>1, <1>r, <1>g DEF Sharing!At, Fits, Early, ServerAt, NoServerAt
    <2> QED BY <1>3, <2>1, <2>2, <2>3, <2>4, <2>5 DEF Sharing!Using
  <1>4. ASSUME NEW t \in Threads, Sharing!Begin(t) PROVE ThreadsFit'
    <2>1. CASE Sharing!BeginStart(t) \/ Sharing!BeginStop(t)
      <3>1. \/ Becomes(t, "locking", "router", None, None, None)
            \/ Becomes(t, "stop", "router", None, None, None)
        BY <2>1, UsingMoves
      <3>2. Fits("locking", "router", None, None, None) /\ Fits("stop", "router", None, None, None)
        BY DEF Fits, Early, ServerAt, NoServerAt
      <3> QED BY <3>1, <3>2, FitsKept
    <2>2. ASSUME NEW m \in Meshes, Sharing!BeginConnect(t, m) \/ Sharing!BeginClose(t, m) PROVE ThreadsFit'
      <3>1. \/ Becomes(t, "ensure", "connect", m, None, None)
            \/ Becomes(t, "closeServer", "close", m, None, None)
        BY <2>2, UsingMoves
      <3>2. Fits("ensure", "connect", m, None, None)
        BY DEF Fits, Early, ServerAt, NoServerAt
      <3> QED BY <3>1, <3>2, ClosesFit, FitsKept
    <2>3. ASSUME NEW m \in Meshes, Sharing!EnsureCaller(t, m) \/ Sharing!Mount(t, m) PROVE ThreadsFit'
      BY <2>3, <1>u DEF Sharing!EnsureCaller, Sharing!Mount
    <2>4. ASSUME NEW m \in Meshes, NEW s \in Servers, NEW job \in {"start", "serve"},
                 NEW direct \in BOOLEAN, Sharing!BeginServing(t, m, s, job, direct)
          PROVE  ThreadsFit'
      <3>1. Becomes(t, IF direct THEN "publish" ELSE "ensure", job, m, None, s)
        BY <2>4, UsingMoves
      <3>2. Fits("publish", job, m, None, s) /\ Fits("ensure", job, m, None, s)
        BY DEF Fits, Early, ServerAt, NoServerAt
      <3> QED BY <3>1, <3>2, FitsKept
    <2>5. ASSUME NEW s \in Servers, Sharing!BeginCloseRunning(t, s) PROVE ThreadsFit'
      <3>1. Becomes(t, "closeRunning", "handle", home[s], None, s)
        BY <2>5, UsingMoves
      <3>2. home[s] \in Meshes
        BY <2>5 DEF Sharing!BeginCloseRunning, Homes
      <3>3. Fits("closeRunning", "handle", home[s], None, s)
        BY <3>2 DEF Fits, Early, ServerAt, NoServerAt
      <3> QED BY <3>1, <3>3, FitsKept
    <2> QED BY <1>4, <2>1, <2>2, <2>3, <2>4, <2>5 DEF Sharing!Begin
  <1>5. ASSUME UNCHANGED Sharing!vars \/ \E p \in Procs : Sharing!Announce(p) \/ Sharing!Exit(p) \/ Sharing!ReaderReaps(p)
        PROVE  ThreadsFit'
    BY <1>5, <1>u DEF Sharing!vars, Sharing!Announce, Sharing!Exit, Sharing!ReaderReaps
  <1> QED BY <1>1, <1>2, <1>3, <1>4, <1>5 DEF Sharing!Next

-------------------------------------------------------------------------------
(* The subprocess and its owner. *)

Routed == RouterInv /\ Sharing!NoOrphanProcess /\ OwnerInv

\* A step of a thread that neither starts, owns nor stops a process.
LEMMA RoutedKept ==
  ASSUME Sharing!TypeOK, Routed, NEW t \in Threads, NEW step, NEW job, NEW m, NEW p, NEW s,
         Becomes(t, step, job, m, p, s), UNCHANGED <<Sharing!router, owns>>,
         th[t].pc \notin {"starting", "stopping", "own", "stop"}, step # "starting"
  PROVE  Routed'
  <1>u. UNCHANGED <<proc, meshTold, starter, lock, spawned, routerRunning, owns>>
    BY DEF Sharing!router
  <1>1. RouterInv'
    BY <1>u DEF Routed, RouterInv, Becomes, Sharing!At
  <1>2. Sharing!NoOrphanProcess'
    BY <1>u DEF Routed, Sharing!NoOrphanProcess, Becomes
  <1>3. OwnerInv'
    <2> SUFFICES ASSUME spawned # None, starter[spawned] # None
                 PROVE  \/ \E k \in Meshes : owns[k]
                        \/ \E u \in Threads : Sharing!At(u, "own")' /\ th'[u].job # "router"
                        \/ \E u \in Threads : Sharing!At(u, "stop")'
      BY <1>u DEF OwnerInv
    <2> QED BY DEF Routed, OwnerInv, Becomes, Sharing!At
  <1> QED BY <1>1, <1>2, <1>3 DEF Routed

LEMMA RoutedOfProcess ==
  ASSUME Sharing!TypeOK, Routed,
         UNCHANGED Sharing!vars \/ \E p \in Procs : Sharing!Announce(p) \/ Sharing!Exit(p) \/ Sharing!ReaderReaps(p)
  PROVE  Routed'
  <1>1. UNCHANGED <<meshTold, starter, lock, spawned, routerRunning, Sharing!mesh, th>>
    BY DEF Sharing!vars, Sharing!router, Sharing!Announce, Sharing!Exit, Sharing!ReaderReaps
  <1>2. \A p \in Procs : proc'[p] = "live" => proc[p] = "live"
    BY DEF Sharing!vars, Sharing!router, Sharing!Announce, Sharing!Exit, Sharing!ReaderReaps,
       Sharing!TypeOK
  <1>3. RouterInv'
    BY <1>1 DEF Routed, RouterInv, Sharing!At
  <1>4. Sharing!NoOrphanProcess'
    BY <1>1, <1>2 DEF Routed, Sharing!NoOrphanProcess
  <1>5. OwnerInv'
    BY <1>1 DEF Routed, OwnerInv, Sharing!At, Sharing!mesh
  <1> QED BY <1>3, <1>4, <1>5 DEF Routed

LEMMA RoutedOfStart ==
  ASSUME Sharing!MeshAssumption, Sharing!TypeOK, ThreadsFit, Homes, Routed, NEW t \in Threads,
         Sharing!Starting(t) \/ Sharing!SpawnCancelled(t)
  PROVE  Routed'
  <1>f. Fits(th[t].pc, th[t].job, th[t].mesh, th[t].proc, th[t].srv)
    BY DEF ThreadsFit
  <1>1. CASE Sharing!EnsureRunning(t)
    <2>1. Sharing!At(t, "ensure") /\ (Goes(t, "ready") \/ Goes(t, "locking")) /\ UNCHANGED <<Sharing!router, owns>>
      BY <1>1, StartingMoves DEF Sharing!EnsureRunning, Sharing!mesh
    <2> QED BY <2>1, RoutedKept DEF Goes, Sharing!At
  <1>2. CASE Sharing!StartFindsRunning(t)
    <2>1. Sharing!At(t, "locking") /\ Goes(t, "own") /\ UNCHANGED <<Sharing!router, owns>>
      BY <1>2, StartingMoves DEF Sharing!StartFindsRunning, Sharing!mesh
    <2> QED BY <2>1, RoutedKept DEF Goes, Sharing!At
  <1>3. CASE Sharing!SpawnFails(t)
    <2>1. Sharing!At(t, "locking") /\ Rests(t) /\ UNCHANGED <<Sharing!router, owns>>
      BY <1>3, StartingMoves DEF Sharing!SpawnFails, Sharing!StartFails
    <2> QED BY <2>1, RoutedKept DEF Rests, Sharing!At
  <1>4. ASSUME NEW p \in Procs, Sharing!Spawn(t, p) PROVE Routed'
    <2>1. /\ Sharing!At(t, "locking") /\ lock = None /\ ~routerRunning /\ proc[p] = "unused"
          /\ proc' = [proc EXCEPT ![p] = "live"] /\ starter' = [starter EXCEPT ![p] = th[t].mesh]
          /\ lock' = t /\ UNCHANGED <<meshTold, spawned, routerRunning, owns>>
          /\ Becomes(t, "starting", th[t].job, th[t].mesh, p, th[t].srv)
      BY <1>4, StartingMoves DEF Sharing!Spawn, Sharing!mesh, Sharing!AlreadyRunning
    <2>2. spawned = None /\ \A u \in Threads : ~Sharing!At(u, "starting")
      BY <2>1 DEF Routed, RouterInv, Sharing!MeshAssumption
    <2>3. starter'[p] = th[t].mesh
      BY <2>1 DEF Sharing!TypeOK
    <2>4. RouterInv'
      BY <2>1, <2>2, <2>3 DEF Routed, RouterInv, Becomes, Sharing!At
    <2>5. Sharing!NoOrphanProcess'
      <3> SUFFICES ASSUME NEW q \in Procs, proc'[q] = "live", q \notin meshTold
                   PROVE  \E u \in Threads : th'[u].proc = q /\ th'[u].pc \in {"starting", "stopping"}
        BY <2>1, <2>2 DEF Sharing!NoOrphanProcess
      <3>1. CASE q = p
        BY <2>1, <3>1 DEF Becomes
      <3>2. CASE q # p
        <4>1. proc[q] = "live"
          BY <2>1, <3>2 DEF Sharing!TypeOK
        <4>2. PICK u \in Threads : th[u].proc = q /\ th[u].pc \in {"starting", "stopping"}
          BY <4>1, <2>2 DEF Routed, Sharing!NoOrphanProcess, Sharing!MeshAssumption
        <4>3. u # t
          BY <2>1, <4>2 DEF Sharing!At
        <4> QED BY <2>1, <4>2, <4>3 DEF Becomes
      <3> QED BY <3>1, <3>2
    <2>6. OwnerInv'
      BY <2>1, <2>2 DEF OwnerInv
    <2> QED BY <2>4, <2>5, <2>6 DEF Routed
  <1>5. CASE Sharing!SpawnReady(t)
    <2>1. /\ Sharing!At(t, "starting") /\ spawned' = th[t].proc /\ routerRunning' = TRUE /\ lock' = None
          /\ UNCHANGED <<proc, meshTold, starter, owns>>
          /\ Becomes(t, "own", th[t].job, th[t].mesh, None, th[t].srv)
      BY <1>5, StartingMoves DEF Sharing!SpawnReady, Sharing!Release, Sharing!mesh
    <2>2. th[t].proc \in Procs /\ lock = t /\ spawned = None /\ starter[th[t].proc] = th[t].mesh
      BY <2>1, <1>f DEF Routed, RouterInv, Fits, Sharing!At
    <2>3. \A u \in Threads : th'[u].pc # "starting"
      BY <2>1, <2>2 DEF Routed, RouterInv, Becomes, Sharing!At
    <2>4. RouterInv'
      BY <2>1, <2>2, <2>3 DEF RouterInv, Sharing!MeshAssumption, Sharing!At
    <2>5. Sharing!NoOrphanProcess'
      <3> SUFFICES ASSUME NEW q \in Procs, proc[q] = "live", q \notin meshTold
                   PROVE  \/ th[t].proc = q
                          \/ \E u \in Threads : th'[u].proc = q /\ th'[u].pc \in {"starting", "stopping"}
        BY <2>1 DEF Sharing!NoOrphanProcess
      <3>1. PICK u \in Threads : th[u].proc = q /\ th[u].pc \in {"starting", "stopping"}
        BY <2>2 DEF Routed, Sharing!NoOrphanProcess, Sharing!MeshAssumption
      <3> QED BY <2>1, <3>1 DEF Becomes
    <2>6. OwnerInv'
      <3>1. CASE th[t].job = "router"
        BY <2>1, <2>2, <3>1, <1>f DEF OwnerInv, Fits
      <3>2. CASE th[t].job # "router"
        BY <2>1, <3>2 DEF OwnerInv, Becomes, Sharing!At
      <3> QED BY <3>1, <3>2
    <2> QED BY <2>4, <2>5, <2>6 DEF Routed
  <1>6. CASE Sharing!SpawnExited(t) \/ Sharing!SpawnCancelled(t)
    <2>1. /\ Sharing!At(t, "starting") /\ meshTold' = meshTold \cup {th[t].proc} /\ lock' = None
          /\ UNCHANGED <<proc, starter, spawned, routerRunning, owns>> /\ Rests(t)
      BY <1>6, StartingMoves DEF Sharing!SpawnExited, Sharing!SpawnCancelled,
         Sharing!StartFails, Sharing!Release
    <2>2. lock = t /\ spawned = None
      BY <2>1 DEF Routed, RouterInv
    <2>3. \A u \in Threads : th'[u].pc # "starting"
      BY <2>1, <2>2 DEF Routed, RouterInv, Rests, Becomes, Sharing!At
    <2>4. RouterInv'
      BY <2>1, <2>2, <2>3 DEF Routed, RouterInv, Sharing!At
    <2>5. Sharing!NoOrphanProcess'
      BY <2>1, <2>2 DEF Routed, Sharing!NoOrphanProcess, Rests, Becomes, Sharing!MeshAssumption
    <2>6. OwnerInv'
      BY <2>1, <2>2 DEF OwnerInv
    <2> QED BY <2>4, <2>5, <2>6 DEF Routed
  <1>7. CASE Sharing!Own(t)
    <2>1. Sharing!At(t, "own") /\ UNCHANGED Sharing!router
      BY <1>7 DEF Sharing!Own
    <2>u. UNCHANGED <<proc, meshTold, starter, lock, spawned, routerRunning>>
      BY <2>1 DEF Sharing!router
    <2>2. CASE th[t].job = "router"
      <3>1. Rests(t) /\ UNCHANGED owns
        BY <1>7, <2>2, StartingMoves DEF Sharing!Own
      <3>2. RouterInv'
        BY <2>u, <3>1 DEF Routed, RouterInv, Rests, Becomes, Sharing!At
      <3>3. Sharing!NoOrphanProcess'
        BY <2>u, <2>1, <3>1 DEF Routed, Sharing!NoOrphanProcess, Rests, Becomes, Sharing!At
      <3>4. OwnerInv'
        <4> SUFFICES ASSUME spawned # None, starter[spawned] # None
                     PROVE  \/ \E k \in Meshes : owns[k]
                            \/ \E u \in Threads : Sharing!At(u, "own")' /\ th'[u].job # "router"
                            \/ \E u \in Threads : Sharing!At(u, "stop")'
          BY <2>u, <3>1 DEF OwnerInv
        <4> QED BY <2>1, <2>2, <3>1 DEF Routed, OwnerInv, Rests, Becomes, Sharing!At
      <3> QED BY <3>2, <3>3, <3>4 DEF Routed
    <2>3. CASE th[t].job # "router"
      <3>1. Goes(t, "ready") /\ owns' = [owns EXCEPT ![th[t].mesh] = TRUE]
        BY <1>7, <2>3, StartingMoves DEF Sharing!Own
      <3>2. RouterInv'
        BY <2>u, <3>1 DEF Routed, RouterInv, Goes, Becomes, Sharing!At
      <3>3. Sharing!NoOrphanProcess'
        BY <2>u, <2>1, <3>1 DEF Routed, Sharing!NoOrphanProcess, Goes, Becomes, Sharing!At
      <3>4. OwnerInv'
        <4>1. th[t].mesh \in Meshes
          BY <2>1, <2>3, <1>f DEF Fits, Sharing!At
        <4>2. owns'[th[t].mesh]
          BY <3>1, <4>1 DEF Sharing!TypeOK
        <4> QED BY <4>1, <4>2 DEF OwnerInv
      <3> QED BY <3>2, <3>3, <3>4 DEF Routed
    <2> QED BY <2>2, <2>3
  <1> QED BY <1>1, <1>2, <1>3, <1>4, <1>5, <1>6, <1>7 DEF Sharing!Starting

LEMMA RoutedOfEnd ==
  ASSUME Sharing!MeshAssumption, Sharing!TypeOK, ThreadsFit, Homes, Routed, NEW t \in Threads,
         Sharing!Ending(t) \/ Sharing!ServeEnds(t)
  PROVE  Routed'
  <1>f. Fits(th[t].pc, th[t].job, th[t].mesh, th[t].proc, th[t].srv)
    BY DEF ThreadsFit
  <1>1. CASE Sharing!StopTakes(t)
    <2>1. /\ Sharing!At(t, "stop") /\ lock = None /\ spawned' = None /\ routerRunning' = FALSE
          /\ UNCHANGED <<proc, meshTold, starter, lock>>
          /\ IF spawned = None THEN Rests(t)
             ELSE Becomes(t, "stopping", th[t].job, th[t].mesh, spawned, th[t].srv)
      BY <1>1, StoppingMoves DEF Sharing!StopTakes
    <2>2. \A u \in Threads : th'[u].pc # "starting"
      BY <2>1 DEF Routed, RouterInv, Rests, Becomes, Sharing!At, Sharing!MeshAssumption
    <2>3. RouterInv'
      BY <2>1, <2>2 DEF RouterInv, Sharing!At
    <2>4. Sharing!NoOrphanProcess'
      <3> SUFFICES ASSUME NEW q \in Procs, proc[q] = "live", q \notin meshTold
                   PROVE  \E u \in Threads : th'[u].proc = q /\ th'[u].pc \in {"starting", "stopping"}
        BY <2>1 DEF Sharing!NoOrphanProcess
      <3>1. CASE spawned = q
        BY <2>1, <3>1 DEF Becomes, Sharing!MeshAssumption
      <3>2. CASE spawned # q
        <4>1. PICK u \in Threads : th[u].proc = q /\ th[u].pc \in {"starting", "stopping"}
          BY <3>2 DEF Routed, Sharing!NoOrphanProcess
        <4> QED BY <2>1, <4>1 DEF Rests, Becomes, Sharing!At
      <3> QED BY <3>1, <3>2
    <2>5. OwnerInv'
      BY <2>1 DEF OwnerInv
    <2> QED BY <2>3, <2>4, <2>5 DEF Routed
  <1>2. CASE Sharing!StopTells(t) \/ Sharing!StopReturns(t)
    <2>1. /\ th[t].pc \in {"stopping", "waiting"} /\ UNCHANGED <<starter, lock, spawned, routerRunning, owns>>
          /\ Goes(t, "waiting") \/ Rests(t)
      BY <1>2, StoppingMoves DEF Sharing!StopTells, Sharing!StopReturns, Sharing!At,
         Sharing!mesh
    <2>2. th[t].proc \in Procs
      BY <2>1, <1>f DEF Fits
    <2>3. \A q \in Procs : proc'[q] = "live" /\ q \notin meshTold' =>
            /\ proc[q] = "live" /\ q \notin meshTold /\ (th[t].pc = "stopping" => q # th[t].proc)
      BY <1>2, <2>2 DEF Sharing!StopTells, Sharing!StopReturns, Sharing!At, Sharing!TypeOK
    <2>4. RouterInv'
      BY <2>1 DEF Routed, RouterInv, Goes, Rests, Becomes, Sharing!At
    <2>5. Sharing!NoOrphanProcess'
      <3> SUFFICES ASSUME NEW q \in Procs, proc'[q] = "live", q \notin meshTold', spawned # q
                   PROVE  \E u \in Threads : th'[u].proc = q /\ th'[u].pc \in {"starting", "stopping"}
        BY <2>1 DEF Sharing!NoOrphanProcess
      <3>1. PICK u \in Threads : th[u].proc = q /\ th[u].pc \in {"starting", "stopping"}
        BY <2>3 DEF Routed, Sharing!NoOrphanProcess
      <3>2. u # t
        BY <2>1, <2>3, <3>1
      <3> QED BY <2>1, <3>1, <3>2 DEF Goes, Rests, Becomes
    <2>6. OwnerInv'
      <3> SUFFICES ASSUME spawned # None, starter[spawned] # None
                   PROVE  \/ \E k \in Meshes : owns[k]
                          \/ \E u \in Threads : Sharing!At(u, "own")' /\ th'[u].job # "router"
                          \/ \E u \in Threads : Sharing!At(u, "stop")'
        BY <2>1 DEF OwnerInv
      <3> QED BY <2>1 DEF Routed, OwnerInv, Goes, Rests, Becomes, Sharing!At
    <2> QED BY <2>4, <2>5, <2>6 DEF Routed
  <1>3. CASE Sharing!CloseFirst(t) \/ Sharing!Drained(t) \/ Sharing!OnClose(t) \/ Sharing!CloseWaits(t) \/ Sharing!ServeEnds(t)
    <2>1. /\ th[t].pc \in {"closeRunning", "draining", "onClose", "serving"}
          /\ UNCHANGED <<Sharing!router, owns>>
      BY <1>3 DEF Sharing!CloseFirst, Sharing!Drained, Sharing!OnClose, Sharing!CloseWaits,
         Sharing!ServeEnds, Sharing!At, Sharing!mesh
    <2>2. Goes(t, "draining") \/ Goes(t, "onClose") \/ Goes(t, "afterClose") \/ Goes(t, "closeRunning")
      BY <1>3, StoppingMoves, UsingMoves
    <2> QED BY <2>1, <2>2, RoutedKept DEF Goes
  <1>4. CASE Sharing!AfterClose(t)
    <2>1. th[t].pc = "afterClose" /\ UNCHANGED <<Sharing!router, owns>>
      BY <1>4, Zenon DEF Sharing!AfterClose, Sharing!At, Sharing!mesh
    <2>2. Goes(t, "release") \/ Closes(t) \/ Rests(t)
      BY <1>4, StoppingMoves
    <2> QED BY <2>1, <2>2, RoutedKept DEF Goes, Closes, Rests
  <1>5. CASE Sharing!TakeServer(t)
    <2>1. Sharing!At(t, "closeServer") /\ UNCHANGED <<Sharing!router, owns>>
      BY <1>5 DEF Sharing!TakeServer
    <2>2. \/ Becomes(t, "release", th[t].job, th[t].mesh, th[t].proc, None)
          \/ Becomes(t, "closeRunning", th[t].job, th[t].mesh, th[t].proc, active[th[t].mesh])
      BY <1>5, StoppingMoves
    <2> QED BY <2>1, <2>2, RoutedKept DEF Sharing!At
  <1>6. CASE Sharing!ReleaseRouter(t)
    <2>1. /\ Sharing!At(t, "release") /\ UNCHANGED Sharing!router
          /\ owns' = [owns EXCEPT ![th[t].mesh] = FALSE]
          /\ IF owns[th[t].mesh] THEN Becomes(t, "stop", th[t].job, th[t].mesh, th[t].proc, None)
             ELSE Rests(t)
      BY <1>6, StoppingMoves DEF Sharing!ReleaseRouter
    <2>u. UNCHANGED <<proc, meshTold, starter, lock, spawned, routerRunning>>
      BY <2>1 DEF Sharing!router
    <2>2. RouterInv'
      BY <2>u, <2>1 DEF Routed, RouterInv, Rests, Becomes, Sharing!At
    <2>3. Sharing!NoOrphanProcess'
      BY <2>u, <2>1 DEF Routed, Sharing!NoOrphanProcess, Rests, Becomes, Sharing!At
    <2>4. OwnerInv'
      <3> SUFFICES ASSUME spawned # None, starter[spawned] # None
                   PROVE  \/ \E k \in Meshes : owns'[k]
                          \/ \E u \in Threads : Sharing!At(u, "own")' /\ th'[u].job # "router"
                          \/ \E u \in Threads : Sharing!At(u, "stop")'
        BY <2>u DEF OwnerInv
      <3>1. CASE owns[th[t].mesh]
        BY <2>1, <3>1 DEF Becomes, Sharing!At
      <3>2. CASE ~owns[th[t].mesh]
        <4>1. \A k \in Meshes : owns[k] => owns'[k]
          BY <2>1, <3>2 DEF Sharing!TypeOK
        <4> QED BY <2>1, <3>2, <4>1 DEF Routed, OwnerInv, Rests, Becomes, Sharing!At
      <3> QED BY <3>1, <3>2
    <2> QED BY <2>2, <2>3, <2>4 DEF Routed
  <1> QED BY <1>1, <1>2, <1>3, <1>4, <1>5, <1>6 DEF Sharing!Ending

LEMMA RoutedOfUse ==
  ASSUME Sharing!MeshAssumption, Sharing!TypeOK, ThreadsFit, Homes, Routed, NEW t \in Threads,
         Sharing!Using(t) \/ Sharing!Begin(t)
  PROVE  Routed'
  <1>1. CASE Sharing!Using(t)
    <2>1. /\ th[t].pc \in {"ready", "dialing", "publish"} /\ UNCHANGED <<Sharing!router, owns>>
      BY <1>1, Zenon DEF Sharing!Using, Sharing!NewClient, Sharing!Connected,
         Sharing!ConnectFails, Sharing!Register, Sharing!RegisterFails, Sharing!Publish,
         Sharing!At, Sharing!mesh
    <2>2. Goes(t, "dialing") \/ Goes(t, "publish") \/ Goes(t, "serving") \/ Rests(t) \/ Closes(t)
      BY <1>1, UsingMoves DEF Sharing!Using
    <2> QED BY <2>1, <2>2, RoutedKept DEF Goes, Rests, Closes
  <1>2. ASSUME NEW m \in Meshes, Sharing!EnsureCaller(t, m) \/ Sharing!Mount(t, m) PROVE Routed'
    <2>1. UNCHANGED <<proc, meshTold, starter, lock, spawned, routerRunning, owns, th>>
      BY <1>2 DEF Sharing!EnsureCaller, Sharing!Mount, Sharing!router
    <2> QED BY <2>1 DEF Routed, RouterInv, Sharing!NoOrphanProcess, OwnerInv, Sharing!At
  <1>3. CASE Sharing!BeginStart(t) \/ Sharing!BeginStop(t)
    <2>1. th[t].pc = "idle" /\ UNCHANGED <<Sharing!router, owns>>
      BY <1>3 DEF Sharing!BeginStart, Sharing!BeginStop, Sharing!At, Sharing!mesh
    <2>2. \/ Becomes(t, "locking", "router", None, None, None)
          \/ Becomes(t, "stop", "router", None, None, None)
      BY <1>3, UsingMoves
    <2> QED BY <2>1, <2>2, RoutedKept
  <1>4. ASSUME NEW m \in Meshes, Sharing!BeginConnect(t, m) \/ Sharing!BeginClose(t, m) PROVE Routed'
    <2>1. th[t].pc = "idle" /\ UNCHANGED <<Sharing!router, owns>>
      BY <1>4 DEF Sharing!BeginConnect, Sharing!BeginClose, Sharing!At, Sharing!mesh
    <2>2. \/ Becomes(t, "ensure", "connect", m, None, None)
          \/ Becomes(t, "closeServer", "close", m, None, None)
      BY <1>4, UsingMoves
    <2> QED BY <2>1, <2>2, RoutedKept
  <1>5. ASSUME NEW m \in Meshes, NEW s \in Servers, NEW job \in {"start", "serve"},
               NEW direct \in BOOLEAN, Sharing!BeginServing(t, m, s, job, direct)
        PROVE  Routed'
    <2>1. th[t].pc = "idle" /\ UNCHANGED <<Sharing!router, owns>>
      BY <1>5 DEF Sharing!BeginServing, Sharing!At
    <2>2. Becomes(t, IF direct THEN "publish" ELSE "ensure", job, m, None, s)
      BY <1>5, UsingMoves
    <2>3. (IF direct THEN "publish" ELSE "ensure") # "starting"
      OBVIOUS
    <2> QED BY <2>1, <2>2, <2>3, RoutedKept
  <1>6. ASSUME NEW s \in Servers, Sharing!BeginCloseRunning(t, s) PROVE Routed'
    <2>1. th[t].pc = "idle" /\ UNCHANGED <<Sharing!router, owns>>
      BY <1>6 DEF Sharing!BeginCloseRunning, Sharing!At, Sharing!mesh
    <2>2. Becomes(t, "closeRunning", "handle", home[s], None, s)
      BY <1>6, UsingMoves
    <2> QED BY <2>1, <2>2, RoutedKept
  <1> QED BY <1>1, <1>2, <1>3, <1>4, <1>5, <1>6 DEF Sharing!Begin

LEMMA RoutedStep ==
  ASSUME Sharing!MeshAssumption, Sharing!TypeOK, ThreadsFit, Homes, Routed, [Sharing!Next]_Sharing!vars
  PROVE  Routed'
  BY RoutedOfStart, RoutedOfEnd, RoutedOfUse, RoutedOfProcess DEF Sharing!Next

-------------------------------------------------------------------------------
(* The servers of a Mesh, while its StartServing do not overlap. *)

Served == ServersInv /\ Sharing!ServerTracked

\* A step of a thread that leaves the servers alone.
LEMMA ServedKept ==
  ASSUME Sharing!MeshAssumption, Sharing!TypeOK, Homes, Served, NEW t \in Threads, NEW step, NEW job, NEW m, NEW p,
         NEW s, Becomes(t, step, job, m, p, s), UNCHANGED <<active, srv, home, overlapped>>,
         step \in Early /\ job \in {"start", "serve"} =>
             Rising(t) /\ m = th[t].mesh /\ s = th[t].srv /\ step # "publish" /\ ~Sharing!At(t, "publish"),
         s # None /\ step \in Closed => srv[s] \in Past,
         s = th[t].srv \/ th[t].srv = None \/ srv[th[t].srv] \in Past
  PROVE  Served'
  <1>1. \A u \in Threads : Rising(u)' =>
          /\ Rising(u) /\ th'[u].mesh = th[u].mesh /\ th'[u].srv = th[u].srv
          /\ ~Sharing!At(u, "publish")' => ~Sharing!At(u, "publish")
    BY DEF Rising, Becomes, Sharing!At
  <1>2. \A u \in Threads : Rising(u)' =>
          /\ home'[th'[u].srv] = th'[u].mesh
          /\ th'[u].mesh \notin overlapped' => active'[th'[u].mesh] = None
          /\ ~Sharing!At(u, "publish")' => srv'[th'[u].srv] = "made"
    BY <1>1 DEF Served, ServersInv
  <1>3. \A u, v \in Threads : Rising(u)' /\ Rising(v)' /\ u # v =>
          th'[u].srv # th'[v].srv /\ (th'[u].mesh = th'[v].mesh => th'[u].mesh \in overlapped')
    BY <1>1 DEF Served, ServersInv
  <1>4. \A u \in Threads : th'[u].srv # None /\ th'[u].pc \in Closed => srv'[th'[u].srv] \in Past
    BY DEF Served, ServersInv, Becomes
  <1>5. \A k \in Meshes : active'[k] # None => home'[active'[k]] = k
    BY DEF Served, ServersInv
  <1>6. ServersInv'
    BY <1>2, <1>3, <1>4, <1>5 DEF ServersInv
  <1>7. Sharing!ServerTracked'
    <2> SUFFICES ASSUME NEW q \in Servers, srv[q] = "open", home[q] \notin overlapped, active[home[q]] # q
                 PROVE  \E u \in Threads : th'[u].srv = q
      BY DEF Sharing!ServerTracked
    <2>1. PICK u \in Threads : th[u].srv = q
      BY DEF Served, Sharing!ServerTracked
    <2> QED BY <2>1 DEF Becomes, Sharing!MeshAssumption, Past
  <1> QED BY <1>6, <1>7 DEF Served

\* A step of a thread that changes the server it holds.
Turns(t) ==
    /\ th' \in [Threads -> ThreadStates] /\ \A u \in Threads \ {t} : th'[u] = th[u]
    /\ th'[t].srv \in {None, th[t].srv} /\ UNCHANGED <<home, overlapped>>
    /\ \A q \in Servers \ {th[t].srv} : srv'[q] = srv[q]
    /\ \A k \in Meshes : \/ active'[k] = active[k]
                         \/ active[k] = th[t].srv /\ active'[k] = None /\ srv'[th[t].srv] # "open"
    /\ Rising(t)' => /\ Rising(t) /\ th'[t].mesh = th[t].mesh /\ th'[t].srv = th[t].srv
                     /\ th'[t].pc = "publish"
    /\ \A u \in Threads \ {t} : Rising(u) /\ ~Sharing!At(u, "publish") => th[u].srv # th[t].srv
    /\ srv'[th[t].srv] \in Past \/ srv[th[t].srv] \notin Past
    /\ th'[t].pc \in Closed => srv'[th[t].srv] \in Past
    /\ srv'[th[t].srv] = "open" => th'[t].srv = th[t].srv

LEMMA ServedOfOne ==
  ASSUME Sharing!MeshAssumption, Sharing!TypeOK, Homes, Served, ThreadsFit, NEW t \in Threads,
         th[t].srv \in Servers, Turns(t)
  PROVE  Served'
  <1>0. /\ \A u \in Threads \ {t} : th'[u] = th[u]
        /\ \A q \in Servers \ {th[t].srv} : srv'[q] = srv[q]
        /\ home' = home /\ overlapped' = overlapped
    BY DEF Turns
  <1>1. \A u \in Threads : Rising(u)' =>
          /\ Rising(u) /\ th'[u].mesh = th[u].mesh /\ th'[u].srv = th[u].srv
          /\ ~Sharing!At(u, "publish")' => ~Sharing!At(u, "publish") /\ u # t
    <2>1. ASSUME NEW u \in Threads \ {t} PROVE (Rising(u)' => Rising(u)) /\ th'[u] = th[u]
      BY <1>0 DEF Rising
    <2>2. Rising(t)' => /\ Rising(t) /\ th'[t].mesh = th[t].mesh /\ th'[t].srv = th[t].srv
                       /\ Sharing!At(t, "publish")'
      BY DEF Turns, Sharing!At
    <2> QED BY <2>1, <2>2 DEF Sharing!At
  <1>s. \A u \in Threads : Rising(u) => th[u].mesh \in Meshes /\ th[u].srv \in Servers
    BY DEF Rising, ThreadsFit, Fits, Early
  <1>2. ASSUME NEW u \in Threads, Rising(u)'
        PROVE  /\ home'[th'[u].srv] = th'[u].mesh
               /\ th'[u].mesh \notin overlapped' => active'[th'[u].mesh] = None
               /\ ~Sharing!At(u, "publish")' => srv'[th'[u].srv] = "made"
    <2>1. /\ Rising(u) /\ th'[u].mesh = th[u].mesh /\ th'[u].srv = th[u].srv
          /\ ~Sharing!At(u, "publish")' => ~Sharing!At(u, "publish") /\ u # t
      BY <1>1, <1>2
    <2>2. /\ home[th[u].srv] = th[u].mesh
          /\ th[u].mesh \notin overlapped => active[th[u].mesh] = None
          /\ ~Sharing!At(u, "publish") => srv[th[u].srv] = "made"
      BY <2>1 DEF Served, ServersInv
    <2>3. th[u].mesh \notin overlapped => active'[th[u].mesh] = None
      BY <1>s, <2>1, <2>2 DEF Turns
    <2>4. ~Sharing!At(u, "publish")' => srv'[th[u].srv] = "made"
      BY <1>0, <1>s, <2>1, <2>2 DEF Turns
    <2> QED BY <1>0, <2>1, <2>2, <2>3, <2>4
  <1>3. \A u, v \in Threads : Rising(u)' /\ Rising(v)' /\ u # v =>
          th'[u].srv # th'[v].srv /\ (th'[u].mesh = th'[v].mesh => th'[u].mesh \in overlapped')
    BY <1>0, <1>1 DEF Served, ServersInv
  <1>4. ASSUME NEW u \in Threads, th'[u].srv # None, th'[u].pc \in Closed
        PROVE  srv'[th'[u].srv] \in Past
    <2>1. CASE u = t
      BY <1>4, <2>1 DEF Turns
    <2>2. CASE u # t
      <3>1. th'[u] = th[u] /\ th[u].srv \in Servers
        BY <1>0, <1>4, <2>2, ThreadFields
      <3>2. srv[th[u].srv] \in Past
        BY <1>4, <3>1 DEF Served, ServersInv
      <3> QED BY <1>0, <3>1, <3>2 DEF Turns
    <2> QED BY <2>1, <2>2
  <1>5. \A k \in Meshes : active'[k] # None => home'[active'[k]] = k
    BY <1>0 DEF Served, ServersInv, Turns
  <1>6. ServersInv'
    BY <1>2, <1>3, <1>4, <1>5 DEF ServersInv
  <1>7. Sharing!ServerTracked'
    <2> SUFFICES ASSUME NEW q \in Servers, srv'[q] = "open", home[q] \notin overlapped,
                        active'[home[q]] # q
                 PROVE  \E u \in Threads : th'[u].srv = q
      BY <1>0 DEF Sharing!ServerTracked
    <2>1. CASE q = th[t].srv
      BY <2>1 DEF Turns
    <2>2. CASE q # th[t].srv
      <3>1. srv[q] = "open"
        BY <1>0, <2>2
      <3>2. home[q] \in Meshes
        BY <3>1 DEF Homes
      <3>3. active[home[q]] # q
        BY <3>2, <2>2 DEF Turns
      <3>4. PICK u \in Threads : th[u].srv = q
        BY <3>1, <3>3 DEF Served, Sharing!ServerTracked
      <3> QED BY <1>0, <2>2, <3>4 DEF Turns
    <2> QED BY <2>1, <2>2
  <1> QED BY <1>6, <1>7 DEF Served

\* Nobody else is about to open the server of a thread that is.
LEMMA RisesAlone ==
  ASSUME ThreadsFit, Served, NEW t \in Threads, Rising(t)
  PROVE  \A u \in Threads \ {t} : Rising(u) => th[u].srv # th[t].srv
  BY DEF Served, ServersInv

LEMMA ServedOfStart ==
  ASSUME Sharing!MeshAssumption, Sharing!TypeOK, ThreadsFit, Homes, Served, NEW t \in Threads,
         Sharing!Starting(t) \/ Sharing!SpawnCancelled(t)
  PROVE  Served'
  <1>f. Fits(th[t].pc, th[t].job, th[t].mesh, th[t].proc, th[t].srv)
    BY DEF ThreadsFit
  <1>1. CASE Sharing!EnsureRunning(t) \/ Sharing!StartFindsRunning(t)
    <2>1. /\ th[t].pc \in {"ensure", "locking"} /\ UNCHANGED <<active, srv, home, overlapped>>
          /\ Goes(t, "ready") \/ Goes(t, "locking") \/ Goes(t, "own")
      BY <1>1, StartingMoves DEF Sharing!EnsureRunning, Sharing!StartFindsRunning, Sharing!At,
         Sharing!mesh
    <2> QED BY <2>1, ServedKept DEF Goes, Rising, Early, Closed, Sharing!At
  <1>2. ASSUME NEW p \in Procs, Sharing!Spawn(t, p) PROVE Served'
    <2>1. /\ th[t].pc = "locking" /\ UNCHANGED <<active, srv, home, overlapped>>
          /\ Becomes(t, "starting", th[t].job, th[t].mesh, p, th[t].srv)
      BY <1>2, StartingMoves DEF Sharing!Spawn, Sharing!At, Sharing!mesh
    <2> QED BY <2>1, ServedKept DEF Rising, Early, Closed, Sharing!At
  <1>3. CASE Sharing!SpawnReady(t)
    <2>1. /\ th[t].pc = "starting" /\ UNCHANGED <<active, srv, home, overlapped>>
          /\ Becomes(t, "own", th[t].job, th[t].mesh, None, th[t].srv)
      BY <1>3, StartingMoves DEF Sharing!SpawnReady, Sharing!At, Sharing!mesh
    <2> QED BY <2>1, ServedKept DEF Rising, Early, Closed, Sharing!At
  <1>4. CASE Sharing!SpawnFails(t) \/ Sharing!SpawnExited(t) \/ Sharing!SpawnCancelled(t)
    <2>1. /\ th[t].pc \in {"locking", "starting"} /\ UNCHANGED <<active, home, overlapped>> /\ Rests(t)
          /\ Sharing!StartFails(t)
      BY <1>4, StartingMoves DEF Sharing!SpawnFails, Sharing!SpawnExited,
         Sharing!SpawnCancelled, Sharing!StartFails, Sharing!At
    <2>2. CASE th[t].srv = None
      <3>1. UNCHANGED srv
        BY <2>1, <2>2 DEF Sharing!StartFails
      <3> QED BY <2>1, <2>2, <3>1, ServedKept DEF Rests, Early, Closed
    <2>3. CASE th[t].srv # None
      <3>1. srv' = [srv EXCEPT ![th[t].srv] = "closed"]
        BY <2>1, <2>3 DEF Sharing!StartFails
      <3>2. th[t].srv \in Servers /\ Rising(t)
        BY <2>1, <2>3, <1>f, ThreadFields DEF Rising, Fits, Early
      <3>3. \A u \in Threads \ {t} : Rising(u) /\ ~Sharing!At(u, "publish") => th[u].srv # th[t].srv
        BY <3>2, RisesAlone
      <3>4. /\ "closed" \in Past /\ "closed" # "open" /\ "idle" \notin Early
            /\ "idle" \notin Closed
        BY DEF Past, Early, Closed
      <3>5. srv'[th[t].srv] = "closed" /\ \A q \in Servers \ {th[t].srv} : srv'[q] = srv[q]
        BY <3>1, <3>2 DEF Sharing!TypeOK
      <3>6. Becomes(t, "idle", "none", None, None, None)
        BY <2>1 DEF Rests
      <3>7. Turns(t)
        BY <2>1, <3>3, <3>4, <3>5, <3>6 DEF Turns, Becomes, Rising
      <3> QED BY <3>2, <3>7, ServedOfOne
    <2> QED BY <2>2, <2>3
  <1>5. CASE Sharing!Own(t)
    <2>1. /\ th[t].pc = "own" /\ UNCHANGED <<active, srv, home, overlapped>>
          /\ IF th[t].job = "router" THEN Rests(t) ELSE Goes(t, "ready")
      BY <1>5, StartingMoves DEF Sharing!Own, Sharing!At
    <2>2. CASE th[t].job = "router"
      <3>1. th[t].srv = None
        BY <2>2, <1>f DEF Fits
      <3> QED BY <2>1, <2>2, <3>1, ServedKept DEF Rests, Early, Closed
    <2>3. CASE th[t].job # "router"
      BY <2>1, <2>3, ServedKept DEF Goes, Rising, Early, Closed, Sharing!At
    <2> QED BY <2>2, <2>3
  <1> QED BY <1>1, <1>2, <1>3, <1>4, <1>5 DEF Sharing!Starting

LEMMA ServedOfEnd ==
  ASSUME Sharing!MeshAssumption, Sharing!TypeOK, ThreadsFit, Homes, Served, NEW t \in Threads,
         Sharing!Ending(t) \/ Sharing!ServeEnds(t)
  PROVE  Served'
  <1>f. Fits(th[t].pc, th[t].job, th[t].mesh, th[t].proc, th[t].srv)
    BY DEF ThreadsFit
  <1>1. CASE Sharing!StopTakes(t) \/ Sharing!StopTells(t) \/ Sharing!StopReturns(t)
    <2>1. th[t].pc \in {"stop", "stopping", "waiting"} /\ UNCHANGED <<active, srv, home, overlapped>>
      BY <1>1 DEF Sharing!StopTakes, Sharing!StopTells, Sharing!StopReturns, Sharing!At,
         Sharing!mesh
    <2>2. th[t].srv = None
      BY <2>1, <1>f DEF Fits, NoServerAt
    <2>3. \/ Rests(t) \/ Goes(t, "waiting")
          \/ Becomes(t, "stopping", th[t].job, th[t].mesh, spawned, th[t].srv)
      BY <1>1, StoppingMoves
    <2> QED BY <2>1, <2>2, <2>3, ServedKept DEF Rests, Goes, Early, Closed
  <1>2. CASE Sharing!CloseFirst(t) \/ Sharing!Drained(t) \/ Sharing!OnClose(t)
    <2>1. th[t].pc \in {"closeRunning", "draining", "onClose"} /\ UNCHANGED <<home, overlapped>>
      BY <1>2 DEF Sharing!CloseFirst, Sharing!Drained, Sharing!OnClose, Sharing!At
    <2>2. th[t].srv \in Servers
      BY <2>1, <1>f DEF Fits, ServerAt
    <2>3. PICK x \in Past : srv' = [srv EXCEPT ![th[t].srv] = x]
      BY <1>2 DEF Sharing!CloseFirst, Sharing!Drained, Sharing!OnClose, Past
    <2>4. x # "open"
      BY DEF Past
    <2>5. \A k \in Meshes :
            active'[k] = active[k] \/ (active[k] = th[t].srv /\ active'[k] = None /\ x # "open")
      BY <1>2, <2>4 DEF Sharing!CloseFirst, Sharing!Drained, Sharing!OnClose, Sharing!Forget,
         Sharing!TypeOK
    <2>6. srv[th[t].srv] \in Past \cup {"open"}
      <3>1. CASE Sharing!CloseFirst(t)
        BY <3>1 DEF Sharing!CloseFirst
      <3>2. CASE Sharing!Drained(t) \/ Sharing!OnClose(t)
        <4>1. th[t].pc \in Closed /\ th[t].srv # None
          BY <2>2, <3>2 DEF Sharing!Drained, Sharing!OnClose, Sharing!At, Closed,
             Sharing!MeshAssumption
        <4> QED BY <4>1 DEF Served, ServersInv
      <3> QED BY <1>2, <3>1, <3>2
    <2>7. \A u \in Threads \ {t} : Rising(u) /\ ~Sharing!At(u, "publish") => th[u].srv # th[t].srv
      BY <2>6 DEF Served, ServersInv, Past
    <2>8. PICK step \in {"draining", "onClose", "afterClose"} : Goes(t, step)
      BY <1>2, StoppingMoves
    <2>9. step \notin Early
      BY DEF Early
    <2>10. Becomes(t, step, th[t].job, th[t].mesh, th[t].proc, th[t].srv)
      BY <2>8 DEF Goes
    <2>11. srv'[th[t].srv] = x /\ \A q \in Servers \ {th[t].srv} : srv'[q] = srv[q]
      BY <2>2, <2>3 DEF Sharing!TypeOK
    <2>12. Turns(t)
      BY <2>1, <2>4, <2>5, <2>7, <2>9, <2>10, <2>11 DEF Turns, Becomes, Rising
    <2> QED BY <2>2, <2>12, ServedOfOne
  <1>3. CASE Sharing!CloseWaits(t)
    <2>1. /\ Sharing!At(t, "closeRunning") /\ srv[th[t].srv] = "closed" /\ UNCHANGED <<active, srv, home, overlapped>>
          /\ Goes(t, "afterClose")
      BY <1>3, StoppingMoves DEF Sharing!CloseWaits, Sharing!mesh
    <2>2. "closed" \in Past /\ "afterClose" \notin Early
      BY DEF Past, Early
    <2> QED BY <2>1, <2>2, ServedKept DEF Goes
  <1>4. CASE Sharing!AfterClose(t)
    <2>1. th[t].pc = "afterClose" /\ UNCHANGED <<active, srv, home, overlapped>>
      BY <1>4, Zenon DEF Sharing!AfterClose, Sharing!At, Sharing!mesh
    <2>2. th[t].srv \in Servers
      BY <2>1, <1>f DEF Fits, ServerAt
    <2>3. srv[th[t].srv] \in Past
      BY <2>1, <2>2 DEF Served, ServersInv, Closed, Sharing!MeshAssumption
    <2>4. Goes(t, "release") \/ Closes(t) \/ Rests(t)
      BY <1>4, StoppingMoves
    <2> QED BY <2>1, <2>3, <2>4, ServedKept DEF Goes, Closes, Rests, Early
  <1>5. CASE Sharing!ServeEnds(t)
    <2>1. /\ Sharing!At(t, "serving") /\ UNCHANGED <<active, srv, home, overlapped>> /\ Goes(t, "closeRunning")
      BY <1>5, UsingMoves DEF Sharing!ServeEnds, Sharing!mesh
    <2> QED BY <2>1, ServedKept DEF Goes, Early, Closed
  <1>6. CASE Sharing!ReleaseRouter(t)
    <2>1. th[t].pc = "release" /\ UNCHANGED <<active, srv, home, overlapped>>
      BY <1>6 DEF Sharing!ReleaseRouter, Sharing!At
    <2>2. th[t].srv = None \/ srv[th[t].srv] \in Past
      BY <2>1 DEF Served, ServersInv, Closed
    <2>3. Rests(t) \/ Becomes(t, "stop", th[t].job, th[t].mesh, th[t].proc, None)
      BY <1>6, StoppingMoves
    <2> QED BY <2>1, <2>2, <2>3, ServedKept DEF Rests, Early
  <1>7. CASE Sharing!TakeServer(t)
    <2>1. /\ Sharing!At(t, "closeServer") /\ UNCHANGED <<srv, home, overlapped>>
          /\ active' = [active EXCEPT ![th[t].mesh] = None]
      BY <1>7 DEF Sharing!TakeServer
    <2>2. th[t].srv = None /\ th[t].mesh \in Meshes
      BY <2>1, <1>f DEF Fits, NoServerAt, Sharing!At
    <2>3. PICK step \in {"release", "closeRunning"} :
            /\ Becomes(t, step, th[t].job, th[t].mesh, th[t].proc, active[th[t].mesh])
            /\ step = "release" => active[th[t].mesh] = None
      BY <1>7, StoppingMoves
    <2>4. \A k \in Meshes : active'[k] = IF k = th[t].mesh THEN None ELSE active[k]
      BY <2>1 DEF Sharing!TypeOK
    <2>5. \A u \in Threads : Rising(u)' => Rising(u) /\ th'[u] = th[u]
      BY <2>3 DEF Rising, Becomes, Early
    <2>6. \A u \in Threads : Rising(u) => th[u].mesh \in Meshes
      BY DEF Rising, ThreadsFit, Fits, Early
    <2>7. \A u \in Threads : Rising(u)' =>
            /\ home'[th'[u].srv] = th'[u].mesh
            /\ th'[u].mesh \notin overlapped' => active'[th'[u].mesh] = None
            /\ ~Sharing!At(u, "publish")' => srv'[th'[u].srv] = "made"
      BY <2>1, <2>4, <2>5, <2>6 DEF Served, ServersInv, Sharing!At
    <2>8. \A u, v \in Threads : Rising(u)' /\ Rising(v)' /\ u # v =>
          th'[u].srv # th'[v].srv /\ (th'[u].mesh = th'[v].mesh => th'[u].mesh \in overlapped')
      BY <2>1, <2>5 DEF Served, ServersInv
    <2>9. \A u \in Threads : th'[u].srv # None /\ th'[u].pc \in Closed => srv'[th'[u].srv] \in Past
      BY <2>1, <2>3 DEF Served, ServersInv, Becomes, Closed
    <2>10. \A k \in Meshes : active'[k] # None => home'[active'[k]] = k
      BY <2>1, <2>4 DEF Served, ServersInv
    <2>11. ServersInv'
      BY <2>7, <2>8, <2>9, <2>10 DEF ServersInv
    <2>12. Sharing!ServerTracked'
      <3> SUFFICES ASSUME NEW q \in Servers, srv[q] = "open", home[q] \notin overlapped,
                          active'[home[q]] # q
                   PROVE  \E u \in Threads : th'[u].srv = q
        BY <2>1 DEF Sharing!ServerTracked
      <3>1. home[q] \in Meshes
        BY DEF Homes
      <3>2. CASE active[home[q]] = q
        <4>1. home[q] = th[t].mesh
          BY <2>4, <3>1, <3>2
        <4> QED BY <2>3, <3>2, <4>1 DEF Becomes
      <3>3. CASE active[home[q]] # q
        <4>1. PICK u \in Threads : th[u].srv = q
          BY <3>3 DEF Served, Sharing!ServerTracked
        <4>2. u # t
          BY <2>2, <4>1 DEF Sharing!MeshAssumption
        <4> QED BY <2>3, <4>1, <4>2 DEF Becomes
      <3> QED BY <3>2, <3>3
    <2> QED BY <2>11, <2>12 DEF Served
  <1> QED BY <1>1, <1>2, <1>3, <1>4, <1>5, <1>6, <1>7 DEF Sharing!Ending

LEMMA ServedOfUse ==
  ASSUME Sharing!MeshAssumption, Sharing!TypeOK, ThreadsFit, Homes, Served, NEW t \in Threads, Sharing!Using(t)
  PROVE  Served'
  <1>f. Fits(th[t].pc, th[t].job, th[t].mesh, th[t].proc, th[t].srv)
    BY DEF ThreadsFit
  <1>1. CASE Sharing!NewClient(t) \/ Sharing!Connected(t) \/ Sharing!ConnectFails(t)
    <2>1. UNCHANGED <<active, srv, home, overlapped>> /\ th[t].srv = None
      BY <1>1, <1>f DEF Sharing!NewClient, Sharing!Connected, Sharing!ConnectFails,
         Sharing!mesh, Sharing!At, Fits, NoServerAt
    <2>2. Goes(t, "dialing") \/ Rests(t)
      BY <1>1, UsingMoves
    <2> QED BY <2>1, <2>2, ServedKept DEF Goes, Rests, Early, Closed
  <1>2. CASE Sharing!Register(t) \/ Sharing!RegisterFails(t)
    <2>1. th[t].pc = "ready" /\ th[t].srv # None /\ UNCHANGED <<active, home, overlapped>>
      BY <1>2, Zenon DEF Sharing!Register, Sharing!RegisterFails, Sharing!At
    <2>2. th[t].srv \in Servers /\ Rising(t)
      BY <2>1, <1>f, ThreadFields DEF Rising, Fits, Early
    <2>3. srv[th[t].srv] = "made"
      BY <2>1, <2>2 DEF Served, ServersInv, Sharing!At
    <2>4. \A u \in Threads \ {t} : Rising(u) /\ ~Sharing!At(u, "publish") => th[u].srv # th[t].srv
      BY <2>2, RisesAlone
    <2>5. \A k \in Meshes : active'[k] = active[k]
      BY <2>1
    <2>6. "made" \notin Past /\ "closed" # "open"
      BY DEF Past
    <2>7. ASSUME Sharing!Register(t) PROVE Served'
      <3>1. srv' = [srv EXCEPT ![th[t].srv] = "open"]
        BY <2>7 DEF Sharing!Register
      <3>2. Becomes(t, "publish", th[t].job, th[t].mesh, th[t].proc, th[t].srv)
        BY <2>7, UsingMoves DEF Goes
      <3>3. "publish" \notin Closed
        BY DEF Closed
      <3>4. srv'[th[t].srv] = "open" /\ \A q \in Servers \ {th[t].srv} : srv'[q] = srv[q]
        BY <2>2, <3>1 DEF Sharing!TypeOK
      <3>5. Turns(t)
        BY <2>1, <2>2, <2>3, <2>4, <2>5, <2>6, <3>2, <3>3, <3>4 DEF Turns, Becomes
      <3> QED BY <2>2, <3>5, ServedOfOne
    <2>8. ASSUME Sharing!RegisterFails(t) PROVE Served'
      <3>1. srv' = [srv EXCEPT ![th[t].srv] = "closed"]
        BY <2>8, Zenon DEF Sharing!RegisterFails
      <3>2. PICK step \in {"idle", "closeServer"}, job \in {"none", "close"}, m \in {None, th[t].mesh} :
              Becomes(t, step, job, m, None, None)
        BY <2>8, UsingMoves DEF Rests, Closes
      <3>3. step \notin Closed /\ step \notin Early
        BY DEF Closed, Early
      <3>4. srv'[th[t].srv] = "closed" /\ \A q \in Servers \ {th[t].srv} : srv'[q] = srv[q]
        BY <2>2, <3>1 DEF Sharing!TypeOK
      <3>5. "closed" \in Past
        BY DEF Past
      <3>6. Turns(t)
        BY <2>1, <2>4, <2>5, <2>6, <3>2, <3>3, <3>4, <3>5 DEF Turns, Becomes, Rising
      <3> QED BY <2>2, <3>6, ServedOfOne
    <2> QED BY <1>2, <2>7, <2>8
  <1>3. CASE Sharing!Publish(t)
    <2>1. /\ Sharing!At(t, "publish") /\ UNCHANGED <<srv, home, overlapped>>
          /\ active' = [active EXCEPT ![th[t].mesh] = th[t].srv]
      BY <1>3 DEF Sharing!Publish
    <2>2. /\ Rising(t) /\ th[t].mesh \in Meshes /\ th[t].srv \in Servers
          /\ home[th[t].srv] = th[t].mesh
          /\ th[t].mesh \notin overlapped => active[th[t].mesh] = None
      <3>1. Rising(t) /\ th[t].mesh \in Meshes /\ th[t].srv \in Servers
        BY <2>1, <1>f DEF Rising, Fits, Early, Sharing!At
      <3> QED BY <3>1 DEF Served, ServersInv
    <2>3. Goes(t, "serving") \/ Rests(t)
      BY <1>3, UsingMoves
    <2>4. \A k \in Meshes : active'[k] = IF k = th[t].mesh THEN th[t].srv ELSE active[k]
      BY <2>1 DEF Sharing!TypeOK
    <2>5. \A u \in Threads : Rising(u)' => Rising(u) /\ u # t /\ th'[u] = th[u]
      BY <2>3 DEF Rising, Goes, Rests, Becomes, Early
    <2>6. \A u \in Threads : Rising(u)' =>
            th[u].mesh \in Meshes /\ (th[u].mesh # th[t].mesh \/ th[u].mesh \in overlapped)
      <3>1. \A u \in Threads : Rising(u) => th[u].mesh \in Meshes
        BY DEF Rising, ThreadsFit, Fits, Early
      <3>2. \A u \in Threads : Rising(u) /\ u # t => th[u].mesh # th[t].mesh \/ th[u].mesh \in overlapped
        BY <2>2 DEF Served, ServersInv
      <3> QED BY <2>5, <3>1, <3>2
    <2>7. \A u \in Threads : Rising(u)' =>
            /\ home'[th'[u].srv] = th'[u].mesh
            /\ th'[u].mesh \notin overlapped' => active'[th'[u].mesh] = None
            /\ ~Sharing!At(u, "publish")' => srv'[th'[u].srv] = "made"
      BY <2>1, <2>4, <2>5, <2>6 DEF Served, ServersInv, Sharing!At
    <2>8. \A u, v \in Threads : Rising(u)' /\ Rising(v)' /\ u # v =>
          th'[u].srv # th'[v].srv /\ (th'[u].mesh = th'[v].mesh => th'[u].mesh \in overlapped')
      BY <2>1, <2>5 DEF Served, ServersInv
    <2>9. \A u \in Threads : th'[u].srv # None /\ th'[u].pc \in Closed => srv'[th'[u].srv] \in Past
      BY <2>1, <2>3 DEF Served, ServersInv, Goes, Rests, Becomes, Closed
    <2>10. \A k \in Meshes : active'[k] # None => home'[active'[k]] = k
      BY <2>1, <2>2, <2>4 DEF Served, ServersInv
    <2>11. ServersInv'
      BY <2>7, <2>8, <2>9, <2>10 DEF ServersInv
    <2>12. Sharing!ServerTracked'
      <3> SUFFICES ASSUME NEW q \in Servers, srv[q] = "open", home[q] \notin overlapped,
                          active'[home[q]] # q
                   PROVE  \E u \in Threads : th'[u].srv = q
        BY <2>1 DEF Sharing!ServerTracked
      <3>1. home[q] \in Meshes
        BY DEF Homes
      <3>2. active[home[q]] # q
        BY <2>2, <2>4, <3>1 DEF Sharing!MeshAssumption
      <3>3. PICK u \in Threads : th[u].srv = q
        BY <3>2 DEF Served, Sharing!ServerTracked
      <3>4. u # t
        BY <2>2, <2>4, <3>3
      <3> QED BY <2>3, <3>3, <3>4 DEF Goes, Rests, Becomes
    <2> QED BY <2>11, <2>12 DEF Served
  <1> QED BY <1>1, <1>2, <1>3 DEF Sharing!Using

LEMMA ServedOfBegin ==
  ASSUME Sharing!MeshAssumption, Sharing!TypeOK, ThreadsFit, Homes, Served, NEW t \in Threads,
         Sharing!Begin(t)
  PROVE  Served'
  <1>f. Fits(th[t].pc, th[t].job, th[t].mesh, th[t].proc, th[t].srv)
    BY DEF ThreadsFit
  <1>1. CASE Sharing!BeginStart(t) \/ Sharing!BeginStop(t)
    <2>1. th[t].srv = None /\ UNCHANGED <<active, srv, home, overlapped>>
      BY <1>1, <1>f DEF Sharing!BeginStart, Sharing!BeginStop, Sharing!At, Sharing!mesh, Fits,
         NoServerAt
    <2>2. \/ Becomes(t, "locking", "router", None, None, None)
          \/ Becomes(t, "stop", "router", None, None, None)
      BY <1>1, UsingMoves
    <2> QED BY <2>1, <2>2, ServedKept
  <1>2. ASSUME NEW m \in Meshes, Sharing!BeginConnect(t, m) \/ Sharing!BeginClose(t, m) PROVE Served'
    <2>1. th[t].srv = None /\ UNCHANGED <<active, srv, home, overlapped>>
      BY <1>2, <1>f DEF Sharing!BeginConnect, Sharing!BeginClose, Sharing!At, Sharing!mesh,
         Fits, NoServerAt
    <2>2. \/ Becomes(t, "ensure", "connect", m, None, None)
          \/ Becomes(t, "closeServer", "close", m, None, None)
      BY <1>2, UsingMoves
    <2> QED BY <2>1, <2>2, ServedKept
  <1>3. ASSUME NEW m \in Meshes, Sharing!EnsureCaller(t, m) \/ Sharing!Mount(t, m) PROVE Served'
    <2>1. UNCHANGED <<active, srv, home, overlapped, th>>
      BY <1>3 DEF Sharing!EnsureCaller, Sharing!Mount
    <2> QED BY <2>1 DEF Served, ServersInv, Sharing!ServerTracked, Rising, Sharing!At
  <1>4. ASSUME NEW s \in Servers, Sharing!BeginCloseRunning(t, s) PROVE Served'
    <2>1. th[t].srv = None /\ UNCHANGED <<active, srv, home, overlapped>>
      BY <1>4, <1>f DEF Sharing!BeginCloseRunning, Sharing!At, Sharing!mesh, Fits, NoServerAt
    <2>2. Becomes(t, "closeRunning", "handle", home[s], None, s)
      BY <1>4, UsingMoves
    <2>3. "closeRunning" \notin Early /\ "closeRunning" \notin Closed
      BY DEF Early, Closed
    <2> QED BY <2>1, <2>2, <2>3, ServedKept
  <1>5. ASSUME NEW m \in Meshes, NEW s \in Servers, NEW job \in {"start", "serve"},
               NEW direct \in BOOLEAN, Sharing!BeginServing(t, m, s, job, direct)
        PROVE  Served'
    <2>1. /\ Sharing!At(t, "idle") /\ active[m] = None /\ srv[s] = "unused" /\ UNCHANGED active
          /\ overlapped' = IF \E u \in Threads : Sharing!IsStarting(u, m)
                           THEN overlapped \cup {m} ELSE overlapped
          /\ srv' = [srv EXCEPT ![s] = IF direct THEN "open" ELSE "made"]
          /\ home' = [home EXCEPT ![s] = m]
      BY <1>5 DEF Sharing!BeginServing, Sharing!NotServing
    <2>2. Becomes(t, IF direct THEN "publish" ELSE "ensure", job, m, None, s)
      BY <1>5, UsingMoves
    <2>3. /\ \A q \in Servers : q # s => srv'[q] = srv[q] /\ home'[q] = home[q]
          /\ home'[s] = m /\ (~direct => srv'[s] = "made")
      BY <2>1 DEF Sharing!TypeOK
    <2>4. \A u \in Threads : Rising(u) => th[u].srv \in Servers /\ (th[u].mesh # m \/ m \in overlapped')
      <3>1. \A u \in Threads : Rising(u) => th[u].srv \in Servers
        BY DEF Rising, ThreadsFit, Fits, Early
      <3>2. \A u \in Threads : Rising(u) /\ th[u].mesh = m => Sharing!IsStarting(u, m)
        BY DEF Rising, Sharing!IsStarting, Early
      <3> QED BY <2>1, <3>1, <3>2
    <2>o. overlapped \subseteq overlapped'
      BY <2>1
    <2>5. \A u \in Threads : th[u].srv # s
      BY <2>1, ThreadFields DEF Homes, Sharing!MeshAssumption
    <2>6. /\ \A u \in Threads \ {t} : th'[u] = th[u]
          /\ th'[t].mesh = m /\ th'[t].srv = s /\ (th'[t].pc = "publish" <=> direct)
          /\ th'[t].pc \notin Closed
      BY <2>2 DEF Becomes, Closed
    <2>7. ASSUME NEW u \in Threads, Rising(u)'
          PROVE  /\ home'[th'[u].srv] = th'[u].mesh
                 /\ th'[u].mesh \notin overlapped' => active'[th'[u].mesh] = None
                 /\ ~Sharing!At(u, "publish")' => srv'[th'[u].srv] = "made"
      <3>1. CASE u = t
        BY <2>1, <2>3, <2>6, <3>1 DEF Sharing!At
      <3>2. CASE u # t
        <4>1. th'[u] = th[u] /\ Rising(u) /\ th[u].srv \in Servers /\ th[u].srv # s
          BY <2>4, <2>5, <2>6, <2>7, <3>2 DEF Rising
        <4> QED BY <2>1, <2>3, <2>o, <4>1 DEF Served, ServersInv, Sharing!At
      <3> QED BY <3>1, <3>2
    <2>8. ASSUME NEW u \in Threads, NEW v \in Threads, Rising(u)', Rising(v)', u # v
          PROVE  th'[u].srv # th'[v].srv /\ (th'[u].mesh = th'[v].mesh => th'[u].mesh \in overlapped')
      <3>1. \A w \in Threads \ {t} : Rising(w)' => Rising(w) /\ th'[w] = th[w]
        BY <2>6 DEF Rising
      <3>2. CASE u # t /\ v # t
        BY <2>8, <2>o, <3>1, <3>2 DEF Served, ServersInv
      <3>3. CASE u = t \/ v = t
        BY <2>4, <2>5, <2>6, <2>8, <3>1, <3>3
      <3> QED BY <3>2, <3>3
    <2>9. ASSUME NEW u \in Threads, th'[u].srv # None, th'[u].pc \in Closed
          PROVE  srv'[th'[u].srv] \in Past
      <3>1. u # t /\ th'[u] = th[u]
        BY <2>6, <2>9
      <3>2. th[u].srv \in Servers /\ th[u].srv # s
        BY <2>5, <2>9, <3>1, ThreadFields
      <3> QED BY <2>3, <2>9, <3>1, <3>2 DEF Served, ServersInv
    <2>10. ASSUME NEW k \in Meshes, active[k] # None PROVE home'[active[k]] = k
      <3>1. active[k] \in Servers /\ active[k] # s
        BY <2>1, <2>10 DEF Sharing!TypeOK, Homes
      <3> QED BY <2>3, <2>10, <3>1 DEF Served, ServersInv
    <2>11. ServersInv'
      BY <2>1, <2>7, <2>8, <2>9, <2>10 DEF ServersInv
    <2>12. Sharing!ServerTracked'
      <3> SUFFICES ASSUME NEW q \in Servers, srv'[q] = "open", home'[q] \notin overlapped',
                          active[home'[q]] # q
                   PROVE  \E u \in Threads : th'[u].srv = q
        BY <2>1 DEF Sharing!ServerTracked
      <3>1. CASE q = s
        BY <2>6, <3>1
      <3>2. CASE q # s
        <4>1. PICK u \in Threads : th[u].srv = q
          BY <2>3, <2>o, <3>2 DEF Served, Sharing!ServerTracked
        <4>2. u # t
          BY <2>1, <4>1, <1>f DEF Fits, NoServerAt, Sharing!At, Sharing!MeshAssumption
        <4> QED BY <2>6, <4>1, <4>2
      <3> QED BY <3>1, <3>2
    <2> QED BY <2>11, <2>12 DEF Served
  <1> QED BY <1>1, <1>2, <1>3, <1>4, <1>5 DEF Sharing!Begin

LEMMA ServedStep ==
  ASSUME Sharing!MeshAssumption, Sharing!TypeOK, ThreadsFit, Homes, Served, [Sharing!Next]_Sharing!vars
  PROVE  Served'
  <1>1. ASSUME UNCHANGED Sharing!vars \/ \E p \in Procs : Sharing!Announce(p) \/ Sharing!Exit(p) \/ Sharing!ReaderReaps(p)
        PROVE  Served'
    <2>1. UNCHANGED <<active, srv, home, overlapped, th>>
      BY <1>1 DEF Sharing!vars, Sharing!mesh, Sharing!Announce, Sharing!Exit,
         Sharing!ReaderReaps
    <2> QED BY <2>1 DEF Served, ServersInv, Sharing!ServerTracked, Rising, Sharing!At
  <1> QED BY <1>1, ServedOfStart, ServedOfEnd, ServedOfUse, ServedOfBegin DEF Sharing!Next

-------------------------------------------------------------------------------
\* The invariant holds at the beginning.
LEMMA MeshInitially == ASSUME Sharing!MeshAssumption, Sharing!Init PROVE MeshInv
  <1>0. Sharing!Idle \in ThreadStates
    BY DEF Sharing!Idle, ThreadStates, Sharing!Steps, Sharing!Jobs
  <1>1. \A t \in Threads : th[t] = Sharing!Idle
    BY DEF Sharing!Init
  <1>2. Sharing!TypeOK
    <2>1. th \in [Threads -> ThreadStates]
      BY <1>0 DEF Sharing!Init
    <2>2. RouterTypes /\ MeshTypes
      BY DEF Sharing!Init, RouterTypes, MeshTypes
    <2> QED BY <2>1, <2>2, TypesApart
  <1>3. \A t \in Threads : /\ th[t].pc = "idle" /\ th[t].job = "none" /\ th[t].mesh = None
                           /\ th[t].proc = None /\ th[t].srv = None
    BY <1>1 DEF Sharing!Idle
  <1>4. ThreadsFit
    BY <1>3, RestsFit DEF ThreadsFit
  <1>5. Homes /\ RouterInv /\ Sharing!NoOrphanProcess /\ OwnerInv
    BY <1>3 DEF Sharing!Init, Homes, RouterInv, Sharing!NoOrphanProcess, OwnerInv, Sharing!At
  <1>6. ServersInv /\ Sharing!ServerTracked
    BY <1>3 DEF Sharing!Init, ServersInv, Sharing!ServerTracked, Rising, Early
  <1> QED BY <1>2, <1>4, <1>5, <1>6 DEF MeshInv

\* Every step keeps it.
LEMMA MeshInvStep == ASSUME Sharing!MeshAssumption, MeshInv, [Sharing!Next]_Sharing!vars PROVE MeshInv'
  <1>1. Sharing!TypeOK' /\ Homes'
    BY MeshTypesStep DEF MeshInv
  <1>2. ThreadsFit'
    BY ThreadsFitStep DEF MeshInv
  <1>3. Routed'
    BY RoutedStep DEF MeshInv, Routed
  <1>4. Served'
    BY ServedStep DEF MeshInv, Served
  <1> QED BY <1>1, <1>2, <1>3, <1>4 DEF MeshInv, Routed, Served

\* It implies the properties of the component.
LEMMA MeshInvMeans ==
  ASSUME Sharing!MeshAssumption, MeshInv
  PROVE  /\ Sharing!TypeOK /\ Sharing!NoOrphanProcess /\ Sharing!AutoStartedIsStopped
         /\ Sharing!ServerTracked
  <1>1. Sharing!AutoStartedIsStopped
    BY DEF MeshInv, Sharing!NoOrphanProcess, OwnerInv, Sharing!AutoStartedIsStopped,
       Sharing!At, Sharing!MeshAssumption
  <1> QED BY <1>1 DEF MeshInv

-------------------------------------------------------------------------------
(* server.go: one call.  ServerCall_proofs has its invariant for every     *)
(* value of the constants; here it is used for the suite's two.            *)

InputProofs == INSTANCE ServerCall_proofs WITH
    Shapes <- {"unary", "duplex"}, Senders <- {}, MaxOut <- 0,
    pc <- callPc, inflight <- callInflight

OutputProofs == INSTANCE ServerCall_proofs WITH
    Shapes <- {"server"}, MaxIn <- 0,
    pc <- callPc, inflight <- callInflight

\* The suite's instances of ServerCall and those of its proofs are the same.
LEMMA InputBegins == Input!Init => InputProofs!Init
  BY DEF Input!Init, Input!Finishers, InputProofs!Init, InputProofs!Finishers

LEMMA InputSteps == [Input!Next]_Input!vars => [InputProofs!Next]_InputProofs!vars
  <1>1. Input!CallerSteps => InputProofs!CallerSteps
    BY DEF Input!inp, InputProofs!inp, Input!outp, InputProofs!outp, Input!life,
           InputProofs!life, Input!HasInput, InputProofs!HasInput, Input!HasOutput,
           InputProofs!HasOutput, Input!Put, InputProofs!Put, Input!CallerItem,
           InputProofs!CallerItem, Input!CallerEnd, InputProofs!CallerEnd,
           Input!CallerCancel, InputProofs!CallerCancel, Input!CallerGrants,
           InputProofs!CallerGrants, Input!CallerSeesWindow, InputProofs!CallerSeesWindow,
           Input!CallerSteps, InputProofs!CallerSteps
  <1>2. Input!ConnectionLost => InputProofs!ConnectionLost
    BY DEF Input!caller, InputProofs!caller, Input!inp, InputProofs!inp, Input!outp,
           InputProofs!outp, Input!life, InputProofs!life, Input!ConnectionLost,
           InputProofs!ConnectionLost
  <1>3. Input!DeadlinePasses => InputProofs!DeadlinePasses
    BY DEF Input!caller, InputProofs!caller, Input!wires, InputProofs!wires, Input!inp,
           InputProofs!inp, Input!outp, InputProofs!outp, Input!DeadlinePasses,
           InputProofs!DeadlinePasses
  <1>4. Input!IdleFires => InputProofs!IdleFires
    BY DEF Input!caller, InputProofs!caller, Input!wires, InputProofs!wires, Input!Cancel,
           InputProofs!Cancel, Input!Push, InputProofs!Push, Input!Abort, InputProofs!Abort,
           Input!IdleFires, InputProofs!IdleFires
  <1>5. Input!ReadStep => InputProofs!ReadStep
    BY DEF Input!caller, InputProofs!caller, Input!wires, InputProofs!wires, Input!inp,
           InputProofs!inp, Input!outp, InputProofs!outp, Input!life, InputProofs!life,
           Input!HasInput, InputProofs!HasInput, Input!Cancel, InputProofs!Cancel,
           Input!Push, InputProofs!Push, Input!Abort, InputProofs!Abort, Input!ArmIdle,
           InputProofs!ArmIdle, Input!Reads, InputProofs!Reads, Input!ReadStray,
           InputProofs!ReadStray, Input!ReadWindow, InputProofs!ReadWindow,
           Input!ReaderAborts, InputProofs!ReaderAborts, Input!ReadCancel,
           InputProofs!ReadCancel, Input!ItemOK, InputProofs!ItemOK, Input!Spent,
           InputProofs!Spent, Input!ReadItem, InputProofs!ReadItem, Input!ReadWrong,
           InputProofs!ReadWrong, Input!ReadArm, InputProofs!ReadArm, Input!ReadEnd,
           InputProofs!ReadEnd, Input!ReadPush, InputProofs!ReadPush, Input!ReadLost,
           InputProofs!ReadLost, Input!ReadFrame, InputProofs!ReadFrame, Input!ReadStep,
           InputProofs!ReadStep
  <1>6. Input!RunSteps => InputProofs!RunSteps
    BY DEF Input!caller, InputProofs!caller, Input!wires, InputProofs!wires, Input!inp,
           InputProofs!inp, Input!outp, InputProofs!outp, Input!life, InputProofs!life,
           Input!HasInput, InputProofs!HasInput, Input!Frame, InputProofs!Frame, Input!Emit,
           InputProofs!Emit, Input!ArmIdle, InputProofs!ArmIdle, Input!InitialAllowance,
           InputProofs!InitialAllowance, Input!Start, InputProofs!Start, Input!Grant,
           InputProofs!Grant, Input!RecvAllows, InputProofs!RecvAllows, Input!RecvWindow,
           InputProofs!RecvWindow, Input!CloseOutput, InputProofs!CloseOutput,
           Input!SendEnd, InputProofs!SendEnd, Input!RunSteps, InputProofs!RunSteps
  <1>7. Input!HandlerSteps => InputProofs!HandlerSteps
    BY DEF Input!caller, InputProofs!caller, Input!wires, InputProofs!wires, Input!inp,
           InputProofs!inp, Input!outp, InputProofs!outp, Input!life, InputProofs!life,
           Input!HasInput, InputProofs!HasInput, Input!HasOutput, InputProofs!HasOutput,
           Input!NextEvent, InputProofs!NextEvent, Input!RecvItem, InputProofs!RecvItem,
           Input!RecvEnd, InputProofs!RecvEnd, Input!InputFails, InputProofs!InputFails,
           Input!Return, InputProofs!Return, Input!HandlerStops, InputProofs!HandlerStops,
           Input!HandlerSteps, InputProofs!HandlerSteps
  <1>8. Input!HandlerReturns => InputProofs!HandlerReturns
    BY DEF Input!caller, InputProofs!caller, Input!wires, InputProofs!wires, Input!inp,
           InputProofs!inp, Input!outp, InputProofs!outp, Input!HasOutput,
           InputProofs!HasOutput, Input!Return, InputProofs!Return, Input!HandlerReturns,
           InputProofs!HandlerReturns
  <1>9. Input!CloseSend => InputProofs!CloseSend
    BY DEF Input!caller, InputProofs!caller, Input!inp, InputProofs!inp, Input!life,
           InputProofs!life, Input!Frame, InputProofs!Frame, Input!Emit, InputProofs!Emit,
           Input!CloseSend, InputProofs!CloseSend
  <1>10. \A a : Input!Finish(a) => InputProofs!Finish(a)
    BY DEF Input!caller, InputProofs!caller, Input!wires, InputProofs!wires, Input!inp,
           InputProofs!inp, Input!outp, InputProofs!outp, Input!Frame, InputProofs!Frame,
           Input!Cancel, InputProofs!Cancel, Input!Emit, InputProofs!Emit,
           Input!FirstToFinish, InputProofs!FirstToFinish, Input!FinishSwap,
           InputProofs!FinishSwap, Input!FinishSend, InputProofs!FinishSend,
           Input!FinishCleanup, InputProofs!FinishCleanup, Input!Finish, InputProofs!Finish
  <1>11. \A s : Input!SendBegins(s) => InputProofs!SendBegins(s)
    BY DEF Input!caller, InputProofs!caller, Input!wires, InputProofs!wires, Input!inp,
           InputProofs!inp, Input!life, InputProofs!life, Input!HasOutput,
           InputProofs!HasOutput, Input!SendBegins, InputProofs!SendBegins
  <1>12. \A s : Input!SendUnfit(s) => InputProofs!SendUnfit(s)
    BY DEF Input!caller, InputProofs!caller, Input!wires, InputProofs!wires, Input!inp,
           InputProofs!inp, Input!Cancel, InputProofs!Cancel, Input!SendUnfit,
           InputProofs!SendUnfit
  <1>13. \A s : Input!SendSteps(s) => InputProofs!SendSteps(s)
    BY DEF Input!caller, InputProofs!caller, Input!wires, InputProofs!wires, Input!inp,
           InputProofs!inp, Input!life, InputProofs!life, Input!Frame, InputProofs!Frame,
           Input!Emit, InputProofs!Emit, Input!HasCredit, InputProofs!HasCredit,
           Input!SendAcquires, InputProofs!SendAcquires, Input!SendFails,
           InputProofs!SendFails, Input!LockFree, InputProofs!LockFree, Input!SendLocks,
           InputProofs!SendLocks, Input!SendItem, InputProofs!SendItem, Input!SendSteps,
           InputProofs!SendSteps
  <1>14. UNCHANGED Input!vars => UNCHANGED InputProofs!vars
    BY DEF Input!caller, InputProofs!caller, Input!wires, InputProofs!wires, Input!inp,
           InputProofs!inp, Input!outp, InputProofs!outp, Input!life, InputProofs!life,
           Input!vars, InputProofs!vars
  <1> QED BY <1>1, <1>2, <1>3, <1>4, <1>5, <1>6, <1>7, <1>8, <1>9, <1>10, <1>11, <1>12, <1>13,
             <1>14
          DEF Input!Finishers, InputProofs!Finishers, Input!Next, InputProofs!Next

LEMMA InputMeans == InputProofs!HandlersAnswerOnce => Input!HandlersAnswerOnce
  BY DEF Input!Finishers, Input!Frames, Input!HasInput, Input!HasOutput, Input!TypeOK,
         Input!Items, Input!Terminals, Input!OneTerminal, Input!OutputInOrder,
         Input!OutputWithinCredit, Input!HonestCallerAccepted, Input!EndMeansAllRead,
         Input!HandlersAnswerOnce, Input!Cardinality, InputProofs!Finishers,
         InputProofs!Frames, InputProofs!HasInput, InputProofs!HasOutput,
         InputProofs!TypeOK, InputProofs!Items, InputProofs!Terminals,
         InputProofs!OneTerminal, InputProofs!OutputInOrder, InputProofs!OutputWithinCredit,
         InputProofs!HonestCallerAccepted, InputProofs!EndMeansAllRead,
         InputProofs!HandlersAnswerOnce, InputProofs!Cardinality

LEMMA InputAssumed == InputProofs!HandlerAssumption
  BY Parameters DEF Input!HandlerAssumption, InputProofs!HandlerAssumption,
     Input!IsFiniteSet, InputProofs!IsFiniteSet

LEMMA OutputBegins == Output!Init => OutputProofs!Init
  BY DEF Output!Init, Output!Finishers, OutputProofs!Init, OutputProofs!Finishers

LEMMA OutputSteps == [Output!Next]_Output!vars => [OutputProofs!Next]_OutputProofs!vars
  <1>1. Output!CallerSteps => OutputProofs!CallerSteps
    BY DEF Output!inp, OutputProofs!inp, Output!outp, OutputProofs!outp, Output!life,
           OutputProofs!life, Output!HasInput, OutputProofs!HasInput, Output!HasOutput,
           OutputProofs!HasOutput, Output!Put, OutputProofs!Put, Output!CallerItem,
           OutputProofs!CallerItem, Output!CallerEnd, OutputProofs!CallerEnd,
           Output!CallerCancel, OutputProofs!CallerCancel, Output!CallerGrants,
           OutputProofs!CallerGrants, Output!CallerSeesWindow,
           OutputProofs!CallerSeesWindow, Output!CallerSteps, OutputProofs!CallerSteps
  <1>2. Output!ConnectionLost => OutputProofs!ConnectionLost
    BY DEF Output!caller, OutputProofs!caller, Output!inp, OutputProofs!inp, Output!outp,
           OutputProofs!outp, Output!life, OutputProofs!life, Output!ConnectionLost,
           OutputProofs!ConnectionLost
  <1>3. Output!DeadlinePasses => OutputProofs!DeadlinePasses
    BY DEF Output!caller, OutputProofs!caller, Output!wires, OutputProofs!wires, Output!inp,
           OutputProofs!inp, Output!outp, OutputProofs!outp, Output!DeadlinePasses,
           OutputProofs!DeadlinePasses
  <1>4. Output!IdleFires => OutputProofs!IdleFires
    BY DEF Output!caller, OutputProofs!caller, Output!wires, OutputProofs!wires,
           Output!Cancel, OutputProofs!Cancel, Output!Push, OutputProofs!Push, Output!Abort,
           OutputProofs!Abort, Output!IdleFires, OutputProofs!IdleFires
  <1>5. Output!ReadStep => OutputProofs!ReadStep
    BY DEF Output!caller, OutputProofs!caller, Output!wires, OutputProofs!wires, Output!inp,
           OutputProofs!inp, Output!outp, OutputProofs!outp, Output!life, OutputProofs!life,
           Output!HasInput, OutputProofs!HasInput, Output!Cancel, OutputProofs!Cancel,
           Output!Push, OutputProofs!Push, Output!Abort, OutputProofs!Abort, Output!ArmIdle,
           OutputProofs!ArmIdle, Output!Reads, OutputProofs!Reads, Output!ReadStray,
           OutputProofs!ReadStray, Output!ReadWindow, OutputProofs!ReadWindow,
           Output!ReaderAborts, OutputProofs!ReaderAborts, Output!ReadCancel,
           OutputProofs!ReadCancel, Output!ItemOK, OutputProofs!ItemOK, Output!Spent,
           OutputProofs!Spent, Output!ReadItem, OutputProofs!ReadItem, Output!ReadWrong,
           OutputProofs!ReadWrong, Output!ReadArm, OutputProofs!ReadArm, Output!ReadEnd,
           OutputProofs!ReadEnd, Output!ReadPush, OutputProofs!ReadPush, Output!ReadLost,
           OutputProofs!ReadLost, Output!ReadFrame, OutputProofs!ReadFrame, Output!ReadStep,
           OutputProofs!ReadStep
  <1>6. Output!RunSteps => OutputProofs!RunSteps
    BY DEF Output!caller, OutputProofs!caller, Output!wires, OutputProofs!wires, Output!inp,
           OutputProofs!inp, Output!outp, OutputProofs!outp, Output!life, OutputProofs!life,
           Output!HasInput, OutputProofs!HasInput, Output!Frame, OutputProofs!Frame,
           Output!Emit, OutputProofs!Emit, Output!ArmIdle, OutputProofs!ArmIdle,
           Output!InitialAllowance, OutputProofs!InitialAllowance, Output!Start,
           OutputProofs!Start, Output!Grant, OutputProofs!Grant, Output!RecvAllows,
           OutputProofs!RecvAllows, Output!RecvWindow, OutputProofs!RecvWindow,
           Output!CloseOutput, OutputProofs!CloseOutput, Output!SendEnd,
           OutputProofs!SendEnd, Output!RunSteps, OutputProofs!RunSteps
  <1>7. Output!HandlerSteps => OutputProofs!HandlerSteps
    BY DEF Output!caller, OutputProofs!caller, Output!wires, OutputProofs!wires, Output!inp,
           OutputProofs!inp, Output!outp, OutputProofs!outp, Output!life, OutputProofs!life,
           Output!HasInput, OutputProofs!HasInput, Output!HasOutput, OutputProofs!HasOutput,
           Output!NextEvent, OutputProofs!NextEvent, Output!RecvItem, OutputProofs!RecvItem,
           Output!RecvEnd, OutputProofs!RecvEnd, Output!InputFails, OutputProofs!InputFails,
           Output!Return, OutputProofs!Return, Output!HandlerStops,
           OutputProofs!HandlerStops, Output!HandlerSteps, OutputProofs!HandlerSteps
  <1>8. Output!HandlerReturns => OutputProofs!HandlerReturns
    BY DEF Output!caller, OutputProofs!caller, Output!wires, OutputProofs!wires, Output!inp,
           OutputProofs!inp, Output!outp, OutputProofs!outp, Output!HasOutput,
           OutputProofs!HasOutput, Output!Return, OutputProofs!Return,
           Output!HandlerReturns, OutputProofs!HandlerReturns
  <1>9. Output!CloseSend => OutputProofs!CloseSend
    BY DEF Output!caller, OutputProofs!caller, Output!inp, OutputProofs!inp, Output!life,
           OutputProofs!life, Output!Frame, OutputProofs!Frame, Output!Emit,
           OutputProofs!Emit, Output!CloseSend, OutputProofs!CloseSend
  <1>10. \A a : Output!Finish(a) => OutputProofs!Finish(a)
    BY DEF Output!caller, OutputProofs!caller, Output!wires, OutputProofs!wires, Output!inp,
           OutputProofs!inp, Output!outp, OutputProofs!outp, Output!Frame,
           OutputProofs!Frame, Output!Cancel, OutputProofs!Cancel, Output!Emit,
           OutputProofs!Emit, Output!FirstToFinish, OutputProofs!FirstToFinish,
           Output!FinishSwap, OutputProofs!FinishSwap, Output!FinishSend,
           OutputProofs!FinishSend, Output!FinishCleanup, OutputProofs!FinishCleanup,
           Output!Finish, OutputProofs!Finish
  <1>11. \A s : Output!SendBegins(s) => OutputProofs!SendBegins(s)
    BY DEF Output!caller, OutputProofs!caller, Output!wires, OutputProofs!wires, Output!inp,
           OutputProofs!inp, Output!life, OutputProofs!life, Output!HasOutput,
           OutputProofs!HasOutput, Output!SendBegins, OutputProofs!SendBegins
  <1>12. \A s : Output!SendUnfit(s) => OutputProofs!SendUnfit(s)
    BY DEF Output!caller, OutputProofs!caller, Output!wires, OutputProofs!wires, Output!inp,
           OutputProofs!inp, Output!Cancel, OutputProofs!Cancel, Output!SendUnfit,
           OutputProofs!SendUnfit
  <1>13. \A s : Output!SendSteps(s) => OutputProofs!SendSteps(s)
    BY DEF Output!caller, OutputProofs!caller, Output!wires, OutputProofs!wires, Output!inp,
           OutputProofs!inp, Output!life, OutputProofs!life, Output!Frame,
           OutputProofs!Frame, Output!Emit, OutputProofs!Emit, Output!HasCredit,
           OutputProofs!HasCredit, Output!SendAcquires, OutputProofs!SendAcquires,
           Output!SendFails, OutputProofs!SendFails, Output!LockFree, OutputProofs!LockFree,
           Output!SendLocks, OutputProofs!SendLocks, Output!SendItem, OutputProofs!SendItem,
           Output!SendSteps, OutputProofs!SendSteps
  <1>14. UNCHANGED Output!vars => UNCHANGED OutputProofs!vars
    BY DEF Output!caller, OutputProofs!caller, Output!wires, OutputProofs!wires, Output!inp,
           OutputProofs!inp, Output!outp, OutputProofs!outp, Output!life, OutputProofs!life,
           Output!vars, OutputProofs!vars
  <1> QED BY <1>1, <1>2, <1>3, <1>4, <1>5, <1>6, <1>7, <1>8, <1>9, <1>10, <1>11, <1>12, <1>13,
             <1>14
          DEF Output!Finishers, OutputProofs!Finishers, Output!Next, OutputProofs!Next

LEMMA OutputMeans == OutputProofs!HandlersAnswerOnce => Output!HandlersAnswerOnce
  BY DEF Output!Finishers, Output!Frames, Output!HasInput, Output!HasOutput, Output!TypeOK,
         Output!Items, Output!Terminals, Output!OneTerminal, Output!OutputInOrder,
         Output!OutputWithinCredit, Output!HonestCallerAccepted, Output!EndMeansAllRead,
         Output!HandlersAnswerOnce, Output!Cardinality, OutputProofs!Finishers,
         OutputProofs!Frames, OutputProofs!HasInput, OutputProofs!HasOutput,
         OutputProofs!TypeOK, OutputProofs!Items, OutputProofs!Terminals,
         OutputProofs!OneTerminal, OutputProofs!OutputInOrder,
         OutputProofs!OutputWithinCredit, OutputProofs!HonestCallerAccepted,
         OutputProofs!EndMeansAllRead, OutputProofs!HandlersAnswerOnce,
         OutputProofs!Cardinality

LEMMA OutputAssumed == OutputProofs!HandlerAssumption
  BY Parameters DEF Output!HandlerAssumption, OutputProofs!HandlerAssumption,
     Output!IsFiniteSet, OutputProofs!IsFiniteSet

-------------------------------------------------------------------------------
(* The suite.                                                              *)

SuiteInv ==
    /\ MeshInv
    /\ part = "input" => InputProofs!CallInv
    /\ part = "output" => OutputProofs!CallInv

\* The invariants hold at the beginning, and every step keeps them.
LEMMA SuiteInitially == ASSUME SuiteInit PROVE SuiteInv
  <1>1. MeshInv
    BY Parameters, MeshInitially DEF SuiteInit
  <1>2. ASSUME part = "input" PROVE InputProofs!CallInv
    <2>1. Input!Init
      BY <1>2 DEF SuiteInit
    <2> QED BY <2>1, InputBegins, InputAssumed, InputProofs!CallInitially
  <1>3. ASSUME part = "output" PROVE OutputProofs!CallInv
    <2>1. Output!Init
      BY <1>3 DEF SuiteInit
    <2> QED BY <2>1, OutputBegins, OutputAssumed, OutputProofs!CallInitially
  <1> QED BY <1>1, <1>2, <1>3 DEF SuiteInv

\* What a step of the suite is to a part.
LEMMA SuiteMoves ==
  ASSUME [SuiteNext]_suiteVars
  PROVE  /\ part' = part /\ [Sharing!Next]_Sharing!vars
         /\ part = "input" => [Input!Next]_Input!vars
         /\ part = "output" => [Output!Next]_Output!vars
  <1>m. UNCHANGED meshVars => UNCHANGED Sharing!vars
    BY DEF meshVars, Sharing!vars, Sharing!router, Sharing!mesh
  <1>i. UNCHANGED callVars => UNCHANGED Input!vars
    BY DEF callVars, Input!vars, Input!caller, Input!wires, Input!inp, Input!outp, Input!life
  <1>o. UNCHANGED callVars => UNCHANGED Output!vars
    BY DEF callVars, Output!vars, Output!caller, Output!wires, Output!inp, Output!outp,
       Output!life
  <1>1. CASE LinkStep \/ InjectStep \/ ReflectStep \/ UNCHANGED suiteVars
    <2>1. part' = part /\ UNCHANGED callVars /\ UNCHANGED meshVars
      BY <1>1 DEF LinkStep, InjectStep, ReflectStep, suiteVars
    <2> QED BY <2>1, <1>m, <1>i, <1>o
  <1>2. CASE InputStep
    <2>1. part' = part /\ part = "input" /\ Input!Next /\ UNCHANGED meshVars
      BY <1>2 DEF InputStep
    <2> QED BY <2>1, <1>m
  <1>3. CASE OutputStep
    <2>1. part' = part /\ part = "output" /\ Output!Next /\ UNCHANGED meshVars
      BY <1>3 DEF OutputStep
    <2> QED BY <2>1, <1>m
  <1>4. CASE SharingStep
    <2>1. part' = part /\ Sharing!Next /\ UNCHANGED callVars
      BY <1>4 DEF SharingStep
    <2> QED BY <2>1, <1>i, <1>o
  <1> QED BY <1>1, <1>2, <1>3, <1>4 DEF SuiteNext

LEMMA SuiteStep == ASSUME SuiteInv, [SuiteNext]_suiteVars PROVE SuiteInv'
  <1>0. /\ part' = part /\ [Sharing!Next]_Sharing!vars
        /\ part = "input" => [Input!Next]_Input!vars
        /\ part = "output" => [Output!Next]_Output!vars
    BY SuiteMoves
  <1>1. MeshInv'
    BY <1>0, Parameters, MeshInvStep DEF SuiteInv
  <1>2. ASSUME part = "input" PROVE InputProofs!CallInv'
    <2>1. InputProofs!CallInv /\ [InputProofs!Next]_InputProofs!vars
      BY <1>0, <1>2, InputSteps DEF SuiteInv
    <2> QED BY <2>1, InputAssumed, InputProofs!CallStep
  <1>3. ASSUME part = "output" PROVE OutputProofs!CallInv'
    <2>1. OutputProofs!CallInv /\ [OutputProofs!Next]_OutputProofs!vars
      BY <1>0, <1>3, OutputSteps DEF SuiteInv
    <2> QED BY <2>1, OutputAssumed, OutputProofs!CallStep
  <1> QED BY <1>0, <1>1, <1>2, <1>3 DEF SuiteInv

\* However two meshes and their servers connect, serve, fail and close around the
\* Router they share: a Router subprocess that lives and was not told to exit is
\* the one Stop would stop, or is being started or stopped; when no operation runs
\* and no Mesh owns the Router, none that a Mesh started is up; a server that is
\* up is the active one of its Mesh, or an operation holds it, unless two
\* StartServing of that Mesh have overlapped.
THEOREM MeshesOwnTheirRouters == SuiteSpec => []RoutersOwned
  <1>1. SuiteInit => SuiteInv
    BY SuiteInitially
  <1>2. SuiteInv /\ [SuiteNext]_suiteVars => SuiteInv'
    BY SuiteStep
  <1>3. SuiteInv => RoutersOwned
    BY Parameters, MeshInvMeans DEF SuiteInv, RoutersOwned
  <1> QED BY <1>1, <1>2, <1>3, PTL DEF SuiteSpec

\* One call with input and one with output, whatever their window, their senders
\* and the number of their items: one terminal frame, output in order and within
\* credit, no caller failed that keeps to its credit, no item lost before the end.
THEOREM ServerAnswersOnce == SuiteSpec => []HandlersAnswerOnce
  <1>1. SuiteInit => SuiteInv
    BY SuiteInitially
  <1>2. SuiteInv /\ [SuiteNext]_suiteVars => SuiteInv'
    BY SuiteStep
  <1>3. ASSUME SuiteInv PROVE HandlersAnswerOnce
    <2>1. ASSUME part = "input" PROVE Input!HandlersAnswerOnce
      <3>1. InputProofs!HandlersAnswerOnce
        BY <1>3, <2>1, InputAssumed, InputProofs!CallKeepsItsWord DEF SuiteInv
      <3> QED BY <3>1, InputMeans
    <2>2. ASSUME part = "output" PROVE Output!HandlersAnswerOnce
      <3>1. OutputProofs!HandlersAnswerOnce
        BY <1>3, <2>2, OutputAssumed, OutputProofs!CallKeepsItsWord DEF SuiteInv
      <3> QED BY <3>1, OutputMeans
    <2> QED BY <2>1, <2>2 DEF HandlersAnswerOnce
  <1> QED BY <1>1, <1>2, <1>3, PTL DEF SuiteSpec

===============================================================================

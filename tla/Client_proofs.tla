---------------------------- MODULE Client_proofs ----------------------------
(***************************************************************************)
(* Proofs about calls seen from those who make them, for any number of     *)
(* callers, endpoints, connections, requests and items and any limit,      *)
(* credit and timeout: the connection of the Go SDK's client, one call of  *)
(* it, its retries, the Router's HTTP gateway and the gateway's two        *)
(* streams.  Each part has an inductive invariant of its own; the suite's  *)
(* theorems, at the end, follow from them.                                 *)
(***************************************************************************)
EXTENDS MCClient, SequenceLemmas

-------------------------------------------------------------------------------
(* client.go: the connection, its dialling, its readers and Close.         *)

DialStages == {"dialing", "passed", "dialed"}
OpenStages == {"registered", "waiting", "ended"}
WireFrames == {"open", "cancel"}
Dials == [offset : 0..Endpoints, passes : 0..MaxPasses, retry : BOOLEAN, tried : SUBSET (0..(Endpoints - 1))]

LinkTypes ==
    /\ conn \in 0..MaxConns /\ cursor \in 0..(Endpoints - 1)
    /\ everConnected \in BOOLEAN /\ connecting \in BOOLEAN /\ linkClosed \in BOOLEAN
    /\ linkCalls \subseteq Callers
    /\ up \in [Link!Conns -> {"unmade", "open", "closed"}]
    /\ linkReader \in [Link!Conns -> {"none", "reading", "lost", "failing"}]
    /\ snap \in [0..MaxConns -> SUBSET Callers]
    /\ closer \in [at : {"idle", "closing", "snapshot", "failing"},
                   conn : 0..MaxConns, runs : 0..MaxCloses]
    /\ linkPc \in [Callers -> Link!Stages] /\ on \in [Callers -> 0..MaxConns]
    /\ dial \in [Callers -> Dials]
    /\ linkFailure \in [Callers -> Link!Errors \cup {"none"}] /\ queued \in [Callers -> BOOLEAN]
    /\ linkOutcome \in [Callers -> Link!Errors \cup {"none", "answered", "refused", "cancelled"}]
    /\ linkAbort \in [Callers -> {"idle", "checked", "telling", "over"}]
    /\ wire \in [Callers -> Seq(WireFrames)]

\* Somebody dials exactly while connecting is set, alone, and without a connection.
OneDials ==
    /\ \A c \in Callers : linkPc[c] \in DialStages => connecting
    /\ \A c, d \in Callers : linkPc[c] \in DialStages /\ linkPc[d] \in DialStages => c = d
    /\ connecting => conn = 0

\* The pass of the caller that dials has tried the endpoints from the cursor on.
Tried(c) == {(cursor + j) % Endpoints : j \in 0..(dial[c].offset - 1)}
PassInv ==
    \A c \in Callers :
        /\ linkPc[c] \in {"dialing", "passed"} => dial[c].tried = Tried(c)
        /\ linkPc[c] = "dialing" => dial[c].offset < Endpoints
        /\ linkPc[c] = "passed" => dial[c].offset = Endpoints

\* Which calls c.calls and the snapshots of failAll can hold.
CallInv(c) ==
    /\ c \in linkCalls => linkPc[c] \in OpenStages /\ linkFailure[c] \in {"none", "aborted"} /\ ~queued[c]
    /\ linkPc[c] \notin OpenStages => linkFailure[c] \in {"none", "aborted"}
    /\ \A k \in 0..MaxConns : c \in snap[k] => linkPc[c] \in OpenStages
    /\ linkPc[c] \notin {"waiting", "ended"} =>
         ~queued[c] /\ \A i \in DOMAIN wire[c] : wire[c][i] # "open"
    /\ c \in linkCalls /\ linkPc[c] = "ended" => linkOutcome[c] = "aborted"
CallsInv == \A c \in Callers : CallInv(c)

LinkInv == LinkTypes /\ OneDials /\ PassInv /\ Link!NoOrphanConnection /\ CallsInv

-------------------------------------------------------------------------------
(* Arithmetic of the endpoints. *)

LEMMA ModBelow == ASSUME NEW n \in Nat \ {0}, NEW a \in 0..(n - 1) PROVE a % n = a
  OBVIOUS
LEMMA ModAbove == ASSUME NEW n \in Nat \ {0}, NEW a \in n..(2 * n - 1) PROVE a % n = a - n
  OBVIOUS
LEMMA ModRange == ASSUME NEW n \in Nat \ {0}, NEW a \in Nat PROVE a % n \in 0..(n - 1)
  OBVIOUS

\* N endpoints in a row from any cursor are all of them.
LEMMA WholeRound ==
  ASSUME NEW n \in Nat \ {0}, NEW a \in 0..(n - 1)
  PROVE  {(a + j) % n : j \in 0..(n - 1)} = 0..(n - 1)
  <1>1. ASSUME NEW j \in 0..(n - 1) PROVE (a + j) % n \in 0..(n - 1)
    <2>1. a + j \in Nat
      OBVIOUS
    <2> QED BY <2>1, ModRange
  <1>2. ASSUME NEW x \in 0..(n - 1) PROVE \E j \in 0..(n - 1) : (a + j) % n = x
    <2>1. CASE x >= a
      <3>1. x - a \in 0..(n - 1) /\ a + (x - a) = x
        BY <2>1
      <3>2. (a + (x - a)) % n = x
        BY <3>1, ModBelow
      <3> QED BY <3>1, <3>2
    <2>2. CASE x < a
      <3>1. (x - a) + n \in 0..(n - 1) /\ a + ((x - a) + n) = x + n
        BY <2>2
      <3>2. x + n \in n..(2 * n - 1)
        OBVIOUS
      <3>3. (x + n) % n = x
        <4>1. (x + n) % n = (x + n) - n
          BY <3>2, ModAbove
        <4> QED BY <4>1
      <3>4. (a + ((x - a) + n)) % n = x
        BY <3>1, <3>3
      <3> QED BY <3>1, <3>4
    <2> QED BY <2>1, <2>2
  <1> QED BY <1>1, <1>2

-------------------------------------------------------------------------------
(* Types. *)

\* The invariant holds at the beginning.
LEMMA LinkInitially == ASSUME Link!LinkAssumption, Link!Init PROVE LinkInv
  <1>1. LinkTypes
    <2>1. 0 \in 0..MaxConns /\ 0 \in 0..(Endpoints - 1) /\ 0 \in 0..Endpoints /\ 0 \in 0..MaxPasses /\ 0 \in 0..MaxCloses
      BY DEF Link!LinkAssumption
    <2>2. Link!NoDial \in Dials
      BY <2>1 DEF Link!NoDial, Dials
    <2>3. <<>> \in Seq(WireFrames)
      OBVIOUS
    <2>4. closer \in [at : {"idle", "closing", "snapshot", "failing"}, conn : 0..MaxConns, runs : 0..MaxCloses]
      BY <2>1 DEF Link!Init
    <2>5. everConnected \in BOOLEAN /\ connecting \in BOOLEAN /\ linkClosed \in BOOLEAN
      BY DEF Link!Init
    <2> QED BY <2>1, <2>2, <2>3, <2>4, <2>5 DEF Link!Init, LinkTypes, Link!Stages, Link!Errors
  <1>2. /\ \A c \in Callers : /\ linkPc[c] = "ask" /\ linkFailure[c] = "none" /\ queued[c] = FALSE
                            /\ wire[c] = <<>>
        /\ \A k \in 0..MaxConns : snap[k] = {}
        /\ \A k \in Link!Conns : up[k] = "unmade"
        /\ linkCalls = {} /\ conn = 0
    BY DEF Link!Init
  <1>3. OneDials /\ PassInv /\ Link!NoOrphanConnection
    BY <1>2 DEF OneDials, PassInv, Link!NoOrphanConnection, DialStages
  <1>4. CallsInv
    <2> SUFFICES ASSUME NEW c \in Callers PROVE CallInv(c)
      BY DEF CallsInv
    <2>1. /\ linkPc[c] = "ask" /\ linkFailure[c] = "none" /\ ~queued[c] /\ c \notin linkCalls
          /\ \A k \in 0..MaxConns : c \notin snap[k]
      BY <1>2
    <2>2. \A i \in DOMAIN wire[c] : wire[c][i] # "open"
      BY <1>2
    <2> QED BY <2>1, <2>2 DEF CallInv, OpenStages
  <1> QED BY <1>1, <1>3, <1>4 DEF LinkInv

LEMMA FailTypes ==
  ASSUME LinkTypes, NEW c \in Callers, NEW e \in Link!Errors, Link!Fail(c, e)
  PROVE  linkFailure' \in [Callers -> Link!Errors \cup {"none"}] /\ linkCalls' \subseteq Callers
  BY DEF LinkTypes, Link!Fail

LEMMA SentTypes ==
  ASSUME LinkTypes, NEW c \in Callers, NEW f \in WireFrames
  PROVE  Link!Sent(c, f) \in [Callers -> Seq(WireFrames)]
  <1>1. wire \in [Callers -> Seq(WireFrames)] /\ Append(wire[c], f) \in Seq(WireFrames)
    BY AppendProperties DEF LinkTypes
  <1> QED BY <1>1 DEF Link!Sent

LEMMA IndexRange ==
  ASSUME Link!LinkAssumption, LinkTypes, NEW c \in Callers
  PROVE  Link!Index(c) \in 0..(Endpoints - 1)
  <1>1. Endpoints \in Nat \ {0} /\ cursor \in Nat /\ dial[c].offset \in Nat
    BY DEF Link!LinkAssumption, LinkTypes, Dials
  <1>2. cursor + dial[c].offset \in Nat
    BY <1>1
  <1> QED BY <1>1, <1>2, ModRange DEF Link!Index

\* The connection that a handshake makes is the first of those not made yet.
FirstUnmade == CHOOSE k \in Link!Unmade : \A other \in Link!Unmade : k <= other

LEMMA FirstUnmadeExists ==
  ASSUME Link!Unmade # {}
  PROVE  FirstUnmade \in Link!Unmade /\ FirstUnmade \in Link!Conns /\ up[FirstUnmade] = "unmade"
  <1>1. Link!Unmade \in SUBSET Nat
    BY DEF Link!Unmade, Link!Conns
  <1>2. \E k \in Link!Unmade : \A other \in Link!Unmade : k <= other
    BY <1>1, LeastExists
  <1>3. FirstUnmade \in Link!Unmade
    BY <1>2 DEF FirstUnmade
  <1> QED BY <1>3 DEF Link!Unmade

LEMMA LinkAskTypes ==
  ASSUME Link!LinkAssumption, LinkTypes, NEW c \in Callers, Link!Asking(c) \/ Link!WaitGivesUp(c)
  PROVE  LinkTypes'
  <1> USE DEF Link!link, Link!ends, Link!call
  <1>1. CASE Link!UseConn(c)
    BY <1>1 DEF Link!UseConn, LinkTypes, Link!Stages
  <1>2. CASE Link!WaitGivesUp(c)
    BY <1>2 DEF Link!WaitGivesUp, Link!Ended, LinkTypes, Link!Stages
  <1>3. CASE Link!BeginDial(c)
    <2>1. [Link!NoDial EXCEPT !.retry = everConnected] \in Dials
      <3>1. 0 \in 0..Endpoints /\ 0 \in 0..MaxPasses /\ everConnected \in BOOLEAN
        BY DEF LinkTypes, Link!LinkAssumption
      <3> QED BY <3>1 DEF Link!NoDial, Dials
    <2>2. dial' \in [Callers -> Dials] /\ linkPc' \in [Callers -> Link!Stages]
      BY <1>3, <2>1 DEF Link!BeginDial, LinkTypes, Link!Stages
    <2>3. linkClosed' \in BOOLEAN /\ connecting' \in BOOLEAN
      BY <1>3 DEF Link!BeginDial
    <2> QED BY <1>3, <2>2, <2>3 DEF Link!BeginDial, LinkTypes
  <1> QED BY <1>1, <1>2, <1>3 DEF Link!Asking

LEMMA LinkDialTypes ==
  ASSUME Link!LinkAssumption, LinkTypes, PassInv, NEW c \in Callers, Link!Dialling(c)
  PROVE  LinkTypes'
  <1> USE DEF Link!link, Link!ends, Link!call
  <1>0. Link!NoDial \in Dials /\ Endpoints \in Nat \ {0} /\ MaxPasses \in Nat
    BY DEF Link!NoDial, Dials, Link!LinkAssumption
  <1>d. /\ dial \in [Callers -> Dials] /\ dial[c].offset \in 0..Endpoints /\ dial[c].passes \in 0..MaxPasses
        /\ dial[c].retry \in BOOLEAN /\ dial[c].tried \in SUBSET (0..(Endpoints - 1))
        /\ dial[c] \in Dials
    BY DEF LinkTypes, Dials
  <1>1. CASE Link!HandshakeSucceeds(c)
    <2>1. FirstUnmade \in Link!Conns /\ FirstUnmade \in 0..MaxConns
      BY <1>1, FirstUnmadeExists DEF Link!HandshakeSucceeds, Link!Conns
    <2>2. up' = [up EXCEPT ![FirstUnmade] = "open"] /\ on' = [on EXCEPT ![c] = FirstUnmade]
      BY <1>1 DEF Link!HandshakeSucceeds, FirstUnmade
    <2>3. cursor' \in 0..(Endpoints - 1)
      BY <1>1, IndexRange DEF Link!HandshakeSucceeds
    <2>4. dial' \in [Callers -> Dials] /\ linkPc' \in [Callers -> Link!Stages]
      BY <1>0, <1>1 DEF Link!HandshakeSucceeds, LinkTypes, Link!Stages
    <2>5. up' \in [Link!Conns -> {"unmade", "open", "closed"}] /\ on' \in [Callers -> 0..MaxConns]
      BY <2>1, <2>2 DEF LinkTypes
    <2> QED BY <1>1, <2>3, <2>4, <2>5 DEF Link!HandshakeSucceeds, LinkTypes
  <1>2. CASE Link!HandshakeFails(c)
    <2>1. Link!Index(c) \in 0..(Endpoints - 1)
      BY IndexRange
    <2>2. dial[c].offset + 1 \in 0..Endpoints
      BY <1>0, <1>2, <1>d DEF Link!HandshakeFails, PassInv
    <2>3. [dial[c] EXCEPT !.offset = @ + 1, !.tried = @ \cup {Link!Index(c)}] \in Dials
      BY <1>d, <2>1, <2>2 DEF Dials
    <2>4. dial' = [dial EXCEPT ![c] = [dial[c] EXCEPT !.offset = @ + 1, !.tried = @ \cup {Link!Index(c)}]]
      BY <1>2, <1>d DEF Link!HandshakeFails, Dials
    <2>5. dial' \in [Callers -> Dials] /\ linkPc' \in [Callers -> Link!Stages]
      BY <1>2, <1>d, <2>3, <2>4 DEF Link!HandshakeFails, LinkTypes, Link!Stages
    <2> QED BY <1>2, <2>5 DEF Link!HandshakeFails, LinkTypes
  <1>3. CASE Link!NextPass(c)
    <2>1. dial[c].passes + 1 \in 0..MaxPasses /\ 0 \in 0..Endpoints
      BY <1>0, <1>3, <1>d DEF Link!NextPass
    <2>2. [dial[c] EXCEPT !.offset = 0, !.tried = {}, !.passes = @ + 1] \in Dials
      BY <1>d, <2>1 DEF Dials
    <2>3. dial' = [dial EXCEPT ![c] = [dial[c] EXCEPT !.offset = 0, !.tried = {}, !.passes = @ + 1]]
      BY <1>3, <1>d DEF Link!NextPass, Dials
    <2>4. dial' \in [Callers -> Dials] /\ linkPc' \in [Callers -> Link!Stages]
      BY <1>3, <1>d, <2>2, <2>3 DEF Link!NextPass, LinkTypes, Link!Stages
    <2> QED BY <1>3, <2>4 DEF Link!NextPass, LinkTypes
  <1>4. CASE Link!DialFails(c)
    <2>0. linkPc' = [linkPc EXCEPT ![c] = "ended"] /\ dial' = [dial EXCEPT ![c] = Link!NoDial]
      BY <1>4 DEF Link!DialFails, Link!Ended
    <2>1. dial' \in [Callers -> Dials] /\ linkPc' \in [Callers -> Link!Stages]
      BY <1>0, <2>0 DEF LinkTypes, Link!Stages
    <2>2. linkOutcome' \in [Callers -> Link!Errors \cup {"none", "answered", "refused", "cancelled"}]
      BY <1>4 DEF Link!DialFails, Link!Ended, LinkTypes
    <2>3. connecting' \in BOOLEAN
      BY <1>4 DEF Link!DialFails, Link!CloseConnecting
    <2> QED BY <1>4, <2>1, <2>2, <2>3 DEF Link!DialFails, LinkTypes
  <1>5. CASE Link!Publish(c)
    <2>1. connecting' \in BOOLEAN /\ everConnected' \in BOOLEAN
      BY <1>5 DEF Link!Publish, Link!CloseConnecting
    <2>2. conn' \in 0..MaxConns /\ linkPc' \in [Callers -> Link!Stages]
      BY <1>5 DEF Link!Publish, LinkTypes, Link!Stages
    <2> QED BY <1>5, <2>1, <2>2 DEF Link!Publish, LinkTypes
  <1>6. CASE Link!StartReader(c)
    BY <1>6 DEF Link!StartReader, LinkTypes, Link!Stages
  <1> QED BY <1>1, <1>2, <1>3, <1>4, <1>5, <1>6 DEF Link!Dialling

LEMMA LinkOpenTypes ==
  ASSUME LinkTypes, NEW c \in Callers, Link!Opening(c) \/ Link!Aborting(c)
  PROVE  LinkTypes'
  <1> USE DEF Link!link, Link!ends, Link!call
  <1>1. CASE Link!ArmTimer(c)
    BY <1>1 DEF Link!ArmTimer, LinkTypes, Link!Stages
  <1>2. CASE Link!Register(c)
    BY <1>2 DEF Link!Register, LinkTypes, Link!Stages
  <1>3. CASE Link!SendOpen(c)
    <2>1. wire' \in [Callers -> Seq(WireFrames)]
      BY <1>3, SentTypes DEF Link!SendOpen, WireFrames
    <2> QED BY <1>3, <2>1 DEF Link!SendOpen, LinkTypes, Link!Stages
  <1>4. CASE Link!OpenFails(c)
    <2>1. linkFailure' \in [Callers -> Link!Errors \cup {"none"}] /\ linkCalls' \subseteq Callers
      BY <1>4, FailTypes DEF Link!OpenFails, Link!Errors
    <2>2. linkPc' \in [Callers -> Link!Stages] /\ linkOutcome' \in [Callers -> Link!Errors \cup {"none", "answered", "refused", "cancelled"}]
      BY <1>4, <2>1 DEF Link!OpenFails, Link!Ended, LinkTypes, Link!Stages
    <2> QED BY <1>4, <2>1, <2>2 DEF Link!OpenFails, LinkTypes
  <1>5. CASE Link!Return(c)
    BY <1>5 DEF Link!Return, Link!Ended, LinkTypes, Link!Stages
  <1>6. CASE Link!AbortBegins(c)
    BY <1>6 DEF Link!AbortBegins, LinkTypes
  <1>7. CASE Link!AbortFails(c)
    <2>1. linkFailure' \in [Callers -> Link!Errors \cup {"none"}] /\ linkCalls' \subseteq Callers
      BY <1>7, FailTypes DEF Link!AbortFails, Link!Errors
    <2> QED BY <1>7, <2>1 DEF Link!AbortFails, LinkTypes
  <1>8. CASE Link!AbortTells(c)
    <2>1. wire' \in [Callers -> Seq(WireFrames)]
      BY <1>8, SentTypes DEF Link!AbortTells, WireFrames
    <2> QED BY <1>8, <2>1 DEF Link!AbortTells, LinkTypes
  <1> QED BY <1>1, <1>2, <1>3, <1>4, <1>5, <1>6, <1>7, <1>8 DEF Link!Opening, Link!Aborting

LEMMA LinkEndTypes ==
  ASSUME Link!LinkAssumption, LinkTypes,
         \/ \E k \in Link!Conns : Link!Break(k) \/ Link!ReaderStep(k) \/ \E c \in Callers : Link!Deliver(k, c)
         \/ Link!Closing
  PROVE  LinkTypes'
  <1> USE DEF Link!link, Link!ends, Link!call
  <1>0. /\ Link!Conns \subseteq 0..MaxConns /\ 0 \in 0..MaxConns
        /\ Endpoints \in Nat \ {0} /\ MaxCloses \in Nat
    BY DEF Link!Conns, Link!LinkAssumption
  <1>1. ASSUME NEW k \in Link!Conns, Link!Break(k) PROVE LinkTypes'
    BY <1>1 DEF Link!Break, LinkTypes
  <1>2. ASSUME NEW k \in Link!Conns, NEW c \in Callers, Link!Deliver(k, c) PROVE LinkTypes'
    BY <1>2 DEF Link!Deliver, LinkTypes
  <1>3. ASSUME NEW k \in Link!Conns, Link!ReaderStops(k) PROVE LinkTypes'
    <2>1. cursor' \in 0..(Endpoints - 1)
      <3>1. cursor + 1 \in Nat /\ cursor \in 0..(Endpoints - 1)
        BY DEF LinkTypes
      <3>2. (cursor + 1) % Endpoints \in 0..(Endpoints - 1)
        BY <1>0, <3>1, ModRange
      <3> QED BY <1>3, <3>1, <3>2 DEF Link!ReaderStops, Link!CursorAfter
    <2>2. conn' \in 0..MaxConns
      BY <1>0, <1>3 DEF Link!ReaderStops, LinkTypes
    <2> QED BY <1>3, <2>1, <2>2 DEF Link!ReaderStops, LinkTypes
  <1>4. ASSUME NEW k \in Link!Conns, Link!Snapshot(k) PROVE LinkTypes'
    <2>1. snap' \in [0..MaxConns -> SUBSET Callers]
      BY <1>0, <1>4 DEF Link!Snapshot, Link!OfConn, LinkTypes
    <2> QED BY <1>4, <2>1 DEF Link!Snapshot, LinkTypes
  <1>5. ASSUME NEW k \in Link!Conns, NEW c \in Callers, Link!FailOne(k, c) PROVE LinkTypes'
    <2>1. linkFailure' \in [Callers -> Link!Errors \cup {"none"}] /\ linkCalls' \subseteq Callers
      BY <1>5, FailTypes DEF Link!FailOne, Link!Errors
    <2>2. snap' \in [0..MaxConns -> SUBSET Callers]
      BY <1>0, <1>5 DEF Link!FailOne, LinkTypes
    <2> QED BY <1>5, <2>1, <2>2 DEF Link!FailOne, LinkTypes
  <1>6. CASE Link!CloseBegins
    <2>1. closer.runs + 1 \in 0..MaxCloses /\ conn \in 0..MaxConns
      BY <1>0, <1>6 DEF Link!CloseBegins, LinkTypes
    <2>2. closer' \in [at : {"idle", "closing", "snapshot", "failing"}, conn : 0..MaxConns, runs : 0..MaxCloses]
      BY <1>6, <2>1 DEF Link!CloseBegins
    <2>3. linkClosed' \in BOOLEAN /\ conn' \in 0..MaxConns
      BY <1>0, <1>6 DEF Link!CloseBegins
    <2> QED BY <1>6, <2>2, <2>3 DEF Link!CloseBegins, LinkTypes
  <1>7. CASE Link!CloseConn
    <2>1. closer' \in [at : {"idle", "closing", "snapshot", "failing"}, conn : 0..MaxConns, runs : 0..MaxCloses]
      BY <1>0, <1>7 DEF Link!CloseConn, LinkTypes
    <2>2. up' \in [Link!Conns -> {"unmade", "open", "closed"}]
      BY <1>7 DEF Link!CloseConn, LinkTypes
    <2> QED BY <1>7, <2>1, <2>2 DEF Link!CloseConn, LinkTypes
  <1>8. CASE Link!CloseSnapshot
    <2>1. closer' \in [at : {"idle", "closing", "snapshot", "failing"}, conn : 0..MaxConns, runs : 0..MaxCloses]
      BY <1>8 DEF Link!CloseSnapshot, LinkTypes
    <2>2. snap' \in [0..MaxConns -> SUBSET Callers]
      BY <1>0, <1>8 DEF Link!CloseSnapshot, LinkTypes
    <2> QED BY <1>8, <2>1, <2>2 DEF Link!CloseSnapshot, LinkTypes
  <1>9. ASSUME NEW c \in Callers, Link!CloseFails(c) PROVE LinkTypes'
    <2>1. linkFailure' \in [Callers -> Link!Errors \cup {"none"}] /\ linkCalls' \subseteq Callers
      BY <1>9, FailTypes DEF Link!CloseFails, Link!Errors
    <2>2. snap' \in [0..MaxConns -> SUBSET Callers]
      BY <1>0, <1>9 DEF Link!CloseFails, LinkTypes
    <2> QED BY <1>9, <2>1, <2>2 DEF Link!CloseFails, LinkTypes
  <1> QED BY <1>1, <1>2, <1>3, <1>4, <1>5, <1>6, <1>7, <1>8, <1>9 DEF Link!ReaderStep,
             Link!Closing

LEMMA LinkTypesStep ==
  ASSUME Link!LinkAssumption, LinkTypes, PassInv, [Link!Next]_Link!vars
  PROVE  LinkTypes'
  <1>1. CASE UNCHANGED Link!vars
    BY <1>1 DEF Link!vars, Link!link, Link!ends, Link!call, LinkTypes
  <1> QED BY <1>1, LinkAskTypes, LinkDialTypes, LinkOpenTypes, LinkEndTypes DEF Link!Next

-------------------------------------------------------------------------------
(* Who dials. *)

\* A step that leaves the callers who dial, the client's connection and what Close closes alone.
LEMMA DialsKept ==
  ASSUME OneDials, PassInv, Link!NoOrphanConnection,
         UNCHANGED <<conn, cursor, connecting>>,
         \A k \in Link!Conns : up'[k] = "open" => up[k] = "open",
         closer.at = "closing" => closer' = closer,
         \A c \in Callers : (linkPc[c] \in DialStages) \/ (linkPc'[c] \in DialStages) =>
             linkPc'[c] = linkPc[c] /\ on'[c] = on[c] /\ dial'[c] = dial[c]
  PROVE  OneDials' /\ PassInv' /\ Link!NoOrphanConnection'
  <1>1. OneDials'
    BY DEF OneDials
  <1>2. PassInv'
    BY DEF PassInv, Tried, DialStages
  <1>3. Link!NoOrphanConnection'
    BY DEF Link!NoOrphanConnection, DialStages
  <1> QED BY <1>1, <1>2, <1>3

LEMMA BeginDialOnly ==
  ASSUME Link!LinkAssumption, LinkTypes, OneDials, PassInv, Link!NoOrphanConnection,
         NEW c \in Callers, Link!BeginDial(c)
  PROVE  OneDials' /\ PassInv' /\ Link!NoOrphanConnection'
  <1>t. Endpoints \in Nat \ {0}
    BY DEF Link!LinkAssumption
  <1>1. /\ conn = 0 /\ conn' = 0 /\ connecting' /\ cursor' = cursor
        /\ up' = up /\ closer' = closer /\ on' = on
        /\ linkPc' = [linkPc EXCEPT ![c] = "dialing"]
        /\ \A d \in Callers : linkPc[d] \notin DialStages
    BY DEF Link!BeginDial, Link!MayDial, OneDials, Link!ends
  <1>2. linkPc'[c] = "dialing" /\ \A d \in Callers \ {c} : linkPc'[d] = linkPc[d]
    BY <1>1 DEF LinkTypes
  <1>3. dial'[c].offset = 0 /\ dial'[c].tried = {}
    BY DEF Link!BeginDial, LinkTypes, Link!NoDial
  <1>4. OneDials'
    BY <1>1, <1>2 DEF OneDials
  <1>5. PassInv'
    <2>1. {(cursor' + j) % Endpoints : j \in 0..(0 - 1)} = {}
      OBVIOUS
    <2>2. Tried(c)' = {}
      BY <1>3, <2>1 DEF Tried
    <2> QED BY <1>t, <1>1, <1>2, <1>3, <2>2 DEF PassInv, DialStages
  <1>6. Link!NoOrphanConnection'
    BY <1>1 DEF Link!NoOrphanConnection, DialStages
  <1> QED BY <1>4, <1>5, <1>6

\* A step of the caller who dials: nobody else does.
LEMMA DiallerSteps ==
  ASSUME Link!LinkAssumption, LinkTypes, OneDials, PassInv, Link!NoOrphanConnection,
         NEW c \in Callers,
         Link!HandshakeSucceeds(c) \/ Link!HandshakeFails(c) \/ Link!NextPass(c) \/ Link!DialFails(c) \/ Link!Publish(c)
  PROVE  OneDials' /\ PassInv' /\ Link!NoOrphanConnection'
  <1>t. Endpoints \in Nat \ {0} /\ dial[c].offset \in 0..Endpoints /\ cursor \in 0..(Endpoints - 1)
    BY DEF Link!LinkAssumption, LinkTypes, Dials
  <1>0. /\ linkPc[c] \in DialStages /\ connecting /\ conn = 0
        /\ \A d \in Callers \ {c} : linkPc[d] \notin DialStages
        /\ closer' = closer
    <2>1. linkPc[c] \in DialStages /\ closer' = closer
      BY DEF Link!HandshakeSucceeds, Link!HandshakeFails, Link!NextPass, Link!DialFails,
         Link!Publish, DialStages, Link!ends
    <2> QED BY <2>1 DEF OneDials
  <1>p. \A d \in Callers \ {c} : linkPc'[d] = linkPc[d]
    BY DEF Link!HandshakeSucceeds, Link!HandshakeFails, Link!NextPass, Link!DialFails,
       Link!Publish, Link!Ended, LinkTypes
  <1>1. CASE Link!HandshakeSucceeds(c)
    <2>1. /\ conn' = conn /\ connecting' = connecting
          /\ up' = [up EXCEPT ![FirstUnmade] = "open"] /\ on' = [on EXCEPT ![c] = FirstUnmade]
          /\ linkPc[c] = "dialing" /\ linkPc'[c] = "dialed"
      BY <1>1 DEF Link!HandshakeSucceeds, FirstUnmade, LinkTypes
    <2>2. OneDials'
      BY <1>0, <1>p, <2>1 DEF OneDials
    <2>3. PassInv'
      BY <1>0, <1>p, <2>1 DEF PassInv, DialStages
    <2>4. Link!NoOrphanConnection'
      <3> SUFFICES ASSUME NEW k \in Link!Conns, up'[k] = "open"
                   PROVE  \/ k = conn'
                          \/ closer'.at = "closing" /\ closer'.conn = k
                          \/ \E d \in Callers : linkPc'[d] = "dialed" /\ on'[d] = k
        BY DEF Link!NoOrphanConnection
      <3>1. CASE k = FirstUnmade
        BY <2>1, <3>1 DEF LinkTypes
      <3>2. CASE k # FirstUnmade
        <4>1. up[k] = "open"
          BY <2>1, <3>2 DEF LinkTypes
        <4> QED BY <1>0, <2>1, <4>1 DEF Link!NoOrphanConnection, DialStages
      <3> QED BY <3>1, <3>2
    <2> QED BY <2>2, <2>3, <2>4
  <1>2. CASE Link!HandshakeFails(c)
    <2>1. /\ UNCHANGED <<conn, cursor, connecting, up, on>>
          /\ linkPc[c] = "dialing" /\ linkPc'[c] \in {"dialing", "passed"}
          /\ linkPc'[c] = (IF dial[c].offset + 1 = Endpoints THEN "passed" ELSE "dialing")
      BY <1>2 DEF Link!HandshakeFails, LinkTypes, Link!link, Link!ends
    <2>2. /\ dial'[c].offset = dial[c].offset + 1
          /\ dial'[c].tried = dial[c].tried \cup {Link!Index(c)}
      BY <1>2 DEF Link!HandshakeFails, LinkTypes, Dials
    <2>3. OneDials'
      BY <1>0, <1>p, <2>1 DEF OneDials
    <2>4. dial[c].tried = Tried(c) /\ dial[c].offset < Endpoints
      BY <2>1 DEF PassInv
    <2>5. dial'[c].tried = Tried(c)'
      <3>1. 0..((dial[c].offset + 1) - 1) = (0..(dial[c].offset - 1)) \cup {dial[c].offset}
        BY <1>t
      <3>2. Tried(c)' = {(cursor + j) % Endpoints : j \in 0..((dial[c].offset + 1) - 1)}
        BY <2>1, <2>2 DEF Tried
      <3> QED BY <2>2, <2>4, <3>1, <3>2 DEF Tried, Link!Index
    <2>6. /\ linkPc'[c] = "dialing" => dial'[c].offset < Endpoints
          /\ linkPc'[c] = "passed" => dial'[c].offset = Endpoints
      BY <1>t, <2>1, <2>2, <2>4
    <2>7. PassInv'
      BY <1>0, <1>p, <2>5, <2>6 DEF PassInv, DialStages
    <2>8. Link!NoOrphanConnection'
      BY <1>0, <1>p, <2>1 DEF Link!NoOrphanConnection, DialStages
    <2> QED BY <2>3, <2>7, <2>8
  <1>3. CASE Link!NextPass(c)
    <2>1. /\ UNCHANGED <<conn, cursor, connecting, up, on>>
          /\ linkPc[c] = "passed" /\ linkPc'[c] = "dialing"
      BY <1>3 DEF Link!NextPass, LinkTypes, Link!link, Link!ends
    <2>2. dial'[c].offset = 0 /\ dial'[c].tried = {}
      BY <1>3 DEF Link!NextPass, LinkTypes, Dials
    <2>3. OneDials'
      BY <1>0, <1>p, <2>1 DEF OneDials
    <2>4. Tried(c)' = {}
      <3>1. {(cursor' + j) % Endpoints : j \in 0..(0 - 1)} = {}
        OBVIOUS
      <3> QED BY <2>2, <3>1 DEF Tried
    <2>5. PassInv'
      <3>1. 0 < Endpoints
        BY <1>t
      <3>2. \A d \in Callers \ {c} : linkPc'[d] \notin {"dialing", "passed"}
        BY <1>0, <1>p DEF DialStages
      <3> QED BY <2>1, <2>2, <2>4, <3>1, <3>2 DEF PassInv
    <2>6. Link!NoOrphanConnection'
      BY <1>0, <1>p, <2>1 DEF Link!NoOrphanConnection, DialStages
    <2> QED BY <2>3, <2>5, <2>6
  <1>4. CASE Link!DialFails(c)
    <2>1. UNCHANGED <<conn, cursor, up, on>> /\ linkPc[c] = "passed" /\ linkPc'[c] = "ended"
      BY <1>4 DEF Link!DialFails, Link!Ended, LinkTypes, Link!ends
    <2>2. \A d \in Callers : linkPc'[d] \notin DialStages
      BY <1>0, <1>p, <2>1 DEF DialStages
    <2>3. OneDials' /\ PassInv'
      BY <1>0, <2>1, <2>2 DEF OneDials, PassInv, DialStages
    <2>4. Link!NoOrphanConnection'
      BY <1>0, <1>p, <2>1 DEF Link!NoOrphanConnection, DialStages
    <2> QED BY <2>3, <2>4
  <1>5. CASE Link!Publish(c)
    <2>1. /\ UNCHANGED <<cursor, up, on>> /\ linkPc[c] = "dialed" /\ linkPc'[c] = "published"
          /\ conn' = on[c] /\ connecting' = FALSE
      BY <1>5 DEF Link!Publish, Link!CloseConnecting, LinkTypes, Link!ends
    <2>2. \A d \in Callers : linkPc'[d] \notin DialStages
      BY <1>0, <1>p, <2>1 DEF DialStages
    <2>3. OneDials' /\ PassInv'
      BY <2>1, <2>2 DEF OneDials, PassInv, DialStages
    <2>4. Link!NoOrphanConnection'
      <3>1. \A k \in Link!Conns : k # 0
        BY DEF Link!Conns
      <3> QED BY <1>0, <1>p, <2>1, <3>1 DEF Link!NoOrphanConnection, DialStages
    <2> QED BY <2>3, <2>4
  <1> QED BY <1>1, <1>2, <1>3, <1>4, <1>5

LEMMA EndsSteps ==
  ASSUME Link!LinkAssumption, LinkTypes, OneDials, PassInv, Link!NoOrphanConnection,
         (\E k \in Link!Conns : Link!ReaderStops(k)) \/ Link!CloseBegins \/ Link!CloseConn
  PROVE  OneDials' /\ PassInv' /\ Link!NoOrphanConnection'
  <1>c. \A k \in Link!Conns : k # 0
    BY DEF Link!Conns
  <1>1. ASSUME NEW k \in Link!Conns, Link!ReaderStops(k) PROVE OneDials' /\ PassInv' /\ Link!NoOrphanConnection'
    <2>1. /\ UNCHANGED <<connecting, up, closer, linkPc, on, dial>> /\ up[k] = "closed"
          /\ conn' = (IF conn = k THEN 0 ELSE conn)
          /\ cursor' = (IF conn = k THEN (cursor + 1) % Endpoints ELSE cursor)
      BY <1>1 DEF Link!ReaderStops, Link!CursorAfter, Link!call
    <2>2. CASE conn # k
      <3>1. UNCHANGED <<conn, cursor, connecting>>
        BY <2>1, <2>2
      <3> QED BY <2>1, <3>1, DialsKept
    <2>3. CASE conn = k
      <3>1. conn' = 0 /\ \A c \in Callers : linkPc[c] \notin DialStages
        BY <1>c, <2>1, <2>3 DEF OneDials
      <3>2. OneDials' /\ PassInv'
        BY <2>1, <3>1 DEF OneDials, PassInv, DialStages
      <3>3. Link!NoOrphanConnection'
        BY <2>1, <2>3 DEF Link!NoOrphanConnection
      <3> QED BY <3>2, <3>3
    <2> QED BY <2>2, <2>3
  <1>2. CASE Link!CloseBegins
    <2>1. /\ UNCHANGED <<cursor, connecting, up, linkPc, on, dial>> /\ conn' = 0
          /\ closer.at # "closing" /\ closer'.at = "closing" /\ closer'.conn = conn
      BY <1>2 DEF Link!CloseBegins, Link!CloseReturned
    <2>2. OneDials' /\ PassInv'
      BY <2>1 DEF OneDials, PassInv, Tried
    <2>3. Link!NoOrphanConnection'
      BY <2>1 DEF Link!NoOrphanConnection
    <2> QED BY <2>2, <2>3
  <1>3. CASE Link!CloseConn
    <2>1. /\ UNCHANGED <<conn, cursor, connecting, linkPc, on, dial>>
          /\ \A k \in Link!Conns : up'[k] = (IF k = closer.conn THEN "closed" ELSE up[k])
      BY <1>3 DEF Link!CloseConn, Link!link
    <2>2. OneDials' /\ PassInv'
      BY <2>1 DEF OneDials, PassInv, Tried
    <2>3. Link!NoOrphanConnection'
      BY <2>1 DEF Link!NoOrphanConnection
    <2> QED BY <2>2, <2>3
  <1> QED BY <1>1, <1>2, <1>3

LEMMA DialsStep ==
  ASSUME Link!LinkAssumption, LinkTypes, OneDials, PassInv, Link!NoOrphanConnection, [Link!Next]_Link!vars
  PROVE  OneDials' /\ PassInv' /\ Link!NoOrphanConnection'
  <1> DEFINE Goal == OneDials' /\ PassInv' /\ Link!NoOrphanConnection'
  <1>1. CASE UNCHANGED Link!vars
    BY <1>1, DialsKept DEF Link!vars, Link!link, Link!ends
  <1>2. ASSUME NEW c \in Callers, Link!UseConn(c) \/ Link!WaitGivesUp(c) \/ Link!StartReader(c) \/ Link!Opening(c) \/ Link!Aborting(c)
        PROVE  Goal
    <2>1. UNCHANGED <<conn, cursor, connecting, up, closer, dial>>
      BY <1>2 DEF Link!UseConn, Link!WaitGivesUp, Link!StartReader, Link!Opening,
         Link!ArmTimer, Link!Register, Link!SendOpen, Link!OpenFails, Link!Return,
         Link!Aborting, Link!AbortBegins, Link!AbortFails, Link!AbortTells, Link!link, Link!ends
    <2>2. \/ UNCHANGED <<linkPc, on>>
          \/ /\ linkPc[c] \notin DialStages /\ linkPc'[c] \notin DialStages
             /\ \A d \in Callers \ {c} : linkPc'[d] = linkPc[d] /\ on'[d] = on[d]
      BY <1>2 DEF Link!UseConn, Link!WaitGivesUp, Link!StartReader, Link!Opening,
         Link!ArmTimer, Link!Register, Link!SendOpen, Link!OpenFails, Link!Return,
         Link!Aborting, Link!AbortBegins, Link!AbortFails, Link!AbortTells, Link!Ended,
         LinkTypes, DialStages
    <2> QED BY <2>1, <2>2, DialsKept
  <1>3. ASSUME NEW k \in Link!Conns, Link!Break(k) \/ Link!Snapshot(k) \/ (\E c \in Callers : Link!FailOne(k, c) \/ Link!Deliver(k, c))
        PROVE  Goal
    <2>1. UNCHANGED <<conn, cursor, connecting, closer, dial, linkPc, on>>
      BY <1>3 DEF Link!Break, Link!Snapshot, Link!FailOne, Link!Deliver, Link!link, Link!ends
    <2>2. \A j \in Link!Conns : up'[j] = "open" => up[j] = "open"
      BY <1>3 DEF Link!Break, Link!Snapshot, Link!FailOne, Link!Deliver, Link!ends, LinkTypes
    <2> QED BY <2>1, <2>2, DialsKept
  <1>4. ASSUME Link!CloseSnapshot \/ \E c \in Callers : Link!CloseFails(c) PROVE Goal
    <2>1. UNCHANGED <<conn, cursor, connecting, up, dial, linkPc, on>>
      BY <1>4 DEF Link!CloseSnapshot, Link!CloseFails, Link!link, Link!ends
    <2>2. closer.at # "closing"
      BY <1>4 DEF Link!CloseSnapshot, Link!CloseFails
    <2> QED BY <2>1, <2>2, DialsKept
  <1> QED BY <1>1, <1>2, <1>3, <1>4, BeginDialOnly, DiallerSteps, EndsSteps
     DEF Link!Next, Link!Asking, Link!Dialling, Link!ReaderStep, Link!Closing


-------------------------------------------------------------------------------
(* Which calls the client knows. *)

LEMMA CallKept ==
  ASSUME NEW d \in Callers, CallInv(d),
         linkPc'[d] = linkPc[d], linkFailure'[d] = linkFailure[d], queued'[d] = queued[d], linkOutcome'[d] = linkOutcome[d],
         d \in linkCalls' => d \in linkCalls,
         \A k \in 0..MaxConns : d \in snap'[k] => d \in snap[k] \/ d \in linkCalls,
         \A i \in DOMAIN wire'[d] : wire'[d][i] = "open" => \E j \in DOMAIN wire[d] : wire[d][j] = "open"
  PROVE  CallInv(d)'
  BY DEF CallInv

\* A caller on its way goes on: no answer, no frame sent and no entry in c.calls yet.
LEMMA CallGoesOn ==
  ASSUME NEW d \in Callers, CallInv(d),
         linkPc[d] \notin OpenStages, linkPc'[d] \notin OpenStages \/ linkPc'[d] = "ended",
         UNCHANGED <<linkCalls, linkFailure, queued, snap, wire>>
  PROVE  CallInv(d)'
  BY DEF CallInv, OpenStages

LEMMA CallFails ==
  ASSUME LinkTypes, NEW c \in Callers, NEW e \in Link!Errors, CallInv(c), Link!Fail(c, e),
         e = "aborted" \/ linkPc[c] \in OpenStages,
         UNCHANGED <<linkPc, queued, linkOutcome, wire>>,
         \A k \in 0..MaxConns : c \in snap'[k] => c \in snap[k]
  PROVE  CallInv(c)'
  <1>1. CASE linkFailure[c] # "none" \/ queued[c]
    <2>1. UNCHANGED <<linkFailure, linkCalls>>
      BY <1>1 DEF Link!Fail
    <2> QED BY <2>1, CallKept
  <1>2. CASE ~(linkFailure[c] # "none" \/ queued[c])
    <2>1. linkFailure'[c] = e /\ c \notin linkCalls'
      BY <1>2 DEF Link!Fail, LinkTypes
    <2> QED BY <2>1 DEF CallInv
  <1> QED BY <1>1, <1>2

LEMMA FailsOthers ==
  ASSUME LinkTypes, NEW c \in Callers, NEW e \in Link!Errors, Link!Fail(c, e), NEW d \in Callers \ {c}
  PROVE  linkFailure'[d] = linkFailure[d] /\ (d \in linkCalls' => d \in linkCalls)
  BY DEF Link!Fail, LinkTypes

LEMMA SentFrames ==
  ASSUME LinkTypes, NEW c \in Callers, NEW f \in WireFrames, wire' = Link!Sent(c, f), NEW d \in Callers,
         d # c \/ f = "cancel"
  PROVE  \A i \in DOMAIN wire'[d] : wire'[d][i] = "open" => \E j \in DOMAIN wire[d] : wire[d][j] = "open"
  <1>t. wire[d] \in Seq(WireFrames) /\ wire \in [Callers -> Seq(WireFrames)]
    BY DEF LinkTypes
  <1>1. CASE wire'[d] = wire[d]
    BY <1>1
  <1>2. CASE wire'[d] # wire[d]
    <2>1. d = c /\ wire'[d] = Append(wire[d], "cancel")
      BY <1>2, <1>t DEF Link!Sent
    <2>2. SUFFICES ASSUME NEW i \in DOMAIN wire'[d], wire'[d][i] = "open"
                   PROVE  \E j \in DOMAIN wire[d] : wire[d][j] = "open"
      OBVIOUS
    <2>3. i \in 1..(Len(wire[d]) + 1) /\ DOMAIN wire[d] = 1..Len(wire[d])
      BY <1>t, <2>1, AppendProperties DEF WireFrames
    <2>4. i # Len(wire[d]) + 1
      BY <1>t, <2>1, <2>2, AppendProperties DEF WireFrames
    <2>5. i \in 1..Len(wire[d]) /\ Len(wire[d]) \in Nat
      BY <1>t, <2>3, <2>4
    <2>6. wire'[d][i] = wire[d][i]
      BY <1>t, <2>1, <2>5, AppendProperties DEF WireFrames
    <2> QED BY <2>2, <2>3, <2>5, <2>6
  <1> QED BY <1>1, <1>2

LEMMA CallsOfCallers ==
  ASSUME LinkTypes, CallsInv, NEW c \in Callers,
         Link!Asking(c) \/ Link!WaitGivesUp(c) \/ Link!Dialling(c) \/ Link!Opening(c) \/ Link!Aborting(c)
  PROVE  CallsInv'
  <1> USE DEF Link!link, Link!ends, Link!call
  <1> SUFFICES ASSUME NEW d \in Callers, CallInv(d) PROVE CallInv(d)'
    BY DEF CallsInv
  <1>1. ASSUME \/ Link!Asking(c) \/ Link!WaitGivesUp(c) \/ Link!Dialling(c) \/ Link!ArmTimer(c)
        PROVE  CallInv(d)'
    <2>1. UNCHANGED <<linkCalls, linkFailure, queued, snap, wire>>
      BY <1>1 DEF Link!Asking, Link!UseConn, Link!BeginDial, Link!WaitGivesUp, Link!Dialling,
         Link!HandshakeSucceeds, Link!HandshakeFails,
         Link!NextPass, Link!DialFails, Link!Publish, Link!StartReader, Link!ArmTimer
    <2>2. CASE d = c
      <3>1. linkPc[c] \notin OpenStages /\ (linkPc'[c] \notin OpenStages \/ linkPc'[c] = "ended")
        BY <1>1 DEF Link!Asking, Link!UseConn, Link!BeginDial, Link!WaitGivesUp, Link!Dialling,
           Link!HandshakeSucceeds, Link!HandshakeFails,
           Link!NextPass, Link!DialFails, Link!Publish, Link!StartReader, Link!ArmTimer,
           Link!Ended, OpenStages, LinkTypes
      <3> QED BY <2>1, <2>2, <3>1, CallGoesOn
    <2>3. CASE d # c
      <3>1. linkPc'[d] = linkPc[d] /\ linkOutcome'[d] = linkOutcome[d]
        BY <1>1, <2>3 DEF Link!Asking, Link!UseConn, Link!BeginDial, Link!WaitGivesUp,
           Link!Dialling, Link!HandshakeSucceeds, Link!HandshakeFails,
           Link!NextPass, Link!DialFails, Link!Publish, Link!StartReader, Link!ArmTimer,
           Link!Ended, LinkTypes
      <3> QED BY <2>1, <3>1, CallKept
    <2> QED BY <2>2, <2>3
  <1>2. CASE Link!Register(c)
    <2>1. /\ UNCHANGED <<linkFailure, queued, linkOutcome, snap, wire>> /\ linkCalls' = linkCalls \cup {c}
          /\ linkPc[c] = "timed" /\ linkPc'[c] = "registered" /\ (d # c => linkPc'[d] = linkPc[d])
      BY <1>2 DEF Link!Register, LinkTypes
    <2> QED BY <2>1 DEF CallInv, OpenStages
  <1>3. CASE Link!SendOpen(c)
    <2>1. /\ UNCHANGED <<linkFailure, queued, linkOutcome, snap, linkCalls>> /\ wire' = Link!Sent(c, "open")
          /\ linkPc[c] = "registered" /\ linkPc'[c] = "waiting" /\ (d # c => linkPc'[d] = linkPc[d])
      BY <1>3 DEF Link!SendOpen, LinkTypes
    <2>2. CASE d = c
      BY <2>1, <2>2 DEF CallInv, OpenStages
    <2>3. CASE d # c
      BY <2>1, <2>3, SentFrames, CallKept DEF WireFrames
    <2> QED BY <2>2, <2>3
  <1>4. CASE Link!OpenFails(c)
    <2>1. /\ UNCHANGED <<queued, snap, wire>> /\ Link!Fail(c, "unsent") /\ "unsent" \in Link!Errors
          /\ linkPc[c] = "registered" /\ linkPc'[c] = "ended" /\ linkOutcome'[c] = linkFailure'[c]
          /\ (d # c => linkPc'[d] = linkPc[d] /\ linkOutcome'[d] = linkOutcome[d])
      BY <1>4 DEF Link!OpenFails, Link!Ended, LinkTypes, Link!Errors
    <2>2. CASE d = c
      <3>1. CASE linkFailure[c] # "none" \/ queued[c]
        <4>1. UNCHANGED <<linkFailure, linkCalls>>
          BY <2>1, <3>1 DEF Link!Fail
        <4>2. c \in linkCalls => linkFailure[c] = "aborted"
          BY <2>2, <3>1 DEF CallInv
        <4> QED BY <2>1, <2>2, <4>1, <4>2 DEF CallInv, OpenStages
      <3>2. CASE ~(linkFailure[c] # "none" \/ queued[c])
        <4>1. c \notin linkCalls'
          BY <2>1, <3>2 DEF Link!Fail
        <4> QED BY <2>1, <2>2, <4>1 DEF CallInv, OpenStages
      <3> QED BY <3>1, <3>2
    <2>3. CASE d # c
      BY <2>1, <2>3, FailsOthers, CallKept
    <2> QED BY <2>2, <2>3
  <1>5. CASE Link!Return(c)
    <2>1. /\ UNCHANGED <<linkFailure, queued, snap, wire, linkCalls>>
          /\ linkPc[c] = "waiting" /\ linkPc'[c] = "ended" /\ (queued[c] \/ linkFailure[c] # "none")
          /\ linkOutcome'[c] = (IF queued[c] THEN "answered" ELSE linkFailure[c])
          /\ (d # c => linkPc'[d] = linkPc[d] /\ linkOutcome'[d] = linkOutcome[d])
      BY <1>5 DEF Link!Return, Link!Ended, LinkTypes
    <2>2. CASE d = c
      BY <2>1, <2>2 DEF CallInv, OpenStages
    <2>3. CASE d # c
      BY <2>1, <2>3, CallKept
    <2> QED BY <2>2, <2>3
  <1>6. CASE Link!AbortBegins(c)
    BY <1>6, CallKept DEF Link!AbortBegins
  <1>7. CASE Link!AbortFails(c)
    <2>1. UNCHANGED <<linkPc, queued, linkOutcome, snap, wire>> /\ Link!Fail(c, "aborted") /\ "aborted" \in Link!Errors
      BY <1>7 DEF Link!AbortFails, Link!Errors
    <2>2. CASE d = c
      BY <2>1, <2>2, CallFails
    <2>3. CASE d # c
      BY <2>1, <2>3, FailsOthers, CallKept
    <2> QED BY <2>2, <2>3
  <1>8. CASE Link!AbortTells(c)
    <2>1. UNCHANGED <<linkPc, queued, linkOutcome, snap, linkFailure, linkCalls>> /\ wire' = Link!Sent(c, "cancel")
      BY <1>8 DEF Link!AbortTells
    <2> QED BY <2>1, SentFrames, CallKept DEF WireFrames
  <1> QED BY <1>1, <1>2, <1>3, <1>4, <1>5, <1>6, <1>7, <1>8 DEF Link!Opening, Link!Aborting

LEMMA CallsOfEnds ==
  ASSUME Link!LinkAssumption, LinkTypes, CallsInv,
         \/ \E k \in Link!Conns : Link!Break(k) \/ Link!ReaderStep(k) \/ \E c \in Callers : Link!Deliver(k, c)
         \/ Link!Closing
  PROVE  CallsInv'
  <1> USE DEF Link!link, Link!ends, Link!call
  <1> SUFFICES ASSUME NEW d \in Callers, CallInv(d) PROVE CallInv(d)'
    BY DEF CallsInv
  <1>0. Link!Conns \subseteq 0..MaxConns
    BY DEF Link!Conns
  <1>1. ASSUME (\E k \in Link!Conns : Link!Break(k) \/ Link!ReaderStops(k)) \/ Link!CloseBegins \/ Link!CloseConn
        PROVE  CallInv(d)'
    <2>1. UNCHANGED <<linkPc, linkFailure, queued, linkOutcome, linkCalls, snap, wire>>
      BY <1>1 DEF Link!Break, Link!ReaderStops, Link!CloseBegins, Link!CloseConn
    <2> QED BY <2>1, CallKept
  <1>2. ASSUME (\E k \in Link!Conns : Link!Snapshot(k)) \/ Link!CloseSnapshot
        PROVE  CallInv(d)'
    <2>1. UNCHANGED <<linkPc, linkFailure, queued, linkOutcome, linkCalls, wire>>
      BY <1>2 DEF Link!Snapshot, Link!CloseSnapshot
    <2>2. \A k \in 0..MaxConns : d \in snap'[k] => d \in snap[k] \/ d \in linkCalls
      <3>1. snap \in [0..MaxConns -> SUBSET Callers]
        BY DEF LinkTypes
      <3>2. \E j \in 0..MaxConns, taken \in SUBSET linkCalls : snap' = [snap EXCEPT ![j] = taken]
        <4>1. ASSUME NEW k \in Link!Conns, Link!Snapshot(k)
              PROVE  k \in 0..MaxConns /\ Link!OfConn(k) \in SUBSET linkCalls /\ snap' = [snap EXCEPT ![k] = Link!OfConn(k)]
          BY <1>0, <4>1 DEF Link!Snapshot, Link!OfConn
        <4>2. ASSUME Link!CloseSnapshot PROVE 0 \in 0..MaxConns /\ snap' = [snap EXCEPT ![0] = linkCalls]
          BY <4>2 DEF Link!CloseSnapshot, Link!LinkAssumption
        <4> QED BY <1>2, <4>1, <4>2
      <3> QED BY <3>1, <3>2
    <2> QED BY <2>1, <2>2, CallKept
  <1>3. ASSUME NEW c \in Callers, (\E k \in Link!Conns : Link!FailOne(k, c)) \/ Link!CloseFails(c)
        PROVE  CallInv(d)'
    <2>1. UNCHANGED <<linkPc, queued, linkOutcome, wire>>
      BY <1>3 DEF Link!FailOne, Link!CloseFails
    <2>2. PICK e \in Link!Errors, k \in 0..MaxConns : Link!Fail(c, e) /\ c \in snap[k] /\ snap' = [snap EXCEPT ![k] = @ \ {c}]
      <3>1. ASSUME NEW k \in Link!Conns, Link!FailOne(k, c)
            PROVE  k \in 0..MaxConns /\ Link!Fail(c, "lost") /\ c \in snap[k] /\ snap' = [snap EXCEPT ![k] = @ \ {c}]
        BY <1>0, <3>1 DEF Link!FailOne
      <3>2. ASSUME Link!CloseFails(c)
            PROVE  Link!Fail(c, "closed") /\ c \in snap[0] /\ snap' = [snap EXCEPT ![0] = @ \ {c}]
        BY <3>2 DEF Link!CloseFails
      <3>3. "lost" \in Link!Errors /\ "closed" \in Link!Errors /\ 0 \in 0..MaxConns
        BY DEF Link!Errors, Link!LinkAssumption
      <3> QED BY <1>3, <3>1, <3>2, <3>3
    <2>3. \A j \in 0..MaxConns : d \in snap'[j] => d \in snap[j]
      BY <2>2 DEF LinkTypes
    <2>4. CASE d = c
      <3>1. linkPc[c] \in OpenStages
        BY <2>2, <2>4 DEF CallInv
      <3> QED BY <2>1, <2>2, <2>3, <2>4, <3>1, CallFails
    <2>5. CASE d # c
      BY <2>1, <2>2, <2>3, <2>5, FailsOthers, CallKept
    <2> QED BY <2>4, <2>5
  <1>4. ASSUME NEW c \in Callers, NEW k \in Link!Conns, Link!Deliver(k, c) PROVE CallInv(d)'
    <2>1. /\ UNCHANGED <<linkPc, linkFailure, linkOutcome, snap, wire>> /\ c \in linkCalls /\ linkCalls' = linkCalls \ {c}
          /\ \E i \in DOMAIN wire[c] : wire[c][i] = "open"
      BY <1>4 DEF Link!Deliver
    <2>q. queued'[c] = TRUE /\ (d # c => queued'[d] = queued[d])
      BY <1>4 DEF Link!Deliver, LinkTypes
    <2>2. CASE d = c
      <3>1. linkPc[c] \in {"waiting", "ended"} /\ c \notin linkCalls'
        BY <2>1, <2>2 DEF CallInv
      <3> QED BY <2>1, <2>2, <3>1 DEF CallInv, OpenStages
    <2>3. CASE d # c
      BY <2>1, <2>q, <2>3, CallKept
    <2> QED BY <2>2, <2>3
  <1> QED BY <1>1, <1>2, <1>3, <1>4 DEF Link!ReaderStep, Link!Closing

-------------------------------------------------------------------------------
\* Every step keeps it.
LEMMA LinkInvStep == ASSUME Link!LinkAssumption, LinkInv, [Link!Next]_Link!vars PROVE LinkInv'
  <1>1. CallsInv'
    <2>1. CASE UNCHANGED Link!vars
      <3>1. UNCHANGED <<linkPc, linkFailure, queued, linkOutcome, linkCalls, snap, wire>>
        BY <2>1 DEF Link!vars, Link!call
      <3> QED BY <3>1 DEF LinkInv, CallsInv, CallInv
    <2> QED BY <2>1, CallsOfCallers, CallsOfEnds DEF LinkInv, Link!Next
  <1> QED BY <1>1, LinkTypesStep, DialsStep DEF LinkInv

\* It implies the properties of the component.
LEMMA LinkInvMeans ==
  ASSUME Link!LinkAssumption, LinkInv
  PROVE  Link!TypeOK /\ Link!NoOrphanConnection /\ Link!EveryEndpointTried /\ Link!OnlyAbortedCallsLinger
  <1>1. Link!TypeOK
    BY DEF LinkInv, LinkTypes, Link!TypeOK, Dials, WireFrames
  <1>2. Link!EveryEndpointTried
    <2> SUFFICES ASSUME NEW c \in Callers, linkPc[c] = "passed" PROVE dial[c].tried = 0..(Endpoints - 1)
      BY DEF Link!EveryEndpointTried
    <2>1. Endpoints \in Nat \ {0} /\ cursor \in 0..(Endpoints - 1)
      BY DEF Link!LinkAssumption, LinkInv, LinkTypes
    <2>2. dial[c].tried = {(cursor + j) % Endpoints : j \in 0..(Endpoints - 1)}
      BY DEF LinkInv, PassInv, Tried
    <2> QED BY <2>1, <2>2, WholeRound
  <1>3. Link!OnlyAbortedCallsLinger
    BY DEF LinkInv, LinkTypes, CallsInv, CallInv, Link!OnlyAbortedCallsLinger
  <1> QED BY <1>1, <1>2, <1>3 DEF LinkInv

-------------------------------------------------------------------------------
(* client.go: one call in both directions.                                 *)

\* The instance of ClientCall counts with the Cardinality of FiniteSets.
LEMMA CallCardinality == \A S : Call!Cardinality(S) = Cardinality(S)
  BY DEF Call!Cardinality, Cardinality

\* The types of TypeOK without the bounds that need an argument.
Failures == {"none", "lost", "aborted", "protocol"}
Kinds == {"item", "end", "answer", "window"}
DuplexFrames == [kind : Kinds, seq : Nat]
DuplexTypes ==
    /\ queue \in Seq(DuplexFrames) /\ failure \in Failures
    /\ terminal \in BOOLEAN
    /\ outputAllowance \in Nat /\ expectedSeq \in Nat
    /\ outputEnded \in BOOLEAN /\ idleTimer \in BOOLEAN
    /\ credit \in [n : Nat, closed : BOOLEAN]
    /\ inputSeq \in 0..MaxInput /\ inputClosed \in BOOLEAN
    /\ reader \in {"read", "arm", "marked", "queue", "over"}
    /\ held \in DuplexFrames
    /\ consumer \in {"recv", "blocked", "got", "granting", "aborting", "done"}
    /\ woken \in BOOLEAN /\ creditWoken \in BOOLEAN
    /\ outcome \in {"none", "answered", "lost", "aborted", "protocol"}
    /\ sender \in {"idle", "acquire", "blocked", "number", "send", "aborting", "done"}
    /\ abort \in [Call!Aborters -> {"idle", "asked", "checked", "telling", "over"}]
    /\ net \in Seq(DuplexFrames) /\ connected \in BOOLEAN
    /\ peer \in [credit : Nat, sent : 0..MaxOutput, granted : 0..MaxInput,
                 over : BOOLEAN, ended : BOOLEAN, honest : BOOLEAN]

\* A frame that carries no item carries no number; items are numbered below the bound.
Numbered(f) == IF f.kind = "item" THEN f.seq < MaxOutput ELSE f.seq = 0
NumberedFrames == {f \in DuplexFrames : Numbered(f)}
QueueFrames == {f \in NumberedFrames : f.kind \in {"item", "answer"}}
FramesNumbered ==
    /\ net \in Seq(NumberedFrames) /\ queue \in Seq(QueueFrames)
    /\ held \in NumberedFrames /\ held.kind # "window" /\ expectedSeq <= MaxOutput

\* What the reader holds at each stage.
ReaderHolds ==
    /\ reader = "arm" => held.kind = "item"
    /\ reader = "marked" => held.kind = "answer" /\ terminal
    /\ reader = "queue" => held.kind \in {"item", "answer"}
    /\ reader \in {"read", "over"} => held.kind = "end"
    /\ failure = "lost" => reader = "over"
    /\ outcome = "lost" => failure = "lost" /\ queue = <<>>

\* Input credit: granted, on its way, or held; one item per Send begun.
InputInv ==
    /\ credit.n + Count(net, Call!Other("window")) <= peer.granted
    /\ sender \in {"acquire", "blocked", "number"} => inputSeq < MaxInput

\* Output credit: allowed, held by the reader, queued, or in the receiver's hands.
Granting == IF consumer = "granting" THEN 1 ELSE 0
Got == IF consumer = "got" THEN 1 ELSE 0
OutputInv ==
    /\ outputAllowance + Call!Buffered + Got <= InitialCredit
    /\ peer.credit + Granting <= outputAllowance + expectedSeq

\* What is on its way from an honest peer.
ItemAt(q, i) == q[i].kind = "item"
ItemsOnTheWay ==
    /\ \A i \in DOMAIN net : ItemAt(net, i) => net[i].seq \in expectedSeq..(peer.sent - 1)
    /\ \A i, j \in DOMAIN net : ItemAt(net, i) /\ ItemAt(net, j) /\ i < j => net[i].seq < net[j].seq
    /\ \A n \in expectedSeq..(peer.sent - 1) : \E i \in DOMAIN net : ItemAt(net, i) /\ net[i].seq = n
EndOnTheWay ==
    /\ \A i \in DOMAIN net : net[i].kind = "end" => peer.ended
    /\ \A i, j \in DOMAIN net : i < j /\ net[i].kind = "end" => ~ItemAt(net, j)
    /\ outputEnded => peer.ended /\ \A i \in DOMAIN net : ~ItemAt(net, i)
OnTheWay ==
    /\ ItemsOnTheWay /\ EndOnTheWay /\ expectedSeq <= peer.sent
    /\ outputAllowance = peer.credit + (peer.sent - expectedSeq) + Granting
HonestInv ==
    peer.honest =>
        /\ failure # "protocol"
        /\ IF connected THEN OnTheWay ELSE net = <<>>

DuplexInv ==
    /\ DuplexTypes /\ FramesNumbered /\ ReaderHolds /\ InputInv /\ OutputInv /\ HonestInv
    /\ Call!NoLostWakeup /\ Call!IdleTimerStops

-------------------------------------------------------------------------------
(* Sequences of frames. *)

KindsOf(s) == [i \in DOMAIN s |-> s[i].kind]
ItemCount(s) == Cardinality({i \in DOMAIN s : s[i].kind = "item"})

LEMMA KindsCounted ==
  ASSUME NEW s \in Seq(DuplexFrames)
  PROVE  KindsOf(s) \in Seq(Kinds) /\ ItemCount(s) = Count(KindsOf(s), "item") /\ ItemCount(s) \in Nat
  <1>1. DOMAIN s = 1..Len(s) /\ Len(s) \in Nat /\ \A i \in 1..Len(s) : s[i] \in DuplexFrames
    BY LenProperties, ElementOfSeq
  <1>2. KindsOf(s) \in [1..Len(s) -> Kinds]
    BY <1>1 DEF KindsOf, DuplexFrames
  <1>3. KindsOf(s) \in Seq(Kinds)
    BY <1>1, <1>2, SeqDef
  <1>4. {i \in DOMAIN s : s[i].kind = "item"} = {i \in DOMAIN KindsOf(s) : KindsOf(s)[i] = "item"}
    BY DEF KindsOf
  <1>5. ItemCount(s) = Count(KindsOf(s), "item")
    BY <1>4 DEF ItemCount, Count
  <1>6. Count(KindsOf(s), "item") \in Nat
    BY <1>3, CountType
  <1> QED BY <1>3, <1>5, <1>6

LEMMA ItemCountEmpty == ItemCount(<<>>) = 0
  <1>1. {i \in DOMAIN <<>> : <<>>[i].kind = "item"} = {}
    OBVIOUS
  <1> QED BY <1>1, FS_EmptySet DEF ItemCount

LEMMA ItemCountAppend ==
  ASSUME NEW s \in Seq(DuplexFrames), NEW f \in DuplexFrames
  PROVE  ItemCount(Append(s, f)) = ItemCount(s) + (IF f.kind = "item" THEN 1 ELSE 0)
  <1>1. /\ Append(s, f) \in Seq(DuplexFrames) /\ Len(Append(s, f)) = Len(s) + 1
        /\ \A i \in 1..Len(s) : Append(s, f)[i] = s[i]
        /\ Append(s, f)[Len(s) + 1] = f
        /\ DOMAIN Append(s, f) = 1..(Len(s) + 1)
    BY AppendProperties, LenProperties
  <1>2. KindsOf(s) \in Seq(Kinds) /\ Len(KindsOf(s)) = Len(s) /\ f.kind \in Kinds /\ Len(s) \in Nat
        /\ DOMAIN s = 1..Len(s)
    <2>1. KindsOf(s) \in Seq(Kinds) /\ DOMAIN KindsOf(s) = DOMAIN s /\ DOMAIN s = 1..Len(s)
      BY KindsCounted, LenProperties DEF KindsOf
    <2> QED BY <2>1, LenProperties DEF DuplexFrames
  <1>3. /\ Append(KindsOf(s), f.kind) \in Seq(Kinds)
        /\ DOMAIN Append(KindsOf(s), f.kind) = 1..(Len(s) + 1)
        /\ \A i \in 1..Len(s) : Append(KindsOf(s), f.kind)[i] = s[i].kind
        /\ Append(KindsOf(s), f.kind)[Len(s) + 1] = f.kind
    BY <1>2, AppendProperties, LenProperties DEF KindsOf
  <1>4. 1..(Len(s) + 1) = (1..Len(s)) \cup {Len(s) + 1}
    BY <1>2
  <1>5. \A i \in 1..(Len(s) + 1) : Append(KindsOf(s), f.kind)[i] = Append(s, f)[i].kind
    BY <1>1, <1>3, <1>4
  <1>6. ItemCount(Append(s, f)) = Count(Append(KindsOf(s), f.kind), "item")
    <2>1. {i \in DOMAIN Append(s, f) : Append(s, f)[i].kind = "item"} =
          {i \in DOMAIN Append(KindsOf(s), f.kind) : Append(KindsOf(s), f.kind)[i] = "item"}
      BY <1>1, <1>3, <1>5
    <2> QED BY <2>1 DEF ItemCount, Count
  <1>7. Count(Append(KindsOf(s), f.kind), "item") =
        IF f.kind = "item" THEN Count(KindsOf(s), "item") + 1 ELSE Count(KindsOf(s), "item")
    BY <1>2, CountAppend
  <1> QED BY <1>6, <1>7, KindsCounted

LEMMA ItemCountTail ==
  ASSUME NEW s \in Seq(DuplexFrames), s # <<>>
  PROVE  ItemCount(s) = ItemCount(Tail(s)) + (IF Head(s).kind = "item" THEN 1 ELSE 0)
  <1>1. /\ Tail(s) \in Seq(DuplexFrames) /\ Len(Tail(s)) = Len(s) - 1
        /\ Head(s) = s[1] /\ Len(s) \in Nat \ {0}
        /\ \A i \in 1..Len(s) - 1 : Tail(s)[i] = s[i + 1]
        /\ DOMAIN Tail(s) = 1..(Len(s) - 1) /\ DOMAIN s = 1..Len(s)
    BY TailByIndex, LenProperties
  <1>2. KindsOf(s) \in Seq(Kinds) /\ Len(KindsOf(s)) = Len(s) /\ KindsOf(s) # <<>>
    <2>1. KindsOf(s) \in Seq(Kinds) /\ DOMAIN KindsOf(s) = 1..Len(s)
      BY <1>1, KindsCounted DEF KindsOf
    <2>2. Len(KindsOf(s)) = Len(s)
      BY <1>1, <2>1, LenProperties
    <2> QED BY <1>1, <2>1, <2>2, EmptySeq
  <1>3. /\ Tail(KindsOf(s)) \in Seq(Kinds) /\ Len(Tail(KindsOf(s))) = Len(s) - 1
        /\ Head(KindsOf(s)) = KindsOf(s)[1]
        /\ \A i \in 1..Len(s) - 1 : Tail(KindsOf(s))[i] = KindsOf(s)[i + 1]
    BY <1>2, TailByIndex
  <1>4. DOMAIN Tail(KindsOf(s)) = 1..(Len(s) - 1)
    BY <1>3, LenProperties
  <1>5. \A i \in 1..(Len(s) - 1) : i + 1 \in 1..Len(s)
    BY <1>1
  <1>6. \A i \in 1..(Len(s) - 1) : Tail(KindsOf(s))[i] = Tail(s)[i].kind
    BY <1>1, <1>3, <1>5 DEF KindsOf
  <1>7. ItemCount(Tail(s)) = Count(Tail(KindsOf(s)), "item")
    <2>1. {i \in DOMAIN Tail(s) : Tail(s)[i].kind = "item"} =
          {i \in DOMAIN Tail(KindsOf(s)) : Tail(KindsOf(s))[i] = "item"}
      BY <1>1, <1>4, <1>6
    <2> QED BY <2>1 DEF ItemCount, Count
  <1>8. Head(KindsOf(s)) = Head(s).kind
    BY <1>1, <1>3 DEF KindsOf
  <1>9. Count(KindsOf(s), "item") =
        IF Head(KindsOf(s)) = "item" THEN Count(Tail(KindsOf(s)), "item") + 1
        ELSE Count(Tail(KindsOf(s)), "item")
    BY <1>2, CountTail
  <1>10. ItemCount(Tail(s)) \in Nat
    BY <1>1, KindsCounted
  <1> QED BY <1>7, <1>8, <1>9, <1>10, KindsCounted

-------------------------------------------------------------------------------
(* Types. *)

LEMMA FailWithTypes ==
  ASSUME DuplexTypes, NEW e \in Failures, Call!Fail(e)
  PROVE  /\ failure' \in Failures /\ terminal' \in BOOLEAN /\ woken' \in BOOLEAN
         /\ idleTimer' \in BOOLEAN /\ credit' \in [n : Nat, closed : BOOLEAN]
         /\ creditWoken' \in BOOLEAN /\ credit'.n = credit.n
  <1>1. CASE UNCHANGED <<failure, terminal, woken, idleTimer, credit, creditWoken>>
    BY <1>1 DEF DuplexTypes
  <1>2. CASE failure' = e /\ terminal' = TRUE /\ woken' = TRUE /\ Call!Done
    <2>1. credit' \in [n : Nat, closed : BOOLEAN] /\ credit'.n = credit.n
      BY <1>2 DEF Call!Done, DuplexTypes
    <2> QED BY <1>2, <2>1 DEF Call!Done
  <1> QED BY <1>1, <1>2 DEF Call!Fail

LEMMA NetTypes ==
  ASSUME DuplexTypes, net # <<>>
  PROVE  Tail(net) \in Seq(DuplexFrames) /\ Head(net) \in DuplexFrames
  BY TailByIndex DEF DuplexTypes

LEMMA DuplexReaderTypes ==
  ASSUME DuplexTypes, Call!ReaderStep \/ Call!Break
  PROVE  DuplexTypes'
  <1> USE DEF Call!out, Call!inp, Call!app, Call!wires
  <1>f. Call!Other("end") \in DuplexFrames
    BY DEF Call!Other, DuplexFrames, Kinds
  <1>1. CASE Call!DeliverWindow
    <2>1. Tail(net) \in Seq(DuplexFrames)
      BY <1>1, NetTypes DEF Call!DeliverWindow, Call!Arrived
    <2>2. credit' \in [n : Nat, closed : BOOLEAN]
      BY <1>1 DEF Call!DeliverWindow, DuplexTypes
    <2>3. creditWoken' \in BOOLEAN
      BY <1>1 DEF Call!DeliverWindow
    <2> QED BY <1>1, <2>1, <2>2, <2>3 DEF Call!DeliverWindow, DuplexTypes
  <1>2. CASE Call!DeliverItem
    <2>1. Tail(net) \in Seq(DuplexFrames) /\ Head(net) \in DuplexFrames
      BY <1>2, NetTypes DEF Call!DeliverItem, Call!Arrived
    <2>2. outputAllowance' \in Nat /\ expectedSeq' \in Nat
      BY <1>2 DEF Call!DeliverItem, Call!Acceptable, DuplexTypes
    <2> QED BY <1>2, <2>1, <2>2 DEF Call!DeliverItem, DuplexTypes
  <1>3. CASE Call!DeliverBadItem
    <2>1. Tail(net) \in Seq(DuplexFrames)
      BY <1>3, NetTypes DEF Call!DeliverBadItem, Call!Arrived
    <2>2. Call!Fail("protocol") /\ "protocol" \in Failures
      BY <1>3 DEF Call!DeliverBadItem, Failures
    <2> QED BY <1>3, <2>1, <2>2, FailWithTypes DEF Call!DeliverBadItem, DuplexTypes
  <1>4. CASE Call!ArmIdle
    <2>1. idleTimer' \in BOOLEAN
      BY <1>4 DEF Call!ArmIdle, Call!MayArm, DuplexTypes
    <2> QED BY <1>4, <2>1 DEF Call!ArmIdle, DuplexTypes
  <1>5. CASE Call!DeliverEnd
    <2>1. Tail(net) \in Seq(DuplexFrames)
      BY <1>5, NetTypes DEF Call!DeliverEnd, Call!Arrived
    <2>2. outputEnded' \in BOOLEAN /\ idleTimer' \in BOOLEAN
      BY <1>5 DEF Call!DeliverEnd
    <2> QED BY <1>5, <2>1, <2>2 DEF Call!DeliverEnd, DuplexTypes
  <1>6. CASE Call!DeliverAnswer
    <2>1. Tail(net) \in Seq(DuplexFrames) /\ Head(net) \in DuplexFrames
      BY <1>6, NetTypes DEF Call!DeliverAnswer, Call!Arrived
    <2>2. terminal' \in BOOLEAN
      BY <1>6 DEF Call!DeliverAnswer
    <2> QED BY <1>6, <2>1, <2>2 DEF Call!DeliverAnswer, DuplexTypes
  <1>7. CASE Call!AnswerDone
    <2>1. credit' \in [n : Nat, closed : BOOLEAN]
      BY <1>7 DEF Call!AnswerDone, Call!Done, DuplexTypes
    <2>2. idleTimer' \in BOOLEAN /\ creditWoken' \in BOOLEAN
      BY <1>7 DEF Call!AnswerDone, Call!Done
    <2> QED BY <1>7, <2>1, <2>2 DEF Call!AnswerDone, DuplexTypes
  <1>8. CASE Call!Queue
    <2>1. Append(queue, held) \in Seq(DuplexFrames)
      BY AppendProperties DEF DuplexTypes
    <2>2. woken' \in BOOLEAN
      BY <1>8 DEF Call!Queue, Call!Wake
    <2> QED BY <1>8, <1>f, <2>1, <2>2 DEF Call!Queue, DuplexTypes
  <1>9. CASE Call!ReaderStops
    <2>1. Call!Fail("lost") /\ "lost" \in Failures
      BY <1>9 DEF Call!ReaderStops, Failures
    <2> QED BY <1>9, <2>1, FailWithTypes DEF Call!ReaderStops, DuplexTypes
  <1>10. CASE Call!Break
    <2>0. <<>> \in Seq(DuplexFrames)
      OBVIOUS
    <2>1. net' \in Seq(DuplexFrames)
      BY <1>10, <2>0 DEF Call!Break
    <2>2. connected' \in BOOLEAN
      BY <1>10 DEF Call!Break
    <2> QED BY <1>10, <2>1, <2>2 DEF Call!Break, DuplexTypes
  <1> QED BY <1>1, <1>2, <1>3, <1>4, <1>5, <1>6, <1>7, <1>8, <1>9, <1>10 DEF Call!ReaderStep

LEMMA DuplexReceiverTypes ==
  ASSUME DuplexTypes, Call!Receiving \/ Call!StreamAbort
  PROVE  DuplexTypes'
  <1> USE DEF Call!out, Call!inp, Call!app, Call!wires
  <1>0. queue # <<>> => Tail(queue) \in Seq(DuplexFrames)
    BY TailByIndex DEF DuplexTypes
  <1>1. CASE Call!RecvItem
    BY <1>0, <1>1 DEF Call!RecvItem, DuplexTypes
  <1>2. CASE Call!RecvAnswer
    BY <1>0, <1>2 DEF Call!RecvAnswer, DuplexTypes
  <1>3. CASE Call!RecvFailure
    BY <1>3 DEF Call!RecvFailure, DuplexTypes, Failures
  <1>4. CASE Call!RecvBlocks
    <2>1. woken' \in BOOLEAN
      BY <1>4 DEF Call!RecvBlocks
    <2> QED BY <1>4, <2>1 DEF Call!RecvBlocks, DuplexTypes
  <1>5. CASE Call!RecvWakes
    BY <1>5 DEF Call!RecvWakes, DuplexTypes
  <1>6. CASE Call!Consumed \/ Call!SendWindow
    <2>1. outputAllowance' \in Nat
      BY <1>6 DEF Call!Consumed, Call!SendWindow, Call!CreditStep, DuplexTypes
    <2>2. peer' \in [credit : Nat, sent : 0..MaxOutput, granted : 0..MaxInput,
                     over : BOOLEAN, ended : BOOLEAN, honest : BOOLEAN]
      <3>1. \E n \in Nat : peer' = [peer EXCEPT !.credit = @ + n]
        BY <1>6 DEF Call!Consumed, Call!SendWindow, Call!CreditStep
      <3>2. PICK n \in Nat : peer' = [peer EXCEPT !.credit = peer.credit + n]
        BY <3>1
      <3>3. peer.credit + n \in Nat
        BY DEF DuplexTypes
      <3> QED BY <3>2, <3>3 DEF DuplexTypes
    <2>3. consumer' \in {"recv", "blocked", "got", "granting", "aborting", "done"}
      BY <1>6 DEF Call!Consumed, Call!SendWindow
    <2>4. UNCHANGED <<queue, failure, terminal, expectedSeq, outputEnded, idleTimer, credit, Call!inp,
                      reader, held, outcome, woken, sender, creditWoken, abort, Call!wires>>
      BY <1>6 DEF Call!Consumed, Call!SendWindow
    <2> QED BY <2>1, <2>2, <2>3, <2>4 DEF DuplexTypes
  <1>7. CASE Call!ConsumedLate
    BY <1>7 DEF Call!ConsumedLate, DuplexTypes
  <1>8. CASE Call!StreamAborted
    BY <1>8 DEF Call!StreamAborted, DuplexTypes
  <1>9. CASE Call!StreamAbort
    <2>1. abort' \in [Call!Aborters -> {"idle", "asked", "checked", "telling", "over"}]
      BY <1>9 DEF Call!StreamAbort, DuplexTypes
    <2> QED BY <1>9, <2>1 DEF Call!StreamAbort, DuplexTypes
  <1> QED BY <1>1, <1>2, <1>3, <1>4, <1>5, <1>6, <1>7, <1>8, <1>9 DEF Call!Receiving

LEMMA DuplexSenderTypes ==
  ASSUME Call!CallAssumption, DuplexTypes, InputInv, Call!Sending \/ Call!AcquireGivesUp \/ Call!InputTooLarge
  PROVE  DuplexTypes'
  <1> USE DEF Call!out, Call!inp, Call!app, Call!wires
  <1>1. CASE Call!SendBegins \/ Call!AcquireFails \/ Call!AcquireWakes \/ Call!AcquireGivesUp \/ Call!InputAborted
    BY <1>1 DEF Call!SendBegins, Call!AcquireFails, Call!AcquireWakes, Call!AcquireGivesUp,
       Call!InputAborted, DuplexTypes
  <1>2. CASE Call!Acquire
    <2>1. credit' \in [n : Nat, closed : BOOLEAN]
      <3>1. credit.n - 1 \in Nat
        BY <1>2 DEF Call!Acquire, DuplexTypes
      <3>2. credit' = [credit EXCEPT !.n = credit.n - 1]
        BY <1>2 DEF Call!Acquire
      <3> QED BY <3>1, <3>2 DEF DuplexTypes
    <2> QED BY <1>2, <2>1 DEF Call!Acquire, DuplexTypes
  <1>3. CASE Call!AcquireBlocks
    <2>1. creditWoken' \in BOOLEAN
      BY <1>3 DEF Call!AcquireBlocks
    <2> QED BY <1>3, <2>1 DEF Call!AcquireBlocks, DuplexTypes
  <1>4. CASE Call!NumberInput
    <2>1. inputSeq' \in 0..MaxInput
      BY <1>4 DEF Call!NumberInput, InputInv, DuplexTypes, Call!CallAssumption
    <2> QED BY <1>4, <2>1 DEF Call!NumberInput, DuplexTypes
  <1>5. CASE Call!SendInput
    BY <1>5 DEF Call!SendInput, DuplexTypes
  <1>6. CASE Call!InputTooLarge
    <2>1. abort' \in [Call!Aborters -> {"idle", "asked", "checked", "telling", "over"}]
      BY <1>6 DEF Call!InputTooLarge, DuplexTypes
    <2> QED BY <1>6, <2>1 DEF Call!InputTooLarge, DuplexTypes
  <1>7. CASE Call!CloseInput
    <2>1. inputClosed' \in BOOLEAN
      BY <1>7 DEF Call!CloseInput
    <2> QED BY <1>7, <2>1 DEF Call!CloseInput, DuplexTypes
  <1> QED BY <1>1, <1>2, <1>3, <1>4, <1>5, <1>6, <1>7 DEF Call!Sending

LEMMA DuplexAbortTypes ==
  ASSUME DuplexTypes, NEW a \in Call!Aborters, Call!Aborting(a)
  PROVE  DuplexTypes'
  <1> USE DEF Call!out, Call!inp, Call!app, Call!wires
  <1>1. CASE Call!AbortChecks(a)
    BY <1>1 DEF Call!AbortChecks, DuplexTypes
  <1>2. CASE Call!AbortFails(a)
    <2>1. Call!Fail("aborted") /\ "aborted" \in Failures
      BY <1>2 DEF Call!AbortFails, Failures
    <2> QED BY <1>2, <2>1, FailWithTypes DEF Call!AbortFails, DuplexTypes
  <1>3. CASE Call!AbortTells(a)
    <2>1. peer' \in [credit : Nat, sent : 0..MaxOutput, granted : 0..MaxInput,
                     over : BOOLEAN, ended : BOOLEAN, honest : BOOLEAN]
      BY <1>3 DEF Call!AbortTells, DuplexTypes
    <2> QED BY <1>3, <2>1 DEF Call!AbortTells, DuplexTypes
  <1> QED BY <1>1, <1>2, <1>3 DEF Call!Aborting

LEMMA DuplexPeerTypes ==
  ASSUME Call!CallAssumption, DuplexTypes, Call!PeerItem \/ Call!PeerEnd \/ Call!PeerAnswer \/ Call!PeerGrants
  PROVE  DuplexTypes'
  <1> USE DEF Call!out, Call!inp, Call!app, Call!wires
  <1>0. /\ \A k \in Kinds : Call!Other(k) \in DuplexFrames
        /\ Call!Item(peer.sent) \in DuplexFrames
        /\ \A f \in DuplexFrames : Append(net, f) \in Seq(DuplexFrames)
        /\ MaxOutput \in Nat /\ MaxInput \in Nat
    BY AppendProperties DEF Call!Other, Call!Item, DuplexFrames, Kinds, DuplexTypes,
       Call!CallAssumption
  <1>1. net' \in Seq(DuplexFrames)
    BY <1>0 DEF Call!PeerItem, Call!PeerEnd, Call!PeerAnswer, Call!PeerGrants, Call!PeerSends,
       Kinds
  <1>2. peer' \in [credit : Nat, sent : 0..MaxOutput, granted : 0..MaxInput,
                   over : BOOLEAN, ended : BOOLEAN, honest : BOOLEAN]
    <2>1. CASE Call!PeerItem
      <3>1. peer.sent + 1 \in 0..MaxOutput /\ (IF peer.credit > 0 THEN peer.credit - 1 ELSE 0) \in Nat
        BY <1>0, <2>1 DEF Call!PeerItem, DuplexTypes
      <3>2. peer' = [peer EXCEPT !.sent = peer.sent + 1,
                                 !.credit = IF peer.credit > 0 THEN peer.credit - 1 ELSE 0]
        BY <2>1 DEF Call!PeerItem, Call!PeerSends
      <3> QED BY <3>1, <3>2 DEF DuplexTypes
    <2>2. CASE Call!PeerEnd
      BY <2>2 DEF Call!PeerEnd, Call!PeerSends, DuplexTypes
    <2>3. CASE Call!PeerAnswer
      BY <2>3 DEF Call!PeerAnswer, Call!PeerSends, DuplexTypes
    <2>4. CASE Call!PeerGrants
      <3>1. peer.granted + 1 \in 0..MaxInput
        BY <1>0, <2>4 DEF Call!PeerGrants, DuplexTypes
      <3>2. peer' = [peer EXCEPT !.granted = peer.granted + 1]
        BY <2>4 DEF Call!PeerGrants, Call!PeerSends
      <3> QED BY <3>1, <3>2 DEF DuplexTypes
    <2> QED BY <2>1, <2>2, <2>3, <2>4
  <1>3. UNCHANGED <<queue, failure, terminal, Call!out, credit, Call!inp, reader, held, Call!app, woken,
                    sender, creditWoken, abort, connected>>
    BY DEF Call!PeerItem, Call!PeerEnd, Call!PeerAnswer, Call!PeerGrants, Call!PeerSends
  <1> QED BY <1>1, <1>2, <1>3 DEF DuplexTypes

LEMMA DuplexTypesStep ==
  ASSUME Call!CallAssumption, DuplexTypes, InputInv, [Call!Next]_Call!vars
  PROVE  DuplexTypes'
  <1>1. CASE UNCHANGED Call!vars
    BY <1>1 DEF Call!vars, Call!out, Call!inp, Call!app, Call!wires, DuplexTypes
  <1> QED BY <1>1, DuplexReaderTypes, DuplexReceiverTypes, DuplexSenderTypes, DuplexAbortTypes,
             DuplexPeerTypes DEF Call!Next


-------------------------------------------------------------------------------
(* The numbers of the frames. *)

LEMMA FramesStep ==
  ASSUME Call!CallAssumption, DuplexTypes, FramesNumbered, ReaderHolds, [Call!Next]_Call!vars
  PROVE  FramesNumbered'
  <1> USE DEF Call!out, Call!inp, Call!app, Call!wires
  <1>0. /\ \A k \in Kinds \ {"item"} : Call!Other(k) \in NumberedFrames
        /\ peer.sent < MaxOutput => Call!Item(peer.sent) \in NumberedFrames
    BY DEF Call!Other, Call!Item, NumberedFrames, Numbered, DuplexFrames, Kinds, DuplexTypes
  <1>t. net # <<>> => Tail(net) \in Seq(NumberedFrames) /\ Head(net) \in NumberedFrames
    BY TailByIndex DEF FramesNumbered
  <1>a. \A f \in NumberedFrames : Append(net, f) \in Seq(NumberedFrames)
    BY AppendProperties DEF FramesNumbered
  <1>e. <<>> \in Seq(NumberedFrames)
    OBVIOUS
  <1>1. net' \in Seq(NumberedFrames)
    <2>1. CASE net' = net
      BY <2>1 DEF FramesNumbered
    <2>2. CASE Call!DeliverWindow \/ Call!DeliverItem \/ Call!DeliverBadItem \/ Call!DeliverEnd \/ Call!DeliverAnswer
      BY <1>t, <2>2 DEF Call!DeliverWindow, Call!DeliverItem, Call!DeliverBadItem,
         Call!DeliverEnd, Call!DeliverAnswer, Call!Arrived
    <2>3. CASE Call!PeerItem \/ Call!PeerEnd \/ Call!PeerAnswer \/ Call!PeerGrants
      BY <1>0, <1>a, <2>3 DEF Call!PeerItem, Call!PeerEnd, Call!PeerAnswer, Call!PeerGrants,
         Call!PeerSends, Kinds
    <2>4. CASE Call!Break
      BY <1>e, <2>4 DEF Call!Break
    <2>5. \/ net' = net \/ Call!DeliverWindow \/ Call!DeliverItem \/ Call!DeliverBadItem \/ Call!DeliverEnd \/ Call!DeliverAnswer
          \/ Call!PeerItem \/ Call!PeerEnd \/ Call!PeerAnswer \/ Call!PeerGrants \/ Call!Break
      BY DEF Call!Next, Call!vars, Call!ReaderStep, Call!ArmIdle, Call!AnswerDone, Call!Queue,
         Call!ReaderStops, Call!Receiving, Call!RecvItem,
         Call!RecvAnswer, Call!RecvFailure, Call!RecvBlocks, Call!RecvWakes, Call!Consumed,
         Call!SendWindow, Call!ConsumedLate,
         Call!StreamAborted, Call!StreamAbort, Call!Sending, Call!SendBegins,
         Call!AcquireFails, Call!Acquire, Call!AcquireBlocks,
         Call!AcquireWakes, Call!AcquireGivesUp, Call!NumberInput, Call!SendInput,
         Call!InputTooLarge, Call!InputAborted,
         Call!CloseInput, Call!Aborting, Call!AbortChecks, Call!AbortFails, Call!AbortTells
    <2> QED BY <2>1, <2>2, <2>3, <2>4, <2>5
  <1>2. queue' \in Seq(QueueFrames)
    <2>1. CASE Call!Queue
      <3>1. held \in QueueFrames
        BY <2>1 DEF Call!Queue, ReaderHolds, FramesNumbered, QueueFrames
      <3> QED BY <2>1, <3>1, AppendProperties DEF Call!Queue, FramesNumbered
    <2>2. CASE Call!RecvItem \/ Call!RecvAnswer
      BY <2>2, TailByIndex DEF Call!RecvItem, Call!RecvAnswer, FramesNumbered
    <2>3. queue' = queue \/ Call!Queue \/ Call!RecvItem \/ Call!RecvAnswer
      BY DEF Call!Next, Call!vars, Call!ReaderStep, Call!DeliverWindow, Call!DeliverItem,
         Call!DeliverBadItem, Call!ArmIdle, Call!DeliverEnd,
         Call!DeliverAnswer, Call!AnswerDone, Call!ReaderStops, Call!Break, Call!Receiving,
         Call!RecvFailure, Call!RecvBlocks, Call!RecvWakes,
         Call!Consumed, Call!SendWindow, Call!ConsumedLate, Call!StreamAborted,
         Call!StreamAbort, Call!Sending, Call!SendBegins,
         Call!AcquireFails, Call!Acquire, Call!AcquireBlocks, Call!AcquireWakes,
         Call!AcquireGivesUp, Call!NumberInput, Call!SendInput,
         Call!InputTooLarge, Call!InputAborted, Call!CloseInput, Call!Aborting,
         Call!AbortChecks, Call!AbortFails, Call!AbortTells,
         Call!PeerItem, Call!PeerEnd, Call!PeerAnswer, Call!PeerGrants, Call!PeerSends
    <2> QED BY <2>1, <2>2, <2>3 DEF FramesNumbered
  <1>3. held' \in NumberedFrames /\ held'.kind # "window" /\ expectedSeq' <= MaxOutput
    <2>1. CASE Call!Queue
      <3>1. held' = Call!Other("end") /\ expectedSeq' = expectedSeq /\ Call!Other("end").kind = "end"
        BY <2>1 DEF Call!Queue, Call!Other
      <3> QED BY <1>0, <3>1 DEF FramesNumbered, Kinds
    <2>2. CASE Call!DeliverItem
      <3>1. /\ held' = Head(net) /\ Head(net) \in NumberedFrames /\ Head(net).kind = "item"
            /\ expectedSeq' = expectedSeq + 1 /\ Head(net).seq = expectedSeq
        BY <1>t, <2>2 DEF Call!DeliverItem, Call!Arrived, Call!Acceptable
      <3>2. expectedSeq < MaxOutput
        BY <3>1 DEF NumberedFrames, Numbered
      <3> QED BY <3>1, <3>2 DEF Call!CallAssumption, DuplexTypes
    <2>3. CASE Call!DeliverAnswer
      BY <1>t, <2>3 DEF Call!DeliverAnswer, Call!Arrived, FramesNumbered
    <2>4. UNCHANGED <<held, expectedSeq>> \/ Call!Queue \/ Call!DeliverItem \/ Call!DeliverAnswer
      BY DEF Call!Next, Call!vars, Call!ReaderStep, Call!DeliverWindow, Call!DeliverBadItem,
         Call!ArmIdle, Call!DeliverEnd,
         Call!AnswerDone, Call!ReaderStops, Call!Break, Call!Receiving, Call!RecvItem,
         Call!RecvAnswer, Call!RecvFailure, Call!RecvBlocks,
         Call!RecvWakes, Call!Consumed, Call!SendWindow, Call!ConsumedLate, Call!StreamAborted,
         Call!StreamAbort, Call!Sending, Call!SendBegins,
         Call!AcquireFails, Call!Acquire, Call!AcquireBlocks, Call!AcquireWakes,
         Call!AcquireGivesUp, Call!NumberInput, Call!SendInput,
         Call!InputTooLarge, Call!InputAborted, Call!CloseInput, Call!Aborting,
         Call!AbortChecks, Call!AbortFails, Call!AbortTells,
         Call!PeerItem, Call!PeerEnd, Call!PeerAnswer, Call!PeerGrants, Call!PeerSends
    <2> QED BY <2>1, <2>2, <2>3, <2>4 DEF FramesNumbered
  <1> QED BY <1>1, <1>2, <1>3 DEF FramesNumbered

-------------------------------------------------------------------------------
(* Failures, wake channels and the idle timer. *)

LEMMA FailSays ==
  ASSUME DuplexTypes, NEW e \in Failures, Call!Fail(e)
  PROVE  \/ UNCHANGED <<failure, terminal, woken, idleTimer, credit, creditWoken>>
         \/ /\ failure = "none" /\ failure' = e /\ terminal' /\ woken' /\ ~idleTimer'
            /\ creditWoken'
  BY DEF Call!Fail, Call!Done, DuplexTypes, Failures

Flags == ReaderHolds /\ Call!NoLostWakeup /\ Call!IdleTimerStops

LEMMA FlagsOfReader ==
  ASSUME DuplexTypes, Flags, Call!ReaderStep \/ Call!Break
  PROVE  Flags'
  <1> USE DEF Call!out, Call!inp, Call!app, Call!wires
  <1>1. CASE Call!DeliverWindow \/ Call!DeliverEnd
    <2>1. /\ UNCHANGED <<reader, held, failure, outcome, queue, terminal, consumer, woken, sender>>
      BY <1>1 DEF Call!DeliverWindow, Call!DeliverEnd
    <2>2. ReaderHolds'
      BY <2>1 DEF Flags, ReaderHolds
    <2>3. Call!NoLostWakeup'
      BY <1>1, <2>1 DEF Flags, Call!NoLostWakeup, Call!DeliverWindow, Call!DeliverEnd
    <2>4. Call!IdleTimerStops'
      BY <1>1, <2>1 DEF Flags, Call!IdleTimerStops, Call!DeliverWindow, Call!DeliverEnd
    <2> QED BY <2>2, <2>3, <2>4 DEF Flags
  <1>2. CASE Call!DeliverItem
    <2>1. /\ UNCHANGED <<failure, outcome, queue, terminal, consumer, woken, sender, credit, creditWoken,
                         idleTimer, outputEnded>>
          /\ reader = "read" /\ reader' = "arm" /\ held'.kind = "item"
      BY <1>2 DEF Call!DeliverItem, Call!Arrived
    <2> QED BY <2>1 DEF Flags, ReaderHolds, Call!NoLostWakeup, Call!IdleTimerStops
  <1>3. CASE Call!DeliverBadItem
    <2>1. Call!Fail("protocol") /\ "protocol" \in Failures
          /\ UNCHANGED <<outcome, queue, consumer, sender, outputEnded, reader, held>>
      BY <1>3 DEF Call!DeliverBadItem, Failures
    <2>2. \/ UNCHANGED <<failure, terminal, woken, idleTimer, credit, creditWoken>>
          \/ /\ failure = "none" /\ failure' = "protocol" /\ terminal' /\ woken' /\ ~idleTimer'
             /\ creditWoken'
      BY <2>1, FailSays
    <2> QED BY <2>1, <2>2 DEF Flags, ReaderHolds, Call!NoLostWakeup, Call!IdleTimerStops
  <1>4. CASE Call!ArmIdle
    <2>1. /\ UNCHANGED <<failure, outcome, queue, terminal, consumer, woken, sender, credit, creditWoken,
                         outputEnded, held>>
          /\ reader = "arm" /\ reader' = "queue" /\ (idleTimer' <=> (~outputEnded /\ ~terminal))
      BY <1>4 DEF Call!ArmIdle, Call!MayArm
    <2> QED BY <2>1 DEF Flags, ReaderHolds, Call!NoLostWakeup, Call!IdleTimerStops
  <1>5. CASE Call!DeliverAnswer
    <2>1. /\ UNCHANGED <<failure, outcome, queue, consumer, woken, sender, credit, creditWoken,
                         idleTimer, outputEnded>>
          /\ reader = "read" /\ reader' = "marked" /\ held'.kind = "answer" /\ terminal'
      BY <1>5 DEF Call!DeliverAnswer, Call!Arrived
    <2> QED BY <2>1 DEF Flags, ReaderHolds, Call!NoLostWakeup, Call!IdleTimerStops
  <1>6. CASE Call!AnswerDone
    <2>1. /\ UNCHANGED <<failure, outcome, queue, terminal, consumer, woken, sender, held>>
          /\ reader = "marked" /\ reader' = "queue" /\ ~idleTimer' /\ creditWoken'
      BY <1>6 DEF Call!AnswerDone, Call!Done
    <2> QED BY <2>1 DEF Flags, ReaderHolds, Call!NoLostWakeup, Call!IdleTimerStops
  <1>7. CASE Call!Queue
    <2>1. /\ UNCHANGED <<failure, outcome, terminal, consumer, sender, credit, creditWoken,
                         idleTimer, outputEnded>>
          /\ reader = "queue" /\ reader' = "read" /\ held'.kind = "end" /\ woken'
      BY <1>7 DEF Call!Queue, Call!Wake, Call!Other
    <2> QED BY <2>1 DEF Flags, ReaderHolds, Call!NoLostWakeup, Call!IdleTimerStops
  <1>8. CASE Call!ReaderStops
    <2>1. Call!Fail("lost") /\ "lost" \in Failures /\ reader = "read" /\ reader' = "over"
          /\ UNCHANGED <<outcome, queue, consumer, sender, outputEnded, held>>
      BY <1>8 DEF Call!ReaderStops, Call!NoticedByReader, Failures
    <2>2. \/ UNCHANGED <<failure, terminal, woken, idleTimer, credit, creditWoken>>
          \/ /\ failure = "none" /\ failure' = "lost" /\ terminal' /\ woken' /\ ~idleTimer'
             /\ creditWoken'
      BY <2>1, FailSays
    <2> QED BY <2>1, <2>2 DEF Flags, ReaderHolds, Call!NoLostWakeup, Call!IdleTimerStops
  <1>9. CASE Call!Break
    BY <1>9 DEF Call!Break, Flags, ReaderHolds, Call!NoLostWakeup, Call!IdleTimerStops
  <1> QED BY <1>1, <1>2, <1>3, <1>4, <1>5, <1>6, <1>7, <1>8, <1>9 DEF Call!ReaderStep

LEMMA FlagsOfReceiver ==
  ASSUME DuplexTypes, Flags, Call!Receiving \/ Call!StreamAbort
  PROVE  Flags'
  <1> USE DEF Call!out, Call!inp, Call!app, Call!wires
  <1>0. UNCHANGED <<failure, terminal, reader, held, idleTimer, outputEnded, sender, credit, creditWoken>>
    BY DEF Call!Receiving, Call!RecvItem, Call!RecvAnswer, Call!RecvFailure, Call!RecvBlocks,
       Call!RecvWakes, Call!Consumed, Call!SendWindow,
       Call!ConsumedLate, Call!StreamAborted, Call!StreamAbort
  <1>1. Call!IdleTimerStops'
    BY <1>0 DEF Flags, Call!IdleTimerStops
  <1>2. Call!NoLostWakeup'
    <2>1. consumer' = "blocked" /\ ~woken' => queue' = <<>> /\ failure' = "none"
      BY DEF Call!Receiving, Call!RecvItem, Call!RecvAnswer, Call!RecvFailure, Call!RecvBlocks,
         Call!RecvWakes, Call!Consumed, Call!SendWindow,
         Call!ConsumedLate, Call!StreamAborted, Call!StreamAbort
    <2> QED BY <1>0, <2>1 DEF Flags, Call!NoLostWakeup
  <1>3. ReaderHolds'
    <2>1. outcome' = "lost" => failure' = "lost" /\ queue' = <<>>
      BY <1>0 DEF Call!Receiving, Call!RecvItem, Call!RecvAnswer, Call!RecvFailure,
         Call!RecvBlocks, Call!RecvWakes, Call!Consumed, Call!SendWindow,
         Call!ConsumedLate, Call!StreamAborted, Call!StreamAbort, Flags, ReaderHolds
    <2> QED BY <1>0, <2>1 DEF Flags, ReaderHolds
  <1> QED BY <1>1, <1>2, <1>3 DEF Flags

LEMMA FlagsOfRest ==
  ASSUME DuplexTypes, Flags,
         \/ Call!Sending \/ Call!AcquireGivesUp \/ Call!InputTooLarge \/ UNCHANGED Call!vars
         \/ \E a \in Call!Aborters : Call!Aborting(a)
         \/ Call!PeerItem \/ Call!PeerEnd \/ Call!PeerAnswer \/ Call!PeerGrants
  PROVE  Flags'
  <1> USE DEF Call!out, Call!inp, Call!app, Call!wires
  <1>1. CASE Call!Sending \/ Call!AcquireGivesUp \/ Call!InputTooLarge
    <2>1. UNCHANGED <<failure, terminal, reader, held, idleTimer, outputEnded, queue, outcome, consumer, woken>>
      BY <1>1 DEF Call!Sending, Call!SendBegins, Call!AcquireFails, Call!Acquire,
         Call!AcquireBlocks, Call!AcquireWakes, Call!AcquireGivesUp,
         Call!NumberInput, Call!SendInput, Call!InputTooLarge, Call!InputAborted,
         Call!CloseInput
    <2>2. ReaderHolds' /\ Call!IdleTimerStops'
      BY <2>1 DEF Flags, ReaderHolds, Call!IdleTimerStops
    <2>3. sender' = "blocked" /\ ~creditWoken' => credit'.n = 0 /\ ~credit'.closed
      BY <1>1 DEF Call!Sending, Call!SendBegins, Call!AcquireFails, Call!Acquire,
         Call!AcquireBlocks, Call!AcquireWakes, Call!AcquireGivesUp,
         Call!NumberInput, Call!SendInput, Call!InputTooLarge, Call!InputAborted,
         Call!CloseInput
    <2>4. Call!NoLostWakeup'
      BY <2>1, <2>3 DEF Flags, Call!NoLostWakeup
    <2> QED BY <2>2, <2>4 DEF Flags
  <1>2. ASSUME NEW a \in Call!Aborters, Call!AbortFails(a) PROVE Flags'
    <2>1. Call!Fail("aborted") /\ "aborted" \in Failures
          /\ UNCHANGED <<outcome, queue, consumer, sender, outputEnded, reader, held>>
      BY <1>2 DEF Call!AbortFails, Failures
    <2>2. \/ UNCHANGED <<failure, terminal, woken, idleTimer, credit, creditWoken>>
          \/ /\ failure = "none" /\ failure' = "aborted" /\ terminal' /\ woken' /\ ~idleTimer'
             /\ creditWoken'
      BY <2>1, FailSays
    <2> QED BY <2>1, <2>2 DEF Flags, ReaderHolds, Call!NoLostWakeup, Call!IdleTimerStops
  <1>3. ASSUME \/ UNCHANGED Call!vars \/ Call!PeerItem \/ Call!PeerEnd \/ Call!PeerAnswer \/ Call!PeerGrants
               \/ \E a \in Call!Aborters : Call!AbortChecks(a) \/ Call!AbortTells(a)
        PROVE  Flags'
    <2>1. UNCHANGED <<failure, terminal, reader, held, idleTimer, outputEnded, queue, outcome, consumer, woken,
                      sender, credit, creditWoken>>
      BY <1>3 DEF Call!vars, Call!PeerItem, Call!PeerEnd, Call!PeerAnswer, Call!PeerGrants,
         Call!PeerSends, Call!AbortChecks, Call!AbortTells
    <2> QED BY <2>1 DEF Flags, ReaderHolds, Call!NoLostWakeup, Call!IdleTimerStops
  <1> QED BY <1>1, <1>2, <1>3 DEF Call!Aborting

LEMMA FlagsStep ==
  ASSUME DuplexTypes, Flags, [Call!Next]_Call!vars
  PROVE  Flags'
  BY FlagsOfReader, FlagsOfReceiver, FlagsOfRest DEF Call!Next


-------------------------------------------------------------------------------
(* Credit for the application's items. *)

LEMMA WindowNumbers ==
  ASSUME DuplexTypes
  PROVE  Count(net, Call!Other("window")) \in Nat /\ credit.n \in Nat /\ peer.granted \in Nat
         /\ inputSeq \in Nat /\ outputAllowance \in Nat /\ expectedSeq \in Nat /\ peer.credit \in Nat
         /\ peer.sent \in Nat
  <1>1. Count(net, Call!Other("window")) \in Nat
    BY CountType DEF DuplexTypes
  <1> QED BY <1>1 DEF DuplexTypes

LEMMA InputKept ==
  ASSUME DuplexTypes, InputInv, UNCHANGED <<net, sender, inputSeq>>, credit'.n = credit.n,
         peer'.granted = peer.granted
  PROVE  InputInv'
  BY DEF InputInv

\* A frame taken from the connection: a window is counted on, any other is none.
LEMMA InputTaken ==
  ASSUME DuplexTypes, FramesNumbered, InputInv, net # <<>>, net' = Tail(net),
         UNCHANGED <<sender, inputSeq, peer>>, credit'.n \in Nat,
         \/ Head(net).kind = "window" /\ credit'.n = credit.n + 1
         \/ Head(net).kind # "window" /\ credit'.n = credit.n
  PROVE  InputInv'
  <1> DEFINE before == Count(net, Call!Other("window"))
             after == Count(Tail(net), Call!Other("window"))
  <1>1. Tail(net) \in Seq(DuplexFrames) /\ Head(net) \in NumberedFrames
    BY NetTypes, TailByIndex DEF FramesNumbered
  <1>2. Head(net).kind = "window" <=> Head(net) = Call!Other("window")
    <2>1. Head(net) \in [kind : Kinds, seq : Nat] /\ (Head(net).kind = "window" => Head(net).seq = 0)
      BY <1>1 DEF NumberedFrames, Numbered, DuplexFrames
    <2> QED BY <2>1 DEF Call!Other
  <1>3. before = IF Head(net) = Call!Other("window") THEN after + 1 ELSE after
    BY CountTail DEF DuplexTypes
  <1>4. after \in Nat /\ before \in Nat
    BY <1>1, CountType DEF DuplexTypes
  <1>5. credit.n + before <= peer.granted /\ credit.n \in Nat /\ peer.granted \in Nat
    BY WindowNumbers DEF InputInv
  <1>6. Count(net, Call!Other("window"))' = after
    OBVIOUS
  <1> HIDE DEF before, after
  <1>7. credit'.n + after <= peer.granted
    BY <1>2, <1>3, <1>4, <1>5
  <1> QED BY <1>6, <1>7 DEF InputInv, Call!Other

LEMMA InputStep ==
  ASSUME Call!CallAssumption, DuplexTypes, FramesNumbered, InputInv, [Call!Next]_Call!vars
  PROVE  InputInv'
  <1> USE DEF Call!out, Call!inp, Call!app, Call!wires
  <1>n. Count(net, Call!Other("window")) \in Nat /\ credit.n \in Nat /\ peer.granted \in Nat
    BY WindowNumbers
  <1>1. ASSUME Call!DeliverWindow PROVE InputInv'
    <2>1. /\ net # <<>> /\ net' = Tail(net) /\ UNCHANGED <<sender, inputSeq, peer>>
          /\ Head(net).kind = "window"
      BY <1>1 DEF Call!DeliverWindow, Call!Arrived
    <2>2. credit'.n = credit.n + 1
      BY <1>1 DEF Call!DeliverWindow, DuplexTypes
    <2> QED BY <1>n, <2>1, <2>2, InputTaken
  <1>2. ASSUME Call!DeliverItem \/ Call!DeliverBadItem \/ Call!DeliverEnd \/ Call!DeliverAnswer PROVE InputInv'
    <2>1. /\ net # <<>> /\ net' = Tail(net) /\ UNCHANGED <<sender, inputSeq, peer>>
          /\ Head(net).kind # "window"
      BY <1>2 DEF Call!DeliverItem, Call!DeliverBadItem, Call!DeliverEnd, Call!DeliverAnswer,
         Call!Arrived
    <2>2. credit'.n = credit.n
      BY <1>2, FailWithTypes DEF Call!DeliverItem, Call!DeliverBadItem, Call!DeliverEnd,
         Call!DeliverAnswer, Failures
    <2> QED BY <1>n, <2>1, <2>2, InputTaken
  <1>3. ASSUME Call!ArmIdle \/ Call!AnswerDone \/ Call!Queue \/ Call!ReaderStops \/ UNCHANGED Call!vars PROVE InputInv'
    <2>1. UNCHANGED <<net, sender, inputSeq, peer>>
      BY <1>3 DEF Call!ArmIdle, Call!AnswerDone, Call!Queue, Call!ReaderStops, Call!vars
    <2>2. credit'.n = credit.n
      BY <1>3, FailWithTypes DEF Call!ArmIdle, Call!AnswerDone, Call!Done, Call!Queue,
         Call!ReaderStops, Failures, Call!vars, DuplexTypes
    <2> QED BY <2>1, <2>2, InputKept
  <1>4. ASSUME Call!Break PROVE InputInv'
    <2>1. net' = <<>> /\ UNCHANGED <<sender, inputSeq, peer, credit>>
      BY <1>4 DEF Call!Break
    <2>2. Count(net, Call!Other("window"))' = 0
      BY <2>1, CountEmpty DEF Call!Other
    <2>3. credit.n <= peer.granted
      BY <1>n DEF InputInv
    <2> QED BY <1>n, <2>1, <2>2, <2>3 DEF InputInv
  <1>5. ASSUME Call!Receiving \/ Call!StreamAbort PROVE InputInv'
    <2>1. UNCHANGED <<net, sender, inputSeq, credit>>
      BY <1>5 DEF Call!Receiving, Call!RecvItem, Call!RecvAnswer, Call!RecvFailure,
         Call!RecvBlocks, Call!RecvWakes, Call!Consumed, Call!SendWindow,
         Call!ConsumedLate, Call!StreamAborted, Call!StreamAbort
    <2>2. peer'.granted = peer.granted
      BY <1>5 DEF Call!Receiving, Call!RecvItem, Call!RecvAnswer, Call!RecvFailure,
         Call!RecvBlocks, Call!RecvWakes, Call!Consumed, Call!SendWindow,
         Call!ConsumedLate, Call!StreamAborted, Call!StreamAbort, Call!CreditStep, DuplexTypes
    <2> QED BY <2>1, <2>2, InputKept
  <1>6. ASSUME Call!Acquire PROVE InputInv'
    <2>1. UNCHANGED <<net, inputSeq, peer>> /\ sender = "acquire"
      BY <1>6 DEF Call!Acquire
    <2>2. credit'.n = credit.n - 1
      BY <1>6 DEF Call!Acquire, DuplexTypes
    <2>3. Count(net, Call!Other("window"))' = Count(net, Call!Other("window"))
      BY <2>1 DEF Call!Other
    <2>4. credit'.n + Count(net, Call!Other("window")) <= peer.granted
      BY <1>n, <2>2 DEF InputInv
    <2> QED BY <2>1, <2>3, <2>4 DEF InputInv
  <1>7. ASSUME \/ Call!SendBegins \/ Call!AcquireFails \/ Call!AcquireBlocks \/ Call!AcquireWakes \/ Call!NumberInput \/ Call!SendInput
               \/ Call!InputAborted \/ Call!CloseInput \/ Call!AcquireGivesUp \/ Call!InputTooLarge
        PROVE  InputInv'
    <2>1. UNCHANGED <<net, peer, credit>>
      BY <1>7 DEF Call!SendBegins, Call!AcquireFails, Call!AcquireBlocks, Call!AcquireWakes,
         Call!AcquireGivesUp,
         Call!NumberInput, Call!SendInput, Call!InputTooLarge, Call!InputAborted,
         Call!CloseInput
    <2>2. sender' \in {"acquire", "blocked", "number"} => inputSeq' < MaxInput
      BY <1>7 DEF Call!SendBegins, Call!AcquireFails, Call!AcquireBlocks, Call!AcquireWakes,
         Call!AcquireGivesUp,
         Call!NumberInput, Call!SendInput, Call!InputTooLarge, Call!InputAborted,
         Call!CloseInput, InputInv
    <2> QED BY <2>1, <2>2 DEF InputInv
  <1>8. ASSUME NEW a \in Call!Aborters, Call!Aborting(a) PROVE InputInv'
    <2>1. UNCHANGED <<net, sender, inputSeq>>
      BY <1>8 DEF Call!Aborting, Call!AbortChecks, Call!AbortFails, Call!AbortTells
    <2>2. credit'.n = credit.n
      BY <1>8, FailWithTypes DEF Call!Aborting, Call!AbortChecks, Call!AbortFails,
         Call!AbortTells, Failures
    <2>3. peer'.granted = peer.granted
      BY <1>8 DEF Call!Aborting, Call!AbortChecks, Call!AbortFails, Call!AbortTells, DuplexTypes
    <2> QED BY <2>1, <2>2, <2>3, InputKept
  <1>9. ASSUME Call!PeerItem \/ Call!PeerEnd \/ Call!PeerAnswer \/ Call!PeerGrants PROVE InputInv'
    <2>1. UNCHANGED <<sender, inputSeq, credit>>
      BY <1>9 DEF Call!PeerItem, Call!PeerEnd, Call!PeerAnswer, Call!PeerGrants, Call!PeerSends
    <2>2. PICK f \in DuplexFrames : net' = Append(net, f)
          /\ peer'.granted = (IF f = Call!Other("window") THEN peer.granted + 1 ELSE peer.granted)
      <3>1. /\ Call!Item(peer.sent) \in DuplexFrames /\ \A k \in Kinds : Call!Other(k) \in DuplexFrames
            /\ Call!Item(peer.sent) # Call!Other("window") /\ Call!Other("end") # Call!Other("window")
            /\ Call!Other("answer") # Call!Other("window")
        BY DEF Call!Item, Call!Other, DuplexFrames, Kinds, DuplexTypes
      <3>2. CASE Call!PeerItem
        <4>1. net' = Append(net, Call!Item(peer.sent)) /\ peer'.granted = peer.granted
          BY <3>2 DEF Call!PeerItem, Call!PeerSends, DuplexTypes
        <4> QED BY <3>1, <4>1
      <3>3. CASE Call!PeerEnd
        <4>1. net' = Append(net, Call!Other("end")) /\ peer'.granted = peer.granted
          BY <3>3 DEF Call!PeerEnd, Call!PeerSends, DuplexTypes
        <4> QED BY <3>1, <4>1 DEF Kinds
      <3>4. CASE Call!PeerAnswer
        <4>1. net' = Append(net, Call!Other("answer")) /\ peer'.granted = peer.granted
          BY <3>4 DEF Call!PeerAnswer, Call!PeerSends, DuplexTypes
        <4> QED BY <3>1, <4>1 DEF Kinds
      <3>5. CASE Call!PeerGrants
        <4>1. net' = Append(net, Call!Other("window")) /\ peer'.granted = peer.granted + 1
          BY <3>5 DEF Call!PeerGrants, Call!PeerSends, DuplexTypes
        <4> QED BY <3>1, <4>1 DEF Kinds
      <3> QED BY <1>9, <3>2, <3>3, <3>4, <3>5
    <2>3. Count(Append(net, f), Call!Other("window")) =
          IF f = Call!Other("window") THEN Count(net, Call!Other("window")) + 1 ELSE Count(net, Call!Other("window"))
      BY CountAppend DEF DuplexTypes
    <2>4. Count(net, Call!Other("window"))' = Count(Append(net, f), Call!Other("window"))
      BY <2>2 DEF Call!Other
    <2>5. credit.n + Count(net, Call!Other("window")) <= peer.granted
      BY DEF InputInv
    <2>6. credit.n + Count(Append(net, f), Call!Other("window")) <= peer'.granted
      BY <1>n, <2>2, <2>3, <2>5
    <2> QED BY <2>1, <2>4, <2>6 DEF InputInv
  <1> QED BY <1>1, <1>2, <1>3, <1>4, <1>5, <1>6, <1>7, <1>8, <1>9 DEF Call!Next,
             Call!ReaderStep, Call!Sending

-------------------------------------------------------------------------------
(* Credit for the peer's items. *)

Hand == IF reader \in {"arm", "queue"} /\ held.kind = "item" THEN 1 ELSE 0

LEMMA OutputNumbers ==
  ASSUME Call!CallAssumption, DuplexTypes
  PROVE  /\ outputAllowance \in Nat /\ expectedSeq \in Nat /\ peer.credit \in Nat /\ peer.sent \in Nat
         /\ ItemCount(queue) \in Nat /\ Hand \in 0..1 /\ Got \in 0..1 /\ Granting \in 0..1
         /\ InitialCredit \in Nat
         /\ Call!Buffered = ItemCount(queue) + Hand
  <1>1. ItemCount(queue) \in Nat
    BY KindsCounted DEF DuplexTypes
  <1> QED BY <1>1, CallCardinality DEF DuplexTypes, Hand, Got, Granting, Call!Buffered,
             ItemCount, Call!CallAssumption

\* What counts stays the same, or an item leaves without credit for another.
LEMMA OutputKept ==
  ASSUME Call!CallAssumption, DuplexTypes, DuplexTypes', OutputInv,
         UNCHANGED <<outputAllowance, expectedSeq>>,
         ItemCount(queue') + Hand' <= ItemCount(queue) + Hand,
         Got' <= Got, Granting' = Granting, peer'.credit <= peer.credit
  PROVE  OutputInv'
  <1>1. /\ outputAllowance \in Nat /\ expectedSeq \in Nat /\ peer.credit \in Nat
        /\ ItemCount(queue) \in Nat /\ Hand \in 0..1 /\ Got \in 0..1 /\ Granting \in 0..1
        /\ InitialCredit \in Nat /\ Call!Buffered = ItemCount(queue) + Hand
    BY OutputNumbers
  <1>2. /\ peer'.credit \in Nat
        /\ ItemCount(queue') \in Nat /\ Hand' \in 0..1 /\ Got' \in 0..1
        /\ Call!Buffered' = ItemCount(queue') + Hand'
    <2>1. ItemCount(queue') \in Nat
      BY KindsCounted DEF DuplexTypes
    <2>2. Hand' \in 0..1 /\ Got' \in 0..1 /\ peer'.credit \in Nat
      BY DEF Hand, Got, DuplexTypes
    <2> QED BY <2>1, <2>2, CallCardinality DEF Call!Buffered, ItemCount, Hand
  <1>3. outputAllowance + Call!Buffered + Got <= InitialCredit /\ peer.credit + Granting <= outputAllowance + expectedSeq
    BY DEF OutputInv
  <1>4. outputAllowance + Call!Buffered' + Got' <= InitialCredit
    BY <1>1, <1>2, <1>3
  <1>5. peer'.credit + Granting <= outputAllowance + expectedSeq
    BY <1>1, <1>2, <1>3
  <1> QED BY <1>4, <1>5 DEF OutputInv


LEMMA OutputOfReader ==
  ASSUME Call!CallAssumption, DuplexTypes, DuplexTypes', ReaderHolds, OutputInv, Call!ReaderStep
  PROVE  OutputInv'
  <1> USE DEF Call!out, Call!inp, Call!app, Call!wires
  <1>n. /\ outputAllowance \in Nat /\ expectedSeq \in Nat /\ peer.credit \in Nat
        /\ ItemCount(queue) \in Nat /\ Hand \in 0..1 /\ Got \in 0..1 /\ Granting \in 0..1
        /\ InitialCredit \in Nat /\ Call!Buffered = ItemCount(queue) + Hand
    BY OutputNumbers
  <1>i. outputAllowance + Call!Buffered + Got <= InitialCredit /\ peer.credit + Granting <= outputAllowance + expectedSeq
    BY DEF OutputInv
  <1>1. CASE Call!DeliverItem
    <2>1. /\ UNCHANGED <<queue, consumer, peer>>
          /\ outputAllowance > 0 /\ outputAllowance' = outputAllowance - 1 /\ expectedSeq' = expectedSeq + 1
          /\ reader = "read" /\ reader' = "arm" /\ held'.kind = "item"
      BY <1>1 DEF Call!DeliverItem, Call!Acceptable, Call!Arrived
    <2>2. Hand = 0 /\ Hand' = 1 /\ Got' = Got /\ Granting' = Granting
      BY <2>1 DEF Hand, Got, Granting
    <2>3. Call!Buffered' = ItemCount(queue) + 1
      BY <2>1, <2>2, CallCardinality DEF Call!Buffered, ItemCount, Hand
    <2>4. outputAllowance' + Call!Buffered' + Got' <= InitialCredit
      BY <1>n, <1>i, <2>1, <2>2, <2>3
    <2>5. peer'.credit + Granting' <= outputAllowance' + expectedSeq'
      BY <1>n, <1>i, <2>1, <2>2
    <2> QED BY <2>4, <2>5 DEF OutputInv
  <1>2. CASE Call!Queue
    <2>1. /\ UNCHANGED <<outputAllowance, expectedSeq, consumer, peer>>
          /\ reader = "queue" /\ reader' = "read" /\ queue' = Append(queue, held)
      BY <1>2 DEF Call!Queue
    <2>2. Hand = (IF held.kind = "item" THEN 1 ELSE 0) /\ Hand' = 0 /\ Got' = Got /\ Granting' = Granting
      BY <2>1 DEF Hand, Got, Granting
    <2>3. ItemCount(queue') = ItemCount(queue) + (IF held.kind = "item" THEN 1 ELSE 0)
      BY <2>1, ItemCountAppend DEF DuplexTypes
    <2>4. ItemCount(queue') + Hand' <= ItemCount(queue) + Hand
      BY <1>n, <2>2, <2>3
    <2> QED BY <1>n, <2>1, <2>2, <2>4, OutputKept
  <1>3. CASE Call!DeliverWindow \/ Call!DeliverBadItem \/ Call!DeliverEnd \/ Call!DeliverAnswer \/ Call!ArmIdle \/ Call!AnswerDone \/ Call!ReaderStops
    <2>1. UNCHANGED <<outputAllowance, expectedSeq, queue, consumer, peer>>
      BY <1>3 DEF Call!DeliverWindow, Call!DeliverBadItem, Call!DeliverEnd, Call!DeliverAnswer,
         Call!ArmIdle, Call!AnswerDone, Call!ReaderStops
    <2>2. Hand' = Hand
      BY <1>3 DEF Call!DeliverWindow, Call!DeliverBadItem, Call!DeliverEnd, Call!DeliverAnswer,
         Call!ArmIdle, Call!AnswerDone, Call!ReaderStops,
         Call!NoticedByReader, Call!Arrived, ReaderHolds, Hand
    <2>3. Got' = Got /\ Granting' = Granting
      BY <2>1 DEF Got, Granting
    <2> QED BY <1>n, <2>1, <2>2, <2>3, OutputKept
  <1> QED BY <1>1, <1>2, <1>3 DEF Call!ReaderStep

LEMMA OutputOfReceiver ==
  ASSUME Call!CallAssumption, DuplexTypes, DuplexTypes', OutputInv, Call!Receiving \/ Call!StreamAbort
  PROVE  OutputInv'
  <1> USE DEF Call!out, Call!inp, Call!app, Call!wires
  <1>n. /\ outputAllowance \in Nat /\ expectedSeq \in Nat /\ peer.credit \in Nat
        /\ ItemCount(queue) \in Nat /\ Hand \in 0..1 /\ Got \in 0..1 /\ Granting \in 0..1
        /\ InitialCredit \in Nat /\ Call!Buffered = ItemCount(queue) + Hand
    BY OutputNumbers
  <1>i. outputAllowance + Call!Buffered + Got <= InitialCredit /\ peer.credit + Granting <= outputAllowance + expectedSeq
    BY DEF OutputInv
  <1>h. UNCHANGED <<reader, held, expectedSeq>> /\ Hand' = Hand
    <2>1. UNCHANGED <<reader, held, expectedSeq>>
      BY DEF Call!Receiving, Call!RecvItem, Call!RecvAnswer, Call!RecvFailure, Call!RecvBlocks,
         Call!RecvWakes, Call!Consumed, Call!SendWindow,
         Call!ConsumedLate, Call!StreamAborted, Call!StreamAbort
    <2> QED BY <2>1 DEF Hand
  <1>1. CASE Call!RecvItem
    <2>1. /\ UNCHANGED <<outputAllowance, peer>> /\ queue # <<>> /\ queue' = Tail(queue)
          /\ Head(queue).kind = "item" /\ consumer = "recv" /\ consumer' = "got"
      BY <1>1 DEF Call!RecvItem
    <2>2. ItemCount(queue) = ItemCount(Tail(queue)) + 1
      BY <2>1, ItemCountTail DEF DuplexTypes
    <2>3. Got = 0 /\ Got' = 1 /\ Granting' = Granting
      BY <2>1 DEF Got, Granting
    <2>4. Call!Buffered' = ItemCount(Tail(queue)) + Hand
      BY <1>h, <2>1, CallCardinality DEF Call!Buffered, ItemCount, Hand
    <2>5. ItemCount(Tail(queue)) \in Nat
      BY <2>1, TailByIndex, KindsCounted DEF DuplexTypes
    <2>6. outputAllowance + Call!Buffered' + Got' <= InitialCredit
      BY <1>n, <1>i, <2>2, <2>3, <2>4, <2>5
    <2> QED BY <1>h, <1>i, <2>1, <2>3, <2>6 DEF OutputInv
  <1>2. CASE Call!RecvAnswer
    <2>1. /\ UNCHANGED <<outputAllowance, peer>> /\ queue # <<>> /\ queue' = Tail(queue)
          /\ Head(queue).kind = "answer" /\ consumer = "recv" /\ consumer' = "done"
      BY <1>2 DEF Call!RecvAnswer
    <2>2. ItemCount(queue) = ItemCount(Tail(queue)) + 0
      BY <2>1, ItemCountTail DEF DuplexTypes
    <2>3. Got' = Got /\ Granting' = Granting
      BY <2>1 DEF Got, Granting
    <2>5. ItemCount(Tail(queue)) \in Nat
      BY <2>1, TailByIndex, KindsCounted DEF DuplexTypes
    <2>6. ItemCount(queue') + Hand' <= ItemCount(queue) + Hand
      BY <1>n, <1>h, <2>1, <2>2, <2>5
    <2> QED BY <1>n, <1>h, <2>1, <2>3, <2>6, OutputKept
  <1>3. CASE Call!Consumed
    <2>1. /\ UNCHANGED queue /\ outputAllowance' = outputAllowance + 1
          /\ consumer = "got" /\ consumer' = "granting"
      BY <1>3 DEF Call!Consumed, Call!CreditStep
    <2>2. peer'.credit = peer.credit
      BY <1>3 DEF Call!Consumed, Call!CreditStep, DuplexTypes
    <2>3. Got = 1 /\ Got' = 0 /\ Granting = 0 /\ Granting' = 1
      BY <2>1 DEF Got, Granting
    <2>4. Call!Buffered' = Call!Buffered
      BY <1>h, <2>1, CallCardinality DEF Call!Buffered
    <2>5. outputAllowance' + Call!Buffered' + Got' <= InitialCredit
      BY <1>n, <1>i, <2>1, <2>3, <2>4
    <2>6. peer'.credit + Granting' <= outputAllowance' + expectedSeq'
      BY <1>n, <1>i, <1>h, <2>1, <2>2, <2>3
    <2> QED BY <2>5, <2>6 DEF OutputInv
  <1>4. CASE Call!SendWindow
    <2>1. UNCHANGED queue /\ consumer = "granting" /\ consumer' = "recv"
      BY <1>4 DEF Call!SendWindow
    <2>2. outputAllowance' = outputAllowance
      BY <1>4, <1>n DEF Call!SendWindow, Call!CreditStep
    <2>3. peer'.credit \in Nat /\ peer'.credit <= peer.credit + 1
      BY <1>4 DEF Call!SendWindow, Call!CreditStep, DuplexTypes
    <2>4. Got' = 0 /\ Got = 0 /\ Granting = 1 /\ Granting' = 0
      BY <2>1 DEF Got, Granting
    <2>5. Call!Buffered' = Call!Buffered
      BY <1>h, <2>1, CallCardinality DEF Call!Buffered
    <2>6. peer'.credit + Granting' <= outputAllowance' + expectedSeq'
      BY <1>n, <1>i, <1>h, <2>2, <2>3, <2>4
    <2> QED BY <1>i, <2>2, <2>4, <2>5, <2>6 DEF OutputInv
  <1>5. CASE Call!RecvFailure \/ Call!RecvBlocks \/ Call!RecvWakes \/ Call!ConsumedLate \/ Call!StreamAborted \/ Call!StreamAbort
    <2>1. UNCHANGED <<outputAllowance, queue, peer>>
      BY <1>5 DEF Call!RecvFailure, Call!RecvBlocks, Call!RecvWakes, Call!ConsumedLate,
         Call!StreamAborted, Call!StreamAbort
    <2>2. consumer # "granting" /\ consumer' \notin {"got", "granting"}
      BY <1>5 DEF Call!RecvFailure, Call!RecvBlocks, Call!RecvWakes, Call!ConsumedLate,
         Call!StreamAborted, Call!StreamAbort
    <2>3. Got' <= Got /\ Granting' = Granting
      BY <1>n, <2>2 DEF Got, Granting
    <2> QED BY <1>n, <1>h, <2>1, <2>3, OutputKept
  <1> QED BY <1>1, <1>2, <1>3, <1>4, <1>5 DEF Call!Receiving

LEMMA OutputOfRest ==
  ASSUME Call!CallAssumption, DuplexTypes, DuplexTypes', OutputInv,
         \/ Call!Sending \/ Call!AcquireGivesUp \/ Call!InputTooLarge \/ Call!Break \/ UNCHANGED Call!vars
         \/ \E a \in Call!Aborters : Call!Aborting(a)
         \/ Call!PeerItem \/ Call!PeerEnd \/ Call!PeerAnswer \/ Call!PeerGrants
  PROVE  OutputInv'
  <1> USE DEF Call!out, Call!inp, Call!app, Call!wires
  <1>n. /\ ItemCount(queue) \in Nat /\ Hand \in 0..1 /\ Got \in 0..1 /\ peer.credit \in Nat
    BY OutputNumbers
  <1>1. UNCHANGED <<outputAllowance, expectedSeq, queue, consumer, reader, held>>
    BY DEF Call!vars, Call!Break, Call!Sending, Call!SendBegins, Call!AcquireFails,
       Call!Acquire, Call!AcquireBlocks, Call!AcquireWakes, Call!AcquireGivesUp,
       Call!NumberInput, Call!SendInput, Call!InputTooLarge, Call!InputAborted,
       Call!CloseInput, Call!Aborting, Call!AbortChecks, Call!AbortFails,
       Call!AbortTells, Call!PeerItem, Call!PeerEnd, Call!PeerAnswer, Call!PeerGrants,
       Call!PeerSends
  <1>2. peer'.credit <= peer.credit
    <2>1. CASE Call!PeerItem
      <3>1. peer'.credit = IF peer.credit > 0 THEN peer.credit - 1 ELSE 0
        BY <2>1 DEF Call!PeerItem, Call!PeerSends, DuplexTypes
      <3> QED BY <1>n, <3>1
    <2>2. CASE UNCHANGED peer
      BY <1>n, <2>2
    <2>3. CASE Call!PeerEnd \/ Call!PeerAnswer \/ Call!PeerGrants \/ \E a \in Call!Aborters : Call!AbortTells(a)
      <3>1. peer'.credit = peer.credit
        BY <2>3 DEF Call!PeerEnd, Call!PeerAnswer, Call!PeerGrants, Call!PeerSends,
           Call!AbortTells, DuplexTypes
      <3> QED BY <1>n, <3>1
    <2>4. \/ UNCHANGED peer \/ Call!PeerItem \/ Call!PeerEnd \/ Call!PeerAnswer \/ Call!PeerGrants
          \/ \E a \in Call!Aborters : Call!AbortTells(a)
      BY DEF Call!vars, Call!Break, Call!Sending, Call!SendBegins, Call!AcquireFails,
         Call!Acquire, Call!AcquireBlocks, Call!AcquireWakes, Call!AcquireGivesUp,
         Call!NumberInput, Call!SendInput, Call!InputTooLarge, Call!InputAborted,
         Call!CloseInput, Call!Aborting, Call!AbortChecks, Call!AbortFails
    <2> QED BY <2>1, <2>2, <2>3, <2>4
  <1>3. Hand' = Hand /\ Got' = Got /\ Granting' = Granting
    BY <1>1 DEF Hand, Got, Granting
  <1> QED BY <1>n, <1>1, <1>2, <1>3, OutputKept

LEMMA OutputStep ==
  ASSUME Call!CallAssumption, DuplexTypes, DuplexTypes', ReaderHolds, OutputInv, [Call!Next]_Call!vars
  PROVE  OutputInv'
  BY OutputOfReader, OutputOfReceiver, OutputOfRest DEF Call!Next


-------------------------------------------------------------------------------
(* An honest peer. *)

\* The first item on the way is the one the client expects, and there is room for it.
LEMMA FirstItem ==
  ASSUME DuplexTypes, ItemsOnTheWay, net # <<>>, Head(net).kind = "item"
  PROVE  Head(net).seq = expectedSeq /\ expectedSeq < peer.sent
  <1>1. /\ 1 \in DOMAIN net /\ Head(net) = net[1] /\ DOMAIN net = 1..Len(net) /\ Len(net) \in Nat
    BY TailByIndex, LenProperties DEF DuplexTypes
  <1>2. net[1].seq \in expectedSeq..(peer.sent - 1) /\ expectedSeq \in Nat /\ peer.sent \in Nat
    BY <1>1 DEF ItemsOnTheWay, ItemAt, DuplexTypes
  <1>3. expectedSeq \in expectedSeq..(peer.sent - 1)
    BY <1>2
  <1>4. PICK i \in DOMAIN net : ItemAt(net, i) /\ net[i].seq = expectedSeq
    BY <1>3 DEF ItemsOnTheWay
  <1>5. CASE i = 1
    BY <1>1, <1>2, <1>4, <1>5
  <1>6. CASE i # 1
    <2>1. 1 < i
      BY <1>1, <1>6
    <2>2. net[1].seq < net[i].seq
      BY <1>1, <1>4, <2>1 DEF ItemsOnTheWay, ItemAt
    <2> QED BY <1>2, <1>4, <2>2
  <1> QED BY <1>5, <1>6

LEMMA ItemsTaken ==
  ASSUME DuplexTypes, ItemsOnTheWay, net # <<>>, net' = Tail(net), peer' = peer,
         \/ Head(net).kind # "item" /\ expectedSeq' = expectedSeq
         \/ Head(net).kind = "item" /\ expectedSeq' = expectedSeq + 1
  PROVE  ItemsOnTheWay'
  <1>1. /\ Head(net) = net[1] /\ DOMAIN net = 1..Len(net) /\ Len(net) \in Nat \ {0}
        /\ DOMAIN net' = 1..(Len(net) - 1) /\ \A i \in 1..(Len(net) - 1) : net'[i] = net[i + 1]
    BY TailByIndex, LenProperties DEF DuplexTypes
  <1>2. /\ \A i \in 1..(Len(net) - 1) : i + 1 \in 1..Len(net) /\ i + 1 # 1 /\ 1 < i + 1
        /\ \A i \in 1..Len(net) : i # 1 => i - 1 \in 1..(Len(net) - 1) /\ (i - 1) + 1 = i
        /\ \A i, j \in 1..(Len(net) - 1) : i < j => i + 1 < j + 1
        /\ 1 \in 1..Len(net)
    BY <1>1
  <1>n. expectedSeq \in Nat /\ peer.sent \in Nat
    BY DEF DuplexTypes
  <1>h. Head(net).kind = "item" => net[1].seq = expectedSeq
    BY <1>1, FirstItem
  <1>3. ASSUME NEW i \in DOMAIN net', ItemAt(net', i) PROVE net'[i].seq \in expectedSeq'..(peer'.sent - 1)
    <2>1. i + 1 \in DOMAIN net /\ 1 < i + 1 /\ net'[i] = net[i + 1] /\ ItemAt(net, i + 1) /\ 1 \in DOMAIN net
      BY <1>1, <1>2, <1>3 DEF ItemAt
    <2>2. net[i + 1].seq \in expectedSeq..(peer.sent - 1)
      BY <2>1 DEF ItemsOnTheWay
    <2>3. Head(net).kind = "item" => expectedSeq < net[i + 1].seq
      BY <1>h, <1>1, <2>1 DEF ItemsOnTheWay, ItemAt
    <2> QED BY <1>n, <2>1, <2>2, <2>3
  <1>4. ASSUME NEW i \in DOMAIN net', NEW j \in DOMAIN net', ItemAt(net', i), ItemAt(net', j), i < j
        PROVE  net'[i].seq < net'[j].seq
    <2>1. /\ i + 1 \in DOMAIN net /\ j + 1 \in DOMAIN net /\ i + 1 < j + 1
          /\ net'[i] = net[i + 1] /\ net'[j] = net[j + 1]
      BY <1>1, <1>2, <1>4
    <2> QED BY <1>4, <2>1 DEF ItemsOnTheWay, ItemAt
  <1>5. ASSUME NEW n \in expectedSeq'..(peer'.sent - 1)
        PROVE  \E i \in DOMAIN net' : ItemAt(net', i) /\ net'[i].seq = n
    <2>1. n \in expectedSeq..(peer.sent - 1) /\ (Head(net).kind = "item" => n # expectedSeq)
      BY <1>n
    <2>2. PICK j \in DOMAIN net : ItemAt(net, j) /\ net[j].seq = n
      BY <2>1 DEF ItemsOnTheWay
    <2>3. j # 1
      BY <1>1, <1>h, <2>1, <2>2 DEF ItemAt
    <2>4. j - 1 \in DOMAIN net' /\ net'[j - 1] = net[j]
      BY <1>1, <1>2, <2>3
    <2> QED BY <2>2, <2>4 DEF ItemAt
  <1> QED BY <1>3, <1>4, <1>5 DEF ItemsOnTheWay

LEMMA EndTaken ==
  ASSUME DuplexTypes, EndOnTheWay, net # <<>>, net' = Tail(net), peer' = peer,
         outputEnded' = outputEnded \/ Head(net).kind = "end"
  PROVE  EndOnTheWay'
  <1>1. /\ Head(net) = net[1] /\ DOMAIN net = 1..Len(net) /\ Len(net) \in Nat \ {0}
        /\ DOMAIN net' = 1..(Len(net) - 1) /\ \A i \in 1..(Len(net) - 1) : net'[i] = net[i + 1]
    BY TailByIndex, LenProperties DEF DuplexTypes
  <1>2. /\ \A i \in 1..(Len(net) - 1) : i + 1 \in 1..Len(net) /\ 1 < i + 1
        /\ \A i, j \in 1..(Len(net) - 1) : i < j => i + 1 < j + 1
        /\ 1 \in 1..Len(net)
    BY <1>1
  <1>3. \A i \in DOMAIN net' : net'[i].kind = "end" => peer'.ended
    BY <1>1, <1>2 DEF EndOnTheWay
  <1>4. ASSUME NEW i \in DOMAIN net', NEW j \in DOMAIN net', i < j, net'[i].kind = "end" PROVE ~ItemAt(net', j)
    <2>1. /\ i + 1 \in DOMAIN net /\ j + 1 \in DOMAIN net /\ i + 1 < j + 1
          /\ net'[i] = net[i + 1] /\ net'[j] = net[j + 1]
      BY <1>1, <1>2, <1>4
    <2> QED BY <1>4, <2>1 DEF EndOnTheWay, ItemAt
  <1>5. ASSUME outputEnded' PROVE peer'.ended /\ \A i \in DOMAIN net' : ~ItemAt(net', i)
    <2>1. CASE Head(net).kind = "end"
      <3>1. 1 \in DOMAIN net /\ net[1].kind = "end"
        BY <1>1, <1>2, <2>1
      <3>2. ASSUME NEW i \in DOMAIN net' PROVE ~ItemAt(net', i)
        <4>1. i + 1 \in DOMAIN net /\ 1 < i + 1 /\ net'[i] = net[i + 1]
          BY <1>1, <1>2
        <4> QED BY <3>1, <4>1 DEF EndOnTheWay, ItemAt
      <3> QED BY <3>1, <3>2 DEF EndOnTheWay
    <2>2. CASE Head(net).kind # "end"
      <3>1. outputEnded
        BY <1>5, <2>2
      <3>2. ASSUME NEW i \in DOMAIN net' PROVE ~ItemAt(net', i)
        <4>1. i + 1 \in DOMAIN net /\ net'[i] = net[i + 1]
          BY <1>1, <1>2
        <4> QED BY <3>1, <4>1 DEF EndOnTheWay, ItemAt
      <3> QED BY <3>1, <3>2 DEF EndOnTheWay
    <2> QED BY <2>1, <2>2
  <1> QED BY <1>3, <1>4, <1>5 DEF EndOnTheWay

LEMMA ItemsSent ==
  ASSUME DuplexTypes, ItemsOnTheWay, NEW f \in DuplexFrames, net' = Append(net, f),
         expectedSeq' = expectedSeq, expectedSeq <= peer.sent,
         \/ f.kind # "item" /\ peer'.sent = peer.sent
         \/ f.kind = "item" /\ f.seq = peer.sent /\ peer'.sent = peer.sent + 1
  PROVE  ItemsOnTheWay'
  <1>1. /\ DOMAIN net = 1..Len(net) /\ Len(net) \in Nat
        /\ DOMAIN net' = 1..(Len(net) + 1) /\ net'[Len(net) + 1] = f
        /\ \A i \in 1..Len(net) : net'[i] = net[i]
    BY AppendProperties, LenProperties DEF DuplexTypes
  <1>2. /\ \A i \in 1..(Len(net) + 1) : i \in 1..Len(net) \/ i = Len(net) + 1
        /\ \A i, j \in 1..(Len(net) + 1) : i < j => i \in 1..Len(net)
        /\ \A i \in 1..Len(net) : i \in 1..(Len(net) + 1)
        /\ Len(net) + 1 \in 1..(Len(net) + 1)
    BY <1>1
  <1>n. expectedSeq \in Nat /\ peer.sent \in Nat
    BY DEF DuplexTypes
  <1>o. \A i \in DOMAIN net : ItemAt(net, i) => net[i].seq \in expectedSeq..(peer.sent - 1)
    BY DEF ItemsOnTheWay
  <1>3. ASSUME NEW i \in DOMAIN net', ItemAt(net', i) PROVE net'[i].seq \in expectedSeq'..(peer'.sent - 1)
    <2>1. CASE i \in 1..Len(net)
      <3>1. net'[i].seq \in expectedSeq..(peer.sent - 1)
        BY <1>1, <1>3, <1>o, <2>1 DEF ItemAt
      <3> QED BY <1>n, <3>1
    <2>2. CASE i = Len(net) + 1
      <3>1. f.kind = "item" /\ net'[i].seq = peer.sent
        BY <1>1, <1>3, <2>2 DEF ItemAt
      <3> QED BY <1>n, <3>1
    <2> QED BY <1>1, <1>2, <2>1, <2>2
  <1>4. ASSUME NEW i \in DOMAIN net', NEW j \in DOMAIN net', ItemAt(net', i), ItemAt(net', j), i < j
        PROVE  net'[i].seq < net'[j].seq
    <2>0. i \in 1..Len(net) /\ net'[i] = net[i]
      BY <1>1, <1>2, <1>4
    <2>1. CASE j \in 1..Len(net)
      BY <1>1, <1>4, <2>0, <2>1 DEF ItemsOnTheWay, ItemAt
    <2>2. CASE j = Len(net) + 1
      <3>1. net'[j].seq = peer.sent
        BY <1>1, <1>4, <2>2 DEF ItemAt
      <3>2. net'[i].seq \in expectedSeq..(peer.sent - 1)
        BY <1>1, <1>4, <1>o, <2>0 DEF ItemAt
      <3> QED BY <1>n, <3>1, <3>2
    <2> QED BY <1>1, <1>2, <2>1, <2>2
  <1>5. ASSUME NEW n \in expectedSeq'..(peer'.sent - 1)
        PROVE  \E i \in DOMAIN net' : ItemAt(net', i) /\ net'[i].seq = n
    <2>1. CASE n \in expectedSeq..(peer.sent - 1)
      <3>1. PICK j \in DOMAIN net : ItemAt(net, j) /\ net[j].seq = n
        BY <2>1 DEF ItemsOnTheWay
      <3>2. j \in DOMAIN net' /\ net'[j] = net[j]
        BY <1>1, <1>2
      <3> QED BY <3>1, <3>2 DEF ItemAt
    <2>2. CASE n \notin expectedSeq..(peer.sent - 1)
      <3>1. f.kind = "item" /\ f.seq = n
        BY <1>n, <2>2
      <3> QED BY <1>1, <1>2, <3>1 DEF ItemAt
    <2> QED BY <2>1, <2>2
  <1> QED BY <1>3, <1>4, <1>5 DEF ItemsOnTheWay

LEMMA EndSent ==
  ASSUME DuplexTypes, EndOnTheWay, NEW f \in DuplexFrames, net' = Append(net, f),
         outputEnded' = outputEnded, peer.ended => peer'.ended,
         f.kind = "item" => ~peer.ended, f.kind = "end" => peer'.ended
  PROVE  EndOnTheWay'
  <1>1. /\ DOMAIN net = 1..Len(net) /\ Len(net) \in Nat
        /\ DOMAIN net' = 1..(Len(net) + 1) /\ net'[Len(net) + 1] = f
        /\ \A i \in 1..Len(net) : net'[i] = net[i]
    BY AppendProperties, LenProperties DEF DuplexTypes
  <1>2. /\ \A i \in 1..(Len(net) + 1) : i \in 1..Len(net) \/ i = Len(net) + 1
        /\ \A i, j \in 1..(Len(net) + 1) : i < j => i \in 1..Len(net)
    BY <1>1
  <1>3. \A i \in DOMAIN net' : net'[i].kind = "end" => peer'.ended
    BY <1>1, <1>2 DEF EndOnTheWay
  <1>4. ASSUME NEW i \in DOMAIN net', NEW j \in DOMAIN net', i < j, net'[i].kind = "end" PROVE ~ItemAt(net', j)
    <2>0. i \in 1..Len(net) /\ net'[i] = net[i] /\ peer.ended
      BY <1>1, <1>2, <1>4 DEF EndOnTheWay
    <2>1. CASE j \in 1..Len(net)
      BY <1>1, <1>4, <2>0, <2>1 DEF EndOnTheWay, ItemAt
    <2>2. CASE j = Len(net) + 1
      BY <1>1, <2>0, <2>2 DEF ItemAt
    <2> QED BY <1>1, <1>2, <2>1, <2>2
  <1>5. ASSUME outputEnded' PROVE peer'.ended /\ \A i \in DOMAIN net' : ~ItemAt(net', i)
    <2>1. outputEnded /\ peer.ended
      BY <1>5 DEF EndOnTheWay
    <2> QED BY <1>1, <1>2, <2>1 DEF EndOnTheWay, ItemAt
  <1> QED BY <1>3, <1>4, <1>5 DEF EndOnTheWay


\* What is on the way and the credit for it stay as they are.
LEMMA HonestKept ==
  ASSUME HonestInv, UNCHANGED <<net, connected, expectedSeq, outputEnded, outputAllowance>>,
         peer'.honest = peer.honest, peer'.ended = peer.ended, peer'.sent = peer.sent,
         peer'.credit = peer.credit, Granting' = Granting,
         failure' \in {failure, "lost", "aborted"}
  PROVE  HonestInv'
  <1>1. ItemsOnTheWay => ItemsOnTheWay'
    BY DEF ItemsOnTheWay
  <1>2. EndOnTheWay => EndOnTheWay'
    BY DEF EndOnTheWay
  <1> QED BY <1>1, <1>2 DEF HonestInv, OnTheWay

LEMMA HonestOfReader ==
  ASSUME Call!CallAssumption, DuplexTypes, HonestInv, Call!ReaderStep \/ Call!Break
  PROVE  HonestInv'
  <1> USE DEF Call!out, Call!inp, Call!app, Call!wires
  <1>n. /\ outputAllowance \in Nat /\ expectedSeq \in Nat /\ peer.credit \in Nat /\ peer.sent \in Nat
        /\ Granting \in 0..1
    BY OutputNumbers
  <1> SUFFICES ASSUME peer.honest, peer'.honest PROVE HonestInv'
    <2>1. peer' = peer
      BY DEF Call!ReaderStep, Call!DeliverWindow, Call!DeliverItem, Call!DeliverBadItem,
         Call!ArmIdle, Call!DeliverEnd, Call!DeliverAnswer,
         Call!AnswerDone, Call!Queue, Call!ReaderStops, Call!Break
    <2> QED BY <2>1 DEF HonestInv
  <1>h. /\ failure # "protocol" /\ (IF connected THEN OnTheWay ELSE net = <<>>)
    BY DEF HonestInv
  <1>1. CASE Call!DeliverWindow \/ Call!DeliverEnd \/ Call!DeliverAnswer
    <2>1. /\ net # <<>> /\ net' = Tail(net)
          /\ UNCHANGED <<peer, connected, expectedSeq, outputAllowance, consumer, failure>>
          /\ Head(net).kind # "item"
      BY <1>1 DEF Call!DeliverWindow, Call!DeliverEnd, Call!DeliverAnswer, Call!Arrived
    <2>2. outputEnded' = outputEnded \/ Head(net).kind = "end"
      BY <1>1 DEF Call!DeliverWindow, Call!DeliverEnd, Call!DeliverAnswer, Call!Arrived,
         DuplexTypes
    <2>3. connected /\ OnTheWay
      BY <1>h, <2>1
    <2>4. ItemsOnTheWay' /\ EndOnTheWay'
      BY <2>1, <2>2, <2>3, ItemsTaken, EndTaken DEF OnTheWay
    <2>5. Granting' = Granting
      BY <2>1 DEF Granting
    <2> QED BY <1>h, <2>1, <2>3, <2>4, <2>5 DEF HonestInv, OnTheWay
  <1>2. CASE Call!DeliverItem
    <2>1. /\ net # <<>> /\ net' = Tail(net) /\ UNCHANGED <<peer, connected, consumer, failure, outputEnded>>
          /\ outputAllowance' = outputAllowance - 1 /\ expectedSeq' = expectedSeq + 1
          /\ Head(net).kind = "item"
      BY <1>2 DEF Call!DeliverItem, Call!Arrived
    <2>2. outputEnded' = outputEnded \/ Head(net).kind = "end"
      BY <2>1 DEF DuplexTypes
    <2>3. connected /\ OnTheWay
      BY <1>h, <2>1
    <2>4. ItemsOnTheWay' /\ EndOnTheWay'
      BY <2>1, <2>2, <2>3, ItemsTaken, EndTaken DEF OnTheWay
    <2>5. expectedSeq < peer.sent
      BY <2>1, <2>3, FirstItem DEF OnTheWay
    <2>6. Granting' = Granting
      BY <2>1 DEF Granting
    <2>7. outputAllowance = peer.credit + (peer.sent - expectedSeq) + Granting
      BY <2>3 DEF OnTheWay
    <2>8. /\ expectedSeq' <= peer'.sent
          /\ outputAllowance' = peer'.credit + (peer'.sent - expectedSeq') + Granting'
      <3>1. /\ peer' = peer /\ outputAllowance' = outputAllowance - 1 /\ expectedSeq' = expectedSeq + 1
        BY <2>1
      <3>2. /\ expectedSeq + 1 <= peer.sent
            /\ outputAllowance - 1 = peer.credit + (peer.sent - (expectedSeq + 1)) + Granting
        BY <1>n, <2>5, <2>7
      <3> QED BY <2>6, <3>1, <3>2
    <2> QED BY <1>h, <2>1, <2>3, <2>4, <2>8 DEF HonestInv, OnTheWay
  <1>3. CASE Call!DeliverBadItem
    <2>1. /\ net # <<>> /\ Head(net).kind = "item" /\ ~Call!Acceptable(Head(net))
      BY <1>3 DEF Call!DeliverBadItem, Call!Arrived
    <2>2. OnTheWay
      BY <1>h, <2>1
    <2>3. Head(net).seq = expectedSeq /\ expectedSeq < peer.sent
      BY <2>1, <2>2, FirstItem DEF OnTheWay
    <2>4. outputAllowance > 0
      <3>1. outputAllowance = peer.credit + (peer.sent - expectedSeq) + Granting
        BY <2>2 DEF OnTheWay
      <3> QED BY <1>n, <2>3, <3>1
    <2>5. ~outputEnded
      <3>1. 1 \in DOMAIN net /\ ItemAt(net, 1)
        BY <2>1, TailByIndex, LenProperties DEF DuplexTypes, ItemAt
      <3> QED BY <2>2, <3>1 DEF OnTheWay, EndOnTheWay
    <2> QED BY <2>1, <2>3, <2>4, <2>5 DEF Call!Acceptable
  <1>4. CASE Call!ArmIdle \/ Call!AnswerDone \/ Call!Queue
    <2>1. UNCHANGED <<net, connected, expectedSeq, outputEnded, outputAllowance, peer, consumer, failure>>
      BY <1>4 DEF Call!ArmIdle, Call!AnswerDone, Call!Queue
    <2>2. Granting' = Granting
      BY <2>1 DEF Granting
    <2> QED BY <2>1, <2>2, HonestKept
  <1>5. CASE Call!ReaderStops
    <2>1. UNCHANGED <<net, connected, expectedSeq, outputEnded, outputAllowance, peer, consumer>>
          /\ Call!Fail("lost") /\ "lost" \in Failures
      BY <1>5 DEF Call!ReaderStops, Failures
    <2>2. failure' \in {failure, "lost"}
      BY <2>1, FailSays
    <2>3. Granting' = Granting
      BY <2>1 DEF Granting
    <2> QED BY <2>1, <2>2, <2>3, HonestKept
  <1>6. CASE Call!Break
    BY <1>h, <1>6 DEF Call!Break, HonestInv
  <1> QED BY <1>1, <1>2, <1>3, <1>4, <1>5, <1>6 DEF Call!ReaderStep

LEMMA HonestOfReceiver ==
  ASSUME Call!CallAssumption, DuplexTypes, HonestInv, Call!Receiving \/ Call!StreamAbort
  PROVE  HonestInv'
  <1> USE DEF Call!out, Call!inp, Call!app, Call!wires
  <1>n. /\ outputAllowance \in Nat /\ expectedSeq \in Nat /\ peer.credit \in Nat /\ peer.sent \in Nat
    BY OutputNumbers
  <1>1. UNCHANGED <<net, connected, expectedSeq, outputEnded, failure>>
    BY DEF Call!Receiving, Call!RecvItem, Call!RecvAnswer, Call!RecvFailure, Call!RecvBlocks,
       Call!RecvWakes, Call!Consumed, Call!SendWindow,
       Call!ConsumedLate, Call!StreamAborted, Call!StreamAbort
  <1>2. CASE Call!Consumed
    <2>1. /\ outputAllowance' = outputAllowance + 1 /\ consumer = "got" /\ consumer' = "granting"
      BY <1>2 DEF Call!Consumed, Call!CreditStep
    <2>2. peer'.credit = peer.credit
      BY <1>2 DEF Call!Consumed, Call!CreditStep, DuplexTypes
    <2>3. peer'.honest = peer.honest /\ peer'.ended = peer.ended /\ peer'.sent = peer.sent
      BY <1>2 DEF Call!Consumed, Call!CreditStep, DuplexTypes
    <2>4. Granting = 0 /\ Granting' = 1
      BY <2>1 DEF Granting
    <2>5. ItemsOnTheWay => ItemsOnTheWay'
      BY <1>1, <2>3 DEF ItemsOnTheWay
    <2>6. EndOnTheWay => EndOnTheWay'
      BY <1>1, <2>3 DEF EndOnTheWay
    <2>7. outputAllowance = peer.credit + (peer.sent - expectedSeq) + Granting =>
          outputAllowance' = peer'.credit + (peer'.sent - expectedSeq') + Granting'
      BY <1>n, <1>1, <2>1, <2>2, <2>3, <2>4
    <2> QED BY <1>1, <2>3, <2>5, <2>6, <2>7 DEF HonestInv, OnTheWay
  <1>3. CASE Call!SendWindow
    <2>1. consumer = "granting" /\ consumer' = "recv" /\ outputAllowance' = outputAllowance
      BY <1>n, <1>3 DEF Call!SendWindow, Call!CreditStep
    <2>2. connected => peer'.credit = peer.credit + 1
      BY <1>3 DEF Call!SendWindow, Call!CreditStep, DuplexTypes
    <2>3. peer'.honest = peer.honest /\ peer'.ended = peer.ended /\ peer'.sent = peer.sent
      BY <1>3 DEF Call!SendWindow, Call!CreditStep, DuplexTypes
    <2>4. Granting = 1 /\ Granting' = 0
      BY <2>1 DEF Granting
    <2>5. ItemsOnTheWay => ItemsOnTheWay'
      BY <1>1, <2>3 DEF ItemsOnTheWay
    <2>6. EndOnTheWay => EndOnTheWay'
      BY <1>1, <2>3 DEF EndOnTheWay
    <2>7. connected /\ outputAllowance = peer.credit + (peer.sent - expectedSeq) + Granting =>
          outputAllowance' = peer'.credit + (peer'.sent - expectedSeq') + Granting'
      BY <1>n, <1>1, <2>1, <2>2, <2>3, <2>4
    <2> QED BY <1>1, <2>3, <2>5, <2>6, <2>7 DEF HonestInv, OnTheWay
  <1>4. CASE Call!RecvItem \/ Call!RecvAnswer \/ Call!RecvFailure \/ Call!RecvBlocks \/ Call!RecvWakes \/ Call!ConsumedLate \/ Call!StreamAborted
             \/ Call!StreamAbort
    <2>1. UNCHANGED <<outputAllowance, peer>> /\ consumer # "granting" /\ consumer' # "granting"
      BY <1>4 DEF Call!RecvItem, Call!RecvAnswer, Call!RecvFailure, Call!RecvBlocks,
         Call!RecvWakes, Call!ConsumedLate, Call!StreamAborted,
         Call!StreamAbort
    <2>2. Granting' = Granting
      BY <2>1 DEF Granting
    <2> QED BY <1>1, <2>1, <2>2, HonestKept
  <1> QED BY <1>2, <1>3, <1>4 DEF Call!Receiving

LEMMA HonestOfPeer ==
  ASSUME Call!CallAssumption, DuplexTypes, HonestInv, Call!PeerItem \/ Call!PeerEnd \/ Call!PeerAnswer \/ Call!PeerGrants
  PROVE  HonestInv'
  <1> USE DEF Call!out, Call!inp, Call!app, Call!wires
  <1>n. /\ outputAllowance \in Nat /\ expectedSeq \in Nat /\ peer.credit \in Nat /\ peer.sent \in Nat
        /\ Granting \in 0..1
    BY OutputNumbers
  <1>1. UNCHANGED <<connected, expectedSeq, outputEnded, outputAllowance, failure, consumer>> /\ connected
    BY DEF Call!PeerItem, Call!PeerEnd, Call!PeerAnswer, Call!PeerGrants, Call!PeerSends
  <1>g. Granting' = Granting
    BY <1>1 DEF Granting
  <1>k. peer'.honest = peer.honest
    BY DEF Call!PeerItem, Call!PeerEnd, Call!PeerAnswer, Call!PeerGrants, Call!PeerSends,
       DuplexTypes
  <1> SUFFICES ASSUME peer.honest PROVE failure # "protocol" /\ OnTheWay'
    BY <1>1, <1>k DEF HonestInv
  <1>h. failure # "protocol" /\ OnTheWay
    BY <1>1 DEF HonestInv
  <1>s. outputAllowance = peer.credit + (peer.sent - expectedSeq) + Granting /\ expectedSeq <= peer.sent
    BY <1>h DEF OnTheWay
  <1>2. CASE Call!PeerItem
    <2>1. /\ net' = Append(net, Call!Item(peer.sent)) /\ Call!Item(peer.sent) \in DuplexFrames
          /\ Call!Item(peer.sent).kind = "item" /\ Call!Item(peer.sent).seq = peer.sent /\ ~peer.ended /\ peer.credit > 0
      BY <1>2 DEF Call!PeerItem, Call!PeerSends, Call!Item, DuplexFrames, Kinds, DuplexTypes
    <2>2. peer'.sent = peer.sent + 1 /\ peer'.credit = peer.credit - 1 /\ peer'.ended = peer.ended
      BY <1>2, <2>1 DEF Call!PeerItem, Call!PeerSends, DuplexTypes
    <2>3. ItemsOnTheWay'
      BY <1>1, <1>h, <1>s, <2>1, <2>2, ItemsSent DEF OnTheWay
    <2>4. EndOnTheWay'
      BY <1>1, <1>h, <2>1, <2>2, EndSent DEF OnTheWay
    <2>5. /\ outputAllowance' = peer'.credit + (peer'.sent - expectedSeq') + Granting'
          /\ expectedSeq' <= peer'.sent
      BY <1>n, <1>1, <1>g, <1>s, <2>2
    <2> QED BY <1>h, <2>3, <2>4, <2>5 DEF OnTheWay
  <1>3. CASE Call!PeerEnd \/ Call!PeerAnswer \/ Call!PeerGrants
    <2>1. PICK k \in {"end", "answer", "window"} :
            net' = Append(net, Call!Other(k)) /\ (k = "end" => peer'.ended)
      BY <1>3 DEF Call!PeerEnd, Call!PeerAnswer, Call!PeerGrants, Call!PeerSends, DuplexTypes
    <2>2. Call!Other(k) \in DuplexFrames /\ Call!Other(k).kind = k
      BY DEF Call!Other, DuplexFrames, Kinds
    <2>3. peer'.sent = peer.sent /\ peer'.credit = peer.credit /\ (peer.ended => peer'.ended)
      BY <1>3 DEF Call!PeerEnd, Call!PeerAnswer, Call!PeerGrants, Call!PeerSends, DuplexTypes
    <2>4. ItemsOnTheWay'
      BY <1>1, <1>h, <1>s, <2>1, <2>2, <2>3, ItemsSent DEF OnTheWay
    <2>5. EndOnTheWay'
      BY <1>1, <1>h, <2>1, <2>2, <2>3, EndSent DEF OnTheWay
    <2> QED BY <1>1, <1>g, <1>h, <1>s, <2>3, <2>4, <2>5 DEF OnTheWay
  <1> QED BY <1>2, <1>3

LEMMA HonestOfRest ==
  ASSUME Call!CallAssumption, DuplexTypes, HonestInv,
         \/ Call!Sending \/ Call!AcquireGivesUp \/ Call!InputTooLarge \/ UNCHANGED Call!vars
         \/ \E a \in Call!Aborters : Call!Aborting(a)
  PROVE  HonestInv'
  <1> USE DEF Call!out, Call!inp, Call!app, Call!wires
  <1>1. UNCHANGED <<net, connected, expectedSeq, outputEnded, outputAllowance, consumer>>
    BY DEF Call!vars, Call!Sending, Call!SendBegins, Call!AcquireFails, Call!Acquire,
       Call!AcquireBlocks, Call!AcquireWakes, Call!AcquireGivesUp,
       Call!NumberInput, Call!SendInput, Call!InputTooLarge, Call!InputAborted,
       Call!CloseInput, Call!Aborting, Call!AbortChecks, Call!AbortFails,
       Call!AbortTells
  <1>2. Granting' = Granting
    BY <1>1 DEF Granting
  <1>3. /\ peer'.honest = peer.honest /\ peer'.ended = peer.ended /\ peer'.sent = peer.sent
        /\ peer'.credit = peer.credit
    BY DEF Call!vars, Call!Sending, Call!SendBegins, Call!AcquireFails, Call!Acquire,
       Call!AcquireBlocks, Call!AcquireWakes, Call!AcquireGivesUp,
       Call!NumberInput, Call!SendInput, Call!InputTooLarge, Call!InputAborted,
       Call!CloseInput, Call!Aborting, Call!AbortChecks, Call!AbortFails,
       Call!AbortTells, DuplexTypes
  <1>4. failure' \in {failure, "aborted"}
    BY FailSays DEF Call!vars, Call!Sending, Call!SendBegins, Call!AcquireFails, Call!Acquire,
       Call!AcquireBlocks, Call!AcquireWakes,
       Call!AcquireGivesUp, Call!NumberInput, Call!SendInput, Call!InputTooLarge,
       Call!InputAborted, Call!CloseInput, Call!Aborting,
       Call!AbortChecks, Call!AbortFails, Call!AbortTells, Failures
  <1> QED BY <1>1, <1>2, <1>3, <1>4, HonestKept

LEMMA HonestStep ==
  ASSUME Call!CallAssumption, DuplexTypes, HonestInv, [Call!Next]_Call!vars
  PROVE  HonestInv'
  BY HonestOfReader, HonestOfReceiver, HonestOfPeer, HonestOfRest DEF Call!Next

-------------------------------------------------------------------------------
\* The invariant holds at the beginning.
LEMMA DuplexInitially == ASSUME Call!CallAssumption, Call!Init PROVE DuplexInv
  <1>0. InitialCredit \in Nat /\ MaxOutput \in Nat /\ MaxInput \in Nat
        /\ 0 \in 0..MaxOutput /\ 0 \in 0..MaxInput
    BY DEF Call!CallAssumption
  <1>1. PICK honest \in BOOLEAN :
          peer = [credit |-> InitialCredit, sent |-> 0, granted |-> 0, over |-> FALSE,
                  ended |-> FALSE, honest |-> honest]
    BY DEF Call!Init
  <1>2. Call!Other("end") \in NumberedFrames /\ NumberedFrames \subseteq DuplexFrames /\ Call!Other("end").kind = "end"
    BY DEF Call!Other, NumberedFrames, Numbered, DuplexFrames, Kinds
  <1>3. <<>> \in Seq(DuplexFrames) /\ <<>> \in Seq(NumberedFrames) /\ <<>> \in Seq(QueueFrames)
    OBVIOUS
  <1>4. DuplexTypes
    <2>1. peer \in [credit : Nat, sent : 0..MaxOutput, granted : 0..MaxInput,
                    over : BOOLEAN, ended : BOOLEAN, honest : BOOLEAN]
      BY <1>0, <1>1
    <2>2. credit \in [n : Nat, closed : BOOLEAN]
      BY DEF Call!Init
    <2>3. /\ terminal \in BOOLEAN /\ outputEnded \in BOOLEAN /\ idleTimer \in BOOLEAN /\ inputClosed \in BOOLEAN
          /\ woken \in BOOLEAN /\ creditWoken \in BOOLEAN /\ connected \in BOOLEAN
      BY DEF Call!Init
    <2>4. queue \in Seq(DuplexFrames) /\ net \in Seq(DuplexFrames) /\ held \in DuplexFrames
      BY <1>2, <1>3 DEF Call!Init
    <2> QED BY <1>0, <2>1, <2>2, <2>3, <2>4 DEF Call!Init, DuplexTypes, Failures
  <1>5. FramesNumbered
    BY <1>0, <1>2, <1>3 DEF Call!Init, FramesNumbered
  <1>6. ReaderHolds /\ Call!NoLostWakeup /\ Call!IdleTimerStops
    BY <1>2 DEF Call!Init, ReaderHolds, Call!NoLostWakeup, Call!IdleTimerStops
  <1>7. InputInv
    <2>1. Count(net, Call!Other("window")) = 0
      BY CountEmpty DEF Call!Init
    <2> QED BY <1>1, <2>1 DEF Call!Init, InputInv
  <1>8. OutputInv
    <2>1. ItemCount(queue) = 0
      BY ItemCountEmpty DEF Call!Init
    <2>2. Call!Buffered = 0 /\ Got = 0 /\ Granting = 0
      BY <2>1, CallCardinality DEF Call!Init, Call!Buffered, ItemCount, Got, Granting
    <2>3. outputAllowance = InitialCredit /\ peer.credit = InitialCredit /\ expectedSeq = 0
      BY <1>1 DEF Call!Init
    <2> QED BY <1>0, <2>2, <2>3 DEF OutputInv
  <1>9. HonestInv
    <2>1. net = <<>> /\ DOMAIN net = {} /\ failure = "none" /\ ~outputEnded
      BY DEF Call!Init
    <2>2. /\ Granting = 0 /\ outputAllowance = InitialCredit /\ peer.credit = InitialCredit /\ expectedSeq = 0
          /\ peer.sent = 0
      BY <1>1 DEF Call!Init, Granting
    <2>3. ItemsOnTheWay /\ EndOnTheWay
      BY <2>1, <2>2 DEF ItemsOnTheWay, EndOnTheWay
    <2>4. OnTheWay
      BY <1>0, <2>2, <2>3 DEF OnTheWay
    <2> QED BY <2>1, <2>4 DEF HonestInv
  <1> QED BY <1>4, <1>5, <1>6, <1>7, <1>8, <1>9 DEF DuplexInv

\* Every step keeps it.
LEMMA DuplexStep == ASSUME Call!CallAssumption, DuplexInv, [Call!Next]_Call!vars PROVE DuplexInv'
  <1>1. DuplexTypes'
    BY DuplexTypesStep DEF DuplexInv
  <1>2. FramesNumbered'
    BY FramesStep DEF DuplexInv
  <1>3. ReaderHolds' /\ Call!NoLostWakeup' /\ Call!IdleTimerStops'
    BY FlagsStep DEF DuplexInv, Flags
  <1>4. InputInv'
    BY InputStep DEF DuplexInv
  <1>5. OutputInv'
    BY <1>1, OutputStep DEF DuplexInv
  <1>6. HonestInv'
    BY HonestStep DEF DuplexInv
  <1> QED BY <1>1, <1>2, <1>3, <1>4, <1>5, <1>6 DEF DuplexInv

\* It implies the properties of the component.
LEMMA DuplexInvMeans ==
  ASSUME Call!CallAssumption, DuplexInv
  PROVE  /\ Call!TypeOK /\ Call!HonestPeerNeverRefused /\ Call!BufferBounded /\ Call!NoLostWakeup
         /\ Call!LostMeansUnanswered /\ Call!IdleTimerStops
  <1>n. /\ outputAllowance \in Nat /\ expectedSeq \in Nat /\ peer.credit \in Nat /\ peer.sent \in Nat
        /\ ItemCount(queue) \in Nat /\ Hand \in 0..1 /\ Got \in 0..1 /\ Granting \in 0..1
        /\ InitialCredit \in Nat /\ Call!Buffered = ItemCount(queue) + Hand /\ MaxOutput \in Nat /\ MaxInput \in Nat
    BY OutputNumbers DEF DuplexInv, Call!CallAssumption
  <1>i. /\ outputAllowance + Call!Buffered + Got <= InitialCredit
        /\ peer.credit + Granting <= outputAllowance + expectedSeq /\ expectedSeq <= MaxOutput
    BY DEF DuplexInv, OutputInv, FramesNumbered
  <1>1. Call!BufferBounded
    <2>1. Call!Buffered <= InitialCredit /\ outputAllowance + Call!Buffered <= InitialCredit
      BY <1>n, <1>i
    <2> QED BY <2>1 DEF Call!BufferBounded
  <1>2. Call!HonestPeerNeverRefused
    BY DEF DuplexInv, HonestInv, Call!HonestPeerNeverRefused
  <1>3. Call!LostMeansUnanswered
    <2> SUFFICES ASSUME outcome = "lost" PROVE held.kind # "answer" /\ \A i \in DOMAIN queue : queue[i].kind # "answer"
      BY DEF Call!LostMeansUnanswered
    <2>1. failure = "lost" /\ queue = <<>> /\ reader = "over" /\ held.kind = "end"
      BY DEF DuplexInv, ReaderHolds
    <2>2. DOMAIN queue = {}
      BY <2>1
    <2> QED BY <2>1, <2>2
  <1>4. Call!TypeOK
    <2>1. NumberedFrames \subseteq Call!Frames
      <3> SUFFICES ASSUME NEW f \in NumberedFrames PROVE f \in Call!Frames
        OBVIOUS
      <3>1. /\ f = [kind |-> f.kind, seq |-> f.seq] /\ f.kind \in Kinds /\ f.seq \in Nat
            /\ (IF f.kind = "item" THEN f.seq < MaxOutput ELSE f.seq = 0)
        BY DEF NumberedFrames, DuplexFrames, Numbered
      <3>2. CASE f.kind = "item"
        <4>1. f.seq \in 0..MaxOutput
          BY <1>n, <3>1, <3>2
        <4>2. f = Call!Item(f.seq)
          BY <3>1, <3>2 DEF Call!Item
        <4> QED BY <4>1, <4>2 DEF Call!Frames
      <3>3. CASE f.kind # "item"
        <4>1. f = Call!Other(f.kind) /\ f.kind \in {"end", "answer", "window"}
          BY <3>1, <3>3 DEF Call!Other, Kinds
        <4> QED BY <4>1 DEF Call!Frames
      <3> QED BY <3>2, <3>3
    <2>2. queue \in Seq(Call!Frames) /\ net \in Seq(Call!Frames) /\ held \in Call!Frames
      <3>1. QueueFrames \subseteq Call!Frames
        BY <2>1 DEF QueueFrames
      <3>2. Seq(NumberedFrames) \subseteq Seq(Call!Frames) /\ Seq(QueueFrames) \subseteq Seq(Call!Frames)
        BY <2>1, <3>1, SeqDef
      <3> QED BY <2>1, <3>2 DEF DuplexInv, FramesNumbered
    <2>3. outputAllowance \in 0..InitialCredit /\ expectedSeq \in 0..MaxOutput
          /\ peer.credit \in 0..(InitialCredit + MaxOutput)
      BY <1>n, <1>i
    <2>4. credit.n \in 0..MaxInput
      <3>1. /\ Count(net, Call!Other("window")) \in Nat /\ credit.n \in Nat /\ peer.granted \in 0..MaxInput
            /\ credit.n + Count(net, Call!Other("window")) <= peer.granted
        BY WindowNumbers DEF DuplexInv, DuplexTypes, InputInv
      <3> QED BY <1>n, <3>1
    <2>5. credit \in [n : 0..MaxInput, closed : BOOLEAN]
      BY <2>4 DEF DuplexInv, DuplexTypes
    <2>6. peer \in [credit : 0..(InitialCredit + MaxOutput), sent : 0..MaxOutput,
                    granted : 0..MaxInput, over : BOOLEAN, ended : BOOLEAN, honest : BOOLEAN]
      BY <2>3 DEF DuplexInv, DuplexTypes
    <2> QED BY <2>2, <2>3, <2>5, <2>6 DEF DuplexInv, DuplexTypes, Call!TypeOK, Failures
  <1> QED BY <1>1, <1>2, <1>3, <1>4 DEF DuplexInv

-------------------------------------------------------------------------------
(* client.go: retries.                                                     *)

\* What is left of the deadline goes from attempt to attempt.
AttemptsInv ==
    /\ transport \in Transports /\ mayRetry \in BOOLEAN
    /\ now \in Nat /\ until \in Nat /\ attempt \in 1..MaxAttempts /\ timeout \in 1..Timeout
    /\ retryPc \in {"calling", "deciding", "sleeping", "returned"}
    /\ answer \in Attempts!Answers
    /\ answer = "unreachable" => transport = "http"
    /\ ~mayRetry => attempt = 1
    /\ retryPc = "sleeping" => mayRetry /\ attempt < MaxAttempts
    /\ transport = "ws" =>
         /\ now <= Timeout + Grace
         /\ retryPc = "calling" => now <= until /\ until <= Timeout + Grace
         /\ retryPc = "sleeping" => now <= until /\ until + timeout <= Timeout

LEMMA DelaysNatural ==
  ASSUME Attempts!RetryAssumption, NEW d \in Attempts!Delays(attempt), attempt \in Nat \ {0}
  PROVE  d \in Nat
  <1> DEFINE power == Multiplier^(attempt - 1)
             base == Attempts!Least(MaxDelay, InitialDelay * power)
             spread == (base * Jitter) \div 100
  <1>1. Multiplier \in Nat \ {0} /\ attempt - 1 \in Nat
    BY DEF Attempts!RetryAssumption
  <1>2. power \in Int
    BY <1>1
  <1> HIDE DEF power
  <1>3. base \in Int
    BY <1>2 DEF Attempts!RetryAssumption, Attempts!Least
  <1> HIDE DEF base
  <1>4. PICK e \in (base - spread)..(base + spread) : d = Attempts!Most(0, e)
    BY DEF Attempts!Delays, base, spread, power
  <1>5. spread \in Int
    BY <1>3 DEF Attempts!RetryAssumption
  <1> QED BY <1>3, <1>4, <1>5 DEF Attempts!Most

\* The invariant holds at the beginning.
LEMMA AttemptsInitially == ASSUME Attempts!RetryAssumption, Attempts!Init PROVE AttemptsInv
  BY DEF Attempts!RetryAssumption, Attempts!Init, AttemptsInv, Attempts!Answers, Attempts!Limit

\* Every step keeps it.
LEMMA AttemptsInvStep == ASSUME Attempts!RetryAssumption, AttemptsInv, [Attempts!Next]_Attempts!vars PROVE AttemptsInv'
  <1> USE DEF Attempts!RetryAssumption, AttemptsInv, Attempts!Answers
  <1>1. CASE Attempts!Tick
    BY <1>1 DEF Attempts!Tick
  <1>2. CASE Attempts!AttemptEnds
    BY <1>2 DEF Attempts!AttemptEnds
  <1>3. CASE Attempts!Return
    BY <1>3 DEF Attempts!Return
  <1>4. CASE Attempts!Cancelled
    BY <1>4 DEF Attempts!Cancelled
  <1>5. CASE Attempts!NextAttempt
    BY <1>5 DEF Attempts!NextAttempt, Attempts!Limit
  <1>6. ASSUME NEW d \in Attempts!Delays(attempt), Attempts!Sleep(d) PROVE AttemptsInv'
    <2>1. d \in Nat
      BY DelaysNatural
    <2> QED BY <1>6, <2>1 DEF Attempts!Sleep, Attempts!Retries, Attempts!AttemptsLeft,
               Attempts!Remains
  <1>7. ASSUME NEW d \in Attempts!Delays(attempt), Attempts!SleepUnreachable(d) PROVE AttemptsInv'
    <2>1. d \in Nat
      BY DelaysNatural
    <2> QED BY <1>7, <2>1 DEF Attempts!SleepUnreachable, Attempts!Retries, Attempts!AttemptsLeft
  <1>8. CASE UNCHANGED Attempts!vars
    BY <1>8 DEF Attempts!vars
  <1> QED BY <1>1, <1>2, <1>3, <1>4, <1>5, <1>6, <1>7, <1>8 DEF Attempts!Next

\* It implies the properties of the component.
LEMMA AttemptsInvMeans ==
  AttemptsInv => Attempts!TypeOK /\ Attempts!SocketCallWithinTimeout /\ Attempts!SentOnceUnlessSafe
  BY DEF AttemptsInv, Attempts!TypeOK, Attempts!SocketCallWithinTimeout,
     Attempts!SentOnceUnlessSafe

-------------------------------------------------------------------------------
(* http_stream.go, serverStream and httpStream.Recv.                       *)

\* The instance of HTTPServerStream counts with the Cardinality of FiniteSets.
LEMMA StreamedCardinality == \A S : Streamed!Cardinality(S) = Cardinality(S)
  BY DEF Streamed!Cardinality, Cardinality

OutFrames == {"item", "end", "result", "error"}
BodyLines == {"item", "end", "error"}

\* TypeOK but for the bound of got, which follows from what is counted.
ItemsTypes ==
    /\ itemsCredit \in Nat /\ sent \in 0..OutputItems /\ finished \in {"no", "result", "error"}
    /\ itemsOutbox \in Seq(OutFrames)
    /\ begun \in BOOLEAN /\ started \in BOOLEAN /\ written \in 0..(Streamed!half - 1)
    /\ blocked \in BOOLEAN /\ returned \in BOOLEAN /\ itemsEnded \in BOOLEAN
    /\ itemsBody \in Seq(BodyLines) /\ itemsStatus \in {"none", "ok", "failed"}
    /\ got \in Nat /\ itemsOutcome \in {"none", "result", "error", "eof", "aborted"}

\* An item is in the outbox, on the connection, or delivered, unless it was dropped
\* for a caller that went away.
ItemsCounted ==
    /\ got + Count(itemsBody, "item") + Count(itemsOutbox, "item") <= sent
    /\ itemsOutcome # "aborted" => sent = got + Count(itemsBody, "item") + Count(itemsOutbox, "item")

CreditCounted ==
    /\ ~begun => itemsCredit = 0 /\ itemsOutbox = <<>> /\ written = 0 /\ finished = "no"
    /\ itemsCredit + Count(itemsOutbox, "item") + written <= streamCredit

\* What ends the call comes after the items, in the outbox ...
OutboxOrdered ==
    /\ finished = "no" => \A i \in DOMAIN itemsOutbox : itemsOutbox[i] = "item"
    /\ \A i \in DOMAIN itemsOutbox : itemsOutbox[i] \in {"end", "result"} => finished = "result"
    /\ \A i, j \in DOMAIN itemsOutbox : i < j /\ itemsOutbox[i] # "item" => itemsOutbox[j] # "item"

\* ... and in the body.
BodyOrdered ==
    /\ \A i \in DOMAIN itemsBody : itemsBody[i] # "item" => i = Len(itemsBody) /\ returned
    /\ \A i \in DOMAIN itemsBody : itemsBody[i] = "end" => Count(itemsOutbox, "item") = 0 /\ finished = "result"
    /\ itemsOutcome = "result" =>
         Count(itemsOutbox, "item") = 0 /\ Count(itemsBody, "item") = 0 /\ finished = "result"

\* A handler that returned of itself left a last line, or refused the request.
EndTold ==
    /\ returned /\ ~itemsEnded /\ itemsOutcome = "none" /\ itemsStatus # "failed" =>
         itemsBody # <<>> /\ itemsBody[Len(itemsBody)] # "item"
    /\ itemsOutcome = "eof" => itemsEnded
    /\ itemsStatus = "failed" => returned

ItemsInv ==
    ItemsTypes /\ ItemsCounted /\ CreditCounted /\ OutboxOrdered /\ BodyOrdered /\ EndTold

-------------------------------------------------------------------------------
\* The invariant holds at the beginning.
LEMMA ItemsInitially == ASSUME Streamed!CreditAssumption, Streamed!Init PROVE ItemsInv
  <1>1. itemsOutbox = <<>> /\ itemsBody = <<>> /\ sent = 0 /\ itemsCredit = 0 /\ written = 0 /\ got = 0
    BY DEF Streamed!Init
  <1>2. Count(itemsOutbox, "item") = 0 /\ Count(itemsBody, "item") = 0
    BY <1>1, CountEmpty
  <1>3. Streamed!half \in Nat \ {0} /\ 0 \in 0..OutputItems /\ streamCredit \in Nat
    BY DEF Streamed!half, Streamed!CreditAssumption
  <1>4. <<>> \in Seq(OutFrames) /\ <<>> \in Seq(BodyLines)
    OBVIOUS
  <1>5. ItemsTypes
    <2>1. /\ begun \in BOOLEAN /\ started \in BOOLEAN /\ blocked \in BOOLEAN
          /\ returned \in BOOLEAN /\ itemsEnded \in BOOLEAN
      BY DEF Streamed!Init
    <2>2. finished = "no" /\ itemsStatus = "none" /\ itemsOutcome = "none"
      BY DEF Streamed!Init
    <2>3. 0 \in 0..(Streamed!half - 1)
      BY <1>3
    <2> QED BY <1>1, <1>3, <1>4, <2>1, <2>2, <2>3 DEF ItemsTypes
  <1>6. ItemsCounted /\ CreditCounted
    BY <1>1, <1>2, <1>3 DEF Streamed!Init, ItemsCounted, CreditCounted
  <1>7. OutboxOrdered /\ BodyOrdered /\ EndTold
    <2>1. DOMAIN itemsOutbox = {} /\ DOMAIN itemsBody = {}
      BY <1>1
    <2> QED BY <2>1 DEF Streamed!Init, OutboxOrdered, BodyOrdered, EndTold
  <1> QED BY <1>5, <1>6, <1>7 DEF ItemsInv

LEMMA ItemsNumbers ==
  ASSUME Streamed!CreditAssumption, ItemsTypes
  PROVE  /\ Count(itemsOutbox, "item") \in Nat /\ Count(itemsBody, "item") \in Nat
         /\ Streamed!half \in Nat \ {0} /\ streamCredit \in Nat /\ OutputItems \in Nat
         /\ sent \in Nat /\ written \in Nat /\ got \in Nat /\ itemsCredit \in Nat
  <1>1. Count(itemsOutbox, "item") \in Nat /\ Count(itemsBody, "item") \in Nat
    BY CountType DEF ItemsTypes
  <1> QED BY <1>1 DEF Streamed!CreditAssumption, Streamed!half, ItemsTypes

LEMMA OutboxAppend ==
  ASSUME itemsOutbox \in Seq(OutFrames), NEW f \in OutFrames, itemsOutbox' = Append(itemsOutbox, f)
  PROVE  /\ itemsOutbox' \in Seq(OutFrames)
         /\ Count(itemsOutbox', "item") = IF f = "item" THEN Count(itemsOutbox, "item") + 1 ELSE Count(itemsOutbox, "item")
         /\ DOMAIN itemsOutbox = 1..Len(itemsOutbox) /\ DOMAIN itemsOutbox' = 1..Len(itemsOutbox) + 1 /\ Len(itemsOutbox) \in Nat
         /\ itemsOutbox'[Len(itemsOutbox) + 1] = f
         /\ \A i \in 1..Len(itemsOutbox) : itemsOutbox'[i] = itemsOutbox[i]
  <1>1. /\ itemsOutbox' \in Seq(OutFrames) /\ Len(itemsOutbox') = Len(itemsOutbox) + 1 /\ Len(itemsOutbox) \in Nat
        /\ itemsOutbox'[Len(itemsOutbox) + 1] = f
        /\ \A i \in 1..Len(itemsOutbox) : itemsOutbox'[i] = itemsOutbox[i]
    BY AppendProperties, LenProperties
  <1> QED BY <1>1, CountAppend, LenProperties

LEMMA OutboxTail ==
  ASSUME itemsOutbox \in Seq(OutFrames), itemsOutbox # <<>>, itemsOutbox' = Tail(itemsOutbox)
  PROVE  /\ itemsOutbox' \in Seq(OutFrames) /\ Head(itemsOutbox) = itemsOutbox[1]
         /\ Count(itemsOutbox, "item") =
              IF Head(itemsOutbox) = "item" THEN Count(itemsOutbox', "item") + 1 ELSE Count(itemsOutbox', "item")
         /\ DOMAIN itemsOutbox = 1..Len(itemsOutbox) /\ DOMAIN itemsOutbox' = 1..Len(itemsOutbox) - 1
         /\ Len(itemsOutbox) \in Nat \ {0}
         /\ \A i \in 1..Len(itemsOutbox) - 1 : itemsOutbox'[i] = itemsOutbox[i + 1]
         /\ Count(itemsOutbox', "item") \in Nat
  <1>1. /\ itemsOutbox' \in Seq(OutFrames) /\ Head(itemsOutbox) = itemsOutbox[1]
        /\ Len(itemsOutbox) \in Nat \ {0} /\ Len(itemsOutbox') = Len(itemsOutbox) - 1
        /\ \A i \in 1..Len(itemsOutbox) - 1 : itemsOutbox'[i] = itemsOutbox[i + 1]
    BY TailByIndex
  <1> QED BY <1>1, CountTail, CountType, LenProperties

LEMMA BodyAppend ==
  ASSUME itemsBody \in Seq(BodyLines), NEW l \in BodyLines, itemsBody' = Append(itemsBody, l)
  PROVE  /\ itemsBody' \in Seq(BodyLines)
         /\ Count(itemsBody', "item") = IF l = "item" THEN Count(itemsBody, "item") + 1 ELSE Count(itemsBody, "item")
         /\ DOMAIN itemsBody = 1..Len(itemsBody) /\ DOMAIN itemsBody' = 1..Len(itemsBody) + 1
         /\ Len(itemsBody) \in Nat /\ Len(itemsBody') = Len(itemsBody) + 1
         /\ itemsBody'[Len(itemsBody) + 1] = l /\ itemsBody' # <<>>
         /\ \A i \in 1..Len(itemsBody) : itemsBody'[i] = itemsBody[i]
  <1>1. /\ itemsBody' \in Seq(BodyLines) /\ Len(itemsBody') = Len(itemsBody) + 1 /\ Len(itemsBody) \in Nat
        /\ itemsBody'[Len(itemsBody) + 1] = l
        /\ \A i \in 1..Len(itemsBody) : itemsBody'[i] = itemsBody[i]
    BY AppendProperties, LenProperties
  <1>2. itemsBody' # <<>>
    BY <1>1, EmptySeq
  <1> QED BY <1>1, <1>2, CountAppend, LenProperties

LEMMA BodyTail ==
  ASSUME itemsBody \in Seq(BodyLines), itemsBody # <<>>, itemsBody' = Tail(itemsBody)
  PROVE  /\ itemsBody' \in Seq(BodyLines) /\ Head(itemsBody) = itemsBody[1] /\ Head(itemsBody) \in BodyLines
         /\ Count(itemsBody, "item") =
              IF Head(itemsBody) = "item" THEN Count(itemsBody', "item") + 1 ELSE Count(itemsBody', "item")
         /\ DOMAIN itemsBody = 1..Len(itemsBody) /\ DOMAIN itemsBody' = 1..Len(itemsBody) - 1
         /\ Len(itemsBody) \in Nat \ {0} /\ Len(itemsBody') = Len(itemsBody) - 1
         /\ \A i \in 1..Len(itemsBody) - 1 : itemsBody'[i] = itemsBody[i + 1]
         /\ Count(itemsBody', "item") \in Nat /\ (Len(itemsBody) > 1 => itemsBody' # <<>>)
  <1>1. /\ itemsBody' \in Seq(BodyLines) /\ Head(itemsBody) = itemsBody[1] /\ Head(itemsBody) \in BodyLines
        /\ Len(itemsBody) \in Nat \ {0} /\ Len(itemsBody') = Len(itemsBody) - 1
        /\ \A i \in 1..Len(itemsBody) - 1 : itemsBody'[i] = itemsBody[i + 1]
    BY TailByIndex
  <1>2. Len(itemsBody) > 1 => itemsBody' # <<>>
    BY <1>1, EmptySeq
  <1> QED BY <1>1, <1>2, CountTail, CountType, LenProperties

-------------------------------------------------------------------------------
(* The steps of the instance. *)

LEMMA ItemsInstance ==
  ASSUME Streamed!CreditAssumption, ItemsInv, Streamed!InstanceItem \/ Streamed!InstanceEnds
  PROVE  ItemsInv'
  <1>t. ItemsTypes /\ itemsOutbox \in Seq(OutFrames)
    BY DEF ItemsInv, ItemsTypes
  <1>n. /\ Count(itemsOutbox, "item") \in Nat /\ Count(itemsBody, "item") \in Nat
        /\ Streamed!half \in Nat \ {0} /\ streamCredit \in Nat /\ OutputItems \in Nat
        /\ sent \in Nat /\ written \in Nat /\ got \in Nat /\ itemsCredit \in Nat
    BY <1>t, ItemsNumbers
  <1>1. ASSUME Streamed!InstanceItem PROVE ItemsInv'
    <2>1. itemsOutbox' = Append(itemsOutbox, "item") /\ "item" \in OutFrames
      BY <1>1 DEF Streamed!InstanceItem, OutFrames
    <2>2. /\ itemsOutbox' \in Seq(OutFrames) /\ Count(itemsOutbox', "item") = Count(itemsOutbox, "item") + 1
          /\ DOMAIN itemsOutbox = 1..Len(itemsOutbox) /\ DOMAIN itemsOutbox' = 1..Len(itemsOutbox) + 1 /\ Len(itemsOutbox) \in Nat
          /\ itemsOutbox'[Len(itemsOutbox) + 1] = "item"
          /\ \A i \in 1..Len(itemsOutbox) : itemsOutbox'[i] = itemsOutbox[i]
      BY <1>t, <2>1, OutboxAppend
    <2>3. /\ finished = "no" /\ itemsCredit > 0 /\ sent < OutputItems /\ itemsCredit' = itemsCredit - 1 /\ sent' = sent + 1
          /\ UNCHANGED <<finished, begun, started, written, blocked, returned, itemsEnded, itemsBody, itemsStatus, got, itemsOutcome>>
      BY <1>1 DEF Streamed!InstanceItem, Streamed!handler, Streamed!client
    <2>4. ItemsTypes'
      BY <1>t, <1>n, <2>2, <2>3 DEF ItemsTypes, Streamed!half
    <2>5. ItemsCounted'
      <3>1. Count(itemsOutbox', "item") = Count(itemsOutbox, "item") + 1
        BY <2>2
      <3>2. got + Count(itemsBody, "item") + Count(itemsOutbox', "item") <= sent'
        BY <1>n, <2>3, <3>1 DEF ItemsInv, ItemsCounted
      <3>3. itemsOutcome # "aborted" => sent' = got + Count(itemsBody, "item") + Count(itemsOutbox', "item")
        BY <1>n, <2>3, <3>1 DEF ItemsInv, ItemsCounted
      <3> QED BY <2>3, <3>2, <3>3 DEF ItemsCounted
    <2>6. CreditCounted'
      BY <1>n, <2>2, <2>3 DEF ItemsInv, CreditCounted
    <2>7. OutboxOrdered'
      <3>1. \A i \in DOMAIN itemsOutbox' : itemsOutbox'[i] = "item"
        BY <2>2, <2>3 DEF ItemsInv, OutboxOrdered
      <3> QED BY <2>3, <3>1 DEF OutboxOrdered
    <2>8. BodyOrdered'
      BY <2>3 DEF ItemsInv, BodyOrdered
    <2>9. EndTold'
      BY <2>3 DEF ItemsInv, EndTold
    <2> QED BY <2>4, <2>5, <2>6, <2>7, <2>8, <2>9 DEF ItemsInv
  <1>2. ASSUME Streamed!InstanceEnds PROVE ItemsInv'
    <2>1. /\ finished = "no" /\ begun /\ finished' \in {"result", "error"}
          /\ UNCHANGED <<itemsCredit, sent, begun, started, written, blocked, returned, itemsEnded, itemsBody, itemsStatus, got, itemsOutcome>>
      BY <1>2 DEF Streamed!InstanceEnds, Streamed!handler, Streamed!client
    <2>2. /\ itemsOutbox' \in Seq(OutFrames) /\ Count(itemsOutbox', "item") = Count(itemsOutbox, "item")
          /\ \A i \in DOMAIN itemsOutbox' : i <= Len(itemsOutbox) \/ itemsOutbox'[i] # "item"
          /\ \A i \in DOMAIN itemsOutbox' : i <= Len(itemsOutbox) => itemsOutbox'[i] = "item"
          /\ \A i \in DOMAIN itemsOutbox' : itemsOutbox'[i] \in {"end", "result"} => finished' = "result"
          /\ \A i \in DOMAIN itemsOutbox' : i \in Nat
          /\ Len(itemsOutbox) \in Nat
      <3>0. /\ DOMAIN itemsOutbox = 1..Len(itemsOutbox) /\ Len(itemsOutbox) \in Nat
            /\ \A i \in DOMAIN itemsOutbox : itemsOutbox[i] = "item"
        BY <1>t, <2>1, LenProperties DEF ItemsInv, OutboxOrdered
      <3>1. CASE finished' = "error" /\ itemsOutbox' = Append(itemsOutbox, "error")
        <4>1. /\ itemsOutbox' \in Seq(OutFrames) /\ Count(itemsOutbox', "item") = Count(itemsOutbox, "item")
              /\ DOMAIN itemsOutbox' = 1..Len(itemsOutbox) + 1
              /\ itemsOutbox'[Len(itemsOutbox) + 1] = "error"
              /\ \A i \in 1..Len(itemsOutbox) : itemsOutbox'[i] = itemsOutbox[i]
          BY <1>t, <3>1, OutboxAppend DEF OutFrames
        <4> QED BY <3>0, <3>1, <4>1
      <3>2. CASE finished' = "result" /\ itemsOutbox' = itemsOutbox \o <<"end", "result">>
        <4> DEFINE mid == Append(itemsOutbox, "end")
        <4>1. itemsOutbox' = Append(mid, "result")
          BY <1>t, <3>2, AppendTwo DEF OutFrames
        <4>2. /\ mid \in Seq(OutFrames) /\ Len(mid) = Len(itemsOutbox) + 1 /\ mid[Len(itemsOutbox) + 1] = "end"
              /\ \A i \in 1..Len(itemsOutbox) : mid[i] = itemsOutbox[i]
              /\ Count(mid, "item") = Count(itemsOutbox, "item")
          BY <1>t, AppendProperties, CountAppend DEF OutFrames
        <4> HIDE DEF mid
        <4>3. /\ itemsOutbox' \in Seq(OutFrames) /\ Len(itemsOutbox') = Len(mid) + 1 /\ itemsOutbox'[Len(mid) + 1] = "result"
              /\ \A i \in 1..Len(mid) : itemsOutbox'[i] = mid[i]
              /\ Count(itemsOutbox', "item") = Count(mid, "item")
          BY <4>1, <4>2, AppendProperties, CountAppend DEF OutFrames
        <4>4. DOMAIN itemsOutbox' = 1..Len(itemsOutbox) + 2
          BY <3>0, <4>2, <4>3, LenProperties
        <4> QED BY <3>0, <3>2, <4>2, <4>3, <4>4
      <3> QED BY <1>2, <3>1, <3>2 DEF Streamed!InstanceEnds
    <2>4. ItemsTypes'
      BY <1>t, <1>n, <2>1, <2>2 DEF ItemsTypes, Streamed!half
    <2>5. ItemsCounted'
      BY <1>n, <2>1, <2>2 DEF ItemsInv, ItemsCounted
    <2>6. CreditCounted'
      BY <1>n, <2>1, <2>2 DEF ItemsInv, CreditCounted
    <2>7. OutboxOrdered'
      BY <2>1, <2>2 DEF OutboxOrdered
    <2>8. BodyOrdered'
      BY <2>1, <2>2 DEF ItemsInv, BodyOrdered
    <2>9. EndTold'
      BY <2>1 DEF ItemsInv, EndTold
    <2> QED BY <2>4, <2>5, <2>6, <2>7, <2>8, <2>9 DEF ItemsInv
  <1> QED BY <1>1, <1>2

-------------------------------------------------------------------------------
(* serverStream. *)

LEMMA ItemsWrite ==
  ASSUME Streamed!CreditAssumption, ItemsInv, Streamed!WriteItem
  PROVE  ItemsInv'
  <1>t. ItemsTypes /\ itemsOutbox \in Seq(OutFrames) /\ itemsBody \in Seq(BodyLines)
    BY DEF ItemsInv, ItemsTypes
  <1>n. /\ Count(itemsOutbox, "item") \in Nat /\ Count(itemsBody, "item") \in Nat
        /\ Streamed!half \in Nat \ {0} /\ streamCredit \in Nat /\ OutputItems \in Nat
        /\ sent \in Nat /\ written \in Nat /\ got \in Nat /\ itemsCredit \in Nat
    BY <1>t, ItemsNumbers
  <1>1. /\ begun /\ ~returned /\ itemsOutbox # <<>> /\ Head(itemsOutbox) = "item" /\ itemsOutbox' = Tail(itemsOutbox)
        /\ itemsBody' = Append(itemsBody, "item") /\ started' /\ itemsStatus' = "ok"
        /\ UNCHANGED <<sent, finished, begun, blocked, returned, itemsEnded, got, itemsOutcome>>
    BY DEF Streamed!WriteItem, Streamed!Frame, Streamed!Running, Streamed!Line, Streamed!client
  <1>2. \/ written + 1 = Streamed!half /\ written' = 0 /\ itemsCredit' = itemsCredit + Streamed!half
        \/ written + 1 # Streamed!half /\ written' = written + 1 /\ itemsCredit' = itemsCredit
    BY DEF Streamed!WriteItem, Streamed!GrantNow, Streamed!Regranted
  <1>3. /\ itemsOutbox' \in Seq(OutFrames) /\ Head(itemsOutbox) = itemsOutbox[1]
        /\ Count(itemsOutbox, "item") = Count(itemsOutbox', "item") + 1
        /\ DOMAIN itemsOutbox = 1..Len(itemsOutbox) /\ DOMAIN itemsOutbox' = 1..Len(itemsOutbox) - 1
        /\ Len(itemsOutbox) \in Nat \ {0}
        /\ \A i \in 1..Len(itemsOutbox) - 1 : itemsOutbox'[i] = itemsOutbox[i + 1]
        /\ Count(itemsOutbox', "item") \in Nat
    BY <1>t, <1>1, OutboxTail
  <1>4. /\ itemsBody' \in Seq(BodyLines) /\ Count(itemsBody', "item") = Count(itemsBody, "item") + 1
        /\ DOMAIN itemsBody = 1..Len(itemsBody) /\ DOMAIN itemsBody' = 1..Len(itemsBody) + 1
        /\ Len(itemsBody) \in Nat /\ Len(itemsBody') = Len(itemsBody) + 1
        /\ itemsBody'[Len(itemsBody) + 1] = "item" /\ itemsBody' # <<>>
        /\ \A i \in 1..Len(itemsBody) : itemsBody'[i] = itemsBody[i]
    BY <1>t, <1>1, BodyAppend DEF BodyLines
  <1>5. ItemsTypes'
    <2>1. written' \in 0..(Streamed!half - 1) /\ itemsCredit' \in Nat
      BY <1>t, <1>n, <1>2 DEF ItemsTypes
    <2>2. Streamed!half' = Streamed!half
      BY DEF Streamed!half
    <2>3. started' \in BOOLEAN
      BY <1>1
    <2> QED BY <1>t, <1>1, <1>3, <1>4, <2>1, <2>2, <2>3 DEF ItemsTypes
  <1>6. ItemsCounted'
    <2>1. Count(itemsBody', "item") + Count(itemsOutbox', "item") = Count(itemsBody, "item") + Count(itemsOutbox, "item")
      BY <1>n, <1>3, <1>4
    <2>2. Count(itemsBody', "item") \in Nat /\ Count(itemsOutbox', "item") \in Nat
      BY <1>n, <1>3, <1>4
    <2>3. got + Count(itemsBody', "item") + Count(itemsOutbox', "item") = got + Count(itemsBody, "item") + Count(itemsOutbox, "item")
      BY <1>n, <2>1, <2>2
    <2> QED BY <1>1, <2>3 DEF ItemsInv, ItemsCounted
  <1>7. CreditCounted'
    <2>1. itemsCredit + Count(itemsOutbox, "item") + written <= streamCredit
      BY DEF ItemsInv, CreditCounted
    <2>2. itemsCredit' + Count(itemsOutbox', "item") + written' <= streamCredit
      BY <1>n, <1>2, <1>3, <2>1
    <2> QED BY <1>1, <2>2 DEF CreditCounted
  <1>8. OutboxOrdered'
    BY <1>1, <1>3 DEF ItemsInv, OutboxOrdered
  <1>9. BodyOrdered'
    <2>1. \A i \in DOMAIN itemsBody : itemsBody[i] = "item"
      BY <1>1 DEF ItemsInv, BodyOrdered
    <2>2. \A i \in DOMAIN itemsBody' : itemsBody'[i] = "item"
      BY <1>4, <2>1
    <2>3. itemsOutcome # "result"
      BY <1>n, <1>3 DEF ItemsInv, BodyOrdered
    <2> QED BY <1>1, <2>2, <2>3 DEF BodyOrdered
  <1>10. EndTold'
    BY <1>1 DEF ItemsInv, EndTold
  <1> QED BY <1>5, <1>6, <1>7, <1>8, <1>9, <1>10 DEF ItemsInv

\* The handler takes a frame that is not an item, and perhaps writes the last line.
LEMMA ItemsLast ==
  ASSUME Streamed!CreditAssumption, ItemsInv, Streamed!SkipEnd \/ Streamed!WriteResult \/ Streamed!WriteError
  PROVE  ItemsInv'
  <1>t. ItemsTypes /\ itemsOutbox \in Seq(OutFrames) /\ itemsBody \in Seq(BodyLines)
    BY DEF ItemsInv, ItemsTypes
  <1>n. /\ Count(itemsOutbox, "item") \in Nat /\ Count(itemsBody, "item") \in Nat
        /\ Streamed!half \in Nat \ {0} /\ streamCredit \in Nat /\ OutputItems \in Nat
        /\ sent \in Nat /\ written \in Nat /\ got \in Nat /\ itemsCredit \in Nat
    BY <1>t, ItemsNumbers
  <1>1. /\ begun /\ ~returned /\ itemsOutbox # <<>> /\ Head(itemsOutbox) # "item" /\ itemsOutbox' = Tail(itemsOutbox)
        /\ UNCHANGED <<itemsCredit, sent, finished, begun, written, blocked, itemsEnded, got, itemsOutcome>>
    BY DEF Streamed!SkipEnd, Streamed!WriteResult, Streamed!WriteError, Streamed!Frame,
       Streamed!Running, Streamed!client, Streamed!instance, Streamed!handler
  <1>3. /\ itemsOutbox' \in Seq(OutFrames) /\ Head(itemsOutbox) = itemsOutbox[1]
        /\ Count(itemsOutbox, "item") = Count(itemsOutbox', "item")
        /\ DOMAIN itemsOutbox = 1..Len(itemsOutbox) /\ DOMAIN itemsOutbox' = 1..Len(itemsOutbox) - 1
        /\ Len(itemsOutbox) \in Nat \ {0}
        /\ \A i \in 1..Len(itemsOutbox) - 1 : itemsOutbox'[i] = itemsOutbox[i + 1]
    BY <1>t, <1>1, OutboxTail
  <1>4. Count(itemsOutbox, "item") = 0
    <2>1. \A i \in DOMAIN itemsOutbox : itemsOutbox[i] # "item"
      BY <1>1, <1>3 DEF ItemsInv, OutboxOrdered
    <2> QED BY <1>t, <2>1, CountType
  <1>5. /\ \A i \in DOMAIN itemsBody : itemsBody[i] = "item"
        /\ DOMAIN itemsBody = 1..Len(itemsBody) /\ Len(itemsBody) \in Nat
    BY <1>t, <1>1, LenProperties DEF ItemsInv, BodyOrdered
  <1>6. OutboxOrdered' /\ CreditCounted'
    BY <1>1, <1>3 DEF ItemsInv, OutboxOrdered, CreditCounted
  <1>7. Streamed!half' = Streamed!half
    BY DEF Streamed!half
  <1>8. ASSUME itemsBody' = itemsBody, started' = started,
               \/ returned' = returned /\ itemsStatus' = itemsStatus
               \/ returned' /\ itemsStatus' = "failed"
        PROVE  ItemsInv'
    <2>1. ItemsTypes'
      <3>1. returned' \in BOOLEAN /\ itemsStatus' \in {"none", "ok", "failed"}
        BY <1>t, <1>8 DEF ItemsTypes
      <3> QED BY <1>t, <1>1, <1>3, <1>7, <1>8, <3>1 DEF ItemsTypes
    <2>2. ItemsCounted'
      BY <1>n, <1>1, <1>3, <1>8 DEF ItemsInv, ItemsCounted
    <2>3. BodyOrdered'
      BY <1>1, <1>3, <1>5, <1>8 DEF ItemsInv, BodyOrdered
    <2>4. EndTold'
      BY <1>1, <1>8 DEF ItemsInv, EndTold
    <2> QED BY <1>6, <2>1, <2>2, <2>3, <2>4 DEF ItemsInv
  <1>9. ASSUME NEW l \in {"end", "error"}, itemsBody' = Append(itemsBody, l), returned', started', itemsStatus' = "ok",
               l = "end" => finished = "result"
        PROVE  ItemsInv'
    <2>1. /\ itemsBody' \in Seq(BodyLines) /\ Count(itemsBody', "item") = Count(itemsBody, "item")
          /\ DOMAIN itemsBody' = 1..Len(itemsBody) + 1 /\ Len(itemsBody') = Len(itemsBody) + 1
          /\ itemsBody'[Len(itemsBody) + 1] = l /\ itemsBody' # <<>>
          /\ \A i \in 1..Len(itemsBody) : itemsBody'[i] = itemsBody[i]
      BY <1>t, <1>9, BodyAppend DEF BodyLines
    <2>2. ItemsTypes'
      <3>1. returned' \in BOOLEAN /\ started' \in BOOLEAN
        BY <1>9
      <3> QED BY <1>t, <1>1, <1>3, <1>7, <1>9, <2>1, <3>1 DEF ItemsTypes
    <2>3. ItemsCounted'
      BY <1>n, <1>1, <1>3, <2>1 DEF ItemsInv, ItemsCounted
    <2>4. BodyOrdered'
      <3>1. \A i \in DOMAIN itemsBody' : itemsBody'[i] # "item" => i = Len(itemsBody) + 1
        BY <1>5, <2>1
      <3> QED BY <1>1, <1>3, <1>4, <1>9, <2>1, <3>1 DEF ItemsInv, BodyOrdered
    <2>5. EndTold'
      BY <1>1, <1>9, <2>1 DEF ItemsInv, EndTold
    <2> QED BY <1>6, <2>2, <2>3, <2>4, <2>5 DEF ItemsInv
  <1>10. CASE Streamed!SkipEnd
    <2>1. itemsBody' = itemsBody /\ started' = started /\ returned' = returned /\ itemsStatus' = itemsStatus
      BY <1>10 DEF Streamed!SkipEnd, Streamed!handler
    <2> QED BY <1>8, <2>1
  <1>11. CASE Streamed!WriteResult
    <2>1. itemsOutbox[1] = "result" /\ 1 \in DOMAIN itemsOutbox
      BY <1>3, <1>11 DEF Streamed!WriteResult, Streamed!Frame
    <2>2. finished = "result"
      BY <2>1 DEF ItemsInv, OutboxOrdered
    <2> QED BY <1>9, <1>11, <2>2 DEF Streamed!WriteResult, Streamed!Line
  <1>12. CASE Streamed!WriteError
    BY <1>8, <1>9, <1>12 DEF Streamed!WriteError, Streamed!ErrorLine, Streamed!Line
  <1> QED BY <1>10, <1>11, <1>12

-------------------------------------------------------------------------------
(* The rest of the handler, the context and the client. *)

LEMMA ItemsReads ==
  ASSUME Streamed!CreditAssumption, ItemsInv, Streamed!ClientReads
  PROVE  ItemsInv'
  <1>t. ItemsTypes /\ itemsOutbox \in Seq(OutFrames) /\ itemsBody \in Seq(BodyLines)
    BY DEF ItemsInv, ItemsTypes
  <1>n. /\ Count(itemsOutbox, "item") \in Nat /\ Count(itemsBody, "item") \in Nat
        /\ sent \in Nat /\ got \in Nat
    BY <1>t, ItemsNumbers
  <1>1. /\ itemsOutcome = "none" /\ itemsBody # <<>> /\ itemsBody' = Tail(itemsBody)
        /\ UNCHANGED <<itemsCredit, sent, finished, itemsOutbox, begun, started, written, blocked, returned, itemsEnded, itemsStatus>>
    BY DEF Streamed!ClientReads, Streamed!Open, Streamed!instance, Streamed!handler
  <1>2. /\ itemsBody' \in Seq(BodyLines) /\ Head(itemsBody) = itemsBody[1] /\ Head(itemsBody) \in BodyLines
        /\ Count(itemsBody, "item") =
             IF Head(itemsBody) = "item" THEN Count(itemsBody', "item") + 1 ELSE Count(itemsBody', "item")
        /\ DOMAIN itemsBody = 1..Len(itemsBody) /\ DOMAIN itemsBody' = 1..Len(itemsBody) - 1
        /\ Len(itemsBody) \in Nat \ {0} /\ Len(itemsBody') = Len(itemsBody) - 1
        /\ \A i \in 1..Len(itemsBody) - 1 : itemsBody'[i] = itemsBody[i + 1]
        /\ Count(itemsBody', "item") \in Nat /\ (Len(itemsBody) > 1 => itemsBody' # <<>>)
    BY <1>t, <1>1, BodyTail
  <1>3. \/ Head(itemsBody) = "item" /\ got' = got + 1 /\ itemsOutcome' = "none"
        \/ Head(itemsBody) = "end" /\ got' = got /\ itemsOutcome' = "result"
        \/ Head(itemsBody) = "error" /\ got' = got /\ itemsOutcome' = "error"
    BY <1>1, <1>2 DEF Streamed!ClientReads, BodyLines
  <1>4. Streamed!half' = Streamed!half
    BY DEF Streamed!half
  <1>5. ItemsTypes'
    <2>1. got' \in Nat /\ itemsOutcome' \in {"none", "result", "error", "eof", "aborted"}
      BY <1>n, <1>3
    <2> QED BY <1>t, <1>1, <1>2, <1>4, <2>1 DEF ItemsTypes
  <1>6. ItemsCounted'
    <2>1. got + Count(itemsBody, "item") + Count(itemsOutbox, "item") = sent
      BY <1>n, <1>1 DEF ItemsInv, ItemsCounted
    <2>2. got' + Count(itemsBody', "item") = got + Count(itemsBody, "item") /\ got' \in Nat
      <3>1. Count(itemsBody', "item") \in Nat
        BY <1>2
      <3>2. Count(itemsBody, "item") =
              IF Head(itemsBody) = "item" THEN Count(itemsBody', "item") + 1 ELSE Count(itemsBody', "item")
        BY <1>2
      <3> QED BY <1>n, <1>3, <3>1, <3>2
    <2> QED BY <1>n, <1>1, <1>2, <2>1, <2>2 DEF ItemsCounted
  <1>7. OutboxOrdered' /\ CreditCounted'
    BY <1>1 DEF ItemsInv, OutboxOrdered, CreditCounted
  <1>8. BodyOrdered'
    <2>1. \A i \in DOMAIN itemsBody' : itemsBody'[i] # "item" => i = Len(itemsBody') /\ returned
      BY <1>2 DEF ItemsInv, BodyOrdered
    <2>2. \A i \in DOMAIN itemsBody' : itemsBody'[i] = "end" => Count(itemsOutbox, "item") = 0 /\ finished = "result"
      BY <1>2 DEF ItemsInv, BodyOrdered
    <2>3. ASSUME itemsOutcome' = "result"
          PROVE  Count(itemsOutbox, "item") = 0 /\ Count(itemsBody', "item") = 0 /\ finished = "result"
      <3>1. itemsBody[1] = "end" /\ 1 \in DOMAIN itemsBody
        BY <1>2, <1>3, <2>3
      <3>2. Count(itemsOutbox, "item") = 0 /\ finished = "result" /\ 1 = Len(itemsBody)
        BY <3>1 DEF ItemsInv, BodyOrdered
      <3>3. \A i \in DOMAIN itemsBody' : itemsBody'[i] # "item"
        <4>1. Len(itemsBody) - 1 = 0 /\ 1..0 = {}
          BY <3>2
        <4>2. DOMAIN itemsBody' = {}
          BY <1>2, <4>1
        <4> QED BY <4>2
      <3>4. Count(itemsBody', "item") = 0
        BY <1>2, <3>3, CountType
      <3> QED BY <3>2, <3>4
    <2> QED BY <1>1, <2>1, <2>2, <2>3 DEF BodyOrdered
  <1>9. EndTold'
    <2>1. ASSUME returned, ~itemsEnded, itemsOutcome' = "none", itemsStatus # "failed"
          PROVE  itemsBody' # <<>> /\ itemsBody'[Len(itemsBody')] # "item"
      <3>1. itemsBody[Len(itemsBody)] # "item" /\ itemsBody[1] = "item"
        BY <1>1, <1>2, <1>3, <2>1 DEF ItemsInv, EndTold
      <3> QED BY <1>2, <3>1
    <2> QED BY <1>1, <1>3, <2>1 DEF ItemsInv, EndTold
  <1> QED BY <1>5, <1>6, <1>7, <1>8, <1>9 DEF ItemsInv

LEMMA ItemsRest ==
  ASSUME Streamed!CreditAssumption, ItemsInv,
         \/ Streamed!ContextEnds \/ Streamed!Begin \/ Streamed!Block \/ Streamed!Wake \/ Streamed!Stop
         \/ Streamed!ClientRefused \/ Streamed!ClientAtEnd \/ Streamed!Discard \/ Streamed!ClientAborts \/ UNCHANGED Streamed!vars
  PROVE  ItemsInv'
  <1>t. ItemsTypes /\ itemsOutbox \in Seq(OutFrames) /\ itemsBody \in Seq(BodyLines) /\ Streamed!half' = Streamed!half
    BY DEF ItemsInv, ItemsTypes, Streamed!half
  <1>n. /\ Count(itemsOutbox, "item") \in Nat /\ Count(itemsBody, "item") \in Nat
        /\ Streamed!half \in Nat \ {0} /\ streamCredit \in Nat /\ OutputItems \in Nat
        /\ sent \in Nat /\ written \in Nat /\ got \in Nat /\ itemsCredit \in Nat
    BY <1>t, ItemsNumbers
  <1> USE DEF Streamed!instance, Streamed!handler, Streamed!client
  <1>1. CASE Streamed!Begin
    <2>1. /\ ~begun /\ begun' /\ itemsCredit' = streamCredit
          /\ UNCHANGED <<sent, finished, itemsOutbox, started, written, blocked, returned, itemsEnded, itemsBody, itemsStatus, got, itemsOutcome>>
      BY <1>1 DEF Streamed!Begin
    <2>2. ItemsTypes'
      BY <1>t, <1>n, <2>1 DEF ItemsTypes
    <2>3. CreditCounted'
      <3>1. itemsOutbox = <<>> /\ written = 0
        BY <2>1 DEF ItemsInv, CreditCounted
      <3>2. Count(itemsOutbox, "item") = 0
        BY <3>1, CountEmpty
      <3> QED BY <1>n, <2>1, <3>1, <3>2 DEF CreditCounted
    <2> QED BY <2>1, <2>2, <2>3
            DEF ItemsInv, ItemsCounted, OutboxOrdered, BodyOrdered, EndTold
  <1>2. CASE Streamed!ContextEnds \/ Streamed!Block \/ Streamed!Wake \/ UNCHANGED Streamed!vars
    <2>1. /\ UNCHANGED <<itemsCredit, sent, finished, itemsOutbox, begun, started, written, returned, itemsBody, itemsStatus, got, itemsOutcome>>
          /\ itemsEnded => itemsEnded'
      BY <1>2 DEF Streamed!ContextEnds, Streamed!Block, Streamed!Wake, Streamed!vars
    <2>2. itemsEnded' \in BOOLEAN /\ blocked' \in BOOLEAN
      BY <1>t, <1>2 DEF Streamed!ContextEnds, Streamed!Block, Streamed!Wake, Streamed!vars,
         ItemsTypes
    <2>3. ItemsTypes'
      BY <1>t, <2>1, <2>2 DEF ItemsTypes
    <2> QED BY <2>1, <2>3 DEF ItemsInv, ItemsCounted, CreditCounted, OutboxOrdered,
               BodyOrdered, EndTold
  <1>3. CASE Streamed!Stop
    <2>1. /\ itemsEnded /\ returned' /\ itemsStatus' = "ok"
          /\ UNCHANGED <<itemsCredit, sent, finished, itemsOutbox, begun, started, written, blocked, itemsEnded, itemsBody, got, itemsOutcome>>
      BY <1>3 DEF Streamed!Stop
    <2>2. ItemsTypes'
      <3>1. returned' \in BOOLEAN
        BY <2>1
      <3> QED BY <1>t, <2>1, <3>1 DEF ItemsTypes
    <2> QED BY <2>1, <2>2 DEF ItemsInv, ItemsCounted, CreditCounted, OutboxOrdered,
               BodyOrdered, EndTold
  <1>4. CASE Streamed!ClientRefused \/ Streamed!ClientAtEnd \/ Streamed!ClientAborts
    <2>1. /\ UNCHANGED <<itemsCredit, sent, finished, itemsOutbox, begun, started, written, blocked, returned, itemsBody, itemsStatus, got>>
          /\ itemsOutcome = "none" /\ itemsOutcome' \in {"error", "eof", "aborted"} /\ (itemsEnded => itemsEnded')
          /\ itemsOutcome' = "eof" => returned /\ itemsStatus = "ok" /\ itemsBody = <<>> /\ itemsEnded' = itemsEnded
      BY <1>4 DEF Streamed!ClientRefused, Streamed!ClientAtEnd, Streamed!ClientAborts,
         Streamed!Open
    <2>2. itemsEnded' \in BOOLEAN
      BY <1>t, <1>4 DEF Streamed!ClientRefused, Streamed!ClientAtEnd, Streamed!ClientAborts,
         ItemsTypes
    <2>3. ItemsTypes'
      BY <1>t, <2>1, <2>2 DEF ItemsTypes
    <2>4. EndTold'
      BY <1>t, <2>1, <2>2 DEF ItemsInv, ItemsTypes, EndTold
    <2> QED BY <2>1, <2>3, <2>4 DEF ItemsInv, ItemsCounted, CreditCounted, OutboxOrdered,
               BodyOrdered
  <1>5. CASE Streamed!Discard
    <2>1. /\ itemsOutcome = "aborted" /\ itemsBody' = <<>>
          /\ UNCHANGED <<itemsCredit, sent, finished, itemsOutbox, begun, started, written, blocked, returned, itemsEnded, itemsStatus, got, itemsOutcome>>
      BY <1>5 DEF Streamed!Discard
    <2>2. Count(itemsBody', "item") = 0 /\ DOMAIN itemsBody' = {} /\ itemsBody' \in Seq(BodyLines)
      BY <2>1, CountEmpty
    <2>3. ItemsTypes'
      BY <1>t, <2>1, <2>2 DEF ItemsTypes
    <2>4. ItemsCounted'
      BY <1>n, <2>1, <2>2 DEF ItemsInv, ItemsCounted
    <2> QED BY <2>1, <2>2, <2>3, <2>4 DEF ItemsInv, CreditCounted, OutboxOrdered, BodyOrdered,
               EndTold
  <1> QED BY <1>1, <1>2, <1>3, <1>4, <1>5

\* Every step keeps it.
LEMMA ItemsStep == ASSUME Streamed!CreditAssumption, ItemsInv, [Streamed!Next]_Streamed!vars PROVE ItemsInv'
  BY ItemsInstance, ItemsWrite, ItemsLast, ItemsReads, ItemsRest DEF Streamed!Next,
     Streamed!HandlerSteps, Streamed!ClientSteps

\* It implies the properties of the component.
LEMMA ItemsInvMeans ==
  ASSUME Streamed!CreditAssumption, ItemsInv
  PROVE  Streamed!TypeOK /\ Streamed!HeldWithinCredit /\ Streamed!ResultMeansAll /\ Streamed!ErrorIsTold
  <1>n. /\ Count(itemsOutbox, "item") \in Nat /\ Count(itemsBody, "item") \in Nat
        /\ sent \in Nat /\ written \in Nat /\ got \in Nat /\ itemsCredit \in Nat /\ OutputItems \in Nat
    BY ItemsNumbers DEF ItemsInv
  <1>1. Streamed!TypeOK
    <2>1. got <= sent /\ sent <= OutputItems
      BY <1>n DEF ItemsInv, ItemsCounted, ItemsTypes
    <2>2. got \in 0..OutputItems
      BY <1>n, <2>1
    <2> QED BY <2>2 DEF ItemsInv, ItemsTypes, Streamed!TypeOK, OutFrames, BodyLines
  <1>2. Streamed!HeldWithinCredit
    BY <1>n, StreamedCardinality DEF ItemsInv, CreditCounted, Streamed!HeldWithinCredit,
       Streamed!Held, Count
  <1>3. Streamed!ResultMeansAll
    BY <1>n DEF ItemsInv, ItemsCounted, BodyOrdered, Streamed!ResultMeansAll
  <1>4. Streamed!ErrorIsTold
    BY DEF ItemsInv, EndTold, Streamed!ErrorIsTold
  <1> QED BY <1>1, <1>2, <1>3, <1>4

-------------------------------------------------------------------------------
(* http_stream.go, clientStream.                                           *)

\* The instance of HTTPClientStream counts with the Cardinality of FiniteSets.
LEMMA PostedCardinality == \A S : Posted!Cardinality(S) = Cardinality(S)
  BY DEF Posted!Cardinality, Cardinality

ToFrames == {"item", "end", "cancel"}
FromFrames == {"window", "result", "error"}
Enders == {"last", "eof", "broken"}
Payloads == {"item", "last", "bad"}

LinesTypes ==
    /\ left \in 0..InputItems /\ linesBody \in Seq(Posted!Lines)
    /\ writer \in {"open", "complete", "early", "broken"}
    /\ linesReader \in {"want", "read", "offer", "exit"} /\ line \in Posted!Lines \cup {"none"}
    /\ loop \in {"top", "select", "returned"}
    /\ linesCredit \in Nat /\ reading \in BOOLEAN /\ linesEnded \in BOOLEAN /\ sequence \in 0..InputItems
    /\ linesOutbox \in Seq(FromFrames) /\ toInstance \in Seq(ToFrames)
    /\ received \in Nat /\ granted \in Nat /\ sawEnd \in BOOLEAN /\ answered \in BOOLEAN
    /\ done \in BOOLEAN /\ response \in {"none", "result", "error", "invalid", "empty"}

\* Credit is on its way, held, or spent on an item; an item is on its way or received.
CreditSpent ==
    /\ linesCredit + Count(linesOutbox, "window") + sequence <= granted
    /\ sequence = received + Count(toInstance, "item")
    /\ reading => linesCredit > 0 /\ ~linesEnded

\* Where the lines of a body that is still read are.
LinesWaiting == Count(linesBody, "item") + Count(linesBody, "last") + Count(linesBody, "bad")
LinesCounted ==
    /\ linesReader = "offer" <=> line # "none"
    /\ loop # "returned" /\ linesReader # "exit" =>
         InputItems = left + LinesWaiting + (IF line \in Payloads THEN 1 ELSE 0) + sequence

\* Nothing more is written, and no line is to come unless the producer stopped early.
CleanEnd == writer # "open" /\ (left = 0 \/ writer = "early")

\* What ends the body is its last line.
BodyEnds ==
    /\ \A i \in DOMAIN linesBody : linesBody[i] \in Enders => i = Len(linesBody) /\ writer # "open"
    /\ \A i \in DOMAIN linesBody : linesBody[i] \in {"last", "eof"} => CleanEnd
    /\ line \in {"last", "eof"} => linesBody = <<>> /\ CleanEnd

InputEnds ==
    /\ \A i \in DOMAIN toInstance : toInstance[i] = "end" => i = Len(toInstance) /\ linesEnded
    /\ sawEnd => linesEnded /\ toInstance = <<>>
    /\ linesEnded => writer # "open" /\ (sequence = InputItems \/ writer = "early")

LinesInv == LinesTypes /\ CreditSpent /\ LinesCounted /\ BodyEnds /\ InputEnds

\* The invariant holds at the beginning.
LEMMA LinesInitially == ASSUME Posted!LinesAssumption, Posted!Init PROVE LinesInv
  <1>1. linesOutbox = <<>> /\ linesBody = <<>> /\ toInstance = <<>> /\ linesCredit = 0 /\ sequence = 0 /\ left = InputItems
        /\ received = 0 /\ granted = 0 /\ line = "none" /\ linesReader = "want" /\ writer = "open"
    BY DEF Posted!Init
  <1>2. /\ Count(linesOutbox, "window") = 0 /\ Count(toInstance, "item") = 0
        /\ Count(linesBody, "item") = 0 /\ Count(linesBody, "last") = 0 /\ Count(linesBody, "bad") = 0
    BY <1>1, CountEmpty
  <1>3. 0 \in 0..InputItems /\ InputItems \in 0..InputItems /\ InputItems \in Nat
    BY DEF Posted!LinesAssumption
  <1>4. <<>> \in Seq(Posted!Lines) /\ <<>> \in Seq(FromFrames) /\ <<>> \in Seq(ToFrames)
    OBVIOUS
  <1>5. reading = FALSE /\ linesEnded = FALSE /\ sawEnd = FALSE /\ answered = FALSE /\ done = FALSE
    BY DEF Posted!Init
  <1>6. loop = "top" /\ response = "none"
    BY DEF Posted!Init
  <1>7. LinesTypes
    <2>1. reading \in BOOLEAN /\ linesEnded \in BOOLEAN /\ sawEnd \in BOOLEAN /\ answered \in BOOLEAN /\ done \in BOOLEAN
      BY <1>5
    <2> QED BY <1>1, <1>3, <1>4, <1>6, <2>1 DEF LinesTypes
  <1>8. CreditSpent
    BY <1>1, <1>2, <1>5 DEF CreditSpent
  <1>9. LinesCounted
    BY <1>1, <1>2, <1>3 DEF LinesCounted, LinesWaiting, Payloads
  <1>10. BodyEnds /\ InputEnds
    <2>1. DOMAIN linesBody = {} /\ DOMAIN toInstance = {}
      BY <1>1
    <2> QED BY <1>1, <1>5, <2>1 DEF BodyEnds, InputEnds
  <1> QED BY <1>7, <1>8, <1>9, <1>10 DEF LinesInv

LEMMA LinesNumbers ==
  ASSUME Posted!LinesAssumption, LinesTypes
  PROVE  /\ Count(linesOutbox, "window") \in Nat /\ Count(toInstance, "item") \in Nat
         /\ Count(linesBody, "item") \in Nat /\ Count(linesBody, "last") \in Nat /\ Count(linesBody, "bad") \in Nat
         /\ LinesWaiting \in Nat /\ left \in Nat /\ sequence \in Nat /\ received \in Nat
         /\ granted \in Nat /\ linesCredit \in Nat /\ InputItems \in Nat
  <1>1. /\ Count(linesOutbox, "window") \in Nat /\ Count(toInstance, "item") \in Nat
        /\ Count(linesBody, "item") \in Nat /\ Count(linesBody, "last") \in Nat /\ Count(linesBody, "bad") \in Nat
    BY CountType DEF LinesTypes
  <1> QED BY <1>1 DEF Posted!LinesAssumption, LinesTypes, LinesWaiting

LEMMA LinesAppend ==
  ASSUME linesBody \in Seq(Posted!Lines), NEW l \in Posted!Lines, linesBody' = Append(linesBody, l)
  PROVE  /\ linesBody' \in Seq(Posted!Lines)
         /\ LinesWaiting' = IF l \in Payloads THEN LinesWaiting + 1 ELSE LinesWaiting
         /\ DOMAIN linesBody = 1..Len(linesBody) /\ DOMAIN linesBody' = 1..Len(linesBody) + 1
         /\ Len(linesBody) \in Nat /\ Len(linesBody') = Len(linesBody) + 1
         /\ linesBody'[Len(linesBody) + 1] = l
         /\ \A i \in 1..Len(linesBody) : linesBody'[i] = linesBody[i]
  <1>1. /\ linesBody' \in Seq(Posted!Lines) /\ Len(linesBody') = Len(linesBody) + 1 /\ Len(linesBody) \in Nat
        /\ linesBody'[Len(linesBody) + 1] = l
        /\ \A i \in 1..Len(linesBody) : linesBody'[i] = linesBody[i]
    BY AppendProperties, LenProperties
  <1>2. DOMAIN linesBody = 1..Len(linesBody) /\ DOMAIN linesBody' = 1..Len(linesBody) + 1
    BY <1>1, LenProperties
  <1>3. /\ Count(linesBody', "item") = IF l = "item" THEN Count(linesBody, "item") + 1 ELSE Count(linesBody, "item")
        /\ Count(linesBody', "last") = IF l = "last" THEN Count(linesBody, "last") + 1 ELSE Count(linesBody, "last")
        /\ Count(linesBody', "bad") = IF l = "bad" THEN Count(linesBody, "bad") + 1 ELSE Count(linesBody, "bad")
    BY CountAppend
  <1>4. Count(linesBody, "item") \in Nat /\ Count(linesBody, "last") \in Nat /\ Count(linesBody, "bad") \in Nat
    BY CountType
  <1>5. LinesWaiting' = IF l \in Payloads THEN LinesWaiting + 1 ELSE LinesWaiting
    <2>1. CASE l = "item"
      BY <1>3, <1>4, <2>1 DEF LinesWaiting, Payloads
    <2>2. CASE l = "last"
      BY <1>3, <1>4, <2>2 DEF LinesWaiting, Payloads
    <2>3. CASE l = "bad"
      BY <1>3, <1>4, <2>3 DEF LinesWaiting, Payloads
    <2>4. CASE l \notin Payloads
      BY <1>3, <1>4, <2>4 DEF LinesWaiting, Payloads
    <2> QED BY <2>1, <2>2, <2>3, <2>4 DEF Payloads
  <1> QED BY <1>1, <1>2, <1>5

LEMMA LinesTail ==
  ASSUME linesBody \in Seq(Posted!Lines), linesBody # <<>>, linesBody' = Tail(linesBody)
  PROVE  /\ linesBody' \in Seq(Posted!Lines) /\ Head(linesBody) = linesBody[1] /\ Head(linesBody) \in Posted!Lines
         /\ LinesWaiting = IF Head(linesBody) \in Payloads THEN LinesWaiting' + 1 ELSE LinesWaiting'
         /\ DOMAIN linesBody = 1..Len(linesBody) /\ DOMAIN linesBody' = 1..Len(linesBody) - 1
         /\ Len(linesBody) \in Nat \ {0} /\ Len(linesBody') = Len(linesBody) - 1
         /\ \A i \in 1..Len(linesBody) - 1 : linesBody'[i] = linesBody[i + 1]
         /\ LinesWaiting' \in Nat /\ (Len(linesBody) = 1 => linesBody' = <<>>)
  <1>1. /\ linesBody' \in Seq(Posted!Lines) /\ Head(linesBody) = linesBody[1] /\ Head(linesBody) \in Posted!Lines
        /\ Len(linesBody) \in Nat \ {0} /\ Len(linesBody') = Len(linesBody) - 1
        /\ \A i \in 1..Len(linesBody) - 1 : linesBody'[i] = linesBody[i + 1]
    BY TailByIndex
  <1>2. DOMAIN linesBody = 1..Len(linesBody) /\ DOMAIN linesBody' = 1..Len(linesBody) - 1
    BY <1>1, LenProperties
  <1>3. Len(linesBody) = 1 => linesBody' = <<>>
    BY <1>1, EmptySeq
  <1>4. /\ Count(linesBody, "item") = IF Head(linesBody) = "item" THEN Count(linesBody', "item") + 1 ELSE Count(linesBody', "item")
        /\ Count(linesBody, "last") = IF Head(linesBody) = "last" THEN Count(linesBody', "last") + 1 ELSE Count(linesBody', "last")
        /\ Count(linesBody, "bad") = IF Head(linesBody) = "bad" THEN Count(linesBody', "bad") + 1 ELSE Count(linesBody', "bad")
    BY CountTail
  <1>5. Count(linesBody', "item") \in Nat /\ Count(linesBody', "last") \in Nat /\ Count(linesBody', "bad") \in Nat
    BY <1>1, CountType
  <1>6. /\ LinesWaiting = IF Head(linesBody) \in Payloads THEN LinesWaiting' + 1 ELSE LinesWaiting'
        /\ LinesWaiting' \in Nat
    BY <1>4, <1>5 DEF LinesWaiting, Payloads
  <1> QED BY <1>1, <1>2, <1>3, <1>6

-------------------------------------------------------------------------------
(* The body and its reader. *)

LEMMA LinesWritten ==
  ASSUME Posted!LinesAssumption, LinesInv, Posted!WriteLine \/ Posted!WriteEnds
  PROVE  LinesInv'
  <1>t. LinesTypes /\ linesBody \in Seq(Posted!Lines)
    BY DEF LinesInv, LinesTypes
  <1>n. /\ LinesWaiting \in Nat /\ left \in Nat /\ sequence \in Nat /\ InputItems \in Nat
    BY <1>t, LinesNumbers
  <1>1. PICK l \in Posted!Lines :
          /\ linesBody' = Append(linesBody, l)
          /\ \/ l \in {"item", "bad"} /\ left > 0 /\ left' = left - 1 /\ writer' = "open"
             \/ l = "last" /\ left = 1 /\ left' = 0 /\ writer' = "complete"
             \/ l = "eof" /\ left' = left /\ writer' = (IF left = 0 THEN "complete" ELSE "early")
             \/ l = "broken" /\ left' = left /\ writer' = "broken"
    BY <1>n DEF Posted!WriteLine, Posted!WriteEnds, Posted!EndsOfBody, Posted!Lines
  <1>2. /\ writer = "open"
        /\ UNCHANGED <<linesReader, line, loop, linesCredit, reading, linesEnded, sequence, linesOutbox, toInstance,
                       received, granted, sawEnd, answered, done, response>>
    BY DEF Posted!WriteLine, Posted!WriteEnds, Posted!gateway, Posted!instance
  <1>3. /\ linesBody' \in Seq(Posted!Lines)
        /\ LinesWaiting' = IF l \in Payloads THEN LinesWaiting + 1 ELSE LinesWaiting
        /\ DOMAIN linesBody = 1..Len(linesBody) /\ DOMAIN linesBody' = 1..Len(linesBody) + 1
        /\ Len(linesBody) \in Nat /\ Len(linesBody') = Len(linesBody) + 1
        /\ linesBody'[Len(linesBody) + 1] = l
        /\ \A i \in 1..Len(linesBody) : linesBody'[i] = linesBody[i]
    BY <1>t, <1>1, LinesAppend
  <1>4. left' \in 0..InputItems /\ left' + LinesWaiting' = left + LinesWaiting /\ left' \in Nat /\ LinesWaiting' \in Nat
    <2>1. left \in 0..InputItems
      BY <1>t DEF LinesTypes
    <2> QED BY <1>n, <1>1, <1>3, <2>1 DEF Payloads
  <1>5. LinesTypes'
    <2>1. writer' \in {"open", "complete", "early", "broken"}
      BY <1>1
    <2> QED BY <1>t, <1>2, <1>3, <1>4, <2>1 DEF LinesTypes
  <1>6. CreditSpent' /\ InputEnds'
    BY <1>2 DEF LinesInv, CreditSpent, InputEnds
  <1>7. LinesCounted'
    <2> DEFINE h == IF line \in Payloads THEN 1 ELSE 0
    <2>1. h \in Nat
      OBVIOUS
    <2> HIDE DEF h
    <2>2. loop # "returned" /\ linesReader # "exit" => InputItems = left' + LinesWaiting' + h + sequence
      BY <1>n, <1>4, <2>1 DEF LinesInv, LinesCounted, h
    <2> QED BY <1>2, <2>2 DEF LinesInv, LinesCounted, h
  <1>8. BodyEnds'
    <2>1. \A i \in DOMAIN linesBody : linesBody[i] \notin Enders
      BY <1>2 DEF LinesInv, BodyEnds
    <2>2. \A i \in DOMAIN linesBody' : linesBody'[i] \in Enders => i = Len(linesBody') /\ linesBody'[i] = l
      BY <1>3, <2>1
    <2>3. (l \in Enders => writer' # "open") /\ (l \in {"last", "eof"} => CleanEnd')
      BY <1>1 DEF CleanEnd, Enders
    <2>4. line \notin {"last", "eof"}
      BY <1>2 DEF LinesInv, BodyEnds, CleanEnd
    <2> QED BY <1>2, <2>2, <2>3, <2>4 DEF BodyEnds, Enders
  <1> QED BY <1>5, <1>6, <1>7, <1>8 DEF LinesInv

LEMMA LinesRead ==
  ASSUME Posted!LinesAssumption, LinesInv, Posted!ReadLine
  PROVE  LinesInv'
  <1>t. LinesTypes /\ linesBody \in Seq(Posted!Lines)
    BY DEF LinesInv, LinesTypes
  <1>n. /\ LinesWaiting \in Nat /\ left \in Nat /\ sequence \in Nat /\ InputItems \in Nat
    BY <1>t, LinesNumbers
  <1>1. /\ linesReader = "read" /\ linesReader' = "offer" /\ line = "none"
        /\ UNCHANGED <<left, writer, loop, linesCredit, reading, linesEnded, sequence, linesOutbox, toInstance,
                       received, granted, sawEnd, answered, done, response>>
    BY DEF Posted!ReadLine, Posted!instance, LinesInv, LinesCounted
  <1>2. CreditSpent' /\ InputEnds'
    BY <1>1 DEF LinesInv, CreditSpent, InputEnds
  <1>3. CASE loop = "returned" /\ line' = "broken" /\ linesBody' = linesBody
    <2>1. LinesTypes'
      BY <1>t, <1>1, <1>3 DEF LinesTypes, Posted!Lines
    <2>2. LinesCounted'
      BY <1>1, <1>3 DEF LinesCounted
    <2>3. BodyEnds'
      BY <1>1, <1>3 DEF LinesInv, BodyEnds, CleanEnd
    <2> QED BY <1>2, <2>1, <2>2, <2>3 DEF LinesInv
  <1>4. CASE linesBody # <<>> /\ line' = Head(linesBody) /\ linesBody' = Tail(linesBody)
    <2>1. /\ linesBody' \in Seq(Posted!Lines) /\ Head(linesBody) = linesBody[1] /\ Head(linesBody) \in Posted!Lines
          /\ LinesWaiting = IF Head(linesBody) \in Payloads THEN LinesWaiting' + 1 ELSE LinesWaiting'
          /\ DOMAIN linesBody = 1..Len(linesBody) /\ DOMAIN linesBody' = 1..Len(linesBody) - 1
          /\ Len(linesBody) \in Nat \ {0} /\ Len(linesBody') = Len(linesBody) - 1
          /\ \A i \in 1..Len(linesBody) - 1 : linesBody'[i] = linesBody[i + 1]
          /\ LinesWaiting' \in Nat /\ (Len(linesBody) = 1 => linesBody' = <<>>)
      BY <1>t, <1>4, LinesTail
    <2>2. LinesTypes'
      BY <1>t, <1>1, <1>4, <2>1 DEF LinesTypes
    <2>3. LinesCounted'
      <3>1. "none" \notin Posted!Lines /\ "none" \notin Payloads
        BY DEF Posted!Lines, Payloads
      <3>2. loop # "returned" => InputItems = left + LinesWaiting + 0 + sequence
        BY <1>1, <3>1 DEF LinesInv, LinesCounted
      <3>w. LinesWaiting' \in Nat
        BY <2>1
      <3>3. CASE line' \in Payloads
        <4>1. LinesWaiting = LinesWaiting' + 1
          BY <1>4, <2>1, <3>3
        <4>2. loop # "returned" => InputItems = left + LinesWaiting' + 1 + sequence
          BY <1>n, <3>w, <3>2, <4>1
        <4>3. line' # "none"
          BY <3>1, <3>3
        <4> QED BY <1>1, <3>3, <4>2, <4>3 DEF LinesCounted
      <3>4. CASE line' \notin Payloads
        <4>1. LinesWaiting = LinesWaiting'
          BY <1>4, <2>1, <3>4
        <4>2. loop # "returned" => InputItems = left + LinesWaiting' + 0 + sequence
          BY <3>2, <4>1
        <4>3. line' # "none"
          BY <1>4, <2>1, <3>1
        <4> QED BY <1>1, <3>4, <4>2, <4>3 DEF LinesCounted
      <3> QED BY <3>3, <3>4
    <2>4. BodyEnds'
      <3>0. /\ \A i \in DOMAIN linesBody' : i \in Nat /\ i + 1 \in DOMAIN linesBody /\ linesBody'[i] = linesBody[i + 1]
            /\ Len(linesBody) \in Nat /\ Len(linesBody') = Len(linesBody) - 1
        BY <2>1
      <3>5. /\ \A i \in DOMAIN linesBody : linesBody[i] \in Enders => i = Len(linesBody) /\ writer # "open"
            /\ \A i \in DOMAIN linesBody : linesBody[i] \in {"last", "eof"} => CleanEnd
        BY DEF LinesInv, BodyEnds
      <3>1. \A i \in DOMAIN linesBody' : linesBody'[i] \in Enders => i = Len(linesBody') /\ writer # "open"
        <4> SUFFICES ASSUME NEW i \in DOMAIN linesBody', linesBody'[i] \in Enders
                     PROVE  i = Len(linesBody') /\ writer # "open"
          OBVIOUS
        <4>1. i + 1 = Len(linesBody) /\ writer # "open"
          BY <3>0, <3>5
        <4> QED BY <3>0, <4>1
      <3>2. \A i \in DOMAIN linesBody' : linesBody'[i] \in {"last", "eof"} => CleanEnd
        BY <3>0, <3>5
      <3>3. ASSUME line' \in {"last", "eof"} PROVE linesBody' = <<>> /\ CleanEnd
        <4>1. 1 \in DOMAIN linesBody /\ linesBody[1] \in Enders
          BY <1>4, <2>1, <3>3 DEF Enders
        <4>2. Len(linesBody) = 1 /\ CleanEnd
          BY <1>4, <2>1, <3>3, <4>1 DEF LinesInv, BodyEnds
        <4> QED BY <2>1, <4>2
      <3>4. CleanEnd' = CleanEnd
        BY <1>1 DEF CleanEnd
      <3> QED BY <1>1, <3>1, <3>2, <3>3, <3>4 DEF BodyEnds
    <2> QED BY <1>2, <2>2, <2>3, <2>4 DEF LinesInv
  <1> QED BY <1>3, <1>4 DEF Posted!ReadLine

-------------------------------------------------------------------------------
(* The loop takes a line. *)

LEMMA LinesTaken ==
  ASSUME Posted!LinesAssumption, LinesInv, Posted!TakeLine
  PROVE  LinesInv'
  <1>t. LinesTypes /\ linesBody \in Seq(Posted!Lines) /\ toInstance \in Seq(ToFrames)
    BY DEF LinesInv, LinesTypes
  <1>n. /\ Count(linesOutbox, "window") \in Nat /\ Count(toInstance, "item") \in Nat
        /\ LinesWaiting \in Nat /\ left \in Nat /\ sequence \in Nat /\ received \in Nat
        /\ granted \in Nat /\ linesCredit \in Nat /\ InputItems \in Nat
    BY <1>t, LinesNumbers
  <1>1. /\ loop = "select" /\ reading /\ linesReader = "offer" /\ line \in {"item", "last", "eof"}
        /\ reading' = FALSE /\ linesReader' = "want" /\ line' = "none"
        /\ toInstance' = toInstance \o Posted!Frames(line) /\ linesEnded' = (line # "item") /\ loop' = "top"
        /\ UNCHANGED <<left, writer, linesBody, linesOutbox, received, granted, sawEnd, answered, done, response>>
    BY <1>t DEF Posted!TakeLine, Posted!Take, Posted!Taken, Posted!Wrong, Posted!instance,
       LinesInv, LinesCounted, LinesTypes, Posted!Lines
  <1>2. IF line = "eof" THEN sequence' = sequence /\ linesCredit' = linesCredit
                        ELSE sequence' = sequence + 1 /\ linesCredit' = linesCredit - 1
    BY <1>1 DEF Posted!TakeLine, Posted!Spent
  <1>3. /\ linesCredit > 0 /\ ~linesEnded /\ ~sawEnd
        /\ DOMAIN toInstance = 1..Len(toInstance) /\ Len(toInstance) \in Nat
        /\ \A i \in DOMAIN toInstance : toInstance[i] # "end"
    BY <1>t, <1>1, LenProperties DEF LinesInv, CreditSpent, InputEnds
  <1>4. /\ toInstance' \in Seq(ToFrames)
        /\ Count(toInstance', "item") = Count(toInstance, "item") + (IF line = "eof" THEN 0 ELSE 1)
        /\ \A i \in DOMAIN toInstance' : toInstance'[i] = "end" => i = Len(toInstance') /\ line # "item"
    <2>1. CASE line = "item"
      <3>1. toInstance' = Append(toInstance, "item")
        BY <1>t, <1>1, <2>1, AppendOne DEF Posted!Frames, ToFrames
      <3>2. /\ toInstance' \in Seq(ToFrames) /\ Len(toInstance') = Len(toInstance) + 1
            /\ toInstance'[Len(toInstance) + 1] = "item"
            /\ \A i \in 1..Len(toInstance) : toInstance'[i] = toInstance[i]
        BY <1>t, <3>1, AppendProperties DEF ToFrames
      <3>3. Count(toInstance', "item") = Count(toInstance, "item") + 1
        BY <1>t, <3>1, CountAppend DEF ToFrames
      <3>4. DOMAIN toInstance' = 1..Len(toInstance) + 1
        BY <3>2, LenProperties
      <3>5. \A i \in DOMAIN toInstance' : toInstance'[i] # "end"
        BY <1>3, <3>2, <3>4
      <3> QED BY <2>1, <3>2, <3>3, <3>5
    <2>2. CASE line = "eof"
      <3>1. toInstance' = Append(toInstance, "end")
        BY <1>t, <1>1, <2>2, AppendOne DEF Posted!Frames, ToFrames
      <3>2. /\ toInstance' \in Seq(ToFrames) /\ Len(toInstance') = Len(toInstance) + 1
            /\ \A i \in 1..Len(toInstance) : toInstance'[i] = toInstance[i]
        BY <1>t, <3>1, AppendProperties DEF ToFrames
      <3>3. Count(toInstance', "item") = Count(toInstance, "item")
        BY <1>t, <3>1, CountAppend DEF ToFrames
      <3>4. DOMAIN toInstance' = 1..Len(toInstance) + 1
        BY <3>2, LenProperties
      <3>5. \A i \in DOMAIN toInstance' : toInstance'[i] = "end" => i = Len(toInstance')
        BY <1>3, <3>2, <3>4
      <3> QED BY <1>n, <2>2, <3>2, <3>3, <3>5
    <2>3. CASE line = "last"
      <3> DEFINE mid == Append(toInstance, "item")
      <3>1. toInstance' = Append(mid, "end")
        BY <1>t, <1>1, <2>3, AppendTwo DEF Posted!Frames, ToFrames
      <3>2. /\ mid \in Seq(ToFrames) /\ Len(mid) = Len(toInstance) + 1
            /\ mid[Len(toInstance) + 1] = "item"
            /\ \A i \in 1..Len(toInstance) : mid[i] = toInstance[i]
            /\ Count(mid, "item") = Count(toInstance, "item") + 1
        BY <1>t, AppendProperties, CountAppend DEF ToFrames
      <3> HIDE DEF mid
      <3>3. /\ toInstance' \in Seq(ToFrames) /\ Len(toInstance') = Len(mid) + 1
            /\ \A i \in 1..Len(mid) : toInstance'[i] = mid[i]
            /\ Count(toInstance', "item") = Count(mid, "item")
        BY <3>1, <3>2, AppendProperties, CountAppend DEF ToFrames
      <3>4. DOMAIN toInstance' = 1..Len(toInstance') /\ Len(toInstance') = Len(toInstance) + 2
        BY <1>3, <3>2, <3>3, LenProperties
      <3>5. \A i \in DOMAIN toInstance' : toInstance'[i] = "end" => i = Len(toInstance')
        BY <1>3, <3>2, <3>3, <3>4
      <3> QED BY <2>3, <3>2, <3>3, <3>5
    <2> QED BY <1>1, <2>1, <2>2, <2>3
  <1>5. InputItems = left + LinesWaiting + (IF line = "eof" THEN 0 ELSE 1) + sequence
    BY <1>1 DEF LinesInv, LinesCounted, Payloads
  <1>6. /\ sequence' \in 0..InputItems /\ sequence' \in Nat /\ linesCredit' \in Nat
        /\ InputItems = left + LinesWaiting + 0 + sequence'
        /\ linesCredit' + sequence' = linesCredit + sequence
        /\ sequence' = received + Count(toInstance', "item")
    <2>1. sequence = received + Count(toInstance, "item")
      BY DEF LinesInv, CreditSpent
    <2>2. linesCredit > 0
      BY <1>3
    <2>3. CASE line = "eof"
      <3>1. Count(toInstance', "item") = Count(toInstance, "item") + 0
        BY <1>4, <2>3
      <3>2. sequence' = sequence /\ linesCredit' = linesCredit /\ InputItems = left + LinesWaiting + 0 + sequence
        BY <1>2, <1>5, <2>3
      <3> QED BY <1>n, <2>1, <3>1, <3>2
    <2>4. CASE line # "eof"
      <3>1. Count(toInstance', "item") = Count(toInstance, "item") + 1
        BY <1>4, <2>4
      <3>2. sequence' = sequence + 1 /\ linesCredit' = linesCredit - 1 /\ InputItems = left + LinesWaiting + 1 + sequence
        BY <1>2, <1>5, <2>4
      <3> QED BY <1>n, <2>1, <2>2, <3>1, <3>2
    <2> QED BY <2>3, <2>4
  <1>7. LinesTypes'
    <2>1. reading' \in BOOLEAN /\ linesEnded' \in BOOLEAN
      BY <1>1
    <2> QED BY <1>t, <1>1, <1>4, <1>6, <2>1 DEF LinesTypes
  <1>8. CreditSpent'
    <2>1. linesCredit' + Count(linesOutbox, "window") + sequence' <= granted
      BY <1>n, <1>6 DEF LinesInv, CreditSpent
    <2> QED BY <1>1, <1>6, <2>1 DEF CreditSpent
  <1>9. LinesCounted'
    <2>1. LinesWaiting' = LinesWaiting /\ "none" \notin Payloads
      BY <1>1 DEF LinesWaiting, Payloads
    <2> QED BY <1>1, <1>6, <2>1 DEF LinesCounted
  <1>10. BodyEnds'
    BY <1>1 DEF LinesInv, BodyEnds, CleanEnd
  <1>11. InputEnds'
    <2>1. ASSUME line # "item" PROVE writer # "open" /\ (sequence' = InputItems \/ writer = "early")
      <3>1. linesBody = <<>> /\ CleanEnd
        BY <1>1, <2>1 DEF LinesInv, BodyEnds
      <3>2. LinesWaiting = 0
        BY <3>1, CountEmpty DEF LinesWaiting
      <3>3. left = 0 => sequence' = InputItems
        BY <1>6, <3>2
      <3> QED BY <3>1, <3>3 DEF CleanEnd
    <2> QED BY <1>1, <1>3, <1>4, <2>1 DEF InputEnds
  <1> QED BY <1>7, <1>8, <1>9, <1>10, <1>11 DEF LinesInv

LEMMA LinesWrong ==
  ASSUME Posted!LinesAssumption, LinesInv, Posted!TakeWrong
  PROVE  LinesInv'
  <1>t. LinesTypes /\ toInstance \in Seq(ToFrames)
    BY DEF LinesInv, LinesTypes
  <1>1. /\ reading /\ reading' = FALSE /\ linesReader' = "want" /\ line' = "none"
        /\ toInstance' = Append(toInstance, "cancel")
        /\ loop' = "returned" /\ done' = TRUE /\ response' = "invalid"
        /\ UNCHANGED <<left, writer, linesBody, linesCredit, linesEnded, sequence, linesOutbox, received, granted, sawEnd, answered>>
    BY DEF Posted!TakeWrong, Posted!Take, Posted!Taken, Posted!Finish, Posted!instance
  <1>2. /\ ~linesEnded /\ ~sawEnd
        /\ DOMAIN toInstance = 1..Len(toInstance) /\ Len(toInstance) \in Nat
        /\ \A i \in DOMAIN toInstance : toInstance[i] # "end"
    BY <1>t, <1>1, LenProperties DEF LinesInv, CreditSpent, InputEnds
  <1>3. /\ toInstance' \in Seq(ToFrames) /\ Len(toInstance') = Len(toInstance) + 1
        /\ toInstance'[Len(toInstance) + 1] = "cancel"
        /\ \A i \in 1..Len(toInstance) : toInstance'[i] = toInstance[i]
    BY <1>t, <1>1, AppendProperties DEF ToFrames
  <1>4. Count(toInstance', "item") = Count(toInstance, "item")
    BY <1>t, <1>1, CountAppend DEF ToFrames
  <1>5. DOMAIN toInstance' = 1..Len(toInstance) + 1
    BY <1>3, LenProperties
  <1>6. \A i \in DOMAIN toInstance' : toInstance'[i] # "end"
    BY <1>2, <1>3, <1>5
  <1>7. LinesTypes'
    <2>1. reading' \in BOOLEAN /\ done' \in BOOLEAN
      BY <1>1
    <2> QED BY <1>t, <1>1, <1>3, <2>1 DEF LinesTypes
  <1>8. CreditSpent'
    BY <1>1, <1>4 DEF LinesInv, CreditSpent
  <1>9. LinesCounted' /\ BodyEnds'
    BY <1>1 DEF LinesInv, LinesCounted, BodyEnds, CleanEnd
  <1>10. InputEnds'
    BY <1>1, <1>2, <1>6 DEF InputEnds
  <1> QED BY <1>7, <1>8, <1>9, <1>10 DEF LinesInv

-------------------------------------------------------------------------------
(* Credit, and the frames from the instance. *)

\* What a step that leaves lines, items and input alone has to show.
LEMMA LinesCredit ==
  ASSUME Posted!LinesAssumption, LinesInv, Posted!TakeFrame \/ Posted!Grant \/ Posted!Answer
  PROVE  LinesInv'
  <1>t. LinesTypes /\ linesOutbox \in Seq(FromFrames)
    BY DEF LinesInv, LinesTypes
  <1>n. /\ Count(linesOutbox, "window") \in Nat /\ sequence \in Nat /\ granted \in Nat /\ linesCredit \in Nat
    BY <1>t, LinesNumbers
  <1>1. /\ UNCHANGED <<left, writer, linesBody, linesReader, line, reading, linesEnded, sequence, toInstance, received, sawEnd>>
        /\ loop = "returned" => loop' = "returned"
    BY DEF Posted!TakeFrame, Posted!Grant, Posted!Answer, Posted!gateway, Posted!instance
  <1>2. LinesCounted' /\ BodyEnds' /\ InputEnds'
    <2>1. LinesWaiting' = LinesWaiting
      BY <1>1 DEF LinesWaiting
    <2> QED BY <1>1, <2>1 DEF LinesInv, LinesCounted, BodyEnds, CleanEnd, InputEnds
  <1>3. ASSUME LinesTypes', linesCredit' + Count(linesOutbox', "window") + sequence <= granted', linesCredit' >= linesCredit
        PROVE  LinesInv'
    <2>1. CreditSpent'
      <3>1. reading' => linesCredit' > 0 /\ ~linesEnded'
        <4>1. reading => linesCredit > 0 /\ ~linesEnded
          BY DEF LinesInv, CreditSpent
        <4>2. linesCredit' \in Nat
          BY <1>3 DEF LinesTypes
        <4> QED BY <1>n, <1>1, <1>3, <4>1, <4>2
      <3> QED BY <1>1, <1>3, <3>1 DEF LinesInv, CreditSpent
    <2> QED BY <1>2, <1>3, <2>1 DEF LinesInv
  <1>4. linesCredit + Count(linesOutbox, "window") + sequence <= granted
    BY DEF LinesInv, CreditSpent
  <1>5. CASE Posted!Grant
    <2>1. /\ granted' = granted + 1 /\ linesOutbox' = Append(linesOutbox, "window")
          /\ UNCHANGED <<loop, linesCredit, answered, done, response>>
      BY <1>5 DEF Posted!Grant, Posted!gateway
    <2>2. /\ linesOutbox' \in Seq(FromFrames)
          /\ Count(linesOutbox', "window") = Count(linesOutbox, "window") + 1
      BY <1>t, <2>1, AppendProperties, CountAppend DEF FromFrames
    <2>3. LinesTypes'
      BY <1>t, <1>1, <2>1, <2>2 DEF LinesTypes
    <2>4. linesCredit' + Count(linesOutbox', "window") + sequence <= granted'
      BY <1>n, <1>4, <2>1, <2>2
    <2>5. linesCredit' >= linesCredit
      BY <1>n, <2>1
    <2> QED BY <1>3, <2>3, <2>4, <2>5
  <1>6. CASE Posted!Answer
    <2>1. PICK k \in {"result", "error"} : linesOutbox' = Append(linesOutbox, k)
      BY <1>6 DEF Posted!Answer
    <2>2. answered' \in BOOLEAN /\ UNCHANGED <<loop, linesCredit, granted, done, response>>
      BY <1>6 DEF Posted!Answer, Posted!gateway
    <2>3. /\ linesOutbox' \in Seq(FromFrames) /\ Count(linesOutbox', "window") = Count(linesOutbox, "window")
      BY <1>t, <2>1, AppendProperties, CountAppend DEF FromFrames
    <2>4. LinesTypes'
      BY <1>t, <1>1, <2>2, <2>3 DEF LinesTypes
    <2>5. linesCredit' >= linesCredit
      BY <1>n, <2>2
    <2> QED BY <1>3, <1>4, <2>2, <2>3, <2>4, <2>5
  <1>7. CASE Posted!TakeFrame
    <2>1. /\ linesOutbox # <<>> /\ linesOutbox' = Tail(linesOutbox) /\ UNCHANGED <<granted, answered>>
      BY <1>7 DEF Posted!TakeFrame, Posted!instance
    <2>2. /\ linesOutbox' \in Seq(FromFrames) /\ Head(linesOutbox) \in FromFrames
          /\ Count(linesOutbox, "window") =
               IF Head(linesOutbox) = "window" THEN Count(linesOutbox', "window") + 1 ELSE Count(linesOutbox', "window")
      BY <1>t, <2>1, TailByIndex, CountTail
    <2>3. Count(linesOutbox', "window") \in Nat
      BY <2>2, CountType
    <2>4. CASE Head(linesOutbox) = "window"
      <3>1. linesCredit' = linesCredit + 1 /\ loop' \in {"top", "select"} /\ UNCHANGED <<done, response>>
        BY <1>7, <2>4 DEF Posted!TakeFrame
      <3>2. LinesTypes'
        BY <1>t, <1>1, <2>1, <2>2, <3>1 DEF LinesTypes
      <3>3. linesCredit' + Count(linesOutbox', "window") + sequence <= granted' /\ linesCredit' >= linesCredit
        BY <1>n, <1>4, <2>1, <2>2, <2>3, <2>4, <3>1
      <3> QED BY <1>3, <3>2, <3>3
    <2>5. CASE Head(linesOutbox) # "window"
      <3>1. /\ linesCredit' = linesCredit /\ loop' = "returned" /\ response' = Head(linesOutbox)
        BY <1>7, <2>5 DEF Posted!TakeFrame, Posted!Finish
      <3>2. done' \in BOOLEAN
        BY <1>7, <2>5 DEF Posted!TakeFrame, Posted!Finish
      <3>3. response' \in {"result", "error"}
        BY <2>2, <2>5, <3>1 DEF FromFrames
      <3>4. LinesTypes'
        BY <1>t, <1>1, <2>1, <2>2, <3>1, <3>2, <3>3 DEF LinesTypes
      <3>5. linesCredit' + Count(linesOutbox', "window") + sequence <= granted' /\ linesCredit' >= linesCredit
        BY <1>n, <1>4, <2>1, <2>2, <2>5, <3>1
      <3> QED BY <1>3, <3>4, <3>5
    <2> QED BY <2>4, <2>5
  <1> QED BY <1>5, <1>6, <1>7

LEMMA LinesReceived ==
  ASSUME Posted!LinesAssumption, LinesInv, Posted!Receive
  PROVE  LinesInv'
  <1>t. LinesTypes /\ toInstance \in Seq(ToFrames)
    BY DEF LinesInv, LinesTypes
  <1>n. Count(toInstance, "item") \in Nat /\ received \in Nat /\ sequence \in Nat
    BY <1>t, LinesNumbers
  <1>1. /\ toInstance # <<>> /\ toInstance' = Tail(toInstance)
        /\ received' = (IF Head(toInstance) = "item" THEN received + 1 ELSE received)
        /\ sawEnd' = (sawEnd \/ Head(toInstance) = "end")
        /\ UNCHANGED <<left, writer, linesBody, linesReader, line, loop, linesCredit, reading, linesEnded, sequence, linesOutbox,
                       granted, answered, done, response>>
    BY DEF Posted!Receive, Posted!gateway
  <1>2. /\ toInstance' \in Seq(ToFrames) /\ Len(toInstance') = Len(toInstance) - 1
        /\ Head(toInstance) = toInstance[1] /\ Len(toInstance) \in Nat \ {0}
        /\ \A i \in 1..Len(toInstance) - 1 : toInstance'[i] = toInstance[i + 1]
    BY <1>t, <1>1, TailByIndex
  <1>3. /\ Count(toInstance, "item") =
             IF Head(toInstance) = "item" THEN Count(toInstance', "item") + 1 ELSE Count(toInstance', "item")
        /\ Count(toInstance', "item") \in Nat
    BY <1>t, <1>1, <1>2, CountTail, CountType
  <1>4. DOMAIN toInstance = 1..Len(toInstance) /\ DOMAIN toInstance' = 1..Len(toInstance) - 1
    BY <1>t, <1>2, LenProperties
  <1>5. LinesTypes'
    <2>1. received' \in Nat /\ sawEnd' \in BOOLEAN
      BY <1>n, <1>1
    <2> QED BY <1>t, <1>1, <1>2, <2>1 DEF LinesTypes
  <1>6. CreditSpent'
    <2>1. sequence = received' + Count(toInstance', "item")
      BY <1>n, <1>1, <1>3 DEF LinesInv, CreditSpent
    <2> QED BY <1>1, <2>1 DEF LinesInv, CreditSpent
  <1>7. LinesCounted' /\ BodyEnds'
    <2>1. LinesWaiting' = LinesWaiting
      BY <1>1 DEF LinesWaiting
    <2> QED BY <1>1, <2>1 DEF LinesInv, LinesCounted, BodyEnds, CleanEnd
  <1>8. InputEnds'
    <2>1. \A i \in DOMAIN toInstance' : toInstance'[i] = "end" => i = Len(toInstance') /\ linesEnded
      BY <1>2, <1>4 DEF LinesInv, InputEnds
    <2>2. ~sawEnd
      BY <1>1 DEF LinesInv, InputEnds
    <2>3. ASSUME Head(toInstance) = "end" PROVE linesEnded /\ toInstance' = <<>>
      <3>1. 1 \in DOMAIN toInstance /\ toInstance[1] = "end"
        BY <1>2, <1>4, <2>3
      <3>2. Len(toInstance) = 1 /\ linesEnded
        BY <3>1 DEF LinesInv, InputEnds
      <3>3. Len(toInstance') = 0
        <4>1. Len(toInstance') = Len(toInstance) - 1
          BY <1>2
        <4> QED BY <3>2, <4>1
      <3> QED BY <1>2, <3>2, <3>3, EmptySeq
    <2> QED BY <1>1, <2>1, <2>2, <2>3 DEF LinesInv, InputEnds
  <1> QED BY <1>5, <1>6, <1>7, <1>8 DEF LinesInv

LEMMA LinesRest ==
  ASSUME Posted!LinesAssumption, LinesInv,
         Posted!ReaderExits \/ Posted!Ask \/ Posted!NothingToAsk \/ Posted!Gone \/ Posted!ContextEnds \/ UNCHANGED Posted!vars
  PROVE  LinesInv'
  <1>t. LinesTypes
    BY DEF LinesInv
  <1> USE DEF Posted!gateway, Posted!instance
  <1>1. /\ UNCHANGED <<left, writer, linesBody, linesCredit, linesEnded, sequence, linesOutbox, toInstance, received, granted, sawEnd, answered>>
        /\ loop = "returned" => loop' = "returned"
        /\ linesReader = "exit" => linesReader' = "exit"
    BY DEF Posted!ReaderExits, Posted!Ask, Posted!NothingToAsk, Posted!Gone,
       Posted!ContextEnds, Posted!vars, Posted!Finish
  <1>2. /\ linesReader' \in {"want", "read", "offer", "exit"} /\ line' \in Posted!Lines \cup {"none"}
        /\ loop' \in {"top", "select", "returned"} /\ reading' \in BOOLEAN /\ done' \in BOOLEAN
        /\ response' \in {"none", "result", "error", "invalid", "empty"}
    BY <1>t DEF Posted!ReaderExits, Posted!Ask, Posted!NothingToAsk, Posted!Gone,
       Posted!ContextEnds, Posted!vars, Posted!Finish, LinesTypes
  <1>3. LinesTypes'
    BY <1>t, <1>1, <1>2 DEF LinesTypes
  <1>4. reading' => reading \/ (linesCredit > 0 /\ ~linesEnded)
    BY DEF Posted!ReaderExits, Posted!Ask, Posted!NothingToAsk, Posted!Gone,
       Posted!ContextEnds, Posted!vars, Posted!WantsLine
  <1>5. CreditSpent' /\ InputEnds'
    BY <1>1, <1>4 DEF LinesInv, CreditSpent, InputEnds
  <1>6. /\ linesReader' = "offer" <=> line' # "none"
        /\ linesReader' # "exit" => line' = line
        /\ line' \in {line, "none"}
    BY DEF Posted!ReaderExits, Posted!Ask, Posted!NothingToAsk, Posted!Gone,
       Posted!ContextEnds, Posted!vars, LinesInv, LinesCounted
  <1>7. LinesCounted' /\ BodyEnds'
    <2>1. LinesWaiting' = LinesWaiting
      BY <1>1 DEF LinesWaiting
    <2> QED BY <1>1, <1>6, <2>1 DEF LinesInv, LinesCounted, BodyEnds, CleanEnd
  <1> QED BY <1>3, <1>5, <1>7 DEF LinesInv

\* Every step keeps it.
LEMMA LinesStep == ASSUME Posted!LinesAssumption, LinesInv, [Posted!Next]_Posted!vars PROVE LinesInv'
  BY LinesWritten, LinesRead, LinesTaken, LinesWrong, LinesCredit, LinesReceived, LinesRest
     DEF Posted!Next, Posted!LoopSteps

\* It implies the properties of the component.
LEMMA LinesInvMeans ==
  ASSUME Posted!LinesAssumption, LinesInv
  PROVE  Posted!TypeOK /\ Posted!InputWithinCredit /\ Posted!EndIsLast /\ Posted!EndMeansComplete
  <1>n. /\ Count(linesOutbox, "window") \in Nat /\ Count(toInstance, "item") \in Nat
        /\ sequence \in Nat /\ received \in Nat
        /\ granted \in Nat /\ linesCredit \in Nat /\ InputItems \in Nat
    BY LinesNumbers DEF LinesInv
  <1>1. sequence = received + Count(toInstance, "item") /\ sequence <= granted /\ sequence <= InputItems
    BY <1>n DEF LinesInv, CreditSpent, LinesTypes
  <1>2. Posted!TypeOK
    <2>1. received \in 0..InputItems
      BY <1>n, <1>1
    <2> QED BY <2>1 DEF LinesInv, LinesTypes, Posted!TypeOK, ToFrames, FromFrames
  <1>3. Posted!InputWithinCredit
    BY <1>n, <1>1, PostedCardinality DEF Posted!InputWithinCredit, Posted!SentItems, Count
  <1>4. sawEnd => received = sequence /\ toInstance = <<>> /\ (received = InputItems \/ writer = "early")
    <2>1. sawEnd => toInstance = <<>> /\ (sequence = InputItems \/ writer = "early")
      BY DEF LinesInv, InputEnds
    <2>2. toInstance = <<>> => Count(toInstance, "item") = 0
      BY CountEmpty
    <2> QED BY <1>n, <1>1, <2>1, <2>2
  <1> QED BY <1>2, <1>3, <1>4 DEF Posted!EndIsLast, Posted!EndMeansComplete, LinesInv, InputEnds

-------------------------------------------------------------------------------
(* http.go: the HTTP gateway.                                              *)

\* The types, but for the counter's bound, which follows from what it counts.
GatewayTypes ==
    /\ pc \in [Requests -> Stages] /\ shape \in [Requests -> Shapes \cup {"none"}]
    /\ bounded \in [Requests -> BOOLEAN] /\ status \in [Requests -> Answers]
    /\ outbox \in [Requests -> {"empty", "result", "error"}]
    /\ route \subseteq Requests /\ waits \subseteq Requests /\ stranded \subseteq Requests
    /\ ended \subseteq Requests /\ gone \subseteq Requests /\ peers \subseteq Requests
    /\ registered \in Shapes \cup {"none"} /\ valid \in BOOLEAN /\ closed \in BOOLEAN
    /\ close \in {"no", "waiting", "cancelled", "done"}

Counted == Admitted \cup {q \in Requests : pc[q] = "refuse"}

CountInv ==
    /\ httpInflight = Cardinality(Counted)
    /\ Cardinality(Admitted) <= HTTPMaxInflight

\* A request has a call only while it waits for it, and waits only as one of the
\* Router's peers.
PeerStages == {"forward", "pop", "blocked", "release"}
RouteInv ==
    /\ NoOrphanCall
    /\ \A q \in Requests : pc[q] \in PeerStages => q \in peers
    /\ close # "no" => closed
    /\ close = "done" => peers = {}

-------------------------------------------------------------------------------
(* The types.                                                              *)

LEMMA GatewayTypesInit == Init => GatewayTypes
  BY DEF Init, GatewayTypes, Stages, Answers

LEMMA MoveTypes ==
  ASSUME GatewayTypes, NEW q \in Requests, NEW s \in Stages, NEW a \in Answers
  PROVE  /\ To(q, s) => pc' \in [Requests -> Stages]
         /\ Say(q, a) => status' \in [Requests -> Answers]
  BY DEF GatewayTypes, To, Say

LEMMA CheckTypes ==
  ASSUME GatewayTypes, NEW q \in Requests, NEW at \in Stages, NEW next \in Stages, NEW wrong \in Answers,
         Check(q, at, next, wrong)
  PROVE  pc' \in [Requests -> Stages] /\ status' \in [Requests -> Answers]
  <1>1. "uncount" \in Stages
    BY DEF Stages
  <1>2. UNCHANGED status => status' \in [Requests -> Answers]
    BY DEF GatewayTypes
  <1> QED BY <1>1, <1>2, MoveTypes DEF Check

LEMMA ServeTypes ==
  ASSUME GatewayTypes, NEW q \in Requests, Arrive(q) \/ Serve(q)
  PROVE  GatewayTypes'
  <1>s. /\ \A s \in {"new", "count", "refuse", "path", "auth", "lookup", "body", "open", "peer",
                     "forward", "pop", "blocked", "release", "uncount", "done"} : s \in Stages
        /\ \A a \in {"none", "preflight", "refused", "invalid", "denied", "unavailable",
                     "document", "result", "error", "empty"} : a \in Answers
    BY DEF Stages, Answers
  <1>u. UNCHANGED status => status' \in [Requests -> Answers]
    BY DEF GatewayTypes
  <1>p. ASSUME pc' \in [Requests -> Stages], status' \in [Requests -> Answers],
               UNCHANGED <<shape, bounded, call, peers, registered, valid, closed, close>>
        PROVE  GatewayTypes'
    BY <1>p DEF GatewayTypes, call
  <1>1. CASE Arrive(q)
    BY <1>1, <1>p, <1>s, <1>u, MoveTypes DEF Arrive, router
  <1>2. CASE CountIn(q) \/ Refuse(q)
    <2>1. pc' \in [Requests -> Stages] /\ status' \in [Requests -> Answers]
      BY <1>2, <1>s, <1>u, MoveTypes DEF CountIn, Refuse
    <2> QED BY <1>2, <1>p, <2>1 DEF CountIn, Refuse
  <1>3. CASE CheckPath(q) \/ CheckBody(q)
    <2>1. pc' \in [Requests -> Stages] /\ status' \in [Requests -> Answers]
      BY <1>3, <1>s, CheckTypes DEF CheckPath, CheckBody
    <2> QED BY <1>3, <1>p, <2>1 DEF CheckPath, CheckBody, router
  <1>4. CASE CheckAuth(q)
    <2>1. pc' \in [Requests -> Stages] /\ status' \in [Requests -> Answers]
      BY <1>4, <1>s, CheckTypes, MoveTypes DEF CheckAuth
    <2> QED BY <1>4, <1>p, <2>1 DEF CheckAuth, router
  <1>5. CASE LookUp(q)
    <2>1. pc' \in [Requests -> Stages] /\ status' \in [Requests -> Answers]
      BY <1>5, <1>s, <1>u, MoveTypes DEF LookUp
    <2> QED BY <1>5, <2>1 DEF LookUp, GatewayTypes, call, router
  <1>6. CASE OpenFrame(q)
    <2>1. pc' \in [Requests -> Stages] /\ status' \in [Requests -> Answers]
      BY <1>6, <1>s, CheckTypes DEF OpenFrame
    <2>2. bounded' \in [Requests -> BOOLEAN]
      BY <1>6 DEF OpenFrame, GatewayTypes, DefaultTimeout
    <2> QED BY <1>6, <2>1, <2>2 DEF OpenFrame, GatewayTypes, call, router
  <1>7. CASE VirtualClient(q)
    <2>1. pc' \in [Requests -> Stages] /\ status' \in [Requests -> Answers]
      BY <1>7, <1>s, <1>u, MoveTypes DEF VirtualClient
    <2> QED BY <1>7, <2>1 DEF VirtualClient, GatewayTypes, call
  <1>8. CASE Forward(q)
    <2>1. pc' \in [Requests -> Stages]
      BY <1>8, <1>s, MoveTypes DEF Forward
    <2> QED BY <1>8, <2>1 DEF Forward, GatewayTypes, router
  <1>9. CASE Pop(q)
    <2>1. outbox[q] \in Answers \/ outbox[q] = "empty"
      BY <1>s DEF GatewayTypes
    <2>2. pc' \in [Requests -> Stages] /\ status' \in [Requests -> Answers]
      BY <1>9, <1>s, <1>u, <2>1, MoveTypes DEF Pop
    <2> QED BY <1>9, <1>p, <2>2 DEF Pop, router
  <1>10. CASE Wake(q) \/ ContextEnds(q)
    <2>1. pc' \in [Requests -> Stages] /\ status' \in [Requests -> Answers]
      BY <1>10, <1>s, <1>u, MoveTypes DEF Wake, ContextEnds
    <2> QED BY <1>10, <1>p, <2>1 DEF Wake, ContextEnds, router
  <1>11. CASE Release(q)
    <2>1. pc' \in [Requests -> Stages]
      BY <1>11, <1>s, MoveTypes DEF Release
    <2> QED BY <1>11, <2>1 DEF Release, Cancels, GatewayTypes
  <1>12. CASE Uncount(q)
    <2>1. pc' \in [Requests -> Stages]
      BY <1>12, <1>s, MoveTypes DEF Uncount
    <2> QED BY <1>12, <2>1 DEF Uncount, GatewayTypes
  <1> QED BY <1>1, <1>2, <1>3, <1>4, <1>5, <1>6, <1>7, <1>8, <1>9, <1>10, <1>11, <1>12 DEF Serve

LEMMA GatewayTypesStep == GatewayTypes /\ [Next]_vars => GatewayTypes'
  <1> SUFFICES ASSUME GatewayTypes, [Next]_vars PROVE GatewayTypes'
    OBVIOUS
  <1>1. ASSUME NEW q \in Requests,
               Answer(q) \/ Deadline(q) \/ ClientGone(q) \/ SharedAnswer(q) \/ FirstCallerLeaves(q)
        PROVE  GatewayTypes'
    BY <1>1 DEF Answer, Deadline, ClientGone, SharedAnswer, FirstCallerLeaves, GatewayTypes, request, router
  <1>2. CASE Reregister \/ Invalidate
    BY <1>2 DEF Reregister, FailRoutes, Invalidate, GatewayTypes, request
  <1>3. CASE CloseBegins \/ CloseCancels \/ CloseDone
    BY <1>3 DEF CloseBegins, FailRoutes, CloseCancels, CloseDone, GatewayTypes, request, call
  <1>4. CASE UNCHANGED vars
    BY <1>4 DEF vars, request, call, router, GatewayTypes
  <1> QED BY <1>1, <1>2, <1>3, <1>4, ServeTypes DEF Next

-------------------------------------------------------------------------------
(* The counter.                                                            *)

Outside == {"new", "count", "refuse", "done"}

\* A step of one request within the limit, or outside it, changes no count.
LEMMA MoveCounts ==
  ASSUME GatewayTypes, NEW q \in Requests, NEW s, To(q, s), s \in Outside <=> pc[q] \in Outside,
         s = "refuse" <=> pc[q] = "refuse"
  PROVE  Admitted' = Admitted /\ Counted' = Counted
  <1>1. pc'[q] = s /\ \A p \in Requests : p # q => pc'[p] = pc[p]
    BY DEF To, GatewayTypes
  <1> QED BY <1>1 DEF Admitted, Counted, Outside

LEMMA CountKinds ==
  ASSUME GatewayTypes, [Next]_vars
  PROVE  \/ UNCHANGED httpInflight /\ Admitted' = Admitted /\ Counted' = Counted
         \/ \E q \in Requests : CountIn(q) \/ Refuse(q) \/ Uncount(q)
  <1> DEFINE Goal == UNCHANGED httpInflight /\ Admitted' = Admitted /\ Counted' = Counted
  <1>u. ASSUME UNCHANGED <<pc, httpInflight>> PROVE Goal
    BY <1>u DEF Admitted, Counted
  <1>m. ASSUME NEW q \in Requests, NEW s, To(q, s), UNCHANGED httpInflight,
               s \in Outside <=> pc[q] \in Outside, s = "refuse" <=> pc[q] = "refuse"
        PROVE  Goal
    BY <1>m, MoveCounts
  <1>1. ASSUME NEW q \in Requests,
               Answer(q) \/ Deadline(q) \/ ClientGone(q) \/ SharedAnswer(q) \/ FirstCallerLeaves(q)
        PROVE  Goal
    BY <1>1, <1>u DEF Answer, Deadline, ClientGone, SharedAnswer, FirstCallerLeaves, request, router
  <1>2. CASE Reregister \/ Invalidate \/ CloseBegins \/ CloseCancels \/ CloseDone
    BY <1>2, <1>u DEF Reregister, Invalidate, CloseBegins, CloseCancels, CloseDone, request
  <1>3. CASE UNCHANGED vars
    BY <1>3, <1>u DEF vars, request, router
  <1>4. ASSUME NEW q \in Requests, Arrive(q) PROVE Goal
    BY <1>4, <1>m DEF Arrive, Outside, router
  <1>5. ASSUME NEW q \in Requests, CheckPath(q) \/ CheckAuth(q) \/ CheckBody(q) \/ OpenFrame(q)
        PROVE  Goal
    BY <1>5, <1>m DEF CheckPath, CheckAuth, CheckBody, OpenFrame, Check, Outside, router
  <1>6. ASSUME NEW q \in Requests, LookUp(q) \/ VirtualClient(q) \/ Forward(q) PROVE Goal
    BY <1>6, <1>m DEF LookUp, VirtualClient, Forward, Outside, router
  <1>7. ASSUME NEW q \in Requests, Pop(q) \/ Wake(q) \/ ContextEnds(q) \/ Release(q) PROVE Goal
    BY <1>7, <1>m DEF Pop, Wake, ContextEnds, Release, Outside, router
  <1> QED BY <1>1, <1>2, <1>3, <1>4, <1>5, <1>6, <1>7 DEF Next, Serve

LEMMA CountSets ==
  ASSUME GatewayAssumption
  PROVE  /\ IsFiniteSet(Counted) /\ Cardinality(Counted) \in 0 .. Cardinality(Requests)
         /\ Cardinality(Counted) \in Nat /\ Cardinality(Admitted) \in Nat
         /\ Cardinality(Admitted) <= Cardinality(Counted)
  <1>1. Counted \subseteq Requests /\ Admitted \subseteq Counted
    BY DEF Counted, Admitted
  <1>2. IsFiniteSet(Requests)
    BY DEF GatewayAssumption
  <1>3. IsFiniteSet(Counted) /\ Cardinality(Counted) <= Cardinality(Requests)
    BY <1>1, <1>2, FS_Subset
  <1>4. IsFiniteSet(Admitted) /\ Cardinality(Admitted) <= Cardinality(Counted)
    BY <1>1, <1>3, FS_Subset
  <1> QED BY <1>2, <1>3, <1>4, FS_CardinalityType

LEMMA CountStep ==
  ASSUME GatewayAssumption, GatewayTypes, CountInv, [Next]_vars
  PROVE  CountInv'
  <1>0. HTTPMaxInflight \in Nat
    BY DEF GatewayAssumption
  <1>1. CASE UNCHANGED httpInflight /\ Admitted' = Admitted /\ Counted' = Counted
    BY <1>1 DEF CountInv
  <1>2. ASSUME NEW q \in Requests, CountIn(q) PROVE CountInv'
    <2>1. /\ pc[q] = "count" /\ httpInflight' = httpInflight + 1
          /\ To(q, IF OverLimit THEN "refuse" ELSE "path")
      BY <1>2 DEF CountIn
    <2>2. /\ pc'[q] = (IF OverLimit THEN "refuse" ELSE "path")
          /\ \A p \in Requests : p # q => pc'[p] = pc[p]
      BY <2>1 DEF To, GatewayTypes
    <2>3. Counted' = Counted \cup {q} /\ q \notin Counted
      BY <2>1, <2>2 DEF Counted, Admitted
    <2>4. Cardinality(Counted') = Cardinality(Counted) + 1
      BY <2>3, CountSets, FS_AddElement
    <2>5. httpInflight' = Cardinality(Counted')
      BY <2>1, <2>4 DEF CountInv
    <2>6. Cardinality(Admitted') <= HTTPMaxInflight
      <3>1. CASE OverLimit
        <4>1. Admitted' = Admitted
          BY <2>1, <2>2, <3>1 DEF Admitted
        <4> QED BY <4>1 DEF CountInv
      <3>2. CASE ~OverLimit
        <4>1. Cardinality(Counted) \in Nat /\ httpInflight = Cardinality(Counted)
          BY CountSets DEF CountInv
        <4>2. Admitted' \subseteq Counted' /\ IsFiniteSet(Counted')
          BY <2>3, CountSets, FS_AddElement DEF Counted
        <4>3. IsFiniteSet(Admitted') /\ Cardinality(Admitted') <= Cardinality(Counted')
          BY <4>2, FS_Subset
        <4>4. Cardinality(Admitted') \in Nat
          BY <4>3, FS_CardinalityType
        <4>5. ~(Cardinality(Counted) + 1 > HTTPMaxInflight)
          BY <3>2, <4>1 DEF OverLimit
        <4> QED BY <1>0, <2>4, <4>1, <4>3, <4>4, <4>5
      <3> QED BY <3>1, <3>2
    <2> QED BY <2>5, <2>6 DEF CountInv
  <1>3. ASSUME NEW q \in Requests, Refuse(q) \/ Uncount(q) PROVE CountInv'
    <2>1. pc[q] \in {"refuse", "uncount"} /\ httpInflight' = httpInflight - 1 /\ To(q, "done")
      BY <1>3 DEF Refuse, Uncount, GivenBack
    <2>2. pc'[q] = "done" /\ \A p \in Requests : p # q => pc'[p] = pc[p]
      BY <2>1 DEF To, GatewayTypes
    <2>3. Counted' = Counted \ {q} /\ q \in Counted /\ Admitted' \subseteq Admitted
      BY <2>1, <2>2 DEF Counted, Admitted
    <2>4. Cardinality(Counted') = Cardinality(Counted) - 1
      BY <2>3, CountSets, FS_RemoveElement
    <2>5. httpInflight' = Cardinality(Counted')
      BY <2>1, <2>4 DEF CountInv
    <2>6. IsFiniteSet(Admitted)
      BY CountSets, FS_Subset DEF Counted
    <2>7. IsFiniteSet(Admitted') /\ Cardinality(Admitted') <= Cardinality(Admitted)
      BY <2>3, <2>6, FS_Subset
    <2>8. Cardinality(Admitted) \in Nat /\ Cardinality(Admitted') \in Nat
      BY <2>6, <2>7, FS_CardinalityType
    <2>9. Cardinality(Admitted') <= HTTPMaxInflight
      BY <1>0, <2>7, <2>8 DEF CountInv
    <2> QED BY <2>5, <2>9 DEF CountInv
  <1> QED BY <1>1, <1>2, <1>3, CountKinds

-------------------------------------------------------------------------------
(* The calls.                                                              *)

WaitingStages == {"pop", "blocked", "release"}
OpenCalls == route \cup waits \cup stranded

\* A step of a request that leaves the calls and the peers alone: it goes on waiting,
\* or did not wait before.
LEMMA WaitMoves ==
  ASSUME GatewayTypes, RouteInv, NEW q \in Requests, NEW s, To(q, s),
         s \in WaitingStages \/ pc[q] \notin WaitingStages, s \in PeerStages => q \in peers',
         UNCHANGED <<route, waits, stranded>>, peers \subseteq peers'
  PROVE  NoOrphanCall' /\ \A p \in Requests : pc'[p] \in PeerStages => p \in peers'
  <1>1. pc'[q] = s /\ \A p \in Requests : p # q => pc'[p] = pc[p]
    BY DEF To, GatewayTypes
  <1>2. \A p \in OpenCalls : p \in Requests /\ pc[p] \in WaitingStages
    BY DEF RouteInv, NoOrphanCall, GatewayTypes, WaitingStages, OpenCalls
  <1>3. NoOrphanCall'
    BY <1>1, <1>2 DEF NoOrphanCall, WaitingStages, OpenCalls
  <1> QED BY <1>1, <1>3 DEF RouteInv

LEMMA RouteStep ==
  ASSUME GatewayTypes, RouteInv, [Next]_vars
  PROVE  RouteInv'
  <1>s. ASSUME UNCHANGED <<pc, closed, close, peers>>, (route \cup waits \cup stranded)' \subseteq route \cup waits \cup stranded
        PROVE  RouteInv'
    BY <1>s DEF RouteInv, NoOrphanCall
  <1>m. ASSUME NEW q \in Requests, NEW s, To(q, s), s \in WaitingStages \/ pc[q] \notin WaitingStages,
               s \in PeerStages => q \in peers, UNCHANGED <<closed, close, route, waits, stranded, peers>>
        PROVE  RouteInv'
    <2>1. NoOrphanCall' /\ \A p \in Requests : pc'[p] \in PeerStages => p \in peers'
      BY <1>m, WaitMoves
    <2> QED BY <1>m, <2>1 DEF RouteInv
  <1>1. ASSUME NEW q \in Requests,
               Answer(q) \/ Deadline(q) \/ ClientGone(q) \/ SharedAnswer(q) \/ FirstCallerLeaves(q)
        PROVE  RouteInv'
    BY <1>1, <1>s DEF Answer, Deadline, ClientGone, SharedAnswer, FirstCallerLeaves, request, router
  <1>2. CASE Reregister \/ Invalidate
    BY <1>2, <1>s DEF Reregister, FailRoutes, Invalidate, request
  <1>3. CASE CloseBegins \/ CloseCancels \/ CloseDone
    BY <1>3 DEF CloseBegins, FailRoutes, CloseCancels, CloseDone, request, call, RouteInv, NoOrphanCall
  <1>4. CASE UNCHANGED vars
    BY <1>4, <1>s DEF vars, request, call, router
  <1>5. ASSUME NEW q \in Requests, Arrive(q) \/ CountIn(q) \/ Refuse(q) \/ Uncount(q) PROVE RouteInv'
    BY <1>5, <1>m DEF Arrive, CountIn, Refuse, Uncount, WaitingStages, PeerStages, call, router
  <1>6. ASSUME NEW q \in Requests, CheckPath(q) \/ CheckAuth(q) \/ CheckBody(q) \/ OpenFrame(q)
        PROVE  RouteInv'
    BY <1>6, <1>m DEF CheckPath, CheckAuth, CheckBody, OpenFrame, Check, WaitingStages, PeerStages,
       call, router
  <1>7. ASSUME NEW q \in Requests, LookUp(q) PROVE RouteInv'
    BY <1>7, <1>m DEF LookUp, WaitingStages, PeerStages, call, router
  <1>8. ASSUME NEW q \in Requests, Pop(q) \/ Wake(q) \/ ContextEnds(q) PROVE RouteInv'
    <2>1. q \in peers
      BY <1>8 DEF Pop, Wake, ContextEnds, PeerStages, RouteInv
    <2> QED BY <1>8, <1>m, <2>1 DEF Pop, Wake, ContextEnds, WaitingStages, call, router
  <1>9. ASSUME NEW q \in Requests, VirtualClient(q) PROVE RouteInv'
    <2>1. /\ pc[q] = "peer" /\ UNCHANGED <<closed, close, route, waits, stranded>>
          /\ \/ To(q, "forward") /\ peers' = peers \cup {q} /\ ~closed
             \/ To(q, "uncount") /\ UNCHANGED peers
      BY <1>9 DEF VirtualClient, MayEnter, call
    <2>2. NoOrphanCall' /\ \A p \in Requests : pc'[p] \in PeerStages => p \in peers'
      <3>1. CASE To(q, "forward") /\ peers' = peers \cup {q}
        BY <2>1, <3>1, WaitMoves DEF WaitingStages, PeerStages
      <3>2. CASE To(q, "uncount") /\ UNCHANGED peers
        BY <2>1, <3>2, WaitMoves DEF WaitingStages, PeerStages
      <3> QED BY <2>1, <3>1, <3>2
    <2> QED BY <2>1, <2>2 DEF RouteInv
  <1>10. ASSUME NEW q \in Requests, Forward(q) PROVE RouteInv'
    <2>1. /\ pc[q] = "forward" /\ To(q, "pop") /\ UNCHANGED <<closed, close, peers, stranded>>
          /\ route' \subseteq route \cup {q} /\ waits' \subseteq waits \cup {q}
      BY <1>10 DEF Forward, router
    <2>2. pc'[q] = "pop" /\ \A p \in Requests : p # q => pc'[p] = pc[p]
      BY <2>1 DEF To, GatewayTypes
    <2>3. NoOrphanCall'
      BY <2>1, <2>2 DEF RouteInv, NoOrphanCall, GatewayTypes
    <2>4. \A p \in Requests : pc'[p] \in PeerStages => p \in peers'
      BY <2>1, <2>2 DEF RouteInv, PeerStages
    <2> QED BY <2>1, <2>3, <2>4 DEF RouteInv
  <1>11. ASSUME NEW q \in Requests, Release(q) PROVE RouteInv'
    <2>1. /\ To(q, "uncount") /\ UNCHANGED <<closed, close>>
          /\ route' = route \ {q} /\ waits' = waits \ {q} /\ stranded' = stranded \ {q}
          /\ peers' = peers \ {q}
      BY <1>11 DEF Release, Cancels
    <2>2. pc'[q] = "uncount" /\ \A p \in Requests : p # q => pc'[p] = pc[p]
      BY <2>1 DEF To, GatewayTypes
    <2>3. NoOrphanCall'
      BY <2>1, <2>2 DEF RouteInv, NoOrphanCall, GatewayTypes
    <2>4. \A p \in Requests : pc'[p] \in PeerStages => p \in peers'
      BY <2>1, <2>2 DEF RouteInv, PeerStages
    <2> QED BY <2>1, <2>3, <2>4 DEF RouteInv
  <1> QED BY <1>1, <1>2, <1>3, <1>4, <1>5, <1>6, <1>7, <1>8, <1>9, <1>10, <1>11 DEF Next, Serve

-------------------------------------------------------------------------------
\* However requests, their clients, deadlines, revoked credentials and Close
\* interleave: no more requests are past the limit than it says and each gives
\* its place back, a call (its own, or one it joined) never outlives the request that
\* opened it, and once Close has returned neither a request nor a call is inside the
\* Router.
THEOREM GatewayCorrect ==
  ASSUME GatewayAssumption
  PROVE  Spec => []RequestsAccounted
  <1>1. ASSUME Init PROVE GatewayTypes /\ CountInv /\ RouteInv
    <2>1. Admitted = {} /\ Counted = {}
      BY <1>1 DEF Init, Admitted, Counted
    <2>2. Cardinality({}) = 0
      BY FS_EmptySet
    <2>3. CountInv
      BY <1>1, <2>1, <2>2 DEF Init, CountInv, GatewayAssumption
    <2>4. RouteInv
      BY <1>1 DEF Init, RouteInv, NoOrphanCall, PeerStages
    <2> QED BY <1>1, <2>3, <2>4, GatewayTypesInit
  <1>2. GatewayTypes /\ CountInv /\ RouteInv /\ [Next]_vars => (GatewayTypes /\ CountInv /\ RouteInv)'
    BY GatewayTypesStep, CountStep, RouteStep
  <1>3. ASSUME GatewayTypes, CountInv, RouteInv PROVE RequestsAccounted
    <2>1. httpInflight \in 0 .. Cardinality(Requests)
      BY <1>3, CountSets DEF CountInv
    <2>2. TypeOK
      BY <1>3, <2>1 DEF GatewayTypes, TypeOK
    <2>3. AdmittedWithinLimit
      BY <1>3 DEF CountInv, AdmittedWithinLimit, Counted
    <2>4. NoOrphanCall /\ ClosedMeansQuiet
      BY <1>3 DEF RouteInv, NoOrphanCall, PeerStages, GatewayTypes, ClosedMeansQuiet
    <2> QED BY <2>2, <2>3, <2>4 DEF RequestsAccounted
  <1> QED BY <1>1, <1>2, <1>3, PTL DEF Spec

-------------------------------------------------------------------------------
(* The suite.                                                              *)

\* The part a behaviour is of keeps the invariant of its component.
SuiteInv ==
    /\ part = "link" => LinkInv
    /\ part = "call" => DuplexInv
    /\ part = "attempts" => AttemptsInv
    /\ part = "items" => ItemsInv
    /\ part = "lines" => LinesInv

\* The invariants hold at the beginning, and every step keeps them.
LEMMA SuiteInitially == SuiteInit => SuiteInv
  <1>1. SuiteInit =>
          /\ Link!Init /\ Call!Init /\ Attempts!Init /\ Streamed!Init /\ Posted!Init
    BY DEF SuiteInit
  <1> QED BY <1>1, Parameters, LinkInitially, DuplexInitially, AttemptsInitially,
             ItemsInitially, LinesInitially DEF SuiteInv

LEMMA SuiteInvStep == SuiteInv /\ [SuiteNext]_suiteVars => SuiteInv'
  <1> SUFFICES ASSUME SuiteInv, [SuiteNext]_suiteVars PROVE SuiteInv'
    OBVIOUS
  <1>p. part' = part
    BY DEF SuiteNext, suiteVars, LinkStep, CallStep, AttemptsStep, GatewayStep, StreamedStep,
           PostedStep
  <1>1. ASSUME part = "link" PROVE LinkInv'
    <2>1. LinkStep \/ UNCHANGED suiteVars
      BY <1>1 DEF SuiteNext, CallStep, AttemptsStep, GatewayStep, StreamedStep, PostedStep
    <2>2. [Link!Next]_Link!vars
      BY <2>1 DEF LinkStep, suiteVars, linkVars, Link!vars, Link!link, Link!ends, Link!call
    <2> QED BY <1>1, <2>2, Parameters, LinkInvStep DEF SuiteInv
  <1>2. ASSUME part = "call" PROVE DuplexInv'
    <2>1. CallStep \/ UNCHANGED suiteVars
      BY <1>2 DEF SuiteNext, LinkStep, AttemptsStep, GatewayStep, StreamedStep, PostedStep
    <2>2. [Call!Next]_Call!vars
      BY <2>1 DEF CallStep, suiteVars, callVars, Call!vars, Call!out, Call!inp, Call!app,
         Call!wires
    <2> QED BY <1>2, <2>2, Parameters, DuplexStep DEF SuiteInv
  <1>3. ASSUME part = "attempts" PROVE AttemptsInv'
    <2>1. AttemptsStep \/ UNCHANGED suiteVars
      BY <1>3 DEF SuiteNext, LinkStep, CallStep, GatewayStep, StreamedStep, PostedStep
    <2>2. [Attempts!Next]_Attempts!vars
      BY <2>1 DEF AttemptsStep, suiteVars, retryVars, Attempts!vars
    <2> QED BY <1>3, <2>2, Parameters, AttemptsInvStep DEF SuiteInv
  <1>4. ASSUME part = "items" PROVE ItemsInv'
    <2>1. StreamedStep \/ UNCHANGED suiteVars
      BY <1>4 DEF SuiteNext, LinkStep, CallStep, AttemptsStep, GatewayStep, PostedStep
    <2>2. [Streamed!Next]_Streamed!vars
      BY <2>1 DEF StreamedStep, suiteVars, itemsVars, Streamed!vars, Streamed!instance,
                  Streamed!handler, Streamed!client
    <2> QED BY <1>4, <2>2, Parameters, ItemsStep DEF SuiteInv
  <1>5. ASSUME part = "lines" PROVE LinesInv'
    <2>1. PostedStep \/ UNCHANGED suiteVars
      BY <1>5 DEF SuiteNext, LinkStep, CallStep, AttemptsStep, GatewayStep, StreamedStep
    <2>2. [Posted!Next]_Posted!vars
      BY <2>1 DEF PostedStep, suiteVars, linesVars, Posted!vars, Posted!instance, Posted!gateway
    <2> QED BY <1>5, <2>2, Parameters, LinesStep DEF SuiteInv
  <1> QED BY <1>p, <1>1, <1>2, <1>3, <1>4, <1>5 DEF SuiteInv

\* However callers, dials, readers that die and Close interleave: an open
\* connection is always the client's, one Close is closing, or the one its only
\* dialler is about to publish; a dial that failed has tried every endpoint, although
\* the reader of an older connection moves the cursor; and of the calls that ended
\* only an aborted one can stay in c.calls.
THEOREM ClientKeepsConnections == SuiteSpec => []ConnectionsKept
  <1>1. SuiteInv => ConnectionsKept
    BY Parameters, LinkInvMeans DEF SuiteInv, ConnectionsKept
  <1> QED BY <1>1, SuiteInitially, SuiteInvStep, PTL DEF SuiteSpec

\* Whatever the peer, the application, the reader and the timers do, and in any
\* order: a peer within its credit is never refused and one beyond it fills no
\* buffer, no wake-up is lost, an answer that was read is never reported as a lost
\* connection, and the idle timer is off once the call is over.  However attempts
\* end, those of a WebSocket call share its one deadline, and a call that is neither
\* idempotent nor keyed is sent once.
THEOREM ClientKeepsItsWord == SuiteSpec => []CallsKeepTheirWord
  <1>1. SuiteInv => CallsKeepTheirWord
    BY Parameters, DuplexInvMeans, AttemptsInvMeans DEF SuiteInv, CallsKeepTheirWord
  <1> QED BY <1>1, SuiteInitially, SuiteInvStep, PTL DEF SuiteSpec

\* For any credit and any number of items: a slow HTTP client makes the Router hold
\* no more than the credit, no item goes to an instance without credit it granted,
\* and an end is told after every item that was sent, and only of a stream that is
\* complete or that its own producer stopped early.
THEOREM HTTPStreamsComplete == SuiteSpec => []StreamsComplete
  <1>1. SuiteInv => StreamsComplete
    BY Parameters, ItemsInvMeans, LinesInvMeans DEF SuiteInv, StreamsComplete
  <1> QED BY <1>1, SuiteInitially, SuiteInvStep, PTL DEF SuiteSpec

===============================================================================

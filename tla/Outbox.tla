-------------------------------- MODULE Outbox --------------------------------
(***************************************************************************)
(* One connection's outbox, the goroutine that writes it to the peer, and   *)
(* the critical sections of the Router that fill it and that end calls.     *)
(*                                                                         *)
(* Three locks and channels meet here: outbox.mu (every queue operation is  *)
(* one action), the buffered channel outbox.ready that wakes the writer,    *)
(* and Router.mu, under which a call's last frame is queued and its slot is *)
(* given back, in either order.  RouterCore takes these two as one step;    *)
(* here they are two, and the writer runs between them.                     *)
(***************************************************************************)
EXTENDS Integers, Sequences, SequencesExt, FiniteSets

CONSTANTS
  CallID,        \* call ids, with the id of frames that belong to no call
  Connection,    \* that id: hello.ack, pong, server.drain.ack
  Size,          \* the encoded sizes of frames
  Overhead,      \* frameOverhead
  Limit,         \* --outbox-size
  MaxFrameSize,  \* --max-frame-size
  MaxFrames,     \* bound: how many frames are queued in a behaviour
  None

Calls == CallID \ {Connection}

\* Cancel, window, ping and pong are control frames; n, the number
\* of a frame within the call, tells frames apart.
Kinds == {"data", "control", "terminal"}
Frame == [call: CallID, kind: Kinds, size: Size, n: Nat]

ASSUME OutboxAssumption ==
  /\ Connection \in CallID
  /\ Size \subseteq Nat /\ Size # {}
  /\ Overhead \in Nat \ {0} /\ Limit \in Nat /\ MaxFrameSize \in Nat
  /\ MaxFrames \in Nat /\ IsFiniteSet(CallID)
  /\ None \notin Frame

VARIABLES
  queue,     \* outbox.calls: the queued frames of each call
  order,     \* outbox.order: the calls that have some, in turn
  bytes,     \* outbox.bytes
  closed,    \* outbox.closed
  ready,     \* a token is in outbox.ready
  ctx,       \* the connection's context: up or cancelled
  writer,    \* where writeLoop is: pop, check, wait, write, stopped
  current,   \* the frame being written
  stage,     \* the Router: running, draining, closed
  call,      \* call[c]: new, open, orphaned (joined to a call that is gone, its
             \* slot kept), ended (its slot has been given back)
  toQueue,   \* calls whose last frame the holder of Router.mu has yet to queue
  toEnd,     \* calls that the holder of Router.mu has yet to end
  owed,      \* history: the calls that got, or were to get, a last frame
  written,   \* history: written[c]: the frames of c that were written, in order
  accepted,  \* history: accepted[c]: the number of frames of c that were queued
  goneAway,  \* history: writeLoop closed a live connection with 1001
  passed     \* history: passed[d]: the calls whose data was taken while the
             \* frame at the head of d's queue waited there

outbox == <<queue, order, bytes, closed, accepted, passed>>
router == <<stage, call, toQueue, toEnd, owed>>
vars == <<outbox, ready, ctx, writer, current, router, written, goneAway>>

TypeOK ==
  /\ queue \in [CallID -> Seq(Frame)]
  /\ order \in Seq(CallID)
  /\ bytes \in Nat
  /\ closed \in BOOLEAN /\ ready \in BOOLEAN
  /\ ctx \in {"up", "cancelled"}
  /\ writer \in {"pop", "check", "wait", "write", "stopped"}
  /\ current \in Frame \cup {None}
  /\ stage \in {"running", "draining", "closed"}
  /\ call \in [Calls -> {"new", "open", "orphaned", "ended"}]
  /\ toQueue \subseteq Calls /\ toEnd \subseteq Calls /\ owed \subseteq Calls
  /\ written \in [CallID -> Seq(Frame)]
  /\ accepted \in [CallID -> Nat]
  /\ goneAway \in BOOLEAN
  /\ passed \in [CallID -> SUBSET CallID]

Empty == [c \in CallID |-> <<>>]

Init ==
  /\ queue = Empty /\ order = <<>> /\ bytes = 0
  /\ closed = FALSE /\ ready = FALSE /\ ctx = "up"
  /\ writer = "pop" /\ current = None
  /\ stage = "running"
  /\ call = [c \in Calls |-> "new"]
  /\ toQueue = {} /\ toEnd = {} /\ owed = {}
  /\ written = Empty /\ accepted = [c \in CallID |-> 0] /\ goneAway = FALSE
  /\ passed = [c \in CallID |-> {}]

-------------------------------------------------------------------------------
(* The queue.                                                              *)

Waiting == {c \in CallID : queue[c] # <<>>}
Cost(f) == f.size + Overhead

\* Mutant: the frame that is queued is not counted.
FitsBefore(f) == bytes = 0 \/ bytes <= Limit

\* An empty outbox takes any frame.
Fits(f) == bytes = 0 \/ bytes + Cost(f) <= Limit

\* Mutant: control frames go ahead of their call's other frames.
EnqueueByPriority(q, f) == IF f.kind = "control" THEN <<f>> \o q ELSE Append(q, f)

Enqueue(q, f) == Append(q, f)

\* Mutant: a frame is queued without a word to the writer.
SignalNever == UNCHANGED ready

Signal == ready' = TRUE

\* outbox.push: a frame that is accepted goes behind the others of its call and
\* leaves a token for the writer; peer.send disconnects a peer it is refused for.
Push(c, kind, size) ==
  LET f == [call |-> c, kind |-> kind, size |-> size, n |-> accepted[c] + 1]
  IN  /\ IF ~closed /\ Fits(f)
         THEN /\ queue' = [queue EXCEPT ![c] = Enqueue(@, f)]
              /\ order' = IF queue[c] = <<>> THEN Append(order, c) ELSE order
              /\ bytes' = bytes + Cost(f)
              /\ Signal
              /\ accepted' = [accepted EXCEPT ![c] = @ + 1]
              /\ UNCHANGED <<closed, ctx, passed>>
         ELSE /\ ctx' = "cancelled"
              /\ UNCHANGED <<outbox, ready>>

\* Bound: every call still gets its last frame.
Room == SumFunction(accepted) + Cardinality(Calls) < MaxFrames

Priority(f) == f.kind = "control"

\* Mutant: a call without frames keeps its place.
NextTurnAlways(c, rest) == Append(rest, c)

\* Mutant: the call at the front keeps its turn.
NextTurnStays(c, rest) == IF Len(queue[c]) > 1 THEN <<c>> \o rest ELSE rest

\* A call with more to send goes to the back.
NextTurn(c, rest) == IF Len(queue[c]) > 1 THEN Append(rest, c) ELSE rest

\* The first call in turn whose next frame is a control frame, or else the
\* first call.
Turn ==
  LET control == {i \in 1..Len(order) : Priority(Head(queue[order[i]]))}
  IN  IF control = {} THEN 1 ELSE Min(control)

-------------------------------------------------------------------------------
(* writeLoop.                                                              *)

\* outbox.pop.
Pop ==
  /\ writer = "pop"
  /\ IF order = <<>>
     THEN /\ writer' = "check"
          /\ UNCHANGED <<outbox, current>>
     ELSE LET c == order[Turn]
              f == Head(queue[c])
          IN  /\ writer' = "write"
              /\ current' = f
              /\ queue' = [queue EXCEPT ![c] = Tail(@)]
              /\ order' = NextTurn(c, RemoveAt(order, Turn))
              /\ bytes' = bytes - Cost(f)
              /\ passed' = [d \in CallID |->
                              IF d = c THEN {}
                              ELSE IF d \in Waiting /\ ~Priority(f) THEN passed[d] \cup {c}
                              ELSE passed[d]]
              /\ UNCHANGED <<closed, accepted>>
  /\ UNCHANGED <<ready, ctx, router, written, goneAway>>

\* The frame goes out, unless it is too large for the peer or the write fails.
Write ==
  /\ writer = "write"
  /\ \/ /\ current.size <= MaxFrameSize
        /\ written' = [written EXCEPT ![current.call] = Append(@, current)]
        /\ writer' = "pop"
        /\ UNCHANGED ctx
     \/ /\ ctx' = "cancelled"
        /\ writer' = "stopped"
        /\ UNCHANGED written
  /\ current' = None
  /\ UNCHANGED <<outbox, ready, router, goneAway>>

\* What the counters calls and inflight of the peer count.
Owing == {c \in Calls : call[c] \in {"open", "orphaned"}}

\* The calls with a route or a place at the entry of one.
Reached == {c \in Calls : call[c] = "open"}
MuFree == toQueue = {} /\ toEnd = {}

\* Mutant: the counters are read without Router.mu.
GoingAwayUnlocked == (stage = "closed" \/ Owing = {}) /\ order = <<>>

\* goingAway of a stopping Router, which takes Router.mu.
GoingAway == MuFree /\ (stage = "closed" \/ Owing = {}) /\ order = <<>>

Check ==
  /\ writer = "check"
  /\ \/ /\ stage = "running"
        /\ writer' = "wait"
        /\ UNCHANGED <<ctx, goneAway>>
     \/ /\ stage # "running" /\ GoingAway
        /\ writer' = "stopped"
        /\ ctx' = "cancelled"
        /\ goneAway' = (ctx = "up")
     \/ /\ stage # "running" /\ MuFree /\ ~GoingAway
        /\ writer' = "wait"
        /\ UNCHANGED <<ctx, goneAway>>
  /\ UNCHANGED <<outbox, ready, current, router, written>>

Wait ==
  /\ writer = "wait"
  /\ \/ ready /\ ready' = FALSE /\ writer' = "pop"
     \/ ctx = "cancelled" /\ writer' = "stopped" /\ UNCHANGED ready
  /\ UNCHANGED <<outbox, ctx, current, router, written, goneAway>>

-------------------------------------------------------------------------------
(* The reader of the connection.                                           *)

\* It answers pings, and acknowledges server.drain, without Router.mu.
ReaderSend(kind, size) ==
  /\ ctx = "up" /\ Room
  /\ Push(Connection, kind, size)
  /\ UNCHANGED <<writer, current, router, written, goneAway>>

\* A read fails or times out.
ReadFails ==
  /\ ctx = "up"
  /\ ctx' = "cancelled"
  /\ UNCHANGED <<outbox, ready, writer, current, router, written, goneAway>>

\* Mutant: the frames are kept.
CloseOutboxKeepsFrames ==
  /\ ctx = "cancelled" /\ ~closed
  /\ bytes' = 0
  /\ closed' = TRUE
  /\ UNCHANGED <<queue, order, accepted, passed, ready, ctx, writer, current, router,
                 written, goneAway>>

\* handle's deferred function closes the outbox before it waits for the writer.
CloseOutbox ==
  /\ ctx = "cancelled" /\ ~closed
  /\ queue' = Empty /\ order' = <<>> /\ bytes' = 0
  /\ closed' = TRUE
  /\ UNCHANGED <<accepted, passed, ready, ctx, writer, current, router, written, goneAway>>

-------------------------------------------------------------------------------
(* Critical sections of the Router.                                        *)

\* forward of a call.open: the peer is the client, which is sent nothing, or
\* the instance, which is sent the frame.
OpenCall(c) ==
  /\ MuFree /\ stage = "running" /\ call[c] = "new"
  /\ call' = [call EXCEPT ![c] = "open"]
  /\ UNCHANGED <<stage, toQueue, toEnd, owed, writer, current, written, goneAway>>
  /\ \/ UNCHANGED <<outbox, ready, ctx>>
     \/ Room /\ \E size \in Size : Push(c, "data", size)

\* forward of a call.open that is refused, at any stage: the caller is answered
\* at once and no slot was taken.
RefuseCall(c, size) ==
  /\ MuFree /\ call[c] = "new"
  /\ call' = [call EXCEPT ![c] = "ended"]
  /\ Push(c, "terminal", size)
  /\ UNCHANGED <<stage, toQueue, toEnd, owed, writer, current, written, goneAway>>

\* forward of a frame of an open call.
Forward(c, kind, size) ==
  /\ MuFree /\ call[c] = "open" /\ Room
  /\ Push(c, kind, size)
  /\ UNCHANGED <<writer, current, router, written, goneAway>>

\* A call ends: answered tells whether this peer gets a last frame for it.
BeginEnd(c, answered) ==
  /\ MuFree /\ call[c] = "open"
  /\ toEnd' = {c}
  /\ toQueue' = IF answered THEN {c} ELSE {}
  /\ owed' = owed \cup toQueue'
  /\ UNCHANGED <<outbox, ready, ctx, writer, current, stage, call, written, goneAway>>

\* The first caller of an idempotent call cancels it or is lost: the route ends, and
\* a call of this peer that joined it, and was sent nothing, is left with its slot.
Abandon(c) ==
  /\ MuFree /\ call[c] = "open" /\ accepted[c] = 0
  /\ call' = [call EXCEPT ![c] = "orphaned"]
  /\ UNCHANGED <<outbox, ready, ctx, writer, current, stage, toQueue, toEnd, owed,
                 written, goneAway>>

\* The last frame is queued before the slot is given back (forward, expireLoop,
\* Close) or after it (remove).
QueueLast(c, size) ==
  /\ c \in toQueue
  /\ Push(c, "terminal", size)
  /\ toQueue' = toQueue \ {c}
  /\ UNCHANGED <<stage, call, toEnd, owed, writer, current, written, goneAway>>

\* Mutant: only the Router's own stop wakes the writers.
WakeNever == UNCHANGED ready

\* endRoute and callEnded wake the writer of a stopping Router.
WakeIfStopping == ready' = (ready \/ stage # "running")

EndCall(c) ==
  /\ c \in toEnd
  /\ toEnd' = toEnd \ {c}
  /\ call' = [call EXCEPT ![c] = "ended"]
  /\ WakeIfStopping
  /\ UNCHANGED <<outbox, ctx, writer, current, stage, toQueue, owed, written, goneAway>>

\* Mutant: the writers are not woken.
ShutdownQuietly ==
  /\ MuFree /\ stage = "running"
  /\ stage' = "draining"
  /\ UNCHANGED <<outbox, ready, ctx, writer, current, call, toQueue, toEnd, owed,
                 written, goneAway>>

\* startDraining wakes every writer, once.
Shutdown ==
  /\ MuFree /\ stage = "running"
  /\ stage' = "draining"
  /\ ready' = TRUE
  /\ UNCHANGED <<outbox, ctx, writer, current, call, toQueue, toEnd, owed, written, goneAway>>

\* Close ends every call that it finds by a route, those joined to it included, in
\* one critical section; startDraining wakes nobody a second time.
Close ==
  /\ MuFree /\ stage # "closed"
  /\ stage' = "closed"
  /\ ready' = (ready \/ stage = "running")
  /\ toQueue' = Reached /\ toEnd' = Reached /\ owed' = owed \cup Reached
  /\ UNCHANGED <<outbox, ctx, writer, current, call, written, goneAway>>

-------------------------------------------------------------------------------

Writer == Pop \/ Write \/ Check \/ Wait
InSection == \E c \in Calls : EndCall(c) \/ \E size \in Size : QueueLast(c, size)

Next ==
  \/ Pop \/ Write \/ Check \/ Wait
  \/ \E size \in Size, kind \in {"data", "control"} : ReaderSend(kind, size)
  \/ ReadFails \/ CloseOutbox
  \/ \E c \in Calls : OpenCall(c)
  \/ \E c \in Calls, size \in Size : RefuseCall(c, size)
  \/ \E c \in Calls, size \in Size, kind \in {"data", "control"} : Forward(c, kind, size)
  \/ \E c \in Calls, answered \in BOOLEAN : BeginEnd(c, answered)
  \/ \E c \in Calls, size \in Size : QueueLast(c, size)
  \/ \E c \in Calls : EndCall(c) \/ Abandon(c)
  \/ Shutdown \/ Close

Spec == Init /\ [][Next]_vars

\* The writer goroutine runs, and a critical section is left again.
FairSpec == Spec /\ WF_vars(Writer) /\ WF_vars(InSection)

-------------------------------------------------------------------------------
(* Properties.                                                             *)

\* The queued frames, and what they cost, unit by unit.
Queued == UNION {ToSet(queue[c]) : c \in CallID}
CostUnits == UNION {{f} \X (1..Cost(f)) : f \in Queued}

\* The three representations of the queue agree, which push, pop and close
\* maintain separately: order names exactly the calls that have frames, each
\* once (pop indexes calls by it and would panic otherwise), and bytes is what
\* the queued frames cost.
QueueConsistent ==
  /\ ToSet(order) = Waiting /\ Len(order) = Cardinality(Waiting)
  /\ bytes = Cardinality(CostUnits)

\* The Router never holds more for a peer than --outbox-size, except for one
\* frame that alone is larger.
MemoryBounded ==
  bytes > Limit => \E c \in CallID : Waiting = {c} /\ Len(queue[c]) = 1

\* No wake-up is lost: a writer that sleeps without a token has nothing to
\* write, and has no reason to close the connection either, although push,
\* endRoute, callEnded and startDraining race with its look at the queue.  The
\* one writer that sleeps on in a closed Router is that of a peer with orphaned
\* calls and no other, whom Close does not find: it ends with the grace period.
NoLostWakeup ==
  (writer = "wait" /\ ~ready) =>
    /\ order = <<>>
    /\ MuFree => \/ stage = "running"
                 \/ stage = "draining" /\ Owing # {}
                 \/ stage = "closed" /\ Owing # {} /\ Reached = {}

\* A stopping Router closes a live connection only after it has written the
\* last frame of every call that the peer was owed one for, although the slot
\* may be given back before that frame is queued.  No call that has a route, or
\* waits for one, is left unanswered; an orphaned one is, and only by Close: a
\* draining Router still waits for it.
AnsweredBeforeGoingAway ==
  goneAway => /\ Reached = {}
              /\ Owing # {} => stage = "closed"
              /\ \A c \in owed : \E f \in ToSet(written[c]) : f.kind = "terminal"

\* Round robin: while a call waits for its turn, no other call is given two
\* turns for data, so a stream with many queued items cannot keep the
\* connection to itself.
NoMonopoly ==
  [][\A c \in Waiting :
       (accepted' = accepted /\ Len(queue'[c]) < Len(queue[c]) /\ ~closed' /\ ~Priority(Head(queue[c])))
         => \A d \in Waiting \ {c} : c \notin passed[d]]_vars

\* A frame that is queued is written, unless the connection breaks.
FramesGetWritten == (order # <<>>) ~> (order = <<>> \/ ctx = "cancelled")

\* A stopping Router that owes the peer nothing closes the connection.
IdlePeersGoAway ==
  (stage # "running" /\ Owing = {}) ~> (writer = "stopped")

\* The outbox and its writer implement a FIFO channel per call.
Up == ~closed /\ writer # "stopped"
InWriter(c) == IF writer = "write" /\ current.call = c THEN <<current>> ELSE <<>>
Channels == INSTANCE CallChannels WITH
  chan <- [c \in CallID |-> IF Up THEN InWriter(c) \o queue[c] ELSE InWriter(c)],
  got <- written,
  up <- Up
FIFOPerCall == Channels!CSpec
===============================================================================

------------------------------ MODULE ClientLink ------------------------------
(***************************************************************************)
(* The connection of the Go SDK's client (src/meshcall-go/client.go): the  *)
(* callers that share it and dial it on demand, the reader of each         *)
(* connection, Close, and the timers and contexts that abort a call.  Each *)
(* critical section of clientState.mu, and each frame sent, is one step.   *)
(* What travels inside an open call is the business of module ClientCall.  *)
(***************************************************************************)
EXTENDS Naturals, Sequences

CONSTANTS
    Calls,        \* callers, one call each
    Bounded,      \* those with a timeout or a context that may end
    N,            \* number of endpoints of the client
    MaxConns,     \* bound: connections ever made
    MaxPasses,    \* ReconnectPolicy.MaxAttempts
    MaxCloses     \* bound: calls of Client.Close

\* What is assumed of the constants, wherever they are given.
LinkAssumption ==
    Bounded \subseteq Calls /\ N \in Nat \ {0} /\ MaxConns \in Nat /\ MaxPasses \in Nat /\ MaxCloses \in Nat

Conns == 1..MaxConns

VARIABLES
    conn, cursor, everConnected, connecting, closed, calls,   \* clientState
    up,        \* conn.ctx of each connection
    reader,    \* progress of each readLoop
    snap,      \* the calls a failAll still has to fail, by reader; 0 is Close
    closer,    \* progress of Close: [at, conn, runs]
    pc, on,    \* progress of each caller and the connection it got
    dial,      \* connectWithBackoff of the dialling caller
    failure, queued, outcome,   \* clientCall.failure, its queue, what is returned
    abort,     \* progress of the goroutine of a timer or a context
    wire       \* the frames of the call that reached the peer

link == <<conn, cursor, everConnected, connecting, closed>>
ends == <<up, reader, closer>>
call == <<failure, queued, outcome>>
vars == <<link, calls, ends, snap, pc, on, dial, call, abort, wire>>

Stages == {"ask", "dialing", "passed", "dialed", "published", "have", "timed",
           "registered", "waiting", "ended"}
Errors == {"lost", "closed", "aborted", "unsent"}

NoDial == [offset |-> 0, passes |-> 0, retry |-> FALSE, tried |-> {}]

TypeOK ==
    /\ conn \in 0..MaxConns /\ cursor \in 0..(N - 1)
    /\ everConnected \in BOOLEAN /\ connecting \in BOOLEAN /\ closed \in BOOLEAN
    /\ calls \subseteq Calls
    /\ up \in [Conns -> {"unmade", "open", "closed"}]
    /\ reader \in [Conns -> {"none", "reading", "lost", "failing"}]
    /\ snap \in [0..MaxConns -> SUBSET Calls]
    /\ closer \in [at : {"idle", "closing", "snapshot", "failing"},
                   conn : 0..MaxConns, runs : 0..MaxCloses]
    /\ pc \in [Calls -> Stages] /\ on \in [Calls -> 0..MaxConns]
    /\ dial \in [Calls -> [offset : 0..N, passes : 0..MaxPasses,
                           retry : BOOLEAN, tried : SUBSET (0..(N - 1))]]
    /\ failure \in [Calls -> Errors \cup {"none"}] /\ queued \in [Calls -> BOOLEAN]
    /\ outcome \in [Calls -> Errors \cup {"none", "answered", "refused", "cancelled"}]
    /\ abort \in [Calls -> {"idle", "checked", "telling", "over"}]
    /\ \A c \in Calls : wire[c] \in Seq({"open", "cancel"})

Init ==
    /\ conn = 0 /\ cursor = 0
    /\ everConnected = FALSE /\ connecting = FALSE /\ closed = FALSE
    /\ calls = {}
    /\ up = [k \in Conns |-> "unmade"] /\ reader = [k \in Conns |-> "none"]
    /\ snap = [k \in 0..MaxConns |-> {}]
    /\ closer = [at |-> "idle", conn |-> 0, runs |-> 0]
    /\ pc = [c \in Calls |-> "ask"] /\ on = [c \in Calls |-> 0]
    /\ dial = [c \in Calls |-> NoDial]
    /\ failure = [c \in Calls |-> "none"] /\ queued = [c \in Calls |-> FALSE]
    /\ outcome = [c \in Calls |-> "none"]
    /\ abort = [c \in Calls |-> "idle"] /\ wire = [c \in Calls |-> <<>>]

-------------------------------------------------------------------------------
(* clientCall.fail with clientCall.done: the first failure of a call that   *)
(* has no answer queued is recorded, and the call leaves c.calls.           *)
Fail(c, e) ==
    IF failure[c] # "none" \/ queued[c]
    THEN UNCHANGED <<failure, calls>>
    ELSE /\ failure' = [failure EXCEPT ![c] = e]
         /\ calls' = calls \ {c}

\* What reaches the peer of frame f: conn.send fails once the connection is closed.
Sent(c, f) == IF up[on[c]] = "open" THEN [wire EXCEPT ![c] = Append(@, f)] ELSE wire

Ended(c, o) ==
    /\ pc' = [pc EXCEPT ![c] = "ended"]
    /\ outcome' = [outcome EXCEPT ![c] = o]

-------------------------------------------------------------------------------
(* Client.connection *)

\* The connection is there.
UseConn(c) ==
    /\ pc[c] = "ask" /\ conn # 0
    /\ pc' = [pc EXCEPT ![c] = "have"] /\ on' = [on EXCEPT ![c] = conn]
    /\ UNCHANGED <<link, calls, ends, snap, dial, call, abort, wire>>

\* The context ends while another caller dials.
WaitGivesUp(c) ==
    /\ c \in Bounded /\ pc[c] = "ask" /\ conn = 0 /\ connecting
    /\ Ended(c, "cancelled")
    /\ UNCHANGED <<link, calls, ends, snap, on, dial, failure, queued, abort, wire>>

\* Mutant: a caller that finds another one dialling dials too.
AnyoneDials == conn = 0

MayDial == conn = 0 /\ ~connecting

\* Nobody dials: this caller does.
BeginDial(c) ==
    /\ pc[c] = "ask" /\ MayDial
    /\ closed' = FALSE /\ connecting' = TRUE
    /\ pc' = [pc EXCEPT ![c] = "dialing"]
    /\ dial' = [dial EXCEPT ![c] =
                  [NoDial EXCEPT !.retry = everConnected]]
    /\ UNCHANGED <<conn, cursor, everConnected, calls, ends, snap, on, call, abort, wire>>

\* connectAny: the endpoint of this iteration.
Index(c) == (cursor + dial[c].offset) % N

Unmade == {k \in Conns : up[k] = "unmade"}

\* handshake with the endpoint succeeds: it is the new cursor.
HandshakeSucceeds(c) ==
    /\ pc[c] = "dialing" /\ Unmade # {}
    /\ LET k == CHOOSE k \in Unmade : \A other \in Unmade : k <= other IN
         /\ up' = [up EXCEPT ![k] = "open"]
         /\ on' = [on EXCEPT ![c] = k]
    /\ cursor' = Index(c) /\ dial' = [dial EXCEPT ![c] = NoDial]
    /\ pc' = [pc EXCEPT ![c] = "dialed"]
    /\ UNCHANGED <<conn, everConnected, connecting, closed, calls, reader, closer, snap,
                   call, abort, wire>>

\* It fails: the next endpoint, or the end of the pass.
HandshakeFails(c) ==
    /\ pc[c] = "dialing"
    /\ dial' = [dial EXCEPT ![c].offset = @ + 1, ![c].tried = @ \cup {Index(c)}]
    /\ pc' = [pc EXCEPT ![c] = IF dial[c].offset + 1 = N THEN "passed" ELSE "dialing"]
    /\ UNCHANGED <<link, calls, ends, snap, on, call, abort, wire>>

\* connectWithBackoff sleeps and makes another pass.
NextPass(c) ==
    /\ pc[c] = "passed" /\ dial[c].retry /\ dial[c].passes < MaxPasses
    /\ dial' = [dial EXCEPT ![c].offset = 0, ![c].tried = {}, ![c].passes = @ + 1]
    /\ pc' = [pc EXCEPT ![c] = "dialing"]
    /\ UNCHANGED <<link, calls, ends, snap, on, call, abort, wire>>

CloseConnecting == connecting' = FALSE

\* No pass is left, or the context ended during the sleep: the dial is over.
DialFails(c) ==
    /\ pc[c] = "passed"
    /\ \/ ~(dial[c].retry /\ dial[c].passes < MaxPasses) /\ Ended(c, "refused")
       \/ c \in Bounded /\ dial[c].retry /\ dial[c].passes < MaxPasses /\ Ended(c, "cancelled")
    /\ CloseConnecting /\ dial' = [dial EXCEPT ![c] = NoDial]
    /\ UNCHANGED <<conn, cursor, everConnected, closed, calls, ends, snap, on,
                   failure, queued, abort, wire>>

\* The dialled connection becomes the client's, whatever happened meanwhile.
Publish(c) ==
    /\ pc[c] = "dialed"
    /\ CloseConnecting /\ conn' = on[c] /\ everConnected' = TRUE
    /\ pc' = [pc EXCEPT ![c] = "published"]
    /\ UNCHANGED <<cursor, closed, calls, ends, snap, on, dial, call, abort, wire>>

\* Then its readLoop and keepAlive are started.
StartReader(c) ==
    /\ pc[c] = "published"
    /\ reader' = [reader EXCEPT ![on[c]] = "reading"]
    /\ pc' = [pc EXCEPT ![c] = "have"]
    /\ UNCHANGED <<link, calls, up, closer, snap, on, dial, call, abort, wire>>

-------------------------------------------------------------------------------
(* Client.open *)

\* The timer of the call is armed before the call is known to the client.
ArmTimer(c) ==
    /\ pc[c] = "have"
    /\ pc' = [pc EXCEPT ![c] = "timed"]
    /\ UNCHANGED <<link, calls, ends, snap, on, dial, call, abort, wire>>

Register(c) ==
    /\ pc[c] = "timed"
    /\ calls' = calls \cup {c}
    /\ pc' = [pc EXCEPT ![c] = "registered"]
    /\ UNCHANGED <<link, ends, snap, on, dial, call, abort, wire>>

SendOpen(c) ==
    /\ pc[c] = "registered" /\ up[on[c]] = "open"
    /\ wire' = Sent(c, "open")
    /\ pc' = [pc EXCEPT ![c] = "waiting"]
    /\ UNCHANGED <<link, calls, ends, snap, on, dial, call, abort>>

\* The send fails: on a closed connection, or for a frame over the limit.
OpenFails(c) ==
    /\ pc[c] = "registered"
    /\ Fail(c, "unsent") /\ Ended(c, failure'[c])
    /\ UNCHANGED <<link, ends, snap, on, dial, queued, abort, wire>>

\* clientCall.result: a queued frame before a failure.
Return(c) ==
    /\ pc[c] = "waiting" /\ (queued[c] \/ failure[c] # "none")
    /\ Ended(c, IF queued[c] THEN "answered" ELSE failure[c])
    /\ UNCHANGED <<link, calls, ends, snap, on, dial, failure, queued, abort, wire>>

-------------------------------------------------------------------------------
(* The reader of a connection, its end, and failAll *)

\* The answer of an opened call arrives and finds it in c.calls.
Deliver(k, c) ==
    /\ reader[k] = "reading" /\ up[k] = "open"
    /\ c \in calls /\ on[c] = k /\ "open" \in {wire[c][i] : i \in DOMAIN wire[c]}
    /\ queued' = [queued EXCEPT ![c] = TRUE]
    /\ calls' = calls \ {c}
    /\ UNCHANGED <<link, ends, snap, pc, on, dial, failure, outcome, abort, wire>>

\* The peer, the network or keepAlive ends the connection (conn.close).
Break(k) ==
    /\ up[k] = "open"
    /\ up' = [up EXCEPT ![k] = "closed"]
    /\ UNCHANGED <<link, calls, reader, closer, snap, pc, on, dial, call, abort, wire>>

CursorAfter(k) == IF conn = k THEN (cursor + 1) % N ELSE cursor

\* readLoop notices: the next dial starts from the following endpoint.
ReaderStops(k) ==
    /\ reader[k] = "reading" /\ up[k] = "closed"
    /\ conn' = (IF conn = k THEN 0 ELSE conn) /\ cursor' = CursorAfter(k)
    /\ reader' = [reader EXCEPT ![k] = "lost"]
    /\ UNCHANGED <<everConnected, connecting, closed, calls, up, closer, snap, pc, on,
                   dial, call, abort, wire>>

\* Mutant: failAll takes the calls of the client's present connection.
OfPresentConn(k) == {c \in calls : on[c] = conn}

OfConn(k) == {c \in calls : on[c] = k}

\* failAll(lost, conn) takes its snapshot ...
Snapshot(k) ==
    /\ reader[k] = "lost"
    /\ snap' = [snap EXCEPT ![k] = OfConn(k)]
    /\ reader' = [reader EXCEPT ![k] = "failing"]
    /\ UNCHANGED <<link, calls, up, closer, pc, on, dial, call, abort, wire>>

\* ... and fails its calls one by one.
FailOne(k, c) ==
    /\ reader[k] = "failing" /\ c \in snap[k]
    /\ Fail(c, "lost")
    /\ snap' = [snap EXCEPT ![k] = @ \ {c}]
    /\ UNCHANGED <<link, ends, pc, on, dial, queued, outcome, abort, wire>>

-------------------------------------------------------------------------------
(* Client.Close *)

CloseReturned == closer.at \in {"idle", "failing"} /\ snap[0] = {}

CloseBegins ==
    /\ CloseReturned /\ closer.runs < MaxCloses
    /\ closed' = TRUE /\ conn' = 0
    /\ closer' = [at |-> "closing", conn |-> conn, runs |-> closer.runs + 1]
    /\ UNCHANGED <<cursor, everConnected, connecting, calls, up, reader, snap, pc, on,
                   dial, call, abort, wire>>

CloseConn ==
    /\ closer.at = "closing"
    /\ up' = [k \in Conns |-> IF k = closer.conn THEN "closed" ELSE up[k]]
    /\ closer' = [closer EXCEPT !.at = "snapshot", !.conn = 0]
    /\ UNCHANGED <<link, calls, reader, snap, pc, on, dial, call, abort, wire>>

CloseSnapshot ==
    /\ closer.at = "snapshot"
    /\ snap' = [snap EXCEPT ![0] = calls]
    /\ closer' = [closer EXCEPT !.at = "failing"]
    /\ UNCHANGED <<link, calls, up, reader, pc, on, dial, call, abort, wire>>

CloseFails(c) ==
    /\ closer.at = "failing" /\ c \in snap[0]
    /\ Fail(c, "closed")
    /\ snap' = [snap EXCEPT ![0] = @ \ {c}]
    /\ UNCHANGED <<link, ends, pc, on, dial, queued, outcome, abort, wire>>

-------------------------------------------------------------------------------
(* clientCall.abort, from the timer as soon as it is armed or from the      *)
(* context once the call is registered.                                     *)

AbortBegins(c) ==
    /\ c \in Bounded /\ pc[c] \in {"timed", "registered", "waiting"} /\ abort[c] = "idle"
    /\ failure[c] = "none" /\ ~queued[c]
    /\ abort' = [abort EXCEPT ![c] = "checked"]
    /\ UNCHANGED <<link, calls, ends, snap, pc, on, dial, call, wire>>

AbortFails(c) ==
    /\ abort[c] = "checked"
    /\ Fail(c, "aborted")
    /\ abort' = [abort EXCEPT ![c] = "telling"]
    /\ UNCHANGED <<link, ends, snap, pc, on, dial, queued, outcome, wire>>

AbortTells(c) ==
    /\ abort[c] = "telling"
    /\ wire' = Sent(c, "cancel")
    /\ abort' = [abort EXCEPT ![c] = "over"]
    /\ UNCHANGED <<link, calls, ends, snap, pc, on, dial, call>>

-------------------------------------------------------------------------------
Asking(c) == UseConn(c) \/ BeginDial(c)
Dialling(c) == HandshakeSucceeds(c) \/ HandshakeFails(c) \/ NextPass(c) \/ DialFails(c)
               \/ Publish(c) \/ StartReader(c)
Opening(c) == ArmTimer(c) \/ Register(c) \/ SendOpen(c) \/ OpenFails(c) \/ Return(c)
Aborting(c) == AbortBegins(c) \/ AbortFails(c) \/ AbortTells(c)
ReaderStep(k) == ReaderStops(k) \/ Snapshot(k) \/ \E c \in Calls : FailOne(k, c)
Closing == CloseBegins \/ CloseConn \/ CloseSnapshot \/ \E c \in Calls : CloseFails(c)

Next ==
    \/ \E c \in Calls : Asking(c) \/ WaitGivesUp(c) \/ Dialling(c) \/ Opening(c) \/ Aborting(c)
    \/ \E k \in Conns : Break(k) \/ ReaderStep(k) \/ \E c \in Calls : Deliver(k, c)
    \/ Closing

(* The Go scheduler runs every goroutine that can go on; a handshake ends   *)
(* within HandshakeTimeout.  Nothing is assumed of answers, of timers, of   *)
(* contexts, nor of connections ending.                                     *)
Fairness ==
    /\ \A c \in Calls : WF_vars(Asking(c)) /\ WF_vars(Dialling(c)) /\ WF_vars(Opening(c))
    /\ \A k \in Conns : WF_vars(ReaderStep(k))

Spec == Init /\ [][Next]_vars /\ Fairness

-------------------------------------------------------------------------------
(* Properties *)

(* No connection is orphaned: an open connection is the client's own, one   *)
(* that Close is about to close, or the one the only dialling caller is     *)
(* about to publish.  Two dials at once would leave one that no Close and   *)
(* no call ever reaches (Client.connection's connecting channel).           *)
NoOrphanConnection ==
    \A k \in Conns : up[k] = "open" =>
        \/ k = conn
        \/ closer.at = "closing" /\ closer.conn = k
        \/ \E c \in Calls : pc[c] = "dialed" /\ on[c] = k

(* A pass of connectAny that failed tried every endpoint: the cursor it     *)
(* reads anew at every iteration does not move under it, although the       *)
(* reader of an older connection moves the cursor when it stops.            *)
EveryEndpointTried ==
    \A c \in Calls : pc[c] = "passed" => dial[c].tried = 0..(N - 1)

(* Only an aborted call can linger in c.calls after it ended: every other   *)
(* end of a call takes its entry away (clientCall.done).                    *)
OnlyAbortedCallsLinger ==
    \A c \in calls : pc[c] = "ended" => outcome[c] = "aborted"

(* A call that waits on a connection that died ends, although failAll walks *)
(* a snapshot of the calls and the call may have been opened after it.      *)
DeadCallsEnd ==
    \A c \in Calls : (pc[c] = "waiting" /\ up[on[c]] = "closed") ~> (pc[c] = "ended")

(* A caller that asks for the connection gets on: with the connection, by   *)
(* dialling itself, or with an error, whoever dials first and fails.        *)
CallersGetOn == \A c \in Calls : pc[c] = "ask" ~> pc[c] # "ask"

(* What the comment on Close says, "Close closes the connection": once it   *)
(* returned, and until a caller dials again, the client has none.           *)
ClosedMeansDisconnected == closed /\ CloseReturned => conn = 0

(* What the comment on abort says, "fails the call locally and tells the    *)
(* peer": the cancel is of use to the peer only after the open.             *)
CancelFollowsOpen == \A c \in Calls : wire[c] # <<"cancel", "open">>

===============================================================================

------------------------------ MODULE ClientCall ------------------------------
(***************************************************************************)
(* One open duplex call of the Go SDK's client (clientCall and Stream of   *)
(* src/meshcall-go/client.go, creditWindow of runtime.go): the reader that  *)
(* delivers frames, the application's goroutine that receives, the one that *)
(* sends, and the timers and contexts that abort.  Each critical section of *)
(* clientCall.mu or of the credit window, and each frame sent, is a step.   *)
(* A unary, server-stream or client-stream call is the part of it with no   *)
(* items one way or the other.  fail and the done at its end are one step:  *)
(* done stops the timers and closes the credit window a little later, and   *)
(* no property is about the moment between.                                 *)
(***************************************************************************)
EXTENDS Naturals, Sequences, FiniteSets

CONSTANTS
    InitialCredit,   \* initialStreamCredit
    MaxOutput,       \* bound: items the peer sends
    MaxInput         \* bound: items the application sends

\* What is assumed of the constants, wherever they are given.
CallAssumption ==
    InitialCredit \in Nat \ {0} /\ MaxOutput \in Nat /\ MaxInput \in Nat

VARIABLES
    queue, failure, terminal,            \* clientCall: what next() looks at
    outputAllowance, expectedSeq, outputEnded, idleTimer,
    credit,                              \* creditWindow: [n, closed]
    inputSeq, inputClosed,
    reader, held,                        \* progress of deliver and the frame it holds
    consumer, woken, outcome,            \* Stream.Recv, its wake channel, what it returned
    sender, creditWoken,                 \* sendInput and the credit's wake channel
    abort,                               \* progress of each abort
    net, connected,                      \* frames from the peer, the connection
    peer                                 \* [credit, sent, granted, over, ended, honest]

out == <<outputAllowance, expectedSeq, outputEnded, idleTimer>>
inp == <<inputSeq, inputClosed>>
app == <<consumer, outcome>>
wires == <<net, connected>>
vars == <<queue, failure, terminal, out, credit, inp, reader, held, app, woken, sender,
          creditWoken, abort, wires, peer>>

Item(n) == [kind |-> "item", seq |-> n]
Other(k) == [kind |-> k, seq |-> 0]
Frames == {Item(n) : n \in 0..MaxOutput} \cup {Other(k) : k \in {"end", "answer", "window"}}

\* A timer or context; Stream.Close or a bad item; an input item over the frame limit.
Aborters == {"timer", "app", "sender"}

TypeOK ==
    /\ queue \in Seq(Frames) /\ failure \in {"none", "lost", "aborted", "protocol"}
    /\ terminal \in BOOLEAN
    /\ outputAllowance \in 0..InitialCredit /\ expectedSeq \in 0..MaxOutput
    /\ outputEnded \in BOOLEAN /\ idleTimer \in BOOLEAN
    /\ credit \in [n : 0..MaxInput, closed : BOOLEAN]
    /\ inputSeq \in 0..MaxInput /\ inputClosed \in BOOLEAN
    /\ reader \in {"read", "arm", "marked", "queue", "over"}
    /\ held \in Frames
    /\ consumer \in {"recv", "blocked", "got", "granting", "aborting", "done"}
    /\ woken \in BOOLEAN /\ creditWoken \in BOOLEAN
    /\ outcome \in {"none", "answered", "lost", "aborted", "protocol"}
    /\ sender \in {"idle", "acquire", "blocked", "number", "send", "aborting", "done"}
    /\ abort \in [Aborters -> {"idle", "asked", "checked", "telling", "over"}]
    /\ net \in Seq(Frames) /\ connected \in BOOLEAN
    /\ peer \in [credit : 0..(InitialCredit + MaxOutput), sent : 0..MaxOutput,
                 granted : 0..MaxInput, over : BOOLEAN, ended : BOOLEAN, honest : BOOLEAN]

\* Client.open has sent call.open and the first window, which the peer has.
Init ==
    /\ queue = <<>> /\ failure = "none" /\ terminal = FALSE
    /\ outputAllowance = InitialCredit /\ expectedSeq = 0 /\ outputEnded = FALSE
    /\ idleTimer = TRUE
    /\ credit = [n |-> 0, closed |-> FALSE] /\ inputSeq = 0 /\ inputClosed = FALSE
    /\ reader = "read" /\ held = Other("end")
    /\ consumer = "recv" /\ woken = FALSE /\ outcome = "none"
    /\ sender = "idle" /\ creditWoken = FALSE
    /\ abort = [a \in Aborters |-> "idle"]
    /\ net = <<>> /\ connected = TRUE
    /\ \E honest \in BOOLEAN :
         peer = [credit |-> InitialCredit, sent |-> 0, granted |-> 0, over |-> FALSE,
                 ended |-> FALSE, honest |-> honest]

-------------------------------------------------------------------------------
(* clientCall.fail, with clientCall.done                                    *)

\* What done() does: the idle timer is stopped and the input credit closed.
Done ==
    /\ idleTimer' = FALSE
    /\ credit' = [credit EXCEPT !.closed = TRUE]
    /\ creditWoken' = TRUE

Fail(e) ==
    IF failure # "none" \/ (terminal /\ queue # <<>>)
    THEN UNCHANGED <<failure, terminal, woken, idleTimer, credit, creditWoken>>
    ELSE failure' = e /\ terminal' = TRUE /\ woken' = TRUE /\ Done

-------------------------------------------------------------------------------
(* The reader: clientCall.deliver, and failAll when the connection is lost  *)

Arrived(kind) == reader = "read" /\ net # <<>> /\ Head(net).kind = kind

\* stream.window: creditWindow.grant.
DeliverWindow ==
    /\ Arrived("window")
    /\ net' = Tail(net)
    /\ credit' = [credit EXCEPT !.n = @ + 1] /\ creditWoken' = TRUE
    /\ UNCHANGED <<queue, failure, terminal, out, inp, reader, held, app, woken, sender,
                   abort, connected, peer>>

Acceptable(f) == ~outputEnded /\ outputAllowance > 0 /\ f.seq = expectedSeq

DeliverItem ==
    /\ Arrived("item") /\ Acceptable(Head(net))
    /\ net' = Tail(net) /\ held' = Head(net)
    /\ outputAllowance' = outputAllowance - 1 /\ expectedSeq' = expectedSeq + 1
    /\ reader' = "arm"
    /\ UNCHANGED <<queue, failure, terminal, outputEnded, idleTimer, credit, inp, app, woken,
                   sender, creditWoken, abort, connected, peer>>

DeliverBadItem ==
    /\ Arrived("item") /\ ~Acceptable(Head(net))
    /\ net' = Tail(net)
    /\ Fail("protocol")
    /\ UNCHANGED <<queue, outputAllowance, expectedSeq, outputEnded, inp, reader, held, app,
                   sender, abort, connected, peer>>

MayArm == ~outputEnded /\ ~terminal

\* armIdle, between the check of an item and its way into the queue.
ArmIdle ==
    /\ reader = "arm"
    /\ idleTimer' = MayArm
    /\ reader' = "queue"
    /\ UNCHANGED <<queue, failure, terminal, outputAllowance, expectedSeq, outputEnded,
                   credit, inp, held, app, woken, sender, creditWoken, abort, wires, peer>>

DeliverEnd ==
    /\ Arrived("end")
    /\ net' = Tail(net) /\ outputEnded' = TRUE /\ idleTimer' = FALSE
    /\ UNCHANGED <<queue, failure, terminal, outputAllowance, expectedSeq, credit, inp,
                   reader, held, app, woken, sender, creditWoken, abort, connected, peer>>

\* call.result or call.error: the call is marked ...
DeliverAnswer ==
    /\ Arrived("answer")
    /\ net' = Tail(net) /\ held' = Head(net) /\ terminal' = TRUE
    /\ reader' = "marked"
    /\ UNCHANGED <<queue, failure, out, credit, inp, app, woken, sender, creditWoken, abort,
                   connected, peer>>

\* ... done() runs ...
AnswerDone ==
    /\ reader = "marked"
    /\ Done
    /\ reader' = "queue"
    /\ UNCHANGED <<queue, failure, terminal, outputAllowance, expectedSeq, outputEnded, inp,
                   held, app, woken, sender, abort, wires, peer>>

Wake == woken' = TRUE

\* ... and the frame, item or answer, is queued.
Queue ==
    /\ reader = "queue"
    /\ queue' = Append(queue, held) /\ held' = Other("end")
    /\ Wake
    /\ reader' = "read"
    /\ UNCHANGED <<failure, terminal, out, credit, inp, app, sender, creditWoken, abort,
                   wires, peer>>

\* The connection breaks: what is on the way is gone, sends fail from now on.
Break ==
    /\ connected
    /\ connected' = FALSE /\ net' = <<>>
    /\ UNCHANGED <<queue, failure, terminal, out, credit, inp, reader, held, app, woken,
                   sender, creditWoken, abort, peer>>

\* Mutant: somebody else than the reader fails the calls of a lost connection.
NoticedByAnyone == reader # "over"

NoticedByReader == reader = "read"

\* readLoop ends and failAll fails the call with the retryable error.
ReaderStops ==
    /\ NoticedByReader /\ ~connected
    /\ Fail("lost")
    /\ reader' = "over"
    /\ UNCHANGED <<queue, outputAllowance, expectedSeq, outputEnded, inp, held, app, sender,
                   abort, wires, peer>>

-------------------------------------------------------------------------------
(* The receiving goroutine: Stream.Recv over clientCall.next                *)

RecvItem ==
    /\ consumer = "recv" /\ queue # <<>> /\ Head(queue).kind = "item"
    /\ queue' = Tail(queue) /\ consumer' = "got"
    /\ UNCHANGED <<failure, terminal, out, credit, inp, reader, held, outcome, woken, sender,
                   creditWoken, abort, wires, peer>>

RecvAnswer ==
    /\ consumer = "recv" /\ queue # <<>> /\ Head(queue).kind = "answer"
    /\ queue' = Tail(queue) /\ consumer' = "done" /\ outcome' = "answered"
    /\ UNCHANGED <<failure, terminal, out, credit, inp, reader, held, woken, sender,
                   creditWoken, abort, wires, peer>>

RecvFailure ==
    /\ consumer = "recv" /\ queue = <<>> /\ failure # "none"
    /\ consumer' = "done" /\ outcome' = failure
    /\ UNCHANGED <<queue, failure, terminal, out, credit, inp, reader, held, woken, sender,
                   creditWoken, abort, wires, peer>>

\* Nothing there: the wake channel of this moment is waited on.
RecvBlocks ==
    /\ consumer = "recv" /\ queue = <<>> /\ failure = "none"
    /\ consumer' = "blocked" /\ woken' = FALSE
    /\ UNCHANGED <<queue, failure, terminal, out, credit, inp, reader, held, outcome, sender,
                   creditWoken, abort, wires, peer>>

RecvWakes ==
    /\ consumer = "blocked" /\ woken
    /\ consumer' = "recv"
    /\ UNCHANGED <<queue, failure, terminal, out, credit, inp, reader, held, outcome, woken,
                   sender, creditWoken, abort, wires, peer>>

\* The two halves of clientCall.consumed: the allowance, then the window.
CreditStep(first) ==
    /\ outputAllowance' = outputAllowance + (IF first THEN 1 ELSE 0)
    /\ peer' = [peer EXCEPT !.credit = @ + (IF ~first /\ connected THEN 1 ELSE 0)]

OpenForCredit == ~outputEnded /\ ~terminal

Consumed ==
    /\ consumer = "got" /\ OpenForCredit
    /\ CreditStep(TRUE)
    /\ consumer' = "granting"
    /\ UNCHANGED <<queue, failure, terminal, expectedSeq, outputEnded, idleTimer, credit, inp,
                   reader, held, outcome, woken, sender, creditWoken, abort, wires>>

SendWindow ==
    /\ consumer = "granting"
    /\ CreditStep(FALSE)
    /\ consumer' = "recv"
    /\ UNCHANGED <<queue, failure, terminal, expectedSeq, outputEnded, idleTimer, credit, inp,
                   reader, held, outcome, woken, sender, creditWoken, abort, wires>>

\* The call is over: nothing is granted.
ConsumedLate ==
    /\ consumer = "got" /\ ~OpenForCredit
    /\ consumer' = "recv"
    /\ UNCHANGED <<queue, failure, terminal, out, credit, inp, reader, held, outcome, woken,
                   sender, creditWoken, abort, wires, peer>>

\* The application closes the stream, or an item does not decode.
StreamAbort ==
    /\ consumer \in {"recv", "got"} /\ abort["app"] = "idle"
    /\ consumer' = "aborting" /\ abort' = [abort EXCEPT !["app"] = "asked"]
    /\ UNCHANGED <<queue, failure, terminal, out, credit, inp, reader, held, outcome, woken,
                   sender, creditWoken, wires, peer>>

\* The abort is over: the stream is done and returns its own error.
StreamAborted ==
    /\ consumer = "aborting" /\ abort["app"] = "over"
    /\ consumer' = "done" /\ outcome' = "aborted"
    /\ UNCHANGED <<queue, failure, terminal, out, credit, inp, reader, held, woken, sender,
                   creditWoken, abort, wires, peer>>

-------------------------------------------------------------------------------
(* clientCall.abort: check, fail, tell the peer                             *)

AbortChecks(a) ==
    /\ IF a = "timer" THEN abort[a] = "idle" ELSE abort[a] = "asked"
    /\ abort' = [abort EXCEPT ![a] = IF terminal THEN "over" ELSE "checked"]
    /\ UNCHANGED <<queue, failure, terminal, out, credit, inp, reader, held, app, woken,
                   sender, creditWoken, wires, peer>>

AbortFails(a) ==
    /\ abort[a] = "checked"
    /\ Fail("aborted")
    /\ abort' = [abort EXCEPT ![a] = "telling"]
    /\ UNCHANGED <<queue, outputAllowance, expectedSeq, outputEnded, inp, reader, held, app,
                   sender, wires, peer>>

AbortTells(a) ==
    /\ abort[a] = "telling"
    /\ abort' = [abort EXCEPT ![a] = "over"]
    /\ peer' = [peer EXCEPT !.over = @ \/ connected]
    /\ UNCHANGED <<queue, failure, terminal, out, credit, inp, reader, held, app, woken,
                   sender, creditWoken, wires>>

-------------------------------------------------------------------------------
(* The sending goroutine: sendInput and closeInput                          *)

SendBegins ==
    /\ sender = "idle" /\ ~inputClosed /\ inputSeq < MaxInput
    /\ sender' = "acquire"
    /\ UNCHANGED <<queue, failure, terminal, out, credit, inp, reader, held, app, woken,
                   creditWoken, abort, wires, peer>>

\* creditWindow.acquire: closed, a credit, or a wait for the wake channel.
AcquireFails ==
    /\ sender = "acquire" /\ credit.closed
    /\ sender' = "done"
    /\ UNCHANGED <<queue, failure, terminal, out, credit, inp, reader, held, app, woken,
                   creditWoken, abort, wires, peer>>

Acquire ==
    /\ sender = "acquire" /\ ~credit.closed /\ credit.n > 0
    /\ credit' = [credit EXCEPT !.n = @ - 1] /\ sender' = "number"
    /\ UNCHANGED <<queue, failure, terminal, out, inp, reader, held, app, woken, creditWoken,
                   abort, wires, peer>>

AcquireBlocks ==
    /\ sender = "acquire" /\ ~credit.closed /\ credit.n = 0
    /\ sender' = "blocked" /\ creditWoken' = FALSE
    /\ UNCHANGED <<queue, failure, terminal, out, credit, inp, reader, held, app, woken,
                   abort, wires, peer>>

AcquireWakes ==
    /\ sender = "blocked" /\ creditWoken
    /\ sender' = "acquire"
    /\ UNCHANGED <<queue, failure, terminal, out, credit, inp, reader, held, app, woken,
                   creditWoken, abort, wires, peer>>

\* The context of the call ends during the wait.
AcquireGivesUp ==
    /\ sender = "blocked"
    /\ sender' = "done"
    /\ UNCHANGED <<queue, failure, terminal, out, credit, inp, reader, held, app, woken,
                   creditWoken, abort, wires, peer>>

NumberInput ==
    /\ sender = "number"
    /\ inputSeq' = inputSeq + 1 /\ sender' = "send"
    /\ UNCHANGED <<queue, failure, terminal, out, credit, inputClosed, reader, held, app,
                   woken, creditWoken, abort, wires, peer>>

\* A send on a broken connection returns the error to the application.
SendInput ==
    /\ sender = "send"
    /\ sender' = (IF connected THEN "idle" ELSE "done")
    /\ UNCHANGED <<queue, failure, terminal, out, credit, inp, reader, held, app, woken,
                   creditWoken, abort, wires, peer>>

\* An item over the frame limit aborts the call, which is open at the peer.
InputTooLarge ==
    /\ sender = "send" /\ abort["sender"] = "idle"
    /\ sender' = "aborting" /\ abort' = [abort EXCEPT !["sender"] = "asked"]
    /\ UNCHANGED <<queue, failure, terminal, out, credit, inp, reader, held, app, woken,
                   creditWoken, wires, peer>>

InputAborted ==
    /\ sender = "aborting" /\ abort["sender"] = "over"
    /\ sender' = "done"
    /\ UNCHANGED <<queue, failure, terminal, out, credit, inp, reader, held, app, woken,
                   creditWoken, abort, wires, peer>>

CloseInput ==
    /\ sender = "idle" /\ ~inputClosed
    /\ inputClosed' = TRUE /\ sender' = "done"
    /\ UNCHANGED <<queue, failure, terminal, out, credit, inputSeq, reader, held, app, woken,
                   creditWoken, abort, wires, peer>>

-------------------------------------------------------------------------------
(* The peer (external): what the Router passes on from the instance.  An    *)
(* honest one sends items only within the credit it got.                    *)

PeerSends(f, p) ==
    /\ connected /\ ~peer.over
    /\ net' = Append(net, f) /\ peer' = p
    /\ UNCHANGED <<queue, failure, terminal, out, credit, inp, reader, held, app, woken,
                   sender, creditWoken, abort, connected>>

PeerItem ==
    /\ peer.sent < MaxOutput /\ ~peer.ended /\ (peer.honest => peer.credit > 0)
    /\ PeerSends(Item(peer.sent),
                 [peer EXCEPT !.sent = @ + 1, !.credit = IF @ > 0 THEN @ - 1 ELSE 0])

PeerEnd == ~peer.ended /\ PeerSends(Other("end"), [peer EXCEPT !.ended = TRUE])

PeerAnswer == PeerSends(Other("answer"), [peer EXCEPT !.over = TRUE])

PeerGrants ==
    /\ peer.granted < MaxInput
    /\ PeerSends(Other("window"), [peer EXCEPT !.granted = @ + 1])

-------------------------------------------------------------------------------
ReaderStep ==
    DeliverWindow \/ DeliverItem \/ DeliverBadItem \/ ArmIdle \/ DeliverEnd \/ DeliverAnswer
    \/ AnswerDone \/ Queue \/ ReaderStops
Receiving ==
    RecvItem \/ RecvAnswer \/ RecvFailure \/ RecvBlocks \/ RecvWakes \/ Consumed \/ SendWindow
    \/ ConsumedLate \/ StreamAborted
Sending ==
    SendBegins \/ AcquireFails \/ Acquire \/ AcquireBlocks \/ AcquireWakes \/ NumberInput
    \/ SendInput \/ InputAborted \/ CloseInput
Aborting(a) == AbortChecks(a) \/ AbortFails(a) \/ AbortTells(a)

Next ==
    \/ ReaderStep \/ Receiving \/ Sending \/ AcquireGivesUp \/ InputTooLarge
    \/ StreamAbort \/ Break
    \/ \E a \in Aborters : Aborting(a)
    \/ PeerItem \/ PeerEnd \/ PeerAnswer \/ PeerGrants

(* The reader runs, the application keeps receiving and does not stop in    *)
(* the middle of a Send or of an abort.  Timers, the peer and the network   *)
(* owe nothing.                                                             *)
Fairness ==
    /\ WF_vars(ReaderStep) /\ WF_vars(Receiving) /\ WF_vars(Sending)
    /\ \A a \in {"app", "sender"} :
         /\ WF_vars(AbortChecks(a)) /\ WF_vars(AbortFails(a)) /\ WF_vars(AbortTells(a))

Spec == Init /\ [][Next]_vars /\ Fairness

-------------------------------------------------------------------------------
(* Properties *)

(* A peer that stays within the credit it was given is never refused an     *)
(* item: consumed raises the allowance before the window leaves, and a      *)
(* stream that ended or failed takes nothing back.                          *)
HonestPeerNeverRefused == peer.honest => failure # "protocol"

Buffered == Cardinality({i \in DOMAIN queue : queue[i].kind = "item"})
            + (IF reader \in {"arm", "queue"} /\ held.kind = "item" THEN 1 ELSE 0)

(* Whatever the peer sends, the client never holds more items than the      *)
(* credit it gave: allowance and buffer share the initial credit.           *)
BufferBounded ==
    Buffered <= InitialCredit /\ outputAllowance + Buffered <= InitialCredit

(* Nobody sleeps through a change: a receiver that waits on a channel not   *)
(* yet closed has nothing to receive, and a sender no credit to take.       *)
NoLostWakeup ==
    /\ consumer = "blocked" /\ ~woken => queue = <<>> /\ failure = "none"
    /\ sender = "blocked" /\ ~creditWoken => credit.n = 0 /\ ~credit.closed

(* The retryable error of a lost connection is never reported of a call     *)
(* whose answer had been read, so that no answered call is sent again.      *)
LostMeansUnanswered ==
    outcome = "lost" => held.kind # "answer"
                        /\ \A i \in DOMAIN queue : queue[i].kind # "answer"

(* The idle timer is off once the output ended or done() ran: a late item   *)
(* that was checked before does not arm it again.                           *)
IdleTimerStops == idleTimer => ~outputEnded /\ (terminal => reader = "marked")

(* An answer that was read, and a failure, reach an application that keeps  *)
(* receiving, unless it aborts the stream itself.                           *)
EndReachesReceiver == terminal ~> outcome # "none"

(* A sender does not wait for credit of a call that is over.                *)
SenderReleased == terminal ~> sender # "blocked"
===============================================================================

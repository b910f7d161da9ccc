------------------------------ MODULE MCClient ------------------------------
(***************************************************************************)
(* Calls seen from those who make them, for one safety run: the Go SDK's   *)
(* connection, one call of it, the retries, and the Router's HTTP gateway  *)
(* with its two streams.  The suite extends the gateway's module and       *)
(* instantiates the others.  The parts share no state, so a behaviour is   *)
(* one of the part its first state names; the others stay as they begin.   *)
(***************************************************************************)
EXTENDS HTTPGateway, Sequences

CONSTANTS
    \* ClientLink: its Calls and N are Callers and Endpoints
    Callers, Bounded, Endpoints, MaxConns, MaxPasses, MaxCloses,
    \* ClientCall
    InitialCredit, MaxOutput, MaxInput,
    \* Retry
    Transports, Timeout, Grace, MaxAttempts, InitialDelay, MaxDelay, Multiplier, Jitter,
    \* HTTPServerStream and HTTPClientStream, with the Items of each
    streamCredit, Buffer, OutputItems, Window, InputItems

VARIABLES
    part,   \* the part whose behaviour this is
    \* ClientLink
    conn, cursor, everConnected, connecting, linkClosed, linkCalls, up, linkReader,
    snap, closer, linkPc, on, dial, linkFailure, queued, linkOutcome, linkAbort, wire,
    \* ClientCall
    queue, failure, terminal, outputAllowance, expectedSeq, outputEnded, idleTimer,
    credit, inputSeq, inputClosed, reader, held, consumer, woken, outcome, sender,
    creditWoken, abort, net, connected, peer,
    \* Retry
    transport, mayRetry, now, attempt, timeout, until, retryPc, answer,
    \* HTTPServerStream
    itemsCredit, sent, finished, itemsOutbox, begun, started, written, blocked,
    returned, itemsEnded, itemsBody, itemsStatus, got, itemsOutcome,
    \* HTTPClientStream
    left, writer, linesBody, linesReader, line, loop, linesCredit, reading, linesEnded,
    sequence, linesOutbox, toInstance, received, granted, sawEnd, answered, done,
    response

linkVars == <<
    conn, cursor, everConnected, connecting, linkClosed, linkCalls, up, linkReader,
    snap, closer, linkPc, on, dial, linkFailure, queued, linkOutcome, linkAbort, wire>>
callVars == <<
    queue, failure, terminal, outputAllowance, expectedSeq, outputEnded, idleTimer,
    credit, inputSeq, inputClosed, reader, held, consumer, woken, outcome, sender,
    creditWoken, abort, net, connected, peer>>
retryVars == <<
    transport, mayRetry, now, attempt, timeout, until, retryPc, answer>>
itemsVars == <<
    itemsCredit, sent, finished, itemsOutbox, begun, started, written, blocked,
    returned, itemsEnded, itemsBody, itemsStatus, got, itemsOutcome>>
linesVars == <<
    left, writer, linesBody, linesReader, line, loop, linesCredit, reading, linesEnded,
    sequence, linesOutbox, toInstance, received, granted, sawEnd, answered, done,
    response>>
suiteVars == <<part, linkVars, callVars, retryVars, vars, itemsVars, linesVars>>

Link == INSTANCE ClientLink WITH
    Calls <- Callers, N <- Endpoints, reader <- linkReader, pc <- linkPc,
    failure <- linkFailure, outcome <- linkOutcome, abort <- linkAbort,
    closed <- linkClosed, calls <- linkCalls

Call == INSTANCE ClientCall

Attempts == INSTANCE Retry WITH pc <- retryPc

Streamed == INSTANCE HTTPServerStream WITH
    Items <- OutputItems, credit <- itemsCredit, outbox <- itemsOutbox,
    ended <- itemsEnded, body <- itemsBody, outcome <- itemsOutcome,
    status <- itemsStatus

Posted == INSTANCE HTTPClientStream WITH
    Items <- InputItems, credit <- linesCredit, reader <- linesReader,
    ended <- linesEnded, body <- linesBody, outbox <- linesOutbox

\* The constants are as each part wants them.
ASSUME Parameters ==
    /\ Link!LinkAssumption /\ Call!CallAssumption
    /\ Attempts!RetryAssumption /\ GatewayAssumption /\ Streamed!CreditAssumption
    /\ Posted!LinesAssumption

Parts == {"link", "call", "attempts", "gateway", "items", "lines"}

SuiteInit ==
    /\ part \in Parts
    /\ Link!Init
    /\ Call!Init /\ (part # "call" => peer.honest)
    /\ IF part = "attempts" THEN Attempts!Init
       ELSE Attempts!Init /\ transport = "ws" /\ mayRetry
    /\ Init /\ (part # "gateway" => registered = "none")
    /\ Streamed!Init
    /\ Posted!Init

LinkStep ==
    /\ part = "link" /\ Link!Next
    /\ UNCHANGED <<part, callVars, retryVars, vars, itemsVars, linesVars>>

CallStep ==
    /\ part = "call" /\ Call!Next
    /\ UNCHANGED <<part, linkVars, retryVars, vars, itemsVars, linesVars>>

AttemptsStep ==
    /\ part = "attempts" /\ Attempts!Next
    /\ UNCHANGED <<part, linkVars, callVars, vars, itemsVars, linesVars>>

GatewayStep ==
    /\ part = "gateway" /\ Next
    /\ UNCHANGED <<part, linkVars, callVars, retryVars, itemsVars, linesVars>>

StreamedStep ==
    /\ part = "items" /\ Streamed!Next
    /\ UNCHANGED <<part, linkVars, callVars, retryVars, vars, linesVars>>

PostedStep ==
    /\ part = "lines" /\ Posted!Next
    /\ UNCHANGED <<part, linkVars, callVars, retryVars, vars, itemsVars>>

SuiteNext ==
    \/ LinkStep \/ CallStep \/ AttemptsStep \/ GatewayStep \/ StreamedStep
    \/ PostedStep

SuiteSpec == SuiteInit /\ [][SuiteNext]_suiteVars

-------------------------------------------------------------------------------
(* Properties *)

(* Client.connection, connectAny and failAll: an open connection is the    *)
(* client's own, one Close is about to close, or the one the only dialling *)
(* caller is about to publish; a pass that failed tried every endpoint,    *)
(* although the reader of an older connection moves the cursor; and only   *)
(* an aborted call can stay in c.calls after it ended.                     *)
ConnectionsKept ==
    /\ part = "link" =>
         /\ Link!TypeOK /\ Link!NoOrphanConnection /\ Link!EveryEndpointTried
         /\ Link!OnlyAbortedCallsLinger

(* clientCall.deliver, Stream.Recv, creditWindow.acquire, failAll, armIdle *)
(* and retry: a peer within its credit is never refused and one beyond it  *)
(* fills no buffer; nobody sleeps while there is something to receive or   *)
(* credit to take; a call whose answer was read is never reported lost;    *)
(* the idle timer is off once the call is over; over WebSocket, and there  *)
(* only, attempts and delays come out of the one deadline; and a call that *)
(* is neither idempotent nor keyed is sent once.                           *)
CallsKeepTheirWord ==
    /\ part = "call" =>
         /\ Call!TypeOK /\ Call!HonestPeerNeverRefused /\ Call!BufferBounded
         /\ Call!NoLostWakeup /\ Call!LostMeansUnanswered /\ Call!IdleTimerStops
    /\ part = "attempts" =>
         /\ Attempts!TypeOK /\ Attempts!SocketCallWithinTimeout
         /\ Attempts!SentOnceUnlessSafe

(* serverStream, clientStream and httpStream.Recv: a slow reader holds no  *)
(* more items in the Router than the credit, an item goes to the instance  *)
(* only on credit it granted, an end reaches the other side after every    *)
(* item and only of a stream that is complete or that its own producer     *)
(* stopped early, and an error is told to a caller that has seen items,    *)
(* too.                                                                    *)
StreamsComplete ==
    /\ part = "items" =>
         /\ Streamed!TypeOK /\ Streamed!HeldWithinCredit /\ Streamed!ResultMeansAll
         /\ Streamed!ErrorIsTold
    /\ part = "lines" =>
         /\ Posted!TypeOK /\ Posted!InputWithinCredit /\ Posted!EndIsLast
         /\ Posted!EndMeansComplete

===============================================================================

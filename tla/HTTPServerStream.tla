-------------------------- MODULE HTTPServerStream ---------------------------
(***************************************************************************)
(* A server stream over HTTP, from the instance through the gateway        *)
(* (httpCall.serverStream of httpapi.go) to the Go SDK's HTTP client       *)
(* (httpStream of src/meshcall-go/http.go): the gateway gives the instance *)
(* credit as it writes lines, and closes the body with one envelope.       *)
(***************************************************************************)
EXTENDS Integers, Sequences, FiniteSets

CONSTANTS
    streamCredit,   \* items granted at first; half of it is granted again
    Items,          \* items the instance has, a bound
    Buffer          \* lines the connection holds, a bound

\* What is assumed of the constants, wherever they are given.
CreditAssumption == streamCredit \in Nat /\ streamCredit >= 2 /\ Items \in Nat

VARIABLES
    credit, sent, finished,       \* the instance
    outbox,                       \* frames for the request's virtual client
    begun, started, written,      \* serverStream: window sent, 200 sent, items since the last window
    blocked, returned,            \* in the select of next; the handler has returned
    ended,                        \* the request's context is done
    body, status,                 \* lines on their way to the client, and the response's status
    got, outcome                  \* httpStream: items delivered, and what Recv ended with

instance == <<credit, sent, finished>>
handler  == <<begun, started, written, blocked, returned>>
client   == <<got, outcome>>
vars     == <<instance, outbox, handler, ended, body, status, client>>

half == streamCredit \div 2

TypeOK ==
    /\ credit \in Nat /\ sent \in 0..Items /\ finished \in {"no", "result", "error"}
    /\ outbox \in Seq({"item", "end", "result", "error"})
    /\ begun \in BOOLEAN /\ started \in BOOLEAN /\ written \in 0..(half - 1)
    /\ blocked \in BOOLEAN /\ returned \in BOOLEAN /\ ended \in BOOLEAN
    /\ body \in Seq({"item", "end", "error"}) /\ status \in {"none", "ok", "failed"}
    /\ got \in 0..Items /\ outcome \in {"none", "result", "error", "eof", "aborted"}

Init ==
    /\ credit = 0 /\ sent = 0 /\ finished = "no" /\ outbox = <<>>
    /\ begun = FALSE /\ started = FALSE /\ written = 0 /\ blocked = FALSE /\ returned = FALSE
    /\ ended = FALSE /\ body = <<>> /\ status = "none" /\ got = 0 /\ outcome = "none"

-------------------------------------------------------------------------------
(* The instance, and the Router when it fails the call.                    *)

InstanceItem ==
    /\ finished = "no" /\ credit > 0 /\ sent < Items
    /\ credit' = credit - 1 /\ sent' = sent + 1 /\ outbox' = Append(outbox, "item")
    /\ UNCHANGED <<finished, handler, ended, body, status, client>>

InstanceEnds ==
    /\ finished = "no" /\ begun
    /\ \/ finished' = "result" /\ outbox' = outbox \o <<"end", "result">>
       \/ finished' = "error" /\ outbox' = Append(outbox, "error")
    /\ UNCHANGED <<credit, sent, handler, ended, body, status, client>>

\* The token ends, or the Router stops and does not wait any longer.
ContextEnds ==
    /\ ~ended
    /\ ended' = TRUE
    /\ UNCHANGED <<instance, outbox, handler, body, status, client>>

-------------------------------------------------------------------------------
(* serverStream.                                                           *)

Begin ==
    /\ ~begun
    /\ begun' = TRUE /\ credit' = streamCredit
    /\ UNCHANGED <<sent, finished, outbox, started, written, blocked, returned, ended, body, status, client>>

Running == begun /\ ~returned /\ ~blocked

Frame(f) == Running /\ outbox # <<>> /\ Head(outbox) = f /\ outbox' = Tail(outbox)

\* line: the first one sends the status; writing waits for room on the connection.
Line(l) ==
    /\ Len(body) < Buffer
    /\ body' = Append(body, l) /\ started' = TRUE /\ status' = "ok"

GrantNow == written + 1 = half

Regranted == half

WriteItem ==
    /\ Frame("item") /\ Line("item")
    /\ IF GrantNow THEN written' = 0 /\ credit' = credit + Regranted
                   ELSE written' = written + 1 /\ UNCHANGED credit
    /\ UNCHANGED <<sent, finished, begun, blocked, returned, ended, client>>

\* stream.end; the terminal frame follows.
SkipEnd ==
    /\ Frame("end")
    /\ UNCHANGED <<instance, handler, ended, body, status, client>>

WriteResult ==
    /\ Frame("result") /\ Line("end") /\ returned' = TRUE
    /\ UNCHANGED <<instance, begun, written, blocked, ended, client>>

ErrorLine == Line("error")

\* Before the first line an error is an ordinary error response.
WriteError ==
    /\ Frame("error") /\ returned' = TRUE
    /\ IF started THEN ErrorLine ELSE status' = "failed" /\ UNCHANGED <<body, started>>
    /\ UNCHANGED <<instance, begun, written, blocked, ended, client>>

Block ==
    /\ Running /\ outbox = <<>>
    /\ blocked' = TRUE
    /\ UNCHANGED <<instance, outbox, begun, started, written, returned, ended, body, status, client>>

\* Mutant: a frame does not wake a request that waits.
NoSignal == FALSE

Signalled == outbox # <<>>

Wake ==
    /\ blocked /\ ~returned /\ Signalled
    /\ blocked' = FALSE
    /\ UNCHANGED <<instance, outbox, begun, started, written, returned, ended, body, status, client>>

\* errHTTPGone: the handler returns without another line; the body ends there.
Stop ==
    /\ blocked /\ ~returned /\ ended
    /\ returned' = TRUE /\ status' = "ok"
    /\ UNCHANGED <<instance, outbox, begun, started, written, blocked, ended, body, client>>

-------------------------------------------------------------------------------
(* serverStreamRaw and httpStream.next.                                    *)

Open == outcome = "none" /\ status # "none"

\* A status of 400 and more is the call's error.
ClientRefused ==
    /\ Open /\ status = "failed"
    /\ outcome' = "error"
    /\ UNCHANGED <<instance, outbox, handler, ended, body, status, got>>

ClientReads ==
    /\ Open /\ body # <<>>
    /\ body' = Tail(body)
    /\ CASE Head(body) = "item" -> got' = got + 1 /\ UNCHANGED outcome
         [] Head(body) = "end" -> outcome' = "result" /\ UNCHANGED got
         [] Head(body) = "error" -> outcome' = "error" /\ UNCHANGED got
    /\ UNCHANGED <<instance, outbox, handler, ended, status>>

ClientAtEnd ==
    /\ Open /\ status = "ok" /\ body = <<>> /\ returned
    /\ outcome' = "eof"
    /\ UNCHANGED <<instance, outbox, handler, ended, body, status, got>>

\* The caller cancels, its timeout passes, or the connection breaks.
ClientAborts ==
    /\ outcome = "none"
    /\ outcome' = "aborted" /\ ended' = TRUE
    /\ UNCHANGED <<instance, outbox, handler, body, status, got>>

\* What the client no longer reads is dropped.
Discard ==
    /\ outcome = "aborted" /\ body # <<>>
    /\ body' = <<>>
    /\ UNCHANGED <<instance, outbox, handler, ended, status, client>>

HandlerSteps == Begin \/ WriteItem \/ SkipEnd \/ WriteResult \/ WriteError \/ Block \/ Wake \/ Stop
ClientSteps == ClientRefused \/ ClientReads \/ ClientAtEnd \/ Discard

Next ==
    \/ InstanceItem \/ InstanceEnds \/ ContextEnds \/ HandlerSteps \/ ClientSteps \/ ClientAborts

Spec == Init /\ [][Next]_vars

\* The handler goes on, the client reads on, and the instance sends what it has.
FairSpec == Spec /\ WF_vars(HandlerSteps) /\ WF_vars(ClientSteps) /\ WF_vars(InstanceItem)

-------------------------------------------------------------------------------
Held == Cardinality({i \in DOMAIN outbox : outbox[i] = "item"})

(* A slow reader holds at most streamCredit items in the Router: credit    *)
(* comes back only for items that were written.                            *)
HeldWithinCredit == credit + Held + written <= streamCredit

(* A caller whose stream ends with the end envelope has every item the     *)
(* instance sent, and the instance had ended without an error.             *)
ResultMeansAll == outcome = "result" => got = sent /\ finished = "result"

(* An error of the call reaches a caller that has seen items, too.         *)
ErrorIsTold ==
    finished = "error" /\ ~ended => outcome # "eof"

(* However often the instance runs out of credit, it gets to send all its  *)
(* items.                                                                  *)
NeverStalls == <>(sent = Items \/ finished # "no" \/ ended)

(* The handler of a stream that is over ends, and so does the client.      *)
StreamEnds == (finished # "no" \/ ended) ~> (returned /\ outcome # "none")

(* Stream.Recv's comment taken at its word: io.EOF "when the stream ends   *)
(* normally".                                                              *)
EOFMeansEnd == outcome # "eof"
===============================================================================

-------------------------- MODULE HTTPClientStream ---------------------------
(***************************************************************************)
(* A client stream over HTTP: the request body is written by the Go SDK    *)
(* (clientStreamRaw of src/meshcall-go/http.go), read a line at a time by  *)
(* a goroutine of the gateway, and passed on by httpCall.clientStream      *)
(* (httpapi.go) as the instance grants credit.  The loop and its reader    *)
(* meet on two unbuffered channels, want and lines.                        *)
(***************************************************************************)
EXTENDS Integers, Sequences, FiniteSets

CONSTANTS
    Window,    \* credit the instance grants at first
    Items      \* lines of the body after the request, a bound

\* What is assumed of the constants, wherever they are given.
LinesAssumption == Window \in Nat /\ Items \in Nat

VARIABLES
    left, writer,        \* the writer: lines to come; open, or how it ended the body
    body,                \* lines on their way, then "eof" or "broken"
    reader, line,        \* the reader goroutine, and the line it holds
    loop,                \* the loop of clientStream
    credit, reading, ended, sequence,
    outbox,              \* frames for the request's virtual client
    toInstance,          \* frames on their way to the instance
    received, granted, sawEnd, answered,   \* the instance
    done,                \* the context of the request's client
    response

gateway  == <<reader, line, loop, credit, reading, ended, sequence>>
instance == <<received, granted, sawEnd, answered>>
vars     == <<left, writer, body, gateway, outbox, toInstance, instance, done, response>>

Lines == {"item", "last", "bad", "eof", "broken"}   \* "last": an item and the end at once

TypeOK ==
    /\ left \in 0..Items /\ writer \in {"open", "complete", "early", "broken"} /\ body \in Seq(Lines)
    /\ reader \in {"want", "read", "offer", "exit"} /\ line \in Lines \cup {"none"}
    /\ loop \in {"top", "select", "returned"}
    /\ credit \in Nat /\ reading \in BOOLEAN /\ ended \in BOOLEAN /\ sequence \in 0..Items
    /\ outbox \in Seq({"window", "result", "error"}) /\ toInstance \in Seq({"item", "end", "cancel"})
    /\ received \in 0..Items /\ granted \in Nat /\ sawEnd \in BOOLEAN /\ answered \in BOOLEAN
    /\ done \in BOOLEAN /\ response \in {"none", "result", "error", "invalid", "empty"}

Init ==
    /\ left = Items /\ writer = "open" /\ body = <<>> /\ reader = "want" /\ line = "none" /\ loop = "top"
    /\ credit = 0 /\ reading = FALSE /\ ended = FALSE /\ sequence = 0
    /\ outbox = <<>> /\ toInstance = <<>>
    /\ received = 0 /\ granted = 0 /\ sawEnd = FALSE /\ answered = FALSE
    /\ done = FALSE /\ response = "none"

-------------------------------------------------------------------------------
(* The body: items, then its end, with or without a last newline; or it    *)
(* breaks off, stalls until the read deadline, or is not JSON.             *)

WriteLine ==
    /\ writer = "open" /\ left > 0
    /\ \E l \in {"item", "bad"} \cup (IF left = 1 THEN {"last"} ELSE {}) :
         /\ body' = Append(body, l)
         /\ writer' = (IF l = "last" THEN "complete" ELSE "open")
    /\ left' = left - 1
    /\ UNCHANGED <<gateway, outbox, toInstance, instance, done, response>>

\* How a body may end: cleanly, or broken while there are items to come.
EndsOfBody == IF left = 0 THEN {"eof"} ELSE {"eof", "broken"}

\* The writer is closed when the items' generator returns, which may be early: an
\* item that cannot be encoded, or an error of the producer, ends the body cleanly.
\* It breaks when the writer, the connection or the read deadline fails.
WriteEnds ==
    /\ writer = "open"
    /\ \E end \in EndsOfBody :
         /\ body' = Append(body, end)
         /\ writer' = (IF end = "broken" THEN "broken" ELSE IF left = 0 THEN "complete" ELSE "early")
    /\ UNCHANGED <<left, gateway, outbox, toInstance, instance, done, response>>

-------------------------------------------------------------------------------
(* The reader goroutine.                                                   *)

\* The line, or what ended the body; after the handler has returned the body is closed.
ReadLine ==
    /\ reader = "read"
    /\ \/ body # <<>> /\ line' = Head(body) /\ body' = Tail(body)
       \/ loop = "returned" /\ line' = "broken" /\ UNCHANGED body
    /\ reader' = "offer"
    /\ UNCHANGED <<left, writer, loop, credit, reading, ended, sequence, outbox, toInstance, instance, done, response>>

MayGiveUp == done

ReaderExits ==
    /\ \/ reader = "offer" /\ MayGiveUp
       \/ reader = "want" /\ loop = "returned"    \* want is closed
    /\ reader' = "exit" /\ line' = "none"
    /\ UNCHANGED <<left, writer, body, loop, credit, reading, ended, sequence, outbox, toInstance, instance, done, response>>

-------------------------------------------------------------------------------
(* The loop.                                                               *)

WantsLine == credit > 0 /\ ~ended /\ ~reading

Ask ==
    /\ loop = "top" /\ WantsLine /\ reader = "want"
    /\ reading' = TRUE /\ reader' = "read" /\ loop' = "select"
    /\ UNCHANGED <<left, writer, body, line, credit, ended, sequence, outbox, toInstance, instance, done, response>>

NothingToAsk ==
    /\ loop = "top" /\ ~WantsLine
    /\ loop' = "select"
    /\ UNCHANGED <<left, writer, body, reader, line, credit, reading, ended, sequence, outbox, toInstance, instance, done, response>>

\* After it the handler returns and release ends the context of the client.
Finish(answer) ==
    /\ loop' = "returned" /\ done' = TRUE /\ response' = answer

Take == loop = "select" /\ reading /\ reader = "offer"
Taken == reading' = FALSE /\ reader' = "want" /\ line' = "none"

Frames(l) == CASE l = "last" -> <<"item", "end">> [] l = "item" -> <<"item">> [] OTHER -> <<"end">>

\* Mutant: a body that breaks off has ended.
OnlyBad == {"bad"}

Wrong == {"bad", "broken"}

Spent == credit - 1

TakeLine ==
    /\ Take /\ line \notin Wrong /\ Taken
    /\ toInstance' = toInstance \o Frames(line)
    /\ ended' = (line # "item") /\ loop' = "top"
    /\ IF line \in {"item", "last"} THEN sequence' = sequence + 1 /\ credit' = Spent
                                 ELSE UNCHANGED <<sequence, credit>>
    /\ UNCHANGED <<left, writer, body, outbox, instance, done, response>>

\* fail: the call is cancelled and the request refused.
TakeWrong ==
    /\ Take /\ line \in Wrong /\ Taken
    /\ toInstance' = Append(toInstance, "cancel") /\ Finish("invalid")
    /\ UNCHANGED <<left, writer, body, credit, ended, sequence, outbox, instance>>

TakeFrame ==
    /\ loop = "select" /\ outbox # <<>>
    /\ outbox' = Tail(outbox)
    /\ IF Head(outbox) = "window"
       THEN credit' = credit + 1 /\ loop' = (IF outbox' = <<>> THEN "top" ELSE "select") /\ UNCHANGED <<done, response>>
       ELSE Finish(Head(outbox)) /\ UNCHANGED credit
    /\ UNCHANGED <<left, writer, body, reader, line, reading, ended, sequence, toInstance, instance>>

Gone ==
    /\ loop # "returned" /\ done
    /\ Finish("empty")
    /\ UNCHANGED <<left, writer, body, reader, line, credit, reading, ended, sequence, outbox, toInstance, instance>>

\* The client disconnects, its token ends, or the Router stops.
ContextEnds ==
    /\ ~done
    /\ done' = TRUE
    /\ UNCHANGED <<left, writer, body, gateway, outbox, toInstance, instance, response>>

-------------------------------------------------------------------------------
(* The instance: credit at first and for every item it has taken.          *)

Grant ==
    /\ ~answered /\ granted < received + Window /\ ~sawEnd
    /\ granted' = granted + 1 /\ outbox' = Append(outbox, "window")
    /\ UNCHANGED <<left, writer, body, gateway, toInstance, received, sawEnd, answered, done, response>>

Receive ==
    /\ toInstance # <<>>
    /\ toInstance' = Tail(toInstance)
    /\ IF Head(toInstance) = "item" THEN received' = received + 1 ELSE UNCHANGED received
    /\ sawEnd' = (sawEnd \/ Head(toInstance) = "end")
    /\ UNCHANGED <<left, writer, body, gateway, outbox, granted, answered, done, response>>

\* At the end of the input, or when it likes.
Answer ==
    /\ ~answered
    /\ answered' = TRUE /\ \E k \in {"result", "error"} : outbox' = Append(outbox, k)
    /\ UNCHANGED <<left, writer, body, gateway, toInstance, received, granted, sawEnd, done, response>>

AnswerAtEnd == sawEnd /\ Answer

LoopSteps == Ask \/ NothingToAsk \/ TakeLine \/ TakeWrong \/ TakeFrame \/ Gone

Next ==
    \/ WriteLine \/ WriteEnds \/ ReadLine \/ ReaderExits \/ LoopSteps \/ ContextEnds
    \/ Grant \/ Receive \/ Answer

Spec == Init /\ [][Next]_vars

\* The writer ends its body (or the read deadline does), both goroutines go on, and
\* the instance reads its input and answers its end.
FairSpec ==
    /\ Spec /\ WF_vars(WriteEnds) /\ WF_vars(ReadLine) /\ WF_vars(ReaderExits)
    /\ WF_vars(LoopSteps) /\ WF_vars(Grant) /\ WF_vars(Receive) /\ WF_vars(AnswerAtEnd)

-------------------------------------------------------------------------------
SentItems == received + Cardinality({i \in DOMAIN toInstance : toInstance[i] = "item"})

(* The gateway sends an item only on credit the instance has granted, so   *)
(* the Router buffers no input.                                            *)
InputWithinCredit == SentItems <= granted

(* The instance sees the end of its input after every item, never before,  *)
(* and nothing after it.                                                   *)
EndIsLast ==
    /\ sawEnd => received = sequence /\ toInstance = <<>>
    /\ \A i \in DOMAIN toInstance : toInstance[i] = "end" => i = Len(toInstance)

(* An input that reaches its end is complete, unless its own producer      *)
(* stopped early: nothing that breaks off on the way looks like an end.    *)
EndMeansComplete == sawEnd => received = Items \/ writer = "early"

(* The request is answered, and neither goroutine stays behind waiting for *)
(* the other.                                                              *)
BothEnd == <>(loop = "returned" /\ reader = "exit")
===============================================================================

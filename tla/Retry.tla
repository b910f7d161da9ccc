-------------------------------- MODULE Retry --------------------------------
(***************************************************************************)
(* One unary call of the Go SDK with its retries, over the WebSocket       *)
(* client (Client.runChain and Client.retry of src/meshcall-go/client.go)  *)
(* or over HTTP (httpTransport.unaryRaw of src/meshcall-go/http.go), with  *)
(* time in ticks.                                                          *)
(***************************************************************************)
EXTENDS Integers

CONSTANTS
    Transports,      \* of {"ws", "http"}
    Timeout,         \* CallOptions.Timeout
    Grace,           \* ClientOptions.DeadlineGrace
    MaxAttempts, InitialDelay, MaxDelay, Multiplier, Jitter   \* RetryPolicy; Jitter in %

\* What is assumed of the constants, wherever they are given.
RetryAssumption ==
    /\ Transports \subseteq {"ws", "http"}
    /\ Timeout \in Nat \ {0} /\ Grace \in Nat /\ MaxAttempts \in Nat \ {0}
    /\ InitialDelay \in Nat /\ MaxDelay \in Nat /\ Multiplier \in Nat \ {0}
    /\ Jitter \in 0..100

VARIABLES
    transport, mayRetry,   \* how the call is made; idempotent or keyed
    now,                   \* ticks since the call began: its deadline is Timeout
    attempt, timeout,      \* the attempt under way and its own timeout
    until,                 \* when the attempt or the sleep is over at the latest
    pc, answer             \* what goes on, and how the last attempt ended

vars == <<transport, mayRetry, now, attempt, timeout, until, pc, answer>>

\* How an attempt ends: an answer; an error with a code of RetryCodes marked retryable;
\* one that is not; over HTTP, no response at all.
Answers == {"none", "ok", "retryable", "final", "unreachable"}

Least(a, b) == IF a < b THEN a ELSE b
Most(a, b) == IF a < b THEN b ELSE a

\* The longest an attempt may take: client-side timer, or context.WithTimeout.
Limit(t) == t + (IF transport = "ws" THEN Grace ELSE 0)

TypeOK ==
    /\ transport \in Transports /\ mayRetry \in BOOLEAN
    /\ now \in Nat /\ attempt \in 1..MaxAttempts /\ timeout \in 1..Timeout /\ until \in Nat
    /\ pc \in {"calling", "deciding", "sleeping", "returned"}
    /\ answer \in Answers

Init ==
    /\ transport \in Transports /\ mayRetry \in BOOLEAN
    /\ now = 0 /\ attempt = 1 /\ timeout = Timeout /\ until = Limit(Timeout)
    /\ pc = "calling" /\ answer = "none"

\* RetryPolicy.delay: exponential, capped, with jitter either way, never negative.
Delays(n) ==
    LET base == Least(MaxDelay, InitialDelay * Multiplier^(n - 1))
        spread == (base * Jitter) \div 100
    IN  {Most(0, d) : d \in (base - spread)..(base + spread)}

Tick ==
    /\ pc \in {"calling", "sleeping"} /\ now < until
    /\ now' = now + 1
    /\ UNCHANGED <<transport, mayRetry, attempt, timeout, until, pc, answer>>

\* The attempt is answered, or not, within its time.  An attempt that runs out of
\* time ends with deadline_exceeded over a WebSocket and without a response over HTTP.
AttemptEnds ==
    /\ pc = "calling"
    /\ \E a \in Answers \ {"none"} :
         /\ a = "unreachable" => transport = "http"
         /\ now = until => a = IF transport = "ws" THEN "final" ELSE "unreachable"
         /\ answer' = a
    /\ pc' = "deciding"
    /\ UNCHANGED <<transport, mayRetry, now, attempt, timeout, until>>

Retries == mayRetry /\ answer \in {"retryable", "unreachable"}

AttemptsLeft == attempt < MaxAttempts

Remains(d) == (Timeout - now) - d

Return ==
    /\ pc = "deciding" /\ ~(Retries /\ AttemptsLeft)
    /\ pc' = "returned"
    /\ UNCHANGED <<transport, mayRetry, now, attempt, timeout, until, answer>>

\* An answered attempt is repeated only if the delay fits before the deadline.  The
\* WebSocket client also gives the next attempt only the time that is left.
Sleep(d) ==
    /\ pc = "deciding" /\ Retries /\ AttemptsLeft /\ answer = "retryable"
    /\ IF Timeout > now + d
       THEN /\ pc' = "sleeping" /\ until' = now + d
            /\ timeout' = (IF transport = "ws" THEN Remains(d) ELSE timeout)
       ELSE /\ pc' = "returned"
            /\ UNCHANGED <<timeout, until>>
    /\ UNCHANGED <<transport, mayRetry, now, attempt, answer>>

\* An HTTP attempt without a response is repeated without a look at the deadline.
SleepUnreachable(d) ==
    /\ pc = "deciding" /\ Retries /\ AttemptsLeft /\ answer = "unreachable"
    /\ pc' = "sleeping" /\ until' = now + d
    /\ UNCHANGED <<transport, mayRetry, now, attempt, timeout, answer>>

\* The caller's context ends the sleep and the call.
Cancelled ==
    /\ pc = "sleeping"
    /\ pc' = "returned" /\ answer' = "final"
    /\ UNCHANGED <<transport, mayRetry, now, attempt, timeout, until>>

NextAttempt ==
    /\ pc = "sleeping" /\ now = until
    /\ attempt' = attempt + 1 /\ pc' = "calling" /\ answer' = "none"
    /\ until' = now + Limit(timeout)
    /\ UNCHANGED <<transport, mayRetry, now, timeout>>

Next ==
    \/ Tick \/ AttemptEnds \/ Return \/ Cancelled \/ NextAttempt
    \/ \E d \in Delays(attempt) : Sleep(d) \/ SleepUnreachable(d)

Spec == Init /\ [][Next]_vars

-------------------------------------------------------------------------------
(* A call over the WebSocket client, with all its attempts and delays, is   *)
(* over at the deadline, give or take the grace for the peer's own error:   *)
(* retry hands every attempt only what is left.                             *)
SocketCallWithinTimeout == transport = "ws" => now <= Timeout + Grace

(* A call that is neither idempotent nor keyed is sent once, whatever the   *)
(* error, and no call more than MaxAttempts times.                          *)
SentOnceUnlessSafe == attempt <= MaxAttempts /\ (~mayRetry => attempt = 1)

(* What the comment on WithTimeout says, "bounds the whole call", of the    *)
(* HTTP transport as well.                                                  *)
EveryCallWithinTimeout == now <= Timeout + Grace
===============================================================================

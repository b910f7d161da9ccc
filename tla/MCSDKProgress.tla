---------------------------- MODULE MCSDKProgress ----------------------------
(***************************************************************************)
(* What calls, handlers and servers of the Go SDK owe in the end, for one  *)
(* run under fairness. A behaviour is one of the part its first state      *)
(* names, and so is the fairness assumed of it.                            *)
(***************************************************************************)
EXTENDS Integers, Sequences, FiniteSets

VARIABLES
    part,   \* the part whose behaviour this is
    \* ClientLink
    conn, cursor, everConnected, connecting, linkClosed, linkCalls, up, linkReader,
    snap, closer, linkPc, on, dial, linkFailure, queued, linkOutcome, linkAbort, wire,
    \* ClientCall
    queue, failure, terminal, outputAllowance, expectedSeq, outputEnded, idleTimer,
    credit, inputSeq, inputClosed, reader, held, consumer, woken, outcome, sender,
    creditWoken, abort, net, connected, peer,
    \* ServerLink
    draining, closed, serverPc, open, tracked, session, routable, serverWire, awaited,
    drainTold, opening, serverCalls, serverInflight, policy, refused, retrying, drain, toDrain,
    expired, unacked, close,
    \* ServerCall
    shape, honest, lost, in, out, windows, sent, ended, over, mayUse, granted, pc,
    answer, handlerReader, fin, cause, present, inflight, outputCredit, creditClosed,
    input, handlerInputClosed, allowance, inputSequence, read, sawEnd, idle, sp,
    outputMu, outputSequence, outputClosed, handlerTerminal,
    \* Injection
    kind, deps, phase, visit, stack, cache, cleanups, calls, released, resolveFailure,
    crashed

linkVars == <<
    conn, cursor, everConnected, connecting, linkClosed, linkCalls, up, linkReader,
    snap, closer, linkPc, on, dial, linkFailure, queued, linkOutcome, linkAbort, wire>>
callVars == <<
    queue, failure, terminal, outputAllowance, expectedSeq, outputEnded, idleTimer,
    credit, inputSeq, inputClosed, reader, held, consumer, woken, outcome, sender,
    creditWoken, abort, net, connected, peer>>
serverVars == <<
    draining, closed, serverPc, open, tracked, session, routable, serverWire, awaited,
    drainTold, opening, serverCalls, serverInflight, policy, refused, retrying, drain, toDrain,
    expired, unacked, close>>
handlerVars == <<
    shape, honest, lost, in, out, windows, sent, ended, over, mayUse, granted, pc,
    answer, handlerReader, fin, cause, present, inflight, outputCredit, creditClosed,
    input, handlerInputClosed, allowance, inputSequence, read, sawEnd, idle, sp,
    outputMu, outputSequence, outputClosed, handlerTerminal>>
injectionVars == <<
    kind, deps, phase, visit, stack, cache, cleanups, calls, released, resolveFailure,
    crashed>>
vars == <<part, linkVars, callVars, serverVars, handlerVars, injectionVars>>

Link == INSTANCE ClientLink WITH
    Calls <- {"a", "b"}, Bounded <- {"a"}, N <- 1, MaxConns <- 2, MaxPasses <- 1,
    MaxCloses <- 0, reader <- linkReader, pc <- linkPc, failure <- linkFailure,
    outcome <- linkOutcome, abort <- linkAbort, closed <- linkClosed,
    calls <- linkCalls

Call == INSTANCE ClientCall WITH
    InitialCredit <- 1, MaxOutput <- 0, MaxInput <- 1

Output == INSTANCE ClientCall WITH
    InitialCredit <- 1, MaxOutput <- 1, MaxInput <- 0

Server == INSTANCE ServerLink WITH
    Links <- {"l1"}, Clients <- {}, MaxInflight <- 0, MaxWire <- 1, MaxCalls <- 1,
    Refusals <- 1, Policies <- {-1, 0, 1}, pc <- serverPc, calls <- serverCalls, inflight <- serverInflight,
    told <- drainTold, wire <- serverWire

Handled == INSTANCE ServerCall WITH
    Shapes <- {"client", "server"}, Senders <- {"s1"}, Window <- 1, MaxIn <- 0,
    MaxOut <- 1, terminal <- handlerTerminal, credit <- outputCredit,
    inputClosed <- handlerInputClosed, reader <- handlerReader

Inject == INSTANCE Injection WITH
    Types <- {"a", "b"}, MaxDeps <- 2, Handler <- "handler", failure <- resolveFailure

\* What stands for injection while another part runs.
NoTypes == INSTANCE Injection WITH
    Types <- {}, MaxDeps <- 0, Handler <- "handler", failure <- resolveFailure

\* The constants are as each part wants them.
ASSUME Parameters ==
    /\ Link!LinkAssumption /\ Call!CallAssumption
    /\ Handled!HandlerAssumption

Parts == {"link", "call", "output", "server", "handler", "injection"}

Init ==
    /\ part \in Parts
    /\ Link!Init
    /\ (IF part = "output" THEN Output!Init ELSE Call!Init) /\ peer.honest
    /\ Server!Init /\ (part # "server" => policy = Server!Unlimited)
    /\ IF part = "handler" THEN Handled!Init
       ELSE Handled!Init /\ shape = "client" /\ honest
    /\ IF part = "injection" THEN Inject!Init
       ELSE NoTypes!Init

LinkStep ==
    /\ part = "link" /\ Link!Next
    /\ UNCHANGED <<part, callVars, serverVars, handlerVars, injectionVars>>

CallStep ==
    /\ part = "call" /\ Call!Next
    /\ UNCHANGED <<part, linkVars, serverVars, handlerVars, injectionVars>>

OutputStep ==
    /\ part = "output" /\ Output!Next
    /\ UNCHANGED <<part, linkVars, serverVars, handlerVars, injectionVars>>

ServerStep ==
    /\ part = "server" /\ Server!Next
    /\ UNCHANGED <<part, linkVars, callVars, handlerVars, injectionVars>>

HandledStep ==
    /\ part = "handler" /\ Handled!Next
    /\ UNCHANGED <<part, linkVars, callVars, serverVars, injectionVars>>

InjectStep ==
    /\ part = "injection" /\ Inject!Next
    /\ UNCHANGED <<part, linkVars, callVars, serverVars, handlerVars>>

Next ==
    \/ LinkStep \/ CallStep \/ OutputStep \/ ServerStep \/ HandledStep \/ InjectStep

Spec == Init /\ [][Next]_vars

(* Goroutines that can go on do, the application keeps receiving and does  *)
(* not stop inside a Send or an abort, handlers return, and Routers answer *)
(* registrations and server.drain in the end.  Answers, timers, contexts   *)
(* and lost connections owe nothing.                                       *)
FairSpec ==
    /\ Spec
    /\ \A c \in {"a", "b"} :
         /\ WF_linkVars(part = "link" /\ Link!Asking(c))
         /\ WF_linkVars(part = "link" /\ Link!Dialling(c))
         /\ WF_linkVars(part = "link" /\ Link!Opening(c))
    /\ \A k \in 1..2 : WF_linkVars(part = "link" /\ Link!ReaderStep(k))
    /\ WF_callVars(part = "call" /\ Call!ReaderStep)
    /\ WF_callVars(part = "call" /\ Call!Receiving)
    /\ WF_callVars(part = "call" /\ Call!Sending)
    /\ \A a \in {"app", "sender"} :
         /\ WF_callVars(part = "call" /\ Call!AbortChecks(a))
         /\ WF_callVars(part = "call" /\ Call!AbortFails(a))
         /\ WF_callVars(part = "call" /\ Call!AbortTells(a))
    /\ WF_callVars(part = "output" /\ Output!ReaderStep)
    /\ WF_callVars(part = "output" /\ Output!Receiving)
    /\ WF_callVars(part = "output" /\ Output!Sending)
    /\ \A a \in {"app", "sender"} :
         /\ WF_callVars(part = "output" /\ Output!AbortChecks(a))
         /\ WF_callVars(part = "output" /\ Output!AbortFails(a))
         /\ WF_callVars(part = "output" /\ Output!AbortTells(a))
    /\ WF_serverVars(part = "server" /\ Server!Link("l1"))
    /\ WF_serverVars(part = "server" /\ Server!RouterAccepts("l1"))
    /\ WF_serverVars(part = "server" /\ Server!AckDrain("l1"))
    /\ WF_serverVars(part = "server" /\ Server!Serve("l1"))
    /\ WF_serverVars(part = "server" /\ Server!CountCall("l1"))
    /\ WF_serverVars(part = "server" /\ Server!CallEnds("l1"))
    /\ WF_serverVars(part = "server" /\ Server!SessionEnds("l1"))
    /\ WF_serverVars(part = "server" /\ Server!DrainSteps)
    /\ WF_serverVars(part = "server" /\ Server!CloseReturns)
    /\ WF_handlerVars(part = "handler" /\ Handled!ReadStep /\ fin["reader"] \in {"no", "done"})
    /\ WF_handlerVars(part = "handler" /\ Handled!RunSteps)
    /\ WF_handlerVars(part = "handler" /\ Handled!HandlerSteps)
    /\ WF_handlerVars(part = "handler" /\ Handled!SendSteps("s1"))
    /\ \A a \in Handled!Finishers : WF_handlerVars(part = "handler" /\ Handled!Finish(a))
    /\ WF_injectionVars(part = "injection" /\ Inject!Next)

-------------------------------------------------------------------------------
(* Properties *)

(* failAll, Client.connection, Recv, creditWindow.close, supervise, Drain, *)
(* finish and resolve: a call on a connection that died ends, although it  *)
(* may have been opened after the snapshot; a caller that asks for the     *)
(* connection gets it, dials, or gets an error; an answer that was read    *)
(* reaches an application that keeps receiving, and a sender does not wait *)
(* for credit of a call that is over; a link that lost its Router serves   *)
(* again, unless the attempts of its reconnect policy are used up, Drain   *)
(* ends and after Close every link's goroutine does; when a call of a      *)
(* handler is over, none of its goroutines waits any more; and the         *)
(* resolution of dependencies ends.                                        *)
NobodyWaitsForEver ==
    /\ part = "link" =>
         /\ Link!DeadCallsEnd /\ Link!CallersGetOn
    /\ part = "call" =>
         /\ Call!EndReachesReceiver /\ Call!SenderReleased
    /\ part = "output" => Output!EndReachesReceiver
    /\ part = "server" =>
         /\ Server!LinkComesBack /\ Server!StopEnds
    /\ part = "handler" => Handled!Released
    /\ part = "injection" => Inject!ResolutionEnds

===============================================================================

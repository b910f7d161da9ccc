-------------------------- MODULE MCRouterProgress --------------------------
(***************************************************************************)
(* What the Router owes in the end, for one run under fairness: the        *)
(* deadline loop, connections with tokens, HTTP requests and their         *)
(* streams, the process, and the meshes that start and share one. A        *)
(* behaviour is one of the part its first state names, and so is the       *)
(* fairness assumed of it.                                                 *)
(***************************************************************************)
EXTENDS Integers, Sequences, FiniteSets

CONSTANT Nothing \* no timeout, nobody, no subprocess

Identity(n, k, roles, register, call) ==
    [username |-> n, kind |-> k, token |-> "no token", expires |-> 0,
     roles |-> roles, register |-> register, call |-> call]
RootAccount == [n \in {"root"} |-> Identity(n, "account", {"client", "server"}, {<<"*">>}, {<<"*">>})]
AnonymousCaller == Identity("anonymous", "anonymous", {"client"}, {}, {<<"a", "m">>})
Scope(s, methods, register) == [service |-> s, methods |-> methods, register |-> register]
TokenRequests ==
    { [ttl |-> 1, scopes |-> <<Scope("a", {"m"}, TRUE)>>],
      [ttl |-> 2, scopes |-> <<Scope("a", {"*"}, FALSE)>>],
      [ttl |-> 1, scopes |-> <<Scope("auth", {"issue_token"}, FALSE)>>],
      [ttl |-> 1, scopes |-> <<Scope("a", {"*"}, FALSE), Scope("a", {}, TRUE)>>],
      [ttl |-> 0, scopes |-> <<Scope("a", {"m"}, FALSE)>>] }

VARIABLES
    part,   \* the part whose behaviour this is
    \* Deadlines
    deadlineNow, routeStatus, asked, openedAt, deadlines, index, deadline, woken, loop,
    next, aim, lag, timer, loopClosed,
    \* Accounts
    now, tokens, used, verified, connPc, header, user, role, cancelled, serving,
    opened, connections, anonymous,
    \* HTTPGateway
    gatewayPc, shape, bounded, gatewayStatus, outbox, route, waits, stranded, ended, gone,
    httpInflight, peers, registered, valid, closed, close,
    \* RouterProcess
    file, made, port, pc, bound, owned, closing, processCalls, replaced, abandoned,
    \* Mesh
    proc, announced, told, starter, lock, spawned, routerRunning, mounted, active,
    owns, hasClient, srv, home, overlapped, th,
    \* HTTPServerStream
    itemsCredit, itemsSent, finished, itemsOutbox, begun, started, written, blocked,
    returned, itemsEnded, itemsBody, status, got, itemsOutcome,
    \* HTTPClientStream
    left, writer, linesBody, linesReader, line, linesLoop, linesCredit, reading, linesEnded,
    sequence, linesOutbox, toInstance, received, linesGranted, linesSawEnd, answered,
    done, response

deadlineVars == <<
    deadlineNow, routeStatus, asked, openedAt, deadlines, index, deadline, woken, loop,
    next, aim, lag, timer, loopClosed>>
accountVars == <<
    now, tokens, used, verified, connPc, header, user, role, cancelled, serving,
    opened, connections, anonymous>>
gatewayVars == <<
    gatewayPc, shape, bounded, gatewayStatus, outbox, route, waits, stranded, ended, gone,
    httpInflight, peers, registered, valid, closed, close>>
processVars == <<
    file, made, port, pc, bound, owned, closing, processCalls, replaced, abandoned>>
meshVars == <<
    proc, announced, told, starter, lock, spawned, routerRunning, mounted, active,
    owns, hasClient, srv, home, overlapped, th>>
itemsVars == <<
    itemsCredit, itemsSent, finished, itemsOutbox, begun, started, written, blocked,
    returned, itemsEnded, itemsBody, status, got, itemsOutcome>>
linesVars == <<
    left, writer, linesBody, linesReader, line, linesLoop, linesCredit, reading, linesEnded,
    sequence, linesOutbox, toInstance, received, linesGranted, linesSawEnd, answered,
    done, response>>
vars == <<part, deadlineVars, accountVars, gatewayVars, processVars, meshVars, itemsVars, linesVars>>

Expiry == INSTANCE Deadlines WITH
    Routes <- {"a", "b"}, Timeouts <- {1, 2}, NoTimeout <- Nothing, Millisecond <- 1,
    Grace <- 1, Hour <- 20, Width <- 5, MaxTime <- 5, MaxLag <- 1, now <- deadlineNow,
    opened <- openedAt, closed <- loopClosed, status <- routeStatus

Tokens == INSTANCE Accounts WITH
    Services <- {"a", "auth"}, Reserved <- {"auth"}, AuthService <- "auth",
    Methods <- {"m", "issue_token", "revoke_token", "whoami"}, Usernames <- {"root"},
    Accounts <- RootAccount, KeyIDs <- {}, APIKeys <- <<>>,
    Anonymous <- AnonymousCaller, Requests <- TokenRequests, Conns <- {"c1", "c2"},
    TokenIDs <- {"t1"}, TokenCapacity <- 1, MaxTTL <- 2, MaxScopes <- 2, Slots <- 1,
    CacheSize <- 1, CacheTTL <- 1, MaxConnections <- 2, MaxAnonymousConnections <- 1,
    MaxCalls <- 1, MaxTime <- 1, pc <- connPc

Gateway == INSTANCE HTTPGateway WITH
    Requests <- {"q1"}, HTTPMaxInflight <- 1, Shapes <- {"unary", "server_stream"},
    pc <- gatewayPc, status <- gatewayStatus

Process == INSTANCE RouterProcess WITH
    Routers <- {"r1", "r2"}, WithMetrics <- {"r1", "r2"}, Operator <- TRUE, MaxCalls <- 1,
    MaxFiles <- 3, calls <- processCalls, left <- abandoned

Sharing == INSTANCE Mesh WITH
    Threads <- {"t1", "t2"}, Meshes <- {"m1"}, Procs <- {"p1"}, Servers <- {"s1"},
    DirectUse <- FALSE, None <- Nothing,
    running <- routerRunning

Streamed == INSTANCE HTTPServerStream WITH
    streamCredit <- 4, Items <- 5, Buffer <- 2, credit <- itemsCredit,
    outbox <- itemsOutbox, ended <- itemsEnded, body <- itemsBody,
    outcome <- itemsOutcome, sent <- itemsSent

Posted == INSTANCE HTTPClientStream WITH
    Window <- 1, Items <- 2, credit <- linesCredit, reader <- linesReader,
    ended <- linesEnded, body <- linesBody, outbox <- linesOutbox,
    granted <- linesGranted, sawEnd <- linesSawEnd, loop <- linesLoop

\* The constants are as each part wants them.
ASSUME Parameters ==
    /\ Expiry!DeadlinesAssumption /\ Tokens!AccountsAssumption /\ Streamed!CreditAssumption
    /\ Gateway!GatewayAssumption

Parts == {
    "deadlines", "tokens", "gateway", "process", "mesh", "items", "lines"}

Init ==
    /\ part \in Parts
    /\ Expiry!Init
    /\ Tokens!Init
    /\ IF part = "gateway" THEN Gateway!Init
       ELSE Gateway!Init /\ registered = "none"
    /\ Process!Init
    /\ Sharing!Init
    /\ Streamed!Init
    /\ Posted!Init

ExpiryStep ==
    /\ part = "deadlines" /\ Expiry!Next
    /\ UNCHANGED <<part, accountVars, gatewayVars, processVars, meshVars, itemsVars,
                  linesVars>>

TokensStep ==
    /\ part = "tokens" /\ Tokens!Next
    /\ UNCHANGED <<part, deadlineVars, gatewayVars, processVars, meshVars, itemsVars,
                  linesVars>>

GatewayStep ==
    /\ part = "gateway" /\ Gateway!Next
    /\ UNCHANGED <<part, deadlineVars, accountVars, processVars, meshVars, itemsVars,
                  linesVars>>

ProcessStep ==
    /\ part = "process" /\ Process!Next
    /\ UNCHANGED <<part, deadlineVars, accountVars, gatewayVars, meshVars, itemsVars,
                  linesVars>>

SharingStep ==
    /\ part = "mesh" /\ Sharing!Next
    /\ UNCHANGED <<part, deadlineVars, accountVars, gatewayVars, processVars, itemsVars,
                  linesVars>>

StreamedStep ==
    /\ part = "items" /\ Streamed!Next
    /\ UNCHANGED <<part, deadlineVars, accountVars, gatewayVars, processVars, meshVars,
                  linesVars>>

PostedStep ==
    /\ part = "lines" /\ Posted!Next
    /\ UNCHANGED <<part, deadlineVars, accountVars, gatewayVars, processVars, meshVars,
                  itemsVars>>

Next ==
    \/ ExpiryStep \/ TokensStep \/ GatewayStep \/ ProcessStep \/ SharingStep
    \/ StreamedStep \/ PostedStep

Spec == Init /\ [][Next]_vars

(* The deadline loop, its timer and the clock run.  Handlers of connections *)
(* and of requests run, a peer whose context ended is left by its handler,  *)
(* deadlines fire, Close goes through, and a process that starts or stops   *)
(* goes on; so do the operations of a Mesh, and a subprocess announces      *)
(* itself or exits, and exits when told.  The writer of a body ends it, or  *)
(* the read deadline does; instances send and read what they have.  Frames, *)
(* answers, signals and new calls may never come.  (The                     *)
(* steps of Expiry!Next from "look" to "arm" are the Look steps.)           *)
FairSpec ==
    /\ Spec
    /\ WF_loop(part = "deadlines" /\ loop = "look" /\ loop' = "arm")
    /\ WF_deadlineVars(part = "deadlines" /\ Expiry!Arm)
    /\ WF_deadlineVars(part = "deadlines" /\ (Expiry!WakeUp \/ Expiry!TimerWakes \/ Expiry!Stop))
    /\ WF_deadlineVars(part = "deadlines" /\ Expiry!TimerFires)
    /\ WF_deadlineVars(part = "deadlines" /\ Expiry!Tick)
    /\ \A c \in {"c1", "c2"} :
         /\ WF_accountVars(part = "tokens" /\ Tokens!Check(c))
         /\ WF_accountVars(part = "tokens" /\ (Tokens!EnterPeers(c) \/ Tokens!TooLate(c)))
         /\ WF_accountVars(part = "tokens" /\ Tokens!CtxEnded(c) /\ Tokens!Leave(c))
    /\ WF_gatewayVars(part = "gateway" /\ Gateway!Serve("q1"))
    /\ WF_gatewayVars(part = "gateway" /\ Gateway!Deadline("q1"))
    /\ WF_gatewayVars(part = "gateway" /\ Gateway!CloseCancels)
    /\ WF_gatewayVars(part = "gateway" /\ Gateway!CloseDone)
    /\ \A r \in {"r1", "r2"} :
         /\ WF_processVars(part = "process" /\ Process!Starting(r))
         /\ WF_processVars(part = "process" /\ Process!Leaving(r))
         /\ WF_processVars(part = "process" /\ pc[r] = "leaving" /\ Process!CloseBegins(r))
         /\ WF_processVars(part = "process" /\ Process!Closing(r))
    /\ \A t \in {"t1", "t2"} :
         /\ WF_meshVars(part = "mesh" /\ Sharing!Starting(t))
         /\ WF_meshVars(part = "mesh" /\ Sharing!Ending(t))
         /\ WF_meshVars(part = "mesh" /\ Sharing!Using(t))
    /\ WF_meshVars(part = "mesh" /\ Sharing!Announce("p1"))
    /\ WF_meshVars(part = "mesh" /\ Sharing!ReaderReaps("p1"))
    /\ WF_meshVars(part = "mesh" /\ "p1" \in told /\ Sharing!Exit("p1"))
    /\ WF_itemsVars(part = "items" /\ Streamed!HandlerSteps)
    /\ WF_itemsVars(part = "items" /\ Streamed!ClientSteps)
    /\ WF_itemsVars(part = "items" /\ Streamed!InstanceItem)
    /\ WF_linesVars(part = "lines" /\ Posted!WriteEnds)
    /\ WF_linesVars(part = "lines" /\ Posted!ReadLine)
    /\ WF_linesVars(part = "lines" /\ Posted!ReaderExits)
    /\ WF_linesVars(part = "lines" /\ Posted!LoopSteps)
    /\ WF_linesVars(part = "lines" /\ Posted!Grant)
    /\ WF_linesVars(part = "lines" /\ Posted!Receive)
    /\ WF_linesVars(part = "lines" /\ Posted!AnswerAtEnd)

-------------------------------------------------------------------------------
(* Properties *)

(* expireLoop, Router.handle, serveHTTP, run, LocalRouter: a call with a   *)
(* timeout ends, unless the Router is closed; a connection whose token was *)
(* revoked or ran out comes to its end without another frame, and every    *)
(* request to connect is let in or turned away; an HTTP request with a     *)
(* timeout ends, even when the method changed its shape after the look-up, *)
(* unless it has joined the call of another, whose end it waits for, and   *)
(* any request ends with its client, its credentials or the Router; a      *)
(* Router told to stop ends; every operation of a Mesh returns; an         *)
(* instance that runs out of credit gets to send all its items, and both   *)
(* goroutines of a stream end.                                             *)
EverybodyIsReleased ==
    /\ part = "deadlines" => Expiry!OverdueCallsEnd
    /\ part = "tokens" =>
         /\ Tokens!TokenEnds /\ Tokens!RequestAnswered
    /\ part = "gateway" => Gateway!RequestEnds
    /\ part = "process" => Process!StopsWhenTold
    /\ part = "mesh" => Sharing!OperationsEnd
    /\ part = "items" =>
         /\ Streamed!NeverStalls /\ Streamed!StreamEnds
    /\ part = "lines" => Posted!BothEnd

===============================================================================

----------------------------- MODULE ServerLink ------------------------------
(***************************************************************************)
(* The sessions of the Go SDK's server (src/meshcall-go/server.go): the    *)
(* links that register with Routers and come back after a loss, the        *)
(* clients that connect directly, the admission of calls under             *)
(* max_inflight, Drain and Close.  What one call does is in ServerCall.    *)
(***************************************************************************)
EXTENDS Integers, Sequences, FiniteSets, Functions

CONSTANTS
    Links,        \* Router links
    Clients,      \* clients of direct mode
    MaxInflight,  \* ServerOptions.MaxInflight; 0 is no limit
    MaxWire,      \* frames under way on one connection, a bound
    MaxCalls,     \* calls of one session at a time, a bound
    Policies,     \* the reconnect policies: how often a lost link tries again
    Refusals      \* failed attempts of one link in a row, a bound

Peers == Links \cup Clients

\* ReconnectPolicy: 0 is Disabled, n > 0 is MaxAttempts, and its default is no limit.
Unlimited == -1

\* What is assumed of the constants, wherever they are given.
ServerLinkAssumption ==
    /\ IsFiniteSet(Peers) /\ Links \cap Clients = {}
    /\ {MaxInflight, MaxWire, MaxCalls, Refusals} \subseteq Nat
    /\ Policies \subseteq Nat \cup {Unlimited}

VARIABLES
    draining, closed,
    pc,         \* of the goroutine of each peer: supervise and register, or accept
    open,       \* the connections that are open
    tracked,    \* the peers whose connection has its session in Server.sessions
    session,    \* the links with routerLink.session set
    routable,   \* the peers that may send new calls
    wire,       \* what each peer has sent: "call" or "ack"
    awaited,    \* the sessions with a drain acknowledgement awaited
    told,       \* the sessions that were sent server.drain
    opening,    \* the sessions between the check of max_inflight and the count
    calls,      \* the calls of each session that have not finished
    inflight,   \* Server.inflight
    policy,     \* ServerOptions.Reconnect
    refused,    \* the attempts of each link's supervisor that failed, in a row
    retrying,   \* the links past their first registration, which ConnectRouter makes
    drain, toDrain,   \* what Drain does, and the links it has yet to look at
    expired,    \* the context of Drain has ended
    unacked,    \* the links that owed the acknowledgement when Drain returned nil
    close

server == <<draining, closed, tracked, session, inflight>>
peer   == <<open, routable, wire>>
admit  == <<opening, calls>>
ctx    == <<expired, unacked>>
ending == <<awaited, told, drain, toDrain, close, ctx>>
links  == <<policy, refused, retrying>>
vars   == <<server, peer, admit, ending, pc, links>>

TypeOK ==
    /\ draining \in BOOLEAN /\ closed \in BOOLEAN
    /\ pc \in [Peers -> {"down", "connecting", "accepted", "made", "serving", "ended"}]
    /\ open \subseteq Peers /\ tracked \subseteq Peers /\ session \subseteq Links
    /\ routable \subseteq Peers /\ awaited \subseteq Links /\ told \subseteq Links
    /\ opening \subseteq Peers
    /\ wire \in [Peers -> Seq({"call", "ack"})] /\ calls \in [Peers -> 0..MaxCalls]
    /\ inflight \in Nat /\ refused \in [Links -> 0..Refusals] /\ retrying \subseteq Links
    /\ policy \in Policies
    /\ drain \in {"idle", "telling", "acks", "polling", "done", "gaveUp"} /\ toDrain \subseteq Links
    /\ expired \in BOOLEAN /\ unacked \subseteq Links
    /\ close \in {"idle", "closing", "done"}

\* NewServer, then ConnectRouter or Listen.
Init ==
    /\ draining = FALSE /\ closed = FALSE
    /\ pc = [p \in Peers |-> "down"] /\ open = {} /\ tracked = {} /\ session = {}
    /\ routable = {} /\ wire = [p \in Peers |-> <<>>]
    /\ awaited = {} /\ told = {} /\ opening = {} /\ calls = [p \in Peers |-> 0]
    /\ inflight = 0 /\ refused = [l \in Links |-> 0] /\ retrying = {}
    /\ policy \in Policies
    /\ drain = "idle" /\ toDrain = {} /\ expired = FALSE /\ unacked = {} /\ close = "idle"

Stopping == closed \/ draining

-------------------------------------------------------------------------------
(* A link registers: it connects, greets and sends server.register; the    *)
(* Router accepts and may route calls at once; the session is made, and    *)
(* only then does the link look whether the server is stopping.            *)

\* ReconnectPolicy.delays: it is made anew for each loss, so it counts the failed
\* attempts since; ConnectRouter's own attempt is none of them.
MayRetry(l) == policy = Unlimited \/ refused[l] < policy

\* supervise and ConnectRouter; Close ends the wait for the next attempt.
Connect(l) ==
    /\ pc[l] = "down" /\ ~closed /\ (l \in retrying => MayRetry(l))
    /\ pc' = [pc EXCEPT ![l] = "connecting"] /\ open' = open \cup {l}
    /\ wire' = [wire EXCEPT ![l] = <<>>] /\ tracked' = tracked \ {l}
    /\ UNCHANGED <<draining, closed, session, inflight, routable, admit, ending, links>>

RouterAccepts(l) ==
    /\ pc[l] = "connecting" /\ l \in open
    /\ pc' = [pc EXCEPT ![l] = "accepted"] /\ routable' = routable \cup {l}
    /\ refused' = [refused EXCEPT ![l] = 0]
    /\ UNCHANGED <<server, open, wire, admit, ending, policy, retrying>>

\* A failed attempt is the last one if the server is stopping; ConnectRouter's own
\* attempt is always followed by supervise.
GiveUpOrRetry(l) ==
    /\ pc' = [pc EXCEPT ![l] = IF Stopping /\ l \in retrying THEN "ended" ELSE "down"]
    /\ retrying' = retrying \cup {l}

\* The Router refuses or cannot be reached, or the server's context is done.
RegisterFails(l) ==
    /\ pc[l] = "connecting" /\ (refused[l] < Refusals \/ Stopping)
    /\ open' = open \ {l} /\ GiveUpOrRetry(l)
    /\ refused' = [refused EXCEPT ![l] = IF l \in retrying /\ @ < Refusals THEN @ + 1 ELSE @]
    /\ UNCHANGED <<server, routable, wire, admit, ending, policy>>

\* "Giving up on Router reconnection": the policy allows no further attempt.
GivesUp(l) ==
    /\ pc[l] = "down" /\ l \in retrying /\ ~MayRetry(l)
    /\ pc' = [pc EXCEPT ![l] = "ended"]
    /\ UNCHANGED <<server, peer, admit, ending, links>>

NewSession(p) ==
    /\ pc[p] = "accepted"
    /\ tracked' = tracked \cup {p}
    /\ pc' = [pc EXCEPT ![p] = IF p \in Links THEN "made" ELSE "serving"]
    /\ UNCHANGED <<draining, closed, session, inflight, peer, admit, ending, links>>

StopSeen == Stopping

Registered(l) ==
    /\ pc[l] = "made" /\ ~StopSeen
    /\ session' = session \cup {l} /\ pc' = [pc EXCEPT ![l] = "serving"]
    /\ retrying' = retrying \cup {l}
    /\ UNCHANGED <<draining, closed, tracked, inflight, peer, admit, ending, policy, refused>>

\* The connection is closed again; its session is never served, nor taken out of
\* Server.sessions.
RegisteredTooLate(l) ==
    /\ pc[l] = "made" /\ StopSeen
    /\ open' = open \ {l} /\ routable' = routable \ {l} /\ wire' = [wire EXCEPT ![l] = <<>>]
    /\ GiveUpOrRetry(l)
    /\ UNCHANGED <<server, admit, ending, policy, refused>>

\* Direct mode: the listener takes a client, which then greets.
Accept(c) ==
    /\ pc[c] = "down" /\ ~Stopping
    /\ pc' = [pc EXCEPT ![c] = "accepted"] /\ open' = open \cup {c} /\ routable' = routable \cup {c}
    /\ UNCHANGED <<server, wire, admit, ending, links>>

-------------------------------------------------------------------------------
(* The peer.  A Router that has read server.drain stops routing and        *)
(* acknowledges; frames arrive in order.                                   *)

SendCall(p) ==
    /\ p \in open \cap routable /\ Len(wire[p]) < MaxWire
    /\ calls[p] + Cardinality(opening \cap {p}) + Len(wire[p]) < MaxCalls
    /\ wire' = [wire EXCEPT ![p] = Append(@, "call")]
    /\ UNCHANGED <<server, open, routable, admit, ending, pc, links>>

AckDrain(l) ==
    /\ l \in told \cap open
    /\ routable' = routable \ {l} /\ told' = told \ {l}
    /\ wire' = [wire EXCEPT ![l] = Append(@, "ack")]
    /\ UNCHANGED <<server, open, admit, awaited, drain, toDrain, close, ctx, pc, links>>

\* The connection is lost (during a registration: RegisterFails).
Break(p) ==
    /\ p \in open /\ pc[p] # "connecting"
    /\ open' = open \ {p} /\ routable' = routable \ {p} /\ told' = told \ {p}
    /\ wire' = [wire EXCEPT ![p] = <<>>]
    /\ UNCHANGED <<server, admit, awaited, drain, toDrain, close, ctx, pc, links>>

-------------------------------------------------------------------------------
(* session.serve and session.open.                                         *)

Reads(p, f) == pc[p] = "serving" /\ p \in open /\ p \notin opening /\ wire[p] # <<>> /\ Head(wire[p]) = f

ReceiveAck(l) ==
    /\ Reads(l, "ack")
    /\ wire' = [wire EXCEPT ![l] = Tail(@)] /\ awaited' = awaited \ {l}
    /\ UNCHANGED <<server, open, routable, admit, told, drain, toDrain, close, ctx, pc, links>>

AtLimit == MaxInflight > 0 /\ inflight >= MaxInflight

\* Refused at the limit, or for one of the other reasons of session.open.
RejectCall(p) ==
    /\ Reads(p, "call")
    /\ wire' = [wire EXCEPT ![p] = Tail(@)]
    /\ UNCHANGED <<server, open, routable, admit, ending, pc, links>>

AdmitCall(p) ==
    /\ Reads(p, "call") /\ ~AtLimit
    /\ wire' = [wire EXCEPT ![p] = Tail(@)] /\ opening' = opening \cup {p}
    /\ UNCHANGED <<server, open, routable, calls, ending, pc, links>>

CountCall(p) ==
    /\ p \in opening
    /\ opening' = opening \ {p} /\ calls' = [calls EXCEPT ![p] = @ + 1]
    /\ inflight' = inflight + 1
    /\ UNCHANGED <<draining, closed, tracked, session, peer, ending, pc, links>>

CountDown(p) == inflight - 1

\* The handler returns, or the call was cancelled: the first finish counts down.
CallEnds(p) ==
    /\ calls[p] > 0
    /\ calls' = [calls EXCEPT ![p] = @ - 1] /\ inflight' = CountDown(p)
    /\ UNCHANGED <<draining, closed, tracked, session, peer, opening, ending, pc, links>>

\* The reader sees the connection gone; a link is supervised, a client is not.
SessionEnds(p) ==
    /\ pc[p] = "serving" /\ p \notin open /\ p \notin opening
    /\ tracked' = tracked \ {p} /\ session' = session \ {p} /\ awaited' = awaited \ {p}
    /\ pc' = [pc EXCEPT ![p] = IF p \in Links /\ ~Stopping THEN "down" ELSE "ended"]
    /\ UNCHANGED <<draining, closed, inflight, peer, admit, told, drain, toDrain, close, ctx, links>>

\* Close ends the wait for the next registration attempt.
SuperviseEnds(l) ==
    /\ pc[l] = "down" /\ closed
    /\ pc' = [pc EXCEPT ![l] = "ended"]
    /\ UNCHANGED <<server, peer, admit, ending, links>>

-------------------------------------------------------------------------------
(* Drain.                                                                  *)

DrainBegins ==
    /\ drain = "idle" /\ ~closed
    /\ draining' = TRUE /\ drain' = "telling" /\ toDrain' = Links
    /\ UNCHANGED <<closed, tracked, session, inflight, peer, admit, awaited, told, close, ctx, pc, links>>

\* server.drain is sent where there is a session; the acknowledgement is awaited first.
Tell(l) ==
    /\ drain = "telling" /\ l \in toDrain
    /\ toDrain' = toDrain \ {l}
    /\ IF l \in session /\ l \in open
       THEN awaited' = awaited \cup {l} /\ told' = told \cup {l}
       ELSE UNCHANGED <<awaited, told>>
    /\ UNCHANGED <<server, peer, admit, drain, close, ctx, pc, links>>

Told ==
    /\ drain = "telling" /\ toDrain = {}
    /\ drain' = "acks"
    /\ UNCHANGED <<server, peer, admit, awaited, told, toDrain, close, ctx, pc, links>>

\* Mutant: the acknowledgements are not waited for.
NoneAwaited == TRUE

\* Every acknowledgement has come, or the connection it was to come on is closed.
AllAcked == \A l \in awaited : l \notin open

\* The wait for the acknowledgements also ends with the context.
Acked ==
    /\ drain = "acks" /\ (AllAcked \/ expired)
    /\ drain' = "polling"
    /\ UNCHANGED <<server, peer, admit, awaited, told, toDrain, close, ctx, pc, links>>

\* Nothing is in flight, and Drain returns nil, also if the context has ended.
Polled ==
    /\ drain = "polling" /\ inflight <= 0
    /\ drain' = "done" /\ unacked' = awaited \cap open
    /\ UNCHANGED <<server, peer, admit, awaited, told, toDrain, close, expired, pc, links>>

DrainGivesUp ==
    /\ drain = "polling" /\ inflight > 0 /\ expired
    /\ drain' = "gaveUp"
    /\ UNCHANGED <<server, peer, admit, awaited, told, toDrain, close, ctx, pc, links>>

\* The context that the caller gave to Drain ends.
DrainExpires ==
    /\ drain \in {"telling", "acks", "polling"} /\ ~expired
    /\ expired' = TRUE
    /\ UNCHANGED <<server, peer, admit, awaited, told, drain, toDrain, close, unacked, pc, links>>

(* Close: the flag and the snapshot of the sessions, then their            *)
(* connections.                                                            *)
CloseBegins ==
    /\ close = "idle" /\ drain \in {"idle", "done", "gaveUp"}
    /\ closed' = TRUE /\ close' = "closing"
    /\ open' = open \ tracked /\ routable' = routable \ tracked
    /\ wire' = [p \in Peers |-> IF p \in tracked THEN <<>> ELSE wire[p]]
    /\ told' = told \ tracked
    /\ UNCHANGED <<draining, tracked, session, inflight, admit, awaited, drain, toDrain, ctx, pc, links>>

CloseReturns ==
    /\ close = "closing"
    /\ close' = "done"
    /\ UNCHANGED <<server, peer, admit, awaited, told, drain, toDrain, ctx, pc, links>>

Serve(p) == ReceiveAck(p) \/ RejectCall(p) \/ AdmitCall(p)

Link(l) ==
    \/ Connect(l) \/ NewSession(l) \/ Registered(l) \/ RegisteredTooLate(l)
    \/ GivesUp(l) \/ SuperviseEnds(l)

DrainSteps == Told \/ Acked \/ Polled \/ DrainGivesUp \/ \E l \in Links : Tell(l)

Next ==
    \/ \E l \in Links : Link(l) \/ RouterAccepts(l) \/ RegisterFails(l) \/ AckDrain(l)
    \/ \E c \in Clients : Accept(c) \/ NewSession(c)
    \/ \E p \in Peers : Serve(p) \/ CountCall(p) \/ CallEnds(p) \/ SessionEnds(p) \/ SendCall(p) \/ Break(p)
    \/ DrainBegins \/ DrainSteps \/ DrainExpires \/ CloseBegins \/ CloseReturns

Spec == Init /\ [][Next]_vars

\* Goroutines that can go on do, handlers return, and Routers answer registrations
\* (accept them in the end) and server.drain.
Fairness ==
    /\ \A l \in Links : WF_vars(Link(l)) /\ WF_vars(RouterAccepts(l)) /\ WF_vars(AckDrain(l))
    /\ \A p \in Peers : /\ WF_vars(Serve(p)) /\ WF_vars(CountCall(p))
                        /\ WF_vars(CallEnds(p)) /\ WF_vars(SessionEnds(p))
    /\ WF_vars(DrainSteps) /\ WF_vars(CloseReturns)

FairSpec == Spec /\ Fairness

-------------------------------------------------------------------------------
\* The calls that have begun and not finished, one element for each.
Running == {c \in Peers \X (1..MaxCalls) : c[2] <= calls[c[1]]}

(* The counter is exactly the calls that have begun and not finished, also *)
(* those whose connection is gone: what Drain waits for and max_inflight   *)
(* limits is real.                                                         *)
InflightIsReal == inflight = Cardinality(Running)

(* When Drain returns nil, no call of a Router that is still connected and *)
(* has acknowledged is running, being opened or waiting to be read: the    *)
(* acknowledgement came after the last of them.  A Router that has not     *)
(* acknowledged is left only where the context of Drain ended, for then    *)
(* Drain returns nil as soon as nothing is in flight.  (On a connection    *)
(* that was lost a call may stand between its admission and its count,     *)
(* which Drain cannot see.)                                                *)
DrainedIsIdle ==
    drain = "done" =>
        /\ unacked # {} => expired
        /\ \A l \in (Links \cap open) \ unacked :
             pc[l] = "serving" => calls[l] = 0 /\ l \notin opening /\ "call" \notin Range(wire[l])

(* After Close no Router connection stays behind: each is closed, or its   *)
(* link is still registering and will find the server stopped.             *)
ClosedLinksEnd ==
    close = "done" => \A l \in Links \cap open : pc[l] \in {"connecting", "accepted", "made"}

(* What Drain and Close promise those who call them: the counter is the    *)
(* calls that have begun and not finished, those of a lost connection      *)
(* included; when Drain returns nil, no call of a Router still connected   *)
(* that has acknowledged is running, being opened or waiting to be read,   *)
(* and unless its context ended they all have; after Close every Router    *)
(* connection is closed, or its link is registering and will find the      *)
(* server stopped.                                                         *)
DrainedMeansIdle == TypeOK /\ InflightIsReal /\ DrainedIsIdle /\ ClosedLinksEnd

(* A link that loses its Router serves again, unless the server stops or   *)
(* its supervisor has used up the attempts of the reconnect policy.        *)
LinkComesBack ==
    \A l \in Links :
        pc[l] = "down" ~> (pc[l] = "serving" \/ Stopping \/ (pc[l] = "ended" /\ ~MayRetry(l)))

(* Drain ends, and after Close every link's goroutine does.                *)
StopEnds ==
    /\ drain = "telling" ~> drain \in {"done", "gaveUp"}
    /\ \A l \in Links : (closed ~> pc[l] = "ended")

(* WithMaxInflight's comment taken at its word: "caps concurrent in-flight *)
(* calls across all services on this server".                              *)
InflightCapped == MaxInflight > 0 => inflight <= MaxInflight

(* Drain's comment taken at its word: "stops taking new calls".            *)
DrainTakesNoCall == [][drain = "done" => inflight' <= inflight]_vars

(* Close's comment taken at its word: "connections close".                 *)
ClosedMeansDisconnected == close = "done" => \A p \in Peers : pc[p] = "serving" => p \notin open
===============================================================================

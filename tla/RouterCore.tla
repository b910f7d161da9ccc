------------------------------ MODULE RouterCore ------------------------------
(***************************************************************************)
(* The routing core of meshcall-router: the tables that Router.mu guards   *)
(* (peers, instances, service pool, call routes, idempotency entries,      *)
(* per-instance health) and every critical section that changes them.      *)
(* Each action is one critical section, so each is atomic in the program   *)
(* too; the interleavings are those of the connections' reader goroutines, *)
(* the writers, the deadline loop and the goroutine that shuts the Router  *)
(* down.                                                                   *)
(*                                                                         *)
(* A connection is a *peer: Client and Instance are sets of connections    *)
(* that are made at most once, so that a reconnect is another element (it  *)
(* may carry the same instance id).  Frames are not stored: view records   *)
(* what a caller has been sent for a call, and queueing is module Outbox.  *)
(* One service is modelled; registration of several is module Registry.    *)
(* Time is abstract: a deadline, a cooldown or the lifetime of an          *)
(* idempotency entry may have passed whenever it is looked at.             *)
(***************************************************************************)
EXTENDS Integers, FiniteSets

CONSTANTS
  Client,       \* connections of role client (WebSocket or HTTP request)
  HTTPClient,   \* those of Client that stand for one HTTP request
  Instance,     \* connections of role server
  Call,         \* call ids
  Method,       \* the methods of the service
  Key,          \* idempotency keys
  InstanceID,   \* instance ids
  None,         \* "no route", "no key", "no target", "no entry"
  Stream,       \* Stream[m]: the call shape of m
  Balance,      \* Balance[m]: the balancing policy of m
  Serves,       \* Serves[i]: the methods that i registers
  IDOf,         \* IDOf[i]: the instance id that i registers
  Targeted,     \* the service takes only calls that name an instance
  Allowed,      \* the pairs <<client, method>> that its account permits
  Request,      \* the call.open frames that clients send
  MaxInflight,  \* MaxInflight[i]: cap registered by i, 0 for none
  MaxCalls,     \* --max-calls-per-connection, 0 for none
  MaxRoutes,    \* the Router's own limit (65536)
  Threshold,    \* --breaker-threshold
  MaxCredit,    \* where credit saturates (math.MaxInt64)
  Malformed     \* whether clients send frames that do not decode

Peer == Client \cup Instance

StreamKinds == {"unary", "server_stream", "client_stream", "duplex"}
BalanceKinds == {"round_robin", "least_inflight", "random", "sticky", "disabled"}

\* sticky: the payload holds the field that a sticky method hashes.
Requests == [method: Method, key: Key \cup {None}, target: InstanceID \cup {None},
             timed: BOOLEAN, sticky: BOOLEAN]

\* The idempotency table is keyed by method, key and target.
DedupKey == [key: Key, method: Method, target: InstanceID \cup {None}]

ASSUME PeersAssumption ==
  /\ IsFiniteSet(Call)
  /\ Client \cap Instance = {} /\ HTTPClient \subseteq Client

ASSUME ServiceAssumption ==
  /\ Stream \in [Method -> StreamKinds]
  /\ Balance \in [Method -> BalanceKinds]
  /\ Serves \in [Instance -> SUBSET Method]
  /\ IDOf \in [Instance -> InstanceID]
  /\ Request \subseteq Requests
  /\ Targeted \in BOOLEAN /\ Malformed \in BOOLEAN

ASSUME LimitsAssumption ==
  /\ MaxInflight \in [Instance -> Nat]
  /\ MaxCalls \in Nat
  /\ MaxRoutes \in Nat
  /\ Threshold \in Nat \ {0}
  /\ MaxCredit \in Nat \ {0}

VARIABLES
  conn,        \* conn[p]: absent, up, lost (context cancelled), gone (removed)
  registered,  \* the instances in Router.instances
  draining,    \* the instances that sent server.drain
  routes,      \* routes[c]: the route of a call, or None
  inflight,    \* inflight[i]: peer.inflight
  calls,       \* calls[p]: peer.calls
  health,      \* health[i]: the circuit breaker of i
  dedup,       \* dedup[k]: the idempotency entry of k, or None
  waiting,     \* the joined calls of all entries
  stage,       \* running, draining (Shutdown), closed (Close)
  drained,     \* the channel Router.drained is closed
  peersGone,   \* the channel Router.peersGone is closed
  view         \* view[p][c]: what client p has been sent for its call c

vars == <<conn, registered, draining, routes, inflight, calls, health, dedup,
          waiting, stage, drained, peersGone, view>>

Route == [client: Client, instance: Instance, key: DedupKey \cup {None},
          timed: BOOLEAN, probe: BOOLEAN,
          clientCredit: 0..MaxCredit, serverCredit: 0..MaxCredit]

Health == [failures: 0..Threshold, state: {"closed", "open", "half_open"},
           probing: BOOLEAN]

Entry == [state: {"inflight", "settled", "failed"}, route: Call \cup {None},
          lost: Instance \cup {None}]

\* None is a value of its own, as nil is.
ASSUME NoneAssumption ==
  None \notin Client \cup Instance \cup Call \cup Key \cup InstanceID
                \cup DedupKey \cup Route \cup Entry

Waiter == [key: DedupKey, client: Client, call: Call]

TypeOK ==
  /\ conn \in [Peer -> {"absent", "up", "lost", "gone"}]
  /\ registered \in SUBSET Instance
  /\ draining \in SUBSET Instance
  /\ routes \in [Call -> Route \cup {None}]
  /\ inflight \in [Instance -> Int]
  /\ calls \in [Client -> Int]
  /\ health \in [Instance -> Health]
  /\ dedup \in [DedupKey -> Entry \cup {None}]
  /\ waiting \in SUBSET Waiter /\ IsFiniteSet(waiting)
  /\ stage \in {"running", "draining", "closed"}
  /\ drained \in BOOLEAN
  /\ peersGone \in BOOLEAN
  /\ view \in [Client -> [Call -> {"idle", "open", "done", "stray"}]]

Closed == [failures |-> 0, state |-> "closed", probing |-> FALSE]

Init ==
  /\ conn = [p \in Peer |-> "absent"]
  /\ registered = {}
  /\ draining = {}
  /\ routes = [c \in Call |-> None]
  /\ inflight = [i \in Instance |-> 0]
  /\ calls = [p \in Client |-> 0]
  /\ health = [i \in Instance |-> Closed]
  /\ dedup = [k \in DedupKey |-> None]
  /\ waiting = {}
  /\ stage = "running"
  /\ drained = FALSE
  /\ peersGone = FALSE
  /\ view = [p \in Client |-> [c \in Call |-> "idle"]]

-------------------------------------------------------------------------------
(* Reading the tables.                                                     *)

Present == {p \in Peer : conn[p] \in {"up", "lost"}}       \* Router.peers
Live == {c \in Call : routes[c] # None}                    \* Router.routes

\* Mutant: the calls routed to a lost instance are left alone.
RoutesWithClientOnly(p) == {c \in Live : routes[c].client = p}

\* The routes that end when connection p does.
RoutesWith(p) == {c \in Live : routes[c].client = p \/ routes[c].instance = p}

RoutesTo(i) == {c \in Live : routes[c].instance = i}
RoutesOf(p) == {c \in Live : routes[c].client = p}
WaitsOf(p) == {w \in waiting : w.client = p}
Pool == registered \ draining
Serving(m) == {i \in Pool : m \in Serves[i]}
Known(m) == Serving(m) # {}
\* Mutant: one call too many.
FullOffByOne(i) == MaxInflight[i] > 0 /\ inflight[i] > MaxInflight[i]

Full(i) == MaxInflight[i] > 0 /\ inflight[i] >= MaxInflight[i]

-------------------------------------------------------------------------------
(* Circuit breaker.                                                        *)

\* health.admit: a half-open breaker lets one probe through at a time.
Admits(i) ==
  \/ health[i].state = "closed"
  \/ health[i].state = "half_open" /\ ~health[i].probing

\* Mutant: a failure leaves the probe marked.
ObserveKeepsProbe(h, ok) ==
  IF ok THEN Closed
  ELSE [h EXCEPT !.failures = Threshold, !.state = "open"]

\* Router.observe, with the count of failures saturating at the threshold
\* (only "at least the threshold" is ever asked).
Observe(h, ok) ==
  IF ok THEN Closed
  ELSE LET n == IF h.failures < Threshold THEN h.failures + 1 ELSE Threshold
       IN  [failures |-> n, probing |-> FALSE,
            state |-> IF n >= Threshold THEN "open" ELSE h.state]

-------------------------------------------------------------------------------
(* Instance selection.                                                     *)

\* The candidates that reach health.admit: serving the method, not avoided
\* while there is another, not at their cap.
Considered(m, avoid) ==
  {i \in Serving(m) : /\ ~(i = avoid /\ Cardinality(Serving(m)) > 1)
                      /\ ~Full(i)}

Eligible(m, avoid) == {i \in Considered(m, avoid) : Admits(i)}

\* The instances among which the policy may choose; {} refuses the call.
Balanced(req, among) ==
  CASE Balance[req.method] = "least_inflight" ->
         {i \in among : \A j \in among : inflight[i] <= inflight[j]}
    [] Balance[req.method] = "disabled" ->
         IF Cardinality(among) = 1 THEN among ELSE {}
    [] Balance[req.method] = "sticky" ->
         IF req.sticky THEN among ELSE {}
    [] OTHER -> among

TargetInstance(req) ==
  {i \in registered : /\ IDOf[i] = req.target
                      /\ req.method \in Serves[i]
                      /\ i \notin draining
                      /\ ~Full(i)}

UsesPolicy(req) == Known(req.method) /\ req.target = None /\ ~Targeted

SelectInstance(req, avoid) ==
  IF UsesPolicy(req) THEN Balanced(req, Eligible(req.method, avoid))
  ELSE IF Known(req.method) /\ req.target # None THEN TargetInstance(req)
  ELSE {}

\* health.admit marks every half-open instance it admits, chosen or not.
AfterSelection(req, avoid) ==
  [i \in Instance |->
     IF /\ UsesPolicy(req)
        /\ i \in Eligible(req.method, avoid)
        /\ health[i].state = "half_open"
     THEN [health[i] EXCEPT !.probing = TRUE]
     ELSE health[i]]

-------------------------------------------------------------------------------
(* Frames sent to callers.                                                 *)

\* A terminal frame closes an open call; any frame for a call that is not
\* open at its caller is a stray one.
Receive(v, terminal) ==
  IF v # "open" THEN "stray" ELSE IF terminal THEN "done" ELSE "open"

\* to is a set of <<client, call>>; an outbox that is closed takes nothing.
Send(to, terminal) ==
  view' = [p \in Client |-> [c \in Call |->
             IF <<p, c>> \in to /\ conn[p] \in {"up", "lost"}
             THEN Receive(view[p][c], terminal)
             ELSE view[p][c]]]

Callers(S) == {<<routes[c].client, c>> : c \in S}
Joined(K) == {<<w.client, w.call>> : w \in {x \in waiting : x.key \in K}}

-------------------------------------------------------------------------------
(* Ending calls.                                                           *)

\* Mutant: the slots are given back, the waiters stay.
ReleaseNoWaiters(K) == waiting' = waiting

\* dedupSettle and dedupFail release the waiters of the entries K.
ReleaseWaiters(K) == waiting' = {w \in waiting : w.key \notin K}

RoutesEnded(S, i) == Cardinality({c \in S : routes[c].instance = i})
CallsEnded(S, p) == Cardinality({c \in S : routes[c].client = p})
WaitsEnded(K, p) == Cardinality({w \in waiting : w.key \in K /\ w.client = p})

\* endRoute for every call of S, with the waiters of K released: each route
\* gives back its instance's and its client's slot, each waiter its client's.
EndRoutes(S, K) ==
  /\ routes' = [c \in Call |-> IF c \in S THEN None ELSE routes[c]]
  /\ inflight' = [i \in Instance |-> inflight[i] - RoutesEnded(S, i)]
  /\ calls' = [p \in Client |-> calls[p] - CallsEnded(S, p) - WaitsEnded(K, p)]
  /\ ReleaseWaiters(K)

\* Mutant: only a closed Router notices.
MarkDrainedWhenClosed(S) ==
  drained' = (drained \/ (stage = "closed" /\ S # {} /\ Live \subseteq S))

\* endRoute of the last route of a stopping Router closes the drained channel.
MarkDrained(S) ==
  drained' = (drained \/ (stage # "running" /\ S # {} /\ Live \subseteq S))

\* The entries of the calls of S: rt.dedup with rt.dedup.route == rt.
EntriesOf(S) ==
  {k \in DedupKey : \E c \in S : /\ routes[c].key = k
                                 /\ dedup[k] # None
                                 /\ dedup[k].route = c}

Failed(lost) == [state |-> "failed", route |-> None, lost |-> lost]
Settled == [state |-> "settled", route |-> None, lost |-> None]

DedupFail(K, lost) ==
  dedup' = [k \in DedupKey |-> IF k \in K THEN Failed(lost) ELSE dedup[k]]

-------------------------------------------------------------------------------
(* Connections.                                                            *)

\* handle and virtualClient: a stopping Router takes no WebSocket, a closed
\* one no HTTP request either.
Connect(p) ==
  /\ conn[p] = "absent"
  /\ stage = "running" \/ (p \in HTTPClient /\ stage # "closed")
  /\ conn' = [conn EXCEPT ![p] = "up"]
  /\ UNCHANGED <<registered, draining, routes, inflight, calls, health, dedup,
                 waiting, stage, drained, peersGone, view>>

\* A connection's context ends: a read or write fails, the peer is silent for
\* the idle timeout, its outbox overflows, its token is revoked or expires, it
\* sends a frame its role may not, or the HTTP request is over.
Lose(p) ==
  /\ conn[p] = "up"
  /\ conn' = [conn EXCEPT ![p] = "lost"]
  /\ UNCHANGED <<registered, draining, routes, inflight, calls, health, dedup,
                 waiting, stage, drained, peersGone, view>>

\* Mutant: joined calls are not counted.
IdleRoutesOnly(p) == IF p \in Client THEN RoutesOf(p) = {} ELSE inflight[p] = 0

Idle(p) == IF p \in Client THEN calls[p] = 0 ELSE inflight[p] = 0

\* A writer with an empty queue closes the connection of a peer that a
\* stopping Router is done with.
GoAway(p) ==
  /\ conn[p] = "up" /\ p \notin HTTPClient
  /\ stage # "running"
  /\ stage = "closed" \/ Idle(p)
  /\ conn' = [conn EXCEPT ![p] = "lost"]
  /\ UNCHANGED <<registered, draining, routes, inflight, calls, health, dedup,
                 waiting, stage, drained, peersGone, view>>

\* Mutant: the last peer is noticed only while draining.
LastPeerOfDrain(p) == stage = "draining" /\ Present = {p}

LastPeer(p) == stage = "closed" /\ Present = {p}

\* The deferred remove of a connection: its registration goes, the calls it
\* made are forgotten, the calls routed to it are answered instance_lost.
Remove(p) ==
  LET S == RoutesWith(p)
      K == IF p \in Instance THEN EntriesOf(S) ELSE {}
  IN  /\ conn[p] = "lost"
      /\ conn' = [conn EXCEPT ![p] = "gone"]
      /\ registered' = registered \ {p}
      /\ DedupFail(K, IF p \in Instance THEN p ELSE None)
      /\ Send(IF p \in Instance THEN Callers(S) \cup Joined(K) ELSE {}, TRUE)
      /\ EndRoutes(S, K)
      /\ MarkDrained(S)
      /\ peersGone' = (peersGone \/ LastPeer(p))
      /\ UNCHANGED <<draining, health, stage>>

-------------------------------------------------------------------------------
(* Registration.                                                           *)

\* Mutant: a draining instance's id is free.
IDTakenInPool(i) == \E j \in Pool : IDOf[j] = IDOf[i]

IDTaken(i) == \E j \in registered : IDOf[j] = IDOf[i]

\* server.register of a fresh connection, or the rejection that closes it.
Register(i) ==
  /\ conn[i] = "up" /\ i \notin registered
  /\ IF IDTaken(i)
     THEN /\ conn' = [conn EXCEPT ![i] = "lost"]
          /\ UNCHANGED registered
     ELSE /\ registered' = registered \cup {i}
          /\ UNCHANGED conn
  /\ UNCHANGED <<draining, routes, inflight, calls, health, dedup, waiting,
                 stage, drained, peersGone, view>>

Drain(i) ==
  /\ conn[i] = "up" /\ i \in Pool
  /\ draining' = draining \cup {i}
  /\ UNCHANGED <<conn, registered, routes, inflight, calls, health, dedup,
                 waiting, stage, drained, peersGone, view>>

-------------------------------------------------------------------------------
(* call.open.                                                              *)

\* Mutant: a duplicate call_id is not refused.
RefusedNotDuplicate(p, c, req) ==
  <<p, req.method>> \notin Allowed \/ stage # "running"

\* Mutant: a stopping Router goes on taking calls.
RefusedNotStopping(p, c, req) ==
  <<p, req.method>> \notin Allowed \/ routes[c] # None

\* The checks forward makes before it looks at the idempotency table.
Refused(p, c, req) ==
  \/ <<p, req.method>> \notin Allowed
  \/ routes[c] # None
  \/ stage # "running"
  \/ MaxCalls > 0 /\ calls[p] >= MaxCalls
  \/ Cardinality(Live) >= MaxRoutes
  \/ req.key # None /\ Known(req.method) /\ Stream[req.method] = "duplex"

Deduplicated(req) ==
  req.key # None /\ Known(req.method) /\ Stream[req.method] = "unary"

KeyOf(req) == [key |-> req.key, method |-> req.method, target |-> req.target]

\* Mutant: entries in flight are evicted too.
ForgettableInflight == {k \in DedupKey : dedup[k] # None}

Forgettable == {k \in DedupKey : dedup[k] # None /\ dedup[k].state # "inflight"}

\* dedupLookup: an entry that is not in flight may have expired.
Lookup(req) ==
  IF ~Deduplicated(req) THEN {None}
  ELSE {dedup[KeyOf(req)]} \cup (IF KeyOf(req) \in Forgettable THEN {None} ELSE {})

\* The caller's view: the call is open, or was answered at once.
Opened(p, c) == view' = [view EXCEPT ![p][c] = "open"]
Answered(p, c) == view' = [view EXCEPT ![p][c] = "done"]

OpenRefused(p, c, req) ==
  /\ Refused(p, c, req)
  /\ Answered(p, c)
  /\ UNCHANGED <<routes, inflight, calls, health, dedup, waiting>>

\* The recorded terminal frame is sent again.
OpenReplayed(p, c, req) ==
  /\ \E e \in Lookup(req) : e # None /\ e.state = "settled"
  /\ Answered(p, c)
  /\ UNCHANGED <<routes, inflight, calls, health, dedup, waiting>>

\* The call joins the one in flight under its key.
OpenJoined(p, c, req) ==
  /\ \E e \in Lookup(req) : e # None /\ e.state = "inflight"
  /\ waiting' = waiting \cup {[key |-> KeyOf(req), client |-> p, call |-> c]}
  /\ calls' = [calls EXCEPT ![p] = @ + 1]
  /\ Opened(p, c)
  /\ UNCHANGED <<routes, inflight, health, dedup>>

\* A fresh execution: no entry, or the tombstone of a failed one, which is
\* dropped and names the instance to avoid.
Fresh(e) == e # None => e.state = "failed"
Avoid(e) == IF e = None THEN None ELSE e.lost

\* dedupInsert: the entry of the new route; others may be evicted to make
\* room, but never one in flight.
DedupInsert(c, req) ==
  IF Deduplicated(req)
  THEN \E F \in SUBSET Forgettable :
         dedup' = [k \in DedupKey |->
                     IF k = KeyOf(req)
                     THEN [state |-> "inflight", route |-> c, lost |-> None]
                     ELSE IF k \in F THEN None ELSE dedup[k]]
  ELSE UNCHANGED dedup

NewRoute(p, i, req) ==
  [client |-> p, instance |-> i,
   key |-> IF Deduplicated(req) THEN KeyOf(req) ELSE None,
   timed |-> req.timed,
   probe |-> UsesPolicy(req) /\ health[i].state = "half_open",
   clientCredit |-> 0, serverCredit |-> 0]

OpenRouted(p, c, req) ==
  \E e \in Lookup(req) : \E i \in SelectInstance(req, Avoid(e)) :
    /\ Fresh(e)
    /\ routes' = [routes EXCEPT ![c] = NewRoute(p, i, req)]
    /\ inflight' = [inflight EXCEPT ![i] = @ + 1]
    /\ calls' = [calls EXCEPT ![p] = @ + 1]
    /\ health' = AfterSelection(req, Avoid(e))
    /\ DedupInsert(c, req)
    /\ Opened(p, c)
    /\ UNCHANGED waiting

OpenUnroutable(p, c, req) ==
  \E e \in Lookup(req) :
    /\ Fresh(e)
    /\ SelectInstance(req, Avoid(e)) = {}
    /\ health' = AfterSelection(req, Avoid(e))
    /\ dedup' = IF Deduplicated(req) THEN [dedup EXCEPT ![KeyOf(req)] = None]
                ELSE dedup
    /\ Answered(p, c)
    /\ UNCHANGED <<routes, inflight, calls, waiting>>

\* forward of a call.open.  A client names each of its calls afresh; another
\* client may choose the same id.
Open(p, c, req) ==
  /\ conn[p] = "up"
  /\ view[p][c] = "idle"
  /\ \/ OpenRefused(p, c, req)
     \/ /\ ~Refused(p, c, req)
        /\ \/ OpenReplayed(p, c, req)
           \/ OpenJoined(p, c, req)
           \/ OpenRouted(p, c, req)
           \/ OpenUnroutable(p, c, req)
  /\ UNCHANGED <<conn, registered, draining, stage, drained, peersGone>>

-------------------------------------------------------------------------------
(* Frames of a routed call.  A frame for a call that has no route, or whose  *)
(* route belongs to another connection, is dropped.                         *)

\* Mutant: any client may act on any call.
FromAnyClient(p, c) == conn[p] = "up" /\ c \in Live

FromClient(p, c) == conn[p] = "up" /\ c \in RoutesOf(p)
FromInstance(i, c) == conn[i] = "up" /\ c \in RoutesTo(i)

\* Mutant: credit is added without saturation.
Unsaturated(n) == n

Saturated(n) == IF n > MaxCredit THEN MaxCredit ELSE n

\* stream.window: the consumer grants n more items to the producer.
ClientWindow(p, c, n) ==
  /\ FromClient(p, c)
  /\ routes' = [routes EXCEPT ![c].serverCredit = Saturated(@ + n)]
  /\ UNCHANGED <<conn, registered, draining, inflight, calls, health, dedup,
                 waiting, stage, drained, peersGone, view>>

InstanceWindow(i, c, n) ==
  /\ FromInstance(i, c)
  /\ routes' = [routes EXCEPT ![c].clientCredit = Saturated(@ + n)]
  /\ Send(Callers({c}), FALSE)
  /\ UNCHANGED <<conn, registered, draining, inflight, calls, health, dedup,
                 waiting, stage, drained, peersGone>>

\* An item beyond the credit ends the call, at both ends.
FlowViolation(c, byInstance) ==
  LET K == EntriesOf({c})
      i == routes[c].instance
  IN  /\ health' = IF byInstance THEN [health EXCEPT ![i] = Observe(@, FALSE)]
                   ELSE health
      /\ DedupFail(K, None)
      /\ Send(Callers({c}) \cup Joined(K), TRUE)
      /\ EndRoutes({c}, K)
      /\ MarkDrained({c})
      /\ UNCHANGED <<conn, registered, draining, stage, peersGone>>

\* stream.item, forwarded within the credit.
ClientItem(p, c) ==
  /\ FromClient(p, c)
  /\ IF routes[c].clientCredit = 0
     THEN FlowViolation(c, FALSE)
     ELSE /\ routes' = [routes EXCEPT ![c].clientCredit = @ - 1]
          /\ UNCHANGED <<conn, registered, draining, inflight, calls, health,
                         dedup, waiting, stage, drained, peersGone, view>>

InstanceItem(i, c) ==
  /\ FromInstance(i, c)
  /\ IF routes[c].serverCredit = 0
     THEN FlowViolation(c, TRUE)
     ELSE /\ routes' = [routes EXCEPT ![c].serverCredit = @ - 1]
          /\ Send(Callers({c}), FALSE)
          /\ UNCHANGED <<conn, registered, draining, inflight, calls, health,
                         dedup, waiting, stage, drained, peersGone>>

\* Mutant: the cancel is forwarded and the route kept.
ClientCancelKeepsRoute(p, c) ==
  /\ FromClient(p, c)
  /\ Answered(p, c)
  /\ UNCHANGED <<conn, registered, draining, routes, inflight, calls, health,
                 dedup, waiting, stage, drained, peersGone>>

\* call.cancel: the caller has given up, and the route is forgotten at once.
ClientCancel(p, c) ==
  /\ FromClient(p, c)
  /\ Answered(p, c)
  /\ EndRoutes({c}, {})
  /\ MarkDrained({c})
  /\ UNCHANGED <<conn, registered, draining, health, dedup, stage, peersGone>>

\* call.result or call.error; ok is false for internal and unavailable.
InstanceTerminal(i, c, ok) ==
  LET K == {routes[c].key} \ {None}
  IN  /\ FromInstance(i, c)
      /\ health' = [health EXCEPT ![i] = Observe(@, ok)]
      /\ dedup' = [k \in DedupKey |-> IF k \in K THEN Settled ELSE dedup[k]]
      /\ Send(Callers({c}) \cup Joined(K), TRUE)
      /\ EndRoutes({c}, K)
      /\ MarkDrained({c})
      /\ UNCHANGED <<conn, registered, draining, stage, peersGone>>

\* A frame that does not decode but names its call, a call.open or a later
\* frame, is answered for that call by the reader itself, without a look at the
\* routes.  An HTTP request's frames are the Router's own.
MalformedFrame(p, c) ==
  /\ Malformed /\ p \notin HTTPClient
  /\ conn[p] = "up" /\ view[p][c] \in {"idle", "open"}
  /\ Answered(p, c)
  /\ UNCHANGED <<conn, registered, draining, routes, inflight, calls, health,
                 dedup, waiting, stage, drained, peersGone>>

-------------------------------------------------------------------------------
(* Time.                                                                   *)

\* Mutant: calls that others may join are never overdue.
OverdueUnkeyed(c) == c \in Live /\ routes[c].timed /\ routes[c].key = None

Overdue(c) == c \in Live /\ routes[c].timed

\* expireLoop: the Router's own deadline of a call has passed.
Expire(c) ==
  LET K == EntriesOf({c})
      i == routes[c].instance
  IN  /\ Overdue(c)
      /\ health' = [health EXCEPT ![i] = Observe(@, FALSE)]
      /\ DedupFail(K, None)
      /\ Send(Callers({c}) \cup Joined(K), TRUE)
      /\ EndRoutes({c}, K)
      /\ MarkDrained({c})
      /\ UNCHANGED <<conn, registered, draining, stage, peersGone>>

\* The cooldown of an open breaker is over.
Cooldown(i) ==
  /\ i \in registered /\ health[i].state = "open"
  /\ health' = [health EXCEPT ![i].state = "half_open"]
  /\ UNCHANGED <<conn, registered, draining, routes, inflight, calls, dedup,
                 waiting, stage, drained, peersGone, view>>

-------------------------------------------------------------------------------
(* Stopping the Router.                                                    *)

Shutdown ==
  /\ stage = "running"
  /\ stage' = "draining"
  /\ drained' = (Live = {})
  /\ UNCHANGED <<conn, registered, draining, routes, inflight, calls, health,
                 dedup, waiting, peersGone, view>>

\* Close, called by Shutdown when the routes are gone or its time is up, or
\* directly: every call left is answered router_shutdown.
Close ==
  LET K == EntriesOf(Live)
  IN  /\ stage # "closed"
      /\ stage' = "closed"
      /\ DedupFail(K, None)
      /\ Send(Callers(Live) \cup Joined(K), TRUE)
      /\ EndRoutes(Live, K)
      /\ drained' = TRUE
      /\ peersGone' = (Present = {})
      /\ UNCHANGED <<conn, registered, draining, health>>

-------------------------------------------------------------------------------

Next ==
  \/ \E p \in Peer : Connect(p) \/ Lose(p) \/ GoAway(p) \/ Remove(p)
  \/ \E i \in Instance : Register(i) \/ Drain(i) \/ Cooldown(i)
  \/ \E p \in Client, c \in Call, req \in Request : Open(p, c, req)
  \/ \E p \in Client, c \in Call :
        ClientItem(p, c) \/ ClientCancel(p, c) \/ MalformedFrame(p, c)
  \/ \E p \in Client, c \in Call, n \in 1..MaxCredit : ClientWindow(p, c, n)
  \/ \E i \in Instance, c \in Call, n \in 1..MaxCredit : InstanceWindow(i, c, n)
  \/ \E i \in Instance, c \in Call : InstanceItem(i, c)
  \/ \E i \in Instance, c \in Call, ok \in BOOLEAN : InstanceTerminal(i, c, ok)
  \/ \E c \in Call : Expire(c)
  \/ Shutdown
  \/ Close

Spec == Init /\ [][Next]_vars

\* What the Router's own goroutines go on doing: the deadline loop fires, the
\* reader of a lost connection runs its deferred remove, Shutdown's wait ends,
\* and Close cancels the connections that its grace period leaves.  Nothing is
\* assumed of clients and instances.
Fairness ==
  /\ \A c \in Call : WF_vars(Expire(c))
  /\ \A p \in Peer : WF_vars(Remove(p)) /\ WF_vars(stage = "closed" /\ Lose(p))
  /\ WF_vars(stage = "draining" /\ Close)

FairSpec == Spec /\ Fairness

-------------------------------------------------------------------------------
(* Properties.                                                             *)

\* The counters that selection, the per-connection limit and the drain consult
\* are kept by increments and decrements spread over forward, endRoute,
\* callEnded, dedupSettle and dedupFail: an instance's inflight is the number of
\* routes to it, a client's calls the number of its routes and joined calls,
\* whatever sequence of results, cancels, losses and deadlines ended the others.
CountersExact ==
  /\ \A i \in Instance : inflight[i] = Cardinality(RoutesTo(i))
  /\ \A p \in Client : calls[p] = Cardinality(RoutesOf(p)) + Cardinality(WaitsOf(p))

\* A call that is joined has been opened: with it CountersExact is inductive,
\* because a client then never joins the same call twice.
JoinedCallsOpened == \A w \in waiting : view[w.client][w.call] # "idle"

CountersInv == TypeOK /\ CountersExact /\ JoinedCallsOpened

\* No instance ever has more routed calls than the max_inflight it registered,
\* targeted and balanced calls together, and no connection more calls in flight
\* (joined ones included) than --max-calls-per-connection.
CapacityRespected ==
  /\ \A i \in Instance : MaxInflight[i] > 0 => Cardinality(RoutesTo(i)) <= MaxInflight[i]
  /\ MaxCalls > 0 => \A p \in Client :
       Cardinality(RoutesOf(p)) + Cardinality(WaitsOf(p)) <= MaxCalls

\* remove leaves no route behind: both ends of every route are connections the
\* Router still has, so no frame is ever forwarded to a removed peer and no
\* removed instance keeps a caller waiting.
RoutesHavePeers ==
  \A c \in Live : /\ routes[c].client \in Present
                  /\ routes[c].instance \in Present \cap registered

\* Two routed calls never run under one idempotency key, and the route of a
\* keyed call is the one its entry points to: results, losses and deadlines
\* reach the waiters of the right call.
OneExecutionPerKey ==
  \A c \in Live : routes[c].key # None =>
    /\ dedup[routes[c].key] # None
    /\ dedup[routes[c].key].state = "inflight"
    /\ dedup[routes[c].key].route = c

\* Every caller gets at most one terminal frame for a call and nothing after
\* it, whatever its instance goes on sending; a caller that cancelled a routed
\* call gets nothing more for it.
NoStrayFrame == \A p \in Client, c \in Call : view[p][c] # "stray"

\* The Router never forgets a caller: a call it neither answered nor saw
\* cancelled is routed or joined as long as its connection lasts.
NoForgottenCaller ==
  \A p \in Client \cap Present, c \in Call :
    view[p][c] = "open" => c \in RoutesOf(p) \/ \E w \in WaitsOf(p) : w.call = c

\* The strengthening that makes the two inductive while every frame decodes: a
\* routed or joined call is open at its caller, no call is both routed and joined
\* by one client or joined twice, and a client that has yet to connect has opened
\* nothing.
CallersInv ==
  /\ NoStrayFrame
  /\ NoForgottenCaller
  /\ \A c \in Live : view[routes[c].client][c] = "open"
  /\ \A w \in waiting : view[w.client][w.call] = "open"
  /\ \A w \in waiting : w.call \notin RoutesOf(w.client)
  /\ \A v, w \in waiting : v.client = w.client /\ v.call = w.call => v = w
  /\ \A p \in Client : conn[p] = "absent" => \A c \in Call : view[p][c] = "idle"

\* An instance id belongs to one connection, also while its owner drains.
InstanceIDsUnique ==
  \A i, j \in registered : IDOf[i] = IDOf[j] => i = j

\* A stopping Router's channels say what their readers take them to say:
\* drained is closed exactly when no route is left, and peersGone exactly when
\* a closed Router has no peer left, so neither Shutdown nor Close waits for
\* something that has already happened or returns too early.
ChannelsMeanWhatTheySay ==
  /\ drained <=> (stage # "running" /\ Live = {})
  /\ peersGone <=> (stage = "closed" /\ Present = {})

\* A breaker is tripped exactly while the consecutive failures reach the
\* threshold, and only a half-open breaker has a probe marked.
BreakerConsistent ==
  \A i \in Instance : /\ health[i].state # "closed" <=> health[i].failures >= Threshold
                      /\ health[i].probing => health[i].state = "half_open"

\* A draining instance gets no new call, and a stopping Router routes and joins
\* no new call for anyone.
NoNewWorkWhenLeaving ==
  [][/\ \A i \in draining : RoutesTo(i)' \subseteq RoutesTo(i)
     /\ stage # "running" => Live' \subseteq Live /\ waiting' \subseteq waiting]_vars

\* During the drain a writer closes only connections that are owed nothing: no
\* call of the client is unanswered, no call is routed to the instance.
GoAwayOwesNothing ==
  [][\A p \in Peer : (stage = "draining" /\ GoAway(p)) =>
       /\ p \in Client => \A c \in Call : view[p][c] # "open"
       /\ p \in Instance => RoutesTo(p) = {}]_vars

\* A call in flight stays with the client that opened it and the instance it
\* was given to: no later call.open, by anyone, takes over its route.
RoutesNeverMigrate ==
  [][\A c \in Live \cap Live' :
       /\ routes'[c].client = routes[c].client
       /\ routes'[c].instance = routes[c].instance
       /\ routes'[c].key = routes[c].key]_vars

\* A call with a deadline always ends, even if its instance never answers and
\* its connection stays up.
TimedCallsEnd ==
  \A c \in Call : (c \in Live /\ routes[c].timed) ~> (c \notin Live)

\* Shutdown always finishes: once it drains, every connection is gone in the
\* end, also with calls that no one answers and clients that keep talking.
ShutdownFinishes == (stage = "draining") ~> peersGone

(* What the documentation promises and the code does not keep.             *)

\* A caller that joined an idempotent call waits for a call that is in flight.
WaitersHaveALiveCall ==
  \A w \in waiting : \E c \in Live : routes[c].key = w.key

\* A breaker that has a probe marked has a call routed to the instance whose
\* outcome will clear the mark.
ProbeInFlight ==
  \A i \in registered : health[i].probing => RoutesTo(i) # {}

\* At most one of the calls routed to an instance is a half-open probe.
OneProbeAtATime ==
  \A i \in Instance : Cardinality({c \in RoutesTo(i) : routes[c].probe}) <= 1

=============================================================================

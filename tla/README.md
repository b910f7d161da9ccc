# Verification of meshcall

meshcall is an RPC mesh: clients and service instances connect to a Router over
WebSocket (or plain HTTP), instances register services, and the Router forwards
calls, streams, cancellations and errors between them, balances calls over
instances, deduplicates retries, enforces deadlines and limits, and shuts down
without dropping answers. The Go SDK is the other half: a client that shares one
connection between callers, a server that keeps links to several Routers, and a
Mesh that starts a Router of its own. This directory holds TLA+ models of the
stateful parts of both, the TLC configurations that check them, and TLAPS proofs.

All source paths below are relative to the repository; `router/` stands for
`meshcall-router/internal/router/`.

## Inventory

| Component | State it keeps | Operations | What makes it correct | Modules |
|---|---|---|---|---|
| Routing core (`router/router.go`) | `peers`, `instances`, `services`, `routes`; per peer `inflight`, `calls`, `draining` | `handle`, `register`, `drain`, `forward`, `flowViolation`, `remove` | Every caller gets at most one terminal frame and none is forgotten; counters equal what they count; both ends of a route are connected | `RouterCore` |
| Idempotency table (`router/dedup.go`) | map, eviction list, waiters per entry | lookup, insert, settle, fail, remove | One execution per key in flight; joined callers share its outcome; bounded | `RouterCore`, `DedupTable`, `KeyMemory` |
| Circuit breaker (`router/breaker.go`) | consecutive failures, `openUntil`, `probing` | `admit`, `observe` | Tripped exactly at the threshold; one probe at a time | `RouterCore` |
| Instance selection (`router/balance.go`) | pools, cursors | `selectInstance`, `targetInstance` | Caps hold; draining instances get nothing new | `RouterCore` |
| Service registry (`router/router.go`, `balance.go`, `management.go`) | pools with method unions and contracts | `register`, `leavePools`, `rebuildMethods`, the Registry service | A pool knows the methods of its instances, and they mean the same by them | `Registry` |
| Deadlines (`router/deadline.go`) | heap of routes, one timer, a wake channel | `track`, `untrack`, `expireLoop` | A call with a deadline ends, once, neither early nor never | `Deadlines`, `RouterCore` |
| Outbox and writer (`router/queue.go`, `peer.send`, `peer.writeLoop`) | per-call queues, their order, a byte count, `ready` | `push`, `pop`, `wake`, `close` | FIFO per call, round robin between calls, bounded memory, no lost wake-up | `Outbox`, `CallChannels` |
| Shutdown (`router/router.go`) | `draining`, `closed`, `stopping`, `drained`, `peersGone` | `Shutdown`, `Close`, `goingAway` | Terminates; a peer is closed only when it is owed nothing | `RouterCore`, `Outbox`, `RouterProcess` |
| HTTP gateway (`router/httpapi.go`) | a virtual client per request, credit, a body reader | unary, NDJSON streams | One answer per request; credit respected; nobody left waiting | `HTTPGateway`, `HTTPServerStream`, `HTTPClientStream` |
| Accounts (`router/auth.go`, `management.go`) | accounts, tokens, cache of checked passwords, admission counters | `ParseAuth`, `check`, issue and revoke, `allowsCall` | A token does no more than its account and nothing after its end; limits hold | `AuthDocument`, `Accounts` |
| Router command (`cmd/meshcall-router/main.go`, `Start`, `Close`) | flags, environment, a socket file, a metrics address | `run`, `applyEnvironment`, `loadAuth`, signals | Runs with what it was given; stops when told; leaves the path to its owner | `Settings`, `RouterProcess` |
| Go SDK client (`meshcall-go/client.go`) | connection, calls, endpoint cursor; per call queue, credit, timers | `connection`, `readLoop`, `deliver`, `fail`, `abort`, `Close`, `retry` | A call ends once, with its own answer and in its time; no connection is lost track of | `ClientLink`, `ClientCall`, `Retry` |
| Go SDK server (`meshcall-go/server.go`, `service.go`) | links, sessions, in-flight count; per call input, credit, output lock | `register`, `supervise`, `open`, `receive`, `finish`, `Drain`, `Close` | One terminal frame per call; drain waits for all; links come back | `ServerLink`, `ServerCall` |
| HTTP client (`meshcall-go/http.go`) | a response body | unary with retries, both streams | What breaks off does not look like the end of a stream | `Retry`, `HTTPServerStream`, `HTTPClientStream` |
| Local Router and Mesh (`meshcall-go/router.go`) | a subprocess, ownership, an active server | `Start`, `Stop`, `Connect`, `StartServing`, `Close` | No process or server is left behind | `Mesh` |
| Injection and reflection (`meshcall-go/di.go`) | provider graph, scope of a call | registration, `resolve`, `close`, `ReflectService` | Built once in order, released in the opposite order; each argument its own field | `Injection`, `Reflection` |
| Other SDKs, code generation, CLI, conformance, demos | – | – | – | not modelled, see the end |

### How the parts interact

Each connection of the Router has a reader goroutine (`handle`) and a writer
goroutine (`writeLoop`). The reader calls `forward`, `register` and `drain`, which
run in critical sections of `Router.mu`; the deadline loop, HTTP requests and the
goroutine that stops the Router use the same mutex. A critical section hands
frames to other peers with `peer.send`, which queues them in that peer's outbox
under `outbox.mu` and leaves a token in `outbox.ready`; if the outbox refuses a
frame the peer's context is cancelled, its reader returns, and the reader's
deferred function closes the outbox, waits for the writer and calls `remove`.
During a shutdown the writer itself decides, under `Router.mu`, when its peer is
owed nothing.

An SDK client has one reader per connection, any number of callers, and timers
and contexts that abort calls from goroutines of their own; they meet on
`clientState.mu` and on each call's own mutex and credit window. An SDK server has
a goroutine per link, a reader per session and a goroutine per call; they meet on
the in-flight counter, the call's input queue and its one terminal frame.

### What is hard

* Four independent parties end a call at the Router: the instance, the caller,
  the deadline loop and whichever connection breaks first. Each path gives back
  two slots, may release joined callers, may close `drained` and may wake writers.
  At the SDKs there are as many again.
* A keyed call is tied to callers the route does not know of.
* A breaker's state is read and changed during selection, and changed again by
  outcomes of calls that were routed long before.
* A connection that breaks is still in the tables until its reader has noticed.
* Sleepers (writers, the deadline loop, receivers, senders out of credit) are
  woken through channels of capacity one by several parties.
* Checks that are separated from what they permit: `max_inflight`, `activeSrv`,
  `IsRunning`, a socket file compared and then removed, a token valid when a
  request came and revoked when it is served.

`PROJECT.json` lists each hazard at its line with the properties aimed at it.

## Modules

Every module says at its head what it models and what it leaves out. Variables
carry the names of the code's fields where there is one; a history variable (what
a peer was sent, what was returned) is marked as such. `MCRouterCore` and `MCOutbox`
give constants their values or a symmetry; the other MC modules are the suites
described below.

### RouterCore

One action per critical section, so atomicity is the program's. The variables
are the fields of `Router` and `peer`: `conn` (with `Present` = `Router.peers`),
`registered` (`instances`), `draining`, `routes`, `inflight`, `calls`, `health`,
`dedup` with `waiting` (all entries' waiters), `stage` (`draining`/`closed`), and
the two channels. `view[p][c]` is not a variable of the program: it records what
client `p` has been sent for its call `c` and turns to `stray` when a frame
arrives for a call that is not open.

| Action | Code |
|---|---|
| `Connect` | `handle` up to `r.peers[p]`, `virtualClient` |
| `Lose` | whatever cancels `peer.ctx`: a failed or timed-out read or write, an overflowing outbox, a revoked account |
| `GoAway` | `writeLoop` closing a peer that `goingAway` lets go |
| `Remove` | `remove` |
| `Register`, `Drain` | `register`, `drain` with `leavePools` |
| `Open` | `forward` of a `call.open`: refused, replayed, joined, routed, unroutable |
| `ClientWindow`, `InstanceWindow`, `ClientItem`, `InstanceItem` | `forward` with `route.credit`, `flowViolation` |
| `ClientCancel`, `InstanceTerminal` | `forward` of `call.cancel`, `call.result`, `call.error` |
| `MalformedFrame` | the reader's answer to a frame that does not decode |
| `Expire` | one round of `expireLoop`'s inner loop |
| `Cooldown` | `openUntil` passing |
| `Shutdown`, `Close` | the critical sections of `Shutdown` and `Close` |

Abstractions. A connection object is made once, so a reconnect is another
element of `Instance` with the same `IDOf`. Time is abstract: a deadline, a
cooldown and an entry's lifetime may have passed whenever they are looked at.
A balancing policy is the set of instances it may choose. Eviction from the
idempotency table drops any set of entries that are not in flight;
`DedupTable` shows that the capacity and the clock do no more than that. `stream.end` is forwarded without a change of
state and is a stutter. Frames that the Router sends to instances are not
recorded: no table depends on them. A revoked account is `Lose`: `forward`
cancels the peer before it looks at the frame. Credit saturates at `MaxCredit`
for `math.MaxInt64`. `Route.probe` is a history field: the call was admitted by
a half-open breaker.

### Outbox and CallChannels

`RouterCore` treats "queue the last frame" and "give the slot back" as one step.
In the code they are two steps under `Router.mu`, in one order in `forward`,
`expireLoop` and `Close` and in the other in `remove`, and the writer does not
hold that mutex while it pops. `Outbox` has them as separate actions
(`QueueLast`, `EndCall`) between `BeginEnd`/`Close` and the moment `MuFree` holds
again; every other action that needs `Router.mu` waits for `MuFree`. `writer` is
the program counter of `writeLoop`: `pop`, `check` (`goingAway`), `wait` (the
`select`), `write`, `stopped`. `goingAway` reads the atomic `stopping` first, so a
Router that is not stopping is found so without the mutex.

A call that joined an idempotent one keeps its slot when the first caller leaves
(`Abandon`, divergence 1). `Owing` is what the peer's counter counts, orphaned calls
included; `Reached` is what `Close` finds by a route or at the entry of one. Only the
latter are answered and ended by `Close`, and `goingAway` of a closed Router does not look
at the counter.

A call that is refused is answered without ever taking a slot (`RefuseCall`), at
any stage; such an answer may still be unwritten when the connection goes away
and is not counted as owed. `written`, `accepted`, `owed`, `goneAway` and
`passed` are history variables.

`FIFOPerCall` is the refinement: under the mapping in `Outbox` (a channel's
content is the frame in the writer's hands followed by the queue) every step is
a step of `CallChannels`, an append, the delivery of a head, or a break.

### Deadlines, DedupTable and KeyMemory

What `RouterCore` takes on trust. `Deadlines` keeps the heap as the code does, an
array whose routes remember their index, with `container/heap` as external
operators: a route rises or sinks in rounds, as many as the heap has levels at most,
where the library's `up` and `down` loop until it rests. `Look` is the part of `expireLoop` under `Router.mu`, `Arm` the reset of the
timer after it. Durations are words of `Width` bits. `DedupTable` keeps map and
list, evicts from the front up to an entry in flight, and has a clock; a route that
its caller abandons leaves its entry as it is (`Abandon`). `KeyMemory` is the promise
`RouterCore` is built on, and `KeepsKeysInFlight` the refinement.

### Registry

Pools of several services; a registration is a set of services with the methods
and contract of each. `Register` has `register`'s whole comparison with the pool's
union, `Leave` and `Drain` have `leavePools` with `rebuildMethods` as it is written.

### AuthDocument and Accounts

`AuthDocument` reads a document entry by entry, as `ParseAuth` does, over every
document of a small size. `Accounts` takes accounts in that form and has a
connection's way from `Arrive` over the check (cache, slot, password) and the
admission counters to its frames, each step one section between locks, so that a
token runs out or is revoked anywhere in between. `MayReach` is the check of `forward`:
`allowsCall`, or `whoami` of the AuthService, which needs no permission and which docs/router.md:416 opens
to temporary tokens.

### Settings and RouterProcess

`Settings` takes any two flags or variables through `flag.Parse`,
`applyEnvironment`, the checks of `run`, `loadAuth` and the first part of `Start`;
"running" means that the settings were accepted. `RouterProcess` has several
processes on one socket path and one metrics address, every system call on the
path a step; each may be killed at any step. `left` is a history variable: the last file
whose Router ended without coming to its `Close` (`Abandons`).

### HTTPGateway, HTTPServerStream, HTTPClientStream

A request in `serveHTTP` against the registry, credentials, shutdown and its own
client; and the two stream loops with the SDK's HTTP client at the other end. `Forward`
has `forward`'s outcomes: a route, a place at the entry of a keyed call in flight
(`waits`, without a deadline of its own), the remembered result, or an error; the first
caller of a joined call may leave (`stranded`). `HTTPClientStream!writer` says how the
client ended the body: complete, early (its generator stopped, which is a clean end of
the body) or broken.

### ClientLink, ClientCall, Retry

`ClientLink`: callers, dialling, readers with `failAll`'s snapshot, `Close`, aborts.
`ClientCall`: one duplex call between `deliver`, `Recv`, `Send` and the aborts; the
other call shapes are parts of it, and the peer keeps to its credit or does not
(`peer.honest`). `fail` and the `done` at its end are one step. `Retry`: the attempts of a unary call in ticks,
over both transports.

### ServerLink, ServerCall

`ServerLink`: links, sessions, the check and the count of `max_inflight` as two
steps, `Drain`, `Close`. `policy` is the reconnect policy: a supervisor that has used up its
attempts gives up and its link ends (`GivesUp`). The context of `Drain` may end at any time
(`DrainExpires`): it ends the wait for the acknowledgements, and `Drain` fails only if it
then finds calls in flight; `unacked` remembers who owed the acknowledgement when it
returned nil. `ServerCall`: one call between its handler, its senders, the
reader, the idle timer, the deadline and a lost connection.

### Mesh, Injection, Reflection

`Mesh`: threads run public operations on meshes that share a `LocalRouter`; any two of them
may overlap, two `StartServing` of one Mesh included (`overlapped` remembers the meshes of
which they did).
`Injection`: the recursion of `dfs` and `resolve` as a stack, over every small graph.
`Reflection`: every small method signature; a reference definition states the
documented shape. `source` is what `inspectMethodSource` finds: the method, another function
of its name in the file, or nothing; `paramNames` is the list read there, which begins with
the context and is looked up at `argIdx - 1`.

### The suites: MCClient, MCServer, MCRouter, MCSDKProgress, MCRouterProgress

The modules above, apart from `RouterCore` and `Outbox`, model parts that share no
state: what one does to another is among its inputs (a connection that breaks, a peer
that sends too much, a token that is revoked). A suite checks several of them in one
run. Each of the first three extends one module (`HTTPGateway`, `ServerLink`, `DedupTable`),
instantiates the others and declares their constants as its own, so that what is proved
about it is proved for all of their values; the last two instantiate small instances. Its
specification is `SuiteSpec`. Its variable
`part` says which of them the behaviour is about, and while one moves the variables of
the others stay as they begin. The states of a suite are therefore the sum of the
states of its parts and not their product, and each part is explored as it would be
alone. Where two parts are one module at two sizes (`deadlines` and `heap`, `tokens` and
`admission`, `meshes`, `restarts` and `serving`), the instance has the larger size and
`WithinBounds` keeps a part to what it is about: few routes under a clock, or many that
come and go at one moment. With `FewRoutes = TimedRoutes`, `FewConns = Conns` and so on
a part is the whole module. A property of a suite is a conjunction: of each part, the named properties of
its module, which are defined and commented there; `RequestsAccounted`,
`DrainedMeansIdle` and `KeepsKeysInFlight` are the extended modules' own.

The assumptions of a module on its constants (`LinkAssumption`, `CreditAssumption`,
...) are evaluated for every instance by the suite's `ASSUME`.

| Suite | Part: module |
|---|---|
| `MCClient` | `link`: `ClientLink`; `call`: `ClientCall`; `attempts`: `Retry`; `gateway`: `HTTPGateway`; `items`: `HTTPServerStream`; `lines`: `HTTPClientStream` |
| `MCServer` | `link`: `ServerLink`; `input`, `output`: `ServerCall`; `meshes`, `restarts`, `serving`: `Mesh`; `injection`: `Injection`; `reflection`: `Reflection` |
| `MCRouter` | `deadlines`, `heap`: `Deadlines`; `dedup`: `DedupTable`; `registry`: `Registry`; `document`: `AuthDocument`; `tokens`, `admission`: `Accounts`; `process`: `RouterProcess`; `settings`: `Settings` |
| `MCSDKProgress` | `link`: `ClientLink`; `call`, `output`: `ClientCall`; `server`: `ServerLink`; `handler`: `ServerCall`; `injection`: `Injection` |
| `MCRouterProgress` | `deadlines`: `Deadlines`; `tokens`: `Accounts`; `gateway`: `HTTPGateway`; `process`: `RouterProcess`; `mesh`: `Mesh`; `items`: `HTTPServerStream`; `lines`: `HTTPClientStream` |

## Runs

| Run | Module | Properties | Shows |
|---|---|---|---|
| `idempotency` | `MCRouterCore` | `TypeOK`, `CountersExact`, `RoutesHavePeers`, `OneExecutionPerKey`, `NoStrayFrame`, `NoForgottenCaller`, `InstanceIDsUnique`, `ChannelsMeanWhatTheySay`, `RoutesNeverMigrate`, `NoNewWorkWhenLeaving`, `GoAwayOwesNothing` | A WebSocket client and an HTTP request, two connections of one instance that drains and reconnects under its id, keyed, joined, replayed and plain unary calls under every interleaving of results, deadlines, cancels, flow violations, lost connections and shutdown: the counters stay exact, every caller is answered at most once and none is forgotten, nobody who leaves gets new work or is disconnected while owed an answer. |
| `breaker` | `MCRouterCore` | `CapacityRespected`, `BreakerConsistent` | Two instances, one of them with max_inflight 1, and a breaker threshold of 2 under balanced and targeted calls that fail, succeed, expire and are cancelled. |
| `stopping` | `MCRouterCore` | `TimedCallsEnd`, `ShutdownFinishes` | Under the fairness of the Router's own goroutines every routed call with a deadline ends and a shutdown always completes. |
| `outbox` | `MCOutbox` | `TypeOK`, `QueueConsistent`, `MemoryBounded`, `NoLostWakeup`, `AnsweredBeforeGoingAway`, `NoMonopoly`, `FIFOPerCall` | One connection's queue and writer against its reader and the Router's critical sections, with two calls, frames that fit and frames larger than the whole outbox: bytes and order stay exact, memory stays bounded, no wake-up is lost, a stopping Router closes the connection only after the last frames of every call it finds by a route are written, scheduling is round robin, and the whole refines a FIFO channel per call. |
| `outbox_progress` | `MCOutbox` | `FramesGetWritten`, `IdlePeersGoAway` | Under weak fairness of the writer goroutine and of whoever holds Router.mu, queued frames are written and a stopping Router that owes a peer nothing closes its connection. |
| `client` | `MCClient` | `ConnectionsKept`, `CallsKeepTheirWord`, `RequestsAccounted`, `StreamsComplete` | Callers of the Go SDK dial, lose and close one connection, a call meets a peer that keeps to its credit or does not, retries run against a deadline, and HTTP requests and streams go through the gateway while methods change and the Router closes: no connection or call is orphaned, no wake-up lost, no answered call reported lost, credit and limits hold, and an end means that everything arrived or that the producer itself stopped early. |
| `server` | `MCServer` | `DrainedMeansIdle`, `HandlersAnswerOnce`, `RoutersOwned`, `HandlersGetTheirArguments` | A server with two Routers and a direct client drains and closes, a handler's call meets cancel, deadline, idle timer, loss and several senders, meshes share one local Router process, and handlers of every signature and dependency graph are registered and called: the in-flight count is real, a server whose Routers acknowledged its drain idle, each call ends once, no subprocess is orphaned, and dependencies are built and released in order. |
| `router` | `MCRouter` | `DeadlinesKept`, `TablesConsistent`, `PermissionsNeverWiden`, `RunsAsAsked`, `NeverEarly`, `KeepsKeysInFlight` | Deadlines are tracked and fire, the idempotency table fills and forgets, instances register during an upgrade, auth documents are read, tokens issued and revoked while connections come in, Routers start, crash and stop on one socket path, and settings come from two sources: the loop never oversleeps, the table implements the memory the core relies on, permissions never widen, counters stay exact, and what runs is what was asked for. |
| `sdk_progress` | `MCSDKProgress` | `NobodyWaitsForEver` | Under fairness of the SDK's goroutines, calls on dead connections end, callers get on, ends reach the receiver, senders and handlers are released, links come back while their reconnect policy has attempts left, and Drain, Close and resolution end. |
| `router_progress` | `MCRouterProgress` | `EverybodyIsReleased` | Under fairness of the Router's goroutines and processes, overdue calls end, revoked connections end, HTTP requests with a deadline of their own are answered, streams end at both sides, a Router told to stop does, and every Mesh operation returns. |

`orphaned_waiters` and `malformed` expect a violation; see "Divergences found".

### Why the bounds are enough

The properties relate at most two calls, callers of one key, instances,
connections or threads, and every handler treats each on its own; two of each give
every pair of racing parties. A third is there where it matters: a third
connection competes for two places (`admission`), a third instance stays when one
of two leaves a pool (`registry`), a third process starts while one stops and one
serves (`process`), four routes make a heap with a right child and a removal from
its middle (`heap`), three keys outgrow a table of two (`dedup`), and three
types give every shape of a cycle and of a shared dependency (`injection`). Limits
are set to 1 or 2 so that they are met, and credit to less than the number of
items. In `outbox` `Limit` equals `MaxFrameSize`, the boundary that `push` has its
special case for. `heap` stands still in time and varies the order of deadlines;
`deadlines` has two routes and a clock. `meshes` has two meshes on one LocalRouter,
`restarts` a second process after a crash, `serving` a second server of one mesh, whose
two `StartServing` may overlap. `server` permutes threads and Router links, which no
definition tells apart (`Alike`); it has no temporal property, for which symmetry would
be unsound. `InitialCredit = 1` in `client` makes every item wait for a window;
`Sources` has all three outcomes of the search for a method's source. `Policies` is one
attempt in `server` and none, one and unlimited in `sdk_progress`. Every
bound on a counter (`MaxConns`, `MaxWire`, `MaxFiles`, `TokenIDs`, `MaxTime`, `MaxLag`,
...) is a named constant. The liveness runs use smaller instances of the same modules:
each of their properties speaks of one waiter and whoever can wake it.

### Fairness

`RouterCore`: the deadline loop handles an overdue call, the reader of a broken
connection runs its deferred function, `Shutdown`'s wait is bounded by its timer and
`Close`'s by the grace period. `Outbox`: the writer goroutine is scheduled (writes
have a ten-second limit) and a critical section is left again. `Deadlines`: the
loop, the timer and the clock go on; its bound on the clock is why
`OverdueCallsEnd` speaks of deadlines the clock can reach. `ClientLink`,
`ClientCall`: the SDK's own goroutines run; nothing is assumed of the peer or the
network; the application is assumed to keep receiving and not to stop inside a Send.
`ServerLink`: links go on trying as long as their policy lets them and Routers answer;
calls end. `ServerCall`:
`Released` holds under the runtime's goroutines and a handler that reacts to its
context. `Mesh`: a spawned process announces itself or exits, and one that is told
exits. `HTTPGateway`, `HTTPServerStream`, `HTTPClientStream`: handlers run,
deadlines fire, and in the stream runs an instance with credit sends and a client
reads. `Accounts`: handlers run. `RouterProcess`: a process takes its next step.

The `FairSpec` of a suite is the `Fairness` of its modules, each conjunct for the
behaviours of its own part only.

`CHECK_DEADLOCK FALSE` is set where the system may stop: everything is closed, or
the bounded calls, connections and ticks are used up.

## Divergences found

Two are runs that expect a violation; `PROJECT.json` quotes the line each contradicts:

1. `orphaned_waiters`: when the first caller of an idempotent call cancels or
   disconnects, the entry stays in flight for ever and its joined callers are
   never answered. `Close` does not find them either (router.go:527-536): their peers'
   counters stay above zero, a writer that sleeps with nothing else to do is not woken
   and ends with the grace period, and one that is awake closes the connection with 1001
   although its peer is owed an answer. `Outbox!NoLostWakeup` and
   `AnsweredBeforeGoingAway` state what holds beside that.
2. `malformed`: a frame that does not decode but names a call is answered, and the
   call goes on to a second terminal frame.

The others are properties stated in the modules that the code does not have. None is
part of a run; to see one, check the module alone with the property as its only
INVARIANT or PROPERTY and the constants given here (in the order of the module's
declaration where they are not named).

Router:

3. `RouterCore!ProbeInFlight` (constants of `malformed.cfg` with two instances,
   `Threshold = 1` and `Malformed = FALSE`): selection marks a probe on every half-open
   candidate, though only one gets the call. `OneProbeAtATime` (one instance, four
   calls): a failure of a call older than the probe clears the mark.
4. `DedupTable!CacheBounded` (four keys, two routes, `Capacity = 2`): behind a long
   call at the front of the list the table outgrows its capacity. The property that
   does hold, `GrowsOnlyBehindInFlight`, is part of `KeepsKeysInFlight`.
5. `Deadlines!NeverEarly` with `Timeouts = {1, 8}` and the other constants of the part
   `deadlines`: a very large `timeout_ms` wraps (8 milliseconds of 2 ticks in 5 bits, as
   2^63 nanoseconds in 64) and the call is overdue at once.
6. `Registry!MethodsOfItsInstances`: `rebuildMethods` takes the methods of the remaining
   instances' other services into the pool. `SameMeaning` without its condition `Apart(s)`
   fails with it: as soon as a server of `s` offers a method name of `s` with another
   meaning under another service, that meaning may become the pool's, and new servers of
   `s` are compared with it. In the run both services are apart, and servers with another
   meaning of `get` register, so that the comparison decides; add
   `Offered("b", FALSE, "none", [m \in {"get"} |-> "stream"])` next to `A1` to a
   registration and drop the condition to see the failure.
7. `HTTPGateway!OKMeansResult` (one request): a token that ends during a call leaves its
   HTTP request with an empty 200. `RequestEnds` without the exception for
   `waits` and `stranded`: a keyed request that joins a call in flight gets no route and no
   tracked deadline (router.go:879-882), so a call that is not answered, or whose first
   caller left, keeps it waiting beyond its timeout, though "a stuck instance must not hold
   them forever" (httpapi.go:278-279).
8. `RouterProcess!PathFreeAfterwards` without the exception for `left`: like a process
   that is killed, one that finds its metrics address taken leaves the socket behind and
   the path unusable, though it is still there to remove it. `RemovesItsOwnOnly` with `Operator = TRUE`: the
   comparison of the socket file and its removal are two steps.
9. `Settings!ZeroIsInForce`: a 0 is neither refused nor in force for flags with a
   default.

Go SDK:

10. `ClientLink!ClosedMeansDisconnected`: a dial under way publishes its connection
    after `Close`. `CancelFollowsOpen`: an abort can send `call.cancel` before
    `call.open`. Both with the constants of the part `link`.
11. `Retry!EveryCallWithinTimeout` with `Transports = {"http"}`: each HTTP attempt gets
    the whole timeout.
12. `ServerLink!InflightCapped` (two links, `MaxInflight = 1`): sessions pass the check
    of `max_inflight` before either counts. `DrainTakesNoCall` and
    `ClosedMeansDisconnected` (no link, one direct client): direct clients open calls
    after `Drain`, and a handshake under way outlives `Close`. `DrainedIsIdle` without
    `unacked`: when the context ends during the wait for the acknowledgements and nothing is
    in flight, `Drain` returns nil (server.go:402-415) with a call perhaps on its way.
    `LinkComesBack` without its last case: under a policy with `Disabled` or `MaxAttempts`
    the supervisor gives up for good (server.go:241-245), as the policy asks.
    `ServerCall!DeadlineAnswered` under `FairSpec`: a deadline is answered only when the
    handler returns.
13. `Mesh!OneServerPerMesh`, and `ServerTracked` without its exception for `overlapped`: two
    overlapping `StartServing` both pass the look at `activeSrv` (router.go:1246-1251), and
    the second assignment hides the first server from `Close`. `OwnerStartedIt` with two
    meshes, `RunningMeansAlive`, `FailedChildrenReaped`: shared ownership, a crashed
    Router that is running, a child that is never waited for.
14. `Injection!HeadersFirst`, `CleanupsRun`: a provider's header is missed late; a
    panic skips cleanups.
15. `Reflection!OnePropertyEach` with `Arg(1)` among the names, `NamesKept`: an unnamed
    parameter takes a name in use; names are lost without the source, and are those of
    another function where the file has one of that name and the method is not found under
    its receiver (di.go:581-583), so `ArgumentsOwnField` speaks of `source = "own"`.
16. `HTTPServerStream!EOFMeansEnd`: a stream that was cut off reads as ended.
    `HTTPClientStream!EndMeansComplete` without `writer = "early"`: over HTTP an item that
    cannot be encoded, or an error of the producer, ends the generator, and the body with a
    clean EOF (client.go:858-865, 910-925, http.go:285): the instance takes the input for
    complete and may answer. `ClientStreamSeq` at least reports the producer's error to its
    caller; `ClientStream` swallows it.

`idempotency` checks `NoStrayFrame` and `NoForgottenCaller` with `Malformed` false;
orphaned callers are still joined, so `NoForgottenCaller` (the Router knows of
every unanswered caller) holds beside divergence 1.

## Proofs

Each theorem holds for every value of the constants that satisfies the named assumptions.
`RouterCore`, `Outbox` and the first three suites state theirs with `ASSUME`, which TLC
evaluates on every run; the components of the suites have a definition
(`LinkAssumption`, `GatewayAssumption`, `MeshAssumption`, `DeadlinesAssumption`, ...) that
the suite assumes of its instance, or that is a hypothesis of the theorem. They say no more
than that ids form finite sets, that the value for "none" is none of the others, that
limits are natural numbers (a window, a capacity, a time to live and a cache size at least
1), that links and direct clients, or clients and instances, are different things, that
documents and registrations have the shape the decoder gives them, and, of `Accounts`, that
accounts, API keys and the anonymous identity are labelled as what they are and carry no
token id.

A theorem about a suite is one about each of its parts: the suite's invariant is the
conjunction of the parts' invariants, and a step of the suite is, for each part, a step of
it or none (`SuiteSteps` in `Router_proofs`), so that each part's invariant is proved about
its own specification and only once.

A property that counts is stated with a cardinality where the code has a sum:
`Outbox!CostUnits` is the set of pairs (frame, unit) and `bytes` its size,
`ServerLink!Running` the set of pairs (peer, call). A sum over a function can be
defined only by recursion; a set grows and shrinks by an element, which `FS_AddElement`
and `FS_RemoveElement` are about. `SequenceLemmas` has what several proofs need of
sequences (removal at an index, the set of the elements, how often a value occurs), and
what takes the place of an induction over an operator, which the provers cannot
instantiate: the existence of a least element (`LeastExists`), induction over a set of
naturals (`Induction`), and from it `Iteration`: a state set that a round maps into itself
holds all iterates of the round. A loop of the code is a function defined by its rounds,
and a fact about it an invariant of the round.

### RouterCore_proofs

* `TypeCorrect`: `Spec => []TypeOK`. The content is in the credits, which stay in
  `0..MaxCredit` because additions saturate and an item at zero ends the call, in
  the failure count, which stays within the threshold, and in the finiteness of
  the set of waiters.
* `CountersCorrect`: `Spec => []CountersExact`. `CountersExact` alone is not
  inductive: `OpenJoined` adds a record to a set and one to a counter, which agree
  only if the record is new. `CountersInv` adds `JoinedCallsOpened` (a call that is
  joined is no longer idle at its caller), which makes it new because a client
  opens only idle calls. The proof has one lemma for each way the tables change:
  `EndRoutesCounts` for every ending (routes in `S` and waiters of `K` removed,
  counters lowered by the cardinalities), `OpenRoutedCounts`, `JoinCounts`,
  `SameCallsCounts` for steps that keep the set of routes, and `SendAdvances` for
  views, which never return to idle.

`StepKinds` then sorts the steps of the Router into six kinds: quiet ones (no call starts
or ends), answers to malformed frames, cancels, endings (`Ends(S, K)`: the calls `S`
leave the table, the waiters of `K` are released and all are answered), removals, and
`call.open`. Most theorems are an argument about six cases instead of one about every
action:

* `RoutesStay`: `Spec => RoutesNeverMigrate`. Only `call.open` makes a route, and it
  refuses an id that is in use.
* `CapacityCorrect`: `Spec => []CapacityRespected`. The code checks counters, the
  property speaks of routes; `CapInv` states the caps on the counters and adds
  `CountersInv`, which equates the two.
* `IdempotencyCorrect`: `Spec => []OneExecutionPerKey`. Inductive together with
  `TypeOK` (`KeyInv`): an entry in flight is neither evicted nor expired, so a lookup
  that finds none proves that no live call has the key (`FreshKeyUnused`), and an
  ending touches only the entries of the calls that end (`EndKeepsEntries`).
* `PeersCorrect`: `Spec => []RoutesHavePeers`, with `registered \subseteq Present`.
* `CallersAnsweredOnce`: while every frame decodes (`~Malformed`), always
  `NoStrayFrame /\ NoForgottenCaller`. The strengthening is `CallersInv`: routed and
  joined calls are open at their callers, no call is both routed and joined by one
  client or joined twice, and a client that has yet to connect has opened nothing.
  Whoever an ending tells then has the call open (`ToldAreOpen`), and whoever goes
  on is not told (`OthersNotTold`). Without the hypothesis the statement is false:
  divergence 2.
* `InstanceIDsCorrect`, `BreakersCorrect`, `ChannelsCorrect`: `InstanceIDsUnique`,
  `BreakerConsistent` and `ChannelsMeanWhatTheySay` are inductive with `TypeOK`; the
  last because each step that may close a channel computes the condition
  from the tables it leaves behind.
* `LeavingGetsNoWork`: `Spec => NoNewWorkWhenLeaving`.
* `CallersRemembered`: `Spec => []NoForgottenCaller`, now with malformed frames as
  well, by a weaker strengthening than `CallersInv` (`RememberInv`: a client that has
  yet to connect has opened nothing).
* `GoAwayCorrect`: `Spec => GoAwayOwesNothing`, from the two: a counter at zero means no
  route and no joined call (`CountersInv`), and a caller without either is owed
  nothing (`RememberInv`).

### Outbox_proofs

* `OutboxTypeCorrect`, `QueueCorrect`: `QueueInv` is `QueueConsistent` with what makes
  it inductive: frames are queued under their own call and have different numbers
  (`FramesInv`), so the units of a frame that is added are new and those of one that is
  taken were there; `bytes` therefore never falls below zero.
* `MemoryCorrect`: `MemoryBounded` from `QueueInv` (an empty queue costs nothing).
* `WakeupsCorrect`: `WakeInv` says more than `NoLostWakeup`: also a writer that has only
  just found nothing (`check`) has a token or still nothing, and one that sleeps through
  a stop waits for a call that is open, for the section that ends it, or, in a closed Router,
  has orphaned calls only.
* `AnswersCorrect`: `AnswerInv` follows a last frame: owed, about to be queued, queued, in
  the writer's hands, written; and a peer that was let go with a call not ended is one of a
  closed Router whose call was orphaned.
* `TurnsFair`: `Spec => NoMonopoly`. `TurnsInv`: whoever passed a waiting call is behind
  it in the round.
* `ChannelsImplemented`: `Spec => FIFOPerCall`, the refinement of `CallChannels`, step
  by step: `push` appends, `pop` moves a frame from the queue to the writer's hands and
  changes no channel, a write delivers the head, and every way to break truncates.

### Router_proofs

Deadlines. `DeadlinesCorrect` (`SuiteSpec => []DeadlinesKept`) needs a proof of the heap:
`HeapInv` says that the heap is ordered and that each route is where its index says,
`TrackInv` that it holds exactly the live calls with a timeout, each under the deadline it
asked for. While a route rises or sinks the heap is not ordered; `RiseReady` and
`SinkReady` say that it is, but for the one edge above or the two below the position `at`,
and that the route's children are in order with its parent. A round (`Rise`, `Sink`)
keeps that or ends with the order restored; a rising route is at a smaller position in
each round and a sinking one at a larger, so the number of rounds suffices. `Expired`
pops one due route in a round, by the same argument over its own rounds. `NeverOversleeps`
is inductive with this: a call that becomes the earliest leaves a token in `wake`
(`Wakes`), and time that passes before the timer fires stays within what the loop is
armed for. `NeverEndedEarly` is the action property under the hypothesis `NoOverflow` (no
product of a timeout leaves the word); without it the code does not have the property:
divergence 5.

Idempotency. `DedupInv`: list and map agree (`Agree`), and a call that executes is the one
its key's entry points at (`CallsInv`). `Agree` is stated for any map and list, since
`lookup` evicts, removes and adds within one step. `ListCorrect` and `OneExecution` follow.
`KeysKept` is the refinement of `KeyMemory` together with `GrowsOnlyBehindInFlight`: what
eviction takes from the front is a prefix of settled entries, the longest one if the
capacity is still exceeded.

Registry. `RegistryInv` has the pools mirror the instances and lose no method, and
`MeaningInv`: what a pool takes a method to mean is what each of its instances means by
it. The last is what `register` compares with, and survives `rebuildMethods` only for a
service whose servers give its methods no other meaning under another service (`Apart`). `TablesAgree` is
`SuiteSpec => []TablesConsistent`, of both tables.

Accounts. `DocumentInv` follows `ParseAuth` from entry to entry; `GrantedInv` (as many
identities as entries read) is how "no entry replaces another" is carried. `AuthInv` says
who a connection may be at each stage, and that an identity the token table holds is the
one a connection has for that id. It needs the scopes of a token compared with the
permissions of its issuer as `allowsCall` and `allowsRegistration` read them, for all
services and methods, which is what `TokensCorrect` states. `RevocationCorrect` and
`AccountsHold` follow from it. `AdmissionCorrect` is a second invariant, `CountersInv`: the
limits hold for those admitted, although the counter is raised before it is compared and
lowered on every way out. `TablesCorrect` bounds the token table and the password cache.
`PermissionsHold` is `SuiteSpec => []PermissionsNeverWiden`, of all of these.

Process and settings. `ProcessInv`: at most one Router holds a file (`OneHolder`), and the
file at the path is its or was left behind; `Stages` says what each Router knows of its file
at each step of `Start` and `Close`. `SettingsInv` follows the flags through
`applyEnvironment` (`VisitInv`: a flag takes its variable's value when it is visited and not
before), the checks and `loadAuth`. `RunsCorrectly` is `SuiteSpec => []RunsAsAsked`.

### Client_proofs

* `ClientKeepsConnections`: `LinkInv`. Whoever dials is alone and set `connecting`
  (`OneDials`); a pass has tried the endpoints from the cursor on (`PassInv`), so it tries
  each once; a call in `c.calls` or in a snapshot of `failAll` is past its registration
  and has no outcome that a failure could overwrite (`CallInv`).
* `ClientKeepsItsWord`: `DuplexInv` for a call, `AttemptsInv` for its retries. Output
  credit is the receiver's to give, held by the reader, queued or in the receiver's hands
  (`OutputInv`), input credit granted, on its way or held (`InputInv`). Of a peer that
  keeps to its credit `HonestInv` says that exactly the items from `expectedSeq` on are on
  their way, in order and before the end, and that the allowance is the peer's credit with
  what is on its way; that is why it is never failed for a violation.
* `HTTPStreamsComplete`: `ItemsInv` and `LinesInv`. Items are sent, in the outbox, in the
  body or got, and what ends the call is behind them in the outbox and in the body; lines
  are still with the client, in the body, in the reader's hands or sent; the body ends as
  `writer` says, and a body that broke is not read as one that ended.
* `GatewayCorrect`: `Spec => []RequestsAccounted`. The counter counts more than the limit
  is about (`Counted` has the requests that are about to be refused), so `CountInv` states
  both; `RouteInv` ties a call to a request that waits for it.

### Server_proofs

* `ServerLinkCorrect`: `Spec => []DrainedMeansIdle`. The invariant follows the drain of a
  link: the acknowledgement is the last frame its Router sends (`AckLast`), so a link whose
  acknowledgement has been read has no call on the wire (`Settled`), a `Drain` that has
  returned nil awaited it, lost it or was out of time (`unacked`), and the counter at zero means that no call runs
  (`InflightIsReal`, with the size of `Running`).
* `MeshesOwnTheirRouters`: `SuiteSpec => []RoutersOwned`. `RouterInv`: a thread that starts
  a process holds the lock and finds none registered; `OwnerInv`: a process that a Mesh
  started is owned, or a thread is about to own or to stop it; `ServersInv`: a server on
  its way up is its thread's alone, and an assignment of `activeSrv` can hide a server only
  of a mesh on which two `StartServing` overlapped.
* `ServerAnswersOnce`: `SuiteSpec => []HandlersAnswerOnce`. The invariant and its lemmas
  are those of `ServerCall_proofs`, instantiated for the two calls of the suite.

### Arguments_proofs

`HandlersGetArguments`: `SuiteSpec => []HandlersGetTheirArguments`, for any finite set of
types, any graph over them and any signature.

* Registration: `SearchInv`. The stack of `dfs` is a path in the graph (`Path`) of exactly
  the types that are being visited (`Open`), so one that is met again closes a cycle
  (`Loop`). What is behind a frame's position has been left or is the frame above
  (`Behind`); types that have been left depend on such types only, and no cycle is among
  them (`Left`), which a type that is left extends (`AcyclicGrows`). At the end every
  registered type has been left, and the others have no dependencies. The induction over
  the graph is thus the one over steps.
* A call: `ResolveInv`, `CacheInv` and `CleanupsInv`. Each frame of `resolve` waits for the
  type of the next one (`Waits`), and what is behind its position is in the cache, in the
  first pass the headers (`Got`). The cache is closed under dependencies: a provider that
  is called finds everything it takes, and a type in the cache never takes one that is
  built later, whence the order of the cleanups. That no type is on the stack twice, which
  bounds its depth, rests on `~Cyclic`.
* Signatures: `ReflectInv` says that the entry is what the signature determines
  (`Described`) and that the arguments are those of some request with the required fields.
  `FitsAsDocumented` is the comparison with the reference definition: a stream is last
  exactly if it is the only one and trailing (`StreamsAre`), and the results are one of
  thirteen lists (`OutsAre`). Made-up names differ since the number of request parameters
  before one grows with its position (`BeforeGrows`), and names that were read differ since
  Go gives no two parameters of a function one name (`Apart`).

### ServerCall_proofs

`HandlersCorrect`: `Spec => []HandlersAnswerOnce`, of one call; the run `server` checks the
conjunction on two instances. `CallInv` has a part for each mechanism: one of `finish`'s callers
is past the swap and present (`FinishInv`, `TerminalInv`); whoever sends holds the output
lock, and the output is not closed under it (`LockInv`, `OutInv`); credit is granted, on the
wire, held, taken by a sender, or used (`CreditInv`); items are sent, on the wire, in the
reader's hands, queued or read, and none is queued behind an end (`ItemsInv`, `EndInv`);
and of an honest caller, that what it may still send fits the server's allowance as long
as the context lives, and that nothing of its stream follows the end (`HonestInv`). The
last is needed for "an honest caller is not failed": the allowance is raised before the
window is sent, and the input is closed in the reader's step before the end is queued.

### What stays with TLC

Liveness in every module (`TimedCallsEnd`, `ShutdownFinishes`, `FramesGetWritten`,
`IdlePeersGoAway`, `NobodyWaitsForEver`, `EverybodyIsReleased`), since the prover handles
neither fairness nor `ENABLED`. Every invariant and every action property that a passing
run checks is stated by a theorem as well, two of them (`NoStrayFrame`, `NeverEarly`) under
the hypothesis named above.

## Plan

Done: the Router's core, outbox, deadlines, idempotency table, registry,
accounts, HTTP gateway and process; the Go SDK's client, server, HTTP client, Mesh,
injection and reflection; theorems on each of them, for every safety property of the
runs.

Left:

1. An end-to-end composition of a client, the Router and an instance over lossy
   connections, with the promise "a call ends exactly once at its caller".
2. The event loops of the Python and TypeScript SDKs.

## Not modelled

Text and data: code generators, contracts, JSON canonicalisation, OpenAPI, JSON
schemas of Go types, frame field validation, service-name syntax, HTTP headers and
CORS. Observation: metrics, `Snapshot`, logs, tracing. Operating system: TCP
listeners and named pipes, keep-alive pings, the search for the Router's binary, the
CLI. Which instance round robin or the rendezvous hash picks. Password hashing.
The Python and TypeScript SDKs implement the same roles as the Go SDK in event
loops; their interleavings are others, and the Go modules say nothing about them.
The conformance suite is a test driver.

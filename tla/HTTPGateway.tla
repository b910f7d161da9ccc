---------------------------- MODULE HTTPGateway ------------------------------
(***************************************************************************)
(* Calls over HTTP (src/meshcall-router/internal/router/httpapi.go): the   *)
(* checks a request goes through, the virtual client it becomes, and how   *)
(* it ends against shutdown, revoked credentials, deadlines and clients    *)
(* that go away.  The bodies of streams are in HTTPServerStream and        *)
(* HTTPClientStream.                                                       *)
(***************************************************************************)
EXTENDS Integers, FiniteSets

CONSTANTS
    Requests,
    HTTPMaxInflight,
    Shapes      \* shapes under which the method may be registered

\* What is assumed of the constants, wherever they are given.
GatewayAssumption == IsFiniteSet(Requests) /\ HTTPMaxInflight \in Nat

VARIABLES
    pc,            \* where each request is in serveHTTP
    shape,         \* what methodStream answered to it
    bounded,       \* its call.open has a timeout
    status,        \* its response
    outbox,        \* the terminal frame in its peer's outbox
    route,         \* its call is in flight at an instance
    waits,         \* its keyed call has joined one in flight: no route, no deadline
    stranded,      \* the call that it joined was abandoned by its first caller
    ended,         \* its context is done
    gone,          \* its client has disconnected
    httpInflight, peers,
    registered,    \* the method's shape in the registry, or "none"
    valid,         \* its credentials: not revoked and not expired
    closed, close

request == <<pc, shape, bounded, status>>
call    == <<outbox, route, waits, stranded, ended, gone>>
router  == <<httpInflight, peers, registered, valid, closed, close>>
vars    == <<request, call, router>>

Stages == {"new", "count", "refuse", "path", "auth", "lookup", "body", "open", "peer",
           "forward", "pop", "blocked", "release", "uncount", "done"}
Answers == {"none", "preflight", "refused", "invalid", "denied", "unavailable", "document", "result", "error", "empty"}

TypeOK ==
    /\ pc \in [Requests -> Stages] /\ shape \in [Requests -> Shapes \cup {"none"}]
    /\ bounded \in [Requests -> BOOLEAN] /\ status \in [Requests -> Answers]
    /\ outbox \in [Requests -> {"empty", "result", "error"}]
    /\ route \subseteq Requests /\ waits \subseteq Requests /\ stranded \subseteq Requests
    /\ ended \subseteq Requests /\ gone \subseteq Requests
    /\ httpInflight \in 0..Cardinality(Requests) /\ peers \subseteq Requests
    /\ registered \in Shapes \cup {"none"} /\ valid \in BOOLEAN /\ closed \in BOOLEAN
    /\ close \in {"no", "waiting", "cancelled", "done"}

Init ==
    /\ pc = [q \in Requests |-> "new"] /\ shape = [q \in Requests |-> "none"]
    /\ bounded = [q \in Requests |-> TRUE] /\ status = [q \in Requests |-> "none"]
    /\ outbox = [q \in Requests |-> "empty"] /\ route = {} /\ waits = {} /\ stranded = {}
    /\ ended = {} /\ gone = {}
    /\ httpInflight = 0 /\ peers = {} /\ registered \in Shapes \cup {"none"}
    /\ valid = TRUE /\ closed = FALSE /\ close = "no"

To(q, s) == pc' = [pc EXCEPT ![q] = s]
Say(q, a) == status' = [status EXCEPT ![q] = a]

-------------------------------------------------------------------------------
(* serveHTTP, up to the call.                                              *)

\* cors answers a preflight; anything else goes on.
Arrive(q) ==
    /\ pc[q] = "new" /\ close = "no"
    /\ \/ To(q, "count") /\ UNCHANGED status
       \/ To(q, "done") /\ Say(q, "preflight")
    /\ UNCHANGED <<shape, bounded, call, router>>

OverLimit == httpInflight + 1 > HTTPMaxInflight

\* The counter is raised first and compared then; a refused request lowers it again.
CountIn(q) ==
    /\ pc[q] = "count"
    /\ httpInflight' = httpInflight + 1 /\ To(q, IF OverLimit THEN "refuse" ELSE "path")
    /\ UNCHANGED <<shape, bounded, status, call, peers, registered, valid, closed, close>>

Refuse(q) ==
    /\ pc[q] = "refuse"
    /\ httpInflight' = httpInflight - 1 /\ Say(q, "refused") /\ To(q, "done")
    /\ UNCHANGED <<shape, bounded, call, peers, registered, valid, closed, close>>

\* One check: passed, or answered with what is wrong.
Check(q, at, next, wrong) ==
    /\ pc[q] = at
    /\ \/ To(q, next) /\ UNCHANGED status
       \/ To(q, "uncount") /\ Say(q, wrong)

CheckPath(q) == Check(q, "path", "auth", "invalid") /\ UNCHANGED <<shape, bounded, call, router>>

\* Auth.check and the role; the OpenAPI document needs no call.
CheckAuth(q) ==
    /\ \/ valid /\ Check(q, "auth", "lookup", "denied")
       \/ pc[q] = "auth" /\ ~valid /\ To(q, "uncount") /\ Say(q, "denied")
       \/ pc[q] = "auth" /\ valid /\ To(q, "uncount") /\ Say(q, "document")
    /\ UNCHANGED <<shape, bounded, call, router>>

\* methodStream, under the Router's lock.
LookUp(q) ==
    /\ pc[q] = "lookup"
    /\ shape' = [shape EXCEPT ![q] = registered]
    /\ IF registered = "duplex" THEN To(q, "uncount") /\ Say(q, "invalid")
                                ELSE To(q, "body") /\ UNCHANGED status
    /\ UNCHANGED <<bounded, call, router>>

CheckBody(q) == Check(q, "body", "open", "invalid") /\ UNCHANGED <<shape, bounded, call, router>>

DefaultTimeout(q) == shape[q] # "server_stream"

\* httpOpenFrame: a timeout is given, or the default applies.
OpenFrame(q) ==
    /\ Check(q, "open", "peer", "invalid")
    /\ \E given \in BOOLEAN : bounded' = [bounded EXCEPT ![q] = given \/ DefaultTimeout(q)]
    /\ UNCHANGED <<shape, call, router>>

MayEnter == ~closed /\ valid

VirtualClient(q) ==
    /\ pc[q] = "peer"
    /\ IF MayEnter THEN peers' = peers \cup {q} /\ To(q, "forward") /\ UNCHANGED status
                   ELSE To(q, "uncount") /\ Say(q, "unavailable") /\ UNCHANGED peers
    /\ UNCHANGED <<shape, bounded, call, httpInflight, registered, valid, closed, close>>

\* forward drops the call of a peer that is ended.  Otherwise it gets a route, or a
\* place at the entry of its key, or the result that the key remembers, or the
\* Router's own error frame.
Forward(q) ==
    /\ pc[q] = "forward"
    /\ To(q, "pop")
    /\ \/ /\ q \in ended \/ ~valid
          /\ ended' = ended \cup {q} /\ UNCHANGED <<outbox, route, waits>>
       \/ /\ q \notin ended /\ valid /\ UNCHANGED ended
          /\ \/ /\ ~closed /\ registered # "none"
                /\ route' = route \cup {q} /\ UNCHANGED <<outbox, waits>>
             \/ /\ ~closed /\ registered = "unary"
                /\ waits' = waits \cup {q} /\ UNCHANGED <<outbox, route>>
             \/ /\ ~closed /\ registered = "unary"
                /\ outbox' = [outbox EXCEPT ![q] = "result"] /\ UNCHANGED <<route, waits>>
             \/ outbox' = [outbox EXCEPT ![q] = "error"] /\ UNCHANGED <<route, waits>>
    /\ UNCHANGED <<shape, bounded, status, stranded, gone, router>>

-------------------------------------------------------------------------------
(* The instance and the Router's deadline.  A call that streams under a    *)
(* request that took it for another shape waits for credit or for input    *)
(* that never comes.                                                       *)

Fits(q) == shape[q] = registered \/ registered = "unary"

Answer(q) ==
    /\ q \in route /\ Fits(q)
    /\ route' = route \ {q} /\ \E a \in {"result", "error"} : outbox' = [outbox EXCEPT ![q] = a]
    /\ UNCHANGED <<request, waits, stranded, ended, gone, router>>

Deadline(q) ==
    /\ q \in route /\ bounded[q]
    /\ route' = route \ {q} /\ outbox' = [outbox EXCEPT ![q] = "error"]
    /\ UNCHANGED <<request, waits, stranded, ended, gone, router>>

\* The call that q joined ends, and everybody who waits at its entry is answered.
SharedAnswer(q) ==
    /\ q \in waits
    /\ waits' = waits \ {q} /\ \E a \in {"result", "error"} : outbox' = [outbox EXCEPT ![q] = a]
    /\ UNCHANGED <<request, route, stranded, ended, gone, router>>

\* The first caller of that call cancels it or is lost: its entry stays, without a route.
FirstCallerLeaves(q) ==
    /\ q \in waits
    /\ waits' = waits \ {q} /\ stranded' = stranded \cup {q}
    /\ UNCHANGED <<request, outbox, route, ended, gone, router>>

\* An error frame for every call that is found by a route.
FailRoutes ==
    /\ outbox' = [q \in Requests |-> IF q \in route \cup waits THEN "error" ELSE outbox[q]]
    /\ route' = {} /\ waits' = {}

\* The instances of the method leave (their calls fail), and others come.
Reregister ==
    /\ \E s \in Shapes \cup {"none"} : s # registered /\ registered' = s
    /\ FailRoutes
    /\ UNCHANGED <<request, stranded, ended, gone, httpInflight, peers, valid, closed, close>>

-------------------------------------------------------------------------------
(* httpCall.next and the end of the request.                               *)

Pop(q) ==
    /\ pc[q] = "pop"
    /\ IF outbox[q] = "empty" THEN To(q, "blocked") /\ UNCHANGED status
                              ELSE To(q, "release") /\ Say(q, outbox[q])
    /\ UNCHANGED <<shape, bounded, call, router>>

Wake(q) ==
    /\ pc[q] = "blocked" /\ outbox[q] # "empty"
    /\ To(q, "pop")
    /\ UNCHANGED <<shape, bounded, status, call, router>>

\* errHTTPGone: nothing is written, which the HTTP server completes to an empty 200.
ContextEnds(q) ==
    /\ pc[q] = "blocked" /\ q \in ended
    /\ To(q, "release") /\ Say(q, "empty")
    /\ UNCHANGED <<shape, bounded, call, router>>

\* Mutant: a request that ends leaves its call behind.
Forgets(q) == route

Cancels(q) == route \ {q}

\* release: the peer is removed, a call it still has is cancelled; a place at an
\* entry is forgotten with the peer.
Release(q) ==
    /\ pc[q] = "release"
    /\ peers' = peers \ {q} /\ route' = Cancels(q) /\ ended' = ended \cup {q} /\ To(q, "uncount")
    /\ waits' = waits \ {q} /\ stranded' = stranded \ {q}
    /\ UNCHANGED <<shape, bounded, status, outbox, gone, httpInflight, registered, valid, closed, close>>

GivenBack == httpInflight - 1

\* The request is over, and what serveHTTP knew of it.
Uncount(q) ==
    /\ pc[q] = "uncount"
    /\ httpInflight' = GivenBack /\ To(q, "done")
    /\ shape' = [shape EXCEPT ![q] = "none"] /\ bounded' = [bounded EXCEPT ![q] = TRUE]
    /\ outbox' = [outbox EXCEPT ![q] = "empty"] /\ ended' = ended \ {q}
    /\ UNCHANGED <<status, route, waits, stranded, gone, peers, registered, valid, closed, close>>

ClientGone(q) ==
    /\ pc[q] \notin {"new", "done"} /\ q \notin gone
    /\ gone' = gone \cup {q} /\ ended' = ended \cup {q}
    /\ UNCHANGED <<request, outbox, route, waits, stranded, router>>

\* A token expires or is revoked: the contexts of its peers end.
Invalidate ==
    /\ valid
    /\ valid' = FALSE /\ ended' = ended \cup peers
    /\ UNCHANGED <<request, outbox, route, waits, stranded, gone, httpInflight, peers, registered, closed, close>>

-------------------------------------------------------------------------------
(* Router.Close: routed calls, and those that joined one, get an error     *)
(* frame, stranded ones do not; when the requests are done, or the grace   *)
(* is over, every context ends and the peers are waited for.               *)
CloseBegins ==
    /\ close = "no"
    /\ closed' = TRUE /\ close' = "waiting"
    /\ FailRoutes
    /\ UNCHANGED <<request, stranded, ended, gone, httpInflight, peers, registered, valid>>

CloseCancels ==
    /\ close = "waiting"
    /\ close' = "cancelled" /\ ended' = ended \cup peers
    /\ UNCHANGED <<request, outbox, route, waits, stranded, gone, httpInflight, peers, registered, valid, closed>>

CloseDone ==
    /\ close = "cancelled" /\ peers = {}
    /\ close' = "done"
    /\ UNCHANGED <<request, call, httpInflight, peers, registered, valid, closed>>

Serve(q) ==
    \/ CountIn(q) \/ Refuse(q) \/ CheckPath(q) \/ CheckAuth(q) \/ LookUp(q) \/ CheckBody(q)
    \/ OpenFrame(q) \/ VirtualClient(q) \/ Forward(q) \/ Pop(q) \/ Wake(q) \/ ContextEnds(q)
    \/ Release(q) \/ Uncount(q)

Next ==
    \/ \E q \in Requests : Arrive(q) \/ Serve(q) \/ Answer(q) \/ Deadline(q) \/ ClientGone(q)
    \/ \E q \in Requests : SharedAnswer(q) \/ FirstCallerLeaves(q)
    \/ Reregister \/ Invalidate \/ CloseBegins \/ CloseCancels \/ CloseDone

Spec == Init /\ [][Next]_vars

\* Handlers go on, deadlines fire, and Close goes through.
FairSpec ==
    /\ Spec
    /\ \A q \in Requests : WF_vars(Serve(q)) /\ WF_vars(Deadline(q))
    /\ WF_vars(CloseCancels) /\ WF_vars(CloseDone)

-------------------------------------------------------------------------------
Admitted == {q \in Requests : pc[q] \notin {"new", "count", "refuse", "done"}}

(* No more than --http-max-inflight requests are ever past the limit, and  *)
(* the counter gives every one of them back.                               *)
AdmittedWithinLimit ==
    /\ Cardinality(Admitted) <= HTTPMaxInflight
    /\ httpInflight = Cardinality(Admitted \cup {q \in Requests : pc[q] = "refuse"})

(* A call never outlives its request: the instance is told of the end.     *)
NoOrphanCall == \A q \in route \cup waits \cup stranded : pc[q] \in {"pop", "blocked", "release"}

(* When Close has returned no request is inside the Router any more.       *)
ClosedMeansQuiet == close = "done" => peers = {} /\ route \cup waits \cup stranded = {}

(* What serveHTTP and Close owe for every request, however it ends: no     *)
(* more than --http-max-inflight are past the limit and each gives its     *)
(* place back, a call never outlives the request that opened it, and when  *)
(* Close has returned no request is inside the Router.                     *)
RequestsAccounted == TypeOK /\ AdmittedWithinLimit /\ NoOrphanCall /\ ClosedMeansQuiet

(* A request with a timeout ends, even when the method changed its shape   *)
(* between the look-up and the call; one without lives as its call does.   *)
(* Its timeout is not tracked when it has joined the call of another: then *)
(* it waits for that call, and for ever when that was abandoned.  Whatever *)
(* it waits for, it ends with its client, its credentials or the Router.   *)
RequestEnds ==
    \A q \in Requests :
        /\ pc[q] = "count" ~> (\/ pc[q] = "done"
                               \/ shape[q] = "server_stream" /\ ~bounded[q]
                               \/ q \in waits \cup stranded)
        /\ (pc[q] # "new" /\ (closed \/ q \in ended)) ~> pc[q] = "done"

(* docs/protocol.md taken at its word: a 200 is the result of the call.    *)
OKMeansResult == \A q \in Requests \ gone : status[q] # "empty"
===============================================================================

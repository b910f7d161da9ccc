--------------------------- MODULE RouterCore_proofs ---------------------------
(***************************************************************************)
(* Safety of the routing core, for every number of connections, calls,     *)
(* keys and methods and every setting of the limits: types and counters,   *)
(* caps, idempotency, routes and their peers, what callers are sent, and   *)
(* the Router's life: who owns an instance id, when a breaker is tripped,  *)
(* what the channels of a stopping Router say, what a closed connection is *)
(* owed.  After the counters, the steps of the Router fall into six kinds  *)
(* (StepKinds); each invariant is shown to survive each kind.              *)
(***************************************************************************)
EXTENDS RouterCore, FiniteSetTheorems, TLAPS

-------------------------------------------------------------------------------
(* Lemmas about the operators the actions are built from.                  *)

\* Every subset of the calls has a cardinality.
LEMMA CallSetsFinite ==
  ASSUME NEW S \in SUBSET Call
  PROVE  IsFiniteSet(S) /\ Cardinality(S) \in Nat
  BY PeersAssumption, FS_Subset, FS_CardinalityType

\* Every subset of the joined calls has a cardinality.
LEMMA WaiterSetsFinite ==
  ASSUME TypeOK, NEW W \in SUBSET waiting
  PROVE  IsFiniteSet(W) /\ Cardinality(W) \in Nat
  BY FS_Subset, FS_CardinalityType DEF TypeOK

\* Sending frames leaves every view a view.
LEMMA SendType ==
  ASSUME TypeOK, NEW to, NEW terminal \in BOOLEAN, Send(to, terminal)
  PROVE  view' \in [Client -> [Call -> {"idle", "open", "done", "stray"}]]
  BY DEF TypeOK, Send, Receive

LEMMA ObserveType ==
  ASSUME NEW h \in Health, NEW ok \in BOOLEAN
  PROVE  Observe(h, ok) \in Health
  BY LimitsAssumption DEF Health, Observe, Closed

\* Ending routes and releasing waiters keeps the types of what it changes.
LEMMA EndRoutesType ==
  ASSUME TypeOK, NEW S \in SUBSET Live, NEW K, EndRoutes(S, K)
  PROVE  /\ routes' \in [Call -> Route \cup {None}]
         /\ inflight' \in [Instance -> Int]
         /\ calls' \in [Client -> Int]
         /\ waiting' \in SUBSET Waiter
         /\ IsFiniteSet(waiting')
  <1>1. \A i : RoutesEnded(S, i) \in Nat
    BY CallSetsFinite DEF Live, RoutesEnded
  <1>2. \A p : CallsEnded(S, p) \in Nat
    BY CallSetsFinite DEF Live, CallsEnded
  <1>3. \A p : WaitsEnded(K, p) \in Nat
    BY WaiterSetsFinite DEF WaitsEnded
  <1>4. waiting' \in SUBSET Waiter /\ IsFiniteSet(waiting')
    BY WaiterSetsFinite DEF TypeOK, EndRoutes, ReleaseWaiters
  <1>5. routes' \in [Call -> Route \cup {None}]
    BY DEF TypeOK, EndRoutes
  <1>6. inflight' \in [Instance -> Int]
    BY <1>1 DEF TypeOK, EndRoutes
  <1>7. calls' \in [Client -> Int]
    BY <1>2, <1>3 DEF TypeOK, EndRoutes
  <1> QED BY <1>4, <1>5, <1>6, <1>7

\* The entry of a deduplicated request has a place in the table.
LEMMA KeyOfType ==
  ASSUME NEW req \in Request, Deduplicated(req)
  PROVE  KeyOf(req) \in DedupKey
  BY ServiceAssumption DEF Deduplicated, KeyOf, DedupKey, Requests

LEMMA DedupFailType ==
  ASSUME TypeOK, NEW K, NEW lost \in Instance \cup {None}, DedupFail(K, lost)
  PROVE  dedup' \in [DedupKey -> Entry \cup {None}]
  BY DEF TypeOK, DedupFail, Failed, Entry

LEMMA DedupInsertType ==
  ASSUME TypeOK, NEW c \in Call, NEW req \in Request, DedupInsert(c, req)
  PROVE  dedup' \in [DedupKey -> Entry \cup {None}]
  BY DEF TypeOK, DedupInsert, Entry

LEMMA AfterSelectionType ==
  ASSUME TypeOK, NEW req, NEW avoid
  PROVE  AfterSelection(req, avoid) \in [Instance -> Health]
  <1>1. \A h \in Health : [h EXCEPT !.probing = TRUE] \in Health
    BY DEF Health
  <1> QED BY <1>1 DEF TypeOK, AfterSelection

\* Whatever selection returns is an instance that the Router has registered.
LEMMA SelectionIsRegistered ==
  ASSUME TypeOK, NEW req, NEW avoid
  PROVE  SelectInstance(req, avoid) \subseteq registered \ draining
  <1>1. Eligible(req.method, avoid) \subseteq registered \ draining
    BY DEF Eligible, Considered, Serving, Pool
  <1>2. \A A : Balanced(req, A) \subseteq A
    BY DEF Balanced
  <1>3. TargetInstance(req) \subseteq registered \ draining
    BY DEF TargetInstance
  <1> QED BY <1>1, <1>2, <1>3 DEF SelectInstance

LEMMA NewRouteType ==
  ASSUME TypeOK, NEW p \in Client, NEW i \in Instance, NEW req \in Request
  PROVE  NewRoute(p, i, req) \in Route
  <1>1. req \in Requests
    BY ServiceAssumption
  <1>2. (IF Deduplicated(req) THEN KeyOf(req) ELSE None) \in DedupKey \cup {None}
    BY KeyOfType
  <1>3. 0 \in 0..MaxCredit
    BY LimitsAssumption
  <1> QED BY <1>1, <1>2, <1>3 DEF NewRoute, Route, Requests, UsesPolicy

-------------------------------------------------------------------------------
(* Type correctness.                                                       *)

LEMMA OpenType ==
  ASSUME TypeOK, NEW p \in Client, NEW c \in Call, NEW req \in Request,
         Open(p, c, req)
  PROVE  TypeOK'
  <1>1. /\ conn' \in [Peer -> {"absent", "up", "lost", "gone"}]
        /\ registered' \in SUBSET Instance
        /\ draining' \in SUBSET Instance
        /\ stage' \in {"running", "draining", "closed"}
        /\ drained' \in BOOLEAN
        /\ peersGone' \in BOOLEAN
    BY DEF TypeOK, Open
  <1>2. (Opened(p, c) \/ Answered(p, c))
        => view' \in [Client -> [Call -> {"idle", "open", "done", "stray"}]]
    BY DEF TypeOK, Opened, Answered
  <1>3. CASE OpenRefused(p, c, req) \/ OpenReplayed(p, c, req)
    BY <1>1, <1>2, <1>3 DEF TypeOK, OpenRefused, OpenReplayed
  <1>4. CASE OpenJoined(p, c, req)
    <2>1. Deduplicated(req)
      BY <1>4 DEF OpenJoined, Lookup
    <2>2. [key |-> KeyOf(req), client |-> p, call |-> c] \in Waiter
      BY <2>1, KeyOfType DEF Waiter
    <2>3. waiting' \in SUBSET Waiter /\ IsFiniteSet(waiting')
      BY <1>4, <2>2, FS_AddElement DEF OpenJoined, TypeOK
    <2>4. calls' \in [Client -> Int]
      BY <1>4 DEF OpenJoined, TypeOK
    <2> QED BY <1>1, <1>2, <1>4, <2>3, <2>4 DEF OpenJoined, TypeOK
  <1>5. CASE OpenRouted(p, c, req)
    <2>1. PICK e \in Lookup(req) : \E i \in SelectInstance(req, Avoid(e)) :
              /\ routes' = [routes EXCEPT ![c] = NewRoute(p, i, req)]
              /\ inflight' = [inflight EXCEPT ![i] = @ + 1]
              /\ calls' = [calls EXCEPT ![p] = @ + 1]
              /\ health' = AfterSelection(req, Avoid(e))
              /\ DedupInsert(c, req)
              /\ Opened(p, c)
              /\ UNCHANGED waiting
      BY <1>5 DEF OpenRouted
    <2>2. PICK i \in SelectInstance(req, Avoid(e)) :
              /\ routes' = [routes EXCEPT ![c] = NewRoute(p, i, req)]
              /\ inflight' = [inflight EXCEPT ![i] = @ + 1]
      BY <2>1
    <2>3. i \in Instance
      BY SelectionIsRegistered DEF TypeOK
    <2>4. routes' \in [Call -> Route \cup {None}]
      BY <2>2, <2>3, NewRouteType DEF TypeOK
    <2>5. inflight' \in [Instance -> Int] /\ calls' \in [Client -> Int]
      BY <2>1, <2>2, <2>3 DEF TypeOK
    <2>6. dedup' \in [DedupKey -> Entry \cup {None}]
      BY <2>1, DedupInsertType
    <2>7. health' \in [Instance -> Health]
      BY <2>1, AfterSelectionType
    <2> QED BY <1>1, <1>2, <2>1, <2>4, <2>5, <2>6, <2>7 DEF TypeOK
  <1>6. CASE OpenUnroutable(p, c, req)
    <2>1. dedup' \in [DedupKey -> Entry \cup {None}]
      BY <1>6 DEF OpenUnroutable, TypeOK
    <2>2. health' \in [Instance -> Health]
      BY <1>6, AfterSelectionType DEF OpenUnroutable
    <2> QED BY <1>1, <1>2, <1>6, <2>1, <2>2 DEF OpenUnroutable, TypeOK
  <1> QED BY <1>3, <1>4, <1>5, <1>6 DEF Open

LEMMA FlowViolationType ==
  ASSUME TypeOK, NEW c \in Live, NEW byInstance \in BOOLEAN,
         FlowViolation(c, byInstance)
  PROVE  TypeOK'
  <1>1. EndRoutes({c}, EntriesOf({c}))
        /\ DedupFail(EntriesOf({c}), None)
        /\ Send(Callers({c}) \cup Joined(EntriesOf({c})), TRUE)
        /\ MarkDrained({c})
        /\ UNCHANGED <<conn, registered, draining, stage, peersGone>>
    BY DEF FlowViolation
  <1>2. health' \in [Instance -> Health]
    BY ObserveType DEF FlowViolation, TypeOK
  <1> QED BY <1>1, <1>2, EndRoutesType, DedupFailType, SendType DEF TypeOK, MarkDrained

LEMMA WindowType ==
  ASSUME TypeOK, NEW c \in Live, NEW n \in 1..MaxCredit
  PROVE  /\ [routes EXCEPT ![c].serverCredit = Saturated(@ + n)]
              \in [Call -> Route \cup {None}]
         /\ [routes EXCEPT ![c].clientCredit = Saturated(@ + n)]
              \in [Call -> Route \cup {None}]
  <1>1. routes[c] \in Route
    BY DEF Live, TypeOK
  <1>2. \A k \in 0..MaxCredit : Saturated(k + n) \in 0..MaxCredit
    BY LimitsAssumption DEF Saturated
  <1>3. \A r \in Route :
          /\ [r EXCEPT !.serverCredit = Saturated(@ + n)] \in Route
          /\ [r EXCEPT !.clientCredit = Saturated(@ + n)] \in Route
    BY <1>2 DEF Route
  <1>4. \A r \in Route : [routes EXCEPT ![c] = r] \in [Call -> Route \cup {None}]
    BY DEF TypeOK
  <1>5. /\ [routes[c] EXCEPT !.serverCredit = Saturated(@ + n)] \in Route
        /\ [routes[c] EXCEPT !.clientCredit = Saturated(@ + n)] \in Route
    BY <1>1, <1>3
  <1> QED BY <1>4, <1>5

LEMMA SpendType ==
  ASSUME TypeOK, NEW c \in Live
  PROVE  /\ routes[c].serverCredit # 0
            => [routes EXCEPT ![c].serverCredit = @ - 1]
                 \in [Call -> Route \cup {None}]
         /\ routes[c].clientCredit # 0
            => [routes EXCEPT ![c].clientCredit = @ - 1]
                 \in [Call -> Route \cup {None}]
  <1>1. routes[c] \in Route
    BY DEF Live, TypeOK
  <1>2. \A k \in 0..MaxCredit : k # 0 => k - 1 \in 0..MaxCredit
    BY LimitsAssumption
  <1>3. \A r \in Route :
          /\ r.serverCredit # 0 => [r EXCEPT !.serverCredit = @ - 1] \in Route
          /\ r.clientCredit # 0 => [r EXCEPT !.clientCredit = @ - 1] \in Route
    BY <1>2 DEF Route
  <1>4. \A r \in Route : [routes EXCEPT ![c] = r] \in [Call -> Route \cup {None}]
    BY DEF TypeOK
  <1>5. /\ routes[c].serverCredit # 0
           => [routes[c] EXCEPT !.serverCredit = @ - 1] \in Route
        /\ routes[c].clientCredit # 0
           => [routes[c] EXCEPT !.clientCredit = @ - 1] \in Route
    BY <1>1, <1>3
  <1> QED BY <1>4, <1>5

\* TypeOK is preserved by every step: whatever happens to a connection, a call
\* or the Router, each table keeps holding what it is meant to hold.
LEMMA TypeStep == TypeOK /\ [Next]_vars => TypeOK'
  <1> SUFFICES ASSUME TypeOK, [Next]_vars PROVE TypeOK'
    OBVIOUS
  <1>1. ASSUME NEW p \in Peer, Connect(p) \/ Lose(p) \/ GoAway(p) PROVE TypeOK'
    BY <1>1 DEF TypeOK, Connect, Lose, GoAway
  <1>2. ASSUME NEW p \in Peer, Remove(p) PROVE TypeOK'
    <2> DEFINE S == RoutesWith(p)
               K == IF p \in Instance THEN EntriesOf(S) ELSE {}
               to == IF p \in Instance THEN Callers(S) \cup Joined(K) ELSE {}
               lost == IF p \in Instance THEN p ELSE None
    <2>1. S \in SUBSET Live /\ lost \in Instance \cup {None}
      BY DEF RoutesWith
    <2>2. EndRoutes(S, K) /\ DedupFail(K, lost) /\ Send(to, TRUE)
      BY <1>2 DEF Remove
    <2> HIDE DEF S, K, to, lost
    <2>3. /\ routes' \in [Call -> Route \cup {None}]
          /\ inflight' \in [Instance -> Int]
          /\ calls' \in [Client -> Int]
          /\ waiting' \in SUBSET Waiter
          /\ IsFiniteSet(waiting')
      BY <2>1, <2>2, EndRoutesType
    <2>4. dedup' \in [DedupKey -> Entry \cup {None}]
      BY <2>1, <2>2, DedupFailType
    <2>5. view' \in [Client -> [Call -> {"idle", "open", "done", "stray"}]]
      BY <2>2, SendType
    <2> QED BY <1>2, <2>3, <2>4, <2>5 DEF TypeOK, Remove, MarkDrained, LastPeer
  <1>3. ASSUME NEW i \in Instance, Register(i) \/ Drain(i) PROVE TypeOK'
    BY <1>3 DEF TypeOK, Register, Drain, Peer
  <1>4. ASSUME NEW i \in Instance, Cooldown(i) PROVE TypeOK'
    <2>1. \A h \in Health : [h EXCEPT !.state = "half_open"] \in Health
      BY DEF Health
    <2> QED BY <1>4, <2>1 DEF TypeOK, Cooldown
  <1>5. ASSUME NEW p \in Client, NEW c \in Call, ClientItem(p, c) PROVE TypeOK'
    <2>1. c \in Live
      BY <1>5 DEF ClientItem, FromClient, RoutesOf
    <2> QED BY <1>5, <2>1, SpendType, FlowViolationType DEF TypeOK, ClientItem
  <1>6. ASSUME NEW p \in Client, NEW c \in Call, ClientCancel(p, c) PROVE TypeOK'
    <2>1. {c} \in SUBSET Live
      BY <1>6 DEF ClientCancel, FromClient, RoutesOf
    <2>2. view' \in [Client -> [Call -> {"idle", "open", "done", "stray"}]]
      BY <1>6 DEF ClientCancel, Answered, TypeOK
    <2> QED BY <1>6, <2>1, <2>2, EndRoutesType DEF TypeOK, ClientCancel, MarkDrained
  <1>7. ASSUME NEW p \in Client, NEW c \in Call, MalformedFrame(p, c) PROVE TypeOK'
    BY <1>7 DEF TypeOK, MalformedFrame, Answered
  <1>8. ASSUME NEW p \in Client, NEW c \in Call, NEW n \in 1..MaxCredit,
               ClientWindow(p, c, n)
        PROVE TypeOK'
    <2>1. c \in Live
      BY <1>8 DEF ClientWindow, FromClient, RoutesOf
    <2> QED BY <1>8, <2>1, WindowType DEF TypeOK, ClientWindow
  <1>9. ASSUME NEW i \in Instance, NEW c \in Call, NEW n \in 1..MaxCredit,
               InstanceWindow(i, c, n)
        PROVE TypeOK'
    <2>1. c \in Live
      BY <1>9 DEF InstanceWindow, FromInstance, RoutesTo
    <2> QED BY <1>9, <2>1, WindowType, SendType DEF TypeOK, InstanceWindow
  <1>10. ASSUME NEW i \in Instance, NEW c \in Call, InstanceItem(i, c) PROVE TypeOK'
    <2>1. c \in Live
      BY <1>10 DEF InstanceItem, FromInstance, RoutesTo
    <2> QED BY <1>10, <2>1, SpendType, SendType, FlowViolationType
            DEF TypeOK, InstanceItem
  <1>11. ASSUME NEW i \in Instance, NEW c \in Call, NEW ok \in BOOLEAN,
                InstanceTerminal(i, c, ok)
         PROVE TypeOK'
    <2>1. {c} \in SUBSET Live
      BY <1>11 DEF InstanceTerminal, FromInstance, RoutesTo
    <2>2. health' \in [Instance -> Health]
      BY <1>11, ObserveType DEF InstanceTerminal, TypeOK
    <2>3. dedup' \in [DedupKey -> Entry \cup {None}]
      BY <1>11 DEF InstanceTerminal, TypeOK, Settled, Entry
    <2>4. view' \in [Client -> [Call -> {"idle", "open", "done", "stray"}]]
      BY <1>11, SendType DEF InstanceTerminal
    <2> QED BY <1>11, <2>1, <2>2, <2>3, <2>4, EndRoutesType
            DEF TypeOK, InstanceTerminal, MarkDrained
  <1>12. ASSUME NEW c \in Call, Expire(c) PROVE TypeOK'
    <2>1. {c} \in SUBSET Live /\ routes[c] \in Route
      BY <1>12 DEF Expire, Overdue, Live, TypeOK
    <2>2. health' \in [Instance -> Health]
      BY <1>12, <2>1, ObserveType DEF Expire, TypeOK, Route
    <2> QED BY <1>12, <2>1, <2>2, EndRoutesType, DedupFailType, SendType
            DEF TypeOK, Expire, MarkDrained
  <1>13. ASSUME Shutdown PROVE TypeOK'
    BY <1>13 DEF TypeOK, Shutdown
  <1>14. ASSUME Close PROVE TypeOK'
    <2>1. EndRoutes(Live, EntriesOf(Live)) /\ DedupFail(EntriesOf(Live), None)
          /\ Send(Callers(Live) \cup Joined(EntriesOf(Live)), TRUE)
      BY <1>14 DEF Close
    <2>2. /\ routes' \in [Call -> Route \cup {None}]
          /\ inflight' \in [Instance -> Int]
          /\ calls' \in [Client -> Int]
          /\ waiting' \in SUBSET Waiter
          /\ IsFiniteSet(waiting')
      BY <2>1, EndRoutesType
    <2>3. dedup' \in [DedupKey -> Entry \cup {None}]
      BY <2>1, DedupFailType
    <2>4. view' \in [Client -> [Call -> {"idle", "open", "done", "stray"}]]
      BY <2>1, SendType
    <2> QED BY <1>14, <2>2, <2>3, <2>4 DEF TypeOK, Close
  <1>15. CASE UNCHANGED vars
    BY <1>15 DEF TypeOK, vars
  <1> QED BY <1>1, <1>2, <1>3, <1>4, <1>5, <1>6, <1>7, <1>8, <1>9, <1>10, <1>11,
             <1>12, <1>13, <1>14, <1>15, OpenType DEF Next

\* The Router starts well typed.
LEMMA TypeInitially == Init => TypeOK
  <1>1. Closed \in Health
    BY LimitsAssumption DEF Closed, Health
  <1>2. Init => waiting \in SUBSET Waiter /\ IsFiniteSet(waiting)
    BY FS_EmptySet DEF Init
  <1>3. Init => /\ routes \in [Call -> Route \cup {None}]
                /\ dedup \in [DedupKey -> Entry \cup {None}]
                /\ health \in [Instance -> Health]
                /\ inflight \in [Instance -> Int]
                /\ calls \in [Client -> Int]
    BY <1>1 DEF Init
  <1>4. Init => /\ conn \in [Peer -> {"absent", "up", "lost", "gone"}]
                /\ view \in [Client -> [Call -> {"idle", "open", "done", "stray"}]]
                /\ stage \in {"running", "draining", "closed"}
    BY DEF Init
  <1> QED BY <1>2, <1>3, <1>4 DEF Init, TypeOK

\* Every reachable state is well typed; in particular every credit stays within
\* 0..MaxCredit, so the saturating addition of route.credit never overflows.
THEOREM TypeCorrect == Spec => []TypeOK
  BY TypeInitially, TypeStep, PTL DEF Spec

-------------------------------------------------------------------------------
(* The counters.                                                           *)

\* A counter kept by subtraction: removing a part of a set lowers its
\* cardinality by the part's.
LEMMA CardinalityOfRest ==
  ASSUME NEW A, IsFiniteSet(A), NEW B \in SUBSET A
  PROVE  Cardinality(A \ B) = Cardinality(A) - Cardinality(B)
  <1>1. A \cap B = B
    OBVIOUS
  <1> QED BY <1>1, FS_Difference

\* However many routes end at once, and however many waiters they release, the
\* counters remain the numbers of routes and of joined calls that are left.
LEMMA EndRoutesCounts ==
  ASSUME TypeOK, CountersExact, NEW S \in SUBSET Live, NEW K, EndRoutes(S, K)
  PROVE  CountersExact'
  <1>1. \A c \in Call : routes'[c] = IF c \in S THEN None ELSE routes[c]
    BY DEF EndRoutes
  <1>2. Live' = Live \ S
    BY <1>1 DEF Live
  <1>3. ASSUME NEW i \in Instance PROVE inflight'[i] = Cardinality(RoutesTo(i)')
    <2> DEFINE B == {c \in S : routes[c].instance = i}
    <2>1. B \in SUBSET RoutesTo(i) /\ RoutesTo(i) \in SUBSET Call
      BY DEF RoutesTo, Live
    <2>2. RoutesTo(i)' = RoutesTo(i) \ B
      BY <1>1, <1>2 DEF RoutesTo, Live
    <2>3. Cardinality(RoutesTo(i)') = Cardinality(RoutesTo(i)) - Cardinality(B)
      BY <2>1, <2>2, CallSetsFinite, CardinalityOfRest
    <2>4. inflight'[i] = inflight[i] - Cardinality(B)
      BY DEF EndRoutes, RoutesEnded
    <2>5. inflight[i] = Cardinality(RoutesTo(i))
      BY DEF CountersExact
    <2> QED BY <2>3, <2>4, <2>5
  <1>4. ASSUME NEW p \in Client
        PROVE  calls'[p] = Cardinality(RoutesOf(p)') + Cardinality(WaitsOf(p)')
    <2> DEFINE B == {c \in S : routes[c].client = p}
               W == {w \in waiting : w.key \in K /\ w.client = p}
    <2>1. B \in SUBSET RoutesOf(p) /\ RoutesOf(p) \in SUBSET Call
      BY DEF RoutesOf, Live
    <2>2. RoutesOf(p)' = RoutesOf(p) \ B
      BY <1>1, <1>2 DEF RoutesOf, Live
    <2>3. Cardinality(RoutesOf(p)') = Cardinality(RoutesOf(p)) - Cardinality(B)
      BY <2>1, <2>2, CallSetsFinite, CardinalityOfRest
    <2>4. W \in SUBSET WaitsOf(p) /\ WaitsOf(p) \in SUBSET waiting
      BY DEF WaitsOf
    <2>5. WaitsOf(p)' = WaitsOf(p) \ W
      BY DEF WaitsOf, EndRoutes, ReleaseWaiters
    <2>6. Cardinality(WaitsOf(p)') = Cardinality(WaitsOf(p)) - Cardinality(W)
      BY <2>4, <2>5, WaiterSetsFinite, CardinalityOfRest
    <2>7. calls'[p] = calls[p] - Cardinality(B) - Cardinality(W)
      BY DEF EndRoutes, CallsEnded, WaitsEnded
    <2>8. calls[p] = Cardinality(RoutesOf(p)) + Cardinality(WaitsOf(p))
      BY DEF CountersExact
    <2>9. /\ Cardinality(RoutesOf(p)) \in Nat /\ Cardinality(WaitsOf(p)) \in Nat
          /\ Cardinality(B) \in Nat /\ Cardinality(W) \in Nat
      <3>1. B \in SUBSET Call
        BY <2>1
      <3>2. W \in SUBSET waiting
        OBVIOUS
      <3> QED BY <3>1, <3>2, <2>1, <2>4, CallSetsFinite, WaiterSetsFinite
    <2> HIDE DEF B, W
    <2> QED BY <2>3, <2>6, <2>7, <2>8, <2>9
  <1> QED BY <1>3, <1>4 DEF CountersExact

\* A step that opens and ends no call leaves the counters exact: routes may
\* change in their credit only.
LEMMA SameCallsCounts ==
  ASSUME TypeOK, CountersExact, UNCHANGED <<inflight, calls, waiting>>,
         Live' = Live,
         \A c \in Live : /\ routes'[c].client = routes[c].client
                         /\ routes'[c].instance = routes[c].instance
  PROVE  CountersExact'
  <1>1. \A i : RoutesTo(i)' = RoutesTo(i)
    BY DEF RoutesTo
  <1>2. \A p : RoutesOf(p)' = RoutesOf(p) /\ WaitsOf(p)' = WaitsOf(p)
    BY DEF RoutesOf, WaitsOf
  <1> QED BY <1>1, <1>2 DEF CountersExact

\* Spending or granting credit changes nothing else of a route.
LEMMA CreditKeepsCalls ==
  ASSUME TypeOK, NEW c \in Live, NEW n \in 0..MaxCredit,
         \/ routes' = [routes EXCEPT ![c].serverCredit = n]
         \/ routes' = [routes EXCEPT ![c].clientCredit = n]
  PROVE  /\ Live' = Live
         /\ \A x \in Live : /\ routes'[x].client = routes[x].client
                            /\ routes'[x].instance = routes[x].instance
                            /\ routes'[x].key = routes[x].key
  <1>1. c \in Call /\ routes[c] \in Route
    BY DEF Live, TypeOK
  <1>2. \A r \in Route : \A q :
          (q = [r EXCEPT !.serverCredit = n] \/ q = [r EXCEPT !.clientCredit = n])
          => /\ q \in Route
             /\ q.client = r.client
             /\ q.instance = r.instance
             /\ q.key = r.key
    BY DEF Route
  <1>3. \/ routes'[c] = [routes[c] EXCEPT !.serverCredit = n]
        \/ routes'[c] = [routes[c] EXCEPT !.clientCredit = n]
    BY <1>1 DEF TypeOK
  <1>4. /\ routes'[c] \in Route
        /\ routes'[c].client = routes[c].client
        /\ routes'[c].instance = routes[c].instance
        /\ routes'[c].key = routes[c].key
    BY <1>1, <1>2, <1>3
  <1>5. \A x \in Call \ {c} : routes'[x] = routes[x]
    BY DEF TypeOK
  <1>6. routes'[c] # None
    BY <1>4, NoneAssumption
  <1> QED BY <1>1, <1>4, <1>5, <1>6 DEF Live

\* The same, for the actions that move credit.
LEMMA CreditStep ==
  ASSUME TypeOK, NEW c \in Live, NEW n \in 1..MaxCredit,
         \/ routes' = [routes EXCEPT ![c].serverCredit = Saturated(@ + n)]
         \/ routes' = [routes EXCEPT ![c].clientCredit = Saturated(@ + n)]
         \/ /\ routes[c].serverCredit # 0
            /\ routes' = [routes EXCEPT ![c].serverCredit = @ - 1]
         \/ /\ routes[c].clientCredit # 0
            /\ routes' = [routes EXCEPT ![c].clientCredit = @ - 1]
  PROVE  /\ Live' = Live
         /\ \A x \in Live : /\ routes'[x].client = routes[x].client
                            /\ routes'[x].instance = routes[x].instance
                            /\ routes'[x].key = routes[x].key
  <1>1. routes[c] \in Route
    BY DEF Live, TypeOK
  <1>2. routes[c].serverCredit \in 0..MaxCredit /\ routes[c].clientCredit \in 0..MaxCredit
    BY <1>1 DEF Route
  <1>3. \A k \in 0..MaxCredit : /\ Saturated(k + n) \in 0..MaxCredit
                                /\ k # 0 => k - 1 \in 0..MaxCredit
    BY LimitsAssumption DEF Saturated
  <1>4. CASE routes' = [routes EXCEPT ![c].serverCredit = Saturated(@ + n)]
    <2>1. routes' = [routes EXCEPT ![c].serverCredit = Saturated(routes[c].serverCredit + n)]
      BY <1>4
    <2> QED BY <1>2, <1>3, <2>1, CreditKeepsCalls
  <1>5. CASE routes' = [routes EXCEPT ![c].clientCredit = Saturated(@ + n)]
    <2>1. routes' = [routes EXCEPT ![c].clientCredit = Saturated(routes[c].clientCredit + n)]
      BY <1>5
    <2> QED BY <1>2, <1>3, <2>1, CreditKeepsCalls
  <1>6. CASE /\ routes[c].serverCredit # 0
             /\ routes' = [routes EXCEPT ![c].serverCredit = @ - 1]
    <2>1. routes' = [routes EXCEPT ![c].serverCredit = routes[c].serverCredit - 1]
      BY <1>6
    <2> QED BY <1>2, <1>3, <1>6, <2>1, CreditKeepsCalls
  <1>7. CASE /\ routes[c].clientCredit # 0
             /\ routes' = [routes EXCEPT ![c].clientCredit = @ - 1]
    <2>1. routes' = [routes EXCEPT ![c].clientCredit = routes[c].clientCredit - 1]
      BY <1>7
    <2> QED BY <1>2, <1>3, <1>7, <2>1, CreditKeepsCalls
  <1> QED BY <1>4, <1>5, <1>6, <1>7

\* A new route is counted once at its instance and once at its client.
LEMMA OpenRoutedCounts ==
  ASSUME TypeOK, CountersExact, NEW p \in Client, NEW c \in Call \ Live,
         NEW i \in Instance, NEW r \in Route, r.client = p, r.instance = i,
         routes' = [routes EXCEPT ![c] = r],
         inflight' = [inflight EXCEPT ![i] = @ + 1],
         calls' = [calls EXCEPT ![p] = @ + 1],
         UNCHANGED waiting
  PROVE  CountersExact'
  <1>1. routes'[c] = r /\ \A x \in Call \ {c} : routes'[x] = routes[x]
    BY DEF TypeOK
  <1>2. r # None
    BY NoneAssumption
  <1>3. Live' = Live \cup {c}
    BY <1>1, <1>2 DEF Live
  <1>4. ASSUME NEW j \in Instance PROVE inflight'[j] = Cardinality(RoutesTo(j)')
    <2>1. RoutesTo(j) \in SUBSET Call /\ c \notin RoutesTo(j)
      BY DEF RoutesTo, Live
    <2>2. RoutesTo(j)' = IF j = i THEN RoutesTo(j) \cup {c} ELSE RoutesTo(j)
      BY <1>1, <1>3 DEF RoutesTo, Live
    <2>3. Cardinality(RoutesTo(j) \cup {c}) = Cardinality(RoutesTo(j)) + 1
      BY <2>1, CallSetsFinite, FS_AddElement
    <2>4. inflight'[j] = IF j = i THEN inflight[j] + 1 ELSE inflight[j]
      BY DEF TypeOK
    <2>5. inflight[j] = Cardinality(RoutesTo(j))
      BY DEF CountersExact
    <2> QED BY <2>2, <2>3, <2>4, <2>5
  <1>5. ASSUME NEW q \in Client
        PROVE  calls'[q] = Cardinality(RoutesOf(q)') + Cardinality(WaitsOf(q)')
    <2>1. RoutesOf(q) \in SUBSET Call /\ c \notin RoutesOf(q)
      BY DEF RoutesOf, Live
    <2>2. RoutesOf(q)' = IF q = p THEN RoutesOf(q) \cup {c} ELSE RoutesOf(q)
      BY <1>1, <1>3 DEF RoutesOf, Live
    <2>3. Cardinality(RoutesOf(q) \cup {c}) = Cardinality(RoutesOf(q)) + 1
      BY <2>1, CallSetsFinite, FS_AddElement
    <2>4. calls'[q] = IF q = p THEN calls[q] + 1 ELSE calls[q]
      BY DEF TypeOK
    <2>5. calls[q] = Cardinality(RoutesOf(q)) + Cardinality(WaitsOf(q))
      BY DEF CountersExact
    <2>6. WaitsOf(q)' = WaitsOf(q)
      BY DEF WaitsOf
    <2>7. Cardinality(RoutesOf(q)) \in Nat /\ Cardinality(WaitsOf(q)) \in Nat
      <3>1. WaitsOf(q) \in SUBSET waiting
        BY DEF WaitsOf
      <3> QED BY <2>1, <3>1, CallSetsFinite, WaiterSetsFinite
    <2> QED BY <2>2, <2>3, <2>4, <2>5, <2>6, <2>7
  <1> QED BY <1>4, <1>5 DEF CountersExact

\* A joined call is counted once, because it was not waiting before.
LEMMA JoinCounts ==
  ASSUME TypeOK, CountersExact, NEW p \in Client, NEW w \in Waiter \ waiting,
         w.client = p,
         waiting' = waiting \cup {w},
         calls' = [calls EXCEPT ![p] = @ + 1],
         UNCHANGED <<routes, inflight>>
  PROVE  CountersExact'
  <1>1. \A j : RoutesTo(j)' = RoutesTo(j)
    BY DEF RoutesTo, Live
  <1>2. ASSUME NEW q \in Client
        PROVE  calls'[q] = Cardinality(RoutesOf(q)') + Cardinality(WaitsOf(q)')
    <2>1. WaitsOf(q) \in SUBSET waiting /\ w \notin WaitsOf(q)
      BY DEF WaitsOf
    <2>2. WaitsOf(q)' = IF q = p THEN WaitsOf(q) \cup {w} ELSE WaitsOf(q)
      BY DEF WaitsOf
    <2>3. Cardinality(WaitsOf(q) \cup {w}) = Cardinality(WaitsOf(q)) + 1
      BY <2>1, WaiterSetsFinite, FS_AddElement
    <2>4. calls'[q] = IF q = p THEN calls[q] + 1 ELSE calls[q]
      BY DEF TypeOK
    <2>5. calls[q] = Cardinality(RoutesOf(q)) + Cardinality(WaitsOf(q))
      BY DEF CountersExact
    <2>6. RoutesOf(q)' = RoutesOf(q) /\ RoutesOf(q) \in SUBSET Call
      BY DEF RoutesOf, Live
    <2>7. Cardinality(RoutesOf(q)) \in Nat /\ Cardinality(WaitsOf(q)) \in Nat
      BY <2>1, <2>6, CallSetsFinite, WaiterSetsFinite
    <2> QED BY <2>2, <2>3, <2>4, <2>5, <2>6, <2>7
  <1> QED BY <1>1, <1>2 DEF CountersExact

\* No frame makes an opened call unopened.
LEMMA SendAdvances ==
  ASSUME TypeOK, NEW to, NEW terminal \in BOOLEAN, Send(to, terminal)
  PROVE  \A p \in Client, c \in Call : view[p][c] # "idle" => view'[p][c] # "idle"
  BY DEF Send, Receive

\* A joined call stays opened as long as no call becomes unopened and no call
\* starts to wait.
LEMMA OpenedStaysOpened ==
  ASSUME TypeOK, JoinedCallsOpened, waiting' \subseteq waiting,
         \A p \in Client, c \in Call : view[p][c] # "idle" => view'[p][c] # "idle"
  PROVE  JoinedCallsOpened'
  BY DEF TypeOK, JoinedCallsOpened, Waiter

\* The counters after a call.open.
LEMMA OpenCounts ==
  ASSUME CountersInv, NEW p \in Client, NEW c \in Call, NEW req \in Request,
         Open(p, c, req)
  PROVE  CountersExact' /\ JoinedCallsOpened'
  <1> USE DEF CountersInv
  <1>1. (Opened(p, c) \/ Answered(p, c)) =>
          \A q \in Client, x \in Call : view[q][x] # "idle" => view'[q][x] # "idle"
    BY DEF Opened, Answered, TypeOK
  <1>2. CASE OpenRefused(p, c, req) \/ OpenReplayed(p, c, req)
    <2>1. UNCHANGED <<routes, inflight, calls, waiting>> /\ Answered(p, c)
      BY <1>2 DEF OpenRefused, OpenReplayed
    <2>2. Live' = Live
      BY <2>1 DEF Live
    <2> QED BY <1>1, <2>1, <2>2, SameCallsCounts, OpenedStaysOpened
  <1>3. CASE OpenUnroutable(p, c, req)
    <2>1. UNCHANGED <<routes, inflight, calls, waiting>> /\ Answered(p, c)
      BY <1>3 DEF OpenUnroutable
    <2>2. Live' = Live
      BY <2>1 DEF Live
    <2> QED BY <1>1, <2>1, <2>2, SameCallsCounts, OpenedStaysOpened
  <1>4. CASE OpenJoined(p, c, req)
    <2> DEFINE w == [key |-> KeyOf(req), client |-> p, call |-> c]
    <2>1. Deduplicated(req)
      BY <1>4 DEF OpenJoined, Lookup
    <2>2. w \in Waiter
      BY <2>1, KeyOfType DEF Waiter
    <2>3. w \notin waiting
      BY DEF JoinedCallsOpened, Open
    <2>4. CountersExact'
      BY <1>4, <2>2, <2>3, JoinCounts DEF OpenJoined
    <2>5. view'[p][c] # "idle"
      BY <1>4 DEF OpenJoined, Opened, TypeOK
    <2>6. \A q \in Client, x \in Call : view[q][x] # "idle" => view'[q][x] # "idle"
      BY <1>1, <1>4 DEF OpenJoined
    <2>7. waiting' = waiting \cup {w}
      BY <1>4 DEF OpenJoined
    <2>8. JoinedCallsOpened'
      BY <2>5, <2>6, <2>7 DEF JoinedCallsOpened, TypeOK, Waiter
    <2> QED BY <2>4, <2>8
  <1>5. CASE OpenRouted(p, c, req) /\ ~Refused(p, c, req)
    <2>1. PICK e \in Lookup(req) : \E i \in SelectInstance(req, Avoid(e)) :
              /\ routes' = [routes EXCEPT ![c] = NewRoute(p, i, req)]
              /\ inflight' = [inflight EXCEPT ![i] = @ + 1]
              /\ calls' = [calls EXCEPT ![p] = @ + 1]
              /\ Opened(p, c)
              /\ UNCHANGED waiting
      BY <1>5 DEF OpenRouted
    <2>2. PICK i \in SelectInstance(req, Avoid(e)) :
              /\ routes' = [routes EXCEPT ![c] = NewRoute(p, i, req)]
              /\ inflight' = [inflight EXCEPT ![i] = @ + 1]
      BY <2>1
    <2>3. i \in Instance
      BY SelectionIsRegistered DEF TypeOK
    <2>4. NewRoute(p, i, req) \in Route
      BY <2>3, NewRouteType
    <2>5. NewRoute(p, i, req).client = p /\ NewRoute(p, i, req).instance = i
      BY DEF NewRoute
    <2>6. c \notin Live
      BY <1>5 DEF Refused, Live
    <2>7. CountersExact'
      BY <2>1, <2>2, <2>3, <2>4, <2>5, <2>6, OpenRoutedCounts
    <2>8. JoinedCallsOpened'
      BY <1>1, <2>1, OpenedStaysOpened
    <2> QED BY <2>7, <2>8
  <1> QED BY <1>2, <1>3, <1>4, <1>5 DEF Open

\* The counters after an action that ends the calls S and releases the waiters
\* of the entries K.
LEMMA EndCounts ==
  ASSUME CountersInv, NEW S \in SUBSET Live, NEW K, EndRoutes(S, K),
         NEW to, Send(to, TRUE)
  PROVE  CountersExact' /\ JoinedCallsOpened'
  <1>1. waiting' \subseteq waiting
    BY DEF EndRoutes, ReleaseWaiters
  <1> QED BY <1>1, EndRoutesCounts, SendAdvances, OpenedStaysOpened DEF CountersInv

\* CountersInv is inductive.
LEMMA CountersStep == CountersInv /\ [Next]_vars => CountersInv'
  <1> SUFFICES ASSUME CountersInv, [Next]_vars
               PROVE  CountersExact' /\ JoinedCallsOpened'
    BY TypeStep DEF CountersInv
  <1> USE DEF CountersInv
  <1>1. ASSUME UNCHANGED <<routes, inflight, calls, waiting, view>>
        PROVE  CountersExact' /\ JoinedCallsOpened'
    <2>1. Live' = Live
      BY <1>1 DEF Live
    <2> QED BY <1>1, <2>1, SameCallsCounts, OpenedStaysOpened
  <1>2. ASSUME NEW p \in Peer, Connect(p) \/ Lose(p) \/ GoAway(p)
        PROVE  CountersExact' /\ JoinedCallsOpened'
    BY <1>1, <1>2 DEF Connect, Lose, GoAway
  <1>3. ASSUME NEW p \in Peer, Remove(p) PROVE CountersExact' /\ JoinedCallsOpened'
    <2> DEFINE S == RoutesWith(p)
               K == IF p \in Instance THEN EntriesOf(S) ELSE {}
               to == IF p \in Instance THEN Callers(S) \cup Joined(K) ELSE {}
    <2>1. S \in SUBSET Live
      BY DEF RoutesWith
    <2>2. EndRoutes(S, K) /\ Send(to, TRUE)
      BY <1>3 DEF Remove
    <2> HIDE DEF S, K, to
    <2> QED BY <2>1, <2>2, EndCounts
  <1>4. ASSUME NEW i \in Instance, Register(i) \/ Drain(i) \/ Cooldown(i)
        PROVE  CountersExact' /\ JoinedCallsOpened'
    BY <1>1, <1>4 DEF Register, Drain, Cooldown
  <1>5. ASSUME NEW c \in Live, NEW n \in 1..MaxCredit,
               UNCHANGED <<inflight, calls, waiting>>,
               UNCHANGED view \/ Send(Callers({c}), FALSE),
               \/ routes' = [routes EXCEPT ![c].serverCredit = Saturated(@ + n)]
               \/ routes' = [routes EXCEPT ![c].clientCredit = Saturated(@ + n)]
               \/ /\ routes[c].serverCredit # 0
                  /\ routes' = [routes EXCEPT ![c].serverCredit = @ - 1]
               \/ /\ routes[c].clientCredit # 0
                  /\ routes' = [routes EXCEPT ![c].clientCredit = @ - 1]
        PROVE  CountersExact' /\ JoinedCallsOpened'
    <2>1. CountersExact'
      BY <1>5, CreditStep, SameCallsCounts
    <2>2. \A p \in Client, x \in Call : view[p][x] # "idle" => view'[p][x] # "idle"
      BY <1>5, SendAdvances
    <2> QED BY <1>5, <2>1, <2>2, OpenedStaysOpened
  <1>6. 1 \in 1..MaxCredit
    BY LimitsAssumption
  <1>7. ASSUME NEW c \in Live, NEW b \in BOOLEAN, FlowViolation(c, b)
        PROVE  CountersExact' /\ JoinedCallsOpened'
    BY <1>7, EndCounts DEF FlowViolation
  <1>8. ASSUME NEW p \in Client, NEW c \in Call, ClientItem(p, c)
        PROVE  CountersExact' /\ JoinedCallsOpened'
    <2>1. c \in Live
      BY <1>8 DEF ClientItem, FromClient, RoutesOf
    <2> QED BY <1>5, <1>6, <1>7, <1>8, <2>1 DEF ClientItem
  <1>9. ASSUME NEW p \in Client, NEW c \in Call, ClientCancel(p, c)
        PROVE  CountersExact' /\ JoinedCallsOpened'
    <2>1. {c} \in SUBSET Live /\ EndRoutes({c}, {})
      BY <1>9 DEF ClientCancel, FromClient, RoutesOf
    <2>2. waiting' \subseteq waiting
      BY <2>1 DEF EndRoutes, ReleaseWaiters
    <2>3. \A q \in Client, x \in Call : view[q][x] # "idle" => view'[q][x] # "idle"
      BY <1>9 DEF ClientCancel, Answered, TypeOK
    <2> QED BY <2>1, <2>2, <2>3, EndRoutesCounts, OpenedStaysOpened
  <1>10. ASSUME NEW p \in Client, NEW c \in Call, MalformedFrame(p, c)
         PROVE  CountersExact' /\ JoinedCallsOpened'
    <2>1. UNCHANGED <<routes, inflight, calls, waiting>>
      BY <1>10 DEF MalformedFrame
    <2>2. Live' = Live
      BY <2>1 DEF Live
    <2>3. \A q \in Client, x \in Call : view[q][x] # "idle" => view'[q][x] # "idle"
      BY <1>10 DEF MalformedFrame, Answered, TypeOK
    <2> QED BY <2>1, <2>2, <2>3, SameCallsCounts, OpenedStaysOpened
  <1>11. ASSUME NEW p \in Client, NEW c \in Call, NEW n \in 1..MaxCredit,
                ClientWindow(p, c, n)
         PROVE  CountersExact' /\ JoinedCallsOpened'
    <2>1. c \in Live
      BY <1>11 DEF ClientWindow, FromClient, RoutesOf
    <2> QED BY <1>5, <1>11, <2>1 DEF ClientWindow
  <1>12. ASSUME NEW i \in Instance, NEW c \in Call, NEW n \in 1..MaxCredit,
                InstanceWindow(i, c, n)
         PROVE  CountersExact' /\ JoinedCallsOpened'
    <2>1. c \in Live
      BY <1>12 DEF InstanceWindow, FromInstance, RoutesTo
    <2> QED BY <1>5, <1>12, <2>1 DEF InstanceWindow
  <1>13. ASSUME NEW i \in Instance, NEW c \in Call, InstanceItem(i, c)
         PROVE  CountersExact' /\ JoinedCallsOpened'
    <2>1. c \in Live
      BY <1>13 DEF InstanceItem, FromInstance, RoutesTo
    <2> QED BY <1>5, <1>6, <1>7, <1>13, <2>1 DEF InstanceItem
  <1>14. ASSUME NEW i \in Instance, NEW c \in Call, NEW ok \in BOOLEAN,
                InstanceTerminal(i, c, ok)
         PROVE  CountersExact' /\ JoinedCallsOpened'
    <2>1. {c} \in SUBSET Live
      BY <1>14 DEF InstanceTerminal, FromInstance, RoutesTo
    <2> QED BY <1>14, <2>1, EndCounts DEF InstanceTerminal
  <1>15. ASSUME NEW c \in Call, Expire(c) PROVE CountersExact' /\ JoinedCallsOpened'
    <2>1. {c} \in SUBSET Live
      BY <1>15 DEF Expire, Overdue
    <2> QED BY <1>15, <2>1, EndCounts DEF Expire
  <1>16. ASSUME Shutdown PROVE CountersExact' /\ JoinedCallsOpened'
    BY <1>1, <1>16 DEF Shutdown
  <1>17. ASSUME Close PROVE CountersExact' /\ JoinedCallsOpened'
    BY <1>17, EndCounts DEF Close
  <1>18. CASE UNCHANGED vars
    BY <1>1, <1>18 DEF vars
  <1> QED BY <1>2, <1>3, <1>4, <1>8, <1>9, <1>10, <1>11, <1>12, <1>13, <1>14,
             <1>15, <1>16, <1>17, <1>18, OpenCounts DEF Next

LEMMA CountersInitially == Init => CountersInv
  <1> SUFFICES ASSUME Init PROVE CountersExact /\ JoinedCallsOpened
    BY TypeInitially DEF CountersInv
  <1>1. \A i : RoutesTo(i) = {}
    BY DEF Init, RoutesTo, Live
  <1>2. \A p : RoutesOf(p) = {} /\ WaitsOf(p) = {}
    BY DEF Init, RoutesOf, WaitsOf, Live
  <1>3. Cardinality({}) = 0
    BY FS_EmptySet
  <1> QED BY <1>1, <1>2, <1>3, SMTT(20) DEF Init, CountersExact, JoinedCallsOpened

\* The counters that admission, selection and the drain rely on are exact in
\* every reachable state, for any number of peers and calls.
THEOREM CountersCorrect == Spec => []CountersExact
  <1>1. CountersInv => CountersExact
    BY DEF CountersInv
  <1> QED BY <1>1, CountersInitially, CountersStep, PTL DEF Spec

-------------------------------------------------------------------------------
(* Kinds of steps.                                                         *)

\* No call starts or ends.
Quiet ==
  /\ Live' = Live
  /\ \A c \in Live : /\ routes'[c].client = routes[c].client
                     /\ routes'[c].instance = routes[c].instance
                     /\ routes'[c].key = routes[c].key
  /\ UNCHANGED <<inflight, calls, dedup, waiting>>

\* No peer leaves.
KeepsPeers ==
  /\ Present \subseteq Present'
  /\ registered \subseteq registered' /\ registered' \subseteq registered \cup Present'
  /\ \A p \in Peer : conn[p] # "absent" => conn'[p] # "absent"
  /\ \A p \in Present' \ Present : conn[p] = "absent"

\* Only idempotency entries of the calls S change.
OnlyEntries(S, K) ==
  /\ \A k \in DedupKey \ K : dedup'[k] = dedup[k]
  /\ \A k \in K : \E c \in S : routes[c].key = k

\* The calls S end, and all their callers are answered.
Ends(S, K) ==
  /\ EndRoutes(S, K)
  /\ Send(Callers(S) \cup Joined(K), TRUE)
  /\ OnlyEntries(S, K)
  /\ UNCHANGED <<conn, registered>>

\* The entries of a set of calls belong to those calls, and failing them
\* changes no other.
LEMMA FailOnlyEntries ==
  ASSUME TypeOK, NEW S \in SUBSET Live, NEW lost, DedupFail(EntriesOf(S), lost)
  PROVE  OnlyEntries(S, EntriesOf(S))
  BY DEF OnlyEntries, DedupFail, EntriesOf

LEMMA FlowViolationEnds ==
  ASSUME TypeOK, NEW c \in Live, NEW b \in BOOLEAN, FlowViolation(c, b)
  PROVE  Ends({c}, EntriesOf({c}))
  <1>1. /\ EndRoutes({c}, EntriesOf({c}))
        /\ DedupFail(EntriesOf({c}), None)
        /\ Send(Callers({c}) \cup Joined(EntriesOf({c})), TRUE)
        /\ UNCHANGED <<conn, registered>>
    BY DEF FlowViolation
  <1> QED BY <1>1, FailOnlyEntries DEF Ends

LEMMA TerminalEnds ==
  ASSUME TypeOK, NEW i \in Instance, NEW c \in Call, NEW ok \in BOOLEAN,
         InstanceTerminal(i, c, ok)
  PROVE  c \in Live /\ Ends({c}, {routes[c].key} \ {None})
  <1>1. c \in Live
    BY DEF InstanceTerminal, FromInstance, RoutesTo
  <1>2. OnlyEntries({c}, {routes[c].key} \ {None})
    BY DEF InstanceTerminal, OnlyEntries
  <1> QED BY <1>1, <1>2 DEF InstanceTerminal, Ends

LEMMA ExpireEnds ==
  ASSUME TypeOK, NEW c \in Call, Expire(c)
  PROVE  c \in Live /\ Ends({c}, EntriesOf({c}))
  <1>1. c \in Live
    BY DEF Expire, Overdue
  <1>2. /\ EndRoutes({c}, EntriesOf({c}))
        /\ DedupFail(EntriesOf({c}), None)
        /\ Send(Callers({c}) \cup Joined(EntriesOf({c})), TRUE)
        /\ UNCHANGED <<conn, registered>>
    BY DEF Expire
  <1> QED BY <1>1, <1>2, FailOnlyEntries DEF Ends

LEMMA CloseEnds ==
  ASSUME TypeOK, Close
  PROVE  Ends(Live, EntriesOf(Live))
  <1>1. /\ EndRoutes(Live, EntriesOf(Live))
        /\ DedupFail(EntriesOf(Live), None)
        /\ Send(Callers(Live) \cup Joined(EntriesOf(Live)), TRUE)
        /\ UNCHANGED <<conn, registered>>
    BY DEF Close
  <1> QED BY <1>1, FailOnlyEntries DEF Ends

\* Credit moves without a call starting or ending.
LEMMA CreditIsQuiet ==
  ASSUME TypeOK, NEW c \in Live, NEW n \in 1..MaxCredit,
         UNCHANGED <<conn, registered, inflight, calls, dedup, waiting>>,
         \/ routes' = [routes EXCEPT ![c].serverCredit = Saturated(@ + n)]
         \/ routes' = [routes EXCEPT ![c].clientCredit = Saturated(@ + n)]
         \/ /\ routes[c].serverCredit # 0
            /\ routes' = [routes EXCEPT ![c].serverCredit = @ - 1]
         \/ /\ routes[c].clientCredit # 0
            /\ routes' = [routes EXCEPT ![c].clientCredit = @ - 1]
  PROVE  Quiet /\ KeepsPeers
  <1>1. Quiet
    BY CreditStep DEF Quiet
  <1>2. KeepsPeers
    BY DEF KeepsPeers, Present
  <1> QED BY <1>1, <1>2

\* Every step of the Router is of one of six kinds.
LEMMA StepKinds ==
  ASSUME TypeOK, [Next]_vars
  PROVE  \/ /\ Quiet /\ KeepsPeers
            /\ UNCHANGED view \/ \E c \in Live : Send(Callers({c}), FALSE)
         \/ \E p \in Client, c \in Call : MalformedFrame(p, c)
         \/ \E p \in Client, c \in Call : ClientCancel(p, c)
         \/ \E S \in SUBSET Live, K \in SUBSET DedupKey : Ends(S, K)
         \/ \E p \in Peer : Remove(p)
         \/ \E p \in Client, c \in Call, req \in Request : Open(p, c, req)
  <1> DEFINE Q == /\ Quiet /\ KeepsPeers
                  /\ UNCHANGED view \/ \E c \in Live : Send(Callers({c}), FALSE)
             E == \E S \in SUBSET Live, K \in SUBSET DedupKey : Ends(S, K)
  <1>1. ASSUME UNCHANGED <<routes, inflight, calls, dedup, waiting>> PROVE Quiet
    BY <1>1 DEF Quiet, Live
  <1>2. ASSUME NEW p \in Peer, Connect(p) \/ Lose(p) \/ GoAway(p) PROVE Q
    <2>1. KeepsPeers
      BY <1>2 DEF Connect, Lose, GoAway, KeepsPeers, Present, TypeOK
    <2> QED BY <1>1, <1>2, <2>1 DEF Connect, Lose, GoAway
  <1>3. ASSUME NEW i \in Instance, Register(i) \/ Drain(i) \/ Cooldown(i) PROVE Q
    <2>1. KeepsPeers
      BY <1>3 DEF Register, Drain, Cooldown, KeepsPeers, Present, TypeOK, Peer
    <2> QED BY <1>1, <1>3, <2>1 DEF Register, Drain, Cooldown
  <1>4. ASSUME Shutdown \/ UNCHANGED vars PROVE Q
    <2>1. KeepsPeers
      BY <1>4 DEF Shutdown, vars, KeepsPeers, Present
    <2> QED BY <1>1, <1>4, <2>1 DEF Shutdown, vars
  <1>5. 1 \in 1..MaxCredit
    BY LimitsAssumption
  <1>6. ASSUME NEW S \in SUBSET Live PROVE EntriesOf(S) \in SUBSET DedupKey
    BY DEF EntriesOf
  <1>7. ASSUME NEW c \in Live, NEW b \in BOOLEAN, FlowViolation(c, b) PROVE E
    BY <1>6, <1>7, FlowViolationEnds
  <1>8. ASSUME NEW p \in Client, NEW c \in Call, ClientItem(p, c) PROVE Q \/ E
    <2>1. c \in Live
      BY <1>8 DEF ClientItem, FromClient, RoutesOf
    <2> HIDE DEF E
    <2> QED BY <1>5, <1>7, <1>8, <2>1, CreditIsQuiet DEF ClientItem
  <1>9. ASSUME NEW p \in Client, NEW c \in Call, NEW n \in 1..MaxCredit, ClientWindow(p, c, n)
        PROVE  Q
    <2>1. c \in Live
      BY <1>9 DEF ClientWindow, FromClient, RoutesOf
    <2> QED BY <1>9, <2>1, CreditIsQuiet DEF ClientWindow
  <1>10. ASSUME NEW i \in Instance, NEW c \in Call, NEW n \in 1..MaxCredit,
                InstanceWindow(i, c, n)
         PROVE  Q
    <2>1. c \in Live
      BY <1>10 DEF InstanceWindow, FromInstance, RoutesTo
    <2> QED BY <1>10, <2>1, CreditIsQuiet DEF InstanceWindow
  <1>11. ASSUME NEW i \in Instance, NEW c \in Call, InstanceItem(i, c) PROVE Q \/ E
    <2>1. c \in Live
      BY <1>11 DEF InstanceItem, FromInstance, RoutesTo
    <2> HIDE DEF E
    <2> QED BY <1>5, <1>7, <1>11, <2>1, CreditIsQuiet DEF InstanceItem
  <1>12. ASSUME NEW i \in Instance, NEW c \in Call, NEW ok \in BOOLEAN,
                InstanceTerminal(i, c, ok)
         PROVE  E
    <2>1. c \in Live /\ Ends({c}, {routes[c].key} \ {None})
      BY <1>12, TerminalEnds
    <2>2. {routes[c].key} \ {None} \in SUBSET DedupKey
      BY <2>1 DEF Live, TypeOK, Route
    <2> QED BY <2>1, <2>2
  <1>13. ASSUME NEW c \in Call, Expire(c) PROVE E
    BY <1>6, <1>13, ExpireEnds
  <1>14. ASSUME Close PROVE E
    BY <1>6, <1>14, CloseEnds
  <1> HIDE DEF Q, E
  <1>15. \/ Q \/ E
         \/ \E p \in Client, c \in Call : MalformedFrame(p, c)
         \/ \E p \in Client, c \in Call : ClientCancel(p, c)
         \/ \E p \in Peer : Remove(p)
         \/ \E p \in Client, c \in Call, req \in Request : Open(p, c, req)
    BY <1>2, <1>3, <1>4, <1>8, <1>9, <1>10, <1>11, <1>12, <1>13, <1>14 DEF Next
  <1> QED BY <1>15 DEF Q, E

\* What ending calls leaves behind.
LEMMA EndRoutesLeaves ==
  ASSUME TypeOK, NEW S \in SUBSET Live, NEW K, EndRoutes(S, K)
  PROVE  /\ Live' = Live \ S
         /\ \A c \in Live \ S : routes'[c] = routes[c]
         /\ waiting' = {w \in waiting : w.key \notin K}
  BY DEF EndRoutes, ReleaseWaiters, Live

\* What a removal ends.
LEMMA RemoveEnds ==
  ASSUME TypeOK, NEW p \in Peer, Remove(p)
  PROVE  \E K \in SUBSET DedupKey :
           /\ RoutesWith(p) \in SUBSET Live
           /\ EndRoutes(RoutesWith(p), K)
           /\ OnlyEntries(RoutesWith(p), K)
           /\ p \in Instance => Send(Callers(RoutesWith(p)) \cup Joined(K), TRUE)
           /\ p \notin Instance => K = {} /\ Send({}, TRUE)
  <1> DEFINE S == RoutesWith(p)
             K == IF p \in Instance THEN EntriesOf(S) ELSE {}
  <1>1. S \in SUBSET Live
    BY DEF RoutesWith
  <1>2. K \in SUBSET DedupKey
    BY DEF EntriesOf
  <1>3. /\ EndRoutes(S, K)
        /\ DedupFail(K, IF p \in Instance THEN p ELSE None)
        /\ Send(IF p \in Instance THEN Callers(S) \cup Joined(K) ELSE {}, TRUE)
    BY DEF Remove
  <1> HIDE DEF S
  <1>4. OnlyEntries(S, K)
    <2>1. CASE p \in Instance
      BY <1>1, <1>3, <2>1, FailOnlyEntries
    <2>2. CASE p \notin Instance
      BY <1>3, <2>2 DEF OnlyEntries, DedupFail
    <2> QED BY <2>1, <2>2
  <1>5. p \in Instance => Send(Callers(S) \cup Joined(K), TRUE)
    BY <1>3
  <1>6. p \notin Instance => K = {} /\ Send({}, TRUE)
    BY <1>3
  <1> HIDE DEF K
  <1>7. \E L \in SUBSET DedupKey :
           /\ S \in SUBSET Live
           /\ EndRoutes(S, L)
           /\ OnlyEntries(S, L)
           /\ p \in Instance => Send(Callers(S) \cup Joined(L), TRUE)
           /\ p \notin Instance => L = {} /\ Send({}, TRUE)
    BY <1>1, <1>2, <1>3, <1>4, <1>5, <1>6
  <1> QED BY <1>7 DEF S

\* A removal takes one peer from the tables.
LEMMA RemoveLeaves ==
  ASSUME TypeOK, NEW p \in Peer, Remove(p)
  PROVE  /\ Present' = Present \ {p}
         /\ registered' = registered \ {p}
         /\ \A q \in Peer : conn[q] # "absent" => conn'[q] # "absent"
  BY DEF Remove, Present, TypeOK

\* What a cancel ends.
LEMMA CancelEnds ==
  ASSUME TypeOK, NEW p \in Client, NEW c \in Call, ClientCancel(p, c)
  PROVE  /\ c \in Live /\ routes[c].client = p
         /\ EndRoutes({c}, {})
         /\ OnlyEntries({c}, {})
         /\ UNCHANGED <<conn, registered>>
  <1>1. c \in Live /\ routes[c].client = p
    BY DEF ClientCancel, FromClient, RoutesOf
  <1>2. OnlyEntries({c}, {})
    BY DEF ClientCancel, OnlyEntries
  <1> QED BY <1>1, <1>2 DEF ClientCancel

\* A call.open that is routed.
LEMMA RoutedStep ==
  ASSUME TypeOK, NEW p \in Client, NEW c \in Call, NEW req \in Request,
         Open(p, c, req), ~Refused(p, c, req), OpenRouted(p, c, req)
  PROVE  \E e \in Lookup(req) : \E i \in SelectInstance(req, Avoid(e)) :
           /\ Fresh(e)
           /\ c \notin Live
           /\ i \in registered /\ i \in Instance /\ ~Full(i)
           /\ NewRoute(p, i, req) \in Route
           /\ NewRoute(p, i, req) # None
           /\ routes' = [routes EXCEPT ![c] = NewRoute(p, i, req)]
           /\ inflight' = [inflight EXCEPT ![i] = @ + 1]
           /\ calls' = [calls EXCEPT ![p] = @ + 1]
           /\ DedupInsert(c, req)
           /\ Opened(p, c)
           /\ UNCHANGED waiting
  <1>1. PICK e \in Lookup(req) : \E i \in SelectInstance(req, Avoid(e)) :
           /\ Fresh(e)
           /\ routes' = [routes EXCEPT ![c] = NewRoute(p, i, req)]
           /\ inflight' = [inflight EXCEPT ![i] = @ + 1]
           /\ calls' = [calls EXCEPT ![p] = @ + 1]
           /\ DedupInsert(c, req)
           /\ Opened(p, c)
           /\ UNCHANGED waiting
    BY DEF OpenRouted
  <1>2. PICK i \in SelectInstance(req, Avoid(e)) :
           /\ Fresh(e)
           /\ routes' = [routes EXCEPT ![c] = NewRoute(p, i, req)]
           /\ inflight' = [inflight EXCEPT ![i] = @ + 1]
           /\ calls' = [calls EXCEPT ![p] = @ + 1]
           /\ DedupInsert(c, req)
           /\ Opened(p, c)
           /\ UNCHANGED waiting
    BY <1>1
  <1>3. i \in registered /\ i \in Instance
    BY SelectionIsRegistered DEF TypeOK
  <1>4. ~Full(i)
    <2>1. \A A : Balanced(req, A) \subseteq A
      BY DEF Balanced
    <2>2. \A j \in Eligible(req.method, Avoid(e)) : ~Full(j)
      BY DEF Eligible, Considered
    <2>3. \A j \in TargetInstance(req) : ~Full(j)
      BY DEF TargetInstance
    <2> QED BY <2>1, <2>2, <2>3 DEF SelectInstance
  <1>5. NewRoute(p, i, req) \in Route /\ NewRoute(p, i, req) # None
    BY <1>3, NewRouteType, NoneAssumption
  <1>6. c \notin Live
    BY DEF Refused, Live
  <1> QED BY <1>2, <1>3, <1>4, <1>5, <1>6

-------------------------------------------------------------------------------
(* Routes stay where they are.                                             *)

\* forward refuses a call_id that is in use, and no other step makes a route:
\* a call in flight keeps its client, its instance and its key.
THEOREM RoutesStay == Spec => RoutesNeverMigrate
  <1> DEFINE A == \A c \in Live \cap Live' :
                    /\ routes'[c].client = routes[c].client
                    /\ routes'[c].instance = routes[c].instance
                    /\ routes'[c].key = routes[c].key
  <1>1. ASSUME TypeOK, [Next]_vars PROVE A
    <2>1. CASE Quiet
      BY <2>1 DEF Quiet
    <2>2. ASSUME NEW p \in Client, NEW c \in Call, MalformedFrame(p, c) PROVE A
      BY <2>2 DEF MalformedFrame
    <2>3. ASSUME NEW S \in SUBSET Live, NEW K, EndRoutes(S, K) PROVE A
      BY <1>1, <2>3, EndRoutesLeaves
    <2>4. ASSUME NEW p \in Client, NEW c \in Call, ClientCancel(p, c) PROVE A
      BY <1>1, <2>3, <2>4, CancelEnds
    <2>5. ASSUME NEW p \in Peer, Remove(p) PROVE A
      BY <1>1, <2>3, <2>5, RemoveEnds
    <2>6. ASSUME NEW p \in Client, NEW c \in Call, NEW req \in Request, Open(p, c, req)
          PROVE  A
      <3>1. CASE UNCHANGED routes
        BY <3>1
      <3>2. CASE ~Refused(p, c, req) /\ OpenRouted(p, c, req)
        BY <1>1, <2>6, <3>2, RoutedStep DEF TypeOK, Live
      <3> QED BY <2>6, <3>1, <3>2 DEF Open, OpenRefused, OpenReplayed, OpenJoined, OpenUnroutable
    <2>7. ASSUME NEW S \in SUBSET Live, NEW K, Ends(S, K) PROVE A
      BY <2>3, <2>7 DEF Ends
    <2> HIDE DEF A
    <2> QED BY <1>1, <2>1, <2>2, <2>4, <2>5, <2>6, <2>7, StepKinds
  <1>2. TypeOK /\ [Next]_vars => [A]_vars
    BY <1>1
  <1> QED BY <1>2, TypeInitially, TypeStep, PTL DEF Spec, RoutesNeverMigrate

-------------------------------------------------------------------------------
(* Capacity.                                                               *)

\* The caps, as the code sees them: on the counters.
CapInv ==
  /\ CountersInv
  /\ \A i \in Instance : MaxInflight[i] > 0 => inflight[i] <= MaxInflight[i]
  /\ MaxCalls > 0 => \A p \in Client : calls[p] <= MaxCalls

\* Ending calls never raises a counter.
LEMMA EndRoutesLowers ==
  ASSUME TypeOK, NEW S \in SUBSET Live, NEW K, EndRoutes(S, K)
  PROVE  /\ \A i \in Instance : inflight'[i] <= inflight[i]
         /\ \A p \in Client : calls'[p] <= calls[p]
  <1>1. \A i : RoutesEnded(S, i) \in Nat
    BY CallSetsFinite DEF Live, RoutesEnded
  <1>2. \A p : CallsEnded(S, p) \in Nat
    BY CallSetsFinite DEF Live, CallsEnded
  <1>3. \A p : WaitsEnded(K, p) \in Nat
    BY WaiterSetsFinite DEF WaitsEnded
  <1>4. ASSUME NEW i \in Instance PROVE inflight'[i] <= inflight[i]
    BY <1>1 DEF EndRoutes, TypeOK
  <1>5. ASSUME NEW p \in Client PROVE calls'[p] <= calls[p]
    BY <1>2, <1>3 DEF EndRoutes, TypeOK
  <1> QED BY <1>4, <1>5

LEMMA CapStep == CapInv /\ [Next]_vars => CapInv'
  <1> SUFFICES ASSUME CapInv, [Next]_vars PROVE CapInv'
    OBVIOUS
  <1> DEFINE L == /\ \A i \in Instance : inflight'[i] <= inflight[i]
                  /\ \A p \in Client : calls'[p] <= calls[p]
  <1>0. TypeOK /\ CountersInv' /\ TypeOK'
    BY CountersStep DEF CapInv, CountersInv
  <1>1. ASSUME L PROVE CapInv'
    BY <1>0, <1>1, LimitsAssumption DEF CapInv, TypeOK
  <1>2. ASSUME UNCHANGED <<inflight, calls>> PROVE L
    BY <1>0, <1>2 DEF TypeOK
  <1>3. ASSUME NEW S \in SUBSET Live, NEW K, EndRoutes(S, K) PROVE L
    BY <1>0, <1>3, EndRoutesLowers
  <1>4. ASSUME NEW p \in Client, NEW c \in Call, NEW req \in Request, Open(p, c, req)
        PROVE  CapInv'
    <2>1. CASE UNCHANGED <<inflight, calls>>
      BY <1>1, <1>2, <2>1
    <2>2. CASE /\ ~Refused(p, c, req)
               /\ calls' = [calls EXCEPT ![p] = @ + 1]
               /\ \/ UNCHANGED inflight
                  \/ \E i \in Instance : ~Full(i) /\ inflight' = [inflight EXCEPT ![i] = @ + 1]
      <3>1. MaxCalls > 0 => calls[p] < MaxCalls
        BY <1>0, <2>2, LimitsAssumption DEF Refused, TypeOK
      <3>2. MaxCalls > 0 => \A q \in Client : calls'[q] <= MaxCalls
        BY <1>0, <2>2, <3>1, LimitsAssumption DEF CapInv, TypeOK
      <3>3. \A j \in Instance : MaxInflight[j] > 0 => inflight'[j] <= MaxInflight[j]
        BY <1>0, <2>2, LimitsAssumption DEF CapInv, TypeOK, Full
      <3> QED BY <1>0, <3>2, <3>3 DEF CapInv
    <2>3. CASE ~Refused(p, c, req) /\ OpenRouted(p, c, req)
      BY <1>0, <1>4, <2>2, <2>3, RoutedStep
    <2>4. CASE ~Refused(p, c, req) /\ OpenJoined(p, c, req)
      BY <2>2, <2>4 DEF OpenJoined
    <2> QED BY <1>4, <2>1, <2>3, <2>4 DEF Open, OpenRefused, OpenReplayed, OpenUnroutable
  <1>5. ASSUME NEW p \in Client, NEW c \in Call, ClientCancel(p, c) PROVE L
    BY <1>0, <1>3, <1>5, CancelEnds
  <1>6. ASSUME NEW p \in Peer, Remove(p) PROVE L
    BY <1>0, <1>3, <1>6, RemoveEnds
  <1>7. ASSUME NEW S \in SUBSET Live, NEW K, Ends(S, K) PROVE L
    BY <1>3, <1>7 DEF Ends
  <1>8. ASSUME NEW p \in Client, NEW c \in Call, MalformedFrame(p, c) PROVE L
    BY <1>2, <1>8 DEF MalformedFrame
  <1>9. CASE Quiet
    BY <1>1, <1>2, <1>9 DEF Quiet
  <1> HIDE DEF L
  <1> QED BY <1>0, <1>1, <1>4, <1>5, <1>6, <1>7, <1>8, <1>9, StepKinds

\* No instance is ever given more calls than its max_inflight, and no connection
\* has more in flight than --max-calls-per-connection: selectInstance and forward
\* check counters, and the counters are exact.
THEOREM CapacityCorrect == Spec => []CapacityRespected
  <1>1. Init => CapInv
    <2> SUFFICES ASSUME Init PROVE CapInv
      OBVIOUS
    <2>1. CountersInv
      BY CountersInitially
    <2>2. \A i \in Instance : inflight[i] = 0
      BY DEF Init
    <2>3. \A p \in Client : calls[p] = 0
      BY DEF Init
    <2> QED BY <2>1, <2>2, <2>3, LimitsAssumption DEF CapInv
  <1>2. CapInv => CapacityRespected
    BY DEF CapInv, CountersInv, CountersExact, CapacityRespected
  <1> QED BY <1>1, <1>2, CapStep, PTL DEF Spec

-------------------------------------------------------------------------------
(* Idempotency.                                                            *)

KeyInv == TypeOK /\ OneExecutionPerKey

\* Ending calls touches no entry of a call that goes on: an entry belongs to
\* one call.
LEMMA EndKeepsEntries ==
  ASSUME KeyInv, NEW S \in SUBSET Live, NEW K, EndRoutes(S, K), OnlyEntries(S, K)
  PROVE  OneExecutionPerKey'
  <1>1. Live' = Live \ S /\ \A c \in Live \ S : routes'[c] = routes[c]
    BY EndRoutesLeaves DEF KeyInv
  <1>2. ASSUME NEW c \in Live', routes'[c].key # None
        PROVE  dedup'[routes'[c].key] = dedup[routes[c].key] /\ routes'[c] = routes[c]
    <2>1. c \in Live \ S /\ routes'[c] = routes[c]
      BY <1>1
    <2>2. routes[c].key \in DedupKey
      BY <1>2, <2>1 DEF KeyInv, TypeOK, Live, Route
    <2>3. routes[c].key \notin K
      BY <1>2, <2>1, <2>2 DEF OnlyEntries, KeyInv, OneExecutionPerKey
    <2> QED BY <2>1, <2>2, <2>3 DEF OnlyEntries
  <1>3. \A c \in Live' : c \in Live
    BY <1>1
  <1> QED BY <1>2, <1>3 DEF KeyInv, OneExecutionPerKey

\* A lookup that does not find a call in flight proves that there is none.
LEMMA FreshKeyUnused ==
  ASSUME KeyInv, NEW req \in Request, Deduplicated(req), NEW e \in Lookup(req), Fresh(e)
  PROVE  \A c \in Live : routes[c].key # KeyOf(req)
  <1>1. KeyOf(req) \in DedupKey
    BY KeyOfType
  <1>2. SUFFICES ASSUME NEW c \in Live, routes[c].key = KeyOf(req) PROVE FALSE
    OBVIOUS
  <1>3. KeyOf(req) # None
    BY <1>1, NoneAssumption
  <1>4. dedup[KeyOf(req)] # None /\ dedup[KeyOf(req)].state = "inflight"
    BY <1>2, <1>3 DEF KeyInv, OneExecutionPerKey
  <1>5. e = dedup[KeyOf(req)]
    BY <1>4 DEF Lookup, Forgettable
  <1> QED BY <1>4, <1>5 DEF Fresh

LEMMA KeyStep == KeyInv /\ [Next]_vars => KeyInv'
  <1> SUFFICES ASSUME KeyInv, [Next]_vars PROVE OneExecutionPerKey'
    BY TypeStep DEF KeyInv
  <1>0. TypeOK
    BY DEF KeyInv
  <1>1. CASE Quiet
    BY <1>1 DEF Quiet, KeyInv, OneExecutionPerKey
  <1>2. ASSUME UNCHANGED <<routes, dedup>> PROVE OneExecutionPerKey'
    BY <1>2 DEF KeyInv, OneExecutionPerKey, Live
  <1>3. ASSUME NEW p \in Client, NEW c \in Call, MalformedFrame(p, c) PROVE OneExecutionPerKey'
    BY <1>2, <1>3 DEF MalformedFrame
  <1>4. ASSUME NEW p \in Client, NEW c \in Call, ClientCancel(p, c) PROVE OneExecutionPerKey'
    BY <1>0, <1>4, CancelEnds, EndKeepsEntries
  <1>5. ASSUME NEW S \in SUBSET Live, NEW K, Ends(S, K) PROVE OneExecutionPerKey'
    BY <1>5, EndKeepsEntries DEF Ends
  <1>6. ASSUME NEW p \in Peer, Remove(p) PROVE OneExecutionPerKey'
    BY <1>0, <1>6, RemoveEnds, EndKeepsEntries
  <1>7. ASSUME NEW p \in Client, NEW c \in Call, NEW req \in Request, Open(p, c, req)
        PROVE  OneExecutionPerKey'
    <2>1. CASE UNCHANGED <<routes, dedup>>
      BY <1>2, <2>1
    <2>2. CASE OpenUnroutable(p, c, req)
      <3>1. PICK e \in Lookup(req) :
              /\ Fresh(e)
              /\ dedup' = IF Deduplicated(req) THEN [dedup EXCEPT ![KeyOf(req)] = None] ELSE dedup
              /\ UNCHANGED routes
        BY <2>2 DEF OpenUnroutable
      <3>2. \A x \in Live : routes[x].key # None => dedup'[routes[x].key] = dedup[routes[x].key]
        BY <1>0, <3>1, FreshKeyUnused DEF TypeOK, Live, Route
      <3> QED BY <3>1, <3>2 DEF KeyInv, OneExecutionPerKey, Live
    <2>3. CASE ~Refused(p, c, req) /\ OpenRouted(p, c, req)
      <3>1. PICK e \in Lookup(req) : \E i \in SelectInstance(req, Avoid(e)) :
              /\ Fresh(e)
              /\ c \notin Live
              /\ NewRoute(p, i, req) # None
              /\ routes' = [routes EXCEPT ![c] = NewRoute(p, i, req)]
              /\ DedupInsert(c, req)
        BY <1>0, <1>7, <2>3, RoutedStep
      <3>2. PICK i \in SelectInstance(req, Avoid(e)) :
              /\ c \notin Live
              /\ NewRoute(p, i, req) # None
              /\ routes' = [routes EXCEPT ![c] = NewRoute(p, i, req)]
        BY <3>1
      <3>3. /\ Live' = Live \cup {c}
            /\ routes'[c] = NewRoute(p, i, req)
            /\ \A x \in Live : x # c /\ routes'[x] = routes[x]
        BY <1>0, <3>2 DEF TypeOK, Live
      <3>4. CASE ~Deduplicated(req)
        <4>1. UNCHANGED dedup
          BY <3>1, <3>4 DEF DedupInsert
        <4>2. routes'[c].key = None
          BY <3>3, <3>4 DEF NewRoute
        <4> QED BY <3>3, <4>1, <4>2 DEF KeyInv, OneExecutionPerKey
      <3>5. CASE Deduplicated(req)
        <4>1. KeyOf(req) \in DedupKey /\ KeyOf(req) # None
          BY <3>5, KeyOfType, NoneAssumption
        <4>2. PICK F \in SUBSET Forgettable :
                dedup' = [k \in DedupKey |->
                            IF k = KeyOf(req)
                            THEN [state |-> "inflight", route |-> c, lost |-> None]
                            ELSE IF k \in F THEN None ELSE dedup[k]]
          BY <3>1, <3>5 DEF DedupInsert
        <4>3. dedup'[KeyOf(req)] = [state |-> "inflight", route |-> c, lost |-> None]
          BY <4>1, <4>2
        <4>4. [state |-> "inflight", route |-> c, lost |-> None] \in Entry
          BY DEF Entry
        <4>5. /\ dedup'[KeyOf(req)] # None
              /\ dedup'[KeyOf(req)].state = "inflight"
              /\ dedup'[KeyOf(req)].route = c
          BY <4>3, <4>4, NoneAssumption
        <4>6. ASSUME NEW x \in Live, routes[x].key # None
              PROVE  dedup'[routes[x].key] = dedup[routes[x].key]
          <5>1. routes[x].key \in DedupKey
            BY <1>0, <4>6 DEF TypeOK, Live, Route
          <5>2. routes[x].key # KeyOf(req)
            BY <3>1, <3>5, FreshKeyUnused
          <5>3. routes[x].key \notin Forgettable
            BY <4>6 DEF Forgettable, KeyInv, OneExecutionPerKey
          <5> QED BY <4>2, <5>1, <5>2, <5>3
        <4>7. ASSUME NEW x \in Live', routes'[x].key # None
              PROVE  /\ dedup'[routes'[x].key] # None
                     /\ dedup'[routes'[x].key].state = "inflight"
                     /\ dedup'[routes'[x].key].route = x
          <5>1. CASE x = c
            <6>1. routes'[c].key = KeyOf(req)
              BY <3>3, <3>5 DEF NewRoute
            <6> QED BY <4>5, <5>1, <6>1
          <5>2. CASE x \in Live
            BY <3>3, <4>6, <4>7, <5>2 DEF KeyInv, OneExecutionPerKey
          <5> QED BY <3>3, <5>1, <5>2
        <4> QED BY <4>7 DEF OneExecutionPerKey
      <3> QED BY <3>4, <3>5
    <2> QED BY <1>7, <2>1, <2>2, <2>3 DEF Open, OpenRefused, OpenReplayed, OpenJoined
  <1> QED BY <1>0, <1>1, <1>3, <1>4, <1>5, <1>6, <1>7, StepKinds

\* At most one call runs under an idempotency key, whatever is evicted, expires,
\* fails or is retried, and the entry of the key points to it.
THEOREM IdempotencyCorrect == Spec => []OneExecutionPerKey
  <1>1. Init => KeyInv
    BY TypeInitially DEF KeyInv, Init, OneExecutionPerKey, Live
  <1>2. KeyInv => OneExecutionPerKey
    BY DEF KeyInv
  <1> QED BY <1>1, <1>2, KeyStep, PTL DEF Spec

-------------------------------------------------------------------------------
(* Routes and their peers.                                                 *)

\* A registered instance is a connection that the Router still has.
PeersInv == TypeOK /\ RoutesHavePeers /\ registered \subseteq Present

\* The routes that remain keep their peers if those stay in the tables.
LEMMA KeptPeers ==
  ASSUME PeersInv, Live' \subseteq Live, Present \subseteq Present', registered \subseteq registered',
         \A c \in Live' : /\ routes'[c].client = routes[c].client
                          /\ routes'[c].instance = routes[c].instance
  PROVE  RoutesHavePeers'
  BY DEF PeersInv, RoutesHavePeers

LEMMA PeersStep == PeersInv /\ [Next]_vars => PeersInv'
  <1> SUFFICES ASSUME PeersInv, [Next]_vars
               PROVE  RoutesHavePeers' /\ registered' \subseteq Present'
    BY TypeStep DEF PeersInv
  <1> DEFINE Goal == RoutesHavePeers' /\ registered' \subseteq Present'
  <1>0. TypeOK
    BY DEF PeersInv
  <1>1. CASE Quiet /\ KeepsPeers
    <2>1. registered' \subseteq Present'
      BY <1>1 DEF KeepsPeers, PeersInv
    <2> QED BY <1>1, <2>1, KeptPeers DEF Quiet, KeepsPeers
  <1>2. ASSUME UNCHANGED <<conn, registered>>
        PROVE  Present' = Present /\ registered' \subseteq Present'
    BY <1>2 DEF PeersInv, Present
  <1>3. ASSUME NEW S \in SUBSET Live, NEW K, EndRoutes(S, K), UNCHANGED <<conn, registered>>
        PROVE  Goal
    BY <1>0, <1>2, <1>3, EndRoutesLeaves, KeptPeers
  <1>4. ASSUME UNCHANGED <<routes, conn, registered>> PROVE Goal
    BY <1>2, <1>4, KeptPeers DEF Live
  <1>5. ASSUME NEW p \in Client, NEW c \in Call, MalformedFrame(p, c) PROVE Goal
    BY <1>4, <1>5 DEF MalformedFrame
  <1>6. ASSUME NEW p \in Client, NEW c \in Call, ClientCancel(p, c) PROVE Goal
    BY <1>0, <1>3, <1>6, CancelEnds
  <1>7. ASSUME NEW S \in SUBSET Live, NEW K, Ends(S, K) PROVE Goal
    BY <1>3, <1>7 DEF Ends
  <1>8. ASSUME NEW p \in Peer, Remove(p) PROVE Goal
    <2>1. Present' = Present \ {p} /\ registered' = registered \ {p}
      BY <1>0, <1>8, RemoveLeaves
    <2>2. Live' = Live \ RoutesWith(p) /\ \A c \in Live \ RoutesWith(p) : routes'[c] = routes[c]
      BY <1>0, <1>8, RemoveEnds, EndRoutesLeaves
    <2>3. \A c \in Live \ RoutesWith(p) : routes[c].client # p /\ routes[c].instance # p
      BY DEF RoutesWith
    <2>4. registered' \subseteq Present'
      BY <2>1 DEF PeersInv
    <2> QED BY <2>1, <2>2, <2>3, <2>4 DEF PeersInv, RoutesHavePeers
  <1>9. ASSUME NEW p \in Client, NEW c \in Call, NEW req \in Request, Open(p, c, req)
        PROVE  Goal
    <2>1. UNCHANGED <<conn, registered>> /\ conn[p] = "up"
      BY <1>9 DEF Open
    <2>2. CASE UNCHANGED routes
      BY <1>4, <2>1, <2>2
    <2>3. CASE ~Refused(p, c, req) /\ OpenRouted(p, c, req)
      <3>1. PICK e \in Lookup(req) : \E i \in SelectInstance(req, Avoid(e)) :
              /\ c \notin Live
              /\ i \in registered
              /\ NewRoute(p, i, req) # None
              /\ routes' = [routes EXCEPT ![c] = NewRoute(p, i, req)]
        BY <1>0, <1>9, <2>3, RoutedStep
      <3>2. PICK i \in SelectInstance(req, Avoid(e)) :
              /\ c \notin Live
              /\ i \in registered
              /\ NewRoute(p, i, req) # None
              /\ routes' = [routes EXCEPT ![c] = NewRoute(p, i, req)]
        BY <3>1
      <3>3. /\ Live' = Live \cup {c}
            /\ routes'[c].client = p /\ routes'[c].instance = i
            /\ \A x \in Live : x # c /\ routes'[x] = routes[x]
        BY <1>0, <3>2 DEF TypeOK, Live, NewRoute
      <3>4. p \in Present
        BY <2>1 DEF Present, Peer
      <3> QED BY <1>2, <2>1, <3>2, <3>3, <3>4 DEF PeersInv, RoutesHavePeers
    <2> QED BY <1>9, <2>2, <2>3 DEF Open, OpenRefused, OpenReplayed, OpenJoined, OpenUnroutable
  <1> HIDE DEF Goal
  <1>10. Goal
    BY <1>0, <1>1, <1>5, <1>6, <1>7, <1>8, <1>9, StepKinds DEF Goal
  <1> QED BY <1>10 DEF Goal

\* Both ends of every route are connections that the Router still has: no frame
\* is forwarded to a removed peer, and no removed instance keeps a caller waiting.
THEOREM PeersCorrect == Spec => []RoutesHavePeers
  <1>1. Init => PeersInv
    BY TypeInitially DEF PeersInv, Init, RoutesHavePeers, Live
  <1>2. PeersInv => RoutesHavePeers
    BY DEF PeersInv
  <1> QED BY <1>1, <1>2, PeersStep, PTL DEF Spec

-------------------------------------------------------------------------------
(* What callers are sent.                                                  *)

\* The calls that ending S and releasing K answers.
Told(S, K) == Callers(S) \cup Joined(K)

\* Whoever is told has the call open, so that the frame is its first terminal.
LEMMA ToldAreOpen ==
  ASSUME TypeOK, CallersInv, NEW S \in SUBSET Live, NEW K,
         NEW p \in Client, NEW c \in Call, <<p, c>> \in Told(S, K)
  PROVE  view[p][c] = "open"
  <1>1. CASE <<p, c>> \in Callers(S)
    BY <1>1 DEF Callers, CallersInv
  <1>2. CASE <<p, c>> \in Joined(K)
    BY <1>2 DEF Joined, CallersInv
  <1> QED BY <1>1, <1>2 DEF Told

\* Answering them changes no other caller's view.
LEMMA EndViews ==
  ASSUME TypeOK, CallersInv, NEW S \in SUBSET Live, NEW K, Send(Told(S, K), TRUE),
         NEW p \in Client, NEW c \in Call
  PROVE  /\ <<p, c>> \in Told(S, K) /\ p \in Present => view'[p][c] = "done"
         /\ ~(<<p, c>> \in Told(S, K) /\ p \in Present) => view'[p][c] = view[p][c]
  <1>1. p \in Present <=> conn[p] \in {"up", "lost"}
    BY DEF Present, Peer
  <1>2. <<p, c>> \in Told(S, K) => view[p][c] = "open"
    BY ToldAreOpen
  <1> QED BY <1>1, <1>2 DEF Send, Receive

\* A call that goes on is not told of the end of another.
LEMMA OthersNotTold ==
  ASSUME TypeOK, CallersInv, NEW S \in SUBSET Live, NEW K
  PROVE  /\ \A c \in Live \ S : <<routes[c].client, c>> \notin Told(S, K)
         /\ \A w \in waiting : w.key \notin K => <<w.client, w.call>> \notin Told(S, K)
  <1>1. ASSUME NEW c \in Live \ S, <<routes[c].client, c>> \in Told(S, K) PROVE FALSE
    <2>1. <<routes[c].client, c>> \notin Callers(S)
      BY DEF Callers
    <2>2. PICK w \in waiting : w.client = routes[c].client /\ w.call = c
      BY <1>1, <2>1 DEF Told, Joined
    <2> QED BY <2>2 DEF CallersInv, RoutesOf
  <1>2. ASSUME NEW w \in waiting, w.key \notin K, <<w.client, w.call>> \in Told(S, K)
        PROVE  FALSE
    <2>1. <<w.client, w.call>> \notin Callers(S)
      BY DEF Callers, CallersInv, RoutesOf
    <2>2. PICK v \in waiting : v.key \in K /\ v.client = w.client /\ v.call = w.call
      BY <1>2, <2>1 DEF Told, Joined
    <2> QED BY <1>2, <2>2 DEF CallersInv
  <1> QED BY <1>1, <1>2

\* Calls end and their callers are told: nothing is sent twice and no other
\* caller is forgotten.
LEMMA EndsKeepCallers ==
  ASSUME TypeOK, TypeOK', CallersInv, NEW S \in SUBSET Live, NEW K,
         EndRoutes(S, K), Send(Told(S, K), TRUE),
         Present' \subseteq Present,
         \A q \in Peer : conn[q] # "absent" => conn'[q] # "absent"
  PROVE  CallersInv'
  <1>1. /\ Live' = Live \ S
        /\ \A c \in Live \ S : routes'[c] = routes[c]
        /\ waiting' = {w \in waiting : w.key \notin K}
    BY EndRoutesLeaves
  <1>2. \A c \in Live : c \in Call /\ routes[c].client \in Client
    BY DEF TypeOK, Live, Route
  <1>3. \A w \in waiting : w.client \in Client /\ w.call \in Call
    BY DEF TypeOK, Waiter
  <1>4. NoStrayFrame'
    <2> SUFFICES ASSUME NEW p \in Client, NEW c \in Call PROVE view'[p][c] # "stray"
      BY DEF NoStrayFrame
    <2>1. view'[p][c] \in {"done", view[p][c]}
      BY EndViews
    <2> QED BY <2>1 DEF CallersInv, NoStrayFrame
  <1>5. NoForgottenCaller'
    <2> SUFFICES ASSUME NEW p \in Client, p \in Present', NEW c \in Call, view'[p][c] = "open"
                 PROVE  c \in RoutesOf(p)' \/ \E w \in WaitsOf(p)' : w.call = c
      BY DEF NoForgottenCaller
    <2>1. p \in Present /\ view[p][c] = "open" /\ <<p, c>> \notin Told(S, K)
      BY EndViews
    <2>2. CASE c \in RoutesOf(p)
      <3>1. c \in Live /\ routes[c].client = p /\ c \notin S
        BY <2>1, <2>2 DEF RoutesOf, Told, Callers
      <3> QED BY <1>1, <3>1 DEF RoutesOf
    <2>3. CASE \E w \in WaitsOf(p) : w.call = c
      <3>1. PICK w \in waiting : w.client = p /\ w.call = c
        BY <2>3 DEF WaitsOf
      <3>2. w.key \notin K
        BY <2>1, <3>1 DEF Told, Joined
      <3> QED BY <1>1, <3>1, <3>2 DEF WaitsOf
    <2> QED BY <2>1, <2>2, <2>3 DEF CallersInv, NoForgottenCaller
  <1>6. \A c \in Live' : view'[routes'[c].client][c] = "open"
    <2> SUFFICES ASSUME NEW c \in Live \ S PROVE view'[routes[c].client][c] = "open"
      BY <1>1
    <2>1. <<routes[c].client, c>> \notin Told(S, K)
      BY OthersNotTold
    <2>2. view'[routes[c].client][c] = view[routes[c].client][c]
      BY <1>2, <2>1, EndViews
    <2> QED BY <2>2 DEF CallersInv
  <1>7. \A w \in waiting' : view'[w.client][w.call] = "open"
    <2> SUFFICES ASSUME NEW w \in waiting, w.key \notin K PROVE view'[w.client][w.call] = "open"
      BY <1>1
    <2>1. <<w.client, w.call>> \notin Told(S, K)
      BY OthersNotTold
    <2>2. view'[w.client][w.call] = view[w.client][w.call]
      BY <1>3, <2>1, EndViews
    <2> QED BY <2>2 DEF CallersInv
  <1>8. \A w \in waiting' : w.call \notin RoutesOf(w.client)'
    BY <1>1 DEF CallersInv, RoutesOf
  <1>9. \A v, w \in waiting' : v.client = w.client /\ v.call = w.call => v = w
    BY <1>1 DEF CallersInv
  <1>10. ASSUME NEW p \in Client, conn'[p] = "absent", NEW c \in Call PROVE view'[p][c] = "idle"
    <2>1. conn[p] = "absent"
      BY <1>10 DEF Peer
    <2>2. p \notin Present
      BY <2>1 DEF Present
    <2>3. view'[p][c] = view[p][c]
      BY <2>2, EndViews
    <2> QED BY <2>1, <2>3 DEF CallersInv
  <1> QED BY <1>4, <1>5, <1>6, <1>7, <1>8, <1>9, <1>10 DEF CallersInv

\* A frame that is not terminal changes nothing for a caller whose call is open.
LEMMA QuietKeepsCallers ==
  ASSUME TypeOK, CallersInv, Quiet, KeepsPeers,
         UNCHANGED view \/ \E c \in Live : Send(Callers({c}), FALSE)
  PROVE  CallersInv'
  <1>1. ASSUME NEW p \in Client, NEW c \in Call PROVE view'[p][c] = view[p][c]
    <2>1. CASE UNCHANGED view
      BY <2>1
    <2>2. CASE \E x \in Live : Send(Callers({x}), FALSE)
      <3>1. PICK x \in Live : Send(Callers({x}), FALSE)
        BY <2>2
      <3>2. <<p, c>> \in Callers({x}) => view[p][c] = "open"
        BY DEF Callers, CallersInv
      <3> QED BY <3>1, <3>2 DEF Send, Receive
    <2> QED BY <2>1, <2>2
  <1>2. \A c \in Live : c \in Call /\ routes[c].client \in Client
    BY DEF TypeOK, Live, Route
  <1>3. \A w \in waiting : w.client \in Client /\ w.call \in Call
    BY DEF TypeOK, Waiter
  <1>4. \A p : RoutesOf(p)' = RoutesOf(p) /\ WaitsOf(p)' = WaitsOf(p)
    BY DEF Quiet, RoutesOf, WaitsOf
  <1>5. NoStrayFrame'
    BY <1>1 DEF CallersInv, NoStrayFrame
  <1>6. NoForgottenCaller'
    <2> SUFFICES ASSUME NEW p \in Client, p \in Present', NEW c \in Call, view'[p][c] = "open"
                 PROVE  c \in RoutesOf(p)' \/ \E w \in WaitsOf(p)' : w.call = c
      BY DEF NoForgottenCaller
    <2>1. view[p][c] = "open"
      BY <1>1
    <2>2. p \in Present
      <3>1. conn[p] # "absent"
        BY <2>1 DEF CallersInv
      <3> QED BY <3>1 DEF KeepsPeers
    <2> QED BY <1>4, <2>1, <2>2 DEF CallersInv, NoForgottenCaller
  <1>7. \A c \in Live' : view'[routes'[c].client][c] = "open"
    BY <1>1, <1>2 DEF CallersInv, Quiet
  <1>8. \A w \in waiting' : view'[w.client][w.call] = "open"
    BY <1>1, <1>3 DEF CallersInv, Quiet
  <1>9. \A w \in waiting' : w.call \notin RoutesOf(w.client)'
    BY <1>4 DEF CallersInv, Quiet
  <1>10. \A v, w \in waiting' : v.client = w.client /\ v.call = w.call => v = w
    BY DEF CallersInv, Quiet
  <1>11. ASSUME NEW p \in Client, conn'[p] = "absent", NEW c \in Call PROVE view'[p][c] = "idle"
    <2>1. conn[p] = "absent"
      BY <1>11 DEF KeepsPeers, Peer
    <2> QED BY <1>1, <2>1 DEF CallersInv
  <1> QED BY <1>5, <1>6, <1>7, <1>8, <1>9, <1>10, <1>11 DEF CallersInv

\* A cancel ends its caller's own call, without a frame.
LEMMA CancelKeepsCallers ==
  ASSUME TypeOK, CallersInv, NEW p \in Client, NEW c \in Call, ClientCancel(p, c)
  PROVE  CallersInv'
  <1>1. /\ c \in Live /\ routes[c].client = p
        /\ EndRoutes({c}, {})
        /\ UNCHANGED conn
    BY CancelEnds
  <1>2. /\ Live' = Live \ {c}
        /\ \A x \in Live \ {c} : routes'[x] = routes[x]
        /\ waiting' = waiting
    BY <1>1 DEF EndRoutes, ReleaseWaiters, Live, TypeOK
  <1>3. \A x \in Live : x \in Call /\ routes[x].client \in Client
    BY DEF TypeOK, Live, Route
  <1>4. \A w \in waiting : w.client \in Client /\ w.call \in Call
    BY DEF TypeOK, Waiter
  <1>5. view'[p][c] = "done"
    BY DEF ClientCancel, Answered, TypeOK
  <1>6. \A q \in Client, x \in Call : ~(q = p /\ x = c) => view'[q][x] = view[q][x]
    BY DEF ClientCancel, Answered, TypeOK
  <1>7. Present' = Present
    BY <1>1 DEF Present
  <1>8. NoStrayFrame'
    BY <1>5, <1>6 DEF CallersInv, NoStrayFrame
  <1>9. NoForgottenCaller'
    <2> SUFFICES ASSUME NEW q \in Client, q \in Present', NEW x \in Call, view'[q][x] = "open"
                 PROVE  x \in RoutesOf(q)' \/ \E w \in WaitsOf(q)' : w.call = x
      BY DEF NoForgottenCaller
    <2>1. ~(q = p /\ x = c) /\ view[q][x] = "open"
      BY <1>5, <1>6
    <2>2. x \in RoutesOf(q) \/ \E w \in WaitsOf(q) : w.call = x
      BY <1>7, <2>1 DEF CallersInv, NoForgottenCaller
    <2>3. x \in RoutesOf(q) => x \in RoutesOf(q)'
      BY <1>1, <1>2, <2>1 DEF RoutesOf
    <2>4. WaitsOf(q)' = WaitsOf(q)
      BY <1>2 DEF WaitsOf
    <2> QED BY <2>2, <2>3, <2>4
  <1>10. \A x \in Live' : view'[routes'[x].client][x] = "open"
    BY <1>2, <1>3, <1>6 DEF CallersInv
  <1>11. \A w \in waiting' : view'[w.client][w.call] = "open"
    <2>1. \A w \in waiting : ~(w.client = p /\ w.call = c)
      BY <1>1 DEF CallersInv, RoutesOf
    <2> QED BY <1>2, <1>4, <1>6, <2>1 DEF CallersInv
  <1>12. \A w \in waiting' : w.call \notin RoutesOf(w.client)'
    BY <1>2 DEF CallersInv, RoutesOf
  <1>13. \A q \in Client : conn'[q] = "absent" => \A x \in Call : view'[q][x] = "idle"
    <2>1. conn[p] # "absent"
      BY DEF ClientCancel, FromClient
    <2> QED BY <1>1, <1>6, <2>1 DEF CallersInv
  <1> QED BY <1>2, <1>8, <1>9, <1>10, <1>11, <1>12, <1>13 DEF CallersInv

\* A client that leaves is owed nothing more; the others lose no call.
LEMMA LeavingKeepsCallers ==
  ASSUME TypeOK, CallersInv, NEW p \in Client, Remove(p)
  PROVE  CallersInv'
  <1>1. p \in Peer /\ p \notin Instance
    BY PeersAssumption DEF Peer
  <1>2. /\ RoutesWith(p) \in SUBSET Live
        /\ EndRoutes(RoutesWith(p), {})
        /\ Send({}, TRUE)
    BY <1>1, RemoveEnds
  <1>3. /\ Live' = Live \ RoutesWith(p)
        /\ \A c \in Live \ RoutesWith(p) : routes'[c] = routes[c]
        /\ waiting' = waiting
    BY <1>2 DEF EndRoutes, ReleaseWaiters, Live, TypeOK
  <1>4. \A q \in Client, c \in Call : view'[q][c] = view[q][c]
    BY <1>2 DEF Send
  <1>5. /\ Present' = Present \ {p}
        /\ \A q \in Peer : conn[q] # "absent" => conn'[q] # "absent"
    BY <1>1, RemoveLeaves
  <1>6. \A c \in Live : /\ c \in Call /\ routes[c].client \in Client
                        /\ c \in RoutesWith(p) => routes[c].client = p
    BY <1>1 DEF TypeOK, Live, Route, RoutesWith
  <1>7. \A w \in waiting : w.client \in Client /\ w.call \in Call
    BY DEF TypeOK, Waiter
  <1>8. NoStrayFrame'
    BY <1>4 DEF CallersInv, NoStrayFrame
  <1>9. NoForgottenCaller'
    <2> SUFFICES ASSUME NEW q \in Client, q \in Present', NEW x \in Call, view'[q][x] = "open"
                 PROVE  x \in RoutesOf(q)' \/ \E w \in WaitsOf(q)' : w.call = x
      BY DEF NoForgottenCaller
    <2>1. q # p /\ q \in Present /\ view[q][x] = "open"
      BY <1>4, <1>5
    <2>2. x \in RoutesOf(q) \/ \E w \in WaitsOf(q) : w.call = x
      BY <2>1 DEF CallersInv, NoForgottenCaller
    <2>3. x \in RoutesOf(q) => x \in RoutesOf(q)'
      BY <1>3, <1>6, <2>1 DEF RoutesOf
    <2>4. WaitsOf(q)' = WaitsOf(q)
      BY <1>3 DEF WaitsOf
    <2> QED BY <2>2, <2>3, <2>4
  <1>10. \A c \in Live' : view'[routes'[c].client][c] = "open"
    BY <1>3, <1>4, <1>6 DEF CallersInv
  <1>11. \A w \in waiting' : view'[w.client][w.call] = "open"
    BY <1>3, <1>4, <1>7 DEF CallersInv
  <1>12. \A w \in waiting' : w.call \notin RoutesOf(w.client)'
    BY <1>3 DEF CallersInv, RoutesOf
  <1>13. \A q \in Client : conn'[q] = "absent" => \A c \in Call : view'[q][c] = "idle"
    BY <1>4, <1>5 DEF CallersInv, Peer
  <1> QED BY <1>3, <1>8, <1>9, <1>10, <1>11, <1>12, <1>13 DEF CallersInv

\* A call.open that is answered at once.
LEMMA AnswerKeepsCallers ==
  ASSUME TypeOK, CallersInv, NEW p \in Client, NEW c \in Call, conn[p] = "up",
         view[p][c] = "idle", Answered(p, c), UNCHANGED <<conn, routes, waiting>>
  PROVE  CallersInv'
  <1>1. view'[p][c] = "done"
    BY DEF Answered, TypeOK
  <1>2. \A q \in Client, x \in Call : ~(q = p /\ x = c) => view'[q][x] = view[q][x]
    BY DEF Answered, TypeOK
  <1>3. \A x \in Live : x \in Call /\ routes[x].client \in Client
    BY DEF TypeOK, Live, Route
  <1>4. \A w \in waiting : w.client \in Client /\ w.call \in Call
    BY DEF TypeOK, Waiter
  <1>5. Live' = Live /\ Present' = Present
    BY DEF Live, Present
  <1>6. \A q : RoutesOf(q)' = RoutesOf(q) /\ WaitsOf(q)' = WaitsOf(q)
    BY <1>5 DEF RoutesOf, WaitsOf
  <1>7. NoStrayFrame'
    BY <1>1, <1>2 DEF CallersInv, NoStrayFrame
  <1>8. NoForgottenCaller'
    <2> SUFFICES ASSUME NEW q \in Client, q \in Present', NEW x \in Call, view'[q][x] = "open"
                 PROVE  x \in RoutesOf(q)' \/ \E w \in WaitsOf(q)' : w.call = x
      BY DEF NoForgottenCaller
    <2>1. view[q][x] = "open"
      BY <1>1, <1>2
    <2> QED BY <1>5, <1>6, <2>1 DEF CallersInv, NoForgottenCaller
  <1>9. \A x \in Live' : view'[routes'[x].client][x] = "open"
    BY <1>2, <1>3, <1>5 DEF CallersInv
  <1>10. \A w \in waiting' : view'[w.client][w.call] = "open"
    BY <1>2, <1>4 DEF CallersInv
  <1>11. \A w \in waiting' : w.call \notin RoutesOf(w.client)'
    BY <1>6 DEF CallersInv
  <1>12. \A q \in Client : conn'[q] = "absent" => \A x \in Call : view'[q][x] = "idle"
    BY <1>2 DEF CallersInv
  <1> QED BY <1>7, <1>8, <1>9, <1>10, <1>11, <1>12 DEF CallersInv

\* A call.open that is routed, or that joins another call: the call is open at
\* its caller, which has not used its id before.
LEMMA OpenedKeepsCallers ==
  ASSUME TypeOK, CallersInv, NEW p \in Client, NEW c \in Call, conn[p] = "up",
         view[p][c] = "idle", Opened(p, c), UNCHANGED conn,
         \A x \in Live : routes'[x] = routes[x],
         \/ /\ Live' = Live \cup {c} /\ routes'[c].client = p
            /\ waiting' = waiting
         \/ /\ Live' = Live
            /\ \E w : w.client = p /\ w.call = c /\ waiting' = waiting \cup {w}
  PROVE  CallersInv'
  <1>1. view'[p][c] = "open"
    BY DEF Opened, TypeOK
  <1>2. \A q \in Client, x \in Call : ~(q = p /\ x = c) => view'[q][x] = view[q][x]
    BY DEF Opened, TypeOK
  <1>3. \A x \in Live : /\ x \in Call /\ routes[x].client \in Client
                        /\ ~(routes[x].client = p /\ x = c)
    BY DEF TypeOK, Live, Route, CallersInv
  <1>4. \A w \in waiting : /\ w.client \in Client /\ w.call \in Call
                           /\ ~(w.client = p /\ w.call = c)
    BY DEF TypeOK, Waiter, CallersInv
  <1>5. Present' = Present
    BY DEF Present
  <1>6. \A q : RoutesOf(q) \subseteq RoutesOf(q)' /\ WaitsOf(q) \subseteq WaitsOf(q)'
    BY DEF RoutesOf, WaitsOf
  <1>7. NoStrayFrame'
    BY <1>1, <1>2 DEF CallersInv, NoStrayFrame
  <1>8. NoForgottenCaller'
    <2> SUFFICES ASSUME NEW q \in Client, q \in Present', NEW x \in Call, view'[q][x] = "open"
                 PROVE  x \in RoutesOf(q)' \/ \E w \in WaitsOf(q)' : w.call = x
      BY DEF NoForgottenCaller
    <2>1. CASE q = p /\ x = c
      BY <2>1 DEF RoutesOf, WaitsOf
    <2>2. CASE ~(q = p /\ x = c)
      <3>1. view[q][x] = "open"
        BY <1>2, <2>2
      <3>2. x \in RoutesOf(q) \/ \E w \in WaitsOf(q) : w.call = x
        BY <1>5, <3>1 DEF CallersInv, NoForgottenCaller
      <3> QED BY <1>6, <3>2
    <2> QED BY <2>1, <2>2
  <1>9. \A x \in Live' : view'[routes'[x].client][x] = "open"
    BY <1>1, <1>2, <1>3 DEF CallersInv
  <1>10. \A w \in waiting' : view'[w.client][w.call] = "open"
    BY <1>1, <1>2, <1>4 DEF CallersInv
  <1>11. \A w \in waiting' : w.call \notin RoutesOf(w.client)'
    <2>1. ASSUME NEW w \in waiting, w.call \in RoutesOf(w.client)' PROVE FALSE
      BY <1>4, <2>1 DEF CallersInv, RoutesOf
    <2>2. ASSUME NEW w \in waiting' \ waiting, w.call \in RoutesOf(w.client)' PROVE FALSE
      <3>1. c \in Live /\ routes[c].client = p
        BY <2>2 DEF RoutesOf
      <3> QED BY <1>3, <3>1
    <2> QED BY <2>1, <2>2
  <1>12. \A v, w \in waiting' : v.client = w.client /\ v.call = w.call => v = w
    BY <1>4 DEF CallersInv
  <1>13. \A q \in Client : conn'[q] = "absent" => \A x \in Call : view'[q][x] = "idle"
    BY <1>2 DEF CallersInv
  <1> QED BY <1>7, <1>8, <1>9, <1>10, <1>11, <1>12, <1>13 DEF CallersInv

LEMMA OpenKeepsCallers ==
  ASSUME TypeOK, CallersInv, NEW p \in Client, NEW c \in Call, NEW req \in Request,
         Open(p, c, req)
  PROVE  CallersInv'
  <1>1. conn[p] = "up" /\ view[p][c] = "idle" /\ UNCHANGED conn
    BY DEF Open
  <1>2. CASE Answered(p, c) /\ UNCHANGED <<routes, waiting>>
    BY <1>1, <1>2, AnswerKeepsCallers
  <1>3. CASE OpenJoined(p, c, req)
    <2> DEFINE w == [key |-> KeyOf(req), client |-> p, call |-> c]
    <2>1. /\ Opened(p, c) /\ UNCHANGED routes
          /\ waiting' = waiting \cup {w}
          /\ w.client = p /\ w.call = c
      BY <1>3 DEF OpenJoined
    <2>2. Live' = Live
      BY <2>1 DEF Live
    <2> HIDE DEF w
    <2> QED BY <1>1, <2>1, <2>2, OpenedKeepsCallers
  <1>4. CASE ~Refused(p, c, req) /\ OpenRouted(p, c, req)
    <2>1. PICK e \in Lookup(req) : \E i \in SelectInstance(req, Avoid(e)) :
             /\ c \notin Live
             /\ NewRoute(p, i, req) # None
             /\ routes' = [routes EXCEPT ![c] = NewRoute(p, i, req)]
             /\ Opened(p, c)
             /\ UNCHANGED waiting
      BY <1>4, RoutedStep
    <2>2. PICK i \in SelectInstance(req, Avoid(e)) :
             /\ c \notin Live
             /\ NewRoute(p, i, req) # None
             /\ routes' = [routes EXCEPT ![c] = NewRoute(p, i, req)]
             /\ Opened(p, c)
             /\ UNCHANGED waiting
      BY <2>1
    <2>3. /\ Live' = Live \cup {c}
          /\ routes'[c].client = p
          /\ \A x \in Live : routes'[x] = routes[x]
      BY <2>2 DEF TypeOK, Live, NewRoute
    <2> QED BY <1>1, <2>2, <2>3, OpenedKeepsCallers
  <1> QED BY <1>2, <1>3, <1>4 DEF Open, OpenRefused, OpenReplayed, OpenUnroutable

\* While every frame decodes.
AnswersInv == TypeOK /\ (~Malformed => CallersInv)

LEMMA AnswersStep == AnswersInv /\ [Next]_vars => AnswersInv'
  <1> SUFFICES ASSUME TypeOK, CallersInv, ~Malformed, [Next]_vars PROVE CallersInv'
    BY TypeStep DEF AnswersInv
  <1>0. TypeOK'
    BY TypeStep
  <1>1. CASE /\ Quiet /\ KeepsPeers
             /\ UNCHANGED view \/ \E c \in Live : Send(Callers({c}), FALSE)
    BY <1>1, QuietKeepsCallers
  <1>2. ASSUME NEW p \in Client, NEW c \in Call, MalformedFrame(p, c) PROVE FALSE
    BY <1>2 DEF MalformedFrame
  <1>3. ASSUME NEW p \in Client, NEW c \in Call, ClientCancel(p, c) PROVE CallersInv'
    BY <1>3, CancelKeepsCallers
  <1>4. ASSUME NEW S \in SUBSET Live, NEW K, Ends(S, K) PROVE CallersInv'
    <2>1. /\ EndRoutes(S, K) /\ Send(Told(S, K), TRUE)
          /\ Present' = Present /\ conn' = conn
      BY <1>4 DEF Ends, Told, Present
    <2> QED BY <1>0, <2>1, EndsKeepCallers
  <1>5. ASSUME NEW p \in Peer, Remove(p) PROVE CallersInv'
    <2>1. CASE p \in Client
      BY <1>5, <2>1, LeavingKeepsCallers
    <2>2. CASE p \in Instance
      <3>1. PICK K \in SUBSET DedupKey :
              /\ RoutesWith(p) \in SUBSET Live
              /\ EndRoutes(RoutesWith(p), K)
              /\ Send(Told(RoutesWith(p), K), TRUE)
        BY <1>5, <2>2, RemoveEnds DEF Told
      <3>2. /\ Present' \subseteq Present
            /\ \A q \in Peer : conn[q] # "absent" => conn'[q] # "absent"
        BY <1>5, RemoveLeaves
      <3> QED BY <1>0, <3>1, <3>2, EndsKeepCallers
    <2> QED BY <2>1, <2>2 DEF Peer
  <1>6. ASSUME NEW p \in Client, NEW c \in Call, NEW req \in Request, Open(p, c, req)
        PROVE  CallersInv'
    BY <1>6, OpenKeepsCallers
  <1> QED BY <1>1, <1>2, <1>3, <1>4, <1>5, <1>6, StepKinds

\* While every frame decodes, a caller gets at most one terminal frame for a call
\* and nothing after it, and is not forgotten while its connection lasts, through
\* results, deadlines, cancels, losses, joins and the end of the Router.  (Malformed
\* frames break this: the reader answers them without a look at the routes.)
THEOREM CallersAnsweredOnce ==
  Spec => [](~Malformed => NoStrayFrame /\ NoForgottenCaller)
  <1>1. Init => AnswersInv
    <2> SUFFICES ASSUME Init PROVE CallersInv
      BY TypeInitially DEF AnswersInv
    <2>1. Live = {} /\ waiting = {} /\ \A p \in Client, c \in Call : view[p][c] = "idle"
      BY DEF Init, Live
    <2> QED BY <2>1 DEF CallersInv, NoStrayFrame, NoForgottenCaller
  <1>2. AnswersInv => (~Malformed => NoStrayFrame /\ NoForgottenCaller)
    BY DEF AnswersInv, CallersInv
  <1> QED BY <1>1, <1>2, AnswersStep, PTL DEF Spec

-------------------------------------------------------------------------------
(* Instance ids.                                                           *)

IDsInv == TypeOK /\ InstanceIDsUnique

\* handleRegister refuses an id in use, whether or not its owner drains, and
\* nothing else adds to the table of instances: no id ever has two owners.
THEOREM InstanceIDsCorrect == Spec => []InstanceIDsUnique
  <1>1. Init => IDsInv
    BY TypeInitially DEF IDsInv, Init, InstanceIDsUnique
  <1>2. IDsInv /\ [Next]_vars => IDsInv'
    <2> SUFFICES ASSUME TypeOK, InstanceIDsUnique, [Next]_vars
                 PROVE  InstanceIDsUnique'
      BY TypeStep DEF IDsInv
    <2>1. CASE registered' \subseteq registered
      BY <2>1 DEF InstanceIDsUnique
    <2>2. ASSUME NEW i \in Instance, Register(i) PROVE InstanceIDsUnique'
      <3>1. CASE IDTaken(i)
        BY <2>1, <2>2, <3>1 DEF Register
      <3>2. CASE ~IDTaken(i)
        BY <2>2, <3>2 DEF Register, IDTaken, InstanceIDsUnique
      <3> QED BY <3>1, <3>2
    <2>3. ASSUME NEW p \in Peer, Remove(p) PROVE registered' \subseteq registered
      BY <2>3, RemoveLeaves
    <2>4. ASSUME NEW p \in Client, NEW c \in Call, NEW req \in Request, Open(p, c, req)
          PROVE  UNCHANGED registered
      BY <2>4 DEF Open
    <2>5. ASSUME NEW c, NEW b, FlowViolation(c, b) PROVE UNCHANGED registered
      BY <2>5 DEF FlowViolation
    <2>6. \/ registered' \subseteq registered
          \/ \E i \in Instance : Register(i)
      BY <2>3, <2>4, <2>5
         DEF Next, vars, Connect, Lose, GoAway, Drain, Cooldown, ClientItem, ClientCancel,
             MalformedFrame, ClientWindow, InstanceWindow, InstanceItem, InstanceTerminal,
             Expire, Shutdown, Close
    <2> QED BY <2>1, <2>2, <2>6
  <1>3. IDsInv => InstanceIDsUnique
    BY DEF IDsInv
  <1> QED BY <1>1, <1>2, <1>3, PTL DEF Spec

-------------------------------------------------------------------------------
(* Circuit breakers.                                                       *)

\* What BreakerConsistent says of one breaker.
Consistent(h) ==
  /\ h.state # "closed" <=> h.failures >= Threshold
  /\ h.probing => h.state = "half_open"

LEMMA BreakerIsConsistent ==
  BreakerConsistent <=> \A i \in Instance : Consistent(health[i])
  BY DEF BreakerConsistent, Consistent

\* The three ways in which a breaker changes keep it consistent: the outcome of
\* a call, the end of its cooldown, and a probe let through.
LEMMA ObserveConsistent ==
  ASSUME NEW h \in Health, Consistent(h), NEW ok \in BOOLEAN
  PROVE  Consistent(Observe(h, ok))
  BY LimitsAssumption DEF Health, Consistent, Observe, Closed

LEMMA CooldownConsistent ==
  ASSUME NEW h \in Health, Consistent(h), h.state = "open"
  PROVE  Consistent([h EXCEPT !.state = "half_open"])
  BY DEF Health, Consistent

LEMMA ProbeConsistent ==
  ASSUME NEW h \in Health, Consistent(h), h.state = "half_open"
  PROVE  Consistent([h EXCEPT !.probing = TRUE])
  BY DEF Health, Consistent

\* Every step changes the breakers in one of these ways, or not at all.
LEMMA HealthKinds ==
  ASSUME TypeOK, [Next]_vars
  PROVE  \/ UNCHANGED health
         \/ \E i \in Instance, ok \in BOOLEAN :
              health' = [health EXCEPT ![i] = Observe(@, ok)]
         \/ \E i \in Instance : Cooldown(i)
         \/ \E req \in Request : \E avoid : health' = AfterSelection(req, avoid)
  <1> DEFINE O == \E i \in Instance, ok \in BOOLEAN :
                    health' = [health EXCEPT ![i] = Observe(@, ok)]
             A == \E req \in Request : \E avoid : health' = AfterSelection(req, avoid)
  <1>1. ASSUME NEW c \in Live, NEW b \in BOOLEAN, FlowViolation(c, b)
        PROVE  UNCHANGED health \/ O
    <2>1. routes[c].instance \in Instance
      BY DEF TypeOK, Live, Route
    <2> QED BY <1>1, <2>1 DEF FlowViolation
  <1>2. ASSUME NEW c \in Call, Expire(c) PROVE O
    <2>1. routes[c].instance \in Instance
      BY <1>2 DEF TypeOK, Live, Route, Expire, Overdue
    <2> QED BY <1>2, <2>1 DEF Expire
  <1>3. ASSUME NEW i \in Instance, NEW c \in Call, NEW ok \in BOOLEAN,
               InstanceTerminal(i, c, ok)
        PROVE  O
    BY <1>3 DEF InstanceTerminal
  <1>4. ASSUME NEW p \in Client, NEW c \in Call, NEW req \in Request, Open(p, c, req)
        PROVE  UNCHANGED health \/ A
    BY <1>4 DEF Open, OpenRefused, OpenReplayed, OpenJoined, OpenRouted, OpenUnroutable
  <1> HIDE DEF O, A
  <1>5. ASSUME NEW p \in Client, NEW c \in Call, ClientItem(p, c) PROVE UNCHANGED health \/ O
    <2>1. c \in Live
      BY <1>5 DEF ClientItem, FromClient, RoutesOf
    <2> QED BY <1>1, <1>5, <2>1 DEF ClientItem
  <1>6. ASSUME NEW i \in Instance, NEW c \in Call, InstanceItem(i, c)
        PROVE  UNCHANGED health \/ O
    <2>1. c \in Live
      BY <1>6 DEF InstanceItem, FromInstance, RoutesTo
    <2> QED BY <1>1, <1>6, <2>1 DEF InstanceItem
  <1>7. \/ UNCHANGED health \/ O \/ A
        \/ \E i \in Instance : Cooldown(i)
    BY <1>2, <1>3, <1>4, <1>5, <1>6
       DEF Next, vars, Connect, Lose, GoAway, Remove, Register, Drain, ClientCancel,
           MalformedFrame, ClientWindow, InstanceWindow, Shutdown, Close
  <1> QED BY <1>7 DEF O, A

BreakersInv == TypeOK /\ BreakerConsistent

\* admit, observe and the cooldown together keep every breaker's state, its
\* count of failures and its probe mark in step, in any order of outcomes,
\* timeouts and selections.
THEOREM BreakersCorrect == Spec => []BreakerConsistent
  <1>1. Init => BreakersInv
    BY TypeInitially, LimitsAssumption DEF BreakersInv, Init, BreakerConsistent, Closed
  <1>2. BreakersInv /\ [Next]_vars => BreakersInv'
    <2> SUFFICES ASSUME TypeOK, BreakerConsistent, [Next]_vars,
                        NEW j \in Instance
                 PROVE  Consistent(health'[j])
      BY TypeStep DEF BreakersInv, BreakerConsistent, Consistent
    <2>1. health[j] \in Health /\ Consistent(health[j])
      BY BreakerIsConsistent DEF TypeOK
    <2>2. CASE UNCHANGED health
      BY <2>1, <2>2
    <2>3. ASSUME NEW i \in Instance, NEW ok \in BOOLEAN,
                 health' = [health EXCEPT ![i] = Observe(@, ok)]
          PROVE  Consistent(health'[j])
      BY <2>1, <2>3, ObserveConsistent DEF TypeOK
    <2>4. ASSUME NEW i \in Instance, Cooldown(i) PROVE Consistent(health'[j])
      <3>1. health[i].state = "open" /\ health' = [health EXCEPT ![i].state = "half_open"]
        BY <2>4 DEF Cooldown
      <3>2. CASE i = j
        BY <2>1, <3>1, <3>2, CooldownConsistent DEF TypeOK
      <3>3. CASE i # j
        BY <2>1, <3>1, <3>3 DEF TypeOK
      <3> QED BY <3>2, <3>3
    <2>5. ASSUME NEW req \in Request, NEW avoid, health' = AfterSelection(req, avoid)
          PROVE  Consistent(health'[j])
      BY <2>1, <2>5, ProbeConsistent DEF AfterSelection
    <2> QED BY <2>2, <2>3, <2>4, <2>5, HealthKinds
  <1>3. BreakersInv => BreakerConsistent
    BY DEF BreakersInv
  <1> QED BY <1>1, <1>2, <1>3, PTL DEF Spec

-------------------------------------------------------------------------------
(* The channels of a stopping Router.                                      *)

\* Every step, seen from the drained channel: the routes stay, some end and the
\* last one is noticed, a call is opened by a Router that runs, or the Router
\* changes its stage.
LEMMA DrainKinds ==
  ASSUME TypeOK, [Next]_vars
  PROVE  \/ Live' = Live /\ UNCHANGED <<drained, stage>>
         \/ \E S \in SUBSET Live :
              Live' = Live \ S /\ MarkDrained(S) /\ UNCHANGED stage
         \/ stage = "running" /\ UNCHANGED <<drained, stage>>
         \/ Shutdown /\ Live' = Live
         \/ Close /\ Live' = {}
  <1> DEFINE Same == Live' = Live /\ UNCHANGED <<drained, stage>>
             Some == \E S \in SUBSET Live :
                       Live' = Live \ S /\ MarkDrained(S) /\ UNCHANGED stage
             Runs == stage = "running" /\ UNCHANGED <<drained, stage>>
  <1>1. ASSUME NEW S \in SUBSET Live, NEW K, EndRoutes(S, K), MarkDrained(S),
               UNCHANGED stage
        PROVE  Some
    BY <1>1, EndRoutesLeaves
  <1>2. ASSUME UNCHANGED <<routes, drained, stage>> PROVE Same
    BY <1>2 DEF Live
  <1> HIDE DEF Some
  <1>3. ASSUME NEW c \in Live, NEW b \in BOOLEAN, FlowViolation(c, b) PROVE Some
    BY <1>1, <1>3 DEF FlowViolation
  <1>4. ASSUME NEW p \in Client, NEW c \in Call, ClientItem(p, c) PROVE Same \/ Some
    <2>1. c \in Live /\ 1 \in 1..MaxCredit
      BY <1>4, LimitsAssumption DEF ClientItem, FromClient, RoutesOf
    <2>2. CASE routes[c].clientCredit = 0
      BY <1>3, <1>4, <2>1, <2>2 DEF ClientItem
    <2>3. CASE routes[c].clientCredit # 0
      <3>1. routes' = [routes EXCEPT ![c].clientCredit = @ - 1]
        BY <1>4, <2>3 DEF ClientItem
      <3>2. Live' = Live
        BY <2>1, <2>3, <3>1, CreditStep
      <3> QED BY <1>4, <2>3, <3>2 DEF ClientItem
    <2> QED BY <2>2, <2>3
  <1>5. ASSUME NEW i \in Instance, NEW c \in Call, InstanceItem(i, c) PROVE Same \/ Some
    <2>1. c \in Live /\ 1 \in 1..MaxCredit
      BY <1>5, LimitsAssumption DEF InstanceItem, FromInstance, RoutesTo
    <2>2. CASE routes[c].serverCredit = 0
      BY <1>3, <1>5, <2>1, <2>2 DEF InstanceItem
    <2>3. CASE routes[c].serverCredit # 0
      <3>1. routes' = [routes EXCEPT ![c].serverCredit = @ - 1]
        BY <1>5, <2>3 DEF InstanceItem
      <3>2. Live' = Live
        BY <2>1, <2>3, <3>1, CreditStep
      <3> QED BY <1>5, <2>3, <3>2 DEF InstanceItem
    <2> QED BY <2>2, <2>3
  <1>6. ASSUME NEW p \in Client, NEW c \in Call, NEW n \in 1..MaxCredit, ClientWindow(p, c, n)
        PROVE  Same
    <2>1. c \in Live
      BY <1>6 DEF ClientWindow, FromClient, RoutesOf
    <2>2. Live' = Live
      BY <1>6, <2>1, CreditStep DEF ClientWindow
    <2> QED BY <1>6, <2>2 DEF ClientWindow
  <1>7. ASSUME NEW i \in Instance, NEW c \in Call, NEW n \in 1..MaxCredit,
               InstanceWindow(i, c, n)
        PROVE  Same
    <2>1. c \in Live
      BY <1>7 DEF InstanceWindow, FromInstance, RoutesTo
    <2>2. Live' = Live
      BY <1>7, <2>1, CreditStep DEF InstanceWindow
    <2> QED BY <1>7, <2>2 DEF InstanceWindow
  <1>8. ASSUME NEW p \in Client, NEW c \in Call, ClientCancel(p, c) PROVE Some
    BY <1>1, <1>8, CancelEnds DEF ClientCancel
  <1>9. ASSUME NEW i \in Instance, NEW c \in Call, NEW ok \in BOOLEAN,
               InstanceTerminal(i, c, ok)
        PROVE  Some
    <2>1. c \in Live
      BY <1>9, TerminalEnds
    <2> QED BY <1>1, <1>9, <2>1 DEF InstanceTerminal
  <1>10. ASSUME NEW c \in Call, Expire(c) PROVE Some
    <2>1. c \in Live
      BY <1>10, ExpireEnds
    <2> QED BY <1>1, <1>10, <2>1 DEF Expire
  <1>11. ASSUME NEW p \in Peer, Remove(p) PROVE Some
    <2>1. RoutesWith(p) \in SUBSET Live
      BY DEF RoutesWith
    <2>2. \E K : EndRoutes(RoutesWith(p), K)
      BY <1>11, RemoveEnds
    <2> QED BY <1>1, <1>11, <2>1, <2>2 DEF Remove
  <1>12. ASSUME NEW p \in Client, NEW c \in Call, NEW req \in Request, Open(p, c, req)
         PROVE  Same \/ Runs
    <2>1. CASE OpenRefused(p, c, req)
      BY <1>2, <1>12, <2>1 DEF Open, OpenRefused
    <2>2. CASE ~Refused(p, c, req)
      BY <1>12, <2>2 DEF Open, Refused
    <2> QED BY <1>12, <2>1, <2>2 DEF Open
  <1>13. ASSUME Close PROVE Close /\ Live' = {}
    <2>1. \E K : EndRoutes(Live, K)
      BY <1>13 DEF Close
    <2> QED BY <1>13, <2>1, EndRoutesLeaves
  <1>14. ASSUME Shutdown PROVE Shutdown /\ Live' = Live
    BY <1>14 DEF Shutdown, Live
  <1>15. ASSUME NEW p \in Peer, Connect(p) \/ Lose(p) \/ GoAway(p) PROVE Same
    BY <1>2, <1>15 DEF Connect, Lose, GoAway
  <1>16. ASSUME NEW i \in Instance, Register(i) \/ Drain(i) \/ Cooldown(i) PROVE Same
    BY <1>2, <1>16 DEF Register, Drain, Cooldown
  <1>17. ASSUME NEW p \in Client, NEW c \in Call, MalformedFrame(p, c) PROVE Same
    BY <1>2, <1>17 DEF MalformedFrame
  <1>18. ASSUME UNCHANGED vars PROVE Same
    BY <1>2, <1>18 DEF vars
  <1> HIDE DEF Same, Runs
  <1>19. \/ Same \/ Some \/ Runs
         \/ Shutdown /\ Live' = Live
         \/ Close /\ Live' = {}
    BY <1>4, <1>5, <1>6, <1>7, <1>8, <1>9, <1>10, <1>11, <1>12, <1>13, <1>14, <1>15,
       <1>16, <1>17, <1>18 DEF Next
  <1> QED BY <1>19 DEF Same, Some, Runs

\* Every step, seen from the peersGone channel.
LEMMA PeersKinds ==
  ASSUME TypeOK, [Next]_vars
  PROVE  \/ Present' = Present /\ UNCHANGED <<peersGone, stage>>
         \/ stage # "closed" /\ UNCHANGED <<peersGone, stage>>
         \/ \E p \in Present : /\ Present' = Present \ {p}
                               /\ peersGone' = (peersGone \/ LastPeer(p))
                               /\ UNCHANGED stage
         \/ Shutdown /\ Present' = Present
         \/ Close /\ Present' = Present
  <1> DEFINE Same == Present' = Present /\ UNCHANGED <<peersGone, stage>>
             Goes == \E p \in Present : /\ Present' = Present \ {p}
                                        /\ peersGone' = (peersGone \/ LastPeer(p))
                                        /\ UNCHANGED stage
  <1>1. ASSUME UNCHANGED <<conn, peersGone, stage>> PROVE Same
    BY <1>1 DEF Present
  <1>2. ASSUME NEW p \in Peer, Lose(p) \/ GoAway(p) PROVE Same
    BY <1>2 DEF Lose, GoAway, Present, TypeOK
  <1>3. ASSUME NEW p \in Peer, Connect(p)
        PROVE  stage # "closed" /\ UNCHANGED <<peersGone, stage>>
    BY <1>3 DEF Connect
  <1>4. ASSUME NEW p \in Peer, Remove(p) PROVE Goes
    <2>1. p \in Present
      BY <1>4 DEF Remove, Present
    <2> QED BY <1>4, <2>1, RemoveLeaves DEF Remove
  <1>5. ASSUME NEW i \in Instance, Register(i) PROVE Same
    BY <1>5 DEF Register, Present, TypeOK, Peer
  <1>6. ASSUME NEW c, NEW b, FlowViolation(c, b) PROVE UNCHANGED <<conn, peersGone, stage>>
    BY <1>6 DEF FlowViolation
  <1>7. ASSUME Shutdown \/ Close PROVE Present' = Present
    BY <1>7 DEF Shutdown, Close, Present
  <1>8. ASSUME NEW p \in Client, NEW c \in Call, NEW req \in Request, Open(p, c, req)
        PROVE  UNCHANGED <<conn, peersGone, stage>>
    BY <1>8 DEF Open
  <1> HIDE DEF Same, Goes
  <1>9. \/ Same \/ Goes
        \/ stage # "closed" /\ UNCHANGED <<peersGone, stage>>
        \/ Shutdown /\ Present' = Present
        \/ Close /\ Present' = Present
        \/ UNCHANGED <<conn, peersGone, stage>>
    BY <1>2, <1>3, <1>4, <1>5, <1>6, <1>7, <1>8
       DEF Next, vars, Drain, Cooldown, ClientItem, ClientCancel, MalformedFrame,
           ClientWindow, InstanceWindow, InstanceItem, InstanceTerminal, Expire
  <1> QED BY <1>1, <1>9 DEF Same, Goes

ChannelsInv == TypeOK /\ ChannelsMeanWhatTheySay

\* Each of the two channels is closed by whichever of several steps comes last
\* (Shutdown, Close, the end of a route, the removal of a peer): none of them
\* closes it early and none leaves it open.
THEOREM ChannelsCorrect == Spec => []ChannelsMeanWhatTheySay
  <1>1. Init => ChannelsInv
    BY TypeInitially DEF ChannelsInv, Init, ChannelsMeanWhatTheySay
  <1>2. ChannelsInv /\ [Next]_vars => ChannelsInv'
    <2> SUFFICES ASSUME TypeOK, ChannelsMeanWhatTheySay, [Next]_vars
                 PROVE  ChannelsMeanWhatTheySay'
      BY TypeStep DEF ChannelsInv
    <2>0. TypeOK'
      BY TypeStep
    <2>1. (drained <=> (stage # "running" /\ Live = {}))'
      <3>1. CASE Live' = Live /\ UNCHANGED <<drained, stage>>
        BY <3>1 DEF ChannelsMeanWhatTheySay
      <3>2. ASSUME NEW S \in SUBSET Live, Live' = Live \ S, MarkDrained(S), UNCHANGED stage
            PROVE  (drained <=> (stage # "running" /\ Live = {}))'
        <4>1. drained' <=> (drained \/ (stage # "running" /\ S # {} /\ Live \subseteq S))
          BY <3>2 DEF MarkDrained, TypeOK
        <4>2. Live' = {} <=> Live \subseteq S
          BY <3>2
        <4>3. Live \subseteq S /\ S = {} => Live = {}
          OBVIOUS
        <4>4. Live = {} => Live' = {}
          BY <3>2
        <4> QED BY <3>2, <4>1, <4>2, <4>3, <4>4 DEF ChannelsMeanWhatTheySay
      <3>3. CASE stage = "running" /\ UNCHANGED <<drained, stage>>
        BY <3>3 DEF ChannelsMeanWhatTheySay
      <3>4. CASE Shutdown /\ Live' = Live
        BY <3>4 DEF Shutdown
      <3>5. CASE Close /\ Live' = {}
        BY <3>5 DEF Close
      <3> QED BY <3>1, <3>2, <3>3, <3>4, <3>5, DrainKinds
    <2>2. (peersGone <=> (stage = "closed" /\ Present = {}))'
      <3>1. CASE Present' = Present /\ UNCHANGED <<peersGone, stage>>
        BY <3>1 DEF ChannelsMeanWhatTheySay
      <3>2. CASE stage # "closed" /\ UNCHANGED <<peersGone, stage>>
        BY <3>2 DEF ChannelsMeanWhatTheySay
      <3>3. ASSUME NEW p \in Present, Present' = Present \ {p}, UNCHANGED stage,
                   peersGone' = (peersGone \/ LastPeer(p))
            PROVE  (peersGone <=> (stage = "closed" /\ Present = {}))'
        <4>1. Present' = {} <=> Present = {p}
          BY <3>3
        <4>2. peersGone' <=> (peersGone \/ (stage = "closed" /\ Present = {p}))
          BY <3>3 DEF LastPeer, TypeOK
        <4>3. ~peersGone
          BY <3>3 DEF ChannelsMeanWhatTheySay
        <4> QED BY <3>3, <4>1, <4>2, <4>3
      <3>4. CASE Shutdown /\ Present' = Present
        BY <3>4 DEF Shutdown, ChannelsMeanWhatTheySay
      <3>5. CASE Close /\ Present' = Present
        BY <3>5 DEF Close
      <3> QED BY <3>1, <3>2, <3>3, <3>4, <3>5, PeersKinds
    <2> QED BY <2>1, <2>2 DEF ChannelsMeanWhatTheySay
  <1>3. ChannelsInv => ChannelsMeanWhatTheySay
    BY DEF ChannelsInv
  <1> QED BY <1>1, <1>2, <1>3, PTL DEF Spec

-------------------------------------------------------------------------------
(* No new work for those who leave.                                        *)

\* forward refuses calls while the Router stops and selection passes over
\* draining instances, targeted or not; nothing else adds routes or waiters.
THEOREM LeavingGetsNoWork == Spec => NoNewWorkWhenLeaving
  <1> DEFINE A == /\ \A i \in draining : RoutesTo(i)' \subseteq RoutesTo(i)
                  /\ stage # "running" => Live' \subseteq Live /\ waiting' \subseteq waiting
  <1>1. ASSUME TypeOK, [Next]_vars PROVE A
    <2>1. ASSUME Live' \subseteq Live, waiting' \subseteq waiting,
                 \A c \in Live' : routes'[c].instance = routes[c].instance
          PROVE  A
      BY <2>1 DEF RoutesTo
    <2>2. CASE Quiet
      BY <2>1, <2>2 DEF Quiet
    <2>3. ASSUME UNCHANGED <<routes, waiting>> PROVE A
      BY <2>1, <2>3 DEF Live
    <2>4. ASSUME NEW S \in SUBSET Live, NEW K, EndRoutes(S, K) PROVE A
      <3>1. /\ Live' = Live \ S /\ \A c \in Live \ S : routes'[c] = routes[c]
            /\ waiting' = {w \in waiting : w.key \notin K}
        BY <1>1, <2>4, EndRoutesLeaves
      <3> QED BY <2>1, <3>1
    <2>5. ASSUME NEW p \in Client, NEW c \in Call, ClientCancel(p, c) PROVE A
      BY <1>1, <2>4, <2>5, CancelEnds
    <2>6. ASSUME NEW p \in Peer, Remove(p) PROVE A
      BY <1>1, <2>4, <2>6, RemoveEnds
    <2>7. ASSUME NEW p \in Client, NEW c \in Call, NEW req \in Request, Open(p, c, req)
          PROVE  A
      <3>1. CASE UNCHANGED <<routes, waiting>>
        BY <2>3, <3>1
      <3>2. CASE ~Refused(p, c, req) /\ OpenJoined(p, c, req)
        BY <3>2 DEF Refused, OpenJoined, RoutesTo, Live
      <3>3. CASE ~Refused(p, c, req) /\ OpenRouted(p, c, req)
        <4>1. PICK e, i : /\ i \in SelectInstance(req, Avoid(e))
                          /\ NewRoute(p, i, req) # None
                          /\ routes' = [routes EXCEPT ![c] = NewRoute(p, i, req)]
          BY <1>1, <2>7, <3>3, RoutedStep
        <4>2. i \notin draining
          BY <1>1, <4>1, SelectionIsRegistered
        <4>3. routes'[c].instance = i /\ \A x \in Call \ {c} : routes'[x] = routes[x]
          BY <1>1, <4>1 DEF TypeOK, NewRoute
        <4>4. \A j \in draining : RoutesTo(j)' \subseteq RoutesTo(j)
          BY <4>2, <4>3 DEF RoutesTo, Live
        <4> QED BY <3>3, <4>4 DEF Refused
      <3> QED BY <2>7, <3>1, <3>2, <3>3
              DEF Open, OpenRefused, OpenReplayed, OpenUnroutable
    <2>8. ASSUME NEW S \in SUBSET Live, NEW K, Ends(S, K) PROVE A
      BY <2>4, <2>8 DEF Ends
    <2>9. ASSUME NEW p \in Client, NEW c \in Call, MalformedFrame(p, c) PROVE A
      BY <2>3, <2>9 DEF MalformedFrame
    <2> HIDE DEF A
    <2> QED BY <1>1, <2>2, <2>5, <2>6, <2>7, <2>8, <2>9, StepKinds
  <1> QED BY <1>1, TypeCorrect, PTL DEF Spec, NoNewWorkWhenLeaving

-------------------------------------------------------------------------------
(* Nobody is forgotten.                                                    *)

\* A client that has yet to connect has opened nothing.
NothingBeforeConnect ==
  \A p \in Client : conn[p] = "absent" => \A c \in Call : view[p][c] = "idle"

RememberInv == TypeOK /\ NoForgottenCaller /\ NothingBeforeConnect

\* Frames open no call, reach no absent client, and a terminal frame closes the
\* call at a caller that is there.
LEMMA SendOpensNothing ==
  ASSUME TypeOK, NEW to, NEW t \in BOOLEAN, Send(to, t), NEW p \in Client, NEW c \in Call
  PROVE  /\ view'[p][c] = "open" => view[p][c] = "open"
         /\ conn[p] = "absent" => view'[p][c] = view[p][c]
         /\ (t /\ <<p, c>> \in to /\ p \in Present) => view'[p][c] # "open"
  <1>1. p \in Present <=> conn[p] \in {"up", "lost"}
    BY DEF Present, Peer
  <1> QED BY <1>1 DEF Send, Receive, TypeOK

\* A caller whose call ends with others, or whose waiter is released, is told.
LEMMA EndsForgetNobody ==
  ASSUME RememberInv, NEW S \in SUBSET Live, NEW K, EndRoutes(S, K),
         Send(Callers(S) \cup Joined(K), TRUE), Present' \subseteq Present,
         \A q \in Peer : conn[q] # "absent" => conn'[q] # "absent"
  PROVE  NoForgottenCaller' /\ NothingBeforeConnect'
  <1>0. TypeOK
    BY DEF RememberInv
  <1>1. /\ Live' = Live \ S
        /\ \A c \in Live \ S : routes'[c] = routes[c]
        /\ waiting' = {w \in waiting : w.key \notin K}
    BY <1>0, EndRoutesLeaves
  <1>2. ASSUME NEW p \in Client \cap Present', NEW c \in Call, view'[p][c] = "open"
        PROVE  c \in RoutesOf(p)' \/ \E w \in WaitsOf(p)' : w.call = c
    <2>1. p \in Present /\ view[p][c] = "open" /\ <<p, c>> \notin Callers(S) \cup Joined(K)
      BY <1>0, <1>2, SendOpensNothing
    <2>2. CASE c \in RoutesOf(p)
      BY <1>1, <2>1, <2>2 DEF RoutesOf, Callers
    <2>3. ASSUME NEW w \in WaitsOf(p), w.call = c PROVE w \in WaitsOf(p)'
      BY <1>1, <2>1, <2>3 DEF WaitsOf, Joined
    <2> QED BY <2>1, <2>2, <2>3 DEF RememberInv, NoForgottenCaller
  <1>3. NothingBeforeConnect'
    <2> SUFFICES ASSUME NEW p \in Client, conn'[p] = "absent", NEW c \in Call
                 PROVE  view'[p][c] = "idle"
      BY DEF NothingBeforeConnect
    <2>1. conn[p] = "absent"
      BY DEF Peer
    <2>2. view[p][c] = "idle"
      BY <2>1 DEF RememberInv, NothingBeforeConnect
    <2>3. view'[p][c] = view[p][c]
      BY <1>0, <2>1, SendOpensNothing
    <2> QED BY <2>2, <2>3
  <1> QED BY <1>2, <1>3 DEF NoForgottenCaller

\* A step that records one answer, or one opened call that is then routed or
\* joined, forgets nobody.
LEMMA OneViewForgetsNobody ==
  ASSUME RememberInv, NEW p \in Client, NEW c \in Call, conn[p] = "up", UNCHANGED conn,
         \A q \in Client, x \in Call : ~(q = p /\ x = c) => view'[q][x] = view[q][x],
         \A x \in Live \ {c} : x \in Live' /\ routes'[x].client = routes[x].client,
         \A q \in Client : c \in RoutesOf(q) /\ q # p => c \in RoutesOf(q)',
         waiting \subseteq waiting',
         view'[p][c] = "open" =>
           c \in RoutesOf(p)' \/ \E w \in WaitsOf(p)' : w.call = c
  PROVE  NoForgottenCaller' /\ NothingBeforeConnect'
  <1>1. Present' = Present
    BY DEF Present
  <1>2. ASSUME NEW q \in Client \cap Present', NEW x \in Call, view'[q][x] = "open"
        PROVE  x \in RoutesOf(q)' \/ \E w \in WaitsOf(q)' : w.call = x
    <2>1. CASE q = p /\ x = c
      BY <1>2, <2>1
    <2>2. CASE ~(q = p /\ x = c)
      <3>1. q \in Client \cap Present /\ view[q][x] = "open"
        BY <1>1, <1>2, <2>2
      <3>2. CASE x \in RoutesOf(q)
        BY <2>2, <3>2 DEF RoutesOf
      <3>3. CASE \E w \in WaitsOf(q) : w.call = x
        BY <3>3 DEF WaitsOf
      <3> QED BY <3>1, <3>2, <3>3 DEF RememberInv, NoForgottenCaller
    <2> QED BY <2>1, <2>2
  <1>3. NothingBeforeConnect'
    BY DEF RememberInv, NothingBeforeConnect
  <1> QED BY <1>2, <1>3 DEF NoForgottenCaller

LEMMA OpenForgetsNobody ==
  ASSUME RememberInv, NEW p \in Client, NEW c \in Call, NEW req \in Request, Open(p, c, req)
  PROVE  NoForgottenCaller' /\ NothingBeforeConnect'
  <1>0. TypeOK /\ conn[p] = "up" /\ UNCHANGED conn
    BY DEF RememberInv, Open
  <1>1. ASSUME Opened(p, c) \/ Answered(p, c)
        PROVE  \A q \in Client, x \in Call : ~(q = p /\ x = c) => view'[q][x] = view[q][x]
    BY <1>0, <1>1 DEF Opened, Answered, TypeOK
  <1>2. CASE Answered(p, c) /\ UNCHANGED <<routes, waiting>>
    <2>1. view'[p][c] # "open"
      BY <1>0, <1>2 DEF Answered, TypeOK
    <2>2. Live' = Live /\ \A q \in Client : RoutesOf(q)' = RoutesOf(q)
      BY <1>2 DEF Live, RoutesOf
    <2> QED BY <1>0, <1>1, <1>2, <2>1, <2>2, OneViewForgetsNobody
  <1>3. CASE OpenJoined(p, c, req)
    <2>1. Live' = Live /\ \A q \in Client : RoutesOf(q)' = RoutesOf(q)
      BY <1>3 DEF OpenJoined, Live, RoutesOf
    <2>2. \E w \in WaitsOf(p)' : w.call = c
      <3> DEFINE w == [key |-> KeyOf(req), client |-> p, call |-> c]
      <3>1. w \in waiting' /\ w.client = p /\ w.call = c
        BY <1>3 DEF OpenJoined
      <3> QED BY <3>1 DEF WaitsOf
    <2>3. UNCHANGED routes /\ waiting \subseteq waiting' /\ Opened(p, c)
      BY <1>3 DEF OpenJoined
    <2> QED BY <1>0, <1>1, <2>1, <2>2, <2>3, OneViewForgetsNobody
  <1>4. CASE ~Refused(p, c, req) /\ OpenRouted(p, c, req)
    <2>1. PICK i : /\ c \notin Live
                   /\ NewRoute(p, i, req) # None
                   /\ routes' = [routes EXCEPT ![c] = NewRoute(p, i, req)]
                   /\ Opened(p, c)
                   /\ UNCHANGED waiting
      BY <1>0, <1>4, RoutedStep
    <2>2. routes'[c] # None /\ routes'[c].client = p
      BY <1>0, <2>1 DEF TypeOK, NewRoute
    <2>3. \A x \in Call \ {c} : routes'[x] = routes[x]
      BY <1>0, <2>1 DEF TypeOK
    <2>4. c \in RoutesOf(p)' /\ \A q \in Client : c \notin RoutesOf(q)
      BY <2>1, <2>2 DEF RoutesOf, Live
    <2>5. \A x \in Live \ {c} : x \in Live' /\ routes'[x].client = routes[x].client
      BY <2>3 DEF Live
    <2> QED BY <1>0, <1>1, <2>1, <2>4, <2>5, OneViewForgetsNobody
  <1> QED BY <1>2, <1>3, <1>4
          DEF Open, OpenRefused, OpenReplayed, OpenUnroutable

\* A step after which no call of the tables is missing and no view is open that
\* was not.
LEMMA QuietForgetsNobody ==
  ASSUME RememberInv, Quiet, KeepsPeers,
         UNCHANGED view \/ \E c \in Live : Send(Callers({c}), FALSE)
  PROVE  NoForgottenCaller' /\ NothingBeforeConnect'
  <1>0. TypeOK
    BY DEF RememberInv
  <1>1. ASSUME NEW p \in Client, NEW c \in Call
        PROVE  /\ view'[p][c] = "open" => view[p][c] = "open"
               /\ conn[p] = "absent" => view'[p][c] = view[p][c]
    BY <1>0, SendOpensNothing
  <1>2. \A p \in Client : RoutesOf(p)' = RoutesOf(p) /\ WaitsOf(p)' = WaitsOf(p)
    BY DEF Quiet, RoutesOf, WaitsOf
  <1>3. ASSUME NEW p \in Client \cap Present', NEW c \in Call, view'[p][c] = "open"
        PROVE  p \in Present /\ view[p][c] = "open"
    BY <1>1, <1>3 DEF KeepsPeers, RememberInv, NothingBeforeConnect, Present
  <1>4. NothingBeforeConnect'
    BY <1>1 DEF KeepsPeers, RememberInv, NothingBeforeConnect, Peer
  <1> QED BY <1>2, <1>3, <1>4 DEF RememberInv, NoForgottenCaller

LEMMA RememberStep == RememberInv /\ [Next]_vars => RememberInv'
  <1> DEFINE Goal == NoForgottenCaller' /\ NothingBeforeConnect'
  <1> SUFFICES ASSUME RememberInv, [Next]_vars PROVE Goal
    BY TypeStep DEF RememberInv
  <1>0. TypeOK
    BY DEF RememberInv
  <1>1. CASE /\ Quiet /\ KeepsPeers
             /\ UNCHANGED view \/ \E c \in Live : Send(Callers({c}), FALSE)
    BY <1>1, QuietForgetsNobody
  <1>2. ASSUME NEW p \in Client, NEW c \in Call, MalformedFrame(p, c) PROVE Goal
    <2>1. /\ conn[p] = "up" /\ UNCHANGED <<conn, routes, waiting>>
          /\ view'[p][c] # "open"
          /\ \A q \in Client, x \in Call : ~(q = p /\ x = c) => view'[q][x] = view[q][x]
      BY <1>0, <1>2 DEF MalformedFrame, Answered, TypeOK
    <2>2. Live' = Live /\ \A q \in Client : RoutesOf(q)' = RoutesOf(q)
      BY <2>1 DEF Live, RoutesOf
    <2> QED BY <2>1, <2>2, OneViewForgetsNobody
  <1>3. ASSUME NEW p \in Client, NEW c \in Call, ClientCancel(p, c) PROVE Goal
    <2>1. /\ c \in Live /\ routes[c].client = p
          /\ EndRoutes({c}, {}) /\ UNCHANGED conn
      BY <1>0, <1>3, CancelEnds
    <2>2. /\ Live' = Live \ {c} /\ \A x \in Live \ {c} : routes'[x] = routes[x]
          /\ waiting' = waiting
      <3>1. waiting' = {w \in waiting : w.key \notin {}}
        BY <2>1 DEF EndRoutes, ReleaseWaiters
      <3> QED BY <1>0, <2>1, <3>1, EndRoutesLeaves
    <2>3. /\ conn[p] = "up" /\ view'[p][c] # "open"
          /\ \A q \in Client, x \in Call : ~(q = p /\ x = c) => view'[q][x] = view[q][x]
      BY <1>0, <1>3 DEF ClientCancel, FromClient, Answered, TypeOK
    <2>4. \A q \in Client : q # p => c \notin RoutesOf(q)
      BY <2>1 DEF RoutesOf
    <2> QED BY <2>1, <2>2, <2>3, <2>4, OneViewForgetsNobody
  <1>4. ASSUME NEW S \in SUBSET Live, NEW K, Ends(S, K) PROVE Goal
    <2>1. Present' = Present
      BY <1>4 DEF Ends, Present
    <2> QED BY <1>4, <2>1, EndsForgetNobody DEF Ends
  <1>5. ASSUME NEW p \in Peer, Remove(p) PROVE Goal
    <2>1. PICK K : /\ RoutesWith(p) \in SUBSET Live
                   /\ EndRoutes(RoutesWith(p), K)
                   /\ p \in Instance => Send(Callers(RoutesWith(p)) \cup Joined(K), TRUE)
                   /\ p \notin Instance => K = {} /\ Send({}, TRUE)
      BY <1>0, <1>5, RemoveEnds
    <2>2. /\ Present' = Present \ {p}
          /\ \A q \in Peer : conn[q] # "absent" => conn'[q] # "absent"
      BY <1>0, <1>5, RemoveLeaves
    <2>3. CASE p \in Instance
      BY <2>1, <2>2, <2>3, EndsForgetNobody
    <2>4. CASE p \notin Instance
      <3>1. /\ Live' = Live \ RoutesWith(p)
            /\ \A c \in Live \ RoutesWith(p) : routes'[c] = routes[c]
            /\ waiting' = waiting
        <4>1. waiting' = {w \in waiting : w.key \notin {}}
          BY <1>0, <2>1, <2>4, EndRoutesLeaves
        <4> QED BY <1>0, <2>1, <2>4, <4>1, EndRoutesLeaves
      <3>2. \A c \in RoutesWith(p) : routes[c].client = p
        BY <1>0, <2>4 DEF RoutesWith, Live, TypeOK, Route
      <3>3. ASSUME NEW q \in Client \cap Present', NEW c \in Call, view'[q][c] = "open"
            PROVE  c \in RoutesOf(q)' \/ \E w \in WaitsOf(q)' : w.call = c
        <4>1. q # p /\ q \in Present /\ view[q][c] = "open"
          BY <1>0, <2>1, <2>2, <2>4, <3>3, SendOpensNothing
        <4>2. CASE c \in RoutesOf(q)
          BY <3>1, <3>2, <4>1, <4>2 DEF RoutesOf
        <4>3. CASE \E w \in WaitsOf(q) : w.call = c
          BY <3>1, <4>3 DEF WaitsOf
        <4> QED BY <4>1, <4>2, <4>3 DEF RememberInv, NoForgottenCaller
      <3>4. NothingBeforeConnect'
        <4> SUFFICES ASSUME NEW q \in Client, conn'[q] = "absent", NEW c \in Call
                     PROVE  view'[q][c] = "idle"
          BY DEF NothingBeforeConnect
        <4>1. conn[q] = "absent"
          BY <2>2 DEF Peer
        <4>2. view[q][c] = "idle"
          BY <4>1 DEF RememberInv, NothingBeforeConnect
        <4>3. view'[q][c] = view[q][c]
          BY <1>0, <2>1, <2>4, <4>1, SendOpensNothing
        <4> QED BY <4>2, <4>3
      <3> QED BY <3>3, <3>4 DEF NoForgottenCaller
    <2> QED BY <2>3, <2>4
  <1>6. ASSUME NEW p \in Client, NEW c \in Call, NEW req \in Request, Open(p, c, req)
        PROVE  Goal
    BY <1>6, OpenForgetsNobody
  <1> HIDE DEF Goal
  <1> QED BY <1>0, <1>1, <1>2, <1>3, <1>4, <1>5, <1>6, StepKinds

LEMMA RememberInitially == Init => RememberInv
  BY TypeInitially DEF RememberInv, Init, NoForgottenCaller, NothingBeforeConnect, Present

\* No order of results, losses, deadlines, cancels, malformed frames and
\* shutdown makes the Router lose track of a call that its caller still waits
\* for: malformed frames, which may make it answer twice, included.
THEOREM CallersRemembered == Spec => []NoForgottenCaller
  <1>1. RememberInv => NoForgottenCaller
    BY DEF RememberInv
  <1> QED BY <1>1, RememberInitially, RememberStep, PTL DEF Spec

\* Because the counters are exact and nobody is forgotten, a counter of zero is
\* enough for the writer to close a connection during the drain.
THEOREM GoAwayCorrect == Spec => GoAwayOwesNothing
  <1> DEFINE A == \A p \in Peer : (stage = "draining" /\ GoAway(p)) =>
                    /\ p \in Client => \A c \in Call : view[p][c] # "open"
                    /\ p \in Instance => RoutesTo(p) = {}
  <1>1. ASSUME CountersInv, RememberInv PROVE A
    <2> SUFFICES ASSUME NEW p \in Peer, stage = "draining", GoAway(p)
                 PROVE  /\ p \in Client => \A c \in Call : view[p][c] # "open"
                        /\ p \in Instance => RoutesTo(p) = {}
      OBVIOUS
    <2>0. TypeOK /\ conn[p] = "up" /\ Idle(p)
      BY <1>1 DEF GoAway, RememberInv
    <2>1. ASSUME p \in Client PROVE \A c \in Call : view[p][c] # "open"
      <3>1. /\ RoutesOf(p) \in SUBSET Call /\ WaitsOf(p) \in SUBSET waiting
            /\ Cardinality(RoutesOf(p)) + Cardinality(WaitsOf(p)) = 0
        BY <1>1, <2>0, <2>1 DEF CountersInv, CountersExact, Idle, RoutesOf, WaitsOf, Live
      <3>2. /\ IsFiniteSet(RoutesOf(p)) /\ Cardinality(RoutesOf(p)) = 0
            /\ IsFiniteSet(WaitsOf(p)) /\ Cardinality(WaitsOf(p)) = 0
        <4>1. IsFiniteSet(RoutesOf(p)) /\ Cardinality(RoutesOf(p)) \in Nat
          BY <3>1, CallSetsFinite
        <4>2. IsFiniteSet(WaitsOf(p)) /\ Cardinality(WaitsOf(p)) \in Nat
          BY <2>0, <3>1, WaiterSetsFinite
        <4> QED BY <3>1, <4>1, <4>2
      <3>3. RoutesOf(p) = {} /\ WaitsOf(p) = {}
        BY <3>2, FS_EmptySet
      <3>4. p \in Client \cap Present
        BY <2>0, <2>1 DEF Present
      <3> QED BY <1>1, <3>3, <3>4 DEF RememberInv, NoForgottenCaller
    <2>2. ASSUME p \in Instance PROVE RoutesTo(p) = {}
      <3>1. RoutesTo(p) \in SUBSET Call /\ Cardinality(RoutesTo(p)) = 0
        BY <1>1, <2>0, <2>2, PeersAssumption
           DEF CountersInv, CountersExact, Idle, RoutesTo, Live
      <3>2. IsFiniteSet(RoutesTo(p))
        BY <3>1, CallSetsFinite
      <3> QED BY <3>1, <3>2, FS_EmptySet
    <2> QED BY <2>1, <2>2
  <1> QED BY <1>1, CountersInitially, CountersStep, RememberInitially, RememberStep, PTL
          DEF Spec, GoAwayOwesNothing

===============================================================================

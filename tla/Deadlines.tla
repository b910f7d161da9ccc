----------------------------- MODULE Deadlines -----------------------------
(***************************************************************************)
(* Call deadlines of the Router (internal/router/deadline.go): one heap    *)
(* over every routed call with a timeout, and one goroutine, expireLoop,   *)
(* that sleeps on one timer until the first of them is due.                *)
(*                                                                         *)
(* RouterCore has what an overdue call does to the rest of the Router;     *)
(* this module has what RouterCore takes on trust: that a call becomes     *)
(* overdue at the right time.  The heap is kept as the code keeps it, an   *)
(* array in which every route knows its own index (from 0; -1 when it is   *)
(* not in the heap), because untrack removes by that index.  The loop      *)
(* holds Router.mu only while it looks at the heap: it computes how long   *)
(* to sleep, lets go of the lock, and arms its timer afterwards.           *)
(*                                                                         *)
(* Time passes in ticks.  A duration is a signed word of Width bits, as    *)
(* time.Duration is one of 64: timeout_ms is multiplied by the ticks of a  *)
(* millisecond, and the product and the sum with the grace wrap.           *)
(***************************************************************************)
EXTENDS Integers, Sequences, FiniteSets

CONSTANTS
    Routes,       \* the routes that may be opened, each of them once
    Timeouts,     \* the values of timeout_ms that a call.open may carry
    NoTimeout,    \* a call.open without timeout_ms
    Millisecond,  \* ticks in a millisecond
    Grace,        \* config.DeadlineGrace, in ticks
    Hour,         \* how long the loop sleeps over an empty heap, in ticks
    Width,        \* bits of a time.Duration
    MaxTime,      \* bound: the clock stops here
    MaxLag        \* bound: ticks between the loop's look and its Reset

\* What is assumed of the constants, wherever they are given.
DeadlinesAssumption ==
    /\ IsFiniteSet(Routes)
    /\ Timeouts \subseteq Nat \ {0}
    /\ {Millisecond, Grace, Hour, Width} \subseteq Nat \ {0}
    /\ {MaxTime, MaxLag} \subseteq Nat
    /\ NoTimeout \notin Timeouts
    /\ 2^(Width - 1) \in Nat \ {0} /\ 2^Width = 2 * 2^(Width - 1)  \* arithmetic

VARIABLES
    now,        \* the clock
    status,     \* [Routes -> {"new", "live", "over"}]
    asked,      \* [Routes -> timeout_ms of the call.open, or NoTimeout]
    opened,     \* [Routes -> the time at which it was routed]
    deadlines,  \* the heap: a sequence of routes, heap[1] the first
    index,      \* [Routes -> position in the heap from 0, or -1]
    deadline,   \* [Routes -> Int]
    woken,      \* deadlineWake, a channel of one token
    loop,       \* where expireLoop is: "look", "arm", "sleep" or "gone"
    next,       \* how long it found it may sleep
    aim,        \* the time it meant to wake at when it computed next
    lag,        \* ticks since it looked at the heap
    timer,      \* [due |-> Int, set |-> BOOLEAN, fired |-> BOOLEAN]
    closed      \* ctx.Done()

heapVars == <<deadlines, index, deadline>>
loopVars == <<loop, next, aim, lag, timer>>
vars == <<now, status, asked, opened, heapVars, woken, loopVars, closed>>

TypeOK ==
    /\ now \in 0..MaxTime
    /\ status \in [Routes -> {"new", "live", "over"}]
    /\ asked \in [Routes -> Timeouts \cup {NoTimeout}]
    /\ opened \in [Routes -> 0..MaxTime]
    /\ deadlines \in UNION {[1..n -> Routes] : n \in 0..Cardinality(Routes)}
    /\ index \in [Routes -> -1..(Cardinality(Routes) - 1)]
    /\ DOMAIN deadline = Routes
    /\ \A rt \in Routes : deadline[rt] \in Int
    /\ woken \in BOOLEAN /\ closed \in BOOLEAN
    /\ loop \in {"look", "arm", "sleep", "gone"}
    /\ lag \in 0..MaxLag
    /\ timer.set \in BOOLEAN /\ timer.fired \in BOOLEAN

-----------------------------------------------------------------------------
(* The heap.  H is [h |-> the array, idx |-> index, dl |-> deadline].      *)

Less(H, i, j) == H.dl[H.h[i]] < H.dl[H.h[j]]

Swap(H, i, j) ==
    [h |-> [H.h EXCEPT ![i] = H.h[j], ![j] = H.h[i]],
     idx |-> [H.idx EXCEPT ![H.h[i]] = j - 1, ![H.h[j]] = i - 1],
     dl |-> H.dl]

Pushed(H, rt) ==
    [h |-> Append(H.h, rt), idx |-> [H.idx EXCEPT ![rt] = Len(H.h)], dl |-> H.dl]

Popped(H) ==
    LET n == Len(H.h)
    IN  [h |-> SubSeq(H.h, 1, n - 1), idx |-> [H.idx EXCEPT ![H.h[n]] = -1],
         dl |-> [H.dl EXCEPT ![H.h[n]] = 0]]

\* container/heap: what it does with Less, Swap, Push and Pop.  Positions
\* here count from 1, so the parent of j is j \div 2.
\* One round of up, and the round of down among the first n, on the heap and
\* the position `at` of the route that is moving; a round that finds it in its
\* place changes nothing. A route rises at most j times and sinks at most n.
Rise(s) ==
    IF s.at = 1 \/ ~Less(s.heap, s.at, s.at \div 2) THEN s
    ELSE [heap |-> Swap(s.heap, s.at \div 2, s.at), at |-> s.at \div 2]

Up(H, j) ==
    LET up[k \in Nat] == IF k = 0 THEN [heap |-> H, at |-> j] ELSE Rise(up[k - 1])
    IN  up[j].heap

\* The smaller child of i among the first n.
Child(H, i, n) ==
    IF 2 * i + 1 <= n /\ Less(H, 2 * i + 1, 2 * i) THEN 2 * i + 1 ELSE 2 * i

Sink(s, n) ==
    LET c == Child(s.heap, s.at, n)
    IN  IF 2 * s.at > n \/ ~Less(s.heap, c, s.at) THEN s
        ELSE [heap |-> Swap(s.heap, s.at, c), at |-> c]

Down(H, i, n) ==
    LET down[k \in Nat] == IF k = 0 THEN [heap |-> H, at |-> i] ELSE Sink(down[k - 1], n)
    IN  down[n].heap

HeapPush(H, rt) == Up(Pushed(H, rt), Len(H.h) + 1)

HeapPop(H) == Popped(Down(Swap(H, 1, Len(H.h)), 1, Len(H.h) - 1))

\* Remove the one at position i: the last takes its place and sinks, or else
\* rises.
HeapRemove(H, i) ==
    LET n == Len(H.h)
        S == Swap(H, i, n)
        D == Down(S, i, n - 1)
    IN  IF i = n THEN Popped(H)
        ELSE Popped(IF D /= S THEN D ELSE Up(S, i))

Heap == [h |-> deadlines, idx |-> index, dl |-> deadline]

SetHeap(H) == deadlines' = H.h /\ index' = H.idx /\ deadline' = H.dl

-----------------------------------------------------------------------------
(* Durations. *)

Wrap(d) == ((d + 2^(Width - 1)) % 2^Width) - 2^(Width - 1)

Budget(timeout) == Wrap(Wrap(timeout * Millisecond) + Grace)

-----------------------------------------------------------------------------
Init ==
    /\ now = 0
    /\ status = [rt \in Routes |-> "new"]
    /\ asked = [rt \in Routes |-> NoTimeout]
    /\ opened = [rt \in Routes |-> 0]
    /\ deadlines = <<>>
    /\ index = [rt \in Routes |-> -1]
    /\ deadline = [rt \in Routes |-> 0]
    /\ woken = FALSE
    /\ loop = "look" /\ next = 0 /\ aim = 0 /\ lag = 0
    /\ timer = [due |-> Hour, set |-> TRUE, fired |-> FALSE]
    /\ closed = FALSE

\* Mutant: the loop is woken for the first deadline of an empty heap only.
WakesWhenAlone(H, rt) == Len(H.h) = 1

\* The new deadline is the first: the loop sleeps for too long.
Wakes(H, rt) == H.idx[rt] = 0

\* track: a call.open is routed, with its deadline if it carries one.
Open(rt) ==
    /\ status[rt] = "new"
    /\ status' = [status EXCEPT ![rt] = "live"]
    /\ opened' = [opened EXCEPT ![rt] = now]
    /\ \E timeout \in Timeouts \cup {NoTimeout} :
        /\ asked' = [asked EXCEPT ![rt] = timeout]
        /\ IF timeout = NoTimeout
           THEN UNCHANGED <<heapVars, woken>>
           ELSE LET H == HeapPush([Heap EXCEPT
                                   !.dl[rt] = now + Budget(timeout)], rt)
                IN  SetHeap(H) /\ woken' = (woken \/ Wakes(H, rt))
    /\ UNCHANGED <<now, loopVars, closed>>

\* untrack: by the index the route remembers, when it is in the heap.
Untracked(H, rt) ==
    IF H.idx[rt] >= 0 THEN HeapRemove(H, H.idx[rt] + 1) ELSE H

\* The route is garbage.
Forget(S) ==
    /\ asked' = [rt \in Routes |-> IF rt \in S THEN NoTimeout ELSE asked[rt]]
    /\ opened' = [rt \in Routes |-> IF rt \in S THEN 0 ELSE opened[rt]]

\* endRoute for any reason but the deadline: answered, cancelled, lost.
End(rt) ==
    /\ status[rt] = "live"
    /\ status' = [status EXCEPT ![rt] = "over"]
    /\ SetHeap(Untracked(Heap, rt))
    /\ Forget({rt})
    /\ UNCHANGED <<now, woken, loopVars, closed>>

-----------------------------------------------------------------------------
(* expireLoop. *)

\* Mutant: a deadline within the shortest sleep is taken as due.
DueSoon(H) == H.h /= <<>> /\ H.dl[H.h[1]] < now + Millisecond

Due(H) == H.h /= <<>> /\ H.dl[H.h[1]] <= now

\* A due route is popped and ended; endRoute untracks it again, which finds it
\* gone.
Expire(S) ==
    IF ~Due(S.heap) THEN S
    ELSE LET rt == S.heap.h[1]
             H == HeapPop(S.heap)
         IN  IF S.status[rt] /= "live" THEN [S EXCEPT !.heap = H]
             ELSE [heap |-> Untracked(H, rt),
                   status |-> [S.status EXCEPT ![rt] = "over"]]

\* Every route that is due: there are at most as many as the heap has.
Expired(S) ==
    LET round[k \in Nat] == IF k = 0 THEN S ELSE Expire(round[k - 1])
    IN  round[Len(S.heap.h)]

Longer(a, b) == IF a > b THEN a ELSE b

Sleep(H) ==
    IF H.h = <<>> THEN Hour
    ELSE Longer(H.dl[H.h[1]] - now, Millisecond)

\* The part under Router.mu.
Look ==
    /\ loop = "look"
    /\ LET S == Expired([heap |-> Heap, status |-> status])
       IN  /\ SetHeap(S.heap) /\ status' = S.status
           /\ Forget({rt \in Routes : status[rt] /= S.status[rt]})
           /\ next' = Sleep(S.heap) /\ aim' = now + Sleep(S.heap)
    /\ loop' = "arm" /\ lag' = 0
    /\ UNCHANGED <<now, woken, timer, closed>>

\* Stop, drain and Reset: a tick of an earlier setting is never seen.
Arm ==
    /\ loop = "arm"
    /\ timer' = [due |-> now + next, set |-> TRUE, fired |-> FALSE]
    /\ loop' = "sleep" /\ next' = 0 /\ lag' = 0
    /\ UNCHANGED <<now, status, asked, opened, heapVars, woken, aim, closed>>

WakeUp ==
    /\ loop = "sleep" /\ woken
    /\ woken' = FALSE /\ loop' = "look"
    /\ UNCHANGED <<now, status, asked, opened, heapVars, next, aim, lag, timer, closed>>

TimerWakes ==
    /\ loop = "sleep" /\ timer.fired
    /\ timer' = [timer EXCEPT !.fired = FALSE]
    /\ loop' = "look"
    /\ UNCHANGED <<now, status, asked, opened, heapVars, woken, next, aim, lag, closed>>

Stop ==
    /\ loop = "sleep" /\ closed
    /\ loop' = "gone"
    /\ timer' = [timer EXCEPT !.set = FALSE]
    /\ UNCHANGED <<now, status, asked, opened, heapVars, woken, next, aim, lag, closed>>

-----------------------------------------------------------------------------
(* The surroundings. *)

Close ==
    /\ ~closed
    /\ closed' = TRUE
    /\ UNCHANGED <<now, status, asked, opened, heapVars, woken, loopVars>>

TimerFires ==
    /\ timer.set /\ now >= timer.due
    /\ timer' = [due |-> 0, set |-> FALSE, fired |-> TRUE]
    /\ UNCHANGED <<now, status, asked, opened, heapVars, woken, loop, next, aim, lag, closed>>

Tick ==
    /\ now < MaxTime
    /\ now' = now + 1
    /\ IF loop = "arm" THEN lag < MaxLag /\ lag' = lag + 1 ELSE lag' = lag
    /\ UNCHANGED <<status, asked, opened, heapVars, woken, loop, next, aim, timer, closed>>

Next ==
    \/ \E rt \in Routes : Open(rt) \/ End(rt)
    \/ Look \/ Arm \/ WakeUp \/ TimerWakes \/ Stop
    \/ Close \/ TimerFires \/ Tick

Spec == Init /\ [][Next]_vars

\* The loop's goroutine and the timer run, and the clock advances.  The steps
\* of Next from "look" to "arm" are the Look steps.
FairSpec ==
    /\ Spec
    /\ WF_loop(loop = "look" /\ loop' = "arm") /\ WF_vars(Arm)
    /\ WF_vars(WakeUp \/ TimerWakes \/ Stop)
    /\ WF_vars(TimerFires) /\ WF_vars(Tick)

-----------------------------------------------------------------------------
(* What must hold. *)

Timed(rt) == status[rt] = "live" /\ asked[rt] /= NoTimeout

\* The heap holds the routed calls that carry a timeout, each of them once
\* and no other: a stale index would make untrack remove somebody else's
\* deadline (untrack, heap.Remove, endRoute after a Pop).
TimedCallsTracked ==
    /\ {deadlines[i] : i \in 1..Len(deadlines)} = {rt \in Routes : Timed(rt)}
    /\ Len(deadlines) = Cardinality({rt \in Routes : Timed(rt)})

\* The front of the heap is the earliest deadline, after any number of
\* removals from its middle: the loop looks at nothing else (expireLoop).
FirstIsEarliest ==
    \A i \in 1..Len(deadlines) :
        deadline[deadlines[1]] <= deadline[deadlines[i]]

\* While the loop is between its look at the heap and its next one and no
\* wake-up waits for it, it sleeps less than a millisecond beyond the first
\* deadline, also when a call was tracked between the look and the Reset
\* (track, wake, expireLoop).
NeverOversleeps ==
    loop \in {"arm", "sleep"} /\ ~woken /\ deadlines /= <<>>
        => aim < deadline[deadlines[1]] + Millisecond

\* The Router never ends a call before the time it asked for, and the grace
\* on top of it, are over.
NeverEarly ==
    [][Look => \A rt \in Routes : status[rt] = "live" /\ status'[rt] = "over"
          => now >= opened[rt] + asked[rt] * Millisecond + Grace]_vars

\* The time by which a call is overdue whatever the loop was doing, if the
\* clock gets there.
Reaches(rt) == deadline[rt] + Millisecond + MaxLag <= MaxTime

\* A call with a timeout ends, unless the Router is closed: no order of
\* opening, ending, waking and arming leaves the loop asleep over it.
OverdueCallsEnd ==
    \A rt \in Routes :
        Timed(rt) /\ Reaches(rt) ~> (~Timed(rt) \/ closed)

=============================================================================

---------------------------- MODULE DedupTable -----------------------------
(***************************************************************************)
(* The idempotency table of the Router as a bounded cache                  *)
(* (internal/router/dedup.go): a map from keys to entries and a list of    *)
(* the entries in the order of their insertion, of which an insertion      *)
(* evicts from the front.                                                  *)
(*                                                                         *)
(* RouterCore has the table's effect on callers and lets any entry that is *)
(* not in flight be forgotten at any time.  This module has what decides   *)
(* which: the capacity, the list, and the time for which a result is kept. *)
(* A call that joins another or is answered from the table changes neither *)
(* map nor list and is no step here.  A route that its caller cancels or   *)
(* abandons ends without a word to its entry, which keeps pointing at it.  *)
(***************************************************************************)
EXTENDS Integers, Sequences, SequencesExt, FiniteSets

CONSTANTS
    Keys,      \* (service, method, idempotency_key, instance_id)
    Routes,    \* identities of routes in memory
    None,
    Capacity,  \* dedupCapacity
    TTL,       \* dedupTTL
    MaxTime    \* bound: the clock stops here

Entry == [route : Routes \cup {None}, result : BOOLEAN, expires : 0..(MaxTime + TTL)]

\* What is assumed of the constants, wherever they are given.
DedupAssumption ==
    /\ {Capacity, TTL} \subseteq Nat \ {0}
    /\ MaxTime \in Nat
    /\ None \notin Keys \cup Routes \cup Entry

VARIABLES
    now,    \* the clock
    table,  \* r.dedup: [Keys -> entry or None]
    order,  \* r.dedupOrder: the keys of its entries, oldest first
    calls   \* [Routes -> the key it executes, or None]

vars == <<now, table, order, calls>>

TypeOK ==
    /\ now \in 0..MaxTime
    /\ table \in [Keys -> Entry \cup {None}]
    /\ order \in Seq(Keys)
    /\ calls \in [Routes -> Keys \cup {None}]

Init ==
    /\ now = 0
    /\ table = [k \in Keys |-> None]
    /\ order = <<>>
    /\ calls = [rt \in Routes |-> None]

-----------------------------------------------------------------------------
InFlight(T, k) == T[k].route /= None

\* dedupLookup: settled, and too long ago.
Stale(T, k) == ~InFlight(T, k) /\ now > T[k].expires

\* A call.open under k is routed afresh: there is no entry, a stale one, or
\* the tombstone of a call that failed.
Fresh(k) ==
    table[k] /= None =>
        Stale(table, k) \/ (~InFlight(table, k) /\ ~table[k].result)

Dedup == [table |-> table, order |-> order]

\* dedupRemove of the entry of k: out of the list, and out of the map.
Removed(D, k) ==
    [table |-> [D.table EXCEPT ![k] = None],
     order |-> RemoveAt(D.order, CHOOSE i \in 1..Len(D.order) : D.order[i] = k)]

\* dedupLookup finds nothing, or what it finds is removed.
LookedUp(k) == IF table[k] = None THEN Dedup ELSE Removed(Dedup, k)

\* Mutant: one in flight is evicted like any other.
EvictsInFlight(D) ==
    Min({n \in 0..Len(D.order) : Len(D.order) - n < Capacity})

\* How many are evicted from the front: while the table is full, up to one
\* that is in flight.
Evicted(D) ==
    Min({n \in 0..Len(D.order) :
            Len(D.order) - n < Capacity \/ InFlight(D.table, D.order[n + 1])})

\* dedupInsert.
Inserted(D, k, rt) ==
    LET n == Evicted(D)
        gone == {D.order[i] : i \in 1..n}
        new == [route |-> rt, result |-> FALSE, expires |-> 0]
    IN  [table |-> [j \in Keys |-> IF j = k THEN new
                                   ELSE IF j \in gone THEN None ELSE D.table[j]],
         order |-> Append(SubSeq(D.order, n + 1, Len(D.order)), k)]

\* Nothing points at this route.
Free(rt) == calls[rt] = None /\ \A k \in Keys : table[k] /= None => table[k].route /= rt

Become(D) == table' = D.table /\ order' = D.order

\* dedupLookup, the removal of a tombstone, and dedupInsert.
Open(k, rt) ==
    /\ Fresh(k) /\ Free(rt)
    /\ Become(Inserted(LookedUp(k), k, rt))
    /\ calls' = [calls EXCEPT ![rt] = k]
    /\ UNCHANGED now

\* No instance is eligible: what was looked up is gone all the same.
OpenUnroutable(k) ==
    /\ Fresh(k) /\ table[k] /= None
    /\ Become(Removed(Dedup, k))
    /\ UNCHANGED <<now, calls>>

\* The entry that the route points at, unless it is no longer the table's.
Mine(rt) == {k \in Keys : k = calls[rt] /\ table[k] /= None /\ table[k].route = rt}

Concluded(rt, result) ==
    [k \in Keys |-> IF k \in Mine(rt)
                    THEN [route |-> None, result |-> result, expires |-> now + TTL]
                    ELSE table[k]]

\* dedupSettle with the terminal frame; dedupFail, which leaves a tombstone.
Conclude(rt, result) ==
    /\ calls[rt] /= None
    /\ table' = Concluded(rt, result)
    /\ calls' = [calls EXCEPT ![rt] = None]
    /\ UNCHANGED <<now, order>>

\* The caller cancels or disconnects: endRoute, and nothing about the entry.
Abandon(rt) ==
    /\ calls[rt] /= None
    /\ calls' = [calls EXCEPT ![rt] = None]
    /\ UNCHANGED <<now, table, order>>

Tick ==
    /\ now < MaxTime
    /\ now' = now + 1
    /\ UNCHANGED <<table, order, calls>>

Next ==
    \/ \E k \in Keys : OpenUnroutable(k) \/ \E rt \in Routes : Open(k, rt)
    \/ \E rt \in Routes :
          \/ \E result \in BOOLEAN : Conclude(rt, result)
          \/ Abandon(rt)
    \/ Tick

Spec == Init /\ [][Next]_vars

-----------------------------------------------------------------------------
(* What must hold. *)

\* The list is the map: every entry once, and none that the map has lost
\* (dedupInsert, dedupRemove).
ListIsMap ==
    /\ {order[i] : i \in 1..Len(order)} = {k \in Keys : table[k] /= None}
    /\ Len(order) = Cardinality({k \in Keys : table[k] /= None})

\* One execution of a key at a time: neither the capacity nor the clock
\* forgets an entry whose call is in flight, however long that takes and
\* however many calls come after it (dedupLookup, dedupInsert).
OneExecutionPerKey ==
    \A a, b \in Routes : calls[a] /= None /\ calls[a] = calls[b] => a = b

\* The table outgrows its capacity only behind an entry in flight: as soon
\* as the front is settled, one insertion brings it back (dedupInsert).
GrowsOnlyBehindInFlight ==
    [][(\E rt \in Routes : calls[rt] = None /\ calls'[rt] /= None)
          => Len(order') <= Capacity \/ InFlight(table', order'[1])]_vars

\* The table as KeyMemory sees it.
Word(e) ==
    IF e = None THEN "none"
    ELSE IF e.route /= None THEN "inflight"
    ELSE IF e.result THEN "settled" ELSE "failed"
Words == [k \in Keys |-> Word(table[k])]
Memory == INSTANCE KeyMemory WITH memory <- Words

\* The table forgets only what it may forget, and only when it inserts: the
\* list, the capacity and the clock implement the memory RouterCore relies
\* on, and the table outgrows its capacity only behind an entry in flight
\* (dedupLookup, dedupInsert, dedupSettle, dedupFail).
KeepsKeysInFlight == Memory!Spec /\ GrowsOnlyBehindInFlight

\* The results and tombstones that the table keeps are bounded by its
\* capacity: one call that takes long, or was abandoned by its caller, at
\* the front of the list lets any number of them stay.
CacheBounded ==
    Cardinality({k \in Keys : table[k] /= None /\ ~InFlight(table, k)}) <= Capacity

=============================================================================

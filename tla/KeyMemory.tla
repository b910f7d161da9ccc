----------------------------- MODULE KeyMemory ------------------------------
(***************************************************************************)
(* What the Router promises of idempotency keys, whatever the size of the  *)
(* table it keeps them in: a key in flight is remembered until its call    *)
(* ends, and anything else may be forgotten when another key is inserted.  *)
(* RouterCore is built on this; DedupTable, with its list, its capacity    *)
(* and its clock, implements it.                                           *)
(***************************************************************************)
CONSTANT Keys

VARIABLE memory  \* [Keys -> {"none", "inflight", "settled", "failed"}]

Forgettable == {k \in Keys : memory[k] \in {"settled", "failed"}}

Init == memory = [k \in Keys |-> "none"]

\* A call under k executes; some other keys may be forgotten.
Begin(k) ==
    /\ memory[k] /= "inflight"
    /\ \E F \in SUBSET (Forgettable \ {k}) :
         memory' = [j \in Keys |-> IF j = k THEN "inflight"
                                   ELSE IF j \in F THEN "none" ELSE memory[j]]

\* The call that executes ends.
Conclude(k, outcome) ==
    /\ memory[k] = "inflight"
    /\ memory' = [memory EXCEPT ![k] = outcome]

\* A call under k cannot be routed.
Forget(k) ==
    /\ k \in Forgettable
    /\ memory' = [memory EXCEPT ![k] = "none"]

Next ==
    \E k \in Keys :
        \/ Begin(k) \/ Forget(k)
        \/ \E outcome \in {"settled", "failed"} : Conclude(k, outcome)

Spec == Init /\ [][Next]_memory

=============================================================================

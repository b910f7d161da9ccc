------------------------------- MODULE MCOutbox -------------------------------
(***************************************************************************)
(* Outbox for TLC: two calls besides the connection's own frames.           *)
(***************************************************************************)
EXTENDS Outbox

Symmetry == Permutations(Calls)
===============================================================================

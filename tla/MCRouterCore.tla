----------------------------- MODULE MCRouterCore -----------------------------
(***************************************************************************)
(* Instances of RouterCore for TLC.  The cfg files name the connections,    *)
(* calls and keys; the definitions here give the service they share.       *)
(***************************************************************************)
EXTENDS RouterCore, TLC

CONSTANTS u, s, d   \* a unary, a server_stream and a duplex method

Shapes == [m \in {u, s, d} |->
             CASE m = u -> "unary" [] m = s -> "server_stream" [] m = d -> "duplex"]
MCStream == [m \in Method |-> Shapes[m]]
RoundRobin == [m \in Method |-> "round_robin"]
LeastInflight == [m \in Method |-> "least_inflight"]
Everything == [i \in Instance |-> Method]
AllMay == Client \X Method

\* Every connection registers an id of its own, or all register the same one,
\* as the connections of an instance that reconnects do.
OwnID == [i \in Instance |-> i]
SharedID == [i \in Instance |-> "id"]

Uncapped == [i \in Instance |-> 0]

\* One instance takes one call at a time, the others any number.
CapFirst ==
  LET first == CHOOSE i \in Instance : TRUE
  IN  [i \in Instance |-> IF i = first THEN 1 ELSE 0]

Plain(m) == [method |-> m, key |-> None, target |-> None, timed |-> FALSE, sticky |-> FALSE]
Timed(m) == [Plain(m) EXCEPT !.timed = TRUE]
Keyed(m) == {[Timed(m) EXCEPT !.key = k] : k \in Key}
To(i, m) == [Plain(m) EXCEPT !.target = i]

KeyedOnly == Keyed(u)
KeyedUnary == Keyed(u) \cup {Plain(u)}
UnaryAndTargeted == {Timed(u)} \cup {To(i, u) : i \in InstanceID}
TimedOfEveryShape == {Timed(u), Timed(s)} \cup Keyed(u) \cup Keyed(d)

\* Clients are interchangeable unless some of them are HTTP requests.
Symmetry ==
  Permutations(Call) \cup Permutations(Instance)
    \cup (IF HTTPClient = {} THEN Permutations(Client) ELSE {})

\* With CapFirst the instances differ.
CallSymmetry == Permutations(Call)
===============================================================================

------------------------------ MODULE Registry ------------------------------
(***************************************************************************)
(* The Router's service registry with several services: instances register *)
(* one or more services each, drain and leave; a pool per service keeps    *)
(* its instances, the union of their methods and the widest contract; the  *)
(* Registry service shows callers what they may call.                      *)
(*                                                                         *)
(* Every handler runs under Router.mu and is one action. A method's shape  *)
(* stands for its stream kind and balance policy; a contract is the set of *)
(* methods it describes; a caller is the set of calls it may make          *)
(* (Accounts). Inflight counts, breakers and selection are RouterCore.     *)
(***************************************************************************)
EXTENDS Integers, Sequences, FiniteSets

CONSTANTS Services, Reserved,  \* service names; those of the Router
          Methods, Shapes,     \* method names; what a method can mean
          Peers,               \* connections of servers, numbers
          Registrations,       \* what a server can ask to register: sequences
                               \* of [name, targeted, contract, methods]
          Callers              \* sets of calls <<service, method>>

(* What is assumed of the constants, wherever they are given.              *)
RegistryAssumption ==
  /\ Peers \subseteq Nat /\ \E n \in Peers \cup {0} : Peers \subseteq 0 .. n
  /\ \A reg \in Registrations :
       /\ Len(reg) \in Nat /\ DOMAIN reg = 1 .. Len(reg)
       /\ \A i \in DOMAIN reg : DOMAIN reg[i].methods \subseteq Methods

VARIABLES peer,      \* connection -> [state, services]
          services   \* Router.services: name -> pool

vars == <<peer, services>>

Out == [state |-> "out", services |-> <<>>]

(* The instance id of a connection is its number: the order of the ids is  *)
(* the order of a pool's instances. That an id is used once is RouterCore. *)
Named(p, s) == {i \in DOMAIN peer[p].services : peer[p].services[i].name = s}
Offers(p, s) == Named(p, s) # {}

serves(p, s, m) ==
  \E i \in Named(p, s) : m \in DOMAIN peer[p].services[i].methods

-----------------------------------------------------------------------------
NameOK(s) == s \in Services \ Reserved

(* register: what is checked before the lock.                              *)
WellFormed(reg) ==
  /\ \A i \in DOMAIN reg : NameOK(reg[i].name)
  /\ \A i, j \in DOMAIN reg : reg[i].name = reg[j].name => i = j
  /\ \A i \in DOMAIN reg :
       \A m \in DOMAIN reg[i].methods : reg[i].methods[m] \in Shapes

SameShape(s, m, shape) ==
  m \in DOMAIN services[s].methods => services[s].methods[m] = shape

(* register: what is checked under it, service by service.                 *)
Compatible(reg) ==
  \A i \in DOMAIN reg :
    LET s == reg[i].name
    IN  /\ reg[i].contract # "invalid"
        /\ s \in DOMAIN services =>
             /\ services[s].targeted = reg[i].targeted
             /\ \A m \in DOMAIN reg[i].methods : SameShape(s, m, reg[i].methods[m])

NewPool(entry) ==
  [targeted |-> entry.targeted, methods |-> <<>>, contract |-> {},
   width |-> -1, instances |-> {}]

\* Mutant: the methods of the last instance replace those of the others.
UnionOfLast(methods, more) == more

Union(methods, more) ==
  [m \in DOMAIN methods \cup DOMAIN more |->
     IF m \in DOMAIN more THEN more[m] ELSE methods[m]]

Wider(pool, entry) ==
  /\ entry.contract = "given"
  /\ Cardinality(DOMAIN entry.methods) > pool.width

Joined(pool, entry, p) ==
  [pool EXCEPT
     !.methods = Union(@, entry.methods),
     !.contract = IF Wider(pool, entry) THEN DOMAIN entry.methods ELSE @,
     !.width = IF Wider(pool, entry) THEN Cardinality(DOMAIN entry.methods) ELSE @,
     !.instances = @ \cup {p}]

Register(p, reg) ==
  /\ peer[p].state = "out"
  /\ WellFormed(reg) /\ Compatible(reg)
  /\ peer' = [peer EXCEPT ![p] = [state |-> "in", services |-> reg]]
  /\ services' =
       [s \in DOMAIN services \cup {reg[i].name : i \in DOMAIN reg} |->
          IF \E i \in DOMAIN reg : reg[i].name = s
          THEN LET entry == reg[CHOOSE i \in DOMAIN reg : reg[i].name = s]
                   pool == IF s \in DOMAIN services THEN services[s] ELSE NewPool(entry)
               IN  Joined(pool, entry, p)
          ELSE services[s]]

-----------------------------------------------------------------------------
(* The services of the instances left, in the order they are walked.       *)
Walked(instances) ==
  UNION {{<<p, i>> : i \in DOMAIN peer[p].services} : p \in instances}

After(a, b) == a[1] > b[1] \/ (a[1] = b[1] /\ a[2] > b[2])

(* The last one that has the method decides what it means.                 *)
LastWith(walked, m) ==
  CHOOSE a \in walked :
    /\ m \in DOMAIN peer[a[1]].services[a[2]].methods
    /\ \A b \in walked :
         After(b, a) => m \notin DOMAIN peer[b[1]].services[b[2]].methods

(* Every service of every instance of the pool, not only the pool's.       *)
rebuildMethods(instances) ==
  LET walked == Walked(instances)
      names == UNION {DOMAIN peer[a[1]].services[a[2]].methods : a \in walked}
  IN  [m \in names |->
         LET a == LastWith(walked, m) IN peer[a[1]].services[a[2]].methods[m]]

Emptied(p, s) == Offers(p, s) /\ services[s].instances \subseteq {p}

leavePools(p) ==
  services' =
    [s \in {n \in DOMAIN services : ~Emptied(p, n)} |->
       IF Offers(p, s)
       THEN [services[s] EXCEPT !.instances = @ \ {p},
                                !.methods = rebuildMethods(services[s].instances \ {p})]
       ELSE services[s]]

Drain(p) ==
  /\ peer[p].state = "in"
  /\ leavePools(p)
  /\ peer' = [peer EXCEPT ![p].state = "draining"]

(* remove: the connection ended, drained or not.                           *)
RemovePeer(p) ==
  /\ peer[p].state # "out"
  /\ leavePools(p)
  /\ peer' = [peer EXCEPT ![p] = Out]

Init ==
  /\ peer = [p \in Peers |-> Out]
  /\ services = <<>>

Next ==
  \E p \in Peers :
    \/ \E reg \in Registrations : Register(p, reg)
    \/ Drain(p)
    \/ RemovePeer(p)

Spec == Init /\ [][Next]_vars

-----------------------------------------------------------------------------
(* The answers of the Registry service to a caller.                        *)

allowsAnyCall(u, s) == \E m \in DOMAIN services[s].methods : <<s, m>> \in u

visibleContract(u, s) == {m \in services[s].contract : <<s, m>> \in u}

(* Draining instances have left the pool and still hold their id: they are *)
(* listed after those of the pool.                                         *)
DescribedInstances(s) ==
  [pool |-> services[s].instances,
   draining |-> {p \in Peers : peer[p].state = "draining" /\ Offers(p, s)}]

DescribedMethods(u, s) ==
  [m \in {n \in DOMAIN services[s].methods : <<s, n>> \in u} |->
     {p \in services[s].instances : serves(p, s, m)}]

List(u) == {s \in DOMAIN services : allowsAnyCall(u, s)}

describeService(u, s) ==
  [instances |-> DescribedInstances(s), methods |-> DescribedMethods(u, s),
   contract |-> visibleContract(u, s)]

-----------------------------------------------------------------------------
TypeOK ==
  /\ DOMAIN services \subseteq Services \ Reserved
  /\ \A p \in Peers : peer[p].state \in {"out", "in", "draining"}
  /\ \A s \in DOMAIN services :
       /\ services[s].instances \subseteq Peers
       /\ DOMAIN services[s].methods \subseteq Methods
       /\ services[s].contract \subseteq Methods

(* A pool is the instances that registered its service and neither drained *)
(* nor left, and there is a pool only while there is such an instance.     *)
PoolsMirrorInstances ==
  /\ \A s \in DOMAIN services :
       services[s].instances =
         {p \in Peers : peer[p].state = "in" /\ Offers(p, s)}
  /\ \A p \in Peers, s \in Services :
       peer[p].state = "in" /\ Offers(p, s) => s \in DOMAIN services
  /\ \A s \in DOMAIN services : services[s].instances # {}

(* Whatever joins and leaves, a method an instance of the pool serves is   *)
(* known to the pool.                                                      *)
NoMethodLost ==
  \A s \in DOMAIN services : \A p \in services[s].instances :
    {m \in Methods : serves(p, s, m)} \subseteq DOMAIN services[s].methods

(* No server that offers s offers, under another service, a method of s    *)
(* with another meaning. Nothing in the code asks for this.                *)
Offering(s) == {a \in Registrations : \E i \in DOMAIN a : a[i].name = s}
Apart(s) ==
  \A a, b \in Offering(s) : \A i \in DOMAIN a, j \in DOMAIN b :
    a[i].name = s /\ b[j].name # s =>
      \A m \in DOMAIN a[i].methods \cap DOMAIN b[j].methods :
        a[i].methods[m] = b[j].methods[m]

(* Instances that serve one method of one service at the same time agree   *)
(* on what it means, so a call means the same wherever it is balanced to,  *)
(* for every service whose servers do not give its methods another meaning *)
(* under another service: rebuildMethods takes those for methods of the    *)
(* pool, and new registrations are compared with them.                     *)
SameMeaning ==
  \A s \in DOMAIN services :
    Apart(s) =>
      \A p, q \in services[s].instances :
        \A i \in Named(p, s), j \in Named(q, s) :
          \A m \in DOMAIN peer[p].services[i].methods
                    \cap DOMAIN peer[q].services[j].methods :
            peer[p].services[i].methods[m] = peer[q].services[j].methods[m]

(* The methods of a pool are the union of what its instances registered    *)
(* for its service: a method that none of them serves is not found.        *)
MethodsOfItsInstances ==
  \A s \in DOMAIN services : \A m \in DOMAIN services[s].methods :
    \E p \in services[s].instances : serves(p, s, m)

(* A caller sees a service only with something of it to call, and of a     *)
(* service only what it may call, in the methods and in the contract; an   *)
(* instance appears once, draining or not.                                 *)
SeesWhatItMayCall ==
  \A u \in Callers : \A s \in List(u) :
    LET shown == describeService(u, s)
    IN  /\ DOMAIN shown.methods # {}
        /\ \A m \in DOMAIN shown.methods \cup shown.contract : <<s, m>> \in u
        /\ shown.instances.pool \cap shown.instances.draining = {}
=============================================================================

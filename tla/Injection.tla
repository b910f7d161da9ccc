------------------------------ MODULE Injection ------------------------------
(***************************************************************************)
(* Dependency injection of the Go SDK (src/meshcall-go/di.go): the search  *)
(* for cycles when providers are registered, and the scope of one call,    *)
(* which resolves the handler's injected parameters, runs the handler and  *)
(* runs the cleanups.  The recursion of dfs and of resolve is a stack.     *)
(***************************************************************************)
EXTENDS Naturals, Sequences, SequencesExt, FiniteSets

CONSTANTS
    Types,      \* the types that providers could be registered for
    MaxDeps,    \* parameters of one provider, a bound
    Handler     \* not a type: the frame of resolveAll

\* What is assumed of the constants, wherever they are given.
InjectionAssumption == IsFiniteSet(Types) /\ MaxDeps \in Nat /\ Handler \notin Types

VARIABLES
    kind,       \* what is registered for a type: "absent", "meta" or "provider"
    deps,       \* depSpec.depTypes, and the handler's injected types
    phase,
    visit,      \* dfs: "unvisited", "visiting", "visited"
    stack,      \* the frames of dfs, then of resolve
    cache, cleanups,   \* depScope
    calls,      \* the providers called, in order
    released,   \* the cleanups that were run, in order
    failure,    \* what ended the resolution: [why, at] or NoFailure
    crashed     \* a cleanup panicked

input == <<kind, deps>>
vars == <<input, phase, visit, stack, cache, cleanups, calls, released, failure, crashed>>

Lists == UNION {[1..n -> Types] : n \in 0..MaxDeps}
Edges(t) == ToSet(deps[t])
Registered == {t \in Types : kind[t] # "absent"}
NoFailure == [why |-> "none", at |-> Handler]

Phases == {"registering", "rejected", "resolving", "running", "closing", "done"}

TypeOK ==
    /\ kind \in [Types -> {"absent", "meta", "provider"}]
    /\ deps \in [Types \cup {Handler} -> Lists]
    /\ phase \in Phases /\ visit \in [Types -> {"unvisited", "visiting", "visited"}]
    /\ \A i \in DOMAIN stack :
         /\ stack[i].type \in Types \cup {Handler} /\ stack[i].pass \in {"meta", "all"}
         /\ stack[i].next \in 1..(MaxDeps + 1)
    /\ Len(stack) <= Cardinality(Types) + 1
    /\ cache \subseteq Registered
    /\ failure.why \in {"none", "header", "provider", "unregistered"}
    /\ crashed \in BOOLEAN

\* Only a provider has parameters, and only registered types are injected.
Init ==
    /\ kind \in [Types -> {"absent", "meta", "provider"}]
    /\ deps \in [Types \cup {Handler} -> Lists]
    /\ \A t \in Types : kind[t] # "provider" => deps[t] = <<>>
    /\ Edges(Handler) \subseteq Registered
    /\ phase = "registering" /\ visit = [t \in Types |-> "unvisited"] /\ stack = <<>>
    /\ cache = {} /\ cleanups = <<>> /\ calls = <<>> /\ released = <<>>
    /\ failure = NoFailure /\ crashed = FALSE

Frame(t, pass) == [type |-> t, pass |-> pass, next |-> 1]
Top == stack[Len(stack)]
AtEnd == Top.next > Len(deps[Top.type])
Sub == deps[Top.type][Top.next]
Advanced == [stack EXCEPT ![Len(stack)].next = @ + 1]

-------------------------------------------------------------------------------
(* newDependencyRegistry.                                                  *)

scope == <<cache, cleanups, calls, released, failure, crashed>>

DfsRoot(t) ==
    /\ phase = "registering" /\ stack = <<>> /\ t \in Registered /\ visit[t] = "unvisited"
    /\ visit' = [visit EXCEPT ![t] = "visiting"]
    /\ stack' = <<Frame(t, "all")>>
    /\ UNCHANGED <<input, phase, scope>>

ClosesCycle == visit[Sub] = "visiting"

DfsRejects ==
    /\ phase = "registering" /\ stack # <<>> /\ ~AtEnd /\ ClosesCycle
    /\ phase' = "rejected" /\ stack' = <<>>
    /\ UNCHANGED <<input, visit, scope>>

DfsDescends ==
    /\ phase = "registering" /\ stack # <<>> /\ ~AtEnd /\ visit[Sub] = "unvisited"
    /\ visit' = [visit EXCEPT ![Sub] = "visiting"]
    /\ stack' = Append(Advanced, Frame(Sub, "all"))
    /\ UNCHANGED <<input, phase, scope>>

SkipIt == Advanced

DfsSkips ==
    /\ phase = "registering" /\ stack # <<>> /\ ~AtEnd
    /\ ~ClosesCycle /\ visit[Sub] # "unvisited"
    /\ stack' = SkipIt
    /\ UNCHANGED <<input, phase, visit, scope>>

Leaves == "visited"

DfsReturns ==
    /\ phase = "registering" /\ stack # <<>> /\ AtEnd
    /\ visit' = [visit EXCEPT ![Top.type] = Leaves]
    /\ stack' = Front(stack)
    /\ UNCHANGED <<input, phase, scope>>

\* The registry is made; a call comes in, its parameters decode and it gets a scope.
BeginCall ==
    /\ phase = "registering" /\ stack = <<>>
    /\ \A t \in Registered : visit[t] # "unvisited"
    /\ phase' = "resolving" /\ stack' = <<Frame(Handler, "meta")>>
    /\ UNCHANGED <<input, visit, scope>>

-------------------------------------------------------------------------------
(* resolveAll and resolve: first the parameters that are headers, then all *)
(* of them in order, then the provider's function.                         *)

Resolving(pass) == phase = "resolving" /\ Top.pass = pass

Fail(why) ==
    /\ phase' = "closing" /\ stack' = <<>>
    /\ failure' = [why |-> why, at |-> Top.type]

IsHeader == kind[Sub] = "meta"

ResolvesMeta ==
    /\ phase = "resolving" /\ ~AtEnd /\ kind[Sub] = "meta" /\ Sub \notin cache
    /\ Top.pass = "meta" => IsHeader

ResolveMeta ==
    /\ ResolvesMeta
    /\ cache' = cache \cup {Sub} /\ stack' = Advanced
    /\ UNCHANGED <<input, phase, visit, cleanups, calls, released, failure, crashed>>

\* A required header is missing, or its value does not convert.
MetaFails ==
    /\ ResolvesMeta
    /\ Fail("header")
    /\ UNCHANGED <<input, visit, cache, cleanups, calls, released, crashed>>

MetaSkips ==
    /\ Resolving("meta") /\ ~AtEnd /\ ~(IsHeader /\ Sub \notin cache)
    /\ stack' = Advanced
    /\ UNCHANGED <<input, phase, visit, scope>>

MetaDone ==
    /\ Resolving("meta") /\ AtEnd
    /\ stack' = [stack EXCEPT ![Len(stack)] = Frame(Top.type, "all")]
    /\ UNCHANGED <<input, phase, visit, scope>>

ResolveCached ==
    /\ Resolving("all") /\ ~AtEnd /\ Sub \in cache
    /\ stack' = Advanced
    /\ UNCHANGED <<input, phase, visit, scope>>

ResolveUnregistered ==
    /\ Resolving("all") /\ ~AtEnd /\ kind[Sub] = "absent"
    /\ Fail("unregistered")
    /\ UNCHANGED <<input, visit, cache, cleanups, calls, released, crashed>>

ResolveSub ==
    /\ Resolving("all") /\ ~AtEnd /\ kind[Sub] = "provider" /\ Sub \notin cache
    /\ stack' = Append(stack, Frame(Sub, "meta"))
    /\ UNCHANGED <<input, phase, visit, scope>>

Keep(t) == cache \cup {t}

\* Mutant: the latest cleanup goes first in the list.
Prepend(s, t) == <<t>> \o s

AddCleanup(s, t) == Append(s, t)

\* The provider returns its value, with or without a cleanup.
CallProvider(cleanup) ==
    /\ Resolving("all") /\ AtEnd /\ Top.type # Handler
    /\ calls' = Append(calls, Top.type)
    /\ cache' = Keep(Top.type)
    /\ cleanups' = IF cleanup THEN AddCleanup(cleanups, Top.type) ELSE cleanups
    /\ stack' = [Front(stack) EXCEPT ![Len(stack) - 1].next = @ + 1]
    /\ UNCHANGED <<input, phase, visit, released, failure, crashed>>

\* It returns an error or panics.
ProviderFails ==
    /\ Resolving("all") /\ AtEnd /\ Top.type # Handler
    /\ calls' = Append(calls, Top.type)
    /\ Fail("provider")
    /\ UNCHANGED <<input, visit, cache, cleanups, released, crashed>>

RunHandler ==
    /\ Resolving("all") /\ AtEnd /\ Top.type = Handler
    /\ phase' = "running" /\ stack' = <<>>
    /\ UNCHANGED <<input, visit, scope>>

\* The handler returns or panics: the deferred close runs.
HandlerEnds ==
    /\ phase = "running"
    /\ phase' = "closing"
    /\ UNCHANGED <<input, visit, stack, scope>>

Closes == TRUE

Cleanup ==
    /\ phase = "closing" /\ cleanups # <<>> /\ Closes
    /\ released' = Append(released, Last(cleanups)) /\ cleanups' = Front(cleanups)
    /\ UNCHANGED <<input, phase, visit, stack, cache, calls, failure, crashed>>

\* A cleanup that panics leaves the loop of depScope.close.
CleanupPanics ==
    /\ phase = "closing" /\ cleanups # <<>> /\ Closes
    /\ released' = Append(released, Last(cleanups)) /\ cleanups' = Front(cleanups)
    /\ phase' = "done" /\ crashed' = TRUE
    /\ UNCHANGED <<input, visit, stack, cache, calls, failure>>

Closed ==
    /\ phase = "closing" /\ (cleanups = <<>> \/ ~Closes)
    /\ phase' = "done"
    /\ UNCHANGED <<input, visit, stack, scope>>

Next ==
    \/ \E t \in Types : DfsRoot(t)
    \/ DfsRejects \/ DfsDescends \/ DfsSkips \/ DfsReturns \/ BeginCall
    \/ ResolveMeta \/ MetaFails \/ MetaSkips \/ MetaDone
    \/ ResolveCached \/ ResolveUnregistered \/ ResolveSub
    \/ \E cleanup \in BOOLEAN : CallProvider(cleanup)
    \/ ProviderFails \/ RunHandler \/ HandlerEnds \/ Cleanup \/ CleanupPanics \/ Closed

Spec == Init /\ [][Next]_vars

\* The search and the resolution run in one goroutine that goes on until it is done.
FairSpec == Spec /\ WF_vars(Next)

-------------------------------------------------------------------------------
(* "Circular dependencies fail at registration", and nothing else does:    *)
(* the search of newDependencyRegistry, whatever type the map hands it     *)
(* first, against the definition of a cycle (a set in which everybody      *)
(* depends on somebody of the set).                                        *)
Cyclic == \E S \in SUBSET Types : S # {} /\ \A t \in S : Edges(t) \cap S # {}

CyclesRejected ==
    /\ phase = "rejected" => Cyclic
    /\ phase \notin {"registering", "rejected"} => ~Cyclic

(* A provider runs at most once per call, and only after every provider    *)
(* it takes a value from has run: parameters that share a dependency       *)
(* share one instance of it.                                               *)
BuiltOnceInOrder ==
    \A i \in DOMAIN calls :
        /\ \A j \in 1..(i - 1) : calls[j] # calls[i]
        /\ \A u \in Edges(calls[i]) : kind[u] = "provider" => \E j \in 1..(i - 1) : calls[j] = u

(* Nothing is torn down while something built from it is still in use:     *)
(* when the cleanup of a type runs, that of every type built from it has   *)
(* run.                                                                    *)
ReleasedAfterUsers ==
    \A t \in ToSet(released), u \in ToSet(cleanups) : t \notin Edges(u)

(* However the call ends, each cleanup the scope was given is run once,    *)
(* unless one of them panics.                                              *)
EverythingReleased ==
    /\ phase = "done" /\ ~crashed => cleanups = <<>>
    /\ IsInjective(released)

(* A missing header among the handler's own parameters is noticed before   *)
(* any provider is called.                                                 *)
OwnHeadersFirst == failure = [why |-> "header", at |-> Handler] => calls = <<>>

(* Registration and resolution come to an end, whatever the graph.         *)
ResolutionEnds == <>(phase \in {"rejected", "done"})

(* WithMetaRequired's comment taken at its word: a missing header, also    *)
(* one that only a provider asks for, is noticed before any provider is    *)
(* called.                                                                 *)
HeadersFirst == failure.why = "header" => calls = <<>>

(* The README's "its cleanup runs when the call ends" taken at its word,   *)
(* also when another cleanup panics.                                       *)
CleanupsRun == phase = "done" => cleanups = <<>>
===============================================================================

--------------------------- MODULE Arguments_proofs ----------------------------
(***************************************************************************)
(* Proofs about how a handler of the Go SDK gets its arguments             *)
(* (src/meshcall-go/di.go).  For any dependency graph: registration finds  *)
(* a cycle exactly if there is one, a provider runs at most once and after *)
(* those it takes a value from, and cleanups run in the opposite order.    *)
(* For any signature: the method has the documented shape, no two request  *)
(* parameters share a field, and each receives the field of its own name   *)
(* where the method's own source is found.                                 *)
(***************************************************************************)
EXTENDS MCServer, SequenceLemmas

-------------------------------------------------------------------------------
(* The inductive invariant of Injection.                                   *)

Owners == DepTypes \cup {Handler}
Frames == [type : Owners, pass : {"meta", "all"}, next : Nat]
Failures == [why : {"none", "header", "provider", "unregistered"}, at : Owners]
Dep(t, j) == deps[t][j]
Params(t) == 1..Len(deps[t])

Inputs ==
    /\ kind \in [DepTypes -> {"absent", "meta", "provider"}]
    /\ deps \in [Owners -> Seq(DepTypes)]
    /\ \A t \in Owners : Len(deps[t]) <= MaxDeps
    /\ \A t \in DepTypes : kind[t] # "provider" => deps[t] = <<>>
    /\ Inject!Edges(Handler) \subseteq Inject!Registered

States ==
    /\ phase \in Inject!Phases /\ visit \in [DepTypes -> {"unvisited", "visiting", "visited"}]
    /\ stack \in Seq(Frames) /\ cache \subseteq Inject!Registered
    /\ cleanups \in Seq(DepTypes) /\ built \in Seq(DepTypes) /\ released \in Seq(DepTypes)
    /\ failure \in Failures /\ crashed \in BOOLEAN

\* Each frame is at one of its parameters or behind them; no type is on the stack twice.
Levels == 1..Len(stack)
Stacked ==
    /\ \A i \in Levels : stack[i].next \in 1..(Len(deps[stack[i].type]) + 1)
    /\ \A i, j \in Levels : stack[i].type = stack[j].type => i = j

\* dfs: the stack is a path, and what is behind a frame's position has been left.
Visited == {t \in DepTypes : visit[t] = "visited"}
Path ==
    \A i \in Levels : i < Len(stack) =>
        stack[i].next > 1 /\ Dep(stack[i].type, stack[i].next - 1) = stack[i + 1].type
Behind ==
    \A i \in Levels : \A j \in Params(stack[i].type) : j < stack[i].next =>
        \/ Dep(stack[i].type, j) \in Visited
        \/ i < Len(stack) /\ Dep(stack[i].type, j) = stack[i + 1].type
Open ==
    /\ \A i \in Levels : stack[i].type \in DepTypes
    /\ \A t \in DepTypes : visit[t] = "visiting" <=> \E i \in Levels : stack[i].type = t

\* Whoever has been left depends on such types only, and no cycle is among them.
Acyclic(S) == \A C \in SUBSET S : C # {} => \E t \in C : Inject!Edges(t) \cap C = {}
Left == (\A t \in Visited : Inject!Edges(t) \subseteq Visited) /\ Acyclic(Visited)

Fresh ==
    /\ cache = {} /\ cleanups = <<>> /\ built = <<>> /\ released = <<>>
    /\ failure = Inject!NoFailure /\ ~crashed

SearchInv ==
    /\ phase \in {"registering", "rejected"} => Fresh
    /\ phase = "registering" => Path /\ Behind /\ Open /\ Left
    /\ phase = "rejected" => Inject!Cyclic
    /\ phase \notin {"registering", "rejected"} => ~Inject!Cyclic

\* resolve: each frame but the last waits for the next one's type; what is behind its
\* position is in the cache, of the first pass the headers only.
Waits ==
    \A i \in Levels :
        /\ i = 1 <=> stack[i].type = Handler
        /\ i > 1 => kind[stack[i].type] = "provider" /\ stack[i].type \notin cache
        /\ i < Len(stack) =>
             /\ stack[i].pass = "all" /\ stack[i].next \in Params(stack[i].type)
             /\ Dep(stack[i].type, stack[i].next) = stack[i + 1].type
Got ==
    \A i \in Levels : \A j \in Params(stack[i].type) :
        /\ (stack[i].pass = "all" \/ j < stack[i].next) /\ kind[Dep(stack[i].type, j)] = "meta" =>
             Dep(stack[i].type, j) \in cache
        /\ stack[i].pass = "all" /\ j < stack[i].next => Dep(stack[i].type, j) \in cache

ResolveInv ==
    phase = "resolving" =>
        /\ stack # <<>> /\ Waits /\ Got /\ failure = Inject!NoFailure
        /\ stack[1].pass = "meta" => built = <<>>
        /\ \A i \in 1..Len(built) : built[i] \in cache

\* The cache is closed, and holds a provider's value only once the provider has run.
CacheInv ==
    /\ \A t \in cache : Inject!Edges(t) \subseteq cache
    /\ \A t \in cache : kind[t] = "provider" => \E i \in 1..Len(built) : built[i] = t
    /\ \A i \in 1..Len(cleanups) : cleanups[i] \in cache

\* Users are behind what they were built from in the list of cleanups.
CleanupsInv ==
    /\ \A i, j \in 1..Len(cleanups) : i < j =>
         cleanups[i] # cleanups[j] /\ cleanups[j] \notin Inject!Edges(cleanups[i])
    /\ \A i \in 1..Len(released), j \in 1..Len(cleanups) :
         released[i] # cleanups[j] /\ released[i] \notin Inject!Edges(cleanups[j])
    /\ \A i, j \in 1..Len(released) : released[i] = released[j] => i = j
    /\ phase \notin {"closing", "done"} => released = <<>>
    /\ phase = "done" /\ ~crashed => cleanups = <<>>
    /\ phase \notin {"registering", "resolving"} => stack = <<>>

InjectInv ==
    /\ Inputs /\ States /\ Stacked /\ SearchInv /\ ResolveInv /\ CacheInv /\ CleanupsInv
    /\ Inject!BuiltOnceInOrder /\ Inject!OwnHeadersFirst

-------------------------------------------------------------------------------
(* Facts about the graph, the stack and lists.                             *)

LEMMA EdgesAre ==
  ASSUME Inputs, NEW t \in Owners
  PROVE  /\ deps[t] \in Seq(DepTypes) /\ Len(deps[t]) \in Nat /\ DOMAIN deps[t] = Params(t)
         /\ \A j \in Params(t) : Dep(t, j) \in DepTypes /\ Dep(t, j) \in Inject!Edges(t)
         /\ \A u \in Inject!Edges(t) : \E j \in Params(t) : u = Dep(t, j)
         /\ Inject!Edges(t) \subseteq DepTypes
  <1>1. deps[t] \in Seq(DepTypes)
    BY DEF Inputs
  <1>2. Len(deps[t]) \in Nat /\ DOMAIN deps[t] = Params(t) /\ \A j \in Params(t) : deps[t][j] \in DepTypes
    BY <1>1, LenProperties, ElementOfSeq DEF Params
  <1>3. Inject!Edges(t) = {deps[t][j] : j \in Params(t)}
    BY <1>2 DEF Inject!Edges, Inject!ToSet
  <1> QED BY <1>1, <1>2, <1>3 DEF Dep

LEMMA NoParamsNoEdges == ASSUME NEW t, deps[t] = <<>> PROVE Inject!Edges(t) = {}
  BY DEF Inject!Edges, Inject!ToSet

\* What is injected where does not change.
SameInput ==
    /\ \A t : Inject!Edges(t)' = Inject!Edges(t) /\ Params(t)' = Params(t)
    /\ \A t, j : Dep(t, j)' = Dep(t, j)
    /\ Inject!Registered' = Inject!Registered /\ (Inject!Cyclic' <=> Inject!Cyclic)
    /\ kind' = kind /\ deps' = deps

LEMMA InputKept == ASSUME UNCHANGED Inject!input PROVE SameInput /\ (Inputs => Inputs')
  <1>1. kind' = kind /\ deps' = deps
    BY DEF Inject!input
  <1>2. \A t : Inject!Edges(t)' = Inject!Edges(t)
    BY <1>1 DEF Inject!Edges, Inject!ToSet
  <1>3. Inject!Registered' = Inject!Registered
    BY <1>1 DEF Inject!Registered
  <1>4. Inject!Cyclic' <=> Inject!Cyclic
    BY <1>2 DEF Inject!Cyclic
  <1>5. Inputs => Inputs'
    BY <1>1, <1>2, <1>3 DEF Inputs
  <1> QED BY <1>1, <1>2, <1>3, <1>4, <1>5 DEF SameInput, Params, Dep

LEMMA LevelFrames ==
  ASSUME States
  PROVE  \A i \in Levels : /\ stack[i] \in Frames /\ stack[i].type \in Owners
                           /\ stack[i].pass \in {"meta", "all"} /\ stack[i].next \in Nat
  <1>1. \A i \in Levels : stack[i] \in Frames
    BY ElementOfSeq DEF States, Levels
  <1> QED BY <1>1 DEF Frames

\* The frame that runs, and the parameter it is at.
LEMMA TopFrame ==
  ASSUME Inputs, States, Stacked, stack # <<>>
  PROVE  /\ Len(stack) \in Nat \ {0} /\ Len(stack) \in Levels /\ Inject!Top = stack[Len(stack)]
         /\ Inject!Top \in Frames /\ Inject!Top.type \in Owners
         /\ Inject!Top.next \in 1..(Len(deps[Inject!Top.type]) + 1)
         /\ Inject!AtEnd <=> Inject!Top.next \notin Params(Inject!Top.type)
         /\ ~Inject!AtEnd =>
              /\ Inject!Sub = Dep(Inject!Top.type, Inject!Top.next) /\ Inject!Sub \in DepTypes
              /\ Inject!Sub \in Inject!Edges(Inject!Top.type)
  <1>1. Len(stack) \in Nat \ {0} /\ Len(stack) \in Levels /\ stack[Len(stack)] \in Frames
    BY EmptySeq, LenProperties, ElementOfSeq DEF States, Levels
  <1>2. Inject!Top = stack[Len(stack)]
    BY DEF Inject!Top
  <1>3. Inject!Top \in Frames /\ Inject!Top.type \in Owners /\ Inject!Top.next \in Nat
    BY <1>1, <1>2 DEF Frames
  <1>4. Inject!Top.next \in 1..(Len(deps[Inject!Top.type]) + 1)
    BY <1>1, <1>2 DEF Stacked
  <1>5. Len(deps[Inject!Top.type]) \in Nat
    BY <1>3, EdgesAre
  <1>6. Inject!AtEnd <=> Inject!Top.next \notin Params(Inject!Top.type)
    BY <1>3, <1>4, <1>5 DEF Inject!AtEnd, Params
  <1>7. ~Inject!AtEnd =>
              /\ Inject!Sub = Dep(Inject!Top.type, Inject!Top.next) /\ Inject!Sub \in DepTypes
              /\ Inject!Sub \in Inject!Edges(Inject!Top.type)
    BY <1>3, <1>6, EdgesAre DEF Inject!Sub, Dep
  <1> QED BY <1>1, <1>2, <1>3, <1>4, <1>6, <1>7

\* The running frame at its next parameter, or in another pass.
Moved(f) == [stack EXCEPT ![Len(stack)] = f]
LEMMA MovedFrames ==
  ASSUME States, stack # <<>>, NEW f \in Frames
  PROVE  /\ Moved(f) \in Seq(Frames) /\ Len(Moved(f)) = Len(stack) /\ Moved(f) # <<>>
         /\ Moved(f)[Len(stack)] = f
         /\ \A i \in Levels : i # Len(stack) => Moved(f)[i] = stack[i]
  <1>1. stack \in Seq(Frames) /\ Len(stack) \in Nat \ {0} /\ DOMAIN stack = 1..Len(stack)
    BY EmptySeq, LenProperties DEF States
  <1>2. /\ Moved(f) \in Seq(Frames) /\ Len(Moved(f)) = Len(stack)
        /\ \A i \in 1..Len(stack) : Moved(f)[i] = IF i = Len(stack) THEN f ELSE stack[i]
    BY <1>1, ExceptSeq DEF Moved
  <1>3. Moved(f) # <<>> /\ Len(stack) \in 1..Len(stack)
    <2>1. Len(Moved(f)) # 0
      BY <1>1, <1>2
    <2>2. Moved(f) # <<>>
      BY <1>2, <2>1, EmptySeq
    <2> QED BY <1>1, <2>2
  <1>4. Moved(f)[Len(stack)] = f /\ \A i \in 1..Len(stack) : i # Len(stack) => Moved(f)[i] = stack[i]
    BY <1>2, <1>3
  <1> QED BY <1>2, <1>3, <1>4 DEF Levels

LEMMA AdvancedFrame ==
  ASSUME States, stack # <<>>
  PROVE  /\ Inject!Advanced = Moved([Inject!Top EXCEPT !.next = @ + 1])
         /\ [Inject!Top EXCEPT !.next = @ + 1] \in Frames
         /\ [Inject!Top EXCEPT !.next = @ + 1].type = Inject!Top.type
         /\ [Inject!Top EXCEPT !.next = @ + 1].pass = Inject!Top.pass
         /\ [Inject!Top EXCEPT !.next = @ + 1].next = Inject!Top.next + 1
  <1>1. Len(stack) \in 1..Len(stack) /\ stack[Len(stack)] \in Frames
    BY EmptySeq, LenProperties, ElementOfSeq DEF States
  <1>2. Inject!Top \in Frames
    BY <1>1 DEF Inject!Top
  <1> QED BY <1>2 DEF Inject!Advanced, Moved, Inject!Top, Frames

LEMMA AdvancedIs ==
  ASSUME States, stack # <<>>
  PROVE  /\ Inject!Advanced \in Seq(Frames) /\ Len(Inject!Advanced) = Len(stack)
         /\ Len(stack) \in Nat \ {0}
         /\ \A i \in Levels :
              /\ Inject!Advanced[i].type = stack[i].type /\ Inject!Advanced[i].pass = stack[i].pass
              /\ Inject!Advanced[i].next = IF i = Len(stack) THEN stack[i].next + 1 ELSE stack[i].next
  <1> DEFINE f == [Inject!Top EXCEPT !.next = @ + 1]
  <1>1. /\ Inject!Advanced = Moved(f) /\ f \in Frames /\ f.type = Inject!Top.type
        /\ f.pass = Inject!Top.pass /\ f.next = Inject!Top.next + 1
    BY AdvancedFrame
  <1> HIDE DEF f
  <1>2. /\ Moved(f) \in Seq(Frames) /\ Len(Moved(f)) = Len(stack) /\ Moved(f)[Len(stack)] = f
        /\ \A i \in Levels : i # Len(stack) => Moved(f)[i] = stack[i]
    BY <1>1, MovedFrames
  <1>3. Inject!Top = stack[Len(stack)] /\ Len(stack) \in Nat \ {0}
    BY EmptySeq, LenProperties DEF Inject!Top, States
  <1> QED BY <1>1, <1>2, <1>3

\* A list without its last element.
LEMMA FrontIs ==
  ASSUME NEW S, NEW s \in Seq(S), s # <<>>
  PROVE  /\ Inject!Front(s) \in Seq(S) /\ Len(Inject!Front(s)) = Len(s) - 1 /\ Len(s) \in Nat \ {0}
         /\ \A i \in 1..(Len(s) - 1) : Inject!Front(s)[i] = s[i]
         /\ Inject!Last(s) = s[Len(s)] /\ Inject!Last(s) \in S
  <1>1. Len(s) \in Nat \ {0}
    BY EmptySeq, LenProperties
  <1>2. Inject!Front(s) = SubSeq(s, 1, Len(s) - 1) /\ Inject!Last(s) = s[Len(s)]
    BY DEF Inject!Front, Inject!Last
  <1> DEFINE n == Len(s) - 1
             r == SubSeq(s, 1, n)
  <1>3. n \in Nat /\ (\A i \in 1..n : s[i] \in S) /\ s[Len(s)] \in S
    BY <1>1, ElementOfSeq
  <1> HIDE DEF n
  <1>4. /\ r \in Seq(S) /\ Len(r) = IF 1 <= n THEN n - 1 + 1 ELSE 0
        /\ \A i \in 1..n - 1 + 1 : r[i] = s[1 + i - 1]
    BY <1>3, SubSeqProperties
  <1> HIDE DEF r
  <1>5. r \in Seq(S) /\ Len(r) = n /\ \A i \in 1..n : r[i] = s[i]
    BY <1>3, <1>4
  <1> QED BY <1>1, <1>2, <1>3, <1>5 DEF n, r

\* A path that comes back to one of its types is a cycle.
LEMMA Loop ==
  ASSUME Inputs, stack \in Seq(Frames), NEW k \in Levels,
         \A i \in Levels : i >= k => stack[i].type \in DepTypes,
         \A i \in Levels : i >= k /\ i < Len(stack) => stack[i + 1].type \in Inject!Edges(stack[i].type),
         stack[k].type \in Inject!Edges(stack[Len(stack)].type)
  PROVE  Inject!Cyclic
  <1> DEFINE C == {stack[i].type : i \in {j \in Levels : j >= k}}
  <1>1. Len(stack) \in Nat
    BY LenProperties
  <1>2. C \in SUBSET DepTypes /\ stack[k].type \in C
    BY <1>1 DEF Levels
  <1>3. ASSUME NEW t \in C PROVE Inject!Edges(t) \cap C # {}
    <2>1. PICK i \in Levels : i >= k /\ t = stack[i].type
      OBVIOUS
    <2>2. CASE i < Len(stack)
      <3>1. i + 1 \in Levels /\ i + 1 >= k
        BY <1>1, <2>1, <2>2 DEF Levels
      <3>2. stack[i + 1].type \in C
        BY <3>1
      <3> QED BY <2>1, <2>2, <3>2
    <2>3. CASE i = Len(stack)
      BY <1>2, <2>1, <2>3
    <2> QED BY <1>1, <2>1, <2>2, <2>3 DEF Levels
  <1> HIDE DEF C
  <1> QED BY <1>2, <1>3 DEF Inject!Cyclic

\* A step that leaves the scope of the call alone.
LEMMA ScopeKept ==
  ASSUME InjectInv, UNCHANGED Inject!input, UNCHANGED Inject!scope,
         phase \notin {"closing", "done"}, phase' \notin {"done"},
         phase' \notin {"registering", "resolving"} => stack' = <<>>
  PROVE  /\ Inputs' /\ CacheInv' /\ CleanupsInv' /\ Inject!BuiltOnceInOrder' /\ Inject!OwnHeadersFirst'
         /\ cache' \subseteq Inject!Registered' /\ cleanups' \in Seq(DepTypes) /\ built' \in Seq(DepTypes)
         /\ released' \in Seq(DepTypes) /\ failure' \in Failures /\ crashed' \in BOOLEAN
         /\ Fresh => Fresh'
  <1>1. /\ cache' = cache /\ cleanups' = cleanups /\ built' = built /\ released' = released
        /\ failure' = failure /\ crashed' = crashed
    BY DEF Inject!scope
  <1>2. SameInput /\ Inputs'
    BY InputKept DEF InjectInv
  <1>3. CacheInv'
    BY <1>1, <1>2 DEF InjectInv, CacheInv, SameInput
  <1>4. CleanupsInv'
    <2>1. released = <<>>
      BY DEF InjectInv, CleanupsInv
    <2> QED BY <1>1, <1>2, <2>1 DEF InjectInv, CleanupsInv, SameInput
  <1>5. Inject!BuiltOnceInOrder'
    BY <1>1, <1>2 DEF InjectInv, Inject!BuiltOnceInOrder, SameInput
  <1>6. Inject!OwnHeadersFirst' /\ (Fresh => Fresh')
    BY <1>1 DEF InjectInv, Inject!OwnHeadersFirst, Fresh, Inject!NoFailure
  <1> QED BY <1>1, <1>2, <1>3, <1>4, <1>5, <1>6 DEF InjectInv, States, SameInput

\* A step of the search.
LEMMA SearchKept ==
  ASSUME InjectInv, UNCHANGED Inject!input, UNCHANGED Inject!scope,
         phase = "registering", phase' = "registering", stack' \in Seq(Frames),
         visit' \in [DepTypes -> {"unvisited", "visiting", "visited"}],
         Stacked', Path', Behind', Open', Left'
  PROVE  InjectInv'
  <1>1. /\ Inputs' /\ CacheInv' /\ CleanupsInv' /\ Inject!BuiltOnceInOrder' /\ Inject!OwnHeadersFirst'
        /\ cache' \subseteq Inject!Registered' /\ cleanups' \in Seq(DepTypes) /\ built' \in Seq(DepTypes)
        /\ released' \in Seq(DepTypes) /\ failure' \in Failures /\ crashed' \in BOOLEAN
        /\ Fresh => Fresh'
    BY ScopeKept
  <1>2. Fresh'
    BY <1>1 DEF InjectInv, SearchInv
  <1>3. States'
    BY <1>1 DEF States, Inject!Phases
  <1>4. SearchInv' /\ ResolveInv'
    BY <1>2 DEF SearchInv, ResolveInv
  <1> QED BY <1>1, <1>3, <1>4 DEF InjectInv

-------------------------------------------------------------------------------
(* newDependencyRegistry.                                                  *)

LEMMA NewFrame ==
  ASSUME NEW t \in Owners, NEW pass \in {"meta", "all"}
  PROVE  /\ Inject!Frame(t, pass) \in Frames /\ Inject!Frame(t, pass).type = t
         /\ Inject!Frame(t, pass).pass = pass /\ Inject!Frame(t, pass).next = 1
  BY DEF Inject!Frame, Frames

LEMMA OneFrame ==
  ASSUME NEW f \in Frames, stack' = <<f>>
  PROVE  stack' \in Seq(Frames) /\ Len(stack') = 1 /\ Levels' = {1} /\ stack'[1] = f
  BY DEF Levels

\* An unvisited type is on no frame; without a frame nobody is visiting.
LEMMA DfsRootKeeps == ASSUME InjectInv, NEW t \in DepTypes, Inject!DfsRoot(t) PROVE InjectInv'
  <1> DEFINE f == Inject!Frame(t, "all")
  <1>0. /\ phase = "registering" /\ stack = <<>> /\ visit[t] = "unvisited"
        /\ visit' = [visit EXCEPT ![t] = "visiting"] /\ stack' = <<f>>
        /\ UNCHANGED Inject!input /\ UNCHANGED Inject!scope /\ phase' = phase
    BY DEF Inject!DfsRoot
  <1>1. Inputs /\ States /\ Stacked /\ Open /\ Left
    BY <1>0 DEF InjectInv, SearchInv
  <1>2. SameInput /\ Inputs'
    BY <1>0, <1>1, InputKept
  <1>3. f \in Frames /\ f.type = t /\ f.next = 1
    BY NewFrame DEF Owners
  <1> HIDE DEF f
  <1>4. stack' \in Seq(Frames) /\ Len(stack') = 1 /\ Levels' = {1} /\ stack'[1] = f
    BY <1>0, <1>3, OneFrame
  <1>5. visit' \in [DepTypes -> {"unvisited", "visiting", "visited"}]
    BY <1>0, <1>1 DEF States
  <1>6. \A u \in DepTypes : visit'[u] = IF u = t THEN "visiting" ELSE visit[u]
    BY <1>0, <1>1 DEF States
  <1>7. \A u \in DepTypes : visit[u] # "visiting"
    <2>1. Levels = {}
      BY <1>0 DEF Levels
    <2> QED BY <1>1, <2>1 DEF Open
  <1>8. Len(deps'[t]) \in Nat
    BY <1>2, EdgesAre DEF SameInput, Owners
  <1>9. Stacked'
    BY <1>3, <1>4, <1>8 DEF Stacked
  <1>10. Path'
    BY <1>4 DEF Path
  <1>11. Behind'
    BY <1>3, <1>4, <1>8 DEF Behind, Params
  <1>12. Open'
    BY <1>3, <1>4, <1>6, <1>7 DEF Open
  <1>13. Visited' = Visited
    BY <1>0, <1>6 DEF Visited
  <1>14. Left'
    BY <1>1, <1>2, <1>13 DEF Left, Acyclic, SameInput
  <1> QED BY <1>0, <1>4, <1>5, <1>9, <1>10, <1>11, <1>12, <1>14, SearchKept

\* The stack is a path: what is visited and depended on again closes a cycle.
LEMMA DfsRejectsKeeps == ASSUME InjectInv, Inject!DfsRejects PROVE InjectInv'
  <1>0. /\ phase = "registering" /\ stack # <<>> /\ ~Inject!AtEnd /\ visit[Inject!Sub] = "visiting"
        /\ phase' = "rejected" /\ stack' = <<>> /\ visit' = visit
        /\ UNCHANGED Inject!input /\ UNCHANGED Inject!scope
    BY DEF Inject!DfsRejects, Inject!ClosesCycle
  <1>1. Inputs /\ States /\ Stacked /\ Path /\ Open /\ Fresh
    BY <1>0 DEF InjectInv, SearchInv
  <1>2. /\ Len(stack) \in Nat \ {0} /\ Inject!Top = stack[Len(stack)]
        /\ Inject!Sub \in DepTypes /\ Inject!Sub \in Inject!Edges(Inject!Top.type)
    BY <1>0, <1>1, TopFrame
  <1>3. PICK k \in Levels : stack[k].type = Inject!Sub
    BY <1>0, <1>1, <1>2 DEF Open
  <1>4. ASSUME NEW i \in Levels, i < Len(stack)
        PROVE  stack[i + 1].type \in Inject!Edges(stack[i].type)
    <2>1. stack[i].type \in Owners /\ stack[i].next \in 1..(Len(deps[stack[i].type]) + 1)
      BY <1>1 DEF Open, Stacked, Owners
    <2>2. Len(deps[stack[i].type]) \in Nat
      BY <1>1, <2>1, EdgesAre
    <2>3. stack[i].next > 1 /\ Dep(stack[i].type, stack[i].next - 1) = stack[i + 1].type
      BY <1>1, <1>4 DEF Path
    <2>4. stack[i].next - 1 \in Params(stack[i].type)
      BY <2>1, <2>2, <2>3 DEF Params
    <2> QED BY <1>1, <2>1, <2>3, <2>4, EdgesAre
  <1>5. Inject!Cyclic
    <2>1. stack \in Seq(Frames) /\ \A i \in Levels : stack[i].type \in DepTypes
      BY <1>1 DEF States, Open
    <2> QED BY <1>1, <1>2, <1>3, <1>4, <2>1, Loop
  <1>6. /\ Inputs' /\ CacheInv' /\ CleanupsInv' /\ Inject!BuiltOnceInOrder' /\ Inject!OwnHeadersFirst'
        /\ cache' \subseteq Inject!Registered' /\ cleanups' \in Seq(DepTypes) /\ built' \in Seq(DepTypes)
        /\ released' \in Seq(DepTypes) /\ failure' \in Failures /\ crashed' \in BOOLEAN
        /\ Fresh => Fresh'
    BY <1>0, ScopeKept
  <1>7. States'
    BY <1>0, <1>1, <1>6 DEF States, Inject!Phases
  <1>8. Inject!Cyclic'
    BY <1>0, <1>5, InputKept DEF SameInput
  <1>9. SearchInv' /\ ResolveInv'
    BY <1>0, <1>1, <1>6, <1>8 DEF SearchInv, ResolveInv
  <1>10. Stacked'
    BY <1>0 DEF Stacked, Levels
  <1> QED BY <1>6, <1>7, <1>9, <1>10 DEF InjectInv

LEMMA DfsDescendsKeeps == ASSUME InjectInv, Inject!DfsDescends PROVE InjectInv'
  <1> DEFINE n == Len(stack)
             u == Inject!Sub
             f == Inject!Frame(u, "all")
             A == Inject!Advanced
  <1>0. /\ phase = "registering" /\ stack # <<>> /\ ~Inject!AtEnd /\ visit[u] = "unvisited"
        /\ visit' = [visit EXCEPT ![u] = "visiting"] /\ stack' = Append(A, f)
        /\ UNCHANGED Inject!input /\ UNCHANGED Inject!scope /\ phase' = phase
    BY DEF Inject!DfsDescends
  <1>1. Inputs /\ States /\ Stacked /\ Path /\ Behind /\ Open /\ Left
    BY <1>0 DEF InjectInv, SearchInv
  <1>2. SameInput /\ Inputs'
    BY <1>0, <1>1, InputKept
  <1>3. /\ n \in Nat \ {0} /\ n \in Levels /\ Levels = 1..n /\ stack[n].next \in Params(stack[n].type)
        /\ u = Dep(stack[n].type, stack[n].next) /\ u \in DepTypes
    BY <1>0, <1>1, TopFrame DEF Levels
  <1>4. f \in Frames /\ f.type = u /\ f.next = 1
    BY <1>3, NewFrame DEF Owners
  <1>5. /\ A \in Seq(Frames) /\ Len(A) = n
        /\ \A i \in Levels : A[i].type = stack[i].type
                             /\ A[i].next = IF i = n THEN stack[i].next + 1 ELSE stack[i].next
    BY <1>0, <1>1, AdvancedIs
  <1> HIDE DEF f, A, u, n
  <1>6. /\ stack' \in Seq(Frames) /\ Len(stack') = n + 1 /\ stack'[n + 1] = f
        /\ \A i \in 1..n : stack'[i] = A[i]
    BY <1>0, <1>3, <1>4, <1>5, AppendProperties
  <1>7. Levels' = 1..n + 1
    BY <1>6 DEF Levels
  <1>8. visit' \in [DepTypes -> {"unvisited", "visiting", "visited"}]
    BY <1>0, <1>1 DEF States
  <1>9. \A t \in DepTypes : visit'[t] = IF t = u THEN "visiting" ELSE visit[t]
    BY <1>0, <1>1 DEF States
  <1>10. \A i \in Levels : stack[i].type # u /\ stack[i].type \in DepTypes
    BY <1>0, <1>1, <1>3 DEF Open
  <1>11. \A i \in 1..n : /\ stack'[i].type = stack[i].type /\ stack[i].next \in Nat
                         /\ stack'[i].next = IF i = n THEN stack[i].next + 1 ELSE stack[i].next
    <2>1. \A i \in 1..n : stack[i].next \in Nat
      BY <1>1, <1>3, LevelFrames
    <2> QED BY <1>3, <1>5, <1>6, <2>1
  <1>12. \A i \in 1..n + 1 : i \in 1..n \/ i = n + 1
    BY <1>3
  <1>13. Visited' = Visited
    BY <1>0, <1>9 DEF Visited
  <1>14. \A t \in DepTypes : Len(deps[t]) \in Nat /\ Params(t) = 1..Len(deps[t])
    BY <1>1, EdgesAre DEF Params, Owners
  <1>15. Stacked'
    <2>1. ASSUME NEW i \in 1..n + 1 PROVE stack'[i].next \in 1..(Len(deps[stack'[i].type]) + 1)
      <3>1. CASE i = n + 1
        BY <1>3, <1>4, <1>6, <1>14, <3>1
      <3>2. CASE i \in 1..n /\ i # n
        BY <1>1, <1>3, <1>11, <3>2 DEF Stacked
      <3>3. CASE i = n
        <4>1. n \in 1..n /\ stack'[n].type = stack[n].type /\ stack'[n].next = stack[n].next + 1
          BY <1>3, <1>11
        <4>2. stack[n].next \in 1..Len(deps[stack[n].type]) /\ Len(deps[stack[n].type]) \in Nat
          BY <1>3, <1>10, <1>14
        <4> QED BY <3>3, <4>1, <4>2
      <3> QED BY <1>12, <3>1, <3>2, <3>3
    <2>2. ASSUME NEW i \in 1..n + 1, NEW j \in 1..n + 1, stack'[i].type = stack'[j].type PROVE i = j
      BY <1>1, <1>3, <1>4, <1>6, <1>10, <1>11, <1>12, <2>2 DEF Stacked
    <2> QED BY <1>2, <1>7, <2>1, <2>2 DEF Stacked, SameInput
  <1>16. Path'
    <2>1. ASSUME NEW i \in 1..n + 1, i < n + 1
          PROVE  stack'[i].next > 1 /\ Dep(stack'[i].type, stack'[i].next - 1) = stack'[i + 1].type
      <3>0. i \in 1..n
        BY <1>3, <2>1
      <3>1. CASE i = n
        <4>1. stack'[i].next = stack[n].next + 1 /\ stack[n].next \in Nat /\ stack[n].next # 0
          BY <1>3, <1>10, <1>11, <1>14, <3>0, <3>1
        <4>2. stack'[i].next > 1 /\ stack'[i].next - 1 = stack[n].next
          BY <4>1
        <4> QED BY <1>3, <1>4, <1>6, <1>11, <3>0, <3>1, <4>2
      <3>2. CASE i # n
        <4>1. i < n /\ i + 1 \in 1..n /\ i \in Levels
          BY <1>3, <3>0, <3>2
        <4>2. stack[i].next > 1 /\ Dep(stack[i].type, stack[i].next - 1) = stack[i + 1].type
          BY <1>1, <4>1 DEF Path, n
        <4> QED BY <1>11, <3>0, <3>2, <4>1, <4>2
      <3> QED BY <3>1, <3>2
    <2> QED BY <1>2, <1>6, <1>7, <2>1 DEF Path, SameInput
  <1>17. Behind'
    <2>1. ASSUME NEW i \in 1..n + 1, NEW j \in Params(stack'[i].type), j < stack'[i].next
          PROVE  \/ Dep(stack'[i].type, j) \in Visited
                 \/ i < n + 1 /\ Dep(stack'[i].type, j) = stack'[i + 1].type
      <3>1. CASE i = n + 1
        BY <1>3, <1>4, <1>6, <1>14, <2>1, <3>1
      <3>2. CASE i = n
        <4>1. i \in 1..n /\ stack'[i].type = stack[n].type /\ stack'[i].next = stack[n].next + 1
              /\ j \in Nat /\ stack[n].next \in Nat
          BY <1>3, <1>10, <1>11, <1>14, <3>2
        <4>2. j < stack[n].next \/ j = stack[n].next
          BY <2>1, <4>1
        <4>3. ASSUME j < stack[n].next PROVE Dep(stack[n].type, j) \in Visited
          BY <1>1, <1>3, <4>1, <4>3 DEF Behind, n
        <4>4. stack'[i + 1].type = u
          BY <1>4, <1>6, <3>2
        <4> QED BY <1>3, <3>2, <4>1, <4>2, <4>3, <4>4
      <3>3. CASE i \in 1..n /\ i # n
        <4>1. stack'[i].type = stack[i].type /\ stack'[i].next = stack[i].next /\ i < n /\ i + 1 \in 1..n
          BY <1>3, <1>11, <3>3
        <4>2. Dep(stack[i].type, j) \in Visited \/ Dep(stack[i].type, j) = stack[i + 1].type
          BY <1>1, <1>3, <2>1, <3>3, <4>1 DEF Behind
        <4> QED BY <1>3, <1>11, <4>1, <4>2
      <3> QED BY <1>12, <3>1, <3>2, <3>3
    <2> QED BY <1>2, <1>6, <1>7, <1>13, <2>1 DEF Behind, SameInput
  <1>18. Open'
    <2>1. \A i \in 1..n + 1 : stack'[i].type \in DepTypes
      BY <1>3, <1>4, <1>6, <1>10, <1>11, <1>12
    <2>2. ASSUME NEW t \in DepTypes PROVE visit'[t] = "visiting" <=> \E i \in 1..n + 1 : stack'[i].type = t
      <3>1. CASE t = u
        BY <1>3, <1>4, <1>6, <1>9, <3>1
      <3>2. CASE t # u
        <4>1. visit[t] = "visiting" <=> \E i \in 1..n : stack[i].type = t
          BY <1>1, <1>3 DEF Open
        <4>2. (\E i \in 1..n : stack[i].type = t) <=> \E i \in 1..n + 1 : stack'[i].type = t
          BY <1>3, <1>4, <1>6, <1>11, <1>12, <3>2
        <4> QED BY <1>9, <3>2, <4>1, <4>2
      <3> QED BY <3>1, <3>2
    <2> QED BY <1>7, <2>1, <2>2 DEF Open
  <1>19. Left'
    BY <1>1, <1>2, <1>13 DEF Left, Acyclic, SameInput
  <1> QED BY <1>0, <1>6, <1>8, <1>15, <1>16, <1>17, <1>18, <1>19, SearchKept

LEMMA DfsSkipsKeeps == ASSUME InjectInv, Inject!DfsSkips PROVE InjectInv'
  <1> DEFINE n == Len(stack)
             u == Inject!Sub
  <1>0. /\ phase = "registering" /\ stack # <<>> /\ ~Inject!AtEnd
        /\ visit[u] # "visiting" /\ visit[u] # "unvisited" /\ stack' = Inject!Advanced
        /\ UNCHANGED Inject!input /\ UNCHANGED Inject!scope /\ phase' = phase /\ visit' = visit
    BY DEF Inject!DfsSkips, Inject!ClosesCycle, Inject!SkipIt
  <1>1. Inputs /\ States /\ Stacked /\ Path /\ Behind /\ Open /\ Left
    BY <1>0 DEF InjectInv, SearchInv
  <1>2. SameInput /\ Inputs'
    BY <1>0, <1>1, InputKept
  <1>3. /\ n \in Nat \ {0} /\ n \in Levels /\ Levels = 1..n /\ stack[n].next \in Params(stack[n].type)
        /\ u = Dep(stack[n].type, stack[n].next) /\ u \in DepTypes
    BY <1>0, <1>1, TopFrame DEF Levels
  <1>4. u \in Visited
    BY <1>0, <1>1, <1>3 DEF States, Visited
  <1>5. /\ stack' \in Seq(Frames) /\ Len(stack') = n
        /\ \A i \in Levels : stack'[i].type = stack[i].type
                             /\ stack'[i].next = IF i = n THEN stack[i].next + 1 ELSE stack[i].next
    BY <1>0, <1>1, AdvancedIs
  <1> HIDE DEF u, n
  <1>6. Levels' = 1..n
    BY <1>5 DEF Levels
  <1>7. Visited' = Visited
    BY <1>0 DEF Visited
  <1>8. \A i \in 1..n : /\ stack[i].next \in Nat /\ Len(deps[stack[i].type]) \in Nat
                        /\ Params(stack[i].type) = 1..Len(deps[stack[i].type])
    BY <1>1, <1>3, LevelFrames, EdgesAre DEF Params
  <1>9. Stacked'
    <2>1. ASSUME NEW i \in 1..n PROVE stack'[i].next \in 1..(Len(deps[stack'[i].type]) + 1)
      <3>1. CASE i = n
        <4>1. stack'[n].type = stack[n].type /\ stack'[n].next = stack[n].next + 1
          BY <1>3, <1>5
        <4>2. stack[n].next \in 1..Len(deps[stack[n].type]) /\ Len(deps[stack[n].type]) \in Nat
          BY <1>3, <1>8
        <4> QED BY <3>1, <4>1, <4>2
      <3>2. CASE i # n
        BY <1>1, <1>3, <1>5, <3>2 DEF Stacked
      <3> QED BY <3>1, <3>2
    <2>2. ASSUME NEW i \in 1..n, NEW j \in 1..n, stack'[i].type = stack'[j].type PROVE i = j
      BY <1>1, <1>3, <1>5, <2>2 DEF Stacked
    <2> QED BY <1>2, <1>6, <2>1, <2>2 DEF Stacked, SameInput
  <1>10. Path'
    <2>1. ASSUME NEW i \in 1..n, i < n
          PROVE  stack'[i].next > 1 /\ Dep(stack'[i].type, stack'[i].next - 1) = stack'[i + 1].type
      <3>1. i # n /\ i + 1 \in 1..n
        BY <1>3, <2>1
      <3>2. stack[i].next > 1 /\ Dep(stack[i].type, stack[i].next - 1) = stack[i + 1].type
        BY <1>1, <1>3, <2>1 DEF Path, n
      <3> QED BY <1>3, <1>5, <3>1, <3>2
    <2> QED BY <1>2, <1>5, <1>6, <2>1 DEF Path, SameInput
  <1>11. Behind'
    <2>1. ASSUME NEW i \in 1..n, NEW j \in Params(stack'[i].type), j < stack'[i].next
          PROVE  \/ Dep(stack'[i].type, j) \in Visited
                 \/ i < n /\ Dep(stack'[i].type, j) = stack'[i + 1].type
      <3>1. CASE i = n
        <4>1. stack'[i].type = stack[n].type /\ stack'[i].next = stack[n].next + 1
              /\ j \in Nat /\ stack[n].next \in Nat
          BY <1>3, <1>5, <1>8, <3>1
        <4>2. j < stack[n].next \/ j = stack[n].next
          BY <2>1, <4>1
        <4>3. ASSUME j < stack[n].next PROVE Dep(stack[n].type, j) \in Visited
          BY <1>1, <1>3, <4>1, <4>3 DEF Behind, n
        <4> QED BY <1>3, <1>4, <4>1, <4>2, <4>3
      <3>2. CASE i # n
        <4>1. stack'[i].type = stack[i].type /\ stack'[i].next = stack[i].next /\ i < n /\ i + 1 \in 1..n
          BY <1>3, <1>5, <3>2
        <4>2. Dep(stack[i].type, j) \in Visited \/ Dep(stack[i].type, j) = stack[i + 1].type
          BY <1>1, <1>3, <2>1, <4>1 DEF Behind
        <4> QED BY <1>3, <1>5, <4>1, <4>2
      <3> QED BY <3>1, <3>2
    <2> QED BY <1>2, <1>5, <1>6, <1>7, <2>1 DEF Behind, SameInput
  <1>12. Open'
    BY <1>0, <1>1, <1>3, <1>5, <1>6 DEF Open
  <1>13. Left'
    BY <1>1, <1>2, <1>7 DEF Left, Acyclic, SameInput
  <1>14. visit' \in [DepTypes -> {"unvisited", "visiting", "visited"}]
    BY <1>0, <1>1 DEF States
  <1> QED BY <1>0, <1>5, <1>9, <1>10, <1>11, <1>12, <1>13, <1>14, SearchKept

\* A type all of whose dependencies have been left closes no cycle among them.
LEMMA AcyclicGrows ==
  ASSUME NEW V, NEW t, t \notin V, Acyclic(V), \A u \in V : Inject!Edges(u) \subseteq V,
         Inject!Edges(t) \subseteq V
  PROVE  Acyclic(V \cup {t})
  <1> SUFFICES ASSUME NEW C \in SUBSET (V \cup {t}), C # {}, \A x \in C : Inject!Edges(x) \cap C # {}
               PROVE  FALSE
    BY DEF Acyclic
  <1> DEFINE D == C \ {t}
  <1>1. D \in SUBSET V
    OBVIOUS
  <1>2. ASSUME NEW x \in C PROVE Inject!Edges(x) \cap D # {}
    <2>1. PICK y \in Inject!Edges(x) : y \in C
      BY <1>2
    <2>2. y \in V
      BY <1>1, <2>1
    <2> QED BY <2>1, <2>2
  <1>3. D # {}
    BY <1>2
  <1> HIDE DEF D
  <1> QED BY <1>1, <1>2, <1>3 DEF Acyclic, D

LEMMA DfsReturnsKeeps == ASSUME InjectInv, Inject!DfsReturns PROVE InjectInv'
  <1> DEFINE n == Len(stack)
             u == Inject!Top.type
  <1>0. /\ phase = "registering" /\ stack # <<>> /\ Inject!AtEnd
        /\ visit' = [visit EXCEPT ![u] = "visited"] /\ stack' = Inject!Front(stack)
        /\ UNCHANGED Inject!input /\ UNCHANGED Inject!scope /\ phase' = phase
    BY DEF Inject!DfsReturns, Inject!Leaves
  <1>1. Inputs /\ States /\ Stacked /\ Path /\ Behind /\ Open /\ Left
    BY <1>0 DEF InjectInv, SearchInv
  <1>2. SameInput /\ Inputs'
    BY <1>0, <1>1, InputKept
  <1>3. /\ n \in Nat \ {0} /\ n \in Levels /\ Levels = 1..n /\ u = stack[n].type
        /\ stack[n].next \in 1..(Len(deps[u]) + 1) /\ stack[n].next \notin Params(u)
    BY <1>0, <1>1, TopFrame DEF Levels
  <1>4. u \in DepTypes
    BY <1>1, <1>3 DEF Open
  <1>5. stack' \in Seq(Frames) /\ Len(stack') = n - 1 /\ \A i \in 1..(n - 1) : stack'[i] = stack[i]
    BY <1>0, <1>1, FrontIs DEF States
  <1> HIDE DEF u, n
  <1>6. Levels' = 1..(n - 1) /\ \A i \in 1..(n - 1) : i \in 1..n /\ i # n
    BY <1>3, <1>5 DEF Levels
  <1>7. visit' \in [DepTypes -> {"unvisited", "visiting", "visited"}]
    BY <1>0, <1>1 DEF States
  <1>8. \A t \in DepTypes : visit'[t] = IF t = u THEN "visited" ELSE visit[t]
    BY <1>0, <1>1 DEF States
  <1>9. Visited' = Visited \cup {u}
    BY <1>4, <1>8 DEF Visited
  <1>10. u \notin Visited
    BY <1>1, <1>3, <1>4 DEF Open, Visited
  <1>11. Inject!Edges(u) \subseteq Visited
    <2>1. ASSUME NEW x \in Inject!Edges(u) PROVE x \in Visited
      <3>1. PICK j \in Params(u) : x = Dep(u, j)
        BY <1>1, <1>4, EdgesAre DEF Owners
      <3>2. j < stack[n].next
        <4>1. Len(deps[u]) \in Nat /\ Params(u) = 1..Len(deps[u])
          BY <1>1, <1>4, EdgesAre DEF Owners, Params
        <4>2. stack[n].next \in 1..(Len(deps[u]) + 1) /\ stack[n].next \notin 1..Len(deps[u])
          BY <1>3, <4>1
        <4>3. stack[n].next = Len(deps[u]) + 1
          BY <4>1, <4>2
        <4> QED BY <4>1, <4>3
      <3>3. Dep(stack[n].type, j) \in Visited
        BY <1>1, <1>3, <3>1, <3>2 DEF Behind, n
      <3> QED BY <1>3, <3>1, <3>3
    <2> QED BY <2>1
  <1>12. Left'
    <2>1. (\A t \in Visited : Inject!Edges(t) \subseteq Visited) /\ Acyclic(Visited)
      BY <1>1 DEF Left
    <2>2. Acyclic(Visited \cup {u})
      BY <1>10, <1>11, <2>1, AcyclicGrows
    <2>3. \A t \in Visited \cup {u} : Inject!Edges(t) \subseteq Visited \cup {u}
      BY <1>11, <2>1
    <2> QED BY <1>2, <1>9, <2>2, <2>3 DEF Left, Acyclic, SameInput
  <1>13. Stacked'
    BY <1>1, <1>2, <1>3, <1>5, <1>6 DEF Stacked, SameInput
  <1>14. Path'
    <2>1. ASSUME NEW i \in 1..(n - 1), i < n - 1
          PROVE  stack'[i].next > 1 /\ Dep(stack'[i].type, stack'[i].next - 1) = stack'[i + 1].type
      <3>1. i + 1 \in 1..(n - 1) /\ i \in 1..n /\ i < n
        BY <1>3, <2>1
      <3>2. stack[i].next > 1 /\ Dep(stack[i].type, stack[i].next - 1) = stack[i + 1].type
        BY <1>1, <1>3, <3>1 DEF Path, n
      <3> QED BY <1>5, <3>1, <3>2
    <2> QED BY <1>2, <1>5, <1>6, <2>1 DEF Path, SameInput
  <1>15. Behind'
    <2>1. ASSUME NEW i \in 1..(n - 1), NEW j \in Params(stack'[i].type), j < stack'[i].next
          PROVE  \/ Dep(stack'[i].type, j) \in Visited'
                 \/ i < n - 1 /\ Dep(stack'[i].type, j) = stack'[i + 1].type
      <3>1. stack'[i] = stack[i] /\ i \in 1..n /\ i < n
        BY <1>3, <1>5, <2>1
      <3>2. Dep(stack[i].type, j) \in Visited \/ Dep(stack[i].type, j) = stack[i + 1].type
        BY <1>1, <1>3, <2>1, <3>1 DEF Behind
      <3>3. CASE i = n - 1
        <4>1. i + 1 = n
          BY <1>3, <3>3
        <4> QED BY <1>3, <1>9, <3>1, <3>2, <4>1
      <3>4. CASE i < n - 1
        <4>1. i + 1 \in 1..(n - 1)
          BY <1>3, <3>1, <3>4
        <4> QED BY <1>5, <1>9, <3>1, <3>2, <3>4, <4>1
      <3> QED BY <1>3, <3>1, <3>3, <3>4
    <2> QED BY <1>2, <1>5, <1>6, <2>1 DEF Behind, SameInput
  <1>16. Open'
    <2>1. \A i \in 1..(n - 1) : stack'[i].type \in DepTypes
      BY <1>1, <1>3, <1>5, <1>6 DEF Open
    <2>2. ASSUME NEW t \in DepTypes
          PROVE  visit'[t] = "visiting" <=> \E i \in 1..(n - 1) : stack'[i].type = t
      <3>1. visit[t] = "visiting" <=> \E i \in 1..n : stack[i].type = t
        BY <1>1, <1>3 DEF Open
      <3>2. CASE t = u
        <4>1. \A i \in 1..(n - 1) : stack'[i].type # u
          BY <1>1, <1>3, <1>5, <1>6 DEF Stacked
        <4> QED BY <1>8, <3>2, <4>1
      <3>3. CASE t # u
        <4>1. (\E i \in 1..n : stack[i].type = t) <=> \E i \in 1..(n - 1) : stack'[i].type = t
          <5>1. \A i \in 1..n : i \in 1..(n - 1) \/ i = n
            BY <1>3
          <5> QED BY <1>3, <1>5, <1>6, <3>3, <5>1
        <4> QED BY <1>8, <3>1, <3>3, <4>1
      <3> QED BY <3>2, <3>3
    <2> QED BY <1>6, <2>1, <2>2 DEF Open
  <1> QED BY <1>0, <1>5, <1>7, <1>12, <1>13, <1>14, <1>15, <1>16, SearchKept

\* Once every registered type has been left, no cycle is anywhere: the others have
\* no dependencies.
LEMMA BeginCallKeeps == ASSUME InjectInv, Inject!BeginCall PROVE InjectInv'
  <1> DEFINE f == Inject!Frame(Handler, "meta")
  <1>0. /\ phase = "registering" /\ stack = <<>> /\ phase' = "resolving" /\ stack' = <<f>>
        /\ \A t \in Inject!Registered : visit[t] # "unvisited"
        /\ UNCHANGED Inject!input /\ UNCHANGED Inject!scope /\ visit' = visit
    BY DEF Inject!BeginCall
  <1>1. Inputs /\ States /\ Open /\ Left /\ Fresh
    BY <1>0 DEF InjectInv, SearchInv
  <1>2. SameInput /\ Inputs'
    BY <1>0, <1>1, InputKept
  <1>3. f \in Frames /\ f.type = Handler /\ f.next = 1 /\ f.pass = "meta"
    BY NewFrame DEF Owners
  <1> HIDE DEF f
  <1>4. stack' \in Seq(Frames) /\ Len(stack') = 1 /\ Levels' = {1} /\ stack'[1] = f
    BY <1>0, <1>3, OneFrame
  <1>5. Inject!Registered \subseteq Visited
    <2>1. Levels = {}
      BY <1>0 DEF Levels
    <2> QED BY <1>0, <1>1, <2>1 DEF Open, Visited, Inject!Registered, States
  <1>6. ~Inject!Cyclic
    <2> SUFFICES ASSUME NEW C \in SUBSET DepTypes, C # {}, \A t \in C : Inject!Edges(t) \cap C # {}
                 PROVE  FALSE
      BY DEF Inject!Cyclic
    <2>1. ASSUME NEW t \in C PROVE t \in Inject!Registered
      <3>1. deps[t] # <<>>
        BY NoParamsNoEdges
      <3> QED BY <1>1, <3>1 DEF Inputs, Inject!Registered
    <2>2. C \in SUBSET Visited
      BY <1>5, <2>1
    <2> QED BY <1>1, <2>2 DEF Left, Acyclic
  <1>7. /\ Inputs' /\ CacheInv' /\ CleanupsInv' /\ Inject!BuiltOnceInOrder' /\ Inject!OwnHeadersFirst'
        /\ cache' \subseteq Inject!Registered' /\ cleanups' \in Seq(DepTypes) /\ built' \in Seq(DepTypes)
        /\ released' \in Seq(DepTypes) /\ failure' \in Failures /\ crashed' \in BOOLEAN
        /\ Fresh => Fresh'
    BY <1>0, ScopeKept
  <1>8. States'
    BY <1>0, <1>1, <1>4, <1>7 DEF States, Inject!Phases
  <1>9. Len(deps'[Handler]) \in Nat /\ Params(Handler)' = 1..Len(deps'[Handler])
    BY <1>1, <1>2, EdgesAre DEF SameInput, Owners, Params
  <1>10. Stacked'
    BY <1>3, <1>4, <1>9 DEF Stacked
  <1>11. SearchInv'
    BY <1>0, <1>2, <1>6 DEF SearchInv, SameInput
  <1>12. Waits'
    BY <1>3, <1>4 DEF Waits
  <1>13. Got'
    BY <1>3, <1>4, <1>9 DEF Got
  <1>14. built' = <<>> /\ stack' # <<>> /\ failure' = Inject!NoFailure
    <2>1. built' = <<>> /\ failure' = Inject!NoFailure
      BY <1>1, <1>7 DEF Fresh, Inject!NoFailure
    <2> QED BY <1>0, <2>1
  <1>15. ResolveInv'
    BY <1>12, <1>13, <1>14 DEF ResolveInv, Inject!NoFailure
  <1> QED BY <1>7, <1>8, <1>10, <1>11, <1>15 DEF InjectInv

-------------------------------------------------------------------------------
(* resolveAll and resolve.                                                 *)

\* A step of the resolution that leaves the scope alone.
LEMMA ResolveKept ==
  ASSUME InjectInv, UNCHANGED Inject!input, UNCHANGED Inject!scope, phase = "resolving",
         phase' = phase, visit' = visit, stack' \in Seq(Frames), stack' # <<>>,
         Stacked', Waits', Got', stack'[1].pass = "meta" => stack[1].pass = "meta"
  PROVE  InjectInv'
  <1>1. /\ Inputs' /\ CacheInv' /\ CleanupsInv' /\ Inject!BuiltOnceInOrder' /\ Inject!OwnHeadersFirst'
        /\ cache' \subseteq Inject!Registered' /\ cleanups' \in Seq(DepTypes) /\ built' \in Seq(DepTypes)
        /\ released' \in Seq(DepTypes) /\ failure' \in Failures /\ crashed' \in BOOLEAN
    BY ScopeKept
  <1>2. States'
    BY <1>1 DEF InjectInv, States
  <1>3. SearchInv'
    BY InputKept DEF InjectInv, SearchInv, SameInput
  <1>4. cache' = cache /\ built' = built /\ failure' = failure
    BY DEF Inject!scope
  <1>5. ResolveInv'
    BY <1>4 DEF InjectInv, ResolveInv, Inject!NoFailure
  <1> QED BY <1>1, <1>2, <1>3, <1>5 DEF InjectInv

\* The stack is gone with the resolution.
LEMMA StackGone ==
  ASSUME InjectInv, UNCHANGED Inject!input, phase \notin {"registering", "rejected"},
         phase' \in {"running", "closing", "done"}, stack' = <<>>
  PROVE  /\ Inputs' /\ SameInput /\ Stacked' /\ SearchInv' /\ ResolveInv' /\ phase' \in Inject!Phases
         /\ stack' \in Seq(Frames)
  <1>1. SameInput /\ Inputs'
    BY InputKept DEF InjectInv
  <1>2. Stacked'
    BY DEF Stacked, Levels
  <1>3. SearchInv' /\ ResolveInv'
    BY <1>1 DEF InjectInv, SearchInv, ResolveInv, SameInput
  <1> QED BY <1>1, <1>2, <1>3 DEF Inject!Phases

\* The frames of a resolution.
LEMMA Resolving ==
  ASSUME InjectInv, phase = "resolving"
  PROVE  /\ Inputs /\ States /\ Stacked /\ Waits /\ Got /\ stack # <<>> /\ CacheInv
         /\ Len(stack) \in Nat \ {0} /\ Len(stack) \in Levels /\ Levels = 1..Len(stack)
         /\ \A i \in Levels : /\ stack[i] \in Frames /\ stack[i].type \in Owners /\ stack[i].next \in Nat
                              /\ Len(deps[stack[i].type]) \in Nat
                              /\ Params(stack[i].type) = 1..Len(deps[stack[i].type])
  <1>1. Inputs /\ States /\ Stacked /\ Waits /\ Got /\ stack # <<>> /\ CacheInv
    BY DEF InjectInv, ResolveInv
  <1>2. Len(stack) \in Nat \ {0} /\ Len(stack) \in Levels /\ Levels = 1..Len(stack)
    BY <1>1, TopFrame DEF Levels
  <1>3. \A i \in Levels : /\ stack[i] \in Frames /\ stack[i].type \in Owners /\ stack[i].next \in Nat
                          /\ Len(deps[stack[i].type]) \in Nat
                          /\ Params(stack[i].type) = 1..Len(deps[stack[i].type])
    BY <1>1, LevelFrames, EdgesAre DEF Params
  <1> QED BY <1>1, <1>2, <1>3

\* The running frame passes a parameter: one in the cache, or in the first pass
\* one that is no header.
Passes ==
    \/ Inject!Sub \in cache'
    \/ Inject!Top.pass = "meta" /\ kind[Inject!Sub] # "meta"
LEMMA PassesParameter ==
  ASSUME InjectInv, phase = "resolving", UNCHANGED Inject!input, ~Inject!AtEnd,
         stack' = Inject!Advanced, Passes, cache \subseteq cache',
         \A t \in cache' : t \in cache \/ kind[t] = "meta"
  PROVE  /\ stack' \in Seq(Frames) /\ stack' # <<>> /\ Stacked' /\ Waits' /\ Got'
         /\ stack'[1].pass = stack[1].pass
  <1> DEFINE n == Len(stack)
             u == Inject!Sub
  <1>1. /\ Inputs /\ States /\ Stacked /\ Waits /\ Got /\ stack # <<>>
        /\ n \in Nat \ {0} /\ n \in Levels /\ Levels = 1..n
        /\ \A i \in Levels : /\ stack[i] \in Frames /\ stack[i].type \in Owners /\ stack[i].next \in Nat
                             /\ Len(deps[stack[i].type]) \in Nat
                             /\ Params(stack[i].type) = 1..Len(deps[stack[i].type])
    BY Resolving
  <1>2. SameInput
    BY InputKept
  <1>3. /\ Inject!Top = stack[n] /\ stack[n].next \in Params(stack[n].type)
        /\ u = Dep(stack[n].type, stack[n].next)
    BY <1>1, TopFrame
  <1>4. /\ stack' \in Seq(Frames) /\ Len(stack') = n
        /\ \A i \in 1..n : /\ stack'[i].type = stack[i].type /\ stack'[i].pass = stack[i].pass
                           /\ stack'[i].next = IF i = n THEN stack[i].next + 1 ELSE stack[i].next
    BY <1>1, AdvancedIs
  <1>5. u \in cache' \/ (stack[n].pass = "meta" /\ kind[u] # "meta")
    BY <1>3 DEF Passes
  <1> HIDE DEF n, u
  <1>6. Levels' = 1..n
    BY <1>4 DEF Levels
  <1>7. Stacked'
    <2>1. ASSUME NEW i \in 1..n PROVE stack'[i].next \in 1..(Len(deps[stack'[i].type]) + 1)
      <3>1. CASE i = n
        <4>1. stack'[n].type = stack[n].type /\ stack'[n].next = stack[n].next + 1
          BY <1>1, <1>4
        <4>2. stack[n].next \in 1..Len(deps[stack[n].type]) /\ Len(deps[stack[n].type]) \in Nat
          BY <1>1, <1>3
        <4> QED BY <3>1, <4>1, <4>2
      <3>2. CASE i # n
        BY <1>1, <1>4, <3>2 DEF Stacked
      <3> QED BY <3>1, <3>2
    <2>2. ASSUME NEW i \in 1..n, NEW j \in 1..n, stack'[i].type = stack'[j].type PROVE i = j
      BY <1>1, <1>4, <2>2 DEF Stacked
    <2> QED BY <1>2, <1>6, <2>1, <2>2 DEF Stacked, SameInput
  <1>8. Waits'
    <2>1. ASSUME NEW i \in 1..n
          PROVE  /\ i = 1 <=> stack'[i].type = Handler
                 /\ i > 1 => kind[stack'[i].type] = "provider" /\ stack'[i].type \notin cache'
      BY <1>1, <1>4 DEF Waits
    <2>2. ASSUME NEW i \in 1..n, i < n
          PROVE  /\ stack'[i].pass = "all" /\ stack'[i].next \in Params(stack'[i].type)
                 /\ Dep(stack'[i].type, stack'[i].next) = stack'[i + 1].type
      <3>1. i \in Levels /\ i # n /\ i + 1 \in 1..n
        BY <1>1, <2>2
      <3>2. /\ stack[i].pass = "all" /\ stack[i].next \in Params(stack[i].type)
            /\ Dep(stack[i].type, stack[i].next) = stack[i + 1].type
        BY <1>1, <2>2, <3>1 DEF Waits, n
      <3> QED BY <1>4, <3>1, <3>2
    <2> QED BY <1>2, <1>4, <1>6, <2>1, <2>2 DEF Waits, SameInput
  <1>9. Got'
    <2>1. ASSUME NEW i \in 1..n, NEW j \in Params(stack'[i].type)
          PROVE  /\ (stack'[i].pass = "all" \/ j < stack'[i].next) /\ kind[Dep(stack'[i].type, j)] = "meta" =>
                      Dep(stack'[i].type, j) \in cache'
                 /\ stack'[i].pass = "all" /\ j < stack'[i].next => Dep(stack'[i].type, j) \in cache'
      <3>1. /\ stack'[i].type = stack[i].type /\ stack'[i].pass = stack[i].pass /\ i \in Levels
            /\ stack'[i].next = IF i = n THEN stack[i].next + 1 ELSE stack[i].next
            /\ j \in Nat /\ stack[i].next \in Nat
        BY <1>1, <1>4
      <3>2. /\ (stack[i].pass = "all" \/ j < stack[i].next) /\ kind[Dep(stack[i].type, j)] = "meta" =>
                 Dep(stack[i].type, j) \in cache
            /\ stack[i].pass = "all" /\ j < stack[i].next => Dep(stack[i].type, j) \in cache
        BY <1>1, <3>1 DEF Got
      <3>3. CASE i = n /\ j = stack[n].next
        <4>1. Dep(stack'[i].type, j) = u
          BY <1>3, <3>1, <3>3
        <4>2. u \in cache' \/ (stack'[i].pass = "meta" /\ kind[u] # "meta")
          BY <1>5, <3>1, <3>3
        <4> QED BY <4>1, <4>2
      <3>4. CASE j < stack[i].next
        BY <3>1, <3>2, <3>4
      <3>5. CASE ~(i = n /\ j = stack[n].next) /\ ~(j < stack[i].next)
        <4>1. ~(j < stack'[i].next)
          BY <3>1, <3>5
        <4> QED BY <3>1, <3>2, <4>1
      <3> QED BY <3>3, <3>4, <3>5
    <2> QED BY <1>2, <1>6, <2>1 DEF Got, SameInput
  <1>10. stack' # <<>>
    <2>1. Len(stack') # 0
      BY <1>1, <1>4
    <2> QED BY <1>4, <2>1, EmptySeq
  <1>11. stack'[1].pass = stack[1].pass
    BY <1>1, <1>4
  <1> QED BY <1>4, <1>7, <1>8, <1>9, <1>10, <1>11

LEMMA ResolveCachedKeeps ==
  ASSUME InjectInv, Inject!ResolveCached \/ Inject!MetaSkips PROVE InjectInv'
  <1>1. /\ phase = "resolving" /\ ~Inject!AtEnd /\ stack' = Inject!Advanced /\ Passes
        /\ UNCHANGED Inject!input /\ UNCHANGED Inject!scope /\ phase' = phase /\ visit' = visit
        /\ cache' = cache
    BY DEF Inject!ResolveCached, Inject!MetaSkips, Inject!Resolving, Inject!IsHeader, Inject!scope, Passes
  <1>2. /\ stack' \in Seq(Frames) /\ stack' # <<>> /\ Stacked' /\ Waits' /\ Got'
        /\ stack'[1].pass = stack[1].pass
    BY <1>1, PassesParameter
  <1> QED BY <1>1, <1>2, ResolveKept

LEMMA ResolveMetaKeeps == ASSUME InjectInv, Inject!ResolveMeta PROVE InjectInv'
  <1> DEFINE u == Inject!Sub
  <1>1. /\ phase = "resolving" /\ ~Inject!AtEnd /\ stack' = Inject!Advanced
        /\ kind[u] = "meta" /\ cache' = cache \cup {u} /\ UNCHANGED Inject!input
        /\ phase' = phase /\ visit' = visit /\ cleanups' = cleanups /\ built' = built
        /\ released' = released /\ failure' = failure /\ crashed' = crashed
    BY DEF Inject!ResolveMeta, Inject!ResolvesMeta
  <1>2. /\ stack' \in Seq(Frames) /\ stack' # <<>> /\ Stacked' /\ Waits' /\ Got'
        /\ stack'[1].pass = stack[1].pass
    BY <1>1, PassesParameter DEF Passes
  <1>3. SameInput /\ Inputs' /\ Inputs /\ States
    BY <1>1, InputKept DEF InjectInv
  <1>4. u \in DepTypes /\ u \in Inject!Registered /\ Inject!Edges(u) = {}
    <2>1. u \in DepTypes
      BY <1>1, Resolving, TopFrame
    <2>2. deps[u] = <<>>
      BY <1>1, <1>3, <2>1 DEF Inputs
    <2> QED BY <1>1, <2>1, <2>2, NoParamsNoEdges DEF Inject!Registered
  <1> HIDE DEF u
  <1>5. States'
    BY <1>1, <1>2, <1>3, <1>4 DEF States, SameInput
  <1>6. SearchInv'
    BY <1>1, <1>3 DEF InjectInv, SearchInv, SameInput
  <1>7. ResolveInv'
    BY <1>1, <1>2 DEF InjectInv, ResolveInv, Inject!NoFailure
  <1>8. CacheInv'
    BY <1>1, <1>3, <1>4 DEF InjectInv, CacheInv, SameInput
  <1>9. CleanupsInv'
    <2>1. released = <<>>
      BY <1>1 DEF InjectInv, CleanupsInv
    <2> QED BY <1>1, <1>3, <2>1 DEF InjectInv, CleanupsInv, SameInput
  <1>10. Inject!BuiltOnceInOrder' /\ Inject!OwnHeadersFirst'
    BY <1>1, <1>3 DEF InjectInv, Inject!BuiltOnceInOrder, Inject!OwnHeadersFirst, SameInput
  <1> QED BY <1>2, <1>3, <1>5, <1>6, <1>7, <1>8, <1>9, <1>10 DEF InjectInv

\* The first pass of a frame ends: its headers are in the cache.
LEMMA MetaDoneKeeps == ASSUME InjectInv, Inject!MetaDone PROVE InjectInv'
  <1> DEFINE n == Len(stack)
             f == Inject!Frame(Inject!Top.type, "all")
  <1>0. /\ phase = "resolving" /\ Inject!Top.pass = "meta" /\ Inject!AtEnd /\ stack' = Moved(f)
        /\ UNCHANGED Inject!input /\ UNCHANGED Inject!scope /\ phase' = phase /\ visit' = visit
        /\ cache' = cache
    BY DEF Inject!MetaDone, Inject!Resolving, Inject!scope, Moved
  <1>1. /\ Inputs /\ States /\ Stacked /\ Waits /\ Got /\ stack # <<>>
        /\ n \in Nat \ {0} /\ n \in Levels /\ Levels = 1..n
        /\ \A i \in Levels : /\ stack[i] \in Frames /\ stack[i].type \in Owners /\ stack[i].next \in Nat
                             /\ Len(deps[stack[i].type]) \in Nat
                             /\ Params(stack[i].type) = 1..Len(deps[stack[i].type])
    BY <1>0, Resolving
  <1>2. SameInput
    BY <1>0, InputKept
  <1>3. /\ Inject!Top = stack[n] /\ stack[n].next \in 1..(Len(deps[stack[n].type]) + 1)
        /\ stack[n].next \notin Params(stack[n].type)
    BY <1>0, <1>1, TopFrame
  <1>4. f \in Frames /\ f.type = stack[n].type /\ f.next = 1 /\ f.pass = "all"
    BY <1>1, <1>3, NewFrame
  <1> HIDE DEF f
  <1>5. /\ stack' \in Seq(Frames) /\ Len(stack') = n /\ stack' # <<>> /\ stack'[n] = f
        /\ \A i \in 1..n : i # n => stack'[i] = stack[i]
    BY <1>0, <1>1, <1>4, MovedFrames
  <1> HIDE DEF n
  <1>6. Levels' = 1..n /\ \A i \in 1..n : stack'[i].type = stack[i].type
    BY <1>1, <1>4, <1>5 DEF Levels
  <1>7. Stacked'
    <2>1. ASSUME NEW i \in 1..n PROVE stack'[i].next \in 1..(Len(deps[stack'[i].type]) + 1)
      <3>1. CASE i = n
        <4>1. Len(deps[stack[n].type]) \in Nat
          BY <1>1
        <4> QED BY <1>4, <1>5, <3>1, <4>1
      <3>2. CASE i # n
        BY <1>1, <1>5, <3>2 DEF Stacked
      <3> QED BY <3>1, <3>2
    <2>2. ASSUME NEW i \in 1..n, NEW j \in 1..n, stack'[i].type = stack'[j].type PROVE i = j
      BY <1>1, <1>6, <2>2 DEF Stacked
    <2> QED BY <1>2, <1>6, <2>1, <2>2 DEF Stacked, SameInput
  <1>8. Waits'
    <2>1. ASSUME NEW i \in 1..n
          PROVE  /\ i = 1 <=> stack'[i].type = Handler
                 /\ i > 1 => kind[stack'[i].type] = "provider" /\ stack'[i].type \notin cache'
      BY <1>0, <1>1, <1>6 DEF Waits
    <2>2. ASSUME NEW i \in 1..n, i < n
          PROVE  /\ stack'[i].pass = "all" /\ stack'[i].next \in Params(stack'[i].type)
                 /\ Dep(stack'[i].type, stack'[i].next) = stack'[i + 1].type
      <3>1. i \in Levels /\ i # n /\ i + 1 \in 1..n
        BY <1>1, <2>2
      <3>2. /\ stack[i].pass = "all" /\ stack[i].next \in Params(stack[i].type)
            /\ Dep(stack[i].type, stack[i].next) = stack[i + 1].type
        BY <1>1, <2>2, <3>1 DEF Waits, n
      <3> QED BY <1>5, <1>6, <3>1, <3>2
    <2> QED BY <1>2, <1>5, <1>6, <2>1, <2>2 DEF Waits, SameInput
  <1>9. Got'
    <2>1. ASSUME NEW i \in 1..n, NEW j \in Params(stack'[i].type)
          PROVE  /\ (stack'[i].pass = "all" \/ j < stack'[i].next) /\ kind[Dep(stack'[i].type, j)] = "meta" =>
                      Dep(stack'[i].type, j) \in cache'
                 /\ stack'[i].pass = "all" /\ j < stack'[i].next => Dep(stack'[i].type, j) \in cache'
      <3>1. CASE i # n
        BY <1>0, <1>1, <1>5, <3>1 DEF Got
      <3>2. CASE i = n
        <4>1. j \in Params(stack[n].type) /\ j \in Nat /\ ~(j < 1)
          BY <1>1, <1>6, <3>2
        <4>2. j < stack[n].next
          BY <1>1, <1>3, <4>1
        <4>3. kind[Dep(stack[n].type, j)] = "meta" => Dep(stack[n].type, j) \in cache
          BY <1>1, <4>1, <4>2 DEF Got
        <4> QED BY <1>0, <1>4, <1>5, <3>2, <4>1, <4>3
      <3> QED BY <3>1, <3>2
    <2> QED BY <1>2, <1>6, <2>1 DEF Got, SameInput
  <1>10. stack'[1].pass = "meta" => stack[1].pass = "meta"
    BY <1>1, <1>4, <1>5
  <1> QED BY <1>0, <1>5, <1>7, <1>8, <1>9, <1>10, ResolveKept

\* The resolution fails with a reason.
LEMMA FailKeeps ==
  ASSUME InjectInv, UNCHANGED Inject!input, phase = "resolving",
         NEW why \in {"header", "provider", "unregistered"},
         Inject!Fail(why), visit' = visit, cache' = cache, cleanups' = cleanups, released' = released,
         crashed' = crashed, built' \in Seq(DepTypes), Inject!BuiltOnceInOrder', Inject!OwnHeadersFirst',
         \A i \in 1..Len(built) : \E j \in 1..Len(built') : built'[j] = built[i]
  PROVE  InjectInv'
  <1>1. /\ phase' = "closing" /\ stack' = <<>> /\ failure' = [why |-> why, at |-> Inject!Top.type]
    BY DEF Inject!Fail
  <1>2. /\ Inputs' /\ SameInput /\ Stacked' /\ SearchInv' /\ ResolveInv' /\ phase' \in Inject!Phases
        /\ stack' \in Seq(Frames)
    BY <1>1, StackGone
  <1>3. Inject!Top.type \in Owners /\ States
    BY Resolving, TopFrame
  <1>4. failure' \in Failures
    BY <1>1, <1>3 DEF Failures
  <1>5. States'
    BY <1>2, <1>3, <1>4 DEF States, SameInput
  <1>6. CacheInv'
    <2>1. CacheInv
      BY DEF InjectInv
    <2>2. \A t \in cache' : kind'[t] = "provider" => \E i \in 1..Len(built') : built'[i] = t
      BY <1>2, <2>1 DEF CacheInv, SameInput
    <2> QED BY <1>2, <2>1, <2>2 DEF CacheInv, SameInput
  <1>7. CleanupsInv'
    <2>1. released = <<>>
      BY DEF InjectInv, CleanupsInv
    <2> QED BY <1>1, <1>2, <2>1 DEF InjectInv, CleanupsInv, SameInput
  <1> QED BY <1>2, <1>5, <1>6, <1>7 DEF InjectInv

\* Only resolveAll's frame is the handler's, and its headers come before any provider.
LEMMA MetaFailsKeeps == ASSUME InjectInv, Inject!MetaFails PROVE InjectInv'
  <1> DEFINE n == Len(stack)
             u == Inject!Sub
  <1>0. /\ phase = "resolving" /\ ~Inject!AtEnd /\ kind[u] = "meta" /\ u \notin cache
        /\ Inject!Fail("header") /\ UNCHANGED Inject!input /\ visit' = visit /\ cache' = cache
        /\ cleanups' = cleanups /\ built' = built /\ released' = released /\ crashed' = crashed
    BY DEF Inject!MetaFails, Inject!ResolvesMeta
  <1>1. /\ Inputs /\ States /\ Stacked /\ Waits /\ Got /\ stack # <<>> /\ n \in Levels
        /\ stack[n] \in Frames
    BY <1>0, Resolving
  <1>2. SameInput
    BY <1>0, InputKept
  <1>3. /\ Inject!Top = stack[n] /\ stack[n].next \in Params(stack[n].type)
        /\ u = Dep(stack[n].type, stack[n].next)
    BY <1>0, <1>1, TopFrame
  <1>4. Inject!OwnHeadersFirst'
    <2>1. ASSUME Inject!Top.type = Handler PROVE built = <<>>
      <3>1. n = 1
        BY <1>1, <1>3, <2>1 DEF Waits
      <3>2. stack[n].pass # "all"
        BY <1>0, <1>1, <1>3 DEF Got
      <3>3. stack[1].pass = "meta"
        BY <1>1, <3>1, <3>2 DEF Frames
      <3> QED BY <1>0, <3>3 DEF InjectInv, ResolveInv
    <2>2. failure'.at = Inject!Top.type
      BY <1>0 DEF Inject!Fail
    <2> QED BY <1>0, <2>1, <2>2 DEF Inject!OwnHeadersFirst
  <1>5. Inject!BuiltOnceInOrder' /\ built' \in Seq(DepTypes)
    BY <1>0, <1>2 DEF InjectInv, Inject!BuiltOnceInOrder, SameInput, States
  <1> QED BY <1>0, <1>4, <1>5, FailKeeps

LEMMA ResolveUnregisteredKeeps == ASSUME InjectInv, Inject!ResolveUnregistered PROVE InjectInv'
  <1>0. /\ phase = "resolving" /\ Inject!Fail("unregistered") /\ UNCHANGED Inject!input /\ visit' = visit
        /\ cache' = cache /\ cleanups' = cleanups /\ built' = built /\ released' = released
        /\ crashed' = crashed
    BY DEF Inject!ResolveUnregistered, Inject!Resolving
  <1>1. SameInput
    BY <1>0, InputKept
  <1>2. Inject!OwnHeadersFirst'
    <2>1. failure'.why = "unregistered"
      BY <1>0 DEF Inject!Fail
    <2> QED BY <2>1 DEF Inject!OwnHeadersFirst
  <1>3. Inject!BuiltOnceInOrder' /\ built' \in Seq(DepTypes)
    BY <1>0, <1>1 DEF InjectInv, Inject!BuiltOnceInOrder, SameInput, States
  <1> QED BY <1>0, <1>2, <1>3, FailKeeps

\* A dependency whose value is wanted while it is being resolved would close a cycle.
LEMMA ResolveSubKeeps == ASSUME InjectInv, Inject!ResolveSub PROVE InjectInv'
  <1> DEFINE n == Len(stack)
             u == Inject!Sub
             f == Inject!Frame(u, "meta")
  <1>0. /\ phase = "resolving" /\ Inject!Top.pass = "all" /\ ~Inject!AtEnd /\ stack' = Append(stack, f)
        /\ kind[u] = "provider" /\ u \notin cache
        /\ UNCHANGED Inject!input /\ UNCHANGED Inject!scope /\ phase' = phase /\ visit' = visit
        /\ cache' = cache
    BY DEF Inject!ResolveSub, Inject!Resolving, Inject!scope
  <1>1. /\ Inputs /\ States /\ Stacked /\ Waits /\ Got /\ stack # <<>>
        /\ n \in Nat \ {0} /\ n \in Levels /\ Levels = 1..n
        /\ \A i \in Levels : /\ stack[i] \in Frames /\ stack[i].type \in Owners /\ stack[i].next \in Nat
                             /\ Len(deps[stack[i].type]) \in Nat
                             /\ Params(stack[i].type) = 1..Len(deps[stack[i].type])
    BY <1>0, Resolving
  <1>2. SameInput
    BY <1>0, InputKept
  <1>3. /\ Inject!Top = stack[n] /\ stack[n].next \in Params(stack[n].type)
        /\ u = Dep(stack[n].type, stack[n].next) /\ u \in DepTypes /\ u \in Inject!Edges(stack[n].type)
    BY <1>0, <1>1, TopFrame
  <1>4. f \in Frames /\ f.type = u /\ f.next = 1 /\ f.pass = "meta"
    BY <1>3, NewFrame DEF Owners
  <1>5. Len(deps[u]) \in Nat /\ Params(u) = 1..Len(deps[u])
    BY <1>1, <1>3, EdgesAre DEF Owners, Params
  <1> HIDE DEF f
  <1>6. Handler \notin DepTypes
    BY Parameters DEF Inject!InjectionAssumption
  <1>7. ASSUME NEW i \in Levels, i < n PROVE stack[i + 1].type \in Inject!Edges(stack[i].type)
    <2>1. stack[i].next \in Params(stack[i].type) /\ Dep(stack[i].type, stack[i].next) = stack[i + 1].type
      BY <1>1, <1>7 DEF Waits
    <2> QED BY <1>1, <2>1, EdgesAre
  <1>8. ASSUME NEW k \in Levels, stack[k].type = u PROVE FALSE
    <2>1. k # 1
      BY <1>1, <1>3, <1>6, <1>8 DEF Waits
    <2>2. ASSUME NEW i \in Levels, i >= k PROVE stack[i].type \in DepTypes
      <3>1. i # 1
        BY <1>1, <2>1, <2>2
      <3>2. stack[i].type # Handler
        BY <1>1, <3>1 DEF Waits
      <3> QED BY <1>1, <3>2 DEF Owners
    <2>3. stack \in Seq(Frames)
      BY <1>1 DEF States
    <2>4. Inject!Cyclic
      BY <1>1, <1>3, <1>7, <1>8, <2>2, <2>3, Loop
    <2> QED BY <1>0, <2>4 DEF InjectInv, SearchInv
  <1> HIDE DEF n, u
  <1>9. /\ stack' \in Seq(Frames) /\ Len(stack') = n + 1 /\ stack'[n + 1] = f
        /\ \A i \in 1..n : stack'[i] = stack[i]
    <2>1. stack \in Seq(Frames)
      BY <1>1 DEF States
    <2> QED BY <1>0, <1>4, <2>1, AppendProperties DEF n
  <1>10. Levels' = 1..n + 1 /\ \A i \in 1..n + 1 : i \in 1..n \/ i = n + 1
    BY <1>1, <1>9 DEF Levels
  <1>11. Stacked'
    <2>1. ASSUME NEW i \in 1..n + 1 PROVE stack'[i].next \in 1..(Len(deps[stack'[i].type]) + 1)
      <3>1. CASE i = n + 1
        BY <1>4, <1>5, <1>9, <3>1
      <3>2. CASE i \in 1..n
        BY <1>1, <1>9, <3>2 DEF Stacked
      <3> QED BY <1>10, <3>1, <3>2
    <2>2. ASSUME NEW i \in 1..n + 1, NEW j \in 1..n + 1, stack'[i].type = stack'[j].type PROVE i = j
      BY <1>1, <1>4, <1>8, <1>9, <1>10, <2>2 DEF Stacked
    <2> QED BY <1>2, <1>10, <2>1, <2>2 DEF Stacked, SameInput
  <1>12. Waits'
    <2>1. ASSUME NEW i \in 1..n + 1
          PROVE  /\ i = 1 <=> stack'[i].type = Handler
                 /\ i > 1 => kind[stack'[i].type] = "provider" /\ stack'[i].type \notin cache'
      <3>1. CASE i = n + 1
        <4>1. i # 1
          BY <1>1, <3>1
        <4> QED BY <1>0, <1>3, <1>4, <1>6, <1>9, <3>1, <4>1
      <3>2. CASE i \in 1..n
        BY <1>0, <1>1, <1>9, <3>2 DEF Waits
      <3> QED BY <1>10, <3>1, <3>2
    <2>2. ASSUME NEW i \in 1..n + 1, i < n + 1
          PROVE  /\ stack'[i].pass = "all" /\ stack'[i].next \in Params(stack'[i].type)
                 /\ Dep(stack'[i].type, stack'[i].next) = stack'[i + 1].type
      <3>0. i \in 1..n /\ stack'[i] = stack[i]
        BY <1>1, <1>9, <2>2
      <3>1. CASE i = n
        BY <1>0, <1>3, <1>4, <1>9, <3>0, <3>1
      <3>2. CASE i # n
        <4>1. i < n /\ i + 1 \in 1..n
          BY <1>1, <3>0, <3>2
        <4>2. /\ stack[i].pass = "all" /\ stack[i].next \in Params(stack[i].type)
              /\ Dep(stack[i].type, stack[i].next) = stack[i + 1].type
          BY <1>1, <3>0, <4>1 DEF Waits, n
        <4> QED BY <1>9, <3>0, <4>1, <4>2
      <3> QED BY <3>1, <3>2
    <2> QED BY <1>2, <1>9, <1>10, <2>1, <2>2 DEF Waits, SameInput
  <1>13. Got'
    <2>1. ASSUME NEW i \in 1..n + 1, NEW j \in Params(stack'[i].type)
          PROVE  /\ (stack'[i].pass = "all" \/ j < stack'[i].next) /\ kind[Dep(stack'[i].type, j)] = "meta" =>
                      Dep(stack'[i].type, j) \in cache'
                 /\ stack'[i].pass = "all" /\ j < stack'[i].next => Dep(stack'[i].type, j) \in cache'
      <3>1. CASE i = n + 1
        <4>1. ~(j < 1)
          BY <1>4, <1>5, <1>9, <3>1
        <4> QED BY <1>4, <1>9, <3>1, <4>1
      <3>2. CASE i \in 1..n
        BY <1>0, <1>1, <1>9, <3>2 DEF Got
      <3> QED BY <1>10, <3>1, <3>2
    <2> QED BY <1>2, <1>10, <2>1 DEF Got, SameInput
  <1>14. stack' # <<>>
    <2>1. Len(stack') # 0
      BY <1>1, <1>9
    <2> QED BY <1>9, <2>1, EmptySeq
  <1>15. stack'[1].pass = stack[1].pass
    BY <1>1, <1>9
  <1> QED BY <1>0, <1>9, <1>11, <1>12, <1>13, <1>14, <1>15, ResolveKept

\* When a provider is called, those it takes a value from have run, and it has not.
LEMMA ProviderReady ==
  ASSUME InjectInv, UNCHANGED Inject!input, Inject!Resolving("all"), Inject!AtEnd, Inject!Top.type # Handler,
         built' = Append(built, Inject!Top.type)
  PROVE  /\ Inject!Top.type \in DepTypes /\ Inject!Top.type \notin cache /\ Len(stack) > 1
         /\ kind[Inject!Top.type] = "provider" /\ Inject!Edges(Inject!Top.type) \subseteq cache
         /\ built' \in Seq(DepTypes) /\ Len(built') = Len(built) + 1 /\ Len(built) \in Nat
         /\ built'[Len(built) + 1] = Inject!Top.type /\ \A i \in 1..Len(built) : built'[i] = built[i]
         /\ Inject!BuiltOnceInOrder'
  <1> DEFINE n == Len(stack)
             t == Inject!Top.type
             m == Len(built)
  <1>0. phase = "resolving" /\ Inject!Top.pass = "all"
    BY DEF Inject!Resolving
  <1>1. /\ Inputs /\ States /\ Stacked /\ Waits /\ Got /\ CacheInv /\ stack # <<>>
        /\ n \in Nat \ {0} /\ n \in Levels /\ Levels = 1..n
        /\ stack[n].type \in Owners /\ Len(deps[stack[n].type]) \in Nat
        /\ Params(stack[n].type) = 1..Len(deps[stack[n].type])
    BY <1>0, Resolving
  <1>2. SameInput
    BY InputKept
  <1>3. /\ Inject!Top = stack[n] /\ stack[n].next \in 1..(Len(deps[stack[n].type]) + 1)
        /\ stack[n].next \notin Params(stack[n].type)
    BY <1>0, <1>1, TopFrame
  <1>4. n # 1
    BY <1>1, <1>3 DEF Waits
  <1>5. n > 1
    <2> HIDE DEF n
    <2> QED BY <1>1, <1>4
  <1>6. t \in DepTypes /\ t \notin cache /\ kind[t] = "provider"
    BY <1>1, <1>3, <1>5 DEF Waits, Owners
  <1>7. Inject!Edges(t) \subseteq cache
    <2> SUFFICES ASSUME NEW u \in Inject!Edges(t) PROVE u \in cache
      OBVIOUS
    <2>1. PICK j \in Params(t) : u = Dep(t, j)
      BY <1>1, <1>3, EdgesAre
    <2>2. j < stack[n].next
      BY <1>1, <1>3, <2>1
    <2> QED BY <1>0, <1>1, <1>3, <2>1, <2>2 DEF Got
  <1>8. built \in Seq(DepTypes) /\ m \in Nat
    BY <1>1, LenProperties DEF States
  <1>9. /\ built' \in Seq(DepTypes) /\ Len(built') = m + 1
        /\ built'[m + 1] = t /\ \A i \in 1..m : built'[i] = built[i]
    BY <1>6, <1>8, AppendProperties
  <1>10. DOMAIN built = 1..m /\ DOMAIN built' = 1..m + 1
    BY <1>8, <1>9, LenProperties
  <1> HIDE DEF m, t, n
  <1>11. \A i \in 1..m : built[i] \in cache
    BY <1>0 DEF InjectInv, ResolveInv, m
  <1>12. ASSUME NEW i \in 1..m + 1
         PROVE  /\ \A j \in 1..(i - 1) : built'[j] # built'[i]
                /\ \A u \in Inject!Edges(built'[i]) : kind[u] = "provider" => \E j \in 1..(i - 1) : built'[j] = u
    <2>1. CASE i = m + 1
      <3>1. i - 1 = m
        BY <1>8, <2>1
      <3>2. \A j \in 1..m : built'[j] # built'[i]
        BY <1>6, <1>9, <1>11, <2>1
      <3>3. ASSUME NEW u \in Inject!Edges(t), kind[u] = "provider" PROVE \E j \in 1..m : built'[j] = u
        BY <1>1, <1>7, <1>9, <3>3 DEF CacheInv, m
      <3> QED BY <1>9, <2>1, <3>1, <3>2, <3>3
    <2>2. CASE i \in 1..m
      <3>1. \A j \in 1..(i - 1) : j \in 1..m
        BY <1>8, <2>2
      <3>2. /\ \A j \in 1..(i - 1) : built[j] # built[i]
            /\ \A u \in Inject!Edges(built[i]) : kind[u] = "provider" => \E j \in 1..(i - 1) : built[j] = u
        BY <1>10, <2>2 DEF InjectInv, Inject!BuiltOnceInOrder
      <3> QED BY <1>9, <2>2, <3>1, <3>2
    <2>3. i = m + 1 \/ i \in 1..m
      BY <1>8
    <2> QED BY <2>1, <2>2, <2>3
  <1>13. Inject!BuiltOnceInOrder'
    <2>1. kind' = kind /\ \A u : Inject!Edges(u)' = Inject!Edges(u)
      BY <1>2 DEF SameInput
    <2>2. \A i \in 1..m + 1 : Inject!Edges(built[i])' = Inject!Edges(built'[i])
      BY <2>1 DEF Inject!Edges, Inject!ToSet, Inject!input
    <2> SUFFICES ASSUME NEW i \in 1..m + 1
                 PROVE  /\ \A j \in 1..(i - 1) : built'[j] # built'[i]
                        /\ \A u \in Inject!Edges(built[i])' :
                             kind'[u] = "provider" => \E j \in 1..(i - 1) : built'[j] = u
      BY <1>10 DEF Inject!BuiltOnceInOrder
    <2> QED BY <1>12, <2>1, <2>2
  <1> QED BY <1>5, <1>6, <1>7, <1>8, <1>9, <1>13 DEF n, m, t

LEMMA ProviderFailsKeeps == ASSUME InjectInv, Inject!ProviderFails PROVE InjectInv'
  <1>0. /\ Inject!Resolving("all") /\ phase = "resolving" /\ Inject!AtEnd /\ Inject!Top.type # Handler
        /\ built' = Append(built, Inject!Top.type) /\ Inject!Fail("provider") /\ UNCHANGED Inject!input
        /\ visit' = visit /\ cache' = cache /\ cleanups' = cleanups /\ released' = released
        /\ crashed' = crashed
    BY DEF Inject!ProviderFails, Inject!Resolving
  <1>1. /\ built' \in Seq(DepTypes) /\ Len(built') = Len(built) + 1 /\ Len(built) \in Nat
        /\ \A i \in 1..Len(built) : built'[i] = built[i]
        /\ Inject!BuiltOnceInOrder'
    BY <1>0, ProviderReady
  <1>2. Inject!OwnHeadersFirst'
    <2>1. failure'.why = "provider"
      BY <1>0 DEF Inject!Fail
    <2> QED BY <2>1 DEF Inject!OwnHeadersFirst
  <1>3. \A i \in 1..Len(built) : \E j \in 1..Len(built') : built'[j] = built[i]
    BY <1>1
  <1> QED BY <1>0, <1>1, <1>2, <1>3, FailKeeps

\* The stack after a provider has returned: the frame below is at its next parameter.
Returned == stack' = [Inject!Front(stack) EXCEPT ![Len(stack) - 1].next = @ + 1]
LEMMA ReturnedFrames ==
  ASSUME States, Len(stack) > 1, stack # <<>>, Returned
  PROVE  /\ stack' \in Seq(Frames) /\ Len(stack') = Len(stack) - 1
         /\ \A i \in 1..(Len(stack) - 1) :
              /\ stack'[i].type = stack[i].type /\ stack'[i].pass = stack[i].pass
              /\ stack'[i].next = IF i = Len(stack) - 1 THEN stack[i].next + 1 ELSE stack[i].next
  <1> DEFINE n == Len(stack)
             m == n - 1
             s == Inject!Front(stack)
             f == [s[m] EXCEPT !.next = @ + 1]
  <1>1. /\ s \in Seq(Frames) /\ Len(s) = m /\ n \in Nat \ {0} /\ \A i \in 1..m : s[i] = stack[i]
    BY FrontIs DEF States
  <1>2. m \in 1..m /\ m \in Nat
    <2> HIDE DEF n
    <2> QED BY <1>1 DEF n
  <1>3. stack' = [s EXCEPT ![m] = f]
    BY DEF Returned
  <1> HIDE DEF s, n, m
  <1>4. s[m] \in Frames /\ s[m] = stack[m]
    BY <1>1, <1>2, ElementOfSeq
  <1>5. f \in Frames /\ f.type = stack[m].type /\ f.pass = stack[m].pass /\ f.next = stack[m].next + 1
    BY <1>4 DEF Frames
  <1> HIDE DEF f
  <1>6. /\ stack' \in Seq(Frames) /\ Len(stack') = m
        /\ \A i \in 1..m : stack'[i] = IF i = m THEN f ELSE s[i]
    <2>1. m \in 1..Len(s)
      BY <1>1, <1>2
    <2>2. /\ [s EXCEPT ![m] = f] \in Seq(Frames) /\ Len([s EXCEPT ![m] = f]) = Len(s)
          /\ \A i \in 1..Len(s) : [s EXCEPT ![m] = f][i] = IF i = m THEN f ELSE s[i]
      BY <1>1, <1>5, <2>1, ExceptSeq
    <2> QED BY <1>1, <1>3, <2>2
  <1>7. \A i \in 1..m : /\ stack'[i].type = stack[i].type /\ stack'[i].pass = stack[i].pass
                        /\ stack'[i].next = IF i = m THEN stack[i].next + 1 ELSE stack[i].next
    <2> TAKE i \in 1..m
    <2>1. CASE i = m
      BY <1>5, <1>6, <2>1
    <2>2. CASE i # m
      <3>1. stack'[i] = stack[i]
        BY <1>1, <1>6, <2>2
      <3>2. (IF i = m THEN stack[i].next + 1 ELSE stack[i].next) = stack[i].next
        BY <2>2
      <3> QED BY <3>1, <3>2
    <2> QED BY <2>1, <2>2
  <1> QED BY <1>6, <1>7 DEF m, n

LEMMA CallProviderKeeps ==
  ASSUME InjectInv, NEW cleanup \in BOOLEAN, Inject!CallProvider(cleanup) PROVE InjectInv'
  <1> DEFINE n == Len(stack)
             m == n - 1
             t == Inject!Top.type
             b == Len(built)
  <1>0. /\ Inject!Resolving("all") /\ phase = "resolving" /\ Inject!AtEnd /\ t # Handler
        /\ built' = Append(built, t) /\ cache' = cache \cup {t} /\ UNCHANGED Inject!input
        /\ cleanups' = IF cleanup THEN Append(cleanups, t) ELSE cleanups
        /\ Returned /\ phase' = phase /\ visit' = visit /\ released' = released /\ failure' = failure
        /\ crashed' = crashed
    BY DEF Inject!CallProvider, Inject!Resolving, Inject!Keep, Inject!AddCleanup, Returned
  <1>1. /\ Inputs /\ States /\ Stacked /\ Waits /\ Got /\ CacheInv /\ stack # <<>>
        /\ n \in Nat \ {0} /\ n \in Levels /\ Levels = 1..n
        /\ \A i \in Levels : /\ stack[i] \in Frames /\ stack[i].type \in Owners /\ stack[i].next \in Nat
                             /\ Len(deps[stack[i].type]) \in Nat
                             /\ Params(stack[i].type) = 1..Len(deps[stack[i].type])
    BY <1>0, Resolving
  <1>2. SameInput /\ Inputs'
    BY <1>0, <1>1, InputKept
  <1>3. /\ t \in DepTypes /\ t \notin cache /\ n > 1 /\ kind[t] = "provider"
        /\ Inject!Edges(t) \subseteq cache
        /\ built' \in Seq(DepTypes) /\ Len(built') = b + 1 /\ b \in Nat
        /\ built'[b + 1] = t /\ (\A i \in 1..b : built'[i] = built[i])
        /\ Inject!BuiltOnceInOrder'
    BY <1>0, ProviderReady
  <1>4. t = stack[n].type
    BY <1>1, TopFrame
  <1>5. /\ stack' \in Seq(Frames) /\ Len(stack') = m
        /\ \A i \in 1..m : /\ stack'[i].type = stack[i].type /\ stack'[i].pass = stack[i].pass
                           /\ stack'[i].next = IF i = m THEN stack[i].next + 1 ELSE stack[i].next
    BY <1>0, <1>1, <1>3, ReturnedFrames
  <1> HIDE DEF n, t, b
  <1>6. /\ m \in Nat /\ m \in 1..m /\ m \in Levels /\ m < n /\ m + 1 = n /\ Levels' = 1..m
        /\ \A i \in 1..m : i \in Levels /\ i < n /\ i # n
    <2>1. m \in Nat /\ m \in 1..m /\ m \in 1..n /\ m < n /\ m + 1 = n
          /\ \A i \in 1..m : i \in 1..n /\ i < n /\ i # n
      BY <1>1, <1>3
    <2> QED BY <1>1, <1>5, <2>1 DEF Levels
  <1> HIDE DEF m
  <1>7. /\ stack[m].pass = "all" /\ stack[m].next \in Params(stack[m].type)
        /\ Dep(stack[m].type, stack[m].next) = t
    BY <1>1, <1>4, <1>6 DEF Waits, n
  <1>8. \A i \in 1..m : stack[i].type # t
    BY <1>1, <1>4, <1>6 DEF Stacked
  <1>9. Stacked'
    <2>1. ASSUME NEW i \in 1..m PROVE stack'[i].next \in 1..(Len(deps[stack'[i].type]) + 1)
      <3>1. CASE i = m
        <4>1. stack'[m].type = stack[m].type /\ stack'[m].next = stack[m].next + 1
          BY <1>5, <1>6
        <4>2. stack[m].next \in 1..Len(deps[stack[m].type]) /\ Len(deps[stack[m].type]) \in Nat
          BY <1>1, <1>6, <1>7
        <4> QED BY <3>1, <4>1, <4>2
      <3>2. CASE i # m
        BY <1>1, <1>5, <1>6, <3>2 DEF Stacked
      <3> QED BY <3>1, <3>2
    <2>2. ASSUME NEW i \in 1..m, NEW j \in 1..m, stack'[i].type = stack'[j].type PROVE i = j
      BY <1>1, <1>5, <1>6, <2>2 DEF Stacked
    <2> QED BY <1>2, <1>6, <2>1, <2>2 DEF Stacked, SameInput
  <1>10. Waits'
    <2>1. ASSUME NEW i \in 1..m
          PROVE  /\ i = 1 <=> stack'[i].type = Handler
                 /\ i > 1 => kind[stack'[i].type] = "provider" /\ stack'[i].type \notin cache'
      <3>1. /\ i = 1 <=> stack[i].type = Handler
            /\ i > 1 => kind[stack[i].type] = "provider" /\ stack[i].type \notin cache
        BY <1>1, <1>6 DEF Waits
      <3>2. stack'[i].type = stack[i].type /\ stack[i].type # t
        BY <1>5, <1>8
      <3> QED BY <1>0, <3>1, <3>2
    <2>2. ASSUME NEW i \in 1..m, i < m
          PROVE  /\ stack'[i].pass = "all" /\ stack'[i].next \in Params(stack'[i].type)
                 /\ Dep(stack'[i].type, stack'[i].next) = stack'[i + 1].type
      <3>1. i \in Levels /\ i # m /\ i + 1 \in 1..m /\ i < n
        BY <1>1, <1>6, <2>2
      <3>2. /\ stack[i].pass = "all" /\ stack[i].next \in Params(stack[i].type)
            /\ Dep(stack[i].type, stack[i].next) = stack[i + 1].type
        BY <1>1, <3>1 DEF Waits, n
      <3> QED BY <1>5, <3>1, <3>2
    <2> QED BY <1>2, <1>5, <1>6, <2>1, <2>2 DEF Waits, SameInput
  <1>11. Got'
    <2>1. ASSUME NEW i \in 1..m, NEW j \in Params(stack'[i].type)
          PROVE  /\ (stack'[i].pass = "all" \/ j < stack'[i].next) /\ kind[Dep(stack'[i].type, j)] = "meta" =>
                      Dep(stack'[i].type, j) \in cache'
                 /\ stack'[i].pass = "all" /\ j < stack'[i].next => Dep(stack'[i].type, j) \in cache'
      <3>1. /\ stack'[i].type = stack[i].type /\ stack'[i].pass = stack[i].pass /\ i \in Levels
            /\ stack'[i].next = IF i = m THEN stack[i].next + 1 ELSE stack[i].next
            /\ j \in Nat /\ stack[i].next \in Nat
        BY <1>1, <1>5, <1>6
      <3>2. /\ (stack[i].pass = "all" \/ j < stack[i].next) /\ kind[Dep(stack[i].type, j)] = "meta" =>
                 Dep(stack[i].type, j) \in cache
            /\ stack[i].pass = "all" /\ j < stack[i].next => Dep(stack[i].type, j) \in cache
        BY <1>1, <3>1 DEF Got
      <3>3. CASE i = m /\ j = stack[m].next
        <4>1. Dep(stack'[i].type, j) = t
          BY <1>7, <3>1, <3>3
        <4> QED BY <1>0, <4>1
      <3>4. CASE j < stack[i].next
        BY <1>0, <3>1, <3>2, <3>4
      <3>5. CASE ~(i = m /\ j = stack[m].next) /\ ~(j < stack[i].next)
        <4>1. ~(j < stack'[i].next)
          BY <3>1, <3>5
        <4> QED BY <1>0, <3>1, <3>2, <4>1
      <3> QED BY <3>3, <3>4, <3>5
    <2> QED BY <1>2, <1>6, <2>1 DEF Got, SameInput
  <1>12. cleanups \in Seq(DepTypes) /\ Len(cleanups) \in Nat /\ \A i \in 1..Len(cleanups) : cleanups[i] \in cache
    <2>1. cleanups \in Seq(DepTypes)
      BY <1>1 DEF States
    <2> QED BY <1>1, <2>1, LenProperties DEF CacheInv
  <1>13. PICK c : /\ c \in {Len(cleanups), Len(cleanups) + 1}
                  /\ cleanups' \in Seq(DepTypes) /\ Len(cleanups') = c
                  /\ \A i \in 1..Len(cleanups) : cleanups'[i] = cleanups[i]
                  /\ c = Len(cleanups) + 1 => cleanups'[c] = t
    <2>1. CASE cleanup
      <3>1. cleanups' = Append(cleanups, t)
        BY <1>0, <2>1
      <3> QED BY <1>3, <1>12, <3>1, AppendProperties
    <2>2. CASE ~cleanup
      <3>1. cleanups' = cleanups
        BY <1>0, <2>2
      <3>2. Len(cleanups) # Len(cleanups) + 1
        BY <1>12
      <3> QED BY <1>12, <3>1, <3>2
    <2> QED BY <2>1, <2>2
  <1>14. States'
    <2>1. t \in Inject!Registered
      BY <1>3 DEF Inject!Registered
    <2> QED BY <1>0, <1>1, <1>2, <1>3, <1>5, <1>13, <2>1 DEF States, SameInput
  <1>15. SearchInv'
    BY <1>0, <1>2 DEF InjectInv, SearchInv, SameInput
  <1>16. ResolveInv'
    <2>1. stack' # <<>>
      <3>1. Len(stack') # 0
        BY <1>5, <1>6
      <3> QED BY <1>5, <3>1, EmptySeq
    <2>2. 1 \in 1..m /\ 1 \in Levels /\ 1 < n
      BY <1>1, <1>6
    <2>3. stack'[1].pass = "all"
      BY <1>1, <1>5, <2>2 DEF Waits, n
    <2>4. \A i \in 1..b : built[i] \in cache
      BY <1>0 DEF InjectInv, ResolveInv, b
    <2>5. \A i \in 1..b + 1 : i \in 1..b \/ i = b + 1
      BY <1>3
    <2>6. \A i \in 1..Len(built') : built'[i] \in cache'
      BY <1>0, <1>3, <2>4, <2>5
    <2>7. failure' = Inject!NoFailure
      BY <1>0 DEF InjectInv, ResolveInv
    <2> QED BY <1>10, <1>11, <2>1, <2>3, <2>6, <2>7 DEF ResolveInv, Inject!NoFailure
  <1>17. CacheInv'
    <2>1. \A u \in cache' : Inject!Edges(u) \subseteq cache'
      BY <1>0, <1>1, <1>3 DEF CacheInv
    <2>2. \A u \in cache' : kind[u] = "provider" => \E i \in 1..Len(built') : built'[i] = u
      <3>1. b + 1 \in 1..b + 1 /\ \A i \in 1..b : i \in 1..b + 1
        BY <1>3
      <3>2. \A u \in cache : kind[u] = "provider" => \E i \in 1..b : built[i] = u
        BY <1>1 DEF CacheInv, b
      <3> QED BY <1>0, <1>3, <3>1, <3>2
    <2>3. \A i \in 1..Len(cleanups') : cleanups'[i] \in cache'
      <3>1. \A i \in 1..c : i \in 1..Len(cleanups) \/ (c = Len(cleanups) + 1 /\ i = c)
        BY <1>12, <1>13
      <3> QED BY <1>0, <1>12, <1>13, <3>1
    <2> QED BY <1>2, <2>1, <2>2, <2>3 DEF CacheInv, SameInput
  <1>18. CleanupsInv'
    <2>1. released' = <<>>
      BY <1>0 DEF InjectInv, CleanupsInv
    <2>2. ASSUME NEW i \in 1..c, NEW j \in 1..c, i < j
          PROVE  cleanups'[i] # cleanups'[j] /\ cleanups'[j] \notin Inject!Edges(cleanups'[i])
      <3>1. i \in 1..Len(cleanups) /\ (j \in 1..Len(cleanups) \/ (c = Len(cleanups) + 1 /\ j = c))
        BY <1>12, <1>13, <2>2
      <3>2. CASE j \in 1..Len(cleanups)
        BY <1>13, <2>2, <3>1, <3>2 DEF InjectInv, CleanupsInv
      <3>3. CASE c = Len(cleanups) + 1 /\ j = c
        <4>1. cleanups'[j] = t /\ cleanups'[i] = cleanups[i] /\ cleanups[i] \in cache
          BY <1>12, <1>13, <3>1, <3>3
        <4> QED BY <1>1, <1>3, <4>1 DEF CacheInv
      <3> QED BY <3>1, <3>2, <3>3
    <2>3. \A i, j \in 1..Len(cleanups') : i < j =>
            cleanups'[i] # cleanups'[j] /\ cleanups'[j] \notin Inject!Edges(cleanups[i])'
      <3>1. \A i \in 1..c : Inject!Edges(cleanups[i])' = Inject!Edges(cleanups'[i])
        BY <1>2 DEF Inject!Edges, Inject!ToSet, SameInput
      <3> QED BY <1>13, <2>2, <3>1
    <2> QED BY <1>0, <2>1, <2>3 DEF CleanupsInv
  <1>19. Inject!OwnHeadersFirst'
    <2>1. failure'.why = "none"
      BY <1>0 DEF InjectInv, ResolveInv, Inject!NoFailure
    <2> QED BY <2>1 DEF Inject!OwnHeadersFirst
  <1> QED BY <1>2, <1>3, <1>9, <1>14, <1>15, <1>16, <1>17, <1>18, <1>19 DEF InjectInv

LEMMA RunHandlerKeeps == ASSUME InjectInv, Inject!RunHandler \/ Inject!HandlerEnds PROVE InjectInv'
  <1>0. /\ phase \in {"resolving", "running"} /\ phase' \in {"running", "closing"} /\ stack' = <<>>
        /\ UNCHANGED Inject!input /\ UNCHANGED Inject!scope /\ visit' = visit
    <2>1. phase = "running" => stack = <<>>
      BY DEF InjectInv, CleanupsInv
    <2> QED BY <2>1 DEF Inject!RunHandler, Inject!HandlerEnds, Inject!Resolving
  <1>1. /\ Inputs' /\ SameInput /\ Stacked' /\ SearchInv' /\ ResolveInv' /\ phase' \in Inject!Phases
        /\ stack' \in Seq(Frames)
    BY <1>0, StackGone
  <1>2. /\ CacheInv' /\ CleanupsInv' /\ Inject!BuiltOnceInOrder' /\ Inject!OwnHeadersFirst'
        /\ cache' \subseteq Inject!Registered' /\ cleanups' \in Seq(DepTypes) /\ built' \in Seq(DepTypes)
        /\ released' \in Seq(DepTypes) /\ failure' \in Failures /\ crashed' \in BOOLEAN
    BY <1>0, ScopeKept
  <1>3. States'
    BY <1>0, <1>1, <1>2 DEF InjectInv, States
  <1> QED BY <1>1, <1>2, <1>3 DEF InjectInv

-------------------------------------------------------------------------------
(* depScope.close.                                                         *)

\* The last cleanup of the list runs: nobody that is left was built after it.
LEMMA CleanupKeeps == ASSUME InjectInv, Inject!Cleanup \/ Inject!CleanupPanics PROVE InjectInv'
  <1> DEFINE n == Len(cleanups)
             m == n - 1
             c == cleanups[n]
             r == Len(released)
  <1>0. /\ phase = "closing" /\ cleanups # <<>> /\ released' = Append(released, Inject!Last(cleanups))
        /\ cleanups' = Inject!Front(cleanups) /\ UNCHANGED Inject!input /\ visit' = visit /\ stack' = stack
        /\ cache' = cache /\ built' = built /\ failure' = failure
        /\ (phase' = phase /\ crashed' = crashed) \/ (phase' = "done" /\ crashed' = TRUE)
    BY DEF Inject!Cleanup, Inject!CleanupPanics
  <1>1. States /\ CacheInv /\ CleanupsInv /\ stack = <<>>
    BY <1>0 DEF InjectInv, CleanupsInv
  <1>2. /\ Inputs' /\ SameInput /\ Stacked' /\ SearchInv' /\ ResolveInv' /\ phase' \in Inject!Phases
        /\ stack' \in Seq(Frames)
    BY <1>0, <1>1, StackGone
  <1>3. /\ cleanups' \in Seq(DepTypes) /\ Len(cleanups') = m /\ n \in Nat \ {0}
        /\ (\A i \in 1..m : cleanups'[i] = cleanups[i]) /\ Inject!Last(cleanups) = c /\ c \in DepTypes
    <2>1. cleanups \in Seq(DepTypes)
      BY <1>1 DEF States
    <2>2. /\ Inject!Front(cleanups) \in Seq(DepTypes) /\ Len(Inject!Front(cleanups)) = Len(cleanups) - 1
          /\ Len(cleanups) \in Nat \ {0}
          /\ \A i \in 1..(Len(cleanups) - 1) : Inject!Front(cleanups)[i] = cleanups[i]
          /\ Inject!Last(cleanups) = cleanups[Len(cleanups)] /\ Inject!Last(cleanups) \in DepTypes
      BY <1>0, <2>1, FrontIs
    <2> QED BY <1>0, <2>2
  <1>4. /\ released' \in Seq(DepTypes) /\ Len(released') = r + 1 /\ r \in Nat /\ released'[r + 1] = c
        /\ \A i \in 1..r : released'[i] = released[i]
    BY <1>0, <1>1, <1>3, AppendProperties, LenProperties DEF States
  <1> HIDE DEF n, c, r
  <1>5. /\ m \in Nat /\ n \in 1..n /\ (\A i \in 1..m : i \in 1..n /\ i < n)
        /\ \A i \in 1..r + 1 : i \in 1..r \/ i = r + 1
    BY <1>3, <1>4
  <1> HIDE DEF m
  <1>6. States'
    <2>1. crashed' \in BOOLEAN
      BY <1>0, <1>1 DEF States
    <2> QED BY <1>0, <1>1, <1>2, <1>3, <1>4, <2>1 DEF States, SameInput
  <1>7. CacheInv'
    <2>1. \A i \in 1..Len(cleanups') : cleanups'[i] \in cache
      BY <1>1, <1>3, <1>5 DEF CacheInv, n
    <2> QED BY <1>0, <1>1, <1>2, <2>1 DEF CacheInv, SameInput
  <1>8. CleanupsInv'
    <2>1. ASSUME NEW i \in 1..m, NEW j \in 1..m, i < j
          PROVE  cleanups'[i] # cleanups'[j] /\ cleanups'[j] \notin Inject!Edges(cleanups'[i])
      BY <1>1, <1>3, <1>5, <2>1 DEF CleanupsInv, n
    <2>2. ASSUME NEW i \in 1..r + 1, NEW j \in 1..m
          PROVE  released'[i] # cleanups'[j] /\ released'[i] \notin Inject!Edges(cleanups'[j])
      <3>1. cleanups'[j] = cleanups[j] /\ j \in 1..n /\ j < n
        BY <1>3, <1>5
      <3>2. CASE i \in 1..r
        BY <1>1, <1>4, <3>1, <3>2 DEF CleanupsInv, n, r
      <3>3. CASE i = r + 1
        BY <1>1, <1>4, <1>5, <3>1, <3>3 DEF CleanupsInv, n, c
      <3> QED BY <1>5, <3>2, <3>3
    <2>3. ASSUME NEW i \in 1..r PROVE released'[i] # c
      BY <1>1, <1>4, <1>5 DEF CleanupsInv, n, r, c
    <2>4. ASSUME NEW i \in 1..r + 1, NEW j \in 1..r + 1, released'[i] = released'[j] PROVE i = j
      <3>1. CASE i \in 1..r /\ j \in 1..r
        BY <1>1, <1>4, <2>4, <3>1 DEF CleanupsInv, r
      <3>2. CASE i = r + 1 /\ j = r + 1
        BY <3>2
      <3>3. CASE (i \in 1..r /\ j = r + 1) \/ (j \in 1..r /\ i = r + 1)
        BY <1>4, <2>3, <2>4, <3>3
      <3> QED BY <1>5, <3>1, <3>2, <3>3
    <2>5. \A i \in 1..m : Inject!Edges(cleanups[i])' = Inject!Edges(cleanups'[i])
      BY <1>2 DEF Inject!Edges, Inject!ToSet, SameInput
    <2>6. /\ \A i, j \in 1..Len(cleanups') : i < j =>
               cleanups'[i] # cleanups'[j] /\ cleanups'[j] \notin Inject!Edges(cleanups[i])'
          /\ \A i \in 1..Len(released'), j \in 1..Len(cleanups') :
               released'[i] # cleanups'[j] /\ released'[i] \notin Inject!Edges(cleanups[j])'
          /\ \A i, j \in 1..Len(released') : released'[i] = released'[j] => i = j
      BY <1>3, <1>4, <2>1, <2>2, <2>4, <2>5
    <2>7. phase' \in {"closing", "done"} /\ (phase' = "done" => crashed')
      BY <1>0
    <2> QED BY <1>0, <1>1, <2>6, <2>7 DEF CleanupsInv
  <1>9. Inject!BuiltOnceInOrder' /\ Inject!OwnHeadersFirst'
    BY <1>0, <1>2 DEF InjectInv, Inject!BuiltOnceInOrder, Inject!OwnHeadersFirst, SameInput
  <1> QED BY <1>2, <1>6, <1>7, <1>8, <1>9 DEF InjectInv

LEMMA ClosedKeeps == ASSUME InjectInv, Inject!Closed PROVE InjectInv'
  <1>0. /\ phase = "closing" /\ phase' = "done" /\ cleanups = <<>> /\ UNCHANGED Inject!input
        /\ visit' = visit /\ stack' = stack /\ UNCHANGED Inject!scope
    BY DEF Inject!Closed, Inject!Closes
  <1>1. /\ cache' = cache /\ cleanups' = cleanups /\ built' = built /\ released' = released
        /\ failure' = failure /\ crashed' = crashed
    BY <1>0 DEF Inject!scope
  <1>2. States /\ CacheInv /\ CleanupsInv /\ stack = <<>>
    BY <1>0 DEF InjectInv, CleanupsInv
  <1>3. /\ Inputs' /\ SameInput /\ Stacked' /\ SearchInv' /\ ResolveInv' /\ phase' \in Inject!Phases
        /\ stack' \in Seq(Frames)
    BY <1>0, <1>2, StackGone
  <1>4. States'
    BY <1>0, <1>1, <1>2, <1>3 DEF States, SameInput
  <1>5. CacheInv'
    BY <1>1, <1>2, <1>3 DEF CacheInv, SameInput
  <1>6. CleanupsInv'
    BY <1>0, <1>1, <1>2, <1>3 DEF CleanupsInv, SameInput
  <1>7. Inject!BuiltOnceInOrder' /\ Inject!OwnHeadersFirst'
    BY <1>1, <1>3 DEF InjectInv, Inject!BuiltOnceInOrder, Inject!OwnHeadersFirst, SameInput
  <1> QED BY <1>3, <1>4, <1>5, <1>6, <1>7 DEF InjectInv

-------------------------------------------------------------------------------
(* InjectInv holds in every state, and says what is promised.              *)

LEMMA InjectInitially == ASSUME Inject!Init PROVE InjectInv
  <1>0. /\ kind \in [DepTypes -> {"absent", "meta", "provider"}]
        /\ deps \in [Owners -> Inject!Lists]
        /\ \A t \in DepTypes : kind[t] # "provider" => deps[t] = <<>>
        /\ Inject!Edges(Handler) \subseteq Inject!Registered
        /\ phase = "registering" /\ visit = [t \in DepTypes |-> "unvisited"] /\ stack = <<>>
        /\ cache = {} /\ cleanups = <<>> /\ built = <<>> /\ released = <<>>
        /\ failure = Inject!NoFailure /\ crashed = FALSE
    BY DEF Inject!Init, Owners
  <1>1. \A s \in Inject!Lists : s \in Seq(DepTypes) /\ Len(s) <= MaxDeps
    <2> SUFFICES ASSUME NEW n \in 0..MaxDeps, NEW s \in [1..n -> DepTypes]
                 PROVE  s \in Seq(DepTypes) /\ Len(s) <= MaxDeps
      BY DEF Inject!Lists
    <2>1. MaxDeps \in Nat /\ n \in Nat
      BY Parameters DEF Inject!InjectionAssumption
    <2>2. s \in Seq(DepTypes)
      BY <2>1, SeqDef
    <2>3. Len(s) = n
      BY <2>1, <2>2, LenProperties
    <2> QED BY <2>1, <2>2, <2>3
  <1>2. Inputs
    BY <1>0, <1>1 DEF Inputs
  <1>3. Inject!NoFailure \in Failures
    BY DEF Inject!NoFailure, Failures, Owners
  <1>4. States
    <2>1. visit \in [DepTypes -> {"unvisited", "visiting", "visited"}]
      BY <1>0
    <2>2. failure \in Failures /\ cache \subseteq Inject!Registered /\ phase \in Inject!Phases
      BY <1>0, <1>3 DEF Inject!Phases
    <2>3. crashed \in BOOLEAN
      BY <1>0
    <2>4. /\ stack \in Seq(Frames) /\ cleanups \in Seq(DepTypes) /\ built \in Seq(DepTypes)
          /\ released \in Seq(DepTypes)
      BY <1>0
    <2> QED BY <2>1, <2>2, <2>3, <2>4 DEF States
  <1>5. Levels = {} /\ Len(cleanups) = 0 /\ Len(built) = 0 /\ Len(released) = 0 /\ DOMAIN built = {}
    BY <1>0 DEF Levels
  <1>6. Fresh
    BY <1>0 DEF Fresh
  <1>7. Stacked /\ Path /\ Behind
    BY <1>5 DEF Stacked, Path, Behind
  <1>8. Visited = {} /\ \A t \in DepTypes : visit[t] # "visiting"
    BY <1>0 DEF Visited
  <1>9. Open /\ Left
    BY <1>5, <1>8 DEF Open, Left, Acyclic
  <1>10. SearchInv /\ ResolveInv
    BY <1>0, <1>6, <1>7, <1>9 DEF SearchInv, ResolveInv
  <1>11. CacheInv /\ CleanupsInv
    BY <1>0, <1>5 DEF CacheInv, CleanupsInv
  <1>12. Inject!BuiltOnceInOrder /\ Inject!OwnHeadersFirst
    BY <1>0, <1>5 DEF Inject!BuiltOnceInOrder, Inject!OwnHeadersFirst
  <1> QED BY <1>2, <1>4, <1>7, <1>10, <1>11, <1>12 DEF InjectInv

LEMMA InjectUnchanged == ASSUME InjectInv, UNCHANGED injectionVars PROVE InjectInv'
  <1>1. /\ kind' = kind /\ deps' = deps /\ phase' = phase /\ visit' = visit /\ stack' = stack
        /\ cache' = cache /\ cleanups' = cleanups /\ built' = built /\ released' = released
        /\ failure' = failure /\ crashed' = crashed
    BY DEF injectionVars
  <1>2. SameInput /\ Inputs'
    BY <1>1, InputKept DEF Inject!input, InjectInv
  <1>3. States' /\ Stacked'
    BY <1>1, <1>2 DEF InjectInv, States, Stacked, Levels, SameInput
  <1>4. Levels' = Levels /\ Visited' = Visited
    BY <1>1 DEF Levels, Visited
  <1>5. (Path => Path') /\ (Behind => Behind') /\ (Open => Open') /\ (Left => Left') /\ (Fresh => Fresh')
    <2>1. (Path => Path') /\ (Behind => Behind')
      BY <1>1, <1>2, <1>4 DEF Path, Behind, SameInput
    <2>2. (Open => Open') /\ (Left => Left')
      BY <1>1, <1>2, <1>4 DEF Open, Left, Acyclic, SameInput
    <2>3. Fresh => Fresh'
      BY <1>1 DEF Fresh, Inject!NoFailure
    <2> QED BY <2>1, <2>2, <2>3
  <1>6. SearchInv'
    BY <1>1, <1>2, <1>5 DEF InjectInv, SearchInv, SameInput
  <1>7. ResolveInv'
    <2>1. (Waits => Waits') /\ (Got => Got')
      BY <1>1, <1>2, <1>4 DEF Waits, Got, SameInput
    <2> QED BY <1>1, <2>1 DEF InjectInv, ResolveInv, Inject!NoFailure
  <1>8. CacheInv' /\ CleanupsInv'
    BY <1>1, <1>2 DEF InjectInv, CacheInv, CleanupsInv, SameInput
  <1>9. Inject!BuiltOnceInOrder' /\ Inject!OwnHeadersFirst'
    BY <1>1, <1>2 DEF InjectInv, Inject!BuiltOnceInOrder, Inject!OwnHeadersFirst, SameInput
  <1> QED BY <1>2, <1>3, <1>6, <1>7, <1>8, <1>9 DEF InjectInv

LEMMA InjectKeeps == ASSUME InjectInv, Inject!Next PROVE InjectInv'
  BY DfsRootKeeps, DfsRejectsKeeps, DfsDescendsKeeps, DfsSkipsKeeps, DfsReturnsKeeps, BeginCallKeeps,
     ResolveMetaKeeps, MetaFailsKeeps, MetaDoneKeeps, ResolveCachedKeeps, ResolveUnregisteredKeeps,
     ResolveSubKeeps, CallProviderKeeps, ProviderFailsKeeps, RunHandlerKeeps, CleanupKeeps, ClosedKeeps
     DEF Inject!Next

\* No type is on the stack twice: it is no deeper than there are types, and the handler.
LEMMA StackBounded == ASSUME InjectInv PROVE Len(stack) <= Inject!Cardinality(DepTypes) + 1
  <1> DEFINE n == Len(stack)
             f == [i \in 1..n |-> stack[i].type]
  <1>1. States /\ Stacked /\ n \in Nat /\ Levels = 1..n
    BY LenProperties DEF InjectInv, States, Levels
  <1>2. IsFiniteSet(DepTypes) /\ Inject!Cardinality(DepTypes) = Cardinality(DepTypes)
    <2>1. Inject!IsFiniteSet(DepTypes)
      BY Parameters DEF Inject!InjectionAssumption
    <2>2. IsFiniteSet(DepTypes)
      BY <2>1 DEF Inject!IsFiniteSet, IsFiniteSet
    <2> QED BY <2>2, Zenon DEF Inject!Cardinality, Cardinality
  <1>3. /\ IsFiniteSet(Owners) /\ Cardinality(DepTypes) \in Nat
        /\ Cardinality(Owners) \in {Cardinality(DepTypes), Cardinality(DepTypes) + 1}
    BY <1>2, FS_AddElement, FS_CardinalityType DEF Owners
  <1> HIDE DEF n
  <1>4. f \in [1..n -> Owners]
    BY <1>1, LevelFrames
  <1>5. \A i, j \in 1..n : f[i] = f[j] => i = j
    BY <1>1 DEF Stacked
  <1>6. f \in Injection(1..n, Owners)
    BY <1>4, <1>5 DEF Injection, IsInjective
  <1> HIDE DEF f
  <1>7. Cardinality(1..n) <= Cardinality(Owners)
    BY <1>3, <1>6, FS_Injection
  <1>8. Cardinality(1..n) = n
    BY <1>1, FS_Interval
  <1> QED BY <1>1, <1>2, <1>3, <1>7, <1>8 DEF n

LEMMA InjectMeans ==
  ASSUME InjectInv
  PROVE  /\ Inject!TypeOK /\ Inject!CyclesRejected /\ Inject!BuiltOnceInOrder
         /\ Inject!ReleasedAfterUsers /\ Inject!EverythingReleased /\ Inject!OwnHeadersFirst
  <1>1. Inputs /\ States /\ Stacked /\ SearchInv /\ CleanupsInv /\ MaxDeps \in Nat
    BY Parameters DEF InjectInv, Inject!InjectionAssumption
  <1>2. Inject!CyclesRejected
    BY <1>1 DEF SearchInv, Inject!CyclesRejected
  <1>3. /\ DOMAIN released = 1..Len(released) /\ Inject!ToSet(released) = {released[i] : i \in 1..Len(released)}
        /\ Inject!ToSet(cleanups) = {cleanups[i] : i \in 1..Len(cleanups)}
    <2>1. DOMAIN released = 1..Len(released) /\ DOMAIN cleanups = 1..Len(cleanups)
      BY <1>1, LenProperties DEF States
    <2> QED BY <2>1 DEF Inject!ToSet
  <1>4. Inject!ReleasedAfterUsers
    BY <1>1, <1>3 DEF CleanupsInv, Inject!ReleasedAfterUsers
  <1>5. Inject!EverythingReleased
    BY <1>1, <1>3 DEF CleanupsInv, Inject!EverythingReleased, Inject!IsInjective
  <1>6. Inject!TypeOK
    <2>1. deps \in [DepTypes \cup {Handler} -> Inject!Lists]
      <3>1. ASSUME NEW t \in Owners PROVE deps[t] \in Inject!Lists
        <4> DEFINE s == deps[t]
        <4>1. s \in Seq(DepTypes) /\ Len(s) <= MaxDeps
          BY <1>1 DEF Inputs
        <4> HIDE DEF s
        <4>2. s \in [1..Len(s) -> DepTypes] /\ Len(s) \in Nat
          BY <4>1, LenProperties, ElementOfSeq
        <4>3. Len(s) \in 0..MaxDeps
          BY <1>1, <4>1, <4>2
        <4> QED BY <4>2, <4>3 DEF Inject!Lists, s
      <3> QED BY <1>1, <3>1 DEF Inputs, Owners
    <2>2. DOMAIN stack = Levels
      BY <1>1, LenProperties DEF States, Levels
    <2>3. ASSUME NEW i \in DOMAIN stack
          PROVE  /\ stack[i].type \in DepTypes \cup {Handler} /\ stack[i].pass \in {"meta", "all"}
                 /\ stack[i].next \in 1..(MaxDeps + 1)
      <3>1. stack[i].type \in Owners /\ stack[i].pass \in {"meta", "all"}
        BY <1>1, <2>2, LevelFrames
      <3>2. stack[i].next \in 1..(Len(deps[stack[i].type]) + 1)
        BY <1>1, <2>2 DEF Stacked
      <3>3. Len(deps[stack[i].type]) \in Nat /\ Len(deps[stack[i].type]) <= MaxDeps
        BY <1>1, <3>1, EdgesAre DEF Inputs
      <3>4. stack[i].next \in 1..(MaxDeps + 1)
        BY <1>1, <3>2, <3>3
      <3> QED BY <3>1, <3>4 DEF Owners
    <2>4. failure.why \in {"none", "header", "provider", "unregistered"} /\ crashed \in BOOLEAN
      BY <1>1 DEF States, Failures
    <2>5. kind \in [DepTypes -> {"absent", "meta", "provider"}] /\ phase \in Inject!Phases
          /\ visit \in [DepTypes -> {"unvisited", "visiting", "visited"}] /\ cache \subseteq Inject!Registered
      BY <1>1 DEF Inputs, States
    <2> QED BY <2>1, <2>3, <2>4, <2>5, StackBounded DEF Inject!TypeOK
  <1> QED BY <1>2, <1>4, <1>5, <1>6 DEF InjectInv

-------------------------------------------------------------------------------
(* The invariant of Reflection: the entry is what the signature says, and  *)
(* the arguments come from a request that has the required fields.         *)

Parameter == [kind : Reflect!Kinds, name : Names]
Signature ==
    /\ params \in Seq(Parameter) /\ Len(params) <= MaxParams
    /\ \A i, j \in 1..Len(params) : params[i].name = params[j].name /\ params[i].name # Reflect!Blank => i = j
    /\ outs \in Seq({"error", "seq", "value"}) /\ Len(outs) <= 2

\* What was read in the source: the names of the method's own parameters if it is its
\* own, and never one name for two of them.
Positions == 1..Len(params)
NamesRead ==
    /\ source = "own" => \A i \in Positions : Reflect!SourceName(i) = params[i].name
    /\ \A i, j \in Positions : Reflect!SourceName(i) = Reflect!SourceName(j)
                              /\ Reflect!SourceName(i) # Reflect!Blank => i = j

InOrder == \A i \in Reflect!Streams : Reflect!LastOrdinary(i)
Fits == InOrder /\ Reflect!ReturnsFit
Described == [shape |-> Reflect!Shape, names |-> [i \in Reflect!Business |-> Reflect!WireName(i)],
              required |-> {Reflect!WireName(i) : i \in Reflect!Of({"plain"})}]

Filling(i, request) ==
    CASE i \in Reflect!Injected -> [from |-> "injected", name |-> Reflect!Blank]
      [] i \in Reflect!Streams -> [from |-> "stream", name |-> Reflect!Blank]
      [] OTHER -> Reflect!Argument(i, request)
Filled(request) == args = [i \in DOMAIN params |-> Filling(i, request)]

ReflectInv ==
    /\ Signature /\ NamesRead
    /\ \/ entry = Reflect!Pending /\ args = <<>>
       \/ entry = Reflect!Refused /\ ~(Fits /\ Reflect!OptionsFit) /\ args = <<>>
       \/ /\ entry = Described /\ Fits
          /\ args = <<>> \/ \E request : entry.required \subseteq request /\ Filled(request)

LEMMA ReflectInitially == ASSUME Reflect!Init PROVE ReflectInv
  <1>0. /\ params \in Reflect!Lists(Parameter, MaxParams)
        /\ \A i, j \in DOMAIN params : params[i].name = params[j].name /\ params[i].name # Reflect!Blank => i = j
        /\ outs \in Reflect!Lists({"error", "seq", "value"}, 2) /\ source \in Sources
        /\ entry = Reflect!Pending /\ args = <<>>
    BY DEF Reflect!Init, Reflect!Apart, Parameter
  <1>1. MaxParams \in Nat /\ source \in {"own", "namesake", "none"}
    BY <1>0, Parameters DEF Reflect!ReflectionAssumption
  <1>2. ASSUME NEW S, NEW n \in Nat, NEW s \in Reflect!Lists(S, n)
        PROVE  s \in Seq(S) /\ Len(s) <= n /\ DOMAIN s = 1..Len(s)
    <2>1. PICK k \in 0..n : s \in [1..k -> S]
      BY DEF Reflect!Lists
    <2>2. k \in Nat
      OBVIOUS
    <2>3. s \in Seq(S)
      BY <2>1, <2>2, SeqDef
    <2>4. Len(s) = k
      BY <2>1, <2>2, <2>3, LenProperties
    <2> QED BY <2>1, <2>3, <2>4
  <1>3. params \in Seq(Parameter) /\ Len(params) <= MaxParams /\ DOMAIN params = 1..Len(params)
    BY <1>0, <1>1, <1>2
  <1>4. outs \in Seq({"error", "seq", "value"}) /\ Len(outs) <= 2
    BY <1>0, <1>2
  <1>5. Signature
    BY <1>0, <1>3, <1>4 DEF Signature
  <1>6. NamesRead
    <2>n. Len(params) \in Nat /\ Positions = DOMAIN params /\ \A i \in Positions : i \in Nat \ {0} /\ i + 1 # 1
      BY <1>3, LenProperties DEF Positions
    <2>s. \A i \in Positions : Reflect!SourceName(i) =
            IF i < Len(paramNames) THEN paramNames[i + 1] ELSE Reflect!Blank
      BY <2>n DEF Reflect!SourceName, Reflect!ArgIdx
    <2>1. CASE source = "own"
      <3>1. paramNames = [k \in 1..(Len(params) + 1) |-> IF k = 1 THEN Reflect!Ctx ELSE params[k - 1].name]
        BY <2>1 DEF Reflect!Init, Reflect!Inspected, Reflect!OwnNames
      <3>2. Len(paramNames) = Len(params) + 1
        <4>1. Len(params) + 1 \in Nat
          BY <2>n
        <4> HIDE DEF Reflect!Ctx
        <4> QED BY <3>1, <4>1
      <3>3. \A i \in Positions : Reflect!SourceName(i) = params[i].name
        <4> SUFFICES ASSUME NEW i \in Positions PROVE Reflect!SourceName(i) = params[i].name
          OBVIOUS
        <4>1. i < Len(params) + 1 /\ i + 1 \in 1..(Len(params) + 1) /\ i + 1 # 1 /\ (i + 1) - 1 = i
          BY <2>n DEF Positions
        <4>2. paramNames[i + 1] = params[i].name
          BY <3>1, <4>1
        <4> QED BY <2>s, <3>2, <4>1, <4>2
      <3> QED BY <1>0, <2>n, <3>3 DEF NamesRead
    <2>2. CASE source = "namesake"
      <3>1. paramNames \in Reflect!Lists(Names, MaxParams + 1) /\ Reflect!Apart(paramNames)
        BY <2>2 DEF Reflect!Init, Reflect!Inspected
      <3>2. DOMAIN paramNames = 1..Len(paramNames) /\ Len(paramNames) \in Nat
        BY <1>1, <1>2, <3>1, LenProperties
      <3>3. ASSUME NEW i \in Positions, NEW j \in Positions,
                   Reflect!SourceName(i) = Reflect!SourceName(j), Reflect!SourceName(i) # Reflect!Blank
            PROVE  i = j
        <4>1. /\ i < Len(paramNames) /\ Reflect!SourceName(i) = paramNames[i + 1]
              /\ j < Len(paramNames) /\ Reflect!SourceName(j) = paramNames[j + 1]
          BY <2>s, <3>3
        <4>2. i + 1 \in DOMAIN paramNames /\ j + 1 \in DOMAIN paramNames
          BY <2>n, <3>2, <4>1
        <4>3. i + 1 = j + 1
          BY <3>1, <3>3, <4>1, <4>2 DEF Reflect!Apart
        <4> QED BY <2>n, <4>3
      <3> QED BY <2>2, <3>3 DEF NamesRead
    <2>3. CASE source = "none"
      <3>1. paramNames = <<>>
        BY <2>3 DEF Reflect!Init, Reflect!Inspected
      <3>2. Len(paramNames) = 0
        BY <3>1
      <3>3. \A i \in Positions : Reflect!SourceName(i) = Reflect!Blank
        BY <2>n, <2>s, <3>2
      <3> QED BY <2>3, <3>3 DEF NamesRead
    <2> QED BY <1>1, <2>1, <2>2, <2>3
  <1> QED BY <1>0, <1>5, <1>6 DEF ReflectInv

\* What is read off the signature stays while the signature does.
LEMMA SignatureKept ==
  ASSUME params' = params, outs' = outs, opts' = opts, source' = source, paramNames' = paramNames
  PROVE  /\ (Signature => Signature') /\ (NamesRead => NamesRead') /\ Described' = Described /\ (Fits' <=> Fits)
         /\ (Reflect!OptionsFit' <=> Reflect!OptionsFit)
         /\ Reflect!Injected' = Reflect!Injected /\ Reflect!Streams' = Reflect!Streams
  <1>1. \A K : Reflect!Of(K)' = Reflect!Of(K)
    BY DEF Reflect!Of
  <1>2. /\ Reflect!Injected' = Reflect!Injected /\ Reflect!Streams' = Reflect!Streams
        /\ Reflect!Business' = Reflect!Business /\ (Reflect!Duplex' <=> Reflect!Duplex)
        /\ Reflect!Of({"plain"})' = Reflect!Of({"plain"})
    BY DEF Reflect!Injected, Reflect!Streams, Reflect!Business, Reflect!Duplex, Reflect!Of
  <1>3. Reflect!Shape' = Reflect!Shape
    BY <1>2 DEF Reflect!Shape
  <1>4. (Reflect!ReturnsFit' <=> Reflect!ReturnsFit) /\ (Reflect!OptionsFit' <=> Reflect!OptionsFit)
    BY <1>3 DEF Reflect!ReturnsFit, Reflect!Responds, Reflect!OptionsFit
  <1>5. InOrder' <=> InOrder
    BY <1>2 DEF InOrder, Reflect!LastOrdinary
  <1>n. \A i : Reflect!SourceName(i)' = Reflect!SourceName(i)
    BY DEF Reflect!SourceName, Reflect!ArgIdx, Reflect!Blank
  <1>b. \A i : Reflect!Before(i)' = Reflect!Before(i)
    BY <1>2 DEF Reflect!Before, Reflect!Cardinality
  <1>6. \A i : Reflect!WireName(i)' = Reflect!WireName(i)
    BY <1>n, <1>b DEF Reflect!WireName, Reflect!Number, Reflect!Arg, Reflect!Blank
  <1>7. Described' = Described
    BY <1>2, <1>3, <1>6 DEF Described
  <1>8. (Signature => Signature') /\ (NamesRead => NamesRead')
    BY <1>n DEF Signature, NamesRead, Positions, Reflect!Blank
  <1> QED BY <1>2, <1>4, <1>5, <1>7, <1>8 DEF Fits

LEMMA EntryShapes ==
  /\ Reflect!Pending.shape = "pending" /\ Reflect!Refused.shape = "refused"
  /\ Reflect!Shape \in {"unary", "server_stream", "client_stream", "duplex"}
  /\ Described.shape = Reflect!Shape /\ Described.required = {Reflect!WireName(i) : i \in Reflect!Of({"plain"})}
  /\ Described.names = [i \in Reflect!Business |-> Reflect!WireName(i)]
  <1>1. Reflect!Pending.shape = "pending" /\ Reflect!Refused.shape = "refused"
    BY DEF Reflect!Pending, Reflect!Refused
  <1>2. Reflect!Shape \in {"unary", "server_stream", "client_stream", "duplex"}
    BY DEF Reflect!Shape
  <1> QED BY <1>1, <1>2 DEF Described

LEMMA FillingKept ==
  ASSUME entry' = entry, Reflect!Injected' = Reflect!Injected, Reflect!Streams' = Reflect!Streams
  PROVE  \A request, i : Filling(i, request)' = Filling(i, request)
  <1>1. \A request, i : Reflect!Argument(i, request)' = Reflect!Argument(i, request)
    BY DEF Reflect!Argument, Reflect!Blank
  <1>2. Reflect!Blank' = Reflect!Blank
    BY DEF Reflect!Blank
  <1> SUFFICES ASSUME NEW request, NEW i PROVE Filling(i, request)' = Filling(i, request)
    OBVIOUS
  <1>3. CASE i \in Reflect!Injected
    <2>1. i \notin Reflect!Streams
      BY <1>3 DEF Reflect!Injected, Reflect!Streams, Reflect!Of
    <2> QED BY <1>2, <1>3, <2>1, Zenon DEF Filling
  <1>4. CASE i \notin Reflect!Injected /\ i \in Reflect!Streams
    BY <1>2, <1>4, Zenon DEF Filling
  <1>5. CASE i \notin Reflect!Injected /\ i \notin Reflect!Streams
    BY <1>1, <1>5, Zenon DEF Filling
  <1> QED BY <1>3, <1>4, <1>5

LEMMA ReflectKeeps == ASSUME ReflectInv, Reflect!Next PROVE ReflectInv'
  <1>1. CASE Reflect!Reflect
    <2>1. /\ entry = Reflect!Pending /\ params' = params /\ outs' = outs /\ opts' = opts /\ source' = source /\ paramNames' = paramNames
          /\ args' = args
          /\ entry' = IF Fits /\ Reflect!OptionsFit THEN Described ELSE Reflect!Refused
      BY <1>1 DEF Reflect!Reflect, Fits, InOrder, Described
    <2>2. Signature' /\ NamesRead' /\ Described' = Described /\ (Fits' <=> Fits) /\ (Reflect!OptionsFit' <=> Reflect!OptionsFit)
      BY <2>1, SignatureKept DEF ReflectInv
    <2>3. args' = <<>>
      <3>1. entry # Described /\ entry # Reflect!Refused
        BY <2>1, EntryShapes
      <3> QED BY <2>1, <3>1 DEF ReflectInv
    <2>4. CASE Fits /\ Reflect!OptionsFit
      BY <2>1, <2>2, <2>3, <2>4 DEF ReflectInv
    <2>5. CASE ~(Fits /\ Reflect!OptionsFit)
      <3>1. entry' = Reflect!Refused
        BY <2>1, <2>5
      <3>2. Reflect!Refused' = Reflect!Refused
        BY DEF Reflect!Refused
      <3> QED BY <2>2, <2>3, <2>5, <3>1, <3>2 DEF ReflectInv
    <2> QED BY <2>4, <2>5
  <1>2. ASSUME NEW request, Reflect!Invoke(request) PROVE ReflectInv'
    <2>1. /\ entry.shape \notin {"pending", "refused"} /\ entry.required \subseteq request
          /\ params' = params /\ outs' = outs /\ opts' = opts /\ source' = source /\ paramNames' = paramNames /\ entry' = entry
      BY <1>2 DEF Reflect!Invoke
    <2>2. /\ Signature' /\ NamesRead' /\ Described' = Described /\ (Fits' <=> Fits)
          /\ Reflect!Injected' = Reflect!Injected /\ Reflect!Streams' = Reflect!Streams
      BY <2>1, SignatureKept DEF ReflectInv
    <2>3. \A i : Filling(i, request)' = Filling(i, request)
      BY <2>1, <2>2, FillingKept
    <2>4. args' = [i \in DOMAIN params |-> Filling(i, request)]
      BY <1>2 DEF Reflect!Invoke, Filling
    <2>5. Filled(request)'
      BY <2>1, <2>3, <2>4 DEF Filled
    <2>6. entry = Described /\ Fits
      BY <2>1, EntryShapes DEF ReflectInv
    <2> QED BY <2>1, <2>2, <2>5, <2>6 DEF ReflectInv
  <1> QED BY <1>1, <1>2 DEF Reflect!Next

LEMMA ReflectUnchanged == ASSUME ReflectInv, UNCHANGED reflectionVars PROVE ReflectInv'
  <1>1. /\ params' = params /\ outs' = outs /\ opts' = opts /\ source' = source /\ paramNames' = paramNames /\ entry' = entry
        /\ args' = args
    BY DEF reflectionVars
  <1>2. /\ Signature' /\ NamesRead' /\ Described' = Described /\ (Fits' <=> Fits)
        /\ (Reflect!OptionsFit' <=> Reflect!OptionsFit)
        /\ Reflect!Injected' = Reflect!Injected /\ Reflect!Streams' = Reflect!Streams
    BY <1>1, SignatureKept DEF ReflectInv
  <1>3. \A request, i : Filling(i, request)' = Filling(i, request)
    BY <1>1, <1>2, FillingKept
  <1>4. \A request : Filled(request)' <=> Filled(request)
    BY <1>1, <1>3 DEF Filled
  <1>5. Reflect!Pending' = Reflect!Pending /\ Reflect!Refused' = Reflect!Refused
    BY DEF Reflect!Pending, Reflect!Refused
  <1> QED BY <1>1, <1>2, <1>4, <1>5 DEF ReflectInv

\* The parameters of a signature.
LEMMA ParamFacts ==
  ASSUME Signature
  PROVE  /\ Len(params) \in Nat /\ DOMAIN params = 1..Len(params)
         /\ \A i \in DOMAIN params : params[i].kind \in Reflect!Kinds
         /\ Reflect!Business \subseteq DOMAIN params
         /\ \A i \in Reflect!Business : params[i].kind \in {"plain", "pointer"}
                                        /\ i \notin Reflect!Injected /\ i \notin Reflect!Streams
  <1>1. Len(params) \in Nat /\ DOMAIN params = 1..Len(params) /\ \A i \in DOMAIN params : params[i] \in Parameter
    BY LenProperties, ElementOfSeq DEF Signature
  <1> QED BY <1>1 DEF Parameter, Reflect!Business, Reflect!Injected, Reflect!Streams, Reflect!Of

LEMMA ArgumentsOwnFieldHolds == ASSUME ReflectInv PROVE Reflect!ArgumentsOwnField
  <1> SUFFICES ASSUME args # <<>>, source = "own", NEW i \in Reflect!Business, params[i].name # Reflect!Blank
               PROVE  \/ args[i] = [from |-> "field", name |-> params[i].name]
                      \/ args[i].from = "zero" /\ params[i].kind = "pointer"
    BY DEF Reflect!ArgumentsOwnField
  <1>1. PICK request : entry = Described /\ entry.required \subseteq request /\ Filled(request)
    BY DEF ReflectInv
  <1>2. /\ i \in DOMAIN params /\ params[i].kind \in {"plain", "pointer"}
        /\ i \notin Reflect!Injected /\ i \notin Reflect!Streams
    BY ParamFacts DEF ReflectInv
  <1>3. Reflect!WireName(i) = params[i].name
    <2>1. i \in Positions
      BY <1>2, ParamFacts DEF ReflectInv, Positions
    <2>2. Reflect!SourceName(i) = params[i].name
      BY <2>1 DEF ReflectInv, NamesRead
    <2> QED BY <2>2 DEF Reflect!WireName
  <1>4. entry.names[i] = params[i].name
    BY <1>1, <1>3, EntryShapes
  <1>5. args[i] = Reflect!Argument(i, request)
    BY <1>1, <1>2 DEF Filled, Filling
  <1>6. CASE params[i].name \in request
    BY <1>4, <1>5, <1>6 DEF Reflect!Argument
  <1>7. CASE params[i].name \notin request
    <2>1. args[i].from = "zero"
      BY <1>4, <1>5, <1>7 DEF Reflect!Argument
    <2>2. params[i].kind # "plain"
      <3>1. ASSUME params[i].kind = "plain" PROVE FALSE
        <4>1. i \in Reflect!Of({"plain"})
          BY <1>2, <3>1 DEF Reflect!Of
        <4>2. params[i].name \in entry.required
          BY <1>1, <1>3, <4>1, EntryShapes
        <4> QED BY <1>1, <1>7, <4>2
      <3> QED BY <3>1
    <2> QED BY <1>2, <2>1, <2>2
  <1> QED BY <1>6, <1>7

\* The number of request parameters before one grows with its position.
LEMMA BeforeGrows ==
  ASSUME Signature, NEW i \in Reflect!Business
  PROVE  /\ Reflect!Before(i) \in 0..MaxParams
         /\ \A j \in Reflect!Business : i < j => Reflect!Before(i) < Reflect!Before(j)
  <1> DEFINE B(k) == {l \in Reflect!Business : l < k}
             n == Len(params)
  <1>1. n \in Nat /\ Reflect!Business \subseteq 1..n /\ n <= MaxParams /\ MaxParams \in Nat
    BY ParamFacts, Parameters DEF Reflect!ReflectionAssumption, Signature
  <1>2. \A k : Reflect!Before(k) = Cardinality(B(k))
    BY Zenon DEF Reflect!Before, Reflect!Cardinality, Cardinality
  <1> HIDE DEF n
  <1>3. IsFiniteSet(1..n) /\ Cardinality(1..n) = n
    BY <1>1, FS_Interval
  <1>4. ASSUME NEW k PROVE IsFiniteSet(B(k)) /\ Cardinality(B(k)) \in Nat /\ Cardinality(B(k)) <= n
    <2>1. B(k) \in SUBSET (1..n)
      BY <1>1
    <2> HIDE DEF B
    <2> QED BY <1>3, <2>1, FS_Subset, FS_CardinalityType
  <1>5. Reflect!Before(i) \in 0..MaxParams
    <2> HIDE DEF B
    <2>1. Cardinality(B(i)) \in Nat /\ Cardinality(B(i)) <= n
      BY <1>4
    <2> QED BY <1>1, <1>2, <2>1
  <1>6. ASSUME NEW j \in Reflect!Business, i < j PROVE Reflect!Before(i) < Reflect!Before(j)
    <2>1. i \in 1..n /\ j \in 1..n
      BY <1>1
    <2>2. i \notin B(i) /\ B(i) \cup {i} \in SUBSET B(j)
      <3>1. \A l \in Reflect!Business : l < i => l < j
        BY <1>1, <1>6, <2>1
      <3>2. ~(i < i)
        BY <2>1
      <3> QED BY <1>6, <3>1, <3>2
    <2> HIDE DEF B
    <2>3. IsFiniteSet(B(i)) /\ Cardinality(B(i)) \in Nat /\ IsFiniteSet(B(j)) /\ Cardinality(B(j)) \in Nat
      BY <1>4
    <2>4. Cardinality(B(i) \cup {i}) = Cardinality(B(i)) + 1
      BY <2>2, <2>3, FS_AddElement
    <2>5. Cardinality(B(i) \cup {i}) <= Cardinality(B(j))
      BY <2>2, <2>3, FS_Subset
    <2> QED BY <1>2, <2>3, <2>4, <2>5
  <1> QED BY <1>5, <1>6

LEMMA UnnamedStayApartHolds == ASSUME ReflectInv PROVE Reflect!UnnamedStayApart
  <1> SUFFICES ASSUME Reflect!Accepted,
                      \A i \in Reflect!Business, n \in 0..MaxParams : Reflect!SourceName(i) # Reflect!Arg(n)
               PROVE  Reflect!IsInjective(entry.names)
    BY DEF Reflect!UnnamedStayApart
  <1>1. Signature /\ NamesRead /\ entry = Described
    BY EntryShapes DEF ReflectInv, Reflect!Accepted
  <1>2. entry.names = [i \in Reflect!Business |-> Reflect!WireName(i)]
    BY <1>1, EntryShapes
  <1> SUFFICES ASSUME NEW i \in Reflect!Business, NEW j \in Reflect!Business,
                      Reflect!WireName(i) = Reflect!WireName(j)
               PROVE  i = j
    BY <1>2 DEF Reflect!IsInjective
  <1>3. i \in 1..Len(params) /\ j \in 1..Len(params) /\ Len(params) \in Nat
    BY <1>1, ParamFacts
  <1> DEFINE own(k) == Reflect!SourceName(k) # Reflect!Blank
  <1>4. \A k : Reflect!WireName(k) = IF own(k) THEN Reflect!SourceName(k) ELSE Reflect!Arg(Reflect!Before(k))
    BY DEF Reflect!WireName, Reflect!Number
  <1>5. Reflect!Before(i) \in 0..MaxParams /\ Reflect!Before(j) \in 0..MaxParams
    BY <1>1, BeforeGrows
  <1>6. CASE own(i) /\ own(j)
    <2>1. Reflect!SourceName(i) = Reflect!SourceName(j)
      BY <1>4, <1>6
    <2> QED BY <1>1, <1>3, <1>6, <2>1 DEF NamesRead, Positions
  <1>7. CASE own(i) /\ ~own(j)
    BY <1>4, <1>5, <1>7
  <1>8. CASE ~own(i) /\ own(j)
    BY <1>4, <1>5, <1>8
  <1>9. CASE ~own(i) /\ ~own(j)
    <2>1. Reflect!Arg(Reflect!Before(i)) = Reflect!Arg(Reflect!Before(j))
      BY <1>4, <1>9
    <2>2. Reflect!Before(i) = Reflect!Before(j)
      BY <2>1 DEF Reflect!Arg
    <2>3. MaxParams \in Nat
      BY Parameters DEF Reflect!ReflectionAssumption
    <2>4. ~(i < j) /\ ~(j < i)
      BY <1>1, <1>5, <2>2, <2>3, BeforeGrows
    <2> QED BY <1>3, <2>4
  <1> HIDE DEF own
  <1> QED BY <1>6, <1>7, <1>8, <1>9

\* A non-empty set of positions has a last one.
LEMMA LastExists ==
  ASSUME NEW n \in Nat, NEW S \in SUBSET (1..n), S # {}
  PROVE  Reflect!Max(S) \in S /\ \A y \in S : y <= Reflect!Max(S)
  <1> DEFINE D == {n - x : x \in S}
  <1>1. D \in SUBSET Nat /\ D # {}
    OBVIOUS
  <1>2. PICK d \in D : \A e \in D : d <= e
    BY <1>1, LeastExists
  <1>3. PICK x \in S : d = n - x
    OBVIOUS
  <1>4. \A y \in S : x >= y
    <2> TAKE y \in S
    <2>1. n - x <= n - y
      BY <1>2, <1>3
    <2>2. x \in 1..n /\ y \in 1..n
      OBVIOUS
    <2> HIDE DEF D
    <2> QED BY <2>1, <2>2
  <1>5. Reflect!Max(S) \in S /\ \A y \in S : Reflect!Max(S) >= y
    BY <1>4 DEF Reflect!Max
  <1>6. Reflect!Max(S) \in 1..n /\ \A y \in S : y \in 1..n
    BY <1>5
  <1> HIDE DEF D
  <1> QED BY <1>5, <1>6

\* The streams of a signature: none, or one that comes last, or out of order.
OneStream == Reflect!Cardinality(Reflect!Streams) = 1
LEMMA StreamsAre ==
  ASSUME Signature
  PROVE  \/ Reflect!Streams = {} /\ InOrder /\ ~OneStream /\ ~Reflect!Duplex
         \/ /\ Reflect!Streams # {} /\ InOrder /\ OneStream /\ Reflect!Trailing \in {"seq", "duplex"}
            /\ Reflect!Duplex <=> Reflect!Trailing = "duplex"
         \/ Reflect!Streams # {} /\ ~InOrder /\ ~(OneStream /\ Reflect!Trailing \in {"seq", "duplex"})
  <1> DEFINE n == Len(params)
             m == Reflect!Max(Reflect!Ordinary)
  <1>1. n \in Nat /\ DOMAIN params = 1..n
    BY ParamFacts
  <1>2. Reflect!Ordinary \in SUBSET (1..n) /\ Reflect!Streams \in SUBSET Reflect!Ordinary
    <2>1. Reflect!Streams \subseteq DOMAIN params /\ Reflect!Streams \cap Reflect!Injected = {}
      BY DEF Reflect!Streams, Reflect!Injected, Reflect!Of
    <2> QED BY <1>1, <2>1 DEF Reflect!Ordinary
  <1>3. Reflect!Cardinality(Reflect!Streams) = Cardinality(Reflect!Streams) /\ IsFiniteSet(Reflect!Streams)
    <2>1. Reflect!Cardinality(Reflect!Streams) = Cardinality(Reflect!Streams)
      BY Zenon DEF Reflect!Cardinality, Cardinality
    <2>2. IsFiniteSet(1..n) /\ Reflect!Streams \in SUBSET (1..n)
      BY <1>1, <1>2, FS_Interval
    <2> QED BY <2>1, <2>2, FS_Subset
  <1>4. OneStream <=> \E x : Reflect!Streams = {x}
    BY <1>3, FS_Singleton DEF OneStream
  <1>5. InOrder <=> \A i \in Reflect!Streams, j \in Reflect!Ordinary : j <= i
    BY DEF InOrder, Reflect!LastOrdinary, Reflect!Ordinary
  <1>6. Reflect!Duplex <=> \E i \in Reflect!Streams : params[i].kind = "duplex"
    BY DEF Reflect!Duplex, Reflect!Streams, Reflect!Of
  <1>7. \A i \in Reflect!Ordinary : i \in Reflect!Streams <=> params[i].kind \in {"seq", "duplex"}
    BY DEF Reflect!Streams, Reflect!Of, Reflect!Ordinary
  <1>8. CASE Reflect!Streams = {}
    BY <1>4, <1>5, <1>6, <1>8
  <1>9. CASE Reflect!Streams # {}
    <2>1. Reflect!Ordinary # {} /\ Reflect!Trailing = params[m].kind
      BY <1>2, <1>9 DEF Reflect!Trailing
    <2>2. m \in Reflect!Ordinary /\ \A y \in Reflect!Ordinary : y <= m
      BY <1>1, <1>2, <2>1, LastExists
    <2> HIDE DEF m, n
    <2>3. \A y \in Reflect!Ordinary : y \in Nat
      BY <1>1, <1>2
    <2>4. CASE InOrder
      <3>1. \A i \in Reflect!Streams : i = m
        <4> TAKE i \in Reflect!Streams
        <4>1. m <= i /\ i <= m /\ i \in Nat /\ m \in Nat
          BY <1>2, <1>5, <2>2, <2>3, <2>4
        <4> QED BY <4>1
      <3>2. Reflect!Streams = {m}
        BY <1>9, <3>1
      <3> QED BY <1>4, <1>6, <1>7, <1>9, <2>1, <2>2, <2>4, <3>2
    <2>5. CASE ~InOrder
      <3>1. ASSUME OneStream, Reflect!Trailing \in {"seq", "duplex"} PROVE FALSE
        <4>1. m \in Reflect!Streams
          BY <1>7, <2>1, <2>2, <3>1
        <4>2. Reflect!Streams = {m}
          BY <1>4, <3>1, <4>1
        <4> QED BY <1>5, <2>2, <2>5, <4>2
      <3> QED BY <1>9, <2>5, <3>1
    <2> QED BY <2>4, <2>5
  <1> QED BY <1>8, <1>9

\* The results of a signature, one by one.
Lone(x) == Len(outs) = 1 /\ outs[1] = x
Pair(x, y) == Len(outs) = 2 /\ outs[1] = x /\ outs[2] = y
Results == {"error", "seq", "value"}
LEMMA OutsAre ==
  ASSUME Signature
  PROVE  /\ outs = <<>> \/ (\E x \in Results : Lone(x)) \/ (\E x, y \in Results : Pair(x, y))
         /\ outs = <<>> <=> Len(outs) = 0
         /\ \A x : outs = <<x>> <=> Lone(x)
         /\ \A x, y : outs = <<x, y>> <=> Pair(x, y)
  <1>1. outs \in Seq(Results) /\ Len(outs) \in Nat /\ Len(outs) <= 2 /\ DOMAIN outs = 1..Len(outs)
    BY LenProperties DEF Signature, Results
  <1>2. \A i \in 1..Len(outs) : outs[i] \in Results
    BY <1>1, ElementOfSeq
  <1>3. outs = <<>> <=> Len(outs) = 0
    BY <1>1, EmptySeq
  <1>4. \A x : outs = <<x>> <=> Lone(x)
    BY <1>1 DEF Lone
  <1>5. \A x, y : outs = <<x, y>> <=> Pair(x, y)
    BY <1>1 DEF Pair
  <1>6. outs = <<>> \/ (\E x \in Results : Lone(x)) \/ (\E x, y \in Results : Pair(x, y))
    <2>1. Len(outs) = 0 \/ Len(outs) = 1 \/ Len(outs) = 2
      BY <1>1
    <2>2. CASE Len(outs) = 0
      BY <1>3, <2>2
    <2>3. CASE Len(outs) = 1
      BY <1>2, <2>3 DEF Lone
    <2>4. CASE Len(outs) = 2
      BY <1>2, <2>4 DEF Pair
    <2> QED BY <2>1, <2>2, <2>3, <2>4
  <1> QED BY <1>3, <1>4, <1>5, <1>6

\* The results that each shape may have.
UnaryOuts == Lone("value") \/ Pair("value", "error") \/ Pair("error", "error")
StreamOuts == Lone("seq") \/ Pair("seq", "error")
SinkOuts == UnaryOuts \/ StreamOuts
DuplexOuts == outs = <<>> \/ Lone("error")

LEMMA DocumentedSays ==
  ASSUME Signature
  PROVE  /\ DOMAIN Reflect!Documented = {"unary", "server_stream", "client_stream", "duplex"}
         /\ Reflect!Documented["unary"] <=> Reflect!Streams = {} /\ UnaryOuts
         /\ Reflect!Documented["server_stream"] <=> Reflect!Streams = {} /\ StreamOuts
         /\ Reflect!Documented["client_stream"] <=> Reflect!Trailing = "seq" /\ OneStream /\ SinkOuts
         /\ Reflect!Documented["duplex"] <=> Reflect!Trailing = "duplex" /\ OneStream /\ DuplexOuts
  <1> DEFINE U == outs \in {<<"value">>, <<"value", "error">>, <<"error", "error">>}
             S == outs \in {<<"seq">>, <<"seq", "error">>}
             C == outs \in {<<r>> : r \in {"value", "seq"}} \cup {<<r, "error">> : r \in {"value", "seq", "error"}}
             D == outs \in {<<>>, <<"error">>}
  <1>1. /\ DOMAIN Reflect!Documented = {"unary", "server_stream", "client_stream", "duplex"}
        /\ Reflect!Documented["unary"] <=> Reflect!Streams = {} /\ U
        /\ Reflect!Documented["server_stream"] <=> Reflect!Streams = {} /\ S
        /\ Reflect!Documented["client_stream"] <=> Reflect!Trailing = "seq" /\ OneStream /\ C
        /\ Reflect!Documented["duplex"] <=> Reflect!Trailing = "duplex" /\ OneStream /\ D
    BY Zenon DEF Reflect!Documented, OneStream
  <1>2. (\A x : outs = <<x>> <=> Lone(x)) /\ \A x, y : outs = <<x, y>> <=> Pair(x, y)
    BY OutsAre
  <1>3. (U <=> UnaryOuts) /\ (S <=> StreamOuts) /\ (D <=> DuplexOuts)
    BY <1>2, Zenon DEF UnaryOuts, StreamOuts, DuplexOuts
  <1>4. C <=> SinkOuts
    BY <1>2, Zenon DEF SinkOuts, UnaryOuts, StreamOuts
  <1> HIDE DEF U, S, C, D
  <1> QED BY <1>1, <1>3, <1>4

LEMMA ReturnsSay ==
  ASSUME Signature
  PROVE  /\ Reflect!Responds <=> SinkOuts
         /\ Len(outs) = 1 \/ (Len(outs) = 2 /\ outs[2] = "error") <=> SinkOuts \/ Lone("error")
         /\ outs \in {<<>>, <<"error">>} <=> DuplexOuts
         /\ SinkOuts \/ DuplexOuts => (outs # <<>> /\ outs[1] = "seq" <=> StreamOuts)
         /\ outs # <<>> /\ outs[1] = "seq" => ~UnaryOuts /\ ~Lone("error")
         /\ ~(SinkOuts /\ DuplexOuts) /\ ~(UnaryOuts /\ StreamOuts)
  <1>1. /\ outs = <<>> \/ (\E x \in Results : Lone(x)) \/ (\E x, y \in Results : Pair(x, y))
        /\ outs = <<>> <=> Len(outs) = 0
        /\ \A x : outs = <<x>> <=> Lone(x)
    BY OutsAre
  <1>2. CASE outs = <<>>
    <2>1. Len(outs) = 0
      BY <1>1, <1>2
    <2> QED BY <1>2, <2>1 DEF Reflect!Responds, SinkOuts, UnaryOuts, StreamOuts, DuplexOuts, Lone, Pair
  <1>3. ASSUME NEW x \in Results, Lone(x)
        PROVE  /\ Reflect!Responds <=> SinkOuts
               /\ Len(outs) = 1 \/ (Len(outs) = 2 /\ outs[2] = "error") <=> SinkOuts \/ Lone("error")
               /\ outs \in {<<>>, <<"error">>} <=> DuplexOuts
               /\ SinkOuts \/ DuplexOuts => (outs # <<>> /\ outs[1] = "seq" <=> StreamOuts)
               /\ outs # <<>> /\ outs[1] = "seq" => ~UnaryOuts /\ ~Lone("error")
               /\ ~(SinkOuts /\ DuplexOuts) /\ ~(UnaryOuts /\ StreamOuts)
    <2>1. Len(outs) = 1 /\ outs[1] = x /\ outs # <<>>
      BY <1>1, <1>3 DEF Lone
    <2>2. outs = <<"error">> <=> x = "error"
      BY <1>1, <2>1 DEF Lone
    <2>3. outs \in {<<>>, <<"error">>} <=> x = "error"
      BY <2>1, <2>2
    <2> QED BY <2>1, <2>3 DEF Reflect!Responds, SinkOuts, UnaryOuts, StreamOuts, DuplexOuts, Lone, Pair, Results
  <1>4. ASSUME NEW x \in Results, NEW y \in Results, Pair(x, y)
        PROVE  /\ Reflect!Responds <=> SinkOuts
               /\ Len(outs) = 1 \/ (Len(outs) = 2 /\ outs[2] = "error") <=> SinkOuts \/ Lone("error")
               /\ outs \in {<<>>, <<"error">>} <=> DuplexOuts
               /\ SinkOuts \/ DuplexOuts => (outs # <<>> /\ outs[1] = "seq" <=> StreamOuts)
               /\ outs # <<>> /\ outs[1] = "seq" => ~UnaryOuts /\ ~Lone("error")
               /\ ~(SinkOuts /\ DuplexOuts) /\ ~(UnaryOuts /\ StreamOuts)
    <2>1. Len(outs) = 2 /\ outs[1] = x /\ outs[2] = y /\ outs # <<>>
      BY <1>1, <1>4 DEF Pair
    <2>2. outs # <<"error">>
      BY <1>1, <2>1 DEF Lone
    <2>3. outs \notin {<<>>, <<"error">>}
      BY <2>1, <2>2
    <2> QED BY <2>1, <2>3 DEF Reflect!Responds, SinkOuts, UnaryOuts, StreamOuts, DuplexOuts, Lone, Pair, Results
  <1> QED BY <1>1, <1>2, <1>3, <1>4

\* What fits is documented as the shape it is taken for and no other; what does not fit
\* is documented nowhere.
LEMMA FitsAsDocumented ==
  ASSUME Signature
  PROVE  \A s \in DOMAIN Reflect!Documented : Reflect!Documented[s] <=> Fits /\ s = Reflect!Shape
  <1> DEFINE seq1 == outs # <<>> /\ outs[1] = "seq"
             P(s) == Reflect!Documented[s] <=> Fits /\ s = Reflect!Shape
  <1>1. /\ DOMAIN Reflect!Documented = {"unary", "server_stream", "client_stream", "duplex"}
        /\ Reflect!Documented["unary"] <=> Reflect!Streams = {} /\ UnaryOuts
        /\ Reflect!Documented["server_stream"] <=> Reflect!Streams = {} /\ StreamOuts
        /\ Reflect!Documented["client_stream"] <=> Reflect!Trailing = "seq" /\ OneStream /\ SinkOuts
        /\ Reflect!Documented["duplex"] <=> Reflect!Trailing = "duplex" /\ OneStream /\ DuplexOuts
    BY DocumentedSays
  <1>2. /\ Reflect!Responds <=> SinkOuts
        /\ Len(outs) = 1 \/ (Len(outs) = 2 /\ outs[2] = "error") <=> SinkOuts \/ Lone("error")
        /\ outs \in {<<>>, <<"error">>} <=> DuplexOuts
        /\ SinkOuts \/ DuplexOuts => (seq1 <=> StreamOuts)
        /\ seq1 => ~UnaryOuts /\ ~Lone("error")
        /\ ~(SinkOuts /\ DuplexOuts) /\ ~(UnaryOuts /\ StreamOuts)
        /\ SinkOuts <=> UnaryOuts \/ StreamOuts
    BY ReturnsSay DEF SinkOuts
  <1>3. /\ Reflect!Shape = "duplex" => (Reflect!ReturnsFit <=> DuplexOuts)
        /\ Reflect!Shape = "client_stream" => (Reflect!ReturnsFit <=> SinkOuts)
        /\ Reflect!Shape = "server_stream" => (Reflect!ReturnsFit <=> SinkOuts \/ Lone("error"))
        /\ Reflect!Shape = "unary" => (Reflect!ReturnsFit <=> SinkOuts)
    <2>1. Reflect!Shape = "duplex" => (Reflect!ReturnsFit <=> DuplexOuts)
      BY <1>2, Zenon DEF Reflect!ReturnsFit
    <2>2. Reflect!Shape = "client_stream" => (Reflect!ReturnsFit <=> SinkOuts)
      BY <1>2, Zenon DEF Reflect!ReturnsFit
    <2>3. Reflect!Shape = "server_stream" => (Reflect!ReturnsFit <=> SinkOuts \/ Lone("error"))
      BY <1>2, Zenon DEF Reflect!ReturnsFit
    <2>4. Reflect!Shape = "unary" => (Reflect!ReturnsFit <=> SinkOuts)
      BY <1>2, Zenon DEF Reflect!ReturnsFit
    <2> QED BY <2>1, <2>2, <2>3, <2>4
  <1>4. CASE Reflect!Streams = {} /\ InOrder /\ ~OneStream /\ ~Reflect!Duplex
    <2>1. CASE seq1
      <3>1. Reflect!Shape = "server_stream"
        BY <1>4, <2>1 DEF Reflect!Shape
      <3>2. Fits <=> StreamOuts
        BY <1>2, <1>3, <1>4, <2>1, <3>1 DEF Fits
      <3>3. ~UnaryOuts
        BY <1>2, <2>1
      <3> HIDE DEF seq1
      <3> QED BY <1>1, <1>4, <3>1, <3>2, <3>3
    <2>2. CASE ~seq1
      <3>1. Reflect!Shape = "unary"
        BY <1>4, <2>2 DEF Reflect!Shape
      <3> HIDE DEF seq1
      <3>2. ~StreamOuts
        BY <1>2, <2>2
      <3>3. Fits <=> UnaryOuts
        BY <1>2, <1>3, <1>4, <3>1, <3>2 DEF Fits
      <3> QED BY <1>1, <1>4, <3>1, <3>2, <3>3
    <2> QED BY <2>1, <2>2
  <1>5. CASE /\ Reflect!Streams # {} /\ InOrder /\ OneStream /\ Reflect!Trailing \in {"seq", "duplex"}
             /\ Reflect!Duplex <=> Reflect!Trailing = "duplex"
    <2>1. CASE Reflect!Trailing = "duplex"
      <3>1. Reflect!Shape = "duplex"
        BY <1>5, <2>1 DEF Reflect!Shape
      <3>2. Fits <=> DuplexOuts
        BY <1>3, <1>5, <3>1 DEF Fits
      <3> QED BY <1>1, <1>5, <2>1, <3>1, <3>2
    <2>2. CASE Reflect!Trailing = "seq"
      <3>1. Reflect!Shape = "client_stream"
        BY <1>5, <2>2 DEF Reflect!Shape
      <3>2. Fits <=> SinkOuts
        BY <1>3, <1>5, <3>1 DEF Fits
      <3> QED BY <1>1, <1>5, <2>2, <3>1, <3>2
    <2> QED BY <1>5, <2>1, <2>2
  <1>6. CASE Reflect!Streams # {} /\ ~InOrder /\ ~(OneStream /\ Reflect!Trailing \in {"seq", "duplex"})
    BY <1>1, <1>6 DEF Fits
  <1> QED BY <1>4, <1>5, <1>6, StreamsAre

LEMMA ShapeAsDocumentedHolds == ASSUME ReflectInv PROVE Reflect!ShapeAsDocumented
  <1>1. \A s \in DOMAIN Reflect!Documented : Reflect!Documented[s] <=> Fits /\ s = Reflect!Shape
    BY FitsAsDocumented DEF ReflectInv
  <1>2. ASSUME Reflect!Accepted PROVE Fits /\ entry.shape = Reflect!Shape
    BY <1>2, EntryShapes DEF Reflect!Accepted, ReflectInv
  <1>3. ASSUME entry = Reflect!Refused, Reflect!OptionsFit PROVE ~Fits
    BY <1>3, EntryShapes DEF ReflectInv
  <1> QED BY <1>1, <1>2, <1>3 DEF Reflect!ShapeAsDocumented

LEMMA ReflectTypes == ASSUME ReflectInv PROVE Reflect!TypeOK
  <1>1. entry.shape \in {"pending", "refused", "unary", "server_stream", "client_stream", "duplex"}
    BY EntryShapes DEF ReflectInv
  <1>2. ASSUME args # <<>>
        PROVE  /\ DOMAIN args = DOMAIN params
               /\ \A i \in DOMAIN args : args[i].from \in {"injected", "stream", "field", "zero"}
    <2>1. PICK request : args = [i \in DOMAIN params |-> Filling(i, request)]
      BY <1>2 DEF ReflectInv, Filled
    <2>2. \A i : Reflect!Argument(i, request).from \in {"field", "zero"}
      BY DEF Reflect!Argument
    <2>3. \A i : Filling(i, request).from \in {"injected", "stream", "field", "zero"}
      BY <2>2 DEF Filling
    <2> QED BY <2>1, <2>3
  <1> QED BY <1>1, <1>2 DEF Reflect!TypeOK

-------------------------------------------------------------------------------
(* The theorem.                                                            *)

SuiteInv ==
    /\ part = "injection" => InjectInv
    /\ part = "reflection" => ReflectInv

(* In every state of every behaviour, for any dependency graph and any     *)
(* signature: newDependencyRegistry rejects a graph exactly if it has a    *)
(* cycle; resolve runs a provider at most once, after those it takes a     *)
(* value from; depScope.close runs each cleanup once, those of the users   *)
(* first; a missing header of the handler is noticed before any provider   *)
(* runs; reflectMethod gives a method the documented shape, and invoke     *)
(* gives every request parameter the field of its own name.                *)
THEOREM HandlersGetArguments == SuiteSpec => []HandlersGetTheirArguments
  <1>1. SuiteInit => SuiteInv
    BY InjectInitially, ReflectInitially DEF SuiteInit, SuiteInv
  <1>2. SuiteInv /\ [SuiteNext]_suiteVars => SuiteInv'
    <2> SUFFICES ASSUME SuiteInv, [SuiteNext]_suiteVars PROVE SuiteInv'
      OBVIOUS
    <2>1. part' = part
      BY DEF SuiteNext, LinkStep, InputStep, OutputStep, SharingStep, InjectStep, ReflectStep, suiteVars
    <2>2. CASE InjectStep
      BY <2>1, <2>2, InjectKeeps DEF InjectStep, SuiteInv
    <2>3. CASE ReflectStep
      BY <2>1, <2>3, ReflectKeeps DEF ReflectStep, SuiteInv
    <2>4. CASE LinkStep \/ InputStep \/ OutputStep \/ SharingStep \/ UNCHANGED suiteVars
      <3>1. UNCHANGED injectionVars /\ UNCHANGED reflectionVars
        BY <2>4 DEF LinkStep, InputStep, OutputStep, SharingStep, suiteVars
      <3> QED BY <2>1, <3>1, InjectUnchanged, ReflectUnchanged DEF SuiteInv
    <2> QED BY <2>2, <2>3, <2>4 DEF SuiteNext
  <1>3. SuiteInv => HandlersGetTheirArguments
    BY InjectMeans, ShapeAsDocumentedHolds, ArgumentsOwnFieldHolds, UnnamedStayApartHolds, ReflectTypes
       DEF SuiteInv, HandlersGetTheirArguments
  <1> QED BY <1>1, <1>2, <1>3, PTL DEF SuiteSpec

===============================================================================

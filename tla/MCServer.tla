------------------------------ MODULE MCServer ------------------------------
(***************************************************************************)
(* The serving side of the Go SDK, for one safety run: the server and its  *)
(* Router links, one call of a handler with input and one with output,     *)
(* meshes with the local Router they share, the injection of a handler's   *)
(* parameters and the reflection of its signature. The suite extends the   *)
(* module of the links and instantiates the others. The parts share no     *)
(* state, so a behaviour is one of the part its first state names; the     *)
(* others stay as they begin.                                              *)
(***************************************************************************)
EXTENDS ServerLink, TLC

CONSTANTS
    None,                               \* nobody, no server, no subprocess
    Senders, Window, MaxIn, MaxOut,     \* of ServerCall
    Threads, Meshes, Procs, Servers, DirectUse,     \* of Mesh
    FewMeshes, FewProcs, FewServers,    \* the bounds of its parts
    DepTypes, MaxDeps, Handler,         \* of Injection
    MaxParams, Names, Sources           \* of Reflection

VARIABLES
    part,   \* the part whose behaviour this is
    \* ServerCall
    shape, honest, lost, in, out, windows, sent, ended, over, mayUse, granted, callPc,
    answer, reader, fin, cause, present, callInflight, credit, creditClosed, input,
    inputClosed, allowance, inputSequence, read, sawEnd, idle, sp, outputMu,
    outputSequence, outputClosed, terminal,
    \* Mesh
    proc, announced, meshTold, starter, lock, spawned, routerRunning, mounted, active,
    owns, hasClient, srv, home, overlapped, th,
    \* Injection
    kind, deps, phase, visit, stack, cache, cleanups, built, released, failure, crashed,
    \* Reflection
    params, outs, opts, source, paramNames, entry, args

callVars == <<
    shape, honest, lost, in, out, windows, sent, ended, over, mayUse, granted, callPc,
    answer, reader, fin, cause, present, callInflight, credit, creditClosed, input,
    inputClosed, allowance, inputSequence, read, sawEnd, idle, sp, outputMu,
    outputSequence, outputClosed, terminal>>
meshVars == <<
    proc, announced, meshTold, starter, lock, spawned, routerRunning, mounted, active,
    owns, hasClient, srv, home, overlapped, th>>
injectionVars == <<
    kind, deps, phase, visit, stack, cache, cleanups, built, released, failure, crashed>>
reflectionVars == <<
    params, outs, opts, source, paramNames, entry, args>>
suiteVars == <<part, vars, callVars, meshVars, injectionVars, reflectionVars>>

Input == INSTANCE ServerCall WITH
    Shapes <- {"unary", "duplex"}, Senders <- {}, MaxOut <- 0,
    pc <- callPc, inflight <- callInflight

Output == INSTANCE ServerCall WITH
    Shapes <- {"server"}, MaxIn <- 0,
    pc <- callPc, inflight <- callInflight

Sharing == INSTANCE Mesh WITH
    running <- routerRunning, told <- meshTold

Inject == INSTANCE Injection WITH
    Types <- DepTypes, calls <- built

Reflect == INSTANCE Reflection

\* Two names that Go source gives its parameters, and none.
ParamNames == {<<"x">>, <<"y">>, <<"_">>}

\* Neither threads nor Router links are told apart.
Alike == Permutations(Threads) \cup Permutations(Links)

\* What stands for injection and reflection while another part runs.
NoTypes == INSTANCE Injection WITH Types <- {}, MaxDeps <- 0, calls <- built
NoParams == INSTANCE Reflection WITH MaxParams <- 0, Names <- {}, Sources <- {"none"}

\* The constants are as each part wants them.
ASSUME Parameters ==
    /\ ServerLinkAssumption /\ Input!HandlerAssumption /\ Output!HandlerAssumption
    /\ Sharing!MeshAssumption /\ Inject!InjectionAssumption /\ Reflect!ReflectionAssumption

MeshParts == {"meshes", "restarts", "serving"}
Parts == {"link", "input", "output", "injection", "reflection"} \cup MeshParts

\* Two meshes share a Router, or one has it restarted, or one serves again: the
\* meshes, subprocesses and servers beyond the bounds of the part are not used.
UsesOnly(ms, ps, ss) ==
    /\ \A m \in Meshes \ ms : ~mounted[m] /\ ~hasClient[m]
    /\ \A t \in Threads : th[t].mesh \in ms \cup {None}
    /\ \A p \in Procs \ ps : proc[p] = "unused"
    /\ \A s \in Servers \ ss : srv[s] = "unused"
WithinBounds ==
    /\ part = "meshes" => UsesOnly(Meshes, FewProcs, FewServers)
    /\ part = "restarts" => UsesOnly(FewMeshes, Procs, FewServers)
    /\ part = "serving" => UsesOnly(FewMeshes, FewProcs, Servers)

SuiteInit ==
    /\ part \in Parts
    /\ Init
    /\ CASE part = "input" -> Input!Init
         [] part = "output" -> Output!Init
         [] OTHER -> Input!Init /\ shape = "unary" /\ honest
    /\ Sharing!Init
    /\ IF part = "injection" THEN Inject!Init
       ELSE NoTypes!Init
    /\ IF part = "reflection" THEN Reflect!Init
       ELSE NoParams!Init /\ outs = <<>> /\ opts = {}

LinkStep ==
    /\ part = "link" /\ Next
    /\ UNCHANGED <<part, callVars, meshVars, injectionVars, reflectionVars>>

InputStep ==
    /\ part = "input" /\ Input!Next
    /\ UNCHANGED <<part, vars, meshVars, injectionVars, reflectionVars>>

OutputStep ==
    /\ part = "output" /\ Output!Next
    /\ UNCHANGED <<part, vars, meshVars, injectionVars, reflectionVars>>

SharingStep ==
    /\ part \in MeshParts /\ Sharing!Next
    /\ UNCHANGED <<part, vars, callVars, injectionVars, reflectionVars>>
    /\ WithinBounds'

InjectStep ==
    /\ part = "injection" /\ Inject!Next
    /\ UNCHANGED <<part, vars, callVars, meshVars, reflectionVars>>

ReflectStep ==
    /\ part = "reflection" /\ Reflect!Next
    /\ UNCHANGED <<part, vars, callVars, meshVars, injectionVars>>

SuiteNext ==
    \/ LinkStep \/ InputStep \/ OutputStep \/ SharingStep \/ InjectStep \/ ReflectStep

SuiteSpec == SuiteInit /\ [][SuiteNext]_suiteVars

-------------------------------------------------------------------------------
(* Properties *)

(* serverCall.finish, receive, next and send: however return, cancel,      *)
(* protocol error and idle timer meet, the caller gets one terminal frame; *)
(* a caller that keeps to its credit is never failed for it, and the end   *)
(* of the input comes after every item; items of several goroutines go out *)
(* in the order of their numbers, none after stream.end, and no more than  *)
(* the caller has room for.                                                *)
HandlersAnswerOnce ==
    /\ part = "input" => Input!HandlersAnswerOnce
    /\ part = "output" => Output!HandlersAnswerOnce

(* LocalRouter and Mesh: a Router subprocess that lives and was not told   *)
(* to exit is the one Stop would stop, or is being started or stopped;     *)
(* when no operation runs and no Mesh owns the Router, none that a Mesh    *)
(* started is up; a server that is up is the active one of its Mesh, or an *)
(* operation holds it, unless two StartServing of that Mesh overlapped,    *)
(* which nothing in the code excludes.                                     *)
RoutersOwned ==
    part \in MeshParts =>
        /\ Sharing!TypeOK /\ Sharing!NoOrphanProcess /\ Sharing!AutoStartedIsStopped
        /\ Sharing!ServerTracked

(* dfs, resolve, depScope.close, reflectMethod and invoke: a dependency    *)
(* graph is rejected exactly when it has a cycle; a provider runs at most  *)
(* once per call, after those it takes a value from; cleanups run once,    *)
(* those of the users first, however the call ends, unless a cleanup       *)
(* itself panics; a missing header of the handler is noticed before any    *)
(* provider runs; a method has the documented shape, no two of its request *)
(* parameters share a field, and where the source of the handler itself is *)
(* found every one receives the field of its own name.                     *)
HandlersGetTheirArguments ==
    /\ part = "injection" =>
         /\ Inject!TypeOK /\ Inject!CyclesRejected /\ Inject!BuiltOnceInOrder
         /\ Inject!ReleasedAfterUsers /\ Inject!EverythingReleased
         /\ Inject!OwnHeadersFirst
    /\ part = "reflection" =>
         /\ Reflect!TypeOK /\ Reflect!ShapeAsDocumented /\ Reflect!ArgumentsOwnField
         /\ Reflect!UnnamedStayApart

===============================================================================

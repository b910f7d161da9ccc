-------------------------------- MODULE Mesh ---------------------------------
(***************************************************************************)
(* Meshes of the Go SDK that share one LocalRouter                         *)
(* (src/meshcall-go/router.go): the meshcall-router subprocess that Start  *)
(* spawns and Stop ends, the ownership a Mesh takes of a Router it had to  *)
(* start, and the server a Mesh runs between StartServing and Close.       *)
(* Every thread runs one public operation at a time, step by step between  *)
(* the places where it takes LocalRouter.mu or Mesh.activeSrvMu.           *)
(***************************************************************************)
EXTENDS Naturals, FiniteSets

CONSTANTS
    Threads, Meshes,
    Procs,             \* subprocesses ever spawned, a bound
    Servers,           \* servers ever made, a bound
    DirectUse,         \* the application also calls LocalRouter.Start and Stop itself
    None

\* What is assumed of the constants, wherever they are given.
MeshAssumption ==
    /\ None \notin Threads \cup Meshes \cup Procs \cup Servers
    /\ DirectUse \in BOOLEAN

VARIABLES
    proc,       \* the subprocesses: "unused", "live", "exited", "reaped"
    announced,  \* those that have printed router.ready
    told,       \* those whose stdin is closed or that were killed
    starter,    \* who started each: a Mesh, or None for the application
    lock,       \* the thread that holds LocalRouter.mu across Start, or None
    spawned, running,        \* LocalRouter.spawned and LocalRouter.running
    mounted, active, owns, hasClient,   \* mountedRaw, activeSrv, ownsLocalRouter, wsClient
    srv, home,  \* the servers, and the Mesh of each
    overlapped, \* the meshes of which two StartServing have been under way at once
    th          \* the threads

router == <<proc, announced, told, starter, lock, spawned, running>>
mesh   == <<mounted, active, owns, hasClient, srv, home, overlapped>>
vars   == <<router, mesh, th>>

Idle == [pc |-> "idle", job |-> "none", mesh |-> None, proc |-> None, srv |-> None]

Steps == {"idle", "ensure", "locking", "starting", "own", "ready", "dialing", "publish",
          "serving", "closeServer", "closeRunning", "draining", "onClose", "afterClose",
          "release", "stop", "stopping", "waiting"}

Jobs == {"none", "connect", "start", "serve", "close", "handle", "router"}

TypeOK ==
    /\ proc \in [Procs -> {"unused", "live", "exited", "reaped"}]
    /\ announced \subseteq Procs /\ told \subseteq Procs
    /\ starter \in [Procs -> Meshes \cup {None}]
    /\ lock \in Threads \cup {None} /\ spawned \in Procs \cup {None} /\ running \in BOOLEAN
    /\ mounted \in [Meshes -> BOOLEAN] /\ active \in [Meshes -> Servers \cup {None}]
    /\ owns \in [Meshes -> BOOLEAN] /\ hasClient \in [Meshes -> BOOLEAN]
    /\ srv \in [Servers -> {"unused", "made", "open", "closing", "shut", "closed"}]
    /\ home \in [Servers -> Meshes \cup {None}] /\ overlapped \subseteq Meshes
    /\ th \in [Threads -> [pc : Steps, job : Jobs, mesh : Meshes \cup {None},
                           proc : Procs \cup {None}, srv : Servers \cup {None}]]

Init ==
    /\ proc = [p \in Procs |-> "unused"] /\ announced = {} /\ told = {}
    /\ starter = [p \in Procs |-> None]
    /\ lock = None /\ spawned = None /\ running = FALSE
    /\ mounted = [m \in Meshes |-> FALSE] /\ active = [m \in Meshes |-> None]
    /\ owns = [m \in Meshes |-> FALSE] /\ hasClient = [m \in Meshes |-> FALSE]
    /\ srv = [s \in Servers |-> "unused"] /\ home = [s \in Servers |-> None]
    /\ overlapped = {}
    /\ th = [t \in Threads |-> Idle]

At(t, pc) == th[t].pc = pc
Goto(t, pc) == th' = [th EXCEPT ![t].pc = pc]
Returns(t) == th' = [th EXCEPT ![t] = Idle]

-------------------------------------------------------------------------------
(* The subprocess.  It announces itself once it listens; it exits when it  *)
(* fails, crashes, sees its stdin close or is killed.                      *)

Announce(p) ==
    /\ proc[p] = "live" /\ p \notin announced \cup told
    /\ announced' = announced \cup {p}
    /\ UNCHANGED <<proc, told, starter, lock, spawned, running, mesh, th>>

Exit(p) ==
    /\ proc[p] = "live"
    /\ proc' = [proc EXCEPT ![p] = "exited"]
    /\ UNCHANGED <<announced, told, starter, lock, spawned, running, mesh, th>>

\* The goroutine that reads stdout waits for the process only if the ready line
\* never came; after that line it discards the output and does not wait.
ReaderReaps(p) ==
    /\ proc[p] = "exited" /\ p \notin announced
    /\ proc' = [proc EXCEPT ![p] = "reaped"]
    /\ UNCHANGED <<announced, told, starter, lock, spawned, running, mesh, th>>

-------------------------------------------------------------------------------
(* LocalRouter.Start, called by a Mesh or by the application.              *)

\* Start ends with an error: StartServing closes the server it made.
StartFails(t) ==
    /\ srv' = IF th[t].srv = None THEN srv ELSE [srv EXCEPT ![th[t].srv] = "closed"]
    /\ Returns(t)
    /\ UNCHANGED <<mounted, active, owns, hasClient, home, overlapped>>

Release == lock' = None

\* ensureRouterStarted looks at IsRunning first.
EnsureRunning(t) ==
    /\ At(t, "ensure") /\ lock = None
    /\ Goto(t, IF running THEN "ready" ELSE "locking")
    /\ UNCHANGED <<router, mesh>>

\* Mutant: Start does not look whether the Router runs.
AlwaysSpawns == FALSE

AlreadyRunning == running

StartFindsRunning(t) ==
    /\ At(t, "locking") /\ lock = None /\ AlreadyRunning
    /\ Goto(t, "own")
    /\ UNCHANGED <<router, mesh>>

Spawn(t, p) ==
    /\ At(t, "locking") /\ lock = None /\ ~AlreadyRunning
    /\ proc[p] = "unused"
    /\ proc' = [proc EXCEPT ![p] = "live"] /\ starter' = [starter EXCEPT ![p] = th[t].mesh]
    /\ lock' = t
    /\ th' = [th EXCEPT ![t].pc = "starting", ![t].proc = p]
    /\ UNCHANGED <<announced, told, spawned, running, mesh>>

\* The binary is not found or does not start.
SpawnFails(t) ==
    /\ At(t, "locking") /\ lock = None /\ ~AlreadyRunning
    /\ StartFails(t)
    /\ UNCHANGED router

SpawnReady(t) ==
    /\ At(t, "starting") /\ th[t].proc \in announced
    /\ spawned' = th[t].proc /\ running' = TRUE
    /\ Release
    /\ th' = [th EXCEPT ![t].pc = "own", ![t].proc = None]
    /\ UNCHANGED <<proc, announced, told, starter, mesh>>

SpawnExited(t) ==
    /\ At(t, "starting") /\ proc[th[t].proc] = "reaped" /\ th[t].proc \notin announced
    /\ told' = told \cup {th[t].proc}
    /\ StartFails(t)
    /\ UNCHANGED <<proc, announced, starter, spawned, running>>
    /\ Release

\* ctx ends first, whatever the process has printed: stdin is closed, it is killed.
SpawnCancelled(t) ==
    /\ At(t, "starting")
    /\ told' = told \cup {th[t].proc}
    /\ StartFails(t)
    /\ UNCHANGED <<proc, announced, starter, spawned, running>>
    /\ Release

Own(t) ==
    /\ At(t, "own")
    /\ IF th[t].job = "router"
       THEN Returns(t) /\ UNCHANGED owns
       ELSE Goto(t, "ready") /\ owns' = [owns EXCEPT ![th[t].mesh] = TRUE]
    /\ UNCHANGED <<router, mounted, active, hasClient, srv, home, overlapped>>

-------------------------------------------------------------------------------
(* LocalRouter.Stop.                                                       *)

NothingSpawned == spawned = None

StopTakes(t) ==
    /\ At(t, "stop") /\ lock = None
    /\ spawned' = None /\ running' = FALSE
    /\ IF NothingSpawned
       THEN Returns(t)
       ELSE th' = [th EXCEPT ![t].pc = "stopping", ![t].proc = spawned]
    /\ UNCHANGED <<proc, announced, told, starter, lock, mesh>>

StopTells(t) ==
    /\ At(t, "stopping")
    /\ told' = told \cup {th[t].proc}
    /\ Goto(t, "waiting")
    /\ UNCHANGED <<proc, announced, starter, lock, spawned, running, mesh>>

\* spawnedRouter.close waits for the process, and kills it after three seconds.
StopReturns(t) ==
    /\ At(t, "waiting") /\ proc[th[t].proc] = "exited"
    /\ proc' = [proc EXCEPT ![th[t].proc] = "reaped"]
    /\ Returns(t)
    /\ UNCHANGED <<announced, told, starter, lock, spawned, running, mesh>>

\* The application's own use of the LocalRouter.
BeginStart(t) ==
    /\ DirectUse /\ At(t, "idle")
    /\ th' = [th EXCEPT ![t] = [Idle EXCEPT !.pc = "locking", !.job = "router"]]
    /\ UNCHANGED <<router, mesh>>

BeginStop(t) ==
    /\ DirectUse /\ At(t, "idle")
    /\ th' = [th EXCEPT ![t] = [Idle EXCEPT !.pc = "stop", !.job = "router"]]
    /\ UNCHANGED <<router, mesh>>

-------------------------------------------------------------------------------
(* Mesh: the client.                                                       *)

\* A call makes the client if there is none; it never starts the Router.
EnsureCaller(t, m) ==
    /\ At(t, "idle") /\ lock = None /\ ~hasClient[m]
    /\ hasClient' = [hasClient EXCEPT ![m] = TRUE]
    /\ UNCHANGED <<router, mounted, active, owns, srv, home, overlapped, th>>

BeginConnect(t, m) ==
    /\ At(t, "idle")
    /\ th' = [th EXCEPT ![t] = [Idle EXCEPT !.pc = "ensure", !.job = "connect", !.mesh = m]]
    /\ UNCHANGED <<router, mesh>>

\* The old client is closed and one is made for the Router's present endpoint.
NewClient(t) ==
    /\ At(t, "ready") /\ th[t].job = "connect" /\ lock = None
    /\ hasClient' = [hasClient EXCEPT ![th[t].mesh] = TRUE]
    /\ Goto(t, "dialing")
    /\ UNCHANGED <<router, mounted, active, owns, srv, home, overlapped>>

Connected(t) ==
    /\ At(t, "dialing") /\ \E p \in announced : proc[p] = "live"
    /\ Returns(t)
    /\ UNCHANGED <<router, mesh>>

ConnectFails(t) ==
    /\ At(t, "dialing")
    /\ hasClient' = [hasClient EXCEPT ![th[t].mesh] = FALSE]
    /\ Returns(t)
    /\ UNCHANGED <<router, mounted, active, owns, srv, home, overlapped>>

-------------------------------------------------------------------------------
(* Mesh: serving.                                                          *)

Mount(t, m) ==
    /\ At(t, "idle") /\ active[m] = None /\ ~mounted[m]
    /\ mounted' = [mounted EXCEPT ![m] = TRUE]
    /\ UNCHANGED <<router, active, owns, hasClient, srv, home, overlapped, th>>

NotServing(m) == active[m] = None

\* Between StartServing's look at activeSrv and its assignment.
IsStarting(t, m) ==
    /\ th[t].mesh = m /\ th[t].job \in {"start", "serve"}
    /\ th[t].pc \in {"ensure", "locking", "starting", "own", "ready", "publish"}

\* StartServing (job "start") and Serve (job "serve") look at activeSrv, let the lock
\* go, and make the server; with WithDirectListen it listens without a Router.
\* Nothing keeps a second StartServing from beginning meanwhile.
BeginServing(t, m, s, job, direct) ==
    /\ At(t, "idle") /\ mounted[m] /\ NotServing(m)
    /\ srv[s] = "unused"
    /\ srv' = [srv EXCEPT ![s] = IF direct THEN "open" ELSE "made"]
    /\ home' = [home EXCEPT ![s] = m]
    /\ overlapped' = IF \E u \in Threads : IsStarting(u, m) THEN overlapped \cup {m} ELSE overlapped
    /\ th' = [th EXCEPT ![t] = [Idle EXCEPT !.pc = IF direct THEN "publish" ELSE "ensure",
                                            !.job = job, !.mesh = m, !.srv = s]]
    /\ UNCHANGED <<router, mounted, active, owns, hasClient>>

\* ConnectRouter registers with the Router, or the server is closed; a Router
\* started for this server alone is then stopped with the Mesh.
Register(t) ==
    /\ At(t, "ready") /\ th[t].srv # None /\ lock = None
    /\ \E p \in announced : proc[p] = "live"
    /\ srv' = [srv EXCEPT ![th[t].srv] = "open"]
    /\ Goto(t, "publish")
    /\ UNCHANGED <<router, mounted, active, owns, hasClient, home, overlapped>>

RegisterFails(t) ==
    /\ At(t, "ready") /\ th[t].srv # None /\ lock = None
    /\ srv' = [srv EXCEPT ![th[t].srv] = "closed"]
    /\ IF owns[th[t].mesh] /\ ~hasClient[th[t].mesh]
       THEN th' = [th EXCEPT ![t] = [Idle EXCEPT !.pc = "closeServer", !.job = "close", !.mesh = th[t].mesh]]
       ELSE Returns(t)
    /\ UNCHANGED <<router, mounted, active, owns, hasClient, home, overlapped>>

Publish(t) ==
    /\ At(t, "publish")
    /\ active' = [active EXCEPT ![th[t].mesh] = th[t].srv]
    /\ IF th[t].job = "serve" THEN Goto(t, "serving") ELSE Returns(t)
    /\ UNCHANGED <<router, mounted, owns, hasClient, srv, home, overlapped>>

\* The context of Serve ends.
ServeEnds(t) ==
    /\ At(t, "serving")
    /\ Goto(t, "closeRunning")
    /\ UNCHANGED <<router, mesh>>

-------------------------------------------------------------------------------
(* RunningServer.Close, by its handle, by Serve or by Mesh.Close: the      *)
(* first caller drains and closes, the others wait for it.                 *)

BeginCloseRunning(t, s) ==
    /\ At(t, "idle") /\ srv[s] = "open"
    /\ \A u \in Threads : th[u].srv = s => At(u, "serving")
    /\ th' = [th EXCEPT ![t] = [Idle EXCEPT !.pc = "closeRunning", !.job = "handle",
                                            !.mesh = home[s], !.srv = s]]
    /\ UNCHANGED <<router, mesh>>

CloseFirst(t) ==
    /\ At(t, "closeRunning") /\ srv[th[t].srv] = "open"
    /\ srv' = [srv EXCEPT ![th[t].srv] = "closing"]
    /\ Goto(t, "draining")
    /\ UNCHANGED <<router, mounted, active, owns, hasClient, home, overlapped>>

\* Drained, or drainTimeout over: Server.Close.
Drained(t) ==
    /\ At(t, "draining")
    /\ srv' = [srv EXCEPT ![th[t].srv] = "shut"]
    /\ Goto(t, "onClose")
    /\ UNCHANGED <<router, mounted, active, owns, hasClient, home, overlapped>>

Forget(m, s) == active[m] = s

OnClose(t) ==
    /\ At(t, "onClose")
    /\ active' = IF Forget(th[t].mesh, th[t].srv) THEN [active EXCEPT ![th[t].mesh] = None] ELSE active
    /\ srv' = [srv EXCEPT ![th[t].srv] = "closed"]
    /\ Goto(t, "afterClose")
    /\ UNCHANGED <<router, mounted, owns, hasClient, home, overlapped>>

CloseWaits(t) ==
    /\ At(t, "closeRunning") /\ srv[th[t].srv] = "closed"
    /\ Goto(t, "afterClose")
    /\ UNCHANGED <<router, mesh>>

AfterClose(t) ==
    /\ At(t, "afterClose")
    /\ CASE th[t].job = "close" -> Goto(t, "release")
         [] th[t].job = "serve" /\ owns[th[t].mesh] ->
              th' = [th EXCEPT ![t] = [Idle EXCEPT !.pc = "closeServer", !.job = "close", !.mesh = th[t].mesh]]
         [] OTHER -> Returns(t)
    /\ UNCHANGED <<router, mesh>>

-------------------------------------------------------------------------------
(* Mesh.Close.                                                             *)

BeginClose(t, m) ==
    /\ At(t, "idle")
    /\ th' = [th EXCEPT ![t] = [Idle EXCEPT !.pc = "closeServer", !.job = "close", !.mesh = m]]
    /\ UNCHANGED <<router, mesh>>

TakeServer(t) ==
    /\ At(t, "closeServer")
    /\ active' = [active EXCEPT ![th[t].mesh] = None]
    /\ th' = [th EXCEPT ![t].srv = active[th[t].mesh],
                        ![t].pc = IF active[th[t].mesh] = None THEN "release" ELSE "closeRunning"]
    /\ UNCHANGED <<router, mounted, owns, hasClient, srv, home, overlapped>>

MustStop(m) == owns[m]

\* The client is closed, and the Router stopped if this Mesh started it.
ReleaseRouter(t) ==
    /\ At(t, "release")
    /\ owns' = [owns EXCEPT ![th[t].mesh] = FALSE]
    /\ IF MustStop(th[t].mesh)
       THEN th' = [th EXCEPT ![t].pc = "stop", ![t].srv = None]
       ELSE Returns(t)
    /\ UNCHANGED <<router, mounted, active, hasClient, srv, home, overlapped>>

-------------------------------------------------------------------------------
Starting(t) ==
    \/ EnsureRunning(t) \/ StartFindsRunning(t) \/ SpawnFails(t) \/ SpawnReady(t)
    \/ SpawnExited(t) \/ Own(t) \/ \E p \in Procs : Spawn(t, p)

Ending(t) ==
    \/ StopTakes(t) \/ StopTells(t) \/ StopReturns(t) \/ CloseFirst(t) \/ Drained(t)
    \/ OnClose(t) \/ CloseWaits(t) \/ AfterClose(t) \/ TakeServer(t) \/ ReleaseRouter(t)

Using(t) ==
    \/ NewClient(t) \/ Connected(t) \/ ConnectFails(t) \/ Register(t) \/ RegisterFails(t) \/ Publish(t)

Begin(t) ==
    \/ BeginStart(t) \/ BeginStop(t)
    \/ \E m \in Meshes : EnsureCaller(t, m) \/ BeginConnect(t, m) \/ Mount(t, m) \/ BeginClose(t, m)
    \/ \E m \in Meshes, s \in Servers, job \in {"start", "serve"}, direct \in BOOLEAN :
         BeginServing(t, m, s, job, direct)
    \/ \E s \in Servers : BeginCloseRunning(t, s)

Next ==
    \/ \E t \in Threads : Starting(t) \/ Ending(t) \/ Using(t) \/ Begin(t) \/ SpawnCancelled(t) \/ ServeEnds(t)
    \/ \E p \in Procs : Announce(p) \/ Exit(p) \/ ReaderReaps(p)

Spec == Init /\ [][Next]_vars

\* A goroutine that can go on does; a process that is spawned announces itself or
\* exits, and one that is told to exit does.
Fairness ==
    /\ \A t \in Threads : WF_vars(Starting(t)) /\ WF_vars(Ending(t)) /\ WF_vars(Using(t))
    /\ \A p \in Procs : /\ WF_vars(Announce(p)) /\ WF_vars(ReaderReaps(p))
                        /\ WF_vars(p \in told /\ Exit(p))

FairSpec == Spec /\ Fairness

-------------------------------------------------------------------------------
(* No subprocess is left behind: one that lives and was not told to exit   *)
(* is the one Stop would stop, or is being started, or about to be told.   *)
NoOrphanProcess ==
    \A p \in Procs : proc[p] = "live" /\ p \notin told =>
        \/ spawned = p
        \/ \E t \in Threads : th[t].proc = p /\ th[t].pc \in {"starting", "stopping"}

(* When no operation runs and no Mesh owns the Router, no subprocess that  *)
(* a Mesh started is still up: whoever auto-started it had it stopped,     *)
(* whatever order two meshes connected, served and closed in.              *)
AutoStartedIsStopped ==
    (\A t \in Threads : At(t, "idle")) /\ (\A m \in Meshes : ~owns[m]) =>
        \A p \in Procs : proc[p] = "live" /\ p \notin told => starter[p] = None

(* A server that is up can be found: it is the active server of its Mesh,  *)
(* where Close will find it, or an operation holds it.  Excepted are the   *)
(* meshes of which two StartServing overlapped: both pass the look at      *)
(* activeSrv, and the second assignment hides the first server.            *)
ServerTracked ==
    \A s \in Servers : srv[s] = "open" /\ home[s] \notin overlapped =>
        active[home[s]] = s \/ \E t \in Threads : th[t].srv = s

(* Every operation returns, Serve until its context ends: nobody keeps the *)
(* LocalRouter locked, and no two closers wait for each other.             *)
OperationsEnd ==
    \A t \in Threads : th[t].pc \notin {"idle", "serving"} ~> th[t].pc \in {"idle", "serving"}

(* StartServing's "Mesh is already serving" taken at its word: a Mesh has  *)
(* one server at a time.                                                   *)
OneServerPerMesh ==
    \A m \in Meshes : Cardinality({s \in Servers : home[s] = m /\ srv[s] = "open"}) <= 1

(* Mesh.Close's comment taken at its word: the subprocess a Mesh owns, and *)
(* so stops, is one that this Mesh started.                                *)
OwnerStartedIt == \A m \in Meshes : owns[m] /\ spawned # None => starter[spawned] = m

(* IsRunning's comment taken at its word.                                  *)
RunningMeansAlive == running => proc[spawned] = "live"

(* The README's "reap failed children" taken at its word: a subprocess     *)
(* that Start gave up on, and that has exited, is waited for.              *)
FailedChildrenReaped ==
    \A p \in told : proc[p] = "exited" => p \notin announced \/ \E t \in Threads : th[t].proc = p
===============================================================================

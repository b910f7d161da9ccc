--------------------------- MODULE RouterProcess ---------------------------
(***************************************************************************)
(* The Router as a process of the command meshcall-router: how it starts   *)
(* on a Unix socket (run, Start), and how signals, a parent that is gone   *)
(* or a failed listener stop it (Shutdown, Close, the deferred calls of    *)
(* run). Several Routers are configured with one socket path and one       *)
(* metrics address, as restarts and supervisors produce.                   *)
(*                                                                         *)
(* Each system call on the path is a step, since every process shares the  *)
(* file system. A socket file is a number that is never used again. What   *)
(* happens to calls and connections in a stopping Router is RouterCore and *)
(* Outbox: here they are a count. Flags, TCP and named pipes are left out. *)
(***************************************************************************)
EXTENDS Naturals, FiniteSets

CONSTANTS Routers,      \* processes
          WithMetrics,  \* those given the metrics address
          Operator,     \* TRUE: somebody removes the path at times
          MaxCalls,     \* calls in flight at a time (a bound)
          MaxFiles      \* socket files ever made (a bound)

(* What is assumed of the constants, wherever they are given.              *)
ProcessAssumption == WithMetrics \subseteq Routers /\ {MaxCalls, MaxFiles} \subseteq Nat

NoFile == 0

VARIABLES file,     \* the socket file at the path, or NoFile
          made,     \* files made so far
          port,     \* the Router that listens on the metrics address
          pc,       \* run of a process
          bound,    \* the file its listener was bound to, or NoFile
          owned,    \* Router.socketInfo
          closing,  \* how far Close got, once for all its callers
          calls,    \* calls in flight
          replaced, \* a Router removed a file that another one made
          left      \* the last file whose Router ended without its Close

vars == <<file, made, port, pc, bound, owned, closing, calls, replaced, left>>

Init ==
  /\ file = NoFile /\ made = 0 /\ port = {}
  /\ pc = [r \in Routers |-> "off"]
  /\ bound = [r \in Routers |-> NoFile]
  /\ owned = [r \in Routers |-> NoFile]
  /\ closing = [r \in Routers |-> "no"]
  /\ calls = [r \in Routers |-> 0]
  /\ replaced = FALSE /\ left = NoFile

-----------------------------------------------------------------------------
(* The process is gone, with its listeners; files stay.                    *)
Gone(r) ==
  /\ pc' = [pc EXCEPT ![r] = "off"]
  /\ bound' = [bound EXCEPT ![r] = NoFile]
  /\ owned' = [owned EXCEPT ![r] = NoFile]
  /\ closing' = [closing EXCEPT ![r] = "no"]
  /\ calls' = [calls EXCEPT ![r] = 0]
  /\ port' = port \ {r}

(* It has not come to its Close: a file of its own stays at the path.      *)
Abandons(r) ==
  /\ Gone(r)
  /\ left' = IF file \in {bound[r], owned[r]} THEN file ELSE left

(* Start looks at the path. A Router that finds it taken ends.             *)
Look(r) ==
  /\ pc[r] = "off" /\ file = NoFile
  /\ pc' = [pc EXCEPT ![r] = "binding"]
  /\ UNCHANGED <<file, made, port, bound, owned, closing, calls, replaced, left>>

CanBind == file = NoFile

Bind(r) ==
  /\ pc[r] = "binding" /\ CanBind /\ made < MaxFiles
  /\ made' = made + 1
  /\ file' = made'
  /\ bound' = [bound EXCEPT ![r] = made']
  /\ pc' = [pc EXCEPT ![r] = "bound"]
  /\ UNCHANGED <<port, owned, closing, calls, replaced, left>>

BindFails(r) ==
  /\ pc[r] = "binding" /\ ~CanBind
  /\ Abandons(r)
  /\ UNCHANGED <<file, made, replaced>>

(* socketInfo is whatever is at the path a moment after the listener.      *)
Remember(r) ==
  /\ pc[r] = "bound" /\ file # NoFile
  /\ owned' = [owned EXCEPT ![r] = file]
  /\ pc' = [pc EXCEPT ![r] = "metrics"]
  /\ UNCHANGED <<file, made, port, bound, closing, calls, replaced, left>>

RememberFails(r) ==
  /\ pc[r] = "bound" /\ file = NoFile
  /\ Abandons(r)
  /\ UNCHANGED <<file, made, replaced>>

StartMetrics(r) ==
  /\ pc[r] = "metrics"
  /\ r \in WithMetrics => port = {}
  /\ port' = port \cup ({r} \cap WithMetrics)
  /\ pc' = [pc EXCEPT ![r] = "serving"]
  /\ UNCHANGED <<file, made, bound, owned, closing, calls, replaced, left>>

(* Another Router, or another program, has the address. The listener is    *)
(* closed; with SetUnlinkOnClose(FALSE) its file stays.                    *)
MetricsFails(r) ==
  /\ pc[r] = "metrics" /\ r \in WithMetrics
  /\ Abandons(r)
  /\ UNCHANGED <<file, made, replaced>>

-----------------------------------------------------------------------------
CallOpens(r) ==
  /\ pc[r] = "serving" /\ closing[r] = "no" /\ calls[r] < MaxCalls
  /\ calls' = [calls EXCEPT ![r] = @ + 1]
  /\ UNCHANGED <<file, made, port, pc, bound, owned, closing, replaced, left>>

CanEnd(r) == calls[r] > 0

CallEnds(r) ==
  /\ CanEnd(r)
  /\ calls' = [calls EXCEPT ![r] = @ - 1]
  /\ UNCHANGED <<file, made, port, pc, bound, owned, closing, replaced, left>>

Goes(r, where) ==
  /\ pc' = [pc EXCEPT ![r] = where]
  /\ UNCHANGED <<file, made, port, bound, owned, closing, calls, replaced, left>>

(* The select of run, or a readiness line that cannot be written.          *)
Signal(r) == pc[r] = "serving" /\ Goes(r, "draining")
ParentGone(r) == pc[r] = "serving" /\ Goes(r, "leaving")
ListenerStopped(r) == pc[r] = "serving" /\ closing[r] = "done" /\ Goes(r, "leaving")

(* Shutdown waits for the last call, for Close or for the timeout.         *)
Drained(r) ==
  /\ pc[r] = "draining"
  /\ calls[r] = 0 \/ closing[r] \in {"stopped", "unlinking", "done"}
  /\ Goes(r, "leaving")

TimesOut(r) == pc[r] = "draining"

DrainTimeout(r) == TimesOut(r) /\ Goes(r, "leaving")

-----------------------------------------------------------------------------
Closes(r, how) == closing' = [closing EXCEPT ![r] = how]

(* Close is called by run once it leaves, by a second signal and by the    *)
(* goroutine that serves when the listener fails; the first call runs it.  *)
CloseBegins(r) ==
  /\ closing[r] = "no"
  /\ pc[r] \in {"leaving", "draining", "serving"}
  /\ Closes(r, "begun")
  /\ calls' = [calls EXCEPT ![r] = 0]
  /\ UNCHANGED <<file, made, port, pc, bound, owned, replaced, left>>

CloseListener(r) ==
  /\ closing[r] = "begun"
  /\ Closes(r, "unlisted")
  /\ bound' = [bound EXCEPT ![r] = NoFile]
  /\ UNCHANGED <<file, made, port, pc, owned, calls, replaced, left>>

(* Connections had their grace, goroutines ended, metrics are closed.      *)
CloseStops(r) ==
  /\ closing[r] = "unlisted"
  /\ Closes(r, "stopped")
  /\ port' = port \ {r}
  /\ UNCHANGED <<file, made, pc, bound, owned, calls, replaced, left>>

SameFile(r) == file # NoFile /\ file = owned[r]

CloseLooks(r) ==
  /\ closing[r] = "stopped"
  /\ Closes(r, IF SameFile(r) THEN "unlinking" ELSE "done")
  /\ UNCHANGED <<file, made, port, pc, bound, owned, calls, replaced, left>>

(* The path is removed, whatever is there by now.                          *)
CloseRemoves(r) ==
  /\ closing[r] = "unlinking"
  /\ Closes(r, "done")
  /\ file' = NoFile
  /\ replaced' = (replaced \/ (file # NoFile /\ file # owned[r]))
  /\ UNCHANGED <<made, port, pc, bound, owned, calls, left>>

\* Mutant: run returns without its deferred Close.
LeavesAtOnce(r) == pc[r] = "leaving"

Leaves(r) == pc[r] = "leaving" /\ closing[r] = "done"

Exit(r) ==
  /\ Leaves(r)
  /\ Gone(r)
  /\ UNCHANGED <<file, made, replaced, left>>

-----------------------------------------------------------------------------
Killed(r) ==
  /\ pc[r] # "off"
  /\ Abandons(r)
  /\ UNCHANGED <<file, made, replaced>>

OperatorRemoves ==
  /\ Operator /\ file # NoFile
  /\ file' = NoFile
  /\ UNCHANGED <<made, port, pc, bound, owned, closing, calls, replaced, left>>

Starting(r) ==
  \/ Bind(r) \/ BindFails(r) \/ Remember(r) \/ RememberFails(r)
  \/ StartMetrics(r) \/ MetricsFails(r)

Leaving(r) == Drained(r) \/ ListenerStopped(r) \/ DrainTimeout(r) \/ Exit(r)

Closing(r) ==
  CloseListener(r) \/ CloseStops(r) \/ CloseLooks(r) \/ CloseRemoves(r)

Next ==
  \/ OperatorRemoves
  \/ \E r \in Routers :
       \/ Look(r) \/ Starting(r)
       \/ CallOpens(r) \/ CallEnds(r)
       \/ Signal(r) \/ ParentGone(r)
       \/ Leaving(r)
       \/ CloseBegins(r) \/ Closing(r)
       \/ Killed(r)

Spec == Init /\ [][Next]_vars

(* A process runs, the drain timer fires, run's own Close is called when   *)
(* it leaves. Signals, calls, failures and starts may never come.          *)
Fairness ==
  \A r \in Routers :
    /\ WF_vars(Starting(r))
    /\ WF_vars(Leaving(r))
    /\ WF_vars(pc[r] = "leaving" /\ CloseBegins(r))
    /\ WF_vars(Closing(r))

FairSpec == Spec /\ Fairness

-----------------------------------------------------------------------------
TypeOK ==
  /\ file \in 0 .. made /\ made \in 0 .. MaxFiles
  /\ port \subseteq WithMetrics /\ Cardinality(port) <= 1
  /\ pc \in [Routers -> {"off", "binding", "bound", "metrics", "serving",
                         "draining", "leaving"}]
  /\ bound \in [Routers -> 0 .. made] /\ owned \in [Routers -> 0 .. made]
  /\ closing \in [Routers -> {"no", "begun", "unlisted", "stopped",
                              "unlinking", "done"}]
  /\ calls \in [Routers -> 0 .. MaxCalls]
  /\ replaced \in BOOLEAN /\ left \in 0 .. made

(* Unless somebody else removes the path, a Router that serves and was not *)
(* told to stop is the one callers reach there: no start and no stop of    *)
(* another Router takes its path away.                                     *)
ReachableAtItsPath ==
  \A r \in Routers :
    pc[r] \in {"serving", "draining"} /\ closing[r] = "no" => file = bound[r]

(* Once every Router has ended, none that came to its Close left a socket  *)
(* behind: unless one was killed or failed to start, the next one can.     *)
PathFreeAfterwards ==
  (\A r \in Routers : pc[r] = "off") => file \in {NoFile, left}

(* Close removes the socket only when it is still the Router's own file.   *)
RemovesItsOwnOnly == ~replaced

(* A Router that was told to stop ends, whatever its calls do and however  *)
(* many callers wait for the one Close.                                    *)
StopsWhenTold ==
  \A r \in Routers : pc[r] \in {"draining", "leaving"} ~> pc[r] = "off"
=============================================================================

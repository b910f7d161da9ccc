------------------------------ MODULE Settings ------------------------------
(***************************************************************************)
(* How the flags and the environment of the meshcall-router command become *)
(* the settings a Router runs with (cmd/meshcall-router/main.go, the first *)
(* part of Start in internal/router/router.go).                            *)
(*                                                                         *)
(* flag.Parse takes the command line; applyEnvironment visits the flags in *)
(* the order of their names and sets those that were not given from their  *)
(* variables; main turns the 0 of two of them into "none", loads the       *)
(* accounts and calls Start, which reads a 0 as "take the default", checks *)
(* the ranges and cuts the default timeout of HTTP calls to the maximum.   *)
(*                                                                         *)
(* Numbers are a small scale; the constants that matter keep their order   *)
(* on it.  Flags whose text no decision depends on are left out: the CORS  *)
(* origins, the metrics address and shutdown-on-stdin-close.               *)
(***************************************************************************)
EXTENDS Integers, Sequences, FiniteSets

CONSTANTS
    Largest,   \* the numbers that may be given: from -1 up to this
    Absent,
    Bad,       \* a text that flag.Set refuses
    Text       \* a host, a path

\* What is assumed of the constants, wherever they are given.
SettingsAssumption ==
    /\ Largest \in Nat
    /\ Absent /= Bad /\ Absent /= Text /\ Bad /= Text
    /\ Absent \notin Int /\ Bad \notin Int /\ Text \notin Int

Values == -1..Largest

\* The flags in the order in which VisitAll visits them.
FlagOrder ==
    << "auth-file", "breaker-cooldown", "breaker-threshold", "deadline-grace",
       "host", "http-default-timeout", "http-max-inflight", "http-max-timeout",
       "idle-timeout", "max-anonymous-connections", "max-calls-per-connection",
       "max-connections", "max-frame-size", "outbox-size", "pipe", "port",
       "shutdown-timeout", "unix-socket" >>

Flags == {FlagOrder[i] : i \in 1..Len(FlagOrder)}
Texts == {"auth-file", "host", "pipe", "unix-socket"}

\* Where 0 stands for itself: any port, and no maximum.
ZeroAllowed == {"port", "http-max-timeout"}

\* Where the command's 0 is none at all.
ZeroIsNone == {"max-calls-per-connection", "shutdown-timeout"}

\* The defaults on the scale of this module: a frame of 2 and an outbox of 3.
Default ==
    [f \in Flags |->
        CASE f \in Texts -> Absent
          [] f \in ZeroAllowed -> 0
          [] f = "outbox-size" -> 3
          [] OTHER -> 2]

MaxFrameSize == 2   \* DefaultMaxFrameSize, also the maximum
Second == 2         \* the shortest idle timeout
MaxPort == 2        \* 65535

VARIABLES
    cmd,      \* [Flags -> the command line's value, or Absent]
    env,      \* [Flags -> the variable's value, or Absent]
    inline,   \* MESHCALL_ROUTER_AUTH is set
    phase,    \* "parse", "env", "check", "auth", "start", "running", "failed", "shown"
    at,       \* the flag that applyEnvironment visits next
    actual,   \* the flags that have been set
    config,   \* [Flags -> value]
    auth,     \* the accounts in force: "none", "file" or "inline"
    blamed    \* the variable an error names, or Absent

vars == <<cmd, env, inline, phase, at, actual, config, auth, blamed>>

Input(f) == IF f \in Texts THEN {Absent, Text} ELSE {Absent, Bad} \cup Values

\* Bound: two settings are given, each on the command line or in the
\* environment, perhaps both for one flag.
Pairs == {<<a, b>> : a, b \in {"cmd", "env"} \X Flags}

\* What one source says when the pair p is given the values v and w.
Says(source, p, v, w) ==
    [f \in Flags |-> CASE p[1] = <<source, f>> -> v
                       [] p[2] = <<source, f>> -> w
                       [] OTHER -> Absent]

Init ==
    /\ \E p \in Pairs : \E v \in Input(p[1][2]), w \in Input(p[2][2]) :
          cmd = Says("cmd", p, v, w) /\ env = Says("env", p, v, w)
    /\ inline \in BOOLEAN
    /\ phase = "parse" /\ at = 1 /\ actual = {}
    /\ config = Default
    /\ auth = "none" /\ blamed = Absent

-----------------------------------------------------------------------------
Inputs == <<cmd, env, inline>>

Fail == phase' = "failed" /\ UNCHANGED <<Inputs, at, actual, config, auth>>

\* flag.Parse: a value it cannot take ends the process.
Parse ==
    /\ phase = "parse"
    /\ \/ /\ \E f \in Flags : cmd[f] = Bad
          /\ Fail /\ UNCHANGED blamed
       \/ /\ \A f \in Flags : cmd[f] /= Bad
          /\ actual' = {f \in Flags : cmd[f] /= Absent}
          /\ config' = [f \in Flags |-> IF cmd[f] = Absent THEN Default[f] ELSE cmd[f]]
          /\ phase' = "env"
          /\ UNCHANGED <<Inputs, at, auth, blamed>>

\* Given on the command line, or without a variable.
Skips(f) == cmd[f] /= Absent \/ env[f] = Absent

Refuses(f) == env[f] = Bad

\* The flags still to be visited that take their variable's value.
Left == {i \in at..Len(FlagOrder) : ~Skips(FlagOrder[i])}

\* applyEnvironment: the next flag of VisitAll that is not skipped.
Visit ==
    /\ phase = "env"
    /\ \E i \in Left :
        LET f == FlagOrder[i]
        IN  /\ \A j \in Left : i <= j
            /\ \/ Refuses(f) /\ blamed' = f /\ Fail
               \/ /\ ~Refuses(f)
                  /\ config' = IF env[f] = Bad THEN config
                               ELSE [config EXCEPT ![f] = env[f]]
                  /\ actual' = actual \cup {f}
                  /\ at' = i + 1
                  /\ UNCHANGED <<Inputs, phase, auth, blamed>>

\* --version is shown, further arguments are refused.
Visited ==
    /\ phase = "env" /\ Left = {}
    /\ phase' \in {"shown", "failed", "check"}
    /\ UNCHANGED <<Inputs, at, actual, config, auth, blamed>>

\* A local socket, and a host or port from either source.
Conflict ==
    /\ Text \in {config["unix-socket"], config["pipe"]}
    /\ {"host", "port"} \cap actual /= {}

\* The command's "none": 0 for two flags, which Start knows as -1.
Check ==
    /\ phase = "check"
    /\ \/ Conflict /\ Fail /\ UNCHANGED blamed
       \/ /\ ~Conflict
          /\ config' = [f \in Flags |-> IF f \in ZeroIsNone /\ config[f] = 0
                                        THEN -1 ELSE config[f]]
          /\ phase' = "auth"
          /\ UNCHANGED <<Inputs, at, actual, auth, blamed>>

Ambiguous == inline /\ config["auth-file"] /= Absent

\* loadAuth.  What the document says, and whether it can be read, is
\* AuthDocument's.
LoadAuth ==
    /\ phase = "auth"
    /\ \/ Ambiguous /\ Fail /\ UNCHANGED blamed
       \/ /\ ~Ambiguous
          /\ auth' = CASE inline -> "inline"
                       [] config["auth-file"] /= Absent -> "file"
                       [] OTHER -> "none"
          /\ phase' = "start"
          /\ UNCHANGED <<Inputs, at, actual, config, blamed>>

\* Start: 0 is the default.
Filled ==
    [f \in Flags |-> IF f \notin Texts \cup ZeroAllowed /\ config[f] = 0
                     THEN Default[f] ELSE config[f]]

OutboxTooSmall == Filled["outbox-size"] < Filled["max-frame-size"]

\* The checks of Start, none of which changes anything.
OutOfRange ==
    LET c == Filled
    IN  \/ c["max-frame-size"] \notin 1..MaxFrameSize
        \/ OutboxTooSmall
        \/ c["deadline-grace"] < 0
        \/ c["idle-timeout"] < Second
        \/ \E f \in {"max-connections", "http-default-timeout", "http-max-timeout",
                     "http-max-inflight", "max-anonymous-connections"} : c[f] < 0
        \/ c["breaker-threshold"] < 1 \/ c["breaker-cooldown"] <= 0
        \/ c["port"] \notin 0..MaxPort
        \/ c["pipe"] = Text /\ c["unix-socket"] = Text

\* The default timeout of HTTP calls is at most the maximum, if there is one.
Capped(c) ==
    IF c["http-max-timeout"] > 0 /\ c["http-default-timeout"] > c["http-max-timeout"]
    THEN [c EXCEPT !["http-default-timeout"] = c["http-max-timeout"]]
    ELSE c

Start ==
    /\ phase = "start"
    /\ \/ OutOfRange /\ Fail /\ UNCHANGED blamed
       \/ /\ ~OutOfRange
          /\ config' = Capped(Filled)
          /\ phase' = "running"
          /\ UNCHANGED <<Inputs, at, actual, auth, blamed>>

Next == Parse \/ Visit \/ Visited \/ Check \/ LoadAuth \/ Start

Spec == Init /\ [][Next]_vars

-----------------------------------------------------------------------------
(* What must hold. *)

\* What the operator asked for: the command line before the variable.
Asked(f) == IF cmd[f] /= Absent THEN cmd[f] ELSE env[f]

\* What 0 means is a matter of its own.
AskedFor(f) == IF f \in ZeroIsNone /\ Asked(f) = 0 THEN -1 ELSE Asked(f)

CutToMaximum(f) ==
    /\ f = "http-default-timeout"
    /\ config["http-max-timeout"] \in 1..(AskedFor(f) - 1)

\* A Router that runs has every setting it was given other than a plain 0,
\* the command line's before the variable's, and the two zeros that mean
\* "none" (applyEnvironment, run, Start).
GivenIsInForce ==
    phase = "running" =>
        \A f \in Flags :
            AskedFor(f) \notin {Absent, 0} /\ ~CutToMaximum(f)
                => config[f] = AskedFor(f)

\* A variable with an invalid value that is not overridden keeps the Router
\* from starting, and the error names one such variable (applyEnvironment).
BadVariableStops ==
    LET wrong == {f \in Flags : cmd[f] = Absent /\ env[f] = Bad}
    IN  /\ phase = "running" => wrong = {}
        /\ blamed /= Absent => blamed \in wrong

\* A Router that runs can queue a frame of the largest size, keeps the HTTP
\* default within the maximum, and has limits and times that make sense,
\* whatever mixture of zeros, defaults and values it was given (Start).
RunsWithinLimits ==
    phase = "running" =>
        /\ config["max-frame-size"] \in 1..MaxFrameSize
        /\ config["outbox-size"] >= config["max-frame-size"]
        /\ config["http-max-timeout"] > 0
              => config["http-default-timeout"] <= config["http-max-timeout"]
        /\ \A f \in Flags \ (Texts \cup ZeroAllowed \cup ZeroIsNone) : config[f] > 0
        /\ \A f \in ZeroIsNone : config[f] /= 0

\* A Router that runs was told of its accounts in one way only, on whatever
\* side, and those are in force (loadAuth).
OneAuthInForce ==
    phase = "running" =>
        auth = CASE inline /\ Asked("auth-file") = Absent -> "inline"
                 [] ~inline /\ Asked("auth-file") /= Absent -> "file"
                 [] ~inline /\ Asked("auth-file") = Absent -> "none"
                 [] OTHER -> "both"

\* A Router on a local socket was given no TCP address by either source
\* (run, Start).
LocalIsExclusive ==
    phase = "running" /\ Text \in {Asked("unix-socket"), Asked("pipe")}
        => /\ Asked("host") = Absent /\ Asked("port") = Absent
           /\ Absent \in {Asked("unix-socket"), Asked("pipe")}

\* A zero that is not refused is in force, as every other number is.
ZeroIsInForce ==
    phase = "running" =>
        \A f \in Flags \ ZeroIsNone : Asked(f) = 0 => config[f] = 0

=============================================================================

------------------------------ MODULE MCRouter ------------------------------
(***************************************************************************)
(* The parts of the Router around its routing core, for one safety run:    *)
(* the deadline loop, the idempotency table, the registry, the auth        *)
(* document, accounts with their tokens and the admission of connections,  *)
(* the process with its socket, and the settings. The suite extends the    *)
(* module of the idempotency table and instantiates the others. A          *)
(* behaviour is one of the part its first state names; the others stay as  *)
(* they begin.                                                             *)
(***************************************************************************)
EXTENDS DedupTable

CONSTANTS
    Nothing,            \* no timeout, no value
    Bad, Text, Largest, \* settings that cannot and that can be parsed, numbers
    TimedRoutes, Timeouts, Millisecond, Grace, Hour, Width, LastTick, MaxLag,  \* of Deadlines
    FewRoutes, FewTimeouts,     \* the bounds of its part with a clock
    Services, Reserved, Methods, Shapes, Peers, Registrations, Callers,  \* of Registry
    Names, Documents,           \* of AuthDocument
    AccountServices, AccountMethods, ManagedServices, AuthService, Usernames, Accounts,
    KeyIDs, APIKeys, Anonymous, Requests, Conns, TokenIDs, TokenCapacity, MaxTTL,
    MaxScopes, Slots, CacheSize, CacheTTL, MaxConnections, MaxAnonymousConnections,
    MaxOpened, LastSecond,      \* of Accounts
    FewConns,                   \* the bound of its part with tokens
    Routers, WithMetrics, MaxCalls, MaxFiles    \* of RouterProcess

(* Instances of the services a and b during an upgrade that adds a method  *)
(* or changes what one means.                                              *)
Offered(s, targeted, contract, methods) ==
    [name |-> s, targeted |-> targeted, contract |-> contract, methods |-> methods]
A1 == Offered("a", FALSE, "given", [m \in {"get"} |-> "unary"])
A2 == Offered("a", FALSE, "given", [m \in {"get", "put"} |-> "unary"])
A3 == Offered("a", FALSE, "none", [m \in {"get"} |-> "stream"])
A4 == Offered("a", TRUE, "none", [m \in {"get"} |-> "unary"])
A5 == Offered("a", FALSE, "invalid", [m \in {"get"} |-> "unary"])
B1 == Offered("b", FALSE, "given", [m \in {"run"} |-> "stream"])
R1 == Offered("router", FALSE, "none", [m \in {"run"} |-> "unary"])
Upgrades ==
    {<<A1>>, <<A2>>, <<A3>>, <<A4>>, <<A5>>, <<B1>>, <<A1, B1>>, <<B1, A2>>, <<A1, A2>>, <<R1>>}
ServiceCallers == {{}, {<<"a", "get">>}, {<<"a", "put">>, <<"b", "run">>}}

(* An account with a method and a service, an API key that may call the    *)
(* token service and an anonymous user.                                    *)
Identity(n, k, roles, register, call) ==
    [username |-> n, kind |-> k, token |-> "no token", expires |-> 0,
     roles |-> roles, register |-> register, call |-> call]
UserAccount ==
    [n \in {"user"} |->
       Identity(n, "account", {"client", "server"}, {<<"a">>},
                {<<"a", "m">>, <<"auth", "issue_token">>, <<"auth", "revoke_token">>})]
ServiceKeys == [k \in {"k"} |-> Identity("api-key", "api_key", {"client", "server"}, {<<"a">>}, {<<"*">>})]
AnonymousCaller == Identity("anonymous", "anonymous", {"client"}, {}, {<<"a", "m">>})
Scope(s, methods, register) == [service |-> s, methods |-> methods, register |-> register]
TokenRequests ==
    { [ttl |-> 1, scopes |-> <<Scope("a", {"m"}, TRUE)>>],
      [ttl |-> 2, scopes |-> <<Scope("a", {"*"}, FALSE)>>],
      [ttl |-> 1, scopes |-> <<Scope("auth", {"issue_token"}, FALSE)>>],
      [ttl |-> 1, scopes |-> <<Scope("a", {"*"}, FALSE), Scope("a", {}, TRUE)>>],
      [ttl |-> 0, scopes |-> <<Scope("a", {"m"}, FALSE)>>] }

(* Auth documents of up to two users and two API keys, with one thing at a *)
(* time off the rule in each entry.                                        *)
Given(rules) == [given |-> TRUE, rules |-> rules]
NotGiven == [given |-> FALSE, rules |-> {}]
Account(n) ==
    [name |-> <<n>>, roles |-> <<"client", "server">>, register |-> {<<"*">>},
     call |-> Given({<<"a", "*">>}), hash |-> "good"]
Unnamed ==
    [name |-> <<"anonymous">>, roles |-> <<"client">>, register |-> {}, call |-> NotGiven,
     hash |-> "none"]
DocumentUsers ==
    { Account("a"), Account("b"), Account(""),
      [Account("a") EXCEPT !.name = <<"api-key", "a">>],
      [Account("a") EXCEPT !.roles = <<>>],
      [Account("a") EXCEPT !.roles = <<"admin">>],
      [Account("a") EXCEPT !.register = {<<"a", "b">>}],
      [Account("a") EXCEPT !.register = {<<"a*">>}],
      [Account("a") EXCEPT !.call = Given({<<"a">>})],
      [Account("a") EXCEPT !.call = Given({<<"a", "b", "b">>})],
      [Account("a") EXCEPT !.call = Given({<<"*", "b">>, <<"*">>})],
      [Account("a") EXCEPT !.call = Given({<<"a", "b*">>})],
      [Account("a") EXCEPT !.call = Given({<<"a", "">>})],
      [Account("a") EXCEPT !.call = NotGiven],
      [Account("a") EXCEPT !.hash = "bad"],
      Unnamed,
      [Unnamed EXCEPT !.call = Given({<<"a", "b">>})],
      [Unnamed EXCEPT !.roles = <<"server">>],
      [Unnamed EXCEPT !.register = {<<"a">>}],
      [Unnamed EXCEPT !.hash = "good"] }
DocumentKeys ==
    { Account("a"), [Account("a") EXCEPT !.call = Given({<<"*">>})],
      Account("b"), Account(""),
      [Account("a") EXCEPT !.hash = "bad"],
      [Account("a") EXCEPT !.roles = <<>>],
      [Account("a") EXCEPT !.call = Given({<<"a", "b*">>})] }
AuthDocuments == [users : SeqOf(DocumentUsers, 2), api_keys : SeqOf(DocumentKeys, 2)]

VARIABLES
    part,   \* the part whose behaviour this is
    \* Deadlines
    deadlineNow, status, asked, openedAt, deadlines, index, deadline, woken, loop,
    next, aim, lag, timer, loopClosed,
    \* Registry
    peer, services,
    \* AuthDocument
    doc, read, users, apiKeys, nobody, verdict,
    \* Accounts
    accountNow, tokens, used, verified, connPc, header, user, role, cancelled, serving,
    opened, connections, anonymous,
    \* RouterProcess
    file, made, port, pc, bound, owned, closing, routerCalls, replaced, left,
    \* Settings
    cmd, env, inline, phase, at, actual, config, auth, blamed

deadlineVars == <<
    deadlineNow, status, asked, openedAt, deadlines, index, deadline, woken, loop,
    next, aim, lag, timer, loopClosed>>
registryVars == <<
    peer, services>>
documentVars == <<
    doc, read, users, apiKeys, nobody, verdict>>
accountVars == <<
    accountNow, tokens, used, verified, connPc, header, user, role, cancelled, serving,
    opened, connections, anonymous>>
processVars == <<
    file, made, port, pc, bound, owned, closing, routerCalls, replaced, left>>
settingsVars == <<
    cmd, env, inline, phase, at, actual, config, auth, blamed>>
suiteVars == <<part, deadlineVars, vars, registryVars, documentVars, accountVars, processVars,
               settingsVars>>

Expiry == INSTANCE Deadlines WITH
    Routes <- TimedRoutes, NoTimeout <- Nothing, MaxTime <- LastTick, now <- deadlineNow,
    opened <- openedAt, closed <- loopClosed

Pools == INSTANCE Registry

Reading == INSTANCE AuthDocument WITH anonymous <- nobody

Access == INSTANCE Accounts WITH
    Services <- AccountServices, Methods <- AccountMethods, Reserved <- ManagedServices,
    MaxCalls <- MaxOpened, MaxTime <- LastSecond, pc <- connPc, now <- accountNow

Process == INSTANCE RouterProcess WITH Operator <- FALSE, calls <- routerCalls

Starting == INSTANCE Settings WITH Absent <- Nothing

\* The document and the settings while another part runs.
NoDocument == [users |-> <<>>, api_keys |-> <<>>]
NothingGiven ==
    /\ cmd = [f \in Starting!Flags |-> Nothing] /\ env = cmd /\ inline = FALSE
    /\ phase = "parse" /\ at = 1 /\ actual = {} /\ config = Starting!Default
    /\ auth = "none" /\ blamed = Nothing

\* The constants are as each part wants them.
ASSUME Parameters ==
    /\ Expiry!DeadlinesAssumption /\ DedupAssumption /\ Pools!RegistryAssumption
    /\ Reading!DocumentsAssumption /\ Access!AccountsAssumption /\ Process!ProcessAssumption
    /\ Starting!SettingsAssumption

ExpiryParts == {"deadlines", "heap"}
AccessParts == {"tokens", "admission"}
Parts == {"dedup", "registry", "document", "process", "settings"} \cup ExpiryParts \cup AccessParts

\* A few calls have time pass over them, or many enter and leave the heap at
\* once; connections come with tokens, or more of them come without.
WithinBounds ==
    /\ part = "deadlines" =>
         /\ \A rt \in TimedRoutes \ FewRoutes : status[rt] = "new"
         /\ \A rt \in FewRoutes : asked[rt] \in FewTimeouts \cup {Nothing}
    /\ part = "heap" => deadlineNow = 0
    /\ part = "tokens" => \A c \in Conns \ FewConns : connPc[c] = "idle"
    /\ part = "admission" =>
         /\ used = {}
         /\ \A c \in Conns : header[c].form # "token" /\ serving[c] = {} /\ opened[c] = {}

SuiteInit ==
    /\ part \in Parts
    /\ Expiry!Init
    /\ Init
    /\ Pools!Init
    /\ Reading!Init /\ (part # "document" => doc = NoDocument)
    /\ Access!Init
    /\ Process!Init
    /\ IF part = "settings" THEN Starting!Init
       ELSE NothingGiven

ExpiryStep ==
    /\ part \in ExpiryParts /\ Expiry!Next
    /\ UNCHANGED <<part, vars, registryVars, documentVars, accountVars,
                  processVars, settingsVars>>
    /\ WithinBounds'

DedupStep ==
    /\ part = "dedup" /\ Next
    /\ UNCHANGED <<part, deadlineVars, registryVars, documentVars, accountVars,
                  processVars, settingsVars>>

PoolsStep ==
    /\ part = "registry" /\ Pools!Next
    /\ UNCHANGED <<part, deadlineVars, vars, documentVars, accountVars,
                  processVars, settingsVars>>

ReadingStep ==
    /\ part = "document" /\ Reading!Next
    /\ UNCHANGED <<part, deadlineVars, vars, registryVars, accountVars,
                  processVars, settingsVars>>

AccessStep ==
    /\ part \in AccessParts /\ Access!Next
    /\ UNCHANGED <<part, deadlineVars, vars, registryVars, documentVars,
                  processVars, settingsVars>>
    /\ WithinBounds'

ProcessStep ==
    /\ part = "process" /\ Process!Next
    /\ UNCHANGED <<part, deadlineVars, vars, registryVars, documentVars,
                  accountVars, settingsVars>>

StartingStep ==
    /\ part = "settings" /\ Starting!Next
    /\ UNCHANGED <<part, deadlineVars, vars, registryVars, documentVars,
                  accountVars, processVars>>

SuiteNext ==
    \/ ExpiryStep \/ DedupStep \/ PoolsStep \/ ReadingStep \/ AccessStep \/ ProcessStep
    \/ StartingStep

SuiteSpec == SuiteInit /\ [][SuiteNext]_suiteVars

-------------------------------------------------------------------------------
(* Properties *)

(* track, untrack, wake and expireLoop: the heap holds the routed calls    *)
(* that carry a timeout, each once and no other; its front is the earliest *)
(* deadline after any number of removals from its middle; and no order of  *)
(* look, track and Reset makes the loop sleep a millisecond beyond it.     *)
DeadlinesKept ==
    part \in ExpiryParts =>
      /\ Expiry!TypeOK /\ Expiry!TimedCallsTracked /\ Expiry!FirstIsEarliest
      /\ Expiry!NeverOversleeps

(* dedupInsert, dedupRemove, register and leavePools: the eviction list    *)
(* holds every entry of the map once, and none the map has lost, and a key *)
(* never executes twice at a time; a pool is the instances that registered *)
(* its service and neither drained nor left, it knows every method they    *)
(* serve, and instances agree on what a method means, as far as no server  *)
(* gives it another meaning under another service; and a caller sees of a  *)
(* service what it may call.                                               *)
TablesConsistent ==
    /\ TypeOK /\ ListIsMap /\ OneExecutionPerKey
    /\ part = "registry" =>
         /\ Pools!TypeOK /\ Pools!PoolsMirrorInstances /\ Pools!NoMethodLost
         /\ Pools!SameMeaning /\ Pools!SeesWhatItMayCall

(* ParseAuth, Auth.issue, Router.handle and admit: an accepted document    *)
(* gives every entry an identity and a name of its own and rules that can  *)
(* match; whatever a token may do, the account that issued it may, and of  *)
(* the Router's own services a token reaches whoami only; a revoked token  *)
(* has no peer whose context is alive, although it may have entered the    *)
(* peers after the revocation; no more connections are let in than the     *)
(* limits say, and every way out gives back exactly what the connection    *)
(* was counted in.                                                         *)
PermissionsNeverWiden ==
    /\ part = "document" =>
         /\ Reading!TypeOK /\ Reading!EveryEntryItsIdentity /\ Reading!UsernamesDistinct
         /\ Reading!AnonymousIsAClient /\ Reading!RulesCanMatch
    /\ part \in AccessParts =>
         /\ Access!TypeOK /\ Access!TokensWithinIssuer /\ Access!TokensLeaveManagement
         /\ Access!RevokedPeersEnded /\ Access!WithinAccount /\ Access!TablesBounded
         /\ Access!CountersExact /\ Access!LimitsHold

(* run, applyEnvironment, loadAuth, listenLocal and Close: a Router that   *)
(* runs has every setting it was given other than a plain 0, within limits *)
(* that fit together, one source of accounts and one kind of address, and  *)
(* an invalid variable keeps it from starting; no start, stop or crash of  *)
(* another Router takes its socket path away, and the only file that stays *)
(* when all have ended is the last one whose Router never came to Close.   *)
RunsAsAsked ==
    /\ part = "process" =>
         /\ Process!TypeOK /\ Process!PathFreeAfterwards /\ Process!ReachableAtItsPath
    /\ part = "settings" =>
         /\ Starting!BadVariableStops /\ Starting!GivenIsInForce
         /\ Starting!RunsWithinLimits /\ Starting!OneAuthInForce
         /\ Starting!LocalIsExclusive

(* expireLoop: the Router never ends a call before the time it asked for   *)
(* and the grace are over.                                                 *)
NeverEarly == Expiry!NeverEarly

===============================================================================

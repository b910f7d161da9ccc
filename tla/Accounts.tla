------------------------------ MODULE Accounts ------------------------------
(***************************************************************************)
(* Who may connect to the Router and what they may do: authentication of   *)
(* an upgrade request (Auth.check), admission (Router.handle up to the     *)
(* handshake), temporary tokens (AuthService) and the permission checks    *)
(* before a registration or a call.                                        *)
(*                                                                         *)
(* A connection runs on its own goroutine; every step below is one section *)
(* of it between two locks or blocking calls, so a token can be revoked or *)
(* run out between any two of them. Accounts are those an accepted         *)
(* document gives (AuthDocument), rules in the same form. A token is a     *)
(* fresh id: secrets and digests are not modelled, and a credential is     *)
(* right or wrong. Routing, and a Router that is draining, are RouterCore. *)
(***************************************************************************)
EXTENDS Naturals, Sequences, FiniteSets

CONSTANTS Services,     \* service names
          Reserved,     \* those under the Router's own prefix
          AuthService,  \* the one of them that issues tokens
          Methods,      \* method names
          Usernames,    \* of the accounts
          KeyIDs,       \* of the API keys
          Accounts,     \* username -> account
          APIKeys,      \* key id -> identity
          Anonymous,    \* the identity of callers without credentials
          Requests,     \* issue_token requests that callers send
          Conns,        \* connections
          TokenIDs,     \* tokens that can ever be issued (a bound)
          TokenCapacity, MaxTTL, MaxScopes,  \* 4096, 3600 s, 128
          Slots,        \* password checks at a time, 8
          CacheSize, CacheTTL,               \* 1024 entries, a minute
          MaxConnections, MaxAnonymousConnections,
          MaxCalls,     \* calls open on a connection at a time (a bound)
          MaxTime       \* a bound on the clock

NoToken == "no token"

\* What is assumed of the constants, wherever they are given.
AccountsAssumption ==
  /\ DOMAIN Accounts = Usernames
  /\ \A n \in Usernames :
       /\ Accounts[n].username = n
       /\ Accounts[n].kind = "account"
       /\ Accounts[n].token = NoToken
  /\ \A k \in KeyIDs : APIKeys[k].kind = "api_key" /\ APIKeys[k].token = NoToken
  /\ Anonymous.kind = "anonymous" /\ Anonymous.token = NoToken
  /\ NoToken \notin TokenIDs /\ AuthService \in Reserved
  /\ IsFiniteSet(Conns)
  /\ {TokenCapacity, MaxTTL, Slots, CacheTTL, MaxConnections,
      MaxAnonymousConnections, MaxTime} \subseteq Nat
  /\ CacheSize \in Nat \ {0}

VARIABLES now,         \* the clock
          tokens,      \* Auth.tokens: token id -> identity
          used,        \* ids that were ever issued
          verified,    \* Auth.verified: header -> expiry of the check
          pc, header, user, role,   \* of a connection
          cancelled,   \* its context was cancelled
          serving,     \* services it registered
          opened,      \* calls it opened
          connections, anonymous    \* the Router's admission counters

conn == <<pc, header, user, role, cancelled, serving, opened>>
vars == <<now, tokens, used, verified, conn, connections, anonymous>>

Nobody == [username |-> "", kind |-> "none", token |-> NoToken, expires |-> 0,
           roles |-> {}, register |-> {}, call |-> {}]

(* What the Authorization header of an upgrade request says.              *)
Headers ==
  [form : {"none", "garbled"}, name : {""}, right : {FALSE}]
    \cup [form : {"key"}, name : KeyIDs, right : BOOLEAN]
    \cup [form : {"token"}, name : TokenIDs, right : {TRUE}]
    \cup [form : {"basic"}, name : Usernames, right : BOOLEAN]

-----------------------------------------------------------------------------
allowsRole(u, r) == r \in u.roles

allowsRegistration(u, s) == <<"*">> \in u.register \/ <<s>> \in u.register

allowsCall(u, s, m) ==
  <<"*">> \in u.call \/ <<s, "*">> \in u.call \/ <<s, m>> \in u.call

Valid(u) ==
  \/ u.token = NoToken
  \/ u.token \in DOMAIN tokens /\ tokens[u.token] = u /\ now < u.expires

(* The connection's context: cancelled, or past its token's expiry.        *)
CtxEnded(c) ==
  cancelled[c] \/ (user[c].token # NoToken /\ ~(now < user[c].expires))

IsPeer(c) == pc[c] \in {"peer", "open", "serving"}

-----------------------------------------------------------------------------
Init ==
  /\ now = 0
  /\ tokens = <<>>
  /\ used = {}
  /\ verified = <<>>
  /\ pc = [c \in Conns |-> "idle"]
  /\ header \in [Conns -> {[form |-> "none", name |-> "", right |-> FALSE]}]
  /\ user = [c \in Conns |-> Nobody]
  /\ role = [c \in Conns |-> ""]
  /\ cancelled = [c \in Conns |-> FALSE]
  /\ serving = [c \in Conns |-> {}]
  /\ opened = [c \in Conns |-> {}]
  /\ connections = 0
  /\ anonymous = 0

Tick ==
  /\ now < MaxTime
  /\ now' = now + 1
  /\ UNCHANGED <<tokens, used, verified, conn, connections, anonymous>>

Auth == <<now, tokens, used>>

AnonymousShare(c) == IF user[c].kind = "anonymous" THEN 1 ELSE 0

(* The handler returns: its deferred calls give back what it was counted   *)
(* in and take the peer out of the Router.                                 *)
Return(c) ==
  /\ pc' = [pc EXCEPT ![c] = "idle"]
  /\ header' = [header EXCEPT ![c] = [form |-> "none", name |-> "", right |-> FALSE]]
  /\ user' = [user EXCEPT ![c] = Nobody]
  /\ role' = [role EXCEPT ![c] = ""]
  /\ cancelled' = [cancelled EXCEPT ![c] = FALSE]
  /\ serving' = [serving EXCEPT ![c] = {}]
  /\ opened' = [opened EXCEPT ![c] = {}]
  /\ connections' = connections - 1
  /\ anonymous' = anonymous - AnonymousShare(c)

-----------------------------------------------------------------------------
Admits(n) == n <= MaxConnections

Arrive(c, h) ==
  /\ pc[c] = "idle"
  /\ connections' = connections + 1
  /\ pc' = [pc EXCEPT ![c] = IF Admits(connections') THEN "admitted" ELSE "over"]
  /\ header' = [header EXCEPT ![c] = h]
  /\ UNCHANGED <<Auth, verified, user, role, cancelled, serving, opened, anonymous>>

TurnAway(c) ==
  /\ pc[c] = "over"
  /\ Return(c)
  /\ UNCHANGED <<Auth, verified>>

Identify(c, u) ==
  /\ user' = [user EXCEPT ![c] = u]
  /\ pc' = [pc EXCEPT ![c] = "upgrading"]
  /\ UNCHANGED <<header, role, cancelled, serving, opened, connections, anonymous>>

(* No credentials: the anonymous user, counted once more.                  *)
CheckNone(c) ==
  /\ pc[c] = "admitted" /\ header[c].form = "none"
  /\ user' = [user EXCEPT ![c] = Anonymous]
  /\ anonymous' = anonymous + 1
  /\ pc' = [pc EXCEPT ![c] = IF anonymous' > MaxAnonymousConnections
                               THEN "over" ELSE "upgrading"]
  /\ UNCHANGED <<Auth, verified, header, role, cancelled, serving, opened, connections>>

KeyKnown(h) == h.name \in KeyIDs /\ h.right

CheckKey(c) ==
  /\ pc[c] = "admitted" /\ header[c].form = "key"
  /\ KeyKnown(header[c])
  /\ Identify(c, APIKeys[header[c].name])
  /\ UNCHANGED <<Auth, verified>>

TokenKnown(h) == h.name \in DOMAIN tokens /\ now < tokens[h.name].expires

CheckToken(c) ==
  /\ pc[c] = "admitted" /\ header[c].form = "token"
  /\ TokenKnown(header[c])
  /\ Identify(c, tokens[header[c].name])
  /\ UNCHANGED <<Auth, verified>>

Cached(h) == h \in DOMAIN verified /\ now < verified[h]

CheckCached(c) ==
  /\ pc[c] = "admitted" /\ header[c].form = "basic"
  /\ Cached(header[c])
  /\ Identify(c, Accounts[header[c].name])
  /\ UNCHANGED <<Auth, verified>>

Hashing == {c \in Conns : pc[c] = "hashing"}

SlotFree == Cardinality(Hashing) < Slots

Password(h) == h.form \in {"basic", "garbled"}

(* The hash is computed with a slot held and no lock.                      *)
TakeSlot(c) ==
  /\ pc[c] = "admitted" /\ Password(header[c])
  /\ ~Cached(header[c])
  /\ SlotFree
  /\ pc' = [pc EXCEPT ![c] = "hashing"]
  /\ UNCHANGED <<Auth, verified, header, user, role, cancelled, serving, opened, connections, anonymous>>

CredentialsFail(c) ==
  LET h == header[c]
  IN  \/ pc[c] = "admitted" /\ h.form = "key" /\ ~KeyKnown(h)
      \/ pc[c] = "admitted" /\ h.form = "token" /\ ~TokenKnown(h)
      \/ pc[c] = "admitted" /\ Password(h) /\ ~Cached(h) /\ ~SlotFree
      \/ pc[c] = "hashing" /\ ~h.right

Refuse(c) ==
  /\ CredentialsFail(c)
  /\ Return(c)
  /\ UNCHANGED <<Auth, verified>>

CacheRoom(table) == IF Cardinality(DOMAIN table) >= CacheSize THEN <<>> ELSE table

PasswordRight(c) ==
  /\ pc[c] = "hashing" /\ header[c].right
  /\ LET kept == CacheRoom(verified)
     IN  verified' = [h \in DOMAIN kept \cup {header[c]} |->
                        IF h = header[c] THEN now + CacheTTL ELSE kept[h]]
  /\ Identify(c, Accounts[header[c].name])
  /\ UNCHANGED Auth

-----------------------------------------------------------------------------
UpgradeFails(c) ==
  /\ pc[c] = "upgrading"
  /\ Return(c)
  /\ UNCHANGED <<Auth, verified>>

\* Mutant: what was checked before the upgrade still stands after it.
EntersUnchecked(c) == TRUE

Enters(c) == Valid(user[c])

EnterPeers(c) ==
  /\ pc[c] = "upgrading"
  /\ Enters(c)
  /\ pc' = [pc EXCEPT ![c] = "peer"]
  /\ UNCHANGED <<Auth, verified, header, user, role, cancelled, serving, opened, connections, anonymous>>

TooLate(c) ==
  /\ pc[c] = "upgrading"
  /\ ~Enters(c)
  /\ Return(c)
  /\ UNCHANGED <<Auth, verified>>

(* A peer's handler ends when its context has, and may end at any time:    *)
(* its connection is lost, its handshake is late, a frame is malformed.    *)
Leave(c) ==
  /\ IsPeer(c)
  /\ Return(c)
  /\ UNCHANGED <<Auth, verified>>

Hello(c, r) ==
  /\ pc[c] = "peer" /\ role[c] = ""
  /\ allowsRole(user[c], r)
  /\ role' = [role EXCEPT ![c] = r]
  /\ pc' = [pc EXCEPT ![c] = IF r = "client" THEN "open" ELSE "peer"]
  /\ UNCHANGED <<Auth, verified, header, user, cancelled, serving, opened, connections, anonymous>>

Register(c, names) ==
  /\ pc[c] = "peer" /\ role[c] = "server"
  /\ \A s \in names : s \notin Reserved /\ allowsRegistration(user[c], s)
  /\ serving' = [serving EXCEPT ![c] = names]
  /\ pc' = [pc EXCEPT ![c] = "serving"]
  /\ UNCHANGED <<Auth, verified, header, user, role, cancelled, opened, connections, anonymous>>

-----------------------------------------------------------------------------
(* forward: a frame of a peer whose authority has gone ends the peer.      *)
ForwardStale(c) ==
  /\ IsPeer(c) /\ ~cancelled[c]
  /\ CtxEnded(c) \/ ~Valid(user[c])
  /\ cancelled' = [cancelled EXCEPT ![c] = TRUE]
  /\ UNCHANGED <<Auth, verified, pc, header, user, role, serving, opened, connections, anonymous>>

\* Anybody may ask who it is; whoami changes nothing.
MayReach(u, s, m) == (s = AuthService /\ m = "whoami") \/ allowsCall(u, s, m)

MayCall(c, s, m) ==
  /\ pc[c] = "open" /\ ~CtxEnded(c) /\ Valid(user[c])
  /\ MayReach(user[c], s, m)

Call(c, s, m) ==
  /\ MayCall(c, s, m)
  /\ s \notin Reserved
  /\ Cardinality(opened[c]) < MaxCalls
  /\ opened' = [opened EXCEPT ![c] = @ \cup {<<s, m>>}]
  /\ UNCHANGED <<Auth, verified, pc, header, user, role, cancelled, serving, connections, anonymous>>

CallEnds(c, call) ==
  /\ call \in opened[c]
  /\ opened' = [opened EXCEPT ![c] = @ \ {call}]
  /\ UNCHANGED <<Auth, verified, pc, header, user, role, cancelled, serving, connections, anonymous>>

mayIssueTokens(u) == u.kind = "account"

MethodScopeOK(u, s, m) ==
  /\ m \in Methods \cup {"*"}
  /\ allowsRole(u, "client")
  /\ allowsCall(u, s, m)

ScopeServiceOK(s) == s \in Services \ Reserved

ScopeOK(u, scope) ==
  /\ ScopeServiceOK(scope.service)
  /\ scope.methods # {} \/ scope.register
  /\ \A m \in scope.methods : MethodScopeOK(u, scope.service, m)
  /\ scope.register =>
       allowsRole(u, "server") /\ allowsRegistration(u, scope.service)

RequestOK(u, request) ==
  /\ request.ttl \in 1 .. MaxTTL
  /\ Len(request.scopes) \in 1 .. MaxScopes
  /\ \A i, j \in DOMAIN request.scopes :
       request.scopes[i].service = request.scopes[j].service => i = j
  /\ \A i \in DOMAIN request.scopes : ScopeOK(u, request.scopes[i])

TokenCalls(request) ==
  UNION {{<<request.scopes[i].service, m>> : m \in request.scopes[i].methods} :
           i \in DOMAIN request.scopes}

TokenRegisters(request) ==
  {<<request.scopes[i].service>> :
     i \in {j \in DOMAIN request.scopes : request.scopes[j].register}}

TokenUser(u, request, id) ==
  [username |-> u.username, kind |-> "token", token |-> id,
   expires |-> now + request.ttl,
   roles |-> (IF TokenCalls(request) = {} THEN {} ELSE {"client"})
               \cup (IF TokenRegisters(request) = {} THEN {} ELSE {"server"}),
   register |-> TokenRegisters(request),
   call |-> TokenCalls(request)]

(* Tokens that ran out make room for the next one.                         *)
Unexpired == {t \in DOMAIN tokens : now < tokens[t].expires}

TokenRoom(live) == Cardinality(live) < TokenCapacity

IssueToken(c, request, id) ==
  /\ MayCall(c, AuthService, "issue_token")
  /\ mayIssueTokens(user[c])
  /\ RequestOK(user[c], request)
  /\ TokenRoom(Unexpired)
  /\ id \in TokenIDs \ used
  /\ used' = used \cup {id}
  /\ tokens' = [t \in Unexpired \cup {id} |->
                  IF t = id THEN TokenUser(user[c], request, id) ELSE tokens[t]]
  /\ UNCHANGED <<now, verified, conn, connections, anonymous>>

IssueFull(c, request) ==
  /\ MayCall(c, AuthService, "issue_token")
  /\ mayIssueTokens(user[c])
  /\ RequestOK(user[c], request)
  /\ ~TokenRoom(Unexpired)
  /\ tokens' = [t \in Unexpired |-> tokens[t]]
  /\ UNCHANGED <<now, used, verified, conn, connections, anonymous>>

RevokesPeer(c, id) == IsPeer(c) /\ user[c].token = id

RevokeToken(c, id) ==
  /\ MayCall(c, AuthService, "revoke_token")
  /\ mayIssueTokens(user[c])
  /\ id \in DOMAIN tokens /\ tokens[id].username = user[c].username
  /\ tokens' = [t \in DOMAIN tokens \ {id} |-> tokens[t]]
  /\ cancelled' = [d \in Conns |-> cancelled[d] \/ RevokesPeer(d, id)]
  /\ UNCHANGED <<now, used, verified, pc, header, user, role, serving, opened, connections, anonymous>>

-----------------------------------------------------------------------------
Check(c) ==
  \/ CheckNone(c) \/ CheckKey(c) \/ CheckToken(c) \/ CheckCached(c)
  \/ TakeSlot(c) \/ PasswordRight(c) \/ Refuse(c) \/ TurnAway(c)

Frame(c) ==
  \/ \E r \in {"client", "server"} : Hello(c, r)
  \/ \E names \in SUBSET Services : Register(c, names)
  \/ \E s \in Services, m \in Methods : Call(c, s, m)
  \/ \E request \in Requests :
       IssueFull(c, request) \/ \E id \in TokenIDs : IssueToken(c, request, id)
  \/ \E id \in TokenIDs : RevokeToken(c, id)
  \/ ForwardStale(c)

Next ==
  \/ Tick
  \/ \E c \in Conns :
       \/ \E h \in Headers : Arrive(c, h)
       \/ Check(c)
       \/ EnterPeers(c) \/ UpgradeFails(c) \/ TooLate(c) \/ Leave(c)
       \/ Frame(c)
       \/ \E call \in Services \X Methods : CallEnds(c, call)

Spec == Init /\ [][Next]_vars

(* Handlers run; a peer whose context ended is left by its handler. Frames *)
(* and the clock are not obliged to come.                                  *)
Fairness ==
  \A c \in Conns :
    /\ WF_vars(Check(c))
    /\ WF_vars(EnterPeers(c) \/ TooLate(c))
    /\ WF_vars(CtxEnded(c) /\ Leave(c))

FairSpec == Spec /\ Fairness

-----------------------------------------------------------------------------
TypeOK ==
  /\ now \in 0 .. MaxTime
  /\ DOMAIN tokens \subseteq used /\ used \subseteq TokenIDs
  /\ \A t \in DOMAIN tokens : tokens[t].token = t /\ tokens[t].kind = "token"
  /\ DOMAIN verified \subseteq {h \in Headers : h.form = "basic" /\ h.right}
  /\ pc \in [Conns -> {"idle", "over", "admitted", "hashing", "upgrading",
                       "peer", "open", "serving"}]
  /\ header \in [Conns -> Headers]
  /\ role \in [Conns -> {"", "client", "server"}]
  /\ cancelled \in [Conns -> BOOLEAN]
  /\ serving \in [Conns -> SUBSET Services]
  /\ opened \in [Conns -> SUBSET (Services \X Methods)]
  /\ Cardinality(Hashing) <= Slots

(* No token can do more than the account that issued it: whatever a token  *)
(* may call or register, its account may, also where the scope names every *)
(* method of a service (Auth.issue).                                       *)
TokensWithinIssuer ==
  \A t \in DOMAIN tokens :
    LET issuer == Accounts[tokens[t].username]
    IN  /\ \A s \in Services, m \in Methods :
             allowsCall(tokens[t], s, m) => allowsCall(issuer, s, m)
        /\ \A s \in Services :
             allowsRegistration(tokens[t], s) => allowsRegistration(issuer, s)
        /\ tokens[t].roles \subseteq issuer.roles

(* A token reaches of the Router's own services only whoami.               *)
TokensLeaveManagement ==
  \A t \in DOMAIN tokens, s \in Reserved, m \in Methods :
    MayReach(tokens[t], s, m) => s = AuthService /\ m = "whoami"

(* A token that is no longer in the table has no peer whose context is     *)
(* alive, although the connection was authenticated before the revocation  *)
(* and may have entered the peers after it (Router.handle asks again under *)
(* the lock that revoke_token holds).                                      *)
RevokedPeersEnded ==
  \A c \in Conns :
    /\ IsPeer(c)
    /\ user[c].token # NoToken
    /\ user[c].token \notin DOMAIN tokens
    => CtxEnded(c)

(* The calls open and the services registered on a connection are ones the *)
(* account behind it may make, through however many tokens.                *)
WithinAccount ==
  \A c \in Conns :
    user[c].kind \in {"account", "token"} =>
      LET account == Accounts[user[c].username]
      IN  /\ \A call \in opened[c] : allowsCall(account, call[1], call[2])
          /\ \A s \in serving[c] : allowsRegistration(account, s)

(* Every way out of the handler gives back exactly what the connection was *)
(* counted in, so the limits never drift.                                  *)
CountersExact ==
  /\ connections = Cardinality({c \in Conns : pc[c] # "idle"})
  /\ anonymous = Cardinality({c \in Conns : user[c].kind = "anonymous"})

(* No more connections are let in than the limits say, however many arrive *)
(* between one's count and its answer.                                     *)
LimitsHold ==
  LET in == {c \in Conns : pc[c] \notin {"idle", "over"}}
  IN  /\ Cardinality(in) <= MaxConnections
      /\ Cardinality({c \in in : user[c].kind = "anonymous"})
           <= MaxAnonymousConnections

(* The tables stay within their bounds.                                    *)
TablesBounded ==
  /\ Cardinality(DOMAIN tokens) <= TokenCapacity
  /\ Cardinality(DOMAIN verified) <= CacheSize

(* A connection with a token that was revoked or ran out comes to its end  *)
(* without sending a frame.                                                *)
TokenEnds ==
  \A c \in Conns :
    (user[c].token # NoToken /\ ~Valid(user[c])) ~> pc[c] = "idle"

(* Every request to connect is answered: let in or turned away, whatever   *)
(* the other requests do.                                                  *)
RequestAnswered ==
  \A c \in Conns :
    pc[c] \in {"over", "admitted", "hashing", "upgrading"}
      ~> pc[c] = "idle" \/ IsPeer(c)
=============================================================================

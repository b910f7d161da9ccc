---------------------------- MODULE AuthDocument ----------------------------
(***************************************************************************)
(* ParseAuth of the Router: how an auth document becomes the identities    *)
(* that can connect. The document's users are read in order, then its API  *)
(* keys; the first entry that breaks a rule refuses the whole document and *)
(* the Router does not start.                                              *)
(*                                                                         *)
(* Texts are kept as the parts the code cuts them into: an ACL rule is the *)
(* sequence of its parts between slashes ("a/b" is <<"a", "b">>, "*" is    *)
(* <<"*">>), a username that of its parts between colons. A part is a      *)
(* plain name, empty, "*", or a name with a "*" inside it. Password hashes *)
(* and digests are well formed, absent or malformed. The JSON itself, and  *)
(* the salt and key a hash decodes to, are left out.                       *)
(***************************************************************************)
EXTENDS Naturals, Sequences, FiniteSets

CONSTANTS Names,     \* plain names: services, methods, accounts, key ids
          Documents  \* auth documents, records of a sequence of users and
                     \* one of API keys

(* What a document is made of, whatever it says.                           *)
Rules == SUBSET Seq(STRING)
Entered == [name : Seq(STRING), roles : Seq(STRING), register : Rules,
            call : [given : BOOLEAN, rules : Rules], hash : {"good", "bad", "none"}]

DocumentsAssumption ==
  \A d \in Documents : d.users \in Seq(Entered) /\ d.api_keys \in Seq(Entered)

VARIABLES doc,       \* the document being read
          read,      \* how many of its entries were accepted
          users,     \* username -> account
          apiKeys,   \* key id -> the key's identity
          anonymous, \* the identity of callers without credentials
          verdict    \* "reading", "accepted" or "refused"

vars == <<doc, read, users, apiKeys, anonymous, verdict>>

AnonymousUser == <<"anonymous">>

(* A list that the document leaves out is nil, which is not an empty list. *)
Nil == [given |-> FALSE, rules |-> {}]
Given(rules) == [given |-> TRUE, rules |-> rules]

User(name, kind, e) ==
  [username |-> name, kind |-> kind, roles |-> {e.roles[i] : i \in DOMAIN e.roles},
   register |-> e.register, call |-> e.call]

-----------------------------------------------------------------------------
RoleOK(role) == role \in {"client", "server"}

RegisterRuleOK(rule) == rule = <<"*">> \/ (Len(rule) = 1 /\ rule[1] \in Names)

CallRuleOK(rule) ==
  \/ rule = <<"*">>
  \/ Len(rule) = 2 /\ rule[1] \in Names /\ rule[2] \in Names \cup {"*"}

validatePermissions(e) ==
  /\ \A i \in DOMAIN e.roles : RoleOK(e.roles[i])
  /\ \A rule \in e.register : RegisterRuleOK(rule)
  /\ \A rule \in e.call.rules : CallRuleOK(rule)

nonNilRules(list) == Given(list.rules)

-----------------------------------------------------------------------------
Init ==
  /\ doc \in Documents
  /\ read = 0
  /\ users = <<>>
  /\ apiKeys = <<>>
  /\ anonymous = [username |-> AnonymousUser, kind |-> "anonymous",
                  roles |-> {"client"}, register |-> {}, call |-> Nil]
  /\ verdict = "reading"

Entries == doc.users \o doc.api_keys
AtUser == verdict = "reading" /\ read < Len(doc.users)
AtKey == verdict = "reading" /\ read \in Len(doc.users) .. Len(Entries) - 1
Entry == Entries[read + 1]

RefuseEmpty ==
  /\ verdict = "reading"
  /\ Entries = <<>>
  /\ verdict' = "refused"
  /\ UNCHANGED <<doc, read, users, apiKeys, anonymous>>

UsernameOK(name) == Len(name) = 1 /\ name[1] # ""

TakenUsername ==
  \/ Entry.name \in DOMAIN users
  \/ Entry.name = AnonymousUser /\ anonymous.call.given

AnonymousOK ==
  /\ Entry.hash = "none"
  /\ Entry.register = {}
  /\ Entry.roles = <<"client">>

UserOK ==
  /\ UsernameOK(Entry.name)
  /\ Entry.roles # <<>>
  /\ ~TakenUsername
  /\ validatePermissions(Entry)
  /\ IF Entry.name = AnonymousUser THEN AnonymousOK ELSE Entry.hash = "good"

ReadAnonymous ==
  /\ AtUser /\ UserOK
  /\ Entry.name = AnonymousUser
  /\ anonymous' = [User(AnonymousUser, "anonymous", Entry)
                     EXCEPT !.call = nonNilRules(Entry.call), !.register = {}]
  /\ read' = read + 1
  /\ UNCHANGED <<doc, users, apiKeys, verdict>>

ReadUser ==
  /\ AtUser /\ UserOK
  /\ Entry.name # AnonymousUser
  /\ users' = [n \in DOMAIN users \cup {Entry.name} |->
                 IF n = Entry.name THEN User(n, "account", Entry) ELSE users[n]]
  /\ read' = read + 1
  /\ UNCHANGED <<doc, apiKeys, anonymous, verdict>>

RefuseUser ==
  /\ AtUser /\ ~UserOK
  /\ verdict' = "refused"
  /\ UNCHANGED <<doc, read, users, apiKeys, anonymous>>

KeyOK ==
  /\ Entry.name[1] \in Names /\ Len(Entry.name) = 1
  /\ Entry.roles # <<>>
  /\ Entry.name[1] \notin DOMAIN apiKeys
  /\ Entry.hash = "good"
  /\ validatePermissions(Entry)

ReadKey ==
  /\ AtKey /\ KeyOK
  /\ apiKeys' = [id \in DOMAIN apiKeys \cup {Entry.name[1]} |->
                   IF id = Entry.name[1]
                   THEN User(<<"api-key", id>>, "api_key", Entry)
                   ELSE apiKeys[id]]
  /\ read' = read + 1
  /\ UNCHANGED <<doc, users, anonymous, verdict>>

RefuseKey ==
  /\ AtKey /\ ~KeyOK
  /\ verdict' = "refused"
  /\ UNCHANGED <<doc, read, users, apiKeys, anonymous>>

Accept ==
  /\ verdict = "reading"
  /\ Entries # <<>> /\ read = Len(Entries)
  /\ verdict' = "accepted"
  /\ UNCHANGED <<doc, read, users, apiKeys, anonymous>>

Next ==
  \/ RefuseEmpty \/ ReadAnonymous \/ ReadUser \/ RefuseUser
  \/ ReadKey \/ RefuseKey \/ Accept

Spec == Init /\ [][Next]_vars

-----------------------------------------------------------------------------
TypeOK ==
  /\ doc \in Documents
  /\ read \in 0 .. Len(Entries)
  /\ verdict \in {"reading", "accepted", "refused"}
  /\ \A n \in DOMAIN users : users[n].username = n /\ users[n].kind = "account"
  /\ \A id \in DOMAIN apiKeys : apiKeys[id].kind = "api_key"
  /\ anonymous.kind = "anonymous"

Identities ==
  {users[n] : n \in DOMAIN users} \cup {apiKeys[k] : k \in DOMAIN apiKeys}
    \cup {anonymous}

(* An accepted document gives every one of its entries an identity of its  *)
(* own: two entries never share one, whichever list they are in and        *)
(* whichever lists they leave out (the duplicate checks of ParseAuth, the  *)
(* one for "anonymous" relying on a list that is never nil again).         *)
EveryEntryItsIdentity ==
  verdict = "accepted" =>
    Cardinality(Identities)
      = Len(Entries) + (IF \E i \in DOMAIN doc.users :
                              doc.users[i].name = AnonymousUser
                        THEN 0 ELSE 1)

(* revoke_token knows the owner of a token by its username alone, so no    *)
(* two identities of one Router have the same username, API keys and the   *)
(* anonymous user included.                                                *)
UsernamesDistinct ==
  \A a, b \in Identities : a.username = b.username => a = b

(* Callers without credentials never register and are clients only,        *)
(* whatever the document says.                                             *)
AnonymousIsAClient ==
  anonymous.roles = {"client"} /\ anonymous.register = {}

(* Every rule an identity holds is one of those the permission checks can  *)
(* match: all, a service's methods, one method, one service to register. A *)
(* rule of any other form would silently grant nothing.                    *)
RulesCanMatch ==
  \A u \in Identities :
    /\ u.register \subseteq {<<"*">>} \cup {<<s>> : s \in Names}
    /\ u.call.rules \subseteq
         {<<"*">>} \cup {<<s, m>> : s \in Names, m \in Names \cup {"*"}}
=============================================================================

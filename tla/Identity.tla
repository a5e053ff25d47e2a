------------------------------ MODULE Identity ------------------------------
(***************************************************************************)
(* Users, API tokens, sessions and the OIDC sign-in.                       *)
(*                                                                         *)
(* A handler is the sequence of calls it makes, as in ResourceAPI: a step  *)
(* for every statement on the store and every call to the identity         *)
(* provider, with the code the handler answers when it fails. Sessions are *)
(* signed tokens: no table records them, and only the clock ends them.     *)
(***************************************************************************)
EXTENDS Integers, Sequences, FiniteSets

CONSTANTS Callers,      \* concurrent requests
          Users,        \* user names
          Subjects,     \* subjects of the identity provider
          Tokens,       \* API token ids that may be generated
          Passwords,    \* passwords that may be chosen
          UserRequests, \* the requests that may arrive
          Expiry,       \* DefaultTokenExpiry, in ticks of the clock
          MaxCalls,     \* bound on the requests served
          MaxClock      \* bound on the clock

(* What a request may say.                                                 *)
Operations ==
    {"users.create", "users.update", "users.delete", "users.get", "form.create", "form.update",
     "form.delete", "token.create", "token.delete", "token.get", "token.list", "form.token",
     "form.revoke", "login", "oidc.login", "oidc.callback"}
CallRequest ==
    [op : Operations \cup {"none"}, user : Users \cup {""}, tok : Tokens \cup {""},
     role : {"view", "edit", "admin", ""}, pw : Passwords \cup {"", "initial"}, days : Nat,
     valid : BOOLEAN, sub : Subjects \cup {""}, claim : Users \cup {""}]

(* ensureAdminUser creates "admin"; only a callback comes with a subject.  *)
ASSUME IdentityAssumption ==
    /\ "admin" \in Users /\ "" \notin Users /\ "" \notin Subjects
    /\ Expiry \in Nat /\ MaxCalls \in Nat /\ MaxClock \in Nat
    /\ \A q \in UserRequests :
         /\ q \in CallRequest /\ q.op \in Operations
         /\ q.op = "oidc.callback" <=> q.sub \in Subjects

VARIABLES users,     \* the user rows
          tokens,    \* table api_tokens
          links,     \* the oidcidentity rows, by subject
          sessions,  \* the session tokens handed out
          flow,      \* the flow cookie of every caller's browser
          calls,     \* what every request is doing
          jwks,      \* signing keys: the provider's, and the cached ones
          now,       \* the clock
          madeUsers, \* users created so far: the source of uid
          handled,   \* requests accepted
          chosen,    \* the password last chosen for every user
          lastAdmin, \* when every user was last an admin (-1: never)
          reborn     \* users updated on top of a version read before a re-creation

identityVars == <<users, tokens, links, sessions, flow, calls, jwks, now, madeUsers,
                  handled, chosen, lastAdmin, reborn>>

ValidRoles == {"view", "edit", "admin"}
NoUser == [uid |-> 0, version |-> 0, role |-> "", hash |-> ""]
NoToken == [user |-> "", exp |-> 0]
NoLink == [version |-> 0, user |-> ""]

(* A request: its operation, the user (or the token) it names, the role,   *)
(* the password ("" for none), the lifetime of a token (0: no expiry), and *)
(* for a callback the subject and the user name its ID token claims.       *)
NoCall == [op |-> "none", user |-> "", tok |-> "", role |-> "", pw |-> "", days |-> 0,
           valid |-> TRUE, sub |-> "", claim |-> ""]
Waiting == [req |-> NoCall, todo |-> <<>>, code |-> 0, who |-> "", role |-> "",
            read |-> NoUser, tok |-> "", link |-> NoLink, kid |-> 0]

-----------------------------------------------------------------------------
(* Steps: the call, and the answer when it fails.                          *)
Do(act, code) == [act |-> act, code |-> code]
Deny(code) == << Do("deny", code) >>

(* The API answers 403 through RequireRole, the console through IsAdmin.   *)
RequireRole(q, role, program) == IF role = "admin" THEN program ELSE Deny(403)
SelfOrAdmin(q, who, role, program) ==
    IF role = "admin" \/ who = q.user THEN program ELSE Deny(403)
CanEdit(role, program) == IF role \in {"edit", "admin"} THEN program ELSE Deny(403)

(* UserHandlers and the user forms of the settings page.                   *)
UsersCreate(q, role) ==
    RequireRole(q, role,
      IF ~q.valid \/ q.pw = "" \/ q.role \notin ValidRoles THEN Deny(400)
      ELSE << Do("absent", 409), Do("create", 500) >>)

UsersUpdate(q, role) ==
    RequireRole(q, role,
      IF ~q.valid \/ q.role \notin ValidRoles THEN Deny(400)
      ELSE << Do("present", 404), Do("update", 500) >>)

UsersDelete(q, role) == RequireRole(q, role, << Do("remove", 500) >>)

UsersGet(q, role) == RequireRole(q, role, << Do("present", 404) >>)

UserCreate(q, role) == UsersCreate(q, role)
UserUpdate(q, role) == UsersUpdate(q, role)

(* The console refuses to delete the user who asks; the API does not.      *)
UserDelete(q, who, role) ==
    IF role = "admin" /\ who = q.user THEN Deny(400) ELSE UsersDelete(q, role)

(* APITokenHandlers and the token forms. Who owns the token is decided     *)
(* after it has been read.                                                 *)
TokenCreateForUser(q, who, role) ==
    SelfOrAdmin(q, who, role,
      << Do("present", 404) >>
        \o (IF q.valid THEN << Do("issue", 500) >> ELSE Deny(400)))

TokenDelete(q) == << Do("token", 404), Do("owner", 403), Do("revoke", 500) >>
TokenGet(q) == << Do("token", 404), Do("owner", 403) >>
TokenListForUser(q, who, role) == SelfOrAdmin(q, who, role, <<>>)

APITokenCreate(q, who, role) == CanEdit(role, TokenCreateForUser(q, who, role))
APITokenDelete(q, role) == CanEdit(role, TokenDelete(q))

(* AuthHandlers.Login and the console's LoginSubmit.                       *)
Login(q) ==
    IF ~q.valid \/ q.pw = "" THEN Deny(400)
    ELSE << Do("present", 401), Do("password", 401), Do("mint", 500) >>

(* oidc.Handler: Login sends the browser to the provider, Callback takes   *)
(* the cookie, redeems the code, verifies the ID token and resolves who    *)
(* signed in.                                                              *)
OIDCLogin(q) == << Do("discover", 303), Do("flow", 303) >>
OIDCCallback(q) ==
    << Do("cookie", 303), Do("discover", 303), Do("exchange", 303),
       Do("verify", 303), Do("identity", 303), Do("mint", 303) >>

(* Router and RegisterRoutes: who is served what.                          *)
Router(q, who, role) ==
    CASE q.op = "users.create" -> UsersCreate(q, role)
      [] q.op = "users.update" -> UsersUpdate(q, role)
      [] q.op = "users.delete" -> UsersDelete(q, role)
      [] q.op = "users.get" -> UsersGet(q, role)
      [] q.op = "form.create" -> UserCreate(q, role)
      [] q.op = "form.update" -> UserUpdate(q, role)
      [] q.op = "form.delete" -> UserDelete(q, who, role)
      [] q.op = "token.create" -> TokenCreateForUser(q, who, role)
      [] q.op = "token.delete" -> TokenDelete(q)
      [] q.op = "token.get" -> TokenGet(q)
      [] q.op = "token.list" -> TokenListForUser(q, who, role)
      [] q.op = "form.token" -> APITokenCreate(q, who, role)
      [] q.op = "form.revoke" -> APITokenDelete(q, role)

Public(q) ==
    CASE q.op = "login" -> Login(q)
      [] q.op = "oidc.login" -> OIDCLogin(q)
      [] q.op = "oidc.callback" -> OIDCCallback(q)

-----------------------------------------------------------------------------
At(c, act) == calls[c].todo # <<>> /\ Head(calls[c].todo).act = act
Then(c, changes, more) ==
    calls' = [calls EXCEPT ![c] = [changes EXCEPT !.todo = more \o Tail(@)]]
Answered(c) ==
    calls' = [calls EXCEPT ![c] = [@ EXCEPT !.todo = <<>>, !.code = Head(calls[c].todo).code]]

Known(u) == u \in Users /\ users[u].uid # 0
Target(c) == calls[c].req.user

(* authenticateWith and AuthRequired: a session is taken at its word until *)
(* it expires (the first form forgets to look at the expiry).              *)
ForgetExpiry(s) == TRUE
ValidateToken(s) == now <= s.exp

Authenticate(c) ==
    /\ At(c, "session")
    /\ \E s \in sessions :
         IF ValidateToken(s)
         THEN calls' = [calls EXCEPT ![c] = [@ EXCEPT !.who = s.user, !.role = s.role,
                !.todo = Router(calls[c].req, s.user, s.role)]]
         ELSE Answered(c)
    /\ UNCHANGED <<users, tokens, links, sessions, flow, jwks, now, madeUsers, handled,
                   chosen, lastAdmin, reborn>>

(* VerifyAPIToken: the hash is looked up first, then the user, whose role  *)
(* of the moment counts.                                                   *)
VerifyAPIToken(c) ==
    /\ \/ /\ At(c, "bearer")
          /\ \E t \in Tokens :
               IF tokens[t] # NoToken /\ (tokens[t].exp = 0 \/ now <= tokens[t].exp)
               THEN Then(c, [calls[c] EXCEPT !.who = tokens[t].user], << Do("holder", 401) >>)
               ELSE Answered(c)
       \/ /\ At(c, "holder")
          /\ IF Known(calls[c].who)
             THEN calls' = [calls EXCEPT ![c] = [@ EXCEPT !.role = users[calls[c].who].role,
                    !.todo = Router(calls[c].req, calls[c].who, users[calls[c].who].role)]]
             ELSE Answered(c)
    /\ UNCHANGED <<users, tokens, links, sessions, flow, jwks, now, madeUsers, handled,
                   chosen, lastAdmin, reborn>>

GetUser(c) ==
    /\ \/ /\ At(c, "present")
          /\ IF Known(Target(c)) THEN Then(c, [calls[c] EXCEPT !.read = users[Target(c)]], <<>>)
             ELSE Answered(c)
       \/ /\ At(c, "absent")
          /\ IF Known(Target(c)) THEN Answered(c) ELSE Then(c, calls[c], <<>>)
       \/ /\ At(c, "password")    \* CheckPassword; a provisioned user has no hash
          /\ IF calls[c].read.hash = calls[c].req.pw THEN Then(c, calls[c], <<>>)
             ELSE Answered(c)
       \/ At(c, "deny") /\ Answered(c)
    /\ UNCHANGED <<users, tokens, links, sessions, flow, jwks, now, madeUsers, handled,
                   chosen, lastAdmin, reborn>>

SetUser(u, row) ==
    /\ users' = [users EXCEPT ![u] = row]
    /\ lastAdmin' = [lastAdmin EXCEPT ![u] =
            IF row.role = "admin" \/ users[u].role = "admin" THEN now ELSE @]

CreateUser(c) ==
    LET u == Target(c)
        q == calls[c].req IN
    /\ At(c, "create")
    /\ IF Known(u)
       THEN Answered(c) /\ UNCHANGED <<users, lastAdmin, madeUsers, chosen, reborn>>
       ELSE /\ SetUser(u, [uid |-> madeUsers + 1, version |-> 1, role |-> q.role, hash |-> q.pw])
            /\ madeUsers' = madeUsers + 1
            /\ chosen' = [chosen EXCEPT ![u] = q.pw]
            /\ reborn' = reborn \ {u}
            /\ Then(c, calls[c], <<>>)
    /\ UNCHANGED <<tokens, links, sessions, flow, jwks, now, handled>>

(* An update that does not compare versions.                               *)
UpdateAnyVersion(c) ==
    LET u == Target(c)
        q == calls[c].req
        hash == IF q.pw # "" THEN q.pw ELSE calls[c].read.hash IN
    /\ At(c, "update")
    /\ IF Known(u)
       THEN /\ SetUser(u, [users[u] EXCEPT !.version = @ + 1, !.role = q.role, !.hash = hash])
            /\ chosen' = [chosen EXCEPT ![u] = IF q.pw # "" THEN q.pw ELSE @]
            /\ reborn' = IF users[u].uid # calls[c].read.uid THEN reborn \cup {u} ELSE reborn
            /\ Then(c, calls[c], <<>>)
       ELSE Answered(c) /\ UNCHANGED <<users, lastAdmin, chosen, reborn>>
    /\ UNCHANGED <<tokens, links, sessions, flow, jwks, now, madeUsers, handled>>

(* UserHandlers.Update writes role and hash together, on top of the        *)
(* version it has read: a role alone writes the hash it has read.          *)
UpdateUser(c) ==
    LET u == Target(c)
        q == calls[c].req
        hash == IF q.pw # "" THEN q.pw ELSE calls[c].read.hash IN
    /\ At(c, "update")
    /\ IF Known(u) /\ users[u].version = calls[c].read.version
       THEN /\ SetUser(u, [users[u] EXCEPT !.version = @ + 1, !.role = q.role, !.hash = hash])
            /\ chosen' = [chosen EXCEPT ![u] = IF q.pw # "" THEN q.pw ELSE @]
            /\ reborn' = IF users[u].uid # calls[c].read.uid THEN reborn \cup {u} ELSE reborn
            /\ Then(c, calls[c], <<>>)
       ELSE Answered(c) /\ UNCHANGED <<users, lastAdmin, chosen, reborn>>
    /\ UNCHANGED <<tokens, links, sessions, flow, jwks, now, madeUsers, handled>>

(* Store.DeleteUser removes the row, if there is one. The tokens and the   *)
(* identity links that name the user stay: SQLite enforces the declared    *)
(* ON DELETE CASCADE only when foreign_keys is switched on.                *)
DeleteUser(c) ==
    /\ At(c, "remove")
    /\ IF Known(Target(c)) THEN SetUser(Target(c), NoUser)
       ELSE UNCHANGED <<users, lastAdmin>>
    /\ Then(c, calls[c], <<>>)
    /\ UNCHANGED <<tokens, links, sessions, flow, jwks, now, madeUsers, handled, chosen, reborn>>

(* CreateAPIToken, GetAPIToken with the owner test, DeleteAPIToken.        *)
APIToken(c) ==
    LET q == calls[c].req IN
    /\ \/ /\ At(c, "issue")
          /\ \E t \in Tokens :
               /\ tokens[t] = NoToken
               /\ tokens' = [tokens EXCEPT ![t] = [user |-> q.user,
                       exp |-> IF q.days > 0 THEN now + q.days ELSE 0]]
          /\ Then(c, calls[c], <<>>)
       \/ /\ At(c, "token")
          /\ IF q.tok \in Tokens /\ tokens[q.tok] # NoToken
             THEN Then(c, [calls[c] EXCEPT !.tok = tokens[q.tok].user], <<>>)
             ELSE Answered(c)
          /\ UNCHANGED tokens
       \/ /\ At(c, "owner")
          /\ IF calls[c].role = "admin" \/ calls[c].who = calls[c].tok
             THEN Then(c, calls[c], <<>>) ELSE Answered(c)
          /\ UNCHANGED tokens
       \/ /\ At(c, "revoke")
          /\ tokens' = [tokens EXCEPT ![q.tok] = NoToken]
          /\ Then(c, calls[c], <<>>)
    /\ UNCHANGED <<users, links, sessions, flow, jwks, now, madeUsers, handled, chosen,
                   lastAdmin, reborn>>

(* JWTManager.GenerateToken, with the role that was read.                  *)
GenerateToken(c) ==
    LET q == calls[c].req IN
    /\ At(c, "mint")
    /\ IF calls[c].read.role \in ValidRoles
       THEN /\ sessions' = sessions \cup
                 {[user |-> IF q.op = "login" THEN q.user ELSE calls[c].link.user,
                   role |-> calls[c].read.role, exp |-> now + Expiry, sub |-> q.sub]}
            /\ Then(c, calls[c], <<>>)
       ELSE Answered(c) /\ UNCHANGED sessions
    /\ UNCHANGED <<users, tokens, links, flow, jwks, now, madeUsers, handled, chosen,
                   lastAdmin, reborn>>

-----------------------------------------------------------------------------
(* oidc.Handler.Login and the first half of Callback. The provider may be  *)
(* unreachable or refuse the code; taking the cookie removes it, so a      *)
(* callback works once.                                                    *)
signIn(c) ==
    /\ \/ /\ At(c, "discover") /\ Then(c, calls[c], <<>>) /\ UNCHANGED flow
       \/ /\ At(c, "discover") /\ Answered(c) /\ UNCHANGED flow
       \/ /\ At(c, "flow") /\ Then(c, calls[c], <<>>)
          /\ flow' = [flow EXCEPT ![c] = TRUE]
       \/ /\ At(c, "cookie")
          /\ IF flow[c] THEN Then(c, calls[c], <<>>) ELSE Answered(c)
          /\ flow' = [flow EXCEPT ![c] = FALSE]
       \/ /\ At(c, "exchange")
          /\ Then(c, [calls[c] EXCEPT !.kid = jwks.signing], <<>>)
          /\ UNCHANGED flow
       \/ /\ At(c, "exchange") /\ Answered(c) /\ UNCHANGED flow
    /\ UNCHANGED <<users, tokens, links, sessions, jwks, now, madeUsers, handled, chosen,
                   lastAdmin, reborn>>

(* keyAt in VerifyIDToken: an unknown key id fetches the provider's set.   *)
keyAt(c) ==
    /\ At(c, "verify")
    /\ LET keys == IF calls[c].kid \in jwks.cached THEN jwks.cached ELSE jwks.published
       IN /\ jwks' = [jwks EXCEPT !.cached = keys]
          /\ IF calls[c].kid \in keys THEN Then(c, calls[c], <<>>) ELSE Answered(c)
    /\ UNCHANGED <<users, tokens, links, sessions, flow, now, madeUsers, handled, chosen,
                   lastAdmin, reborn>>

(* MapRole: what a user who is provisioned by a sign-in may do.            *)
MapRole(q) == IF q.role = "admin" THEN "admin" ELSE "view"

(* ResolveIdentity, part one: a known subject is the user it is linked to, *)
(* a new one the user the claims name, who is provisioned when missing.    *)
ResolveIdentity(c) ==
    LET q == calls[c].req
        u == calls[c].link.user IN
    /\ \/ /\ At(c, "identity")
          /\ IF links[q.sub] # NoLink
             THEN Then(c, [calls[c] EXCEPT !.link = links[q.sub]],
                       << Do("linked", 303), Do("relink", 303) >>)
             ELSE IF q.claim = "" THEN Answered(c)
             ELSE Then(c, [calls[c] EXCEPT !.link = [version |-> 0, user |-> q.claim]],
                       << Do("candidate", 303) >>)
          /\ UNCHANGED <<users, lastAdmin, madeUsers, chosen, reborn>>
       \/ /\ At(c, "linked")
          /\ IF Known(u) THEN Then(c, [calls[c] EXCEPT !.read = users[u]], <<>>)
             ELSE Answered(c)
          /\ UNCHANGED <<users, lastAdmin, madeUsers, chosen, reborn>>
       \/ /\ At(c, "candidate")
          /\ IF Known(u)
             THEN Then(c, [calls[c] EXCEPT !.read = users[u]], << Do("relink", 303) >>)
             ELSE Then(c, calls[c], << Do("provision", 303), Do("relink", 303) >>)
          /\ UNCHANGED <<users, lastAdmin, madeUsers, chosen, reborn>>
       \/ /\ At(c, "provision")
          /\ IF Known(u)
             THEN Answered(c) /\ UNCHANGED <<users, lastAdmin, madeUsers, chosen, reborn>>
             ELSE /\ SetUser(u, [uid |-> madeUsers + 1, version |-> 1,
                                 role |-> MapRole(q), hash |-> ""])
                  /\ madeUsers' = madeUsers + 1
                  /\ chosen' = [chosen EXCEPT ![u] = ""]
                  /\ reborn' = reborn \ {u}
                  /\ Then(c, [calls[c] EXCEPT !.read = users'[u]], <<>>)
    /\ UNCHANGED <<tokens, links, sessions, flow, jwks, now, handled>>

(* A sign-in that does not care whether the link was recorded.             *)
LinkBestEffort(c) ==
    /\ At(c, "relink")
    /\ links' = IF links[calls[c].req.sub].version = calls[c].link.version
                THEN [links EXCEPT ![calls[c].req.sub] =
                        [version |-> @.version + 1, user |-> calls[c].link.user]]
                ELSE links
    /\ Then(c, calls[c], <<>>)
    /\ UNCHANGED <<users, tokens, sessions, flow, jwks, now, madeUsers, handled, chosen,
                   lastAdmin, reborn>>

(* putIdentity: version 0 inserts, any other compares; both fail when a    *)
(* concurrent sign-in of the subject was faster, and then no session is    *)
(* minted.                                                                 *)
putIdentity(c) ==
    LET s == calls[c].req.sub IN
    /\ At(c, "relink")
    /\ IF links[s].version = calls[c].link.version
       THEN /\ links' = [links EXCEPT ![s] =
                    [version |-> @.version + 1, user |-> calls[c].link.user]]
            /\ Then(c, calls[c], <<>>)
       ELSE Answered(c) /\ UNCHANGED links
    /\ UNCHANGED <<users, tokens, sessions, flow, jwks, now, madeUsers, handled, chosen,
                   lastAdmin, reborn>>

-----------------------------------------------------------------------------
(* A request arrives: public, with a session or with an API token.         *)
Request(c) ==
    /\ calls[c].todo = <<>> /\ handled < MaxCalls
    /\ handled' = handled + 1
    /\ \E q \in UserRequests, credential \in {"session", "bearer"} :
         calls' = [calls EXCEPT ![c] = [Waiting EXCEPT !.req = q,
            !.todo = IF q.op \in {"login", "oidc.login", "oidc.callback"} THEN Public(q)
                     ELSE << Do(credential, 401) >>]]
    /\ UNCHANGED <<users, tokens, links, sessions, flow, jwks, now, madeUsers, chosen,
                   lastAdmin, reborn>>

(* A tick is hours: the requests of a tick are over within it. Admins are  *)
(* admins at the new time, too.                                            *)
PassTime ==
    /\ now < MaxClock /\ \A c \in Callers : calls[c].todo = <<>>
    /\ now' = now + 1
    /\ lastAdmin' = [u \in Users |-> IF users[u].role = "admin" THEN now + 1 ELSE lastAdmin[u]]
    /\ UNCHANGED <<users, tokens, links, sessions, flow, calls, jwks, madeUsers, handled,
                   chosen, reborn>>

(* The provider signs with a new key; the old one is published for a while *)
(* and then not; the cached set expires.                                   *)
RotateKeys ==
    /\ \/ jwks.signing = 1 /\ jwks' = [jwks EXCEPT !.signing = 2, !.published = {1, 2}]
       \/ jwks.signing = 2 /\ jwks' = [jwks EXCEPT !.published = {2}]
       \/ jwks' = [jwks EXCEPT !.cached = {}]
    /\ jwks' # jwks
    /\ UNCHANGED <<users, tokens, links, sessions, flow, calls, now, madeUsers, handled,
                   chosen, lastAdmin, reborn>>

(* ensureAdminUser: the first start of the process creates "admin".        *)
ensureAdminUser ==
    [u \in Users |-> IF u = "admin" THEN [uid |-> 1, version |-> 1, role |-> "admin",
                                          hash |-> "initial"]
                     ELSE NoUser]

IdentityInit ==
    /\ users = ensureAdminUser
    /\ tokens = [t \in Tokens |-> NoToken]
    /\ links = [s \in Subjects |-> NoLink]
    /\ sessions = {[user |-> "admin", role |-> "admin", exp |-> Expiry, sub |-> ""]}
    /\ flow = [c \in Callers |-> FALSE]
    /\ calls = [c \in Callers |-> Waiting]
    /\ jwks = [signing |-> 1, published |-> {1}, cached |-> {}]
    /\ now = 0 /\ madeUsers = 1 /\ handled = 0
    /\ chosen = [u \in Users |-> IF u = "admin" THEN "initial" ELSE ""]
    /\ lastAdmin = [u \in Users |-> IF u = "admin" THEN 0 ELSE -1]
    /\ reborn = {}

IdentityNext ==
    \/ \E c \in Callers :
         \/ Request(c) \/ Authenticate(c) \/ VerifyAPIToken(c) \/ GetUser(c)
         \/ CreateUser(c) \/ UpdateUser(c) \/ DeleteUser(c) \/ APIToken(c)
         \/ GenerateToken(c) \/ signIn(c) \/ keyAt(c) \/ ResolveIdentity(c)
         \/ putIdentity(c)
    \/ PassTime
    \/ RotateKeys

IdentitySpec == IdentityInit /\ [][IdentityNext]_identityVars

-----------------------------------------------------------------------------
UserRow == [uid : Nat, version : Nat, role : ValidRoles \cup {""},
            hash : Passwords \cup {"", "initial"}]
LinkRow == [version : Nat, user : Users \cup {""}]
Acts == {"session", "bearer", "holder", "deny", "present", "absent", "password", "create",
         "update", "remove", "issue", "token", "owner", "revoke", "mint", "discover", "flow",
         "cookie", "exchange", "verify", "identity", "linked", "candidate", "provision", "relink"}
CallStep == [act : Acts, code : Nat]
CallState ==
    [req : CallRequest, todo : Seq(CallStep), code : Nat, who : Users \cup {""},
     role : ValidRoles \cup {""}, read : UserRow, tok : Users \cup {""}, link : LinkRow,
     kid : 0..2]

IdentityTypeOK ==
    /\ users \in [Users -> UserRow]
    /\ tokens \in [Tokens -> [user : Users \cup {""}, exp : Nat]]
    /\ links \in [Subjects -> LinkRow]
    /\ sessions \subseteq [user : Users, role : ValidRoles, exp : Nat, sub : Subjects \cup {""}]
    /\ flow \in [Callers -> BOOLEAN]
    /\ calls \in [Callers -> CallState]
    /\ jwks \in [signing : {1, 2}, published : SUBSET {1, 2}, cached : SUBSET {1, 2}]
    /\ now \in 0..MaxClock /\ madeUsers \in Nat /\ handled \in 0..MaxCalls
    /\ chosen \in [Users -> Passwords \cup {"", "initial"}]
    /\ lastAdmin \in [Users -> -1..MaxClock]
    /\ reborn \subseteq Users

(* The password of a user is the one last chosen for it: changing the role *)
(* alone, which writes back the hash it has read, never undoes a password  *)
(* chosen meanwhile. UpdateUser's version comparison is what keeps it so,  *)
(* except when the user was deleted and created again in between: versions *)
(* start over at 1 and the old hash is written over the new one.           *)
PasswordIsLastChosen ==
    \A u \in Users : Known(u) /\ u \notin reborn => users[u].hash = chosen[u]

(* Whatever the sign-ins of a subject do concurrently, with the claims     *)
(* changing between them, every session it was given is for the one user   *)
(* it is linked to (ResolveIdentity, putIdentity).                         *)
SessionMatchesLink ==
    \A s \in sessions : s.sub # "" => links[s.sub].user = s.user

(* Being an admin ends: whoever runs an admin's request was an admin at    *)
(* most Expiry ago. Nothing revokes a session (Logout only clears the      *)
(* cookie, and the role in it is never compared with the user's row), so   *)
(* this is all that ValidateToken and VerifyAPIToken guarantee.            *)
AdminEndsWithSession ==
    \A c \in Callers : calls[c].todo # <<>> /\ calls[c].role = "admin"
        => now <= lastAdmin[calls[c].who] + Expiry

-----------------------------------------------------------------------------
(***************************************************************************)
(* What makes the three invariants inductive. The calls of a handler come  *)
(* in the order its code has them, and each belongs to certain requests.   *)
(***************************************************************************)
CallOrder ==
    {<<"present", "update">>, <<"present", "issue">>, <<"present", "deny">>,
     <<"present", "password">>, <<"password", "mint">>, <<"absent", "create">>,
     <<"token", "owner">>, <<"owner", "revoke">>, <<"discover", "flow">>,
     <<"cookie", "discover">>, <<"discover", "exchange">>, <<"exchange", "verify">>,
     <<"verify", "identity">>, <<"identity", "mint">>, <<"linked", "relink">>,
     <<"candidate", "mint">>, <<"provision", "relink">>, <<"relink", "mint">>}

SignInActs == {"identity", "linked", "candidate", "provision", "relink"}
Suits(act, q) ==
    /\ act \in SignInActs => q.op = "oidc.callback"
    /\ act \in {"session", "bearer", "holder"} => q.op \notin {"login", "oidc.login", "oidc.callback"}
    /\ act = "password" => q.op = "login"
    /\ act = "mint" => q.op \in {"login", "oidc.callback"}
    /\ act \in {"create", "update"} => q.role \in ValidRoles

ProgramOK(todo, q) ==
    /\ \A i \in 1..Len(todo) : Suits(todo[i].act, q)
    /\ \A i \in 1..(Len(todo) - 1) : <<todo[i].act, todo[i + 1].act>> \in CallOrder

ProgramInv ==
    \A c \in Callers :
        /\ ProgramOK(calls[c].todo, calls[c].req)
        /\ calls[c].todo # <<>> =>
             /\ calls[c].req.op \in Operations
             /\ calls[c].req.op = "oidc.callback" <=> calls[c].req.sub \in Subjects

(***************************************************************************)
(* A uid is given once and the version of a row only grows: the row that   *)
(* UpdateUser has read, if it is still there in that version, still has    *)
(* the hash that was read.                                                 *)
(***************************************************************************)
UpdateOK(c) ==
    At(c, "update") =>
        /\ Target(c) \in Users /\ calls[c].read.uid \in 1..madeUsers
        /\ calls[c].read.uid = users[Target(c)].uid =>
             /\ calls[c].read.version <= users[Target(c)].version
             /\ calls[c].read.version = users[Target(c)].version
                  => calls[c].read.hash = users[Target(c)].hash

PasswordInv ==
    /\ \A u \in Users : users[u].uid <= madeUsers
    /\ \A c \in Callers : UpdateOK(c)
    /\ PasswordIsLastChosen

(***************************************************************************)
(* A link that exists keeps its user, and a sign-in that is past its link  *)
(* is for that user.                                                       *)
(***************************************************************************)
LinkedTo(s, u) == links[s].version > 0 /\ links[s].user = u

LinkOK(c) ==
    LET s == calls[c].req.sub
        link == calls[c].link IN
    /\ At(c, "linked") => link.version > 0 /\ LinkedTo(s, link.user)
    /\ At(c, "candidate") => link.version = 0 /\ link.user \in Users
    /\ At(c, "provision") => link.version = 0 /\ link.user \in Users
    /\ At(c, "relink") => link.user \in Users /\ (link.version = 0 \/ LinkedTo(s, link.user))
    /\ At(c, "mint") /\ calls[c].req.op = "oidc.callback"
         => link.user \in Users /\ LinkedTo(s, link.user)

LinkInv ==
    /\ \A s \in Subjects : links[s].version = 0 => links[s] = NoLink
    /\ \A s \in sessions : s.sub # "" => LinkedTo(s.sub, s.user)
    /\ \A c \in Callers : LinkOK(c)

(***************************************************************************)
(* An admin is one now, and a role that was read within a tick was had in  *)
(* it; a session of an admin ends an expiry after that at the latest.      *)
(***************************************************************************)
ReadNow(c, u) == calls[c].read.role = "admin" => lastAdmin[u] = now

Entitled(c) ==
    /\ At(c, "bearer") => calls[c].role = ""
    /\ calls[c].todo # <<>> /\ calls[c].role = "admin"
         => calls[c].who \in Users /\ now <= lastAdmin[calls[c].who] + Expiry

RoleOK(c) ==
    /\ Entitled(c)
    /\ At(c, "password") => Target(c) \in Users /\ ReadNow(c, Target(c))
    /\ At(c, "mint") /\ calls[c].req.op = "login"
         => Target(c) \in Users /\ ReadNow(c, Target(c))
    /\ At(c, "relink") => ReadNow(c, calls[c].link.user)
    /\ At(c, "mint") /\ calls[c].req.op = "oidc.callback"
         => ReadNow(c, calls[c].link.user)

AdminInv ==
    /\ \A u \in Users : lastAdmin[u] <= now /\ (users[u].role = "admin" => lastAdmin[u] = now)
    /\ \A s \in sessions : s.role = "admin" => s.exp <= lastAdmin[s.user] + Expiry
    /\ \A c \in Callers : RoleOK(c)

IdentityInv == IdentityTypeOK /\ ProgramInv /\ PasswordInv /\ LinkInv /\ AdminInv
=============================================================================

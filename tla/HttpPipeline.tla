---------------------------- MODULE HttpPipeline ----------------------------
(***************************************************************************)
(* The identity server's HTTP surface.  A request passes the middleware of *)
(* the application, of its mount and of its route in order, and then the   *)
(* steps of its handler; every await lets other requests run, accounts     *)
(* change and the stores come and go.  A route is a chain of steps, taken  *)
(* from the mounts of the server and from the handler, and what the        *)
(* handler does is stated apart from the guards, in needs.                 *)
(***************************************************************************)
EXTENDS Naturals, Sequences

CONSTANTS
  Req,     \* requests
  Every,   \* whether all routes are asked for, with anything, or a few, with all they need
  Limit    \* requests of one type and scope in a window

VARIABLES
  route, brings,  \* what a request asks for and brings along
  todo,      \* todo[r]: the steps that are left
  identity,  \* identity[r]: who the request is found to be from, "none" for nobody
  status,    \* status[r]: the answer, 0 while there is none
  did,       \* did[r]: how many changes it made
  logged,    \* logged[r]: whether it wrote an audit entry
  good,      \* whether the account state accepts the tokens of the account now
  seen,      \* seen[r]: verdicts on its token that were right at some moment since it came
  used,      \* used[t, s]: what the limiter has counted in this window
  passed,    \* passed[t, s]: requests it let through
  open       \* open[t, s]: requests it let through because it failed

vars == <<route, brings, todo, identity, status, did, logged, good, seen, used, passed, open>>

limitVars == <<used, passed, open>>
requestVars == <<route, brings, good, seen>>

-----------------------------------------------------------------------------
(* Mounts *)

AuthMount == <<"authenticate", "csrf">>

MfaMount == <<"authenticate", "auth", "csrf">>

MemberMount == <<"authenticate", "auth">>

OauthMount == <<"authenticate">>

AdminMount == <<"authenticate", "auth", "admin">>

KeyMount == <<"key", "auth">>

\* limit and scope are the limiter's arguments; needs is what the handler relies on.
Post(mount, limit, scope, needs, steps) ==
  [mount |-> mount, safe |-> FALSE, limit |-> limit, scope |-> scope, needs |-> needs, steps |-> steps]

Get(mount, limit, scope, needs, steps) ==
  [mount |-> mount, safe |-> TRUE, limit |-> limit, scope |-> scope, needs |-> needs, steps |-> steps]

Open(limit, steps) == Post(AuthMount, limit, "ip", "anyone", steps)

AdminRoute(steps) == Post(AdminMount, "none", "ip", "admin", steps)

View(steps) == Get(AdminMount, "none", "ip", "admin", steps)

-----------------------------------------------------------------------------
(* Routes.  "body" may find the request wanting, "find" may find nothing,    *)
(* "write" may be refused, "more" is a change after the first, "roles" one   *)
(* that may be refused then, "log" the audit entry.                          *)

register == Open("register", <<"write", "answer">>)
login == Open("login", <<"body", "write", "answer">>)
logout == Post(AuthMount, "api", "user", "anyone", <<"write", "answer">>)
refresh == Open("refresh", <<"body", "write", "answer">>)
otpSend == Open("otp", <<"body", "write", "answer">>)
otpVerify == Open("otp", <<"body", "write", "answer">>)
otpLogin == Open("otp", <<"body", "write", "more", "answer">>)
passwordChange == Post(AuthMount, "api", "user", "caller", <<"own", "write", "answer">>)
passwordReset == Open("otp", <<"write", "more", "answer">>)
passwordForgot == Open("otp", <<"body", "write", "answer">>)
emailVerify == Open("otp", <<"write", "more", "answer">>)
csrfToken == Get(AuthMount, "none", "ip", "anyone", <<"answer">>)

listSessions == Get(MemberMount, "api", "user", "caller", <<"own", "find", "answer">>)
revokeAll == Post(MemberMount, "api", "user", "caller", <<"own", "write", "answer">>)
revokeOne == Post(MemberMount, "api", "user", "caller", <<"own", "body", "find", "write", "answer">>)

mfaSetup == Post(MfaMount, "api", "user", "caller", <<"own", "write", "answer">>)
mfaEnable == Post(MfaMount, "api", "user", "caller", <<"own", "body", "write", "answer">>)
mfaVerify == Post(MfaMount, "mfa", "user", "caller", <<"own", "body", "write", "answer">>)
mfaDisable == Post(MfaMount, "api", "user", "caller", <<"own", "body", "write", "answer">>)
mfaLogin == Post(MfaMount, "mfa", "ip", "anyone", <<"body", "write", "answer">>)

verifyForgot == Open("otp", <<"body", "write", "answer">>)
resetConfirm == Open("otp", <<"body", "write", "more", "answer">>)
verifyToken == Open("otp", <<"body", "write", "more", "answer">>)
magicSend == Open("otp", <<"body", "write", "answer">>)
magicRedeem == Open("otp", <<"body", "write", "more", "answer">>)

authorize == Get(OauthMount, "api", "user", "caller", <<"own", "write", "answer">>)
tokenExchange == Post(OauthMount, "api", "client", "anyone", <<"write", "more", "answer">>)
registerClient ==
  Post(OauthMount \o <<"auth", "admin">>, "api", "user", "admin", <<"write", "answer">>)

scimList == Get(AdminMount, "api", "ip", "admin", <<"answer">>)
scimGet == Get(AdminMount, "api", "ip", "admin", <<"find", "answer">>)
scimCreate == Post(AdminMount, "api", "ip", "admin", <<"body", "write", "answer">>)
scimPatch == Post(AdminMount, "api", "ip", "admin", <<"write", "answer">>)

webhookList == Get(AdminMount, "api", "ip", "admin", <<"find", "answer">>)
webhookCreate == Post(AdminMount, "api", "ip", "admin", <<"body", "write", "answer">>)
webhookTest == Post(AdminMount, "api", "ip", "admin", <<"write", "answer">>)

teamList == Get(AdminMount, "api", "ip", "admin", <<"find", "answer">>)
teamCreate == Post(AdminMount, "api", "ip", "admin", <<"body", "write", "answer">>)
teamMembers == Post(AdminMount, "api", "ip", "admin", <<"body", "find", "write", "answer">>)

subscribe == Post(MemberMount, "api", "ip", "caller", <<"body", "write", "answer">>)
entitlements == Get(MemberMount, "api", "ip", "caller", <<"find", "answer">>)

graphql == Post(MemberMount, "api", "ip", "caller", <<"body", "find", "answer">>)

usersMe == Get(MemberMount, "none", "ip", "caller", <<"own", "find", "answer">>)
ping == Get(KeyMount, "none", "ip", "caller", <<"answer">>)
wellKnown == [Get(<<>>, "none", "ip", "anyone", <<"answer">>) EXCEPT !.scope = "public"]
health == Get(<<>>, "none", "ip", "anyone", <<"answer">>)
preflight == Get(<<>>, "none", "options", "anyone", <<>>)

\* The admin routes; AdminRoutes has those that change roles and list users.
stats == View(<<"own", "find", "answer">>)
listTenants == View(<<"answer">>)
createTenant == AdminRoute(<<"own", "body", "write", "log", "answer">>)
getTenant == View(<<"find", "answer">>)
updateTenant == AdminRoute(<<"write", "answer">>)
getUser == View(<<"own", "find", "answer">>)
userRoles == View(<<"own", "find", "answer">>)
userPermissions == View(<<"own", "find", "answer">>)
patchUser == AdminRoute(<<"own", "find", "write", "roles", "more", "answer">>)
deleteUser == AdminRoute(<<"own", "write", "more", "answer">>)
listRoles == View(<<"own", "answer">>)
patchRole == AdminRoute(<<"own", "body", "write", "log", "answer">>)
listPermissions == View(<<"own", "answer">>)
canDo == View(<<"own", "find", "answer">>)
listClients == View(<<"answer">>)
createClient == AdminRoute(<<"own", "body", "write", "answer">>)
disableClient == AdminRoute(<<"write", "answer">>)
patchClient == AdminRoute(<<"body", "write", "answer">>)
adminSessions == View(<<"own", "find", "answer">>)
revokeSession == AdminRoute(<<"write", "answer">>)
auditTrail == View(<<"own", "find", "answer">>)
listKeys == View(<<"own", "answer">>)
createKey == AdminRoute(<<"own", "body", "write", "log", "answer">>)
revokeKey == AdminRoute(<<"write", "answer">>)
listWebhooks == View(<<"own", "answer">>)
addWebhook == AdminRoute(<<"own", "body", "write", "answer">>)
testWebhook == AdminRoute(<<"own", "find", "write", "answer">>)
breaches == View(<<"answer">>)
getSettings == View(<<"own", "answer">>)
patchSettings == AdminRoute(<<"own", "body", "write", "answer">>)
subscriptions == View(<<"answer">>)

\* Some that share a budget, for requests at the same time.
Mixed == {otpSend, emailVerify, passwordChange, patchUser}

All ==
  {register, login, logout, refresh, otpSend, otpVerify, otpLogin, passwordChange,
   passwordReset, passwordForgot, emailVerify, csrfToken, listSessions, revokeAll, revokeOne,
   mfaSetup, mfaEnable, mfaVerify, mfaDisable, mfaLogin, verifyForgot, resetConfirm,
   verifyToken, magicSend, magicRedeem, authorize, tokenExchange, registerClient, scimList,
   scimGet, scimCreate, scimPatch, webhookList, webhookCreate, webhookTest, teamList,
   teamCreate, teamMembers, subscribe, entitlements, graphql, usersMe, ping, wellKnown, health,
   preflight, stats, listTenants, createTenant, getTenant, updateTenant, getUser, userRoles,
   userPermissions, patchUser, deleteUser, listRoles, patchRole, listPermissions, canDo,
   listClients, createClient, disableClient, patchClient, adminSessions, revokeSession,
   auditTrail, listKeys, createKey, revokeKey, listWebhooks, addWebhook, testWebhook, breaches,
   getSettings, patchSettings, subscriptions}

Served == IF Every THEN All ELSE Mixed

Limited(rt) == IF rt.limit = "none" THEN <<>> ELSE <<"limit">>

\* Mutant: the router is mounted ahead of its guards.
Unguarded(rt) == <<"json", "cors">> \o Limited(rt) \o rt.steps

\* What a request goes through, in the order in which the server wires it.
Chain(rt) == <<"json", "cors">> \o rt.mount \o Limited(rt) \o rt.steps

-----------------------------------------------------------------------------

Types == {"register", "login", "refresh", "otp", "api", "mfa"}
Scopes == {"ip", "client", "user", "admin", "service"}

\* A token that does not verify is as good as none; a user and an administrator have an
\* account, a service has a token of its own and a key is no token.
Account == {"user", "admin"}
Tokens == Account \cup {"none", "service", "key"}

\* What a request brings along.
Anything == [token : Tokens, csrf : BOOLEAN, foreign : BOOLEAN]
Proper == {[token |-> "admin", csrf |-> TRUE, foreign |-> FALSE]}
Asked == IF Every THEN Anything ELSE Proper

None == [t \in Types |-> [s \in Scopes |-> 0]]

Init ==
  /\ route = [r \in Req |-> health]
  /\ brings = [r \in Req |-> [token |-> "none", csrf |-> FALSE, foreign |-> FALSE]]
  /\ todo = [r \in Req |-> <<>>] /\ identity = [r \in Req |-> "none"]
  /\ status = [r \in Req |-> 0] /\ did = [r \in Req |-> 0] /\ logged = [r \in Req |-> FALSE]
  /\ good = TRUE /\ seen = [r \in Req |-> {}]
  /\ used = None /\ passed = None /\ open = None

\* What the account state would say of a token, and what is known without asking it.
Accepted == {"service"} \cup (IF good THEN Account ELSE {})

Verdict(rt, t) ==
  IF t \in (IF rt.mount = KeyMount THEN {"key"} ELSE Accepted) THEN "accepted" ELSE "refused"

Arrive(r, rt, b) ==
  /\ todo[r] = <<>> /\ status[r] = 0
  /\ route' = [route EXCEPT ![r] = rt] /\ brings' = [brings EXCEPT ![r] = b]
  /\ todo' = [todo EXCEPT ![r] = Chain(rt)]
  /\ seen' = [seen EXCEPT ![r] = {Verdict(rt, b.token)}]
  /\ UNCHANGED <<identity, status, did, logged, good, limitVars>>

\* The account is disabled, deleted, given another version, or enabled again.
Concerned(r) == todo[r] # <<>> /\ brings[r].token \in Account /\ route[r].mount # KeyMount

AccountChanges ==
  /\ \E r \in Req : Concerned(r)
  /\ good' = ~good
  /\ seen' = [r \in Req |-> IF Concerned(r) THEN {"accepted", "refused"} ELSE seen[r]]
  /\ UNCHANGED <<route, brings, todo, identity, status, did, logged, limitVars>>

-----------------------------------------------------------------------------
(* Steps *)

At(r, step) == status[r] = 0 /\ todo[r] # <<>> /\ Head(todo[r]) = step

Pass(r) == todo' = [todo EXCEPT ![r] = Tail(@)] /\ UNCHANGED status

\* next(err), a rejected handler and fail() all end in an answer.
Answer(r, n) == status' = [status EXCEPT ![r] = n] /\ todo' = [todo EXCEPT ![r] = <<>>]

\* Mutant: the rejection of an async handler is nobody's.
Unhandled(r, n) == UNCHANGED status /\ todo' = [todo EXCEPT ![r] = <<>>]

\* The error handler at the end of the application.
Reject(r, n) == Answer(r, n)

Json(r) ==
  /\ At(r, "json")
  /\ Pass(r) \/ Reject(r, 400)
  /\ UNCHANGED <<requestVars, identity, did, logged, limitVars>>

Cors(r) ==
  /\ At(r, "cors")
  /\ CASE route[r].scope = "options" -> Answer(r, 204)
       [] brings[r].foreign /\ route[r].scope \notin {"public", "options"} -> Reject(r, 403)
       [] OTHER -> Pass(r)
  /\ UNCHANGED <<requestVars, identity, did, logged, limitVars>>

\* Mutant: an account that cannot be checked is an account that is not there.
CannotTell(r) == Pass(r)

\* The outage is passed on as such.
CannotCheck(r) == Reject(r, 503)

Authenticate(r) ==
  /\ At(r, "authenticate")
  /\ \/ brings[r].token \in Account /\ CannotCheck(r) /\ UNCHANGED identity
     \/ /\ Pass(r)
        /\ identity' = IF brings[r].token \in Accepted
                       THEN [identity EXCEPT ![r] = brings[r].token] ELSE identity
  /\ UNCHANGED <<requestVars, did, logged, limitVars>>

\* A key that cannot be looked up counts as none.
AuthenticateApiKey(r) ==
  /\ At(r, "key")
  /\ Pass(r)
  /\ \/ brings[r].token = "key" /\ identity' = [identity EXCEPT ![r] = "key"]
     \/ UNCHANGED identity
  /\ UNCHANGED <<requestVars, did, logged, limitVars>>

RequireAuth(r) ==
  /\ At(r, "auth") \/ At(r, "own")
  /\ IF identity[r] = "none" THEN Reject(r, 401) ELSE Pass(r)
  /\ UNCHANGED <<requestVars, identity, did, logged, limitVars>>

\* The roles are those of the token.
RequireRole(r) ==
  /\ At(r, "admin")
  /\ IF identity[r] = "admin" THEN Pass(r) ELSE Reject(r, 403)
  /\ UNCHANGED <<requestVars, identity, did, logged, limitVars>>

Csrf(r) ==
  /\ At(r, "csrf")
  /\ IF route[r].safe \/ brings[r].csrf THEN Pass(r) ELSE Reject(r, 403)
  /\ UNCHANGED <<requestVars, identity, did, logged, limitVars>>

\* Routes of one type share their budget; byUser falls back to the address.
ScopeOf(r) ==
  CASE route[r].scope = "user" /\ identity[r] # "none" -> identity[r]
    [] route[r].scope = "client" -> "client"
    [] OTHER -> "ip"

\* Mutant: the request that reaches the limit is let through as well.
OneTooMany(n) == n <= Limit

\* consume counts first and then compares.
Allowed(n) == n < Limit

RateLimit(r) ==
  /\ At(r, "limit")
  /\ LET t == route[r].limit
         s == ScopeOf(r)
     IN \/ /\ used' = [used EXCEPT ![t][s] = @ + 1]
           /\ IF Allowed(used[t][s])
              THEN Pass(r) /\ passed' = [passed EXCEPT ![t][s] = @ + 1]
              ELSE Answer(r, 429) /\ UNCHANGED passed
           /\ UNCHANGED open
        \/ /\ Pass(r)
           /\ passed' = [passed EXCEPT ![t][s] = @ + 1]
           /\ open' = [open EXCEPT ![t][s] = @ + 1]
           /\ UNCHANGED used
  /\ UNCHANGED <<requestVars, identity, did, logged>>

Body(r) ==
  /\ At(r, "body")
  /\ Pass(r) \/ Reject(r, 400)
  /\ UNCHANGED <<requestVars, identity, did, logged, limitVars>>

\* A read: it may find nothing, and the store may fail.
Find(r) ==
  /\ At(r, "find")
  /\ Pass(r) \/ Reject(r, 404) \/ Reject(r, 500)
  /\ UNCHANGED <<requestVars, identity, did, logged, limitVars>>

Changed(r) == did' = [did EXCEPT ![r] = @ + 1]

\* Mutant: what was refused has been written all the same.
WrittenFirst(r) == Reject(r, 404) /\ Changed(r)

\* The filter matches nothing, the value is taken, or the engine refuses.
Refused(r) == Reject(r, 404) /\ UNCHANGED did

Write(r) ==
  /\ At(r, "write")
  /\ \/ Pass(r) /\ Changed(r)
     \/ Refused(r)
     \/ Reject(r, 500) /\ (Changed(r) \/ UNCHANGED did)
  /\ UNCHANGED <<requestVars, identity, logged, limitVars>>

More(r) ==
  /\ At(r, "more")
  /\ \/ Pass(r) /\ Changed(r)
     \/ Reject(r, 500) /\ (Changed(r) \/ UNCHANGED did)
  /\ UNCHANGED <<requestVars, identity, logged, limitVars>>

\* Roles are assigned by name after the fields were written; an unknown name is refused.
Roles(r) ==
  /\ At(r, "roles")
  /\ \/ Pass(r) /\ (Changed(r) \/ UNCHANGED did)
     \/ Reject(r, 403) /\ UNCHANGED did
     \/ Reject(r, 500) /\ (Changed(r) \/ UNCHANGED did)
  /\ UNCHANGED <<requestVars, identity, logged, limitVars>>

Log(r) ==
  /\ At(r, "log")
  /\ \/ Pass(r) /\ logged' = [logged EXCEPT ![r] = TRUE]
     \/ Reject(r, 500) /\ UNCHANGED logged
  /\ UNCHANGED <<requestVars, identity, did, limitVars>>

Done(r) ==
  /\ At(r, "answer")
  /\ Answer(r, 200) \/ Reject(r, 500) \/ (route[r] = health /\ Answer(r, 503))
  /\ UNCHANGED <<requestVars, identity, did, logged, limitVars>>

Step(r) ==
  \/ Json(r) \/ Cors(r) \/ Authenticate(r) \/ AuthenticateApiKey(r) \/ RequireAuth(r)
  \/ RequireRole(r) \/ Csrf(r) \/ RateLimit(r) \/ Body(r) \/ Find(r) \/ Write(r) \/ More(r)
  \/ Roles(r) \/ Log(r) \/ Done(r)

Next ==
  \/ \E r \in Req : Step(r)
  \/ \E r \in Req, rt \in Served, b \in Asked : Arrive(r, rt, b)
  \/ AccountChanges

Spec == Init /\ [][Next]_vars

-----------------------------------------------------------------------------
(* Properties *)

TypeOK ==
  /\ \A r \in Req : /\ route[r] \in All /\ brings[r] \in Anything
                    /\ identity[r] \in Tokens /\ did[r] \in 0..3 /\ logged[r] \in BOOLEAN
                    /\ status[r] \in {0, 200, 204, 400, 401, 403, 404, 429, 500, 503}
  /\ good \in BOOLEAN

\* Whatever a handler has changed, it did for a caller whose token was accepted at some
\* moment of the request where it relies on one, for an administrator where it serves
\* them, and never for a page of a foreign origin.
ActsWithReason ==
  \A r \in Req : did[r] > 0 =>
    /\ route[r].needs # "anyone" => "accepted" \in seen[r]
    /\ route[r].needs = "admin" => brings[r].token = "admin"
    /\ ~brings[r].foreign
    /\ route[r].mount \in {AuthMount, MfaMount} => brings[r].csrf

\* A caller is told to sign in only when the token was not acceptable at some moment; an
\* outage is not taken for a refusal, except where keys are looked up.
OutageIsNoRefusal ==
  \A r \in Req : status[r] = 401 => "refused" \in seen[r] \/ route[r] = ping

\* Requests of one type from one scope share one budget, except for those the limiter
\* let through because it failed.
SharedBudget ==
  \A t \in Types, s \in Scopes : passed[t][s] <= Limit + open[t][s]

\* A refusal has changed nothing and left no audit entry, except that roles are looked up
\* when the fields of a user are already written; an entry stands for a change.
RefusalIsClean ==
  \A r \in Req :
    /\ status[r] \in 400..499 /\ route[r] # patchUser => did[r] = 0
    /\ logged[r] => did[r] > 0

\* A request is on its way or answered.
NoneStranded ==
  \A r \in Req : todo[r] = <<>> /\ status[r] = 0 => seen[r] = {}
=============================================================================

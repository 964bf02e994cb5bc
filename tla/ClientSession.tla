--------------------------- MODULE ClientSession ---------------------------
(***************************************************************************)
(* The signed-in state a client keeps: the React provider, the Vue         *)
(* composable, the Angular service, the two consoles and the SDKs.  All    *)
(* follow one pattern and differ in what they do with an answer, which a   *)
(* record per client tells.  Calls overlap, answers come in any order or   *)
(* not at all, the server may have done the work all the same, and a page  *)
(* may be loaded anew at any time.                                         *)
(***************************************************************************)
EXTENDS Naturals, FiniteSets

CONSTANTS
  Call,       \* calls under way at once
  MaxLogins   \* bound: sessions the server opens

VARIABLES
  client,     \* the record of the client at work
  view,       \* "loading", "in" or "out": what the client shows
  store,      \* whether a user or token is kept for the next page load
  cred,       \* session whose cookie or token the next call carries, 0 for none
  live,       \* sessions the server accepts
  expired,    \* live sessions whose access token has run out
  opened,     \* sessions opened so far
  killed,     \* sessions whose end the client does not note: ended elsewhere, or by an SDK
  kind,       \* kind[c]: what call c is, "idle" when it is not under way
  with,       \* with[c]: the session it carries
  answer,     \* answer[c]: "none" until the server has answered, or the answer
  passed,     \* calls under way that an answer which changed the view has passed by
  assumed,    \* whether the view rests on something else than an answer in order
  stranded,   \* whether an error has escaped from the start of a page
  left        \* whether a logout was the last to change the view

vars == <<client, view, store, cred, live, expired, opened, killed, kind, with, answer,
          passed, assumed, stranded, left>>

-----------------------------------------------------------------------------
(* The clients: page says whether it starts with a page load, refreshes that *)
(* a refused start tries a refresh, offline that a failed one trusts the     *)
(* store, drops that a failed one clears it, waits that a login shows        *)
(* "loading", userless what a login without a user (an MFA challenge) leads  *)
(* to, tells that a logout is sent to the server, forgets that it drops the  *)
(* credential, expels that any refusal does, asks that a login is followed   *)
(* by a request for the profile, carries what brings the credential.         *)

React == [page |-> TRUE, refreshes |-> TRUE, offline |-> TRUE, drops |-> TRUE, waits |-> TRUE,
          userless |-> "in", tells |-> TRUE, forgets |-> TRUE, expels |-> FALSE,
          asks |-> FALSE, carries |-> "cookie"]

Vue == [React EXCEPT !.refreshes = FALSE, !.offline = FALSE, !.userless = "out"]

Angular == [Vue EXCEPT !.drops = FALSE, !.waits = FALSE, !.carries = "token"]

AdminConsole == [Angular EXCEPT !.drops = TRUE, !.tells = FALSE, !.expels = TRUE, !.asks = TRUE,
                             !.userless = "stay"]

DeveloperPortal == [AdminConsole EXCEPT !.asks = FALSE]

Go == [page |-> FALSE, refreshes |-> FALSE, offline |-> FALSE, drops |-> FALSE, waits |-> FALSE,
       userless |-> "stay", tells |-> TRUE, forgets |-> FALSE, expels |-> FALSE,
       asks |-> FALSE, carries |-> "token"]

Python == Go

Java == Go

Dotnet == Go

Clients == {React, Vue, Angular, AdminConsole, DeveloperPortal, Go, Python, Java, Dotnet}

-----------------------------------------------------------------------------

Busy == {c \in Call : kind[c] # "idle"}

\* What a fresh page shows: the consoles, React and Vue wait for the start.
Blank == IF client.waits \/ client.expels THEN "loading" ELSE "out"

Init ==
  /\ client \in Clients
  /\ view = "out" /\ store = FALSE /\ cred = 0
  /\ live = {} /\ expired = {} /\ opened = 0 /\ killed = {}
  /\ kind = [c \in Call |-> "idle"] /\ with = [c \in Call |-> 0]
  /\ answer = [c \in Call |-> "none"]
  /\ passed = {} /\ assumed = FALSE /\ stranded = FALSE /\ left = FALSE

\* request(): the call carries the credential of this moment.
Send(c, k) ==
  /\ kind' = [kind EXCEPT ![c] = k]
  /\ with' = [with EXCEPT ![c] = cred]
  /\ answer' = [answer EXCEPT ![c] = "none"]
  /\ passed' = passed \ {c}

Done(c) ==
  /\ kind' = [kind EXCEPT ![c] = "idle"]
  /\ with' = [with EXCEPT ![c] = 0]
  /\ answer' = [answer EXCEPT ![c] = "none"]

\* The view changes: calls under way from before have been passed by.  If c is one
\* of those, what is shown now is assumed.
Show(c, v, sure) ==
  /\ view' = v
  /\ assumed' = (~sure \/ c \in passed)
  /\ passed' = Busy \ {c}
  /\ left' = (v = "out" /\ kind[c] = "logout" /\ c \notin passed)

Stay(c) == passed' = passed \ {c} /\ UNCHANGED <<view, assumed, left>>

-----------------------------------------------------------------------------
(* Calls *)

\* login, register and the SDKs' otpLogin.
Login(c) ==
  /\ kind[c] = "idle"
  /\ Send(c, "login")
  /\ view' = IF client.waits THEN "loading" ELSE view
  /\ UNCHANGED <<client, store, cred, live, expired, opened, killed, assumed, stranded, left>>

\* refreshProfile and every other call that needs the session.
Profile(c) ==
  /\ kind[c] = "idle"
  /\ Send(c, "profile")
  /\ UNCHANGED <<client, view, store, cred, live, expired, opened, killed, assumed, stranded, left>>

\* Mutant: the store is left as it is.
StoreKept(c) ==
  /\ store' = store
  /\ IF client.forgets /\ client.carries = "token" THEN cred' = 0 ELSE UNCHANGED cred

\* What a logout does in the client once the server has been told, or not
\* reached.  The cookie is the host's, which may take it away in its answer.
Forget(c) ==
  IF client.forgets
  THEN store' = FALSE /\ cred' \in IF client.carries = "token" THEN {0}
                                  ELSE IF answer[c] = "ok" THEN {0, cred} ELSE {cred}
  ELSE UNCHANGED <<store, cred>>

LogoutTold(c) ==
  /\ client.tells
  /\ kind[c] = "idle"
  /\ Send(c, "logout")
  /\ UNCHANGED <<client, view, store, cred, live, expired, opened, killed, assumed, stranded, left>>

\* The consoles only forget; the server learns nothing.
LogoutQuiet ==
  /\ ~client.tells
  /\ store' = FALSE /\ cred' = 0 /\ view' = "out"
  /\ passed' = Busy /\ assumed' = FALSE /\ left' = TRUE
  /\ UNCHANGED <<client, live, expired, opened, killed, kind, with, answer, stranded>>

\* A page load: what was in memory is lost, calls under way are given up, and the
\* stored user or token is checked.
Reload(c) ==
  /\ client.page
  /\ passed' = {} /\ stranded' = FALSE /\ assumed' = FALSE
  /\ IF store
     THEN /\ view' = Blank /\ left' = FALSE
          /\ kind' = [x \in Call |-> IF x = c THEN "boot" ELSE "idle"]
          /\ with' = [x \in Call |-> IF x = c THEN cred ELSE 0]
     ELSE /\ view' = "out" /\ UNCHANGED left
          /\ kind' = [x \in Call |-> "idle"] /\ with' = [x \in Call |-> 0]
  /\ answer' = [x \in Call |-> "none"]
  /\ UNCHANGED <<client, store, cred, live, expired, opened, killed>>

-----------------------------------------------------------------------------
(* The server *)

Good(c) == with[c] \in live \ expired

Answer(c, a) == answer' = [answer EXCEPT ![c] = a]

ServeLogin(c) ==
  /\ kind[c] = "login" /\ answer[c] = "none"
  /\ \/ /\ opened < MaxLogins
        /\ opened' = opened + 1 /\ live' = live \cup {opened + 1}
        /\ with' = [with EXCEPT ![c] = opened + 1]
        /\ \E a \in {"ok", "fail"} : Answer(c, a)       \* an answer may be lost
     \/ /\ \E a \in {"challenge", "fail"} : Answer(c, a)
        /\ UNCHANGED <<opened, live, with>>
  /\ UNCHANGED <<client, view, store, cred, expired, killed, kind, passed, assumed, stranded, left>>

Serve(c) ==
  /\ kind[c] \in {"boot", "again", "profile", "me"} /\ answer[c] = "none"
  /\ \/ Answer(c, IF Good(c) THEN "ok" ELSE "refused")
     \/ Answer(c, "fail")
  /\ UNCHANGED <<client, view, store, cred, live, expired, opened, killed, kind, with, passed,
                 assumed, stranded, left>>

ServeRefresh(c) ==
  /\ kind[c] = "refresh" /\ answer[c] = "none"
  /\ IF with[c] \in live
     THEN expired' = expired \ {with[c]} /\ \E a \in {"ok", "fail"} : Answer(c, a)
     ELSE expired' = expired /\ Answer(c, "refused")
  /\ UNCHANGED <<client, view, store, cred, live, opened, killed, kind, with, passed, assumed,
                 stranded, left>>

ServeLogout(c) ==
  /\ kind[c] = "logout" /\ answer[c] = "none"
  /\ \/ live' = live \ {with[c]} /\ expired' = expired \ {with[c]}
     \/ UNCHANGED <<live, expired>>
  /\ \E a \in {"ok", "fail"} : Answer(c, a)
  /\ killed' = IF client.forgets THEN killed ELSE killed \cup ({with[c]} \ {0})
  /\ UNCHANGED <<client, view, store, cred, opened, kind, with, passed, assumed, stranded, left>>

Expire(s) ==
  /\ s \in live \ expired
  /\ expired' = expired \cup {s}
  /\ UNCHANGED <<client, view, store, cred, live, opened, killed, kind, with, answer, passed, assumed, stranded, left>>

\* A revocation that comes from elsewhere.
Kill(s) ==
  /\ s \in live
  /\ live' = live \ {s} /\ expired' = expired \ {s} /\ killed' = killed \cup {s}
  /\ UNCHANGED <<client, view, store, cred, opened, kind, with, answer, passed, assumed, stranded, left>>

-----------------------------------------------------------------------------
(* Answers *)

\* Mutant: the refused user stays on the screen.
ExpelUnseen(c) ==
  /\ client.expels /\ answer[c] = "refused"
  /\ store' = FALSE /\ cred' = 0
  /\ Stay(c) /\ Done(c)
  /\ UNCHANGED <<client, live, expired, opened, killed, stranded>>

\* A refusal in a console: clearAuth and the way to the login page, which is a load.
Expel(c) ==
  /\ client.expels /\ answer[c] = "refused"
  /\ store' = FALSE /\ cred' = 0
  /\ Show(c, "out", TRUE)
  /\ Done(c)
  /\ UNCHANGED <<client, live, expired, opened, killed, stranded>>

\* The console asks for the profile before it shows a user; the others have one.
LoginOk(c) ==
  /\ kind[c] = "login" /\ answer[c] = "ok"
  /\ cred' = with[c] /\ store' = (client.page \/ store)
  /\ IF client.asks
     THEN /\ kind' = [kind EXCEPT ![c] = "me"] /\ answer' = [answer EXCEPT ![c] = "none"]
          /\ UNCHANGED with
          /\ passed' = Busy \ {c} /\ left' = FALSE /\ UNCHANGED <<view, assumed>>
     ELSE Show(c, "in", TRUE) /\ Done(c)
  /\ UNCHANGED <<client, live, expired, opened, killed, stranded>>

LoginChallenge(c) ==
  /\ kind[c] = "login" /\ answer[c] = "challenge"
  /\ IF client.userless # "stay"
     THEN /\ Show(c, client.userless, FALSE) /\ store' = FALSE
          /\ cred' = IF client.carries = "token" THEN 0 ELSE cred
     ELSE Stay(c) /\ UNCHANGED <<store, cred>>
  /\ Done(c)
  /\ UNCHANGED <<client, live, expired, opened, killed, stranded>>

\* Mutant: the page goes on waiting after a failed login.
FailUnseen(c) ==
  /\ kind[c] = "login" /\ answer[c] = "fail"
  /\ Stay(c) /\ Done(c)
  /\ UNCHANGED <<client, store, cred, live, expired, opened, killed, stranded>>

\* A login that fails shows a guest and leaves user and store.
LoginFail(c) ==
  /\ kind[c] = "login" /\ answer[c] = "fail"
  /\ IF client.waits THEN Show(c, "out", FALSE) ELSE Stay(c)
  /\ Done(c)
  /\ UNCHANGED <<client, store, cred, live, expired, opened, killed, stranded>>

ProfileBack(c) ==
  /\ kind[c] \in {"profile", "me"} /\ answer[c] # "none"
  /\ answer[c] = "refused" => ~client.expels
  /\ IF answer[c] = "ok" /\ (client.waits \/ kind[c] = "me")
     THEN Show(c, "in", with[c] = cred) /\ store' = (store \/ client.waits)
     ELSE Stay(c) /\ UNCHANGED store
  /\ Done(c)
  /\ UNCHANGED <<client, cred, live, expired, opened, killed, stranded>>

LogoutBack(c) ==
  /\ kind[c] = "logout" /\ answer[c] # "none"
  /\ Forget(c)
  /\ IF client.forgets THEN Show(c, "out", TRUE) ELSE Stay(c)
  /\ Done(c)
  /\ UNCHANGED <<client, live, expired, opened, killed, stranded>>

BootOk(c) ==
  /\ kind[c] \in {"boot", "again"} /\ answer[c] = "ok"
  /\ Show(c, "in", with[c] = cred)
  /\ store' = (store \/ client.waits)
  /\ Done(c)
  /\ UNCHANGED <<client, cred, live, expired, opened, killed, stranded>>

BootRefresh(c) ==
  /\ kind[c] = "boot" /\ answer[c] = "refused" /\ client.refreshes
  /\ kind' = [kind EXCEPT ![c] = "refresh"] /\ answer' = [answer EXCEPT ![c] = "none"]
  /\ with' = [with EXCEPT ![c] = cred]
  /\ UNCHANGED <<client, view, store, cred, live, expired, opened, killed, passed, assumed, stranded, left>>

BootAgain(c) ==
  /\ kind[c] = "refresh" /\ answer[c] = "ok"
  /\ kind' = [kind EXCEPT ![c] = "again"] /\ answer' = [answer EXCEPT ![c] = "none"]
  /\ with' = [with EXCEPT ![c] = cred]
  /\ UNCHANGED <<client, view, store, cred, live, expired, opened, killed, passed, assumed, stranded, left>>

\* No answer, but not a refusal either: the stored user is trusted.
BootOffline(c) ==
  /\ kind[c] = "boot" /\ answer[c] = "fail" /\ client.offline
  /\ Show(c, "in", FALSE)
  /\ Done(c)
  /\ UNCHANGED <<client, store, cred, live, expired, opened, killed, stranded>>

\* The second request is made inside the handler of the first: its error escapes.
BootEscape(c) ==
  /\ kind[c] = "again" /\ answer[c] \in {"fail", "refused"}
  /\ stranded' = TRUE
  /\ Stay(c)
  /\ Done(c)
  /\ UNCHANGED <<client, store, cred, live, expired, opened, killed>>

BootOut(c) ==
  /\ \/ kind[c] = "boot" /\ answer[c] = "refused" /\ ~client.refreshes /\ ~client.expels
     \/ kind[c] = "boot" /\ answer[c] = "fail" /\ ~client.offline
     \/ kind[c] = "refresh" /\ answer[c] \in {"fail", "refused"}
  /\ Show(c, "out", TRUE)
  /\ store' = (store /\ ~client.drops)
  /\ cred' = IF client.drops /\ client.carries = "token" THEN 0 ELSE cred
  /\ Done(c)
  /\ UNCHANGED <<client, live, expired, opened, killed, stranded>>

Boot(c) == BootOk(c) \/ BootRefresh(c) \/ BootAgain(c) \/ BootOffline(c) \/ BootEscape(c) \/ BootOut(c)

Next ==
  \/ LogoutQuiet
  \/ \E s \in 1..MaxLogins : Expire(s) \/ Kill(s)
  \/ \E c \in Call :
       \/ Login(c) \/ Profile(c) \/ LogoutTold(c) \/ Reload(c)
       \/ ServeLogin(c) \/ Serve(c) \/ ServeRefresh(c) \/ ServeLogout(c)
       \/ Expel(c) \/ LoginOk(c) \/ LoginChallenge(c) \/ LoginFail(c)
       \/ ProfileBack(c) \/ LogoutBack(c) \/ Boot(c)

Spec == Init /\ [][Next]_vars

-----------------------------------------------------------------------------
(* Properties *)

TypeOK ==
  /\ client \in Clients
  /\ view \in {"loading", "in", "out"}
  /\ store \in BOOLEAN /\ assumed \in BOOLEAN /\ stranded \in BOOLEAN /\ left \in BOOLEAN
  /\ cred \in 0..MaxLogins /\ opened \in 0..MaxLogins
  /\ expired \subseteq live /\ live \cup killed \subseteq 1..MaxLogins
  /\ kind \in [Call -> {"idle", "login", "profile", "logout", "boot", "refresh", "again", "me"}]
  /\ with \in [Call -> 0..MaxLogins]
  /\ passed \subseteq Call

\* A client that shows a user, and has not been overtaken by a late answer, left
\* offline or answered without a user, holds a session the server accepts, or one
\* that ended elsewhere.
SignedInIsLive ==
  /\ view = "in" /\ ~assumed
  /\ \A c \in Busy : kind[c] \notin {"logout", "login"} /\ c \notin passed
  => cred \in live \cup killed

\* After a logout a page load finds nothing to start from, unless an answer to an
\* older call came in later.
SignedOutForgets == left => view # "in" /\ ~store

\* A client shows "loading" only while something is under way that ends it.
LoadingHasCause ==
  view = "loading" => stranded \/ \E c \in Call : kind[c] \in {"boot", "refresh", "again", "login"}
=============================================================================

---------------------------- MODULE ConsolePages ----------------------------
(***************************************************************************)
(* The pages of the admin console and the developer portal.  A page loads  *)
(* rows for a query (a filter, an offset or the id in its address), acts   *)
(* on a row and loads again, or submits a form.  Answers come in any order *)
(* and may be lost after the server did the work.  What a page allows      *)
(* while something is under way differs: a record per page tells.          *)
(***************************************************************************)
EXTENDS Naturals

CONSTANTS
  Call,        \* calls under way at once
  Query,       \* what can be asked for
  MaxChanges,  \* bound: changes made on the server
  MaxCalls     \* bound: calls of one visit

VARIABLES
  page,        \* the record of the page at work
  query,       \* the query its controls show
  shown,       \* [query, version] of the rows it shows, version 0 for none yet
  loading, saving, error,
  result,      \* version of the change whose result a form shows, 0 for none
  version,     \* changes made on the server, counted from 1
  call,        \* call[c]: [kind, query, version, answer, turn] or Idle
  turn,        \* calls made so far
  newest,      \* turn of the newest load that has been answered
  crossed      \* whether an older load was answered after a newer one

vars == <<page, query, shown, loading, saving, error, result, version, call, turn, newest, crossed>>

-----------------------------------------------------------------------------
(* The pages: loads says that it starts with a load, asks that controls      *)
(* change the query, acts that rows have actions, hides that rows and their  *)
(* actions are gone while it loads, again when a button loads once more,     *)
(* resets that a load clears the error and shows the spinner, form what      *)
(* guards its submit button, after what follows a submit that worked.        *)

Report == [loads |-> TRUE, asks |-> FALSE, acts |-> FALSE, hides |-> TRUE, again |-> "never",
           resets |-> TRUE, form |-> "none", after |-> "stay"]

Listing == [Report EXCEPT !.acts = TRUE]

Form == [Report EXCEPT !.loads = FALSE, !.form = "guarded", !.after = "leave"]

UsersList == [Report EXCEPT !.asks = TRUE, !.again = "always"]

UsersDetails == [Report EXCEPT !.asks = TRUE, !.acts = TRUE, !.hides = FALSE]

UsersEdit == [Form EXCEPT !.loads = TRUE, !.asks = TRUE]

\* The role names it offers come in when they come; nothing waits for them.
UserForm == Form

UsersCreate == UserForm

RolesList == [Listing EXCEPT !.form = "open", !.after = "reload"]

SessionsList == [Listing EXCEPT !.asks = TRUE]

TenantsList == Listing

TenantForm == Form

ClientsList == Listing

ClientForm == Form

ClientsCreate == [Form EXCEPT !.after = "result"]

AuditLogs == [Report EXCEPT !.asks = TRUE]

Breaches == Report

Risk == Report

SubscriptionsList == Report

Settings == [Form EXCEPT !.loads = TRUE, !.after = "stay"]

AdminDashboard == [Report EXCEPT !.again = "failed"]

AdminLogin == Form

PortalLogin == Form

PortalDashboard == Report

WebhooksList == [Report EXCEPT !.hides = FALSE, !.again = "settled"]

WebhooksCreate == [Form EXCEPT !.after = "result"]

ApiKeysCreate == [Form EXCEPT !.after = "result"]

KeyManager == [Listing EXCEPT !.hides = FALSE, !.again = "settled"]

Analytics == [Report EXCEPT !.hides = FALSE, !.again = "settled", !.resets = FALSE]

Profile == [Listing EXCEPT !.hides = FALSE, !.resets = FALSE]

WebhookTester == [Form EXCEPT !.after = "result"]

ApiExplorer == [Form EXCEPT !.after = "result"]

Pages == {UsersList, UsersDetails, UsersEdit, UsersCreate, UserForm, RolesList, SessionsList,
          TenantsList, TenantForm, ClientsList, ClientForm, ClientsCreate, AuditLogs, Breaches,
          Risk, SubscriptionsList, Settings, AdminDashboard, AdminLogin, PortalLogin,
          PortalDashboard, WebhooksList, WebhooksCreate, ApiKeysCreate, KeyManager, Analytics,
          Profile, WebhookTester, ApiExplorer}

-----------------------------------------------------------------------------

Idle == [kind |-> "idle", query |-> CHOOSE q \in Query : TRUE, version |-> 0, answer |-> "none", turn |-> 0]

Free(c) == call[c] = Idle /\ turn < MaxCalls

Made(k, q) == [kind |-> k, query |-> q, version |-> 0, answer |-> "none", turn |-> turn + 1]

Under(k) == {c \in Call : call[c].kind = k}

\* Mounting the page starts its load.
Init ==
  /\ page \in Pages /\ query \in Query
  /\ shown = [query |-> query, version |-> 0]
  /\ loading = page.loads /\ saving = FALSE /\ error = FALSE /\ result = 0 /\ version = 1
  /\ \E c \in Call :
       call = [x \in Call |-> IF x = c /\ page.loads
                             THEN [Idle EXCEPT !.kind = "load", !.query = query, !.turn = 1]
                             ELSE Idle]
  /\ turn = 1 /\ newest = 0 /\ crossed = FALSE

\* load(): the query it was called with; state of a page that has not rendered yet
\* is not seen.
Load(c, q) ==
  /\ call' = [call EXCEPT ![c] = Made("load", q)]
  /\ turn' = turn + 1
  /\ IF page.resets THEN loading' = TRUE /\ error' = FALSE ELSE UNCHANGED <<loading, error>>

\* A filter, an offset or another id in the address.
Ask(c, q) ==
  /\ page.asks /\ Free(c) /\ q # query
  /\ query' = q
  /\ Load(c, q)
  /\ UNCHANGED <<page, shown, saving, result, version, newest, crossed>>

Again(c) ==
  /\ Free(c)
  /\ \/ page.again = "always"
     \/ page.again = "settled" /\ ~loading
     \/ page.again = "failed" /\ error
  /\ Load(c, query)
  /\ UNCHANGED <<page, query, shown, saving, result, version, newest, crossed>>

\* A button of a row.
Act(c) ==
  /\ page.acts /\ Free(c) /\ shown.version > 0
  /\ page.hides => ~loading
  /\ call' = [call EXCEPT ![c] = Made("act", query)]
  /\ turn' = turn + 1
  /\ UNCHANGED <<page, query, shown, loading, saving, error, result, version, newest, crossed>>

\* Mutant: the button can be pressed while a submit is under way.
NeverGuarded == page.form \in {"guarded", "open"}

\* The submit button is disabled while saving, or only while the name is empty.
CanSubmit == page.form = "open" \/ (page.form = "guarded" /\ ~saving)

Submit(c) ==
  /\ Free(c) /\ CanSubmit
  /\ page.loads /\ page.hides /\ page.form = "guarded" => ~loading
  /\ saving' = (page.form = "guarded") /\ error' = FALSE /\ result' = 0
  /\ call' = [call EXCEPT ![c] = Made("submit", query)]
  /\ turn' = turn + 1
  /\ UNCHANGED <<page, query, shown, loading, version, newest, crossed>>

-----------------------------------------------------------------------------
(* The server *)

Serve(c) ==
  /\ call[c].kind = "load" /\ call[c].answer = "none"
  /\ \E a \in {"ok", "fail"} : call' = [call EXCEPT ![c].answer = a, ![c].version = version]
  /\ UNCHANGED <<page, query, shown, loading, saving, error, result, version, turn, newest, crossed>>

Change(c) ==
  /\ call[c].kind \in {"act", "submit"} /\ call[c].answer = "none"
  /\ \/ /\ version < MaxChanges
        /\ version' = version + 1
        /\ \E a \in {"ok", "fail"} : call' = [call EXCEPT ![c].answer = a, ![c].version = version + 1]
     \/ /\ call' = [call EXCEPT ![c].answer = "fail"]
        /\ UNCHANGED version
  /\ UNCHANGED <<page, query, shown, loading, saving, error, result, turn, newest, crossed>>

-----------------------------------------------------------------------------
(* Answers *)

\* Mutant: only a load that worked ends the spinner.
OnSuccessOnly(c) == loading' = (loading /\ call[c].answer = "fail")

\* finally { setLoading(false) }, whichever load it was.
SpinnerOff(c) == loading' = FALSE

Loaded(c) ==
  /\ call[c].kind = "load" /\ call[c].answer # "none"
  /\ IF call[c].answer = "ok"
     THEN shown' = [query |-> call[c].query, version |-> call[c].version] /\ UNCHANGED error
     ELSE error' = TRUE /\ UNCHANGED shown
  /\ SpinnerOff(c)
  /\ crossed' = (crossed \/ call[c].turn < newest)
  /\ newest' = IF call[c].turn > newest THEN call[c].turn ELSE newest
  /\ call' = [call EXCEPT ![c] = Idle]
  /\ UNCHANGED <<page, query, saving, result, version, turn>>

\* Mutant: the page trusts its own rows after a change.
NoReload(c) ==
  /\ call' = [call EXCEPT ![c] = Idle]
  /\ UNCHANGED <<turn, loading, error>>

\* A change that worked is followed by load(), with the query of the moment.
Reload(c) == Load(c, query)

Acted(c) ==
  /\ call[c].kind = "act" /\ call[c].answer # "none"
  /\ IF call[c].answer = "ok"
     THEN Reload(c)
     ELSE error' = TRUE /\ call' = [call EXCEPT ![c] = Idle] /\ UNCHANGED <<turn, loading>>
  /\ UNCHANGED <<page, query, shown, saving, result, version, newest, crossed>>

Submitted(c) ==
  /\ call[c].kind = "submit" /\ call[c].answer # "none"
  /\ saving' = FALSE
  /\ IF call[c].answer = "ok"
     THEN /\ result' = IF page.after = "result" THEN call[c].version ELSE result
          /\ IF page.after = "reload" THEN Reload(c)
             ELSE call' = [call EXCEPT ![c] = Idle] /\ UNCHANGED <<turn, loading, error>>
     ELSE /\ error' = TRUE /\ call' = [call EXCEPT ![c] = Idle]
          /\ UNCHANGED <<turn, loading, result>>
  /\ UNCHANGED <<page, query, shown, version, newest, crossed>>

Next ==
  \E c \in Call :
    \/ \E q \in Query : Ask(c, q)
    \/ Again(c) \/ Act(c) \/ Submit(c) \/ Serve(c) \/ Change(c)
    \/ Loaded(c) \/ Acted(c) \/ Submitted(c)

Spec == Init /\ [][Next]_vars

-----------------------------------------------------------------------------
(* Properties *)

TypeOK ==
  /\ page \in Pages /\ query \in Query /\ shown.query \in Query
  /\ loading \in BOOLEAN /\ saving \in BOOLEAN /\ error \in BOOLEAN /\ crossed \in BOOLEAN
  /\ version \in 1..MaxChanges /\ result \in 0..MaxChanges /\ newest \in 0..turn

\* Once everything has been answered, no error is shown and no answer was overtaken,
\* a page with row actions shows what the server has, for the query its controls show.
ShowsTheTruth ==
  {c \in Call : call[c] # Idle} = {} /\ ~error /\ ~crossed /\ page.form # "guarded"
    => shown = [query |-> query, version |-> version]

\* The spinner stands for a load that is under way.
SpinnerHasCause == loading => Under("load") # {}

\* A guarded form has one submit under way at most, and the result it shows is that of
\* the newest change it made.
OneSubmit ==
  page.form = "guarded" =>
    /\ \A c, d \in Under("submit") : c = d
    /\ saving = (Under("submit") # {})
    /\ result # 0 => result = version
=============================================================================

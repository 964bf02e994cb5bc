---------------------------- MODULE OAuthGrants ----------------------------
(***************************************************************************)
(* OAuth clients and the grants they use: registration, changes by the     *)
(* administrators and secret rotation, against requests that read the      *)
(* client, wait, and mint tokens.  Two token endpoints: the core service's *)
(* (the refresh_token and client_credentials grants) and the OAuth         *)
(* package's engine (authorization codes with PKCE, client_credentials).   *)
(***************************************************************************)
EXTENDS Naturals

CONSTANTS
  Request,     \* token requests under way
  Code,        \* authorization codes of the package's engine
  Scope,       \* scopes a client may have
  Uri,         \* redirect URIs
  Uses,        \* the grants that are used
  MaxChanges,  \* bound: changes of the client
  MaxBegun     \* bound: requests begun

VARIABLES
  client,   \* the client as it is stored
  code,     \* code[d]: the record of an authorization code
  req,      \* req[r]: the request that r is working on
  changes, begun,
  grantOf   \* grantOf[d]: token sets minted for the code

vars == <<client, code, req, changes, begun, grantOf>>

Grants == {"authorization_code", "refresh_token", "client_credentials"}

Absent == [there |-> FALSE, active |-> FALSE, confidential |-> FALSE, secret |-> 0,
           grants |-> {}, scopes |-> {}, uris |-> {}]

NoCode == [state |-> "none", uri |-> CHOOSE u \in Uri : TRUE, pkce |-> "no"]

\* barred: since the request began the client was never one that may be served with this
\* secret; offered: the scopes the client had since then.
Idle == [pc |-> "idle", grant |-> "none", secret |-> 0, scope |-> {}, uri |-> NoCode.uri,
         code |-> 0, proof |-> FALSE, barred |-> FALSE, offered |-> {}, late |-> FALSE]

Init ==
  /\ client = Absent /\ code = [d \in Code |-> NoCode] /\ req = [r \in Request |-> Idle]
  /\ changes = 0 /\ begun = 0 /\ grantOf = [d \in Code |-> 0]

-----------------------------------------------------------------------------
(* Clients *)

\* Mutant: a disabled client is served.
KnownWithSecret(secret) == client.there /\ (client.confidential => secret = client.secret)

\* A client that is there and active, with its secret unless it is a public one.
Authenticates(secret) ==
  client.there /\ client.active /\ (client.confidential => secret = client.secret)

\* What barred is about.
Servable(c, secret) == c.there /\ c.active /\ (c.confidential => secret = c.secret)

\* A change of the client; the requests under way may see the client before or after it.
Change(new) ==
  /\ changes < MaxChanges /\ changes' = changes + 1
  /\ client' = new
  /\ req' = [r \in Request |->
       [req[r] EXCEPT
          !.barred = @ /\ ~Servable(new, req[r].secret),
          !.offered = IF req[r].pc \in {"idle", "done"} THEN @ ELSE @ \cup new.scopes]]
  /\ UNCHANGED <<code, begun, grantOf>>

\* registerClient: a public client has no secret.
Register ==
  /\ ~client.there
  /\ \E confidential \in BOOLEAN, scopes \in SUBSET Scope,
        grants \in {Grants, {"authorization_code", "refresh_token"}} :
       Change([there |-> TRUE, active |-> TRUE, confidential |-> confidential,
               secret |-> IF confidential THEN 1 ELSE 0, grants |-> grants,
               scopes |-> scopes, uris |-> Uri])

\* setActive, and the admin routes that disable or enable.
SetActive == client.there /\ Change([client EXCEPT !.active = ~@])

\* PATCH of the redirect URIs or the scopes.
Patch ==
  /\ client.there
  /\ \/ \E s \in SUBSET Scope : s # client.scopes /\ Change([client EXCEPT !.scopes = s])
     \/ \E u \in Uri : Change([client EXCEPT !.uris = {u}])

\* rotateSecret finds only confidential clients.
RotateSecret ==
  client.there /\ client.confidential /\ Change([client EXCEPT !.secret = @ + 1])

Remove == client.there /\ Change(Absent)

-----------------------------------------------------------------------------
(* Authorization codes of the package's engine *)

\* issueCode; a challenge without a method is stored as it is.
IssueCode(d, u, pkce) ==
  /\ code[d].state = "none"
  /\ client.there /\ client.active /\ u \in client.uris
  /\ code' = [code EXCEPT ![d] = [state |-> "live", uri |-> u, pkce |-> pkce]]
  /\ UNCHANGED <<client, req, changes, begun, grantOf>>

\* The time of a code is over.
Expire(d) ==
  /\ code[d].state = "live"
  /\ code' = [code EXCEPT ![d].state = "expired"]
  /\ req' = [r \in Request |->
       [req[r] EXCEPT !.late = @ \/ (req[r].code = d /\ req[r].pc = "client")]]
  /\ UNCHANGED <<client, changes, begun, grantOf>>

-----------------------------------------------------------------------------
(* Requests *)

Begin(r, k) ==
  /\ req[r].pc = "idle" /\ k.grant \in Uses /\ begun < MaxBegun /\ begun' = begun + 1
  /\ req' = [req EXCEPT ![r] =
       [k EXCEPT !.pc = "client", !.barred = ~Servable(client, k.secret),
                 !.offered = client.scopes,
                 !.late = k.code # 0 /\ code[k.code].state = "expired"]]
  /\ UNCHANGED <<client, code, changes, grantOf>>

To(r, pc) == req' = [req EXCEPT ![r].pc = pc]

\* Mutant: what the client asks for is what it gets.
AsAsked(k) == "client_credentials" \in client.grants

\* The client_credentials grant of the core service: the grant and registered scopes only.
MayServe(k) == "client_credentials" \in client.grants /\ k.scope \subseteq client.scopes

\* The core endpoint reads the client and authenticates it; client_credentials mints at
\* once, refresh_token goes on to the session.
ReadClient(r) ==
  LET k == req[r] IN
  /\ k.pc = "client" /\ k.grant \in {"service", "refresh"}
  /\ \/ To(r, "refused")
     \/ /\ Authenticates(k.secret)
        /\ \/ k.grant = "service" /\ MayServe(k) /\ To(r, "minted")
           \/ k.grant = "refresh" /\ "refresh_token" \in client.grants /\ To(r, "session")
  /\ UNCHANGED <<client, code, changes, begun, grantOf>>

\* So does the engine, which knows no grants and no scopes: service tokens are for
\* confidential clients, and a code needs a registered redirect URI.
requireActiveClient(r) ==
  LET k == req[r] IN
  /\ k.pc = "client" /\ k.grant \in {"engine service", "code"}
  /\ \/ To(r, "refused")
     \/ /\ Authenticates(k.secret)
        /\ \/ k.grant = "engine service" /\ client.confidential /\ To(r, "issue")
           \/ k.grant = "code" /\ k.uri \in client.uris /\ To(r, "find")
  /\ UNCHANGED <<client, code, changes, begun, grantOf>>

\* SessionService.refresh, which may refuse; then the token is signed.
Refresh(r) ==
  /\ req[r].pc = "session"
  /\ To(r, "refused") \/ To(r, "minted")
  /\ UNCHANGED <<client, code, changes, begun, grantOf>>

\* redeem, first half: a live code.
FindCode(r) ==
  /\ req[r].pc = "find"
  /\ IF code[req[r].code].state = "live" THEN To(r, "consume") ELSE To(r, "refused")
  /\ UNCHANGED <<client, code, changes, begun, grantOf>>

\* Mutant: the code was live a moment ago.
StillLive(d) == code[d].state # "none"

\* The store marks a code that is not marked; whether it has expired is not asked again.
Consumable(d) == code[d].state \in {"live", "expired"}

\* verifyPkce: no method, no match.
Proves(k, rec) == k.uri = rec.uri /\ (rec.pkce = "no" \/ (rec.pkce = "S256" /\ k.proof))

\* redeem, second half: the code is used up, and the redirect URI and the verifier are
\* compared afterwards.
ConsumeCode(r) ==
  LET k == req[r]  rec == code[k.code] IN
  /\ k.pc = "consume"
  /\ IF Consumable(k.code)
     THEN /\ code' = [code EXCEPT ![k.code].state = "consumed"]
          /\ To(r, IF Proves(k, rec) THEN "issue" ELSE "refused")
     ELSE To(r, "refused") /\ UNCHANGED code
  /\ UNCHANGED <<client, changes, begun, grantOf>>

\* issueTokens of the host, which may fail.
Issue(r) ==
  LET k == req[r] IN
  /\ k.pc = "issue"
  /\ \/ To(r, "refused") /\ UNCHANGED grantOf
     \/ /\ To(r, "minted")
        /\ grantOf' = IF k.grant = "code" THEN [grantOf EXCEPT ![k.code] = @ + 1] ELSE grantOf
  /\ UNCHANGED <<client, code, changes, begun>>

Answer(r) ==
  /\ req[r].pc \in {"refused", "minted"}
  /\ req' = [req EXCEPT ![r] = Idle]
  /\ UNCHANGED <<client, code, changes, begun, grantOf>>

\* What a request brings: a secret of some time, and what its grant needs.
Arrive(r) ==
  \E s \in 0 .. MaxChanges :
    \/ \E a \in SUBSET Scope :
         Begin(r, [Idle EXCEPT !.grant = "service", !.secret = s, !.scope = a])
    \/ \E g \in {"engine service", "refresh"} : Begin(r, [Idle EXCEPT !.grant = g, !.secret = s])
    \/ \E d \in Code, u \in Uri, p \in BOOLEAN :
         Begin(r, [Idle EXCEPT !.grant = "code", !.secret = s, !.code = d, !.uri = u, !.proof = p])

Next ==
  \/ Register \/ SetActive \/ Patch \/ RotateSecret \/ Remove
  \/ \E d \in Code :
       Expire(d) \/ \E u \in Uri, pkce \in {"no", "S256", "unnamed"} : IssueCode(d, u, pkce)
  \/ \E r \in Request :
       \/ Arrive(r) \/ ReadClient(r) \/ requireActiveClient(r) \/ Refresh(r)
       \/ FindCode(r) \/ ConsumeCode(r) \/ Issue(r) \/ Answer(r)

Spec == Init /\ [][Next]_vars

-----------------------------------------------------------------------------
(* Properties *)

TypeOK ==
  /\ client.secret \in 0 .. MaxChanges + 1 /\ client.scopes \subseteq Scope
  /\ \A d \in Code : code[d].state \in {"none", "live", "expired", "consumed"}
  /\ \A r \in Request : req[r].offered \subseteq Scope /\ req[r].code \in Code \cup {0}
  /\ begun \in 0 .. MaxBegun

\* Who was shut out stays out: a request that began after its client was disabled or
\* removed, or after its secret was rotated away, mints nothing unless that was taken back
\* (authenticateClientAtTokenEndpoint, requireActiveClient, rotateSecret).
ShutOut == \A r \in Request : req[r].pc = "minted" => ~req[r].barred

\* A service token of the core endpoint has no scope the client never had while the request
\* was under way (exchangeClientCredentials).
ScopesWithin ==
  \A r \in Request :
    req[r].pc = "minted" /\ req[r].grant = "service" => req[r].scope \subseteq req[r].offered

\* However requests for one code overlap, the engine mints one set of tokens for it, and
\* none for a code that was expired when the request began (redeem).
OncePerCode ==
  /\ \A d \in Code : grantOf[d] <= 1
  /\ \A r \in Request : req[r].pc = "minted" => ~req[r].late

\* Tokens for a code go to the request that proved itself: the redirect URI of the code, and
\* the verifier when a challenge was stored (exchangeAuthorizationCode).
ProvenOnly ==
  \A r \in Request :
    req[r].pc = "minted" /\ req[r].grant = "code" =>
      /\ req[r].uri = code[req[r].code].uri
      /\ code[req[r].code].pkce = "no" \/ req[r].proof
=============================================================================

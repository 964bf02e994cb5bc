----------------------------- MODULE OAuthCode ------------------------------
(***************************************************************************)
(* Authorization codes: authorizeCode and exchangeAuthorizationCode of     *)
(* oauth.service.ts.  A presented code is right or wrong in its binding    *)
(* (client, tenant, application, redirect_uri) and in its PKCE verifier.   *)
(***************************************************************************)
EXTENDS Naturals, TLAPS

CONSTANTS
  Code,      \* the pool of authorization codes
  Req        \* concurrent exchanges

ASSUME CodeAssumption == Code # {}

VARIABLES
  state,     \* none | live (consumedAt is null) | consumed | gone
  expired,   \* expiresAt has passed
  revoked,   \* the session the code was issued in was revoked
  pc, held,  \* the frame of an exchange; while there is none, held is some code
  proven,    \* history: codes presented with the right verifier
  granted,   \* history: token sets issued for a code
  stopped    \* history: codes with an exchange that passed the checks and failed

vars == <<state, expired, revoked, pc, held, proven, granted, stopped>>

TypeOK ==
  /\ state \in [Code -> {"none", "live", "consumed", "gone"}]
  /\ expired \in [Code -> BOOLEAN] /\ revoked \subseteq Code
  /\ pc \in [Req -> {"idle", "revoke", "consume", "create"}]
  /\ held \in [Req -> Code]
  /\ proven \subseteq Code /\ granted \in [Code -> Nat] /\ stopped \subseteq Code

AnyCode == CHOOSE c \in Code : TRUE

Init ==
  /\ state = [c \in Code |-> "none"]
  /\ expired = [c \in Code |-> FALSE] /\ revoked = {}
  /\ pc = [r \in Req |-> "idle"] /\ held = [r \in Req |-> AnyCode]
  /\ proven = {} /\ granted = [c \in Code |-> 0] /\ stopped = {}

-----------------------------------------------------------------------------
At(r, l) == pc' = [pc EXCEPT ![r] = l]

\* The exchange is over, with tokens or an error.
Ends(r) == At(r, "idle") /\ held' = [held EXCEPT ![r] = AnyCode]

\* The filter of the update that consumes the code; the mutant has no
\* consumedAt: null.
StillThere(c) == state[c] \in {"live", "consumed"}
Consumable(c) == state[c] = "live"

\* Where an exchange goes after the PKCE check; the mutants consume the code
\* before they look at the verifier, or take every verifier for a wrong one.
ConsumeFirst(ok) == "consume"
RevokeAlways(ok) == "revoke"
AfterPkce(ok) == IF ok THEN "consume" ELSE "revoke"

\* authorizeCode, once its checks have passed.
Authorize(c) ==
  /\ state[c] = "none"
  /\ state' = [state EXCEPT ![c] = "live"]
  /\ UNCHANGED <<expired, revoked, pc, held, proven, granted, stopped>>

\* The code is found unconsumed, unexpired and rightly bound; ok: the verifier.
Exchange(r, c, ok) ==
  /\ pc[r] = "idle"
  /\ state[c] = "live" /\ ~expired[c]
  /\ At(r, AfterPkce(ok))
  /\ held' = [held EXCEPT ![r] = c]
  /\ proven' = IF ok THEN proven \cup {c} ELSE proven
  /\ UNCHANGED <<state, expired, revoked, granted, stopped>>

\* A failed PKCE check revokes the session of the code, not the code.
RevokeSession(r) ==
  /\ pc[r] = "revoke"
  /\ revoked' = revoked \cup {held[r]}
  /\ Ends(r)
  /\ UNCHANGED <<state, expired, proven, granted, stopped>>

Consume(r) ==
  /\ pc[r] = "consume"
  /\ \/ /\ Consumable(held[r])
        /\ state' = [state EXCEPT ![held[r]] = "consumed"]
        /\ At(r, "create") /\ UNCHANGED held
     \/ ~Consumable(held[r]) /\ Ends(r) /\ UNCHANGED state
  /\ UNCHANGED <<expired, revoked, proven, granted, stopped>>

\* sessions.create and the signatures.
CreateSession(r) ==
  /\ pc[r] = "create"
  /\ granted' = [granted EXCEPT ![held[r]] = @ + 1]
  /\ Ends(r)
  /\ UNCHANGED <<state, expired, revoked, proven, stopped>>

Expire(c) ==
  /\ state[c] # "none" /\ ~expired[c]
  /\ expired' = [expired EXCEPT ![c] = TRUE]
  /\ UNCHANGED <<state, revoked, pc, held, proven, granted, stopped>>

\* The TTL index removes an expired code.
TtlDelete(c) ==
  /\ state[c] \in {"live", "consumed"} /\ expired[c]
  /\ state' = [state EXCEPT ![c] = "gone"]
  /\ UNCHANGED <<expired, revoked, pc, held, proven, granted, stopped>>

\* An await rejects or the process dies.
Fail(r) ==
  /\ pc[r] # "idle"
  /\ stopped' = IF pc[r] = "revoke" THEN stopped ELSE stopped \cup {held[r]}
  /\ Ends(r)
  /\ UNCHANGED <<state, expired, revoked, proven, granted>>

Continue(r) == RevokeSession(r) \/ Consume(r) \/ CreateSession(r)

Next ==
  \/ \E r \in Req :
       \/ Continue(r) \/ Fail(r)
       \/ \E c \in Code, ok \in BOOLEAN : Exchange(r, c, ok)
  \/ \E c \in Code : Authorize(c) \/ Expire(c) \/ TtlDelete(c)

Spec == Init /\ [][Next]_vars

\* Promises settle: an exchange under way goes on.
FairSpec == Spec /\ \A r \in Req : WF_vars(Continue(r))

-----------------------------------------------------------------------------
(* Properties *)

\* The code is single-use: it yields one set of tokens, however many exchanges
\* overlap, wherever they stop, and whenever the TTL index removes the code.
OneGrantPerCode == \A c \in Code : granted[c] <= 1

\* Invalid verifiers cannot burn a code.
OnlyProofConsumes == \A c \in Code : state[c] = "consumed" => c \in proven

\* A code that was proven and did not run out yields its tokens: overlapping
\* exchanges never refuse each other all, unless one of them fails.
ProvenIsGranted ==
  \A c \in Code : c \in proven ~> (granted[c] = 1 \/ expired[c] \/ c \in stopped)

-----------------------------------------------------------------------------
(* Proofs: for any number of codes and exchanges, with failures *)

\* The exchange that consumed a code is the only one on its way to tokens for it,
\* and none was granted before.
SingleHolder ==
  /\ \A c \in Code : granted[c] > 0 => state[c] \in {"consumed", "gone"}
  /\ \A r \in Req : pc[r] = "create" =>
       /\ state[held[r]] \in {"consumed", "gone"} /\ granted[held[r]] = 0
       /\ \A q \in Req : pc[q] = "create" /\ held[q] = held[r] => q = r

\* The exchange that goes on to consume a code has proven it.
ProvenFirst == \A r \in Req : pc[r] = "consume" => held[r] \in proven

IInv == TypeOK /\ OneGrantPerCode /\ SingleHolder /\ ProvenFirst /\ OnlyProofConsumes

\* There is a code to hold.
LEMMA AnyCodeIs == AnyCode \in Code
  BY CodeAssumption DEF AnyCode

\* The initial states satisfy the invariant: nothing is stored or under way.
LEMMA InitInv == Init => IInv
  BY AnyCodeIs DEF Init, IInv, TypeOK, OneGrantPerCode, SingleHolder, ProvenFirst, OnlyProofConsumes

\* Every step of authorizeCode, of an exchange and of the TTL index keeps it.
LEMMA StepInv == IInv /\ [Next]_vars => IInv'
<1> SUFFICES ASSUME IInv, [Next]_vars PROVE IInv'
    OBVIOUS
<1> USE DEF IInv, TypeOK, OneGrantPerCode, SingleHolder, ProvenFirst, OnlyProofConsumes
<1>1. CASE UNCHANGED vars
      BY <1>1 DEF vars
<1>2. ASSUME NEW c \in Code, Authorize(c) PROVE IInv'
      BY <1>2 DEF Authorize
<1>3. ASSUME NEW r \in Req, NEW c \in Code, NEW ok \in BOOLEAN, Exchange(r, c, ok)
      PROVE IInv'
      BY <1>3 DEF Exchange, At, AfterPkce
<1>4. ASSUME NEW r \in Req, RevokeSession(r) PROVE IInv'
      BY <1>4, AnyCodeIs DEF RevokeSession, At, Ends
<1>5. ASSUME NEW r \in Req, Consume(r) PROVE IInv'
  <2>1. CASE Consumable(held[r])
    <3>1. state' = [state EXCEPT ![held[r]] = "consumed"] /\ pc' = [pc EXCEPT ![r] = "create"]
          /\ UNCHANGED <<expired, revoked, held, proven, granted, stopped>> /\ pc[r] = "consume"
          /\ state[held[r]] = "live"
          BY <1>5, <2>1 DEF Consume, Consumable, At
    <3>2. granted[held[r]] = 0
          BY <3>1
    <3>3. \A q \in Req : pc[q] = "create" => held[q] # held[r]
          BY <3>1
    <3> QED BY <3>1, <3>2, <3>3
  <2>2. CASE ~Consumable(held[r])
        BY <1>5, <2>2, AnyCodeIs DEF Consume, At, Ends
  <2> QED BY <2>1, <2>2
<1>6. ASSUME NEW r \in Req, CreateSession(r) PROVE IInv'
      BY <1>6, AnyCodeIs DEF CreateSession, At, Ends
<1>7. ASSUME NEW c \in Code, Expire(c) PROVE IInv'
      BY <1>7 DEF Expire
<1>8. ASSUME NEW c \in Code, TtlDelete(c) PROVE IInv'
      BY <1>8 DEF TtlDelete
<1>9. ASSUME NEW r \in Req, Fail(r) PROVE IInv'
      BY <1>9, AnyCodeIs DEF Fail, At, Ends
<1> QED
    BY <1>1, <1>2, <1>3, <1>4, <1>5, <1>6, <1>7, <1>8, <1>9 DEF Next, Continue

\* The invariant holds in every state the service reaches.
LEMMA Invariant == Spec => []IInv
  BY InitInv, StepInv, PTL DEF Spec

\* exchangeAuthorizationCode issues one set of tokens per code.
THEOREM CodeSingleUse == Spec => []OneGrantPerCode
<1>1. IInv => OneGrantPerCode
      BY DEF IInv
<1> QED BY Invariant, <1>1, PTL

\* No exchange with a wrong verifier consumes a code.
THEOREM WrongVerifierBurnsNothing == Spec => []OnlyProofConsumes
<1>1. IInv => OnlyProofConsumes
      BY DEF IInv
<1> QED BY Invariant, <1>1, PTL
=============================================================================

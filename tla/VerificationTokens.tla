------------------------- MODULE VerificationTokens -------------------------
(***************************************************************************)
(* Password-reset, magic-link and email-verification tokens of one user:   *)
(* verificationToken.service.ts and the flows of auth.engine.ts that issue *)
(* and redeem them.  A token is drawn from a pool and never drawn twice    *)
(* (32 random bytes).                                                      *)
(***************************************************************************)
EXTENDS Naturals, FiniteSets

CONSTANTS
  Token,     \* the pool of tokens
  Kind,      \* VerificationTokenKind
  Req        \* concurrent calls

ASSUME ReqAssumption == IsFiniteSet(Req)

VARIABLES
  state,     \* none | live (consumedAt is null) | consumed | gone
  kind,      \* the kind of a token
  local,     \* it belongs to the application (and tenant) that redeems it
  expired,   \* expiresAt has passed
  pc, want, held,   \* the frame of a call: its kind, its token
  granted,   \* history: how often a token was redeemed with success
  dead       \* history: tokens that were replaced by a later issue

tokens == <<state, kind, local, expired>>
frame == <<pc, want, held>>
vars == <<tokens, frame, granted, dead>>

TypeOK ==
  /\ state \in [Token -> {"none", "live", "consumed", "gone"}]
  /\ kind \in [Token -> Kind]
  /\ local \in [Token -> BOOLEAN] /\ expired \in [Token -> BOOLEAN]
  /\ pc \in [Req -> {"idle", "create", "effect"}]
  /\ want \in [Req -> Kind] /\ held \in [Req -> Token]
  /\ granted \in [Token -> Nat] /\ dead \subseteq Token

Init ==
  /\ state = [t \in Token |-> "none"]
  /\ kind \in [Token -> Kind]
  /\ local \in [Token -> BOOLEAN]
  /\ expired = [t \in Token |-> FALSE]
  /\ pc = [r \in Req |-> "idle"]
  /\ want \in [Req -> Kind] /\ held \in [Req -> Token]
  /\ granted = [t \in Token |-> 0] /\ dead = {}

-----------------------------------------------------------------------------
End(r) == pc' = [pc EXCEPT ![r] = "idle"] /\ UNCHANGED <<want, held>>

\* What issue consumes before it creates a token; one mutant forgets to, the
\* other only looks at tokens that have not expired.
Live(k) == {t \in Token : state[t] = "live" /\ kind[t] = k /\ local[t]}
NothingReplaced(k) == {}
UnexpiredReplaced(k) == {t \in Live(k) : ~expired[t]}
Replaced(k) == Live(k)

\* The filter of redeem; the mutant leaves consumedAt out.
Stored(t) == state[t] \in {"live", "consumed"}
Redeemable(t) == state[t] = "live"

\* The checks after the token was consumed, the flow's own kind check included.
Accepted(t, k) == local[t] /\ ~expired[t] /\ kind[t] = k

\* forgotPassword, issueEmailVerification, sendMagicLink: the tokens of this kind
\* are consumed first ...
Issue(r, k) ==
  /\ pc[r] = "idle"
  /\ pc' = [pc EXCEPT ![r] = "create"]
  /\ want' = [want EXCEPT ![r] = k]
  /\ state' = [t \in Token |-> IF t \in Replaced(k) THEN "consumed" ELSE state[t]]
  /\ dead' = dead \cup Live(k)
  /\ UNCHANGED <<kind, local, expired, held, granted>>

\* ... then the new one is stored and sent.
Create(r, t) ==
  /\ pc[r] = "create"
  /\ state[t] = "none" /\ kind[t] = want[r] /\ local[t]
  /\ state' = [state EXCEPT ![t] = "live"]
  /\ End(r)
  /\ UNCHANGED <<kind, local, expired, granted, dead>>

\* Another application on the same database issues a token.
IssueElsewhere(t) ==
  /\ state[t] = "none" /\ ~local[t]
  /\ state' = [state EXCEPT ![t] = "live"]
  /\ UNCHANGED <<kind, local, expired, frame, granted, dead>>

\* redeem: one atomic update consumes the token, whatever the checks say then.
Redeem(r, t, k) ==
  /\ pc[r] = "idle"
  /\ Redeemable(t)
  /\ state' = [state EXCEPT ![t] = "consumed"]
  /\ \/ /\ Accepted(t, k)
        /\ granted' = [granted EXCEPT ![t] = @ + 1]
        /\ pc' = [pc EXCEPT ![r] = "effect"]
        /\ want' = [want EXCEPT ![r] = k]
        /\ held' = [held EXCEPT ![r] = t]
     \/ ~Accepted(t, k) /\ UNCHANGED <<frame, granted>>
  /\ UNCHANGED <<kind, local, expired, dead>>

\* The password is reset, the user logged in or the email marked as verified.
Effect(r) ==
  /\ pc[r] = "effect"
  /\ End(r)
  /\ UNCHANGED <<tokens, granted, dead>>

Expire(t) ==
  /\ state[t] # "none" /\ ~expired[t]
  /\ expired' = [expired EXCEPT ![t] = TRUE]
  /\ UNCHANGED <<state, kind, local, frame, granted, dead>>

\* The TTL index removes an expired token.
TtlDelete(t) ==
  /\ state[t] \in {"live", "consumed"} /\ expired[t]
  /\ state' = [state EXCEPT ![t] = "gone"]
  /\ UNCHANGED <<kind, local, expired, frame, granted, dead>>

Fail(r) ==
  /\ pc[r] # "idle"
  /\ End(r)
  /\ UNCHANGED <<tokens, granted, dead>>

Next ==
  \/ \E r \in Req :
       \/ Effect(r) \/ Fail(r)
       \/ \E k \in Kind : Issue(r, k) \/ \E t \in Token : Redeem(r, t, k)
       \/ \E t \in Token : Create(r, t)
  \/ \E t \in Token : IssueElsewhere(t) \/ Expire(t) \/ TtlDelete(t)

Spec == Init /\ [][Next]_vars

-----------------------------------------------------------------------------
(* Properties *)

\* A token can only ever be redeemed once, with calls racing for it and crashing.
RedeemedOnce == \A t \in Token : granted[t] <= 1

\* A replaced token stays without effect.
ReplacedIsDead == [][\A t \in dead : granted'[t] = granted[t]]_vars

\* The one-live-token policy of issue, as far as it goes without a unique index:
\* calls that issue at the same time leave one token each, and however many have
\* issued before, stopped half way or expired, no older one is left beside them.
OneLiveToken == \A k \in Kind : Cardinality(Live(k)) <= Cardinality(Req)
=============================================================================

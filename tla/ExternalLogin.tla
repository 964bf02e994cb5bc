--------------------------- MODULE ExternalLogin ---------------------------
(***************************************************************************)
(* Sign-in with an external identity provider: the exchange of the code,   *)
(* the profile each adapter makes of the answers, the verification of an   *)
(* OpenID Connect id_token against keys that rotate, and the local user    *)
(* the identity is resolved to.  Every request to a provider or to the     *)
(* database may fail; database writes may fail after they were done.       *)
(***************************************************************************)
EXTENDS Naturals, Sequences

CONSTANTS
  Call,          \* sign-ins under way
  People,        \* the number of people who sign in
  Idp,           \* the identity providers in use, a subset of Adapters and "oidc"
  MaxBegun,      \* bound: sign-ins begun
  MaxUnlinks,    \* bound: identities taken from a user
  MaxRotations   \* bound: key rotations at the OpenID provider

VARIABLES
  users,     \* the users: who made them, email (0 for none) and linked identities <<provider, subject>>
  call,      \* call[c]: the sign-in that c is working on
  jwks,      \* the keys the OpenID provider publishes, in its order
  newest,    \* the key it signs with
  begun, unlinks,
  known,     \* identities that have signed in and were not unlinked since
  mixed      \* users that were asked to take the identity of somebody else

vars == <<users, call, jwks, newest, begun, unlinks, known, mixed>>

-----------------------------------------------------------------------------
(* The adapters: whether the profile is read from the id_token, what happens  *)
(* without one, and what makes an email verified.  Google's answer is read    *)
(* under names it does not use, so its id_token is never seen; a custom       *)
(* provider has no resolver of its own.                                       *)

GoogleProvider == [reads |-> FALSE, without |-> "asks", verified |-> "told"]

GitHubProvider == [reads |-> FALSE, without |-> "asks", verified |-> "listed"]

MicrosoftProvider == [reads |-> TRUE, without |-> "asks", verified |-> "always"]

AppleProvider == [reads |-> TRUE, without |-> "throws", verified |-> "told"]

FacebookProvider == [reads |-> FALSE, without |-> "asks", verified |-> "present"]

CustomProvider == [reads |-> TRUE, without |-> "empty", verified |-> "told"]

Adapters == [google |-> GoogleProvider, github |-> GitHubProvider,
             microsoft |-> MicrosoftProvider, apple |-> AppleProvider,
             facebook |-> FacebookProvider, custom |-> CustomProvider]

\* The subject a provider knows a person by: GitHub has numbers of its own, which are
\* those of others elsewhere.  0 is the empty subject.
Subject(p, w) == IF p = "github" THEN People + 1 - w ELSE w

\* What a provider says of a person's email address.
Mail == {"none", "plain", "verified"}

Idle == [pc |-> "idle", idp |-> "google", who |-> 0, subject |-> 0, mail |-> "none",
         verified |-> FALSE, user |-> 0, fresh |-> FALSE, knew |-> FALSE, token |-> 0,
         kid |-> FALSE, sound |-> FALSE]

Init ==
  /\ users = <<>> /\ call = [c \in Call |-> Idle]
  /\ jwks = <<1>> /\ newest = 1 /\ begun = 0 /\ unlinks = 0 /\ known = {} /\ mixed = {}

Set(c, changes) == call' = [call EXCEPT ![c] = changes]

\* The call ends with an error.
Throw(c) == Set(c, Idle)

Identity(k) == <<k.idp, k.subject>>

Exact(u, i) == i \in users[u].identities

\* A user that has the provider in one identity and the subject in another one.
Crossed(u, i) == ~Exact(u, i) /\ \E j, l \in users[u].identities : j[1] = i[1] /\ l[2] = i[2]

\* Mutant: any identity of the provider will do.
ByProvider(u, i) == \E j \in users[u].identities : j[1] = i[1]

\* The query asks for the provider and for the subject, each in any identity of a user.
Matches(u, i) ==
  /\ \E j \in users[u].identities : j[1] = i[1]
  /\ \E j \in users[u].identities : j[2] = i[2]

-----------------------------------------------------------------------------
(* The answer of the provider *)

Begin(c, p, w) ==
  /\ call[c].pc = "idle" /\ begun < MaxBegun /\ begun' = begun + 1
  /\ Set(c, [Idle EXCEPT !.pc = "exchange", !.idp = p, !.who = w,
                         !.knew = <<p, Subject(p, w)>> \in known])
  /\ UNCHANGED <<users, jwks, newest, unlinks, known, mixed>>

\* The code is exchanged; an OpenID token carries the key it was signed with, and
\* whether issuer, audience and nonce are those of the request.
Exchange(c) ==
  LET k == call[c] IN
  /\ k.pc = "exchange"
  /\ \/ Throw(c)
     \/ k.idp # "oidc" /\ Set(c, [k EXCEPT !.pc = "profile"])
     \/ /\ k.idp = "oidc"
        /\ \E kid, sound \in BOOLEAN :
             Set(c, [k EXCEPT !.pc = "verify", !.token = newest, !.kid = kid, !.sound = sound])
  /\ UNCHANGED <<users, jwks, newest, begun, unlinks, known, mixed>>

\* Mutant: an address counts as verified because it is there.
BlindProfile(k, hasSub, m, listed) ==
  [k EXCEPT !.pc = "lookup", !.subject = IF hasSub THEN Subject(k.idp, k.who) ELSE 0,
            !.mail = m, !.verified = m # "none"]

\* The profile an adapter makes of the answers.
Profile(k, hasSub, m, listed) ==
  LET rule == Adapters[k.idp].verified
      mail == IF rule = "listed" /\ ~listed /\ m = "verified" THEN "plain" ELSE m IN
  [k EXCEPT !.pc = "lookup",
            !.subject = IF hasSub THEN Subject(k.idp, k.who) ELSE 0,
            !.mail = mail,
            !.verified = \/ rule = "always"
                         \/ rule = "present" /\ mail # "none"
                         \/ rule \in {"told", "listed"} /\ mail = "verified"]

\* The claims of the id_token, or the answer to another request; else Apple's adapter
\* throws and a custom provider's profile is empty.
GetProfile(c) ==
  LET k == call[c]  a == Adapters[k.idp] IN
  /\ k.pc = "profile"
  /\ \E idToken \in BOOLEAN :
       LET told == (idToken /\ a.reads) \/ a.without = "asks" IN
       \/ (told \/ a.without = "throws") /\ Throw(c)
       \/ /\ told
          /\ \E hasSub, listed \in BOOLEAN, m \in Mail : Set(c, Profile(k, hasSub, m, listed))
       \/ ~told /\ a.without = "empty" /\ Set(c, Profile(k, FALSE, "none", FALSE))
  /\ UNCHANGED <<users, jwks, newest, begun, unlinks, known, mixed>>

\* The key with the token's kid, or else the first one of the set.
KeyFor(k, keys) ==
  IF k.kid /\ k.token \in {keys[n] : n \in DOMAIN keys} THEN k.token ELSE keys[1]

\* Mutant: a key of the set is good enough.
AnyKey(k, keys, expired) == k.sound /\ ~expired

\* An id_token is accepted when it is signed with that key, says what was asked for
\* and has not expired; jwt.verify allows no leeway.
Accepted(k, keys, expired) == KeyFor(k, keys) = k.token /\ k.sound /\ ~expired

\* The key set is fetched and the token verified; only then the claims are used.
VerifyIdToken(c) ==
  LET k == call[c] IN
  /\ k.pc = "verify"
  /\ \/ Throw(c)
     \/ \E expired \in BOOLEAN, m \in Mail :
          /\ Accepted(k, jwks, expired)
          /\ Set(c, [k EXCEPT !.pc = "lookup", !.subject = Subject(k.idp, k.who), !.mail = m,
                              !.verified = m = "verified", !.token = 0, !.kid = FALSE,
                              !.sound = k.sound /\ k.token \in {jwks[n] : n \in DOMAIN jwks}])
  /\ UNCHANGED <<users, jwks, newest, begun, unlinks, known, mixed>>

\* The provider signs with a new key, and publishes the old one as well or no more.
Rotate ==
  /\ newest <= MaxRotations
  /\ newest' = newest + 1
  /\ jwks' \in {<<newest + 1>>, <<newest + 1, newest>>, <<newest, newest + 1>>}
  /\ UNCHANGED <<users, call, begun, unlinks, known, mixed>>

-----------------------------------------------------------------------------
(* The local user.  A callback of an adapter is resolved by                  *)
(* OAuthFederationService, an OpenID profile by FederatedIdentityService.    *)

Callback(k) == k.idp # "oidc"

Finish(c, k) ==
  /\ Set(c, [k EXCEPT !.pc = "done"])
  /\ known' = known \cup (IF Identity(k) \in users'[k.user].identities THEN {Identity(k)} ELSE {})

\* findByProvider, and what follows from its answer; given is the user a link was asked
\* for, auto whether users may be made.
Lookup(c) ==
  LET k == call[c]  found == {u \in DOMAIN users : Matches(u, Identity(k))} IN
  /\ k.pc = "lookup"
  /\ UNCHANGED users
  /\ \/ Throw(c) /\ UNCHANGED <<known, mixed>>
     \/ \E u \in found :
          /\ mixed' = mixed \cup (IF Crossed(u, Identity(k)) THEN {u} ELSE {})
          /\ IF Callback(k) THEN Set(c, [k EXCEPT !.pc = "link", !.user = u]) /\ UNCHANGED known
                            ELSE Finish(c, [k EXCEPT !.user = u])
     \/ /\ found = {}
        /\ \E given \in 0 .. Len(users), auto \in BOOLEAN :
             /\ Callback(k) => given = 0 /\ auto
             /\ mixed' = IF given = 0 THEN mixed ELSE mixed \cup {given}
             /\ IF given # 0 THEN Set(c, [k EXCEPT !.pc = "link", !.user = given])
                ELSE IF Callback(k) \/ (auto /\ k.mail # "none")
                     THEN Set(c, [k EXCEPT !.pc = "create"])
                     ELSE Throw(c)
        /\ UNCHANGED known
  /\ UNCHANGED <<jwks, newest, begun, unlinks>>

\* Mutant: the identity is added afterwards.
LinkedLater(k) == {}

\* The identities a new user starts with.
FirstIdentities(k) == IF Callback(k) THEN {} ELSE {Identity(k)}

\* The email is unique in a tenant.  A lost answer ends the call although the user exists.
Create(c) ==
  LET k == call[c]
      email == IF k.mail = "none" THEN 0 ELSE k.who
      new == [by |-> k.idp, email |-> email, identities |-> FirstIdentities(k)]
      made == [k EXCEPT !.user = Len(users) + 1, !.fresh = TRUE] IN
  /\ k.pc = "create"
  /\ \/ Throw(c) /\ UNCHANGED <<users, known>>
     \/ /\ email # 0 => \A u \in DOMAIN users : users[u].email # email
        /\ users' = Append(users, new)
        /\ \/ Throw(c) /\ UNCHANGED known
           \/ IF Callback(k) THEN Set(c, [made EXCEPT !.pc = "link"]) /\ UNCHANGED known
                             ELSE Finish(c, made)
  /\ UNCHANGED <<jwks, newest, begun, unlinks, mixed>>

\* $addToSet of the identity; it may be done although the call hears of an error.
Link(c) ==
  LET k == call[c] IN
  /\ k.pc = "link"
  /\ \/ Throw(c) /\ UNCHANGED <<users, known>>
     \/ /\ users' = [users EXCEPT ![k.user].identities = @ \cup {Identity(k)}]
        /\ Finish(c, k) \/ (Throw(c) /\ UNCHANGED known)
  /\ UNCHANGED <<jwks, newest, begun, unlinks, mixed>>

\* The caller takes the answer.
Return(c) ==
  /\ call[c].pc = "done" /\ Throw(c)
  /\ UNCHANGED <<users, jwks, newest, begun, unlinks, known, mixed>>

Unlink(u, i) ==
  /\ unlinks < MaxUnlinks /\ Exact(u, i)
  /\ users' = [users EXCEPT ![u].identities = @ \ {i}]
  /\ unlinks' = unlinks + 1
  /\ known' = known \ {i}
  /\ call' = [c \in Call |->
       IF <<call[c].idp, Subject(call[c].idp, call[c].who)>> = i
       THEN [call[c] EXCEPT !.knew = FALSE] ELSE call[c]]
  /\ UNCHANGED <<jwks, newest, begun, mixed>>

Next ==
  \/ \E c \in Call :
       \/ \E p \in Idp, w \in 1..People : Begin(c, p, w)
       \/ Exchange(c) \/ GetProfile(c) \/ VerifyIdToken(c)
       \/ Lookup(c) \/ Create(c) \/ Link(c) \/ Return(c)
  \/ Rotate
  \/ \E u \in DOMAIN users : \E i \in users[u].identities : Unlink(u, i)

Spec == Init /\ [][Next]_vars

-----------------------------------------------------------------------------
(* Properties *)

TypeOK ==
  /\ \A u \in DOMAIN users :
       /\ users[u].email \in 0..People
       /\ users[u].identities \subseteq Idp \X (0..People)
  /\ \A c \in Call : call[c].idp \in Idp \cup {"google"} /\ call[c].user \in 0 .. Len(users)
  /\ newest \in 1 .. MaxRotations + 1 /\ begun \in 0 .. MaxBegun /\ unlinks \in 0 .. MaxUnlinks

\* Nobody gets a second account: a sign-in that began when the same identity had signed in
\* before, and had not been unlinked, makes no user (findByProvider before create).
NoSecondAccount ==
  \A c \in Call : call[c].fresh /\ call[c].subject # 0 => ~call[c].knew

\* An account has one owner: whatever sign-ins overlapped, failed or were repeated, the
\* identities of a user are those of one person, and the email is that person's, unless
\* a link to the user was asked for or the query took the user for another (resolve, link).
OneOwner ==
  \A u \in DOMAIN users \ mixed : \E w \in 1..People :
    /\ users[u].email \in {0, w}
    /\ \A i \in users[u].identities : i[2] \in {0, Subject(i[1], w)}

\* Nobody is left outside: a user made by resolve has an identity from the first moment, so
\* that a sign-in whose answer was lost finds it again (identities in create).
NoneOutside ==
  \A u \in DOMAIN users : users[u].by = "oidc" /\ unlinks = 0 => users[u].identities # {}

\* An OpenID identity is used only when its token said what was asked for and was signed
\* with a key the provider still published (verifyIdToken before the profile).
OnlyVerified ==
  \A c \in Call :
    call[c].idp = "oidc" /\ call[c].pc \in {"lookup", "create", "link", "done"} => call[c].sound

\* An email counts as verified only when the provider said so of this address; Microsoft's
\* and Facebook's adapters claim it for every address.
ToldVerified ==
  \A c \in Call :
    /\ call[c].verified /\ call[c].idp \in {"google", "github", "apple", "custom", "oidc"}
    => call[c].mail = "verified"
=============================================================================

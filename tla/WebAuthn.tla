------------------------------ MODULE WebAuthn -------------------------------
(***************************************************************************)
(* The passkeys of one user: WebAuthnService over the verifier of          *)
(* crypto/webauthn.ts.  Challenges are kept in the memory of the process;  *)
(* a ceremony takes one before its first await.  Everything an answer has  *)
(* to satisfy but its counter (type, challenge, origin, rpIdHash, user     *)
(* presence, signature) makes it good or not.                              *)
(***************************************************************************)
EXTENDS Naturals

CONSTANTS
  Challenge,  \* the pool of challenges
  Key,        \* credential ids
  Req,        \* concurrent completions
  MaxCount,   \* bound: signature counters
  MaxDocs     \* bound: credentials stored

VARIABLES
  store,   \* challengeStore: none (not drawn) | pending | stale (expiresAt is past) | gone
  doc,     \* per key, the stored credential; id 0: none
  last,    \* ids drawn
  pc, held, key, count,  \* the frame of a completion: challenge, credential id and counter of the answer
  seen,    \* the id of the credential it read
  used,    \* history: ceremonies a challenge has completed
  usable,  \* history: while the completion ran its credential could be used at some time
  top,     \* history: the highest counter accepted for the stored credential
  floor,   \* history: top when the completion began, 0 once the credential is another
  crossed  \* history: two completions held the credential at once

vars == <<store, doc, last, pc, held, key, count, seen, used, usable, top, floor, crossed>>

NoDoc == [id |-> 0, counter |-> 0, revoked |-> FALSE]

Usable(k) == doc[k].id # 0 /\ ~doc[k].revoked

Init ==
  /\ store = [c \in Challenge |-> "none"]
  /\ doc = [k \in Key |-> NoDoc] /\ last = 0
  /\ pc = [r \in Req |-> "idle"]
  /\ held = [r \in Req |-> CHOOSE c \in Challenge : TRUE]
  /\ key = [r \in Req |-> CHOOSE k \in Key : TRUE]
  /\ count = [r \in Req |-> 0] /\ seen = [r \in Req |-> 0]
  /\ used = [c \in Challenge |-> 0] /\ usable = [r \in Req |-> FALSE]
  /\ top = [k \in Key |-> 0] /\ floor = [r \in Req |-> 0]
  /\ crossed = [k \in Key |-> FALSE]

-----------------------------------------------------------------------------
At(r, l) == pc' = [pc EXCEPT ![r] = l]

Stored == <<doc, last, top, crossed>>
Frame == <<held, key, count, seen, usable, floor>>

\* A challenge is drawn and stored.
Begin(c) ==
  /\ store[c] = "none"
  /\ store' = [store EXCEPT ![c] = "pending"]
  /\ UNCHANGED <<pc, used, Stored, Frame>>

\* The store does not keep which of the two a challenge is for.
beginRegistration(c) == Begin(c)
beginAuthentication(c) == Begin(c)

\* expiresAt passes; the entry stays until somebody presents its challenge.
ChallengeExpires(c) ==
  /\ store[c] = "pending"
  /\ store' = [store EXCEPT ![c] = "stale"]
  /\ UNCHANGED <<pc, used, Stored, Frame>>

\* Mutant: the challenge is looked up and left in the store.
LeftInStore(c) == store[c]

\* What takeChallenge leaves of the entry.
takeChallenge(c) == IF store[c] = "none" THEN "none" ELSE "gone"

\* A completion starts at step l, of the registration or of the authentication.
Start(r, c, k, n, l) ==
  /\ pc[r] = "idle"
  /\ store' = [store EXCEPT ![c] = takeChallenge(c)]
  /\ IF store[c] = "pending"
     THEN /\ At(r, l)
          /\ held' = [held EXCEPT ![r] = c] /\ key' = [key EXCEPT ![r] = k]
          /\ count' = [count EXCEPT ![r] = n]
          /\ usable' = [usable EXCEPT ![r] = Usable(k)]
          /\ floor' = [floor EXCEPT ![r] = top[k]]
          /\ UNCHANGED seen
     ELSE UNCHANGED <<pc, Frame>>
  /\ UNCHANGED <<used, Stored>>

\* completeRegistration up to countDocuments, completeAuthentication up to findOne.
completeRegistration(r, c, k, n) == Start(r, c, k, n, "count")
completeAuthentication(r, c, k, n) == Start(r, c, k, n, "find")

Succeeds(r) == At(r, "idle") /\ used' = [used EXCEPT ![held[r]] = @ + 1]

\* A write is made and its answer lost.
Unheard(r) == At(r, "idle") /\ UNCHANGED used

\* countDocuments: a revoked credential counts too.
CountDocuments(r) ==
  /\ pc[r] = "count"
  /\ At(r, IF doc[key[r]].id # 0 THEN "idle" ELSE "create")
  /\ UNCHANGED <<store, used, Stored, Frame>>

\* create: the unique index refuses a second document of the credential id.
CreateCredential(r) ==
  /\ pc[r] = "create" /\ last < MaxDocs
  /\ \/ doc[key[r]].id # 0 /\ At(r, "idle") /\ UNCHANGED <<used, usable, floor, Stored>>
     \/ /\ doc[key[r]].id = 0
        /\ last' = last + 1
        /\ doc' = [doc EXCEPT ![key[r]] = [id |-> last + 1, counter |-> count[r], revoked |-> FALSE]]
        /\ top' = [top EXCEPT ![key[r]] = count[r]]
        /\ crossed' = [crossed EXCEPT ![key[r]] = FALSE]
        /\ usable' = [q \in Req |-> usable[q] \/ (pc[q] # "idle" /\ key[q] = key[r])]
        /\ floor' = [q \in Req |-> IF key[q] = key[r] THEN 0 ELSE floor[q]]
        /\ Succeeds(r) \/ Unheard(r)
  /\ UNCHANGED <<store, held, key, count, seen>>

\* Mutant: a counter that stands still passes.
CounterStands(stored, n) == stored = 0 \/ n >= stored

\* The counter has to rise, unless the authenticator has none; the verifier and the service
\* both look.
CounterRises(stored, n) == stored = 0 \/ n > stored

\* Mutant: a revoked credential is found.
AnyCredential(k) == doc[k].id # 0

\* The filter of findOne.
Found(k) == Usable(k)

\* findOne and the verification: good, or the answer is refused.
FindCredential(r) ==
  /\ pc[r] = "find"
  /\ \/ /\ Found(key[r]) /\ CounterRises(doc[key[r]].counter, count[r])
        /\ seen' = [seen EXCEPT ![r] = doc[key[r]].id]
        /\ crossed' = [crossed EXCEPT ![key[r]] =
                         @ \/ \E q \in Req : /\ pc[q] = "update" /\ key[q] = key[r]
                                            /\ seen[q] = doc[key[r]].id]
        /\ At(r, "update")
     \/ At(r, "idle") /\ UNCHANGED <<seen, crossed>>
  /\ UNCHANGED <<store, used, doc, last, top, held, key, count, usable, floor>>

\* updateOne by _id; the answer is yes even if the document has gone.
UpdateCounter(r) ==
  /\ pc[r] = "update"
  /\ IF doc[key[r]].id = seen[r]
     THEN /\ doc' = [doc EXCEPT ![key[r]].counter = count[r]]
          /\ top' = [top EXCEPT ![key[r]] = IF count[r] > @ THEN count[r] ELSE @]
     ELSE UNCHANGED <<doc, top>>
  /\ Succeeds(r)
  /\ UNCHANGED <<store, last, crossed, Frame>>

UpdateUnheard(r) ==
  /\ pc[r] = "update" /\ doc[key[r]].id = seen[r]
  /\ doc' = [doc EXCEPT ![key[r]].counter = count[r]]
  /\ Unheard(r)
  /\ UNCHANGED <<store, last, top, crossed, Frame>>

\* An await rejects, or the answer of a registration is not good.
Fail(r) ==
  /\ pc[r] # "idle" /\ At(r, "idle")
  /\ UNCHANGED <<store, used, Stored, Frame>>

\* The process starts again with an empty store.
Restart ==
  /\ store' = [c \in Challenge |-> IF store[c] = "none" THEN "none" ELSE "gone"]
  /\ pc' = [r \in Req |-> "idle"]
  /\ UNCHANGED <<used, Stored, Frame>>

revokeCredential(k) ==
  /\ doc[k].id # 0
  /\ doc' = [doc EXCEPT ![k].revoked = TRUE]
  /\ UNCHANGED <<store, pc, last, top, crossed, used, Frame>>

deleteCredential(k) ==
  /\ doc[k].id # 0
  /\ doc' = [doc EXCEPT ![k] = NoDoc]
  /\ top' = [top EXCEPT ![k] = 0]
  /\ UNCHANGED <<store, pc, last, crossed, used, Frame>>

Next ==
  \/ \E c \in Challenge : beginRegistration(c) \/ beginAuthentication(c) \/ ChallengeExpires(c)
  \/ \E r \in Req :
       \/ \E c \in Challenge, k \in Key, n \in 0..MaxCount :
            completeRegistration(r, c, k, n) \/ completeAuthentication(r, c, k, n)
       \/ CountDocuments(r) \/ CreateCredential(r) \/ FindCredential(r)
       \/ UpdateCounter(r) \/ UpdateUnheard(r) \/ Fail(r)
  \/ \E k \in Key : revokeCredential(k) \/ deleteCredential(k)
  \/ Restart

-----------------------------------------------------------------------------
(* Properties *)

TypeOK ==
  /\ store \in [Challenge -> {"none", "pending", "stale", "gone"}]
  /\ doc \in [Key -> [id : 0..MaxDocs, counter : 0..MaxCount, revoked : BOOLEAN]] /\ last \in 0..MaxDocs
  /\ pc \in [Req -> {"idle", "count", "create", "find", "update"}]
  /\ held \in [Req -> Challenge] /\ key \in [Req -> Key] /\ count \in [Req -> 0..MaxCount]
  /\ seen \in [Req -> 0..MaxDocs] /\ used \in [Challenge -> Nat] /\ usable \in [Req -> BOOLEAN]
  /\ top \in [Key -> 0..MaxCount] /\ floor \in [Req -> 0..MaxCount] /\ crossed \in [Key -> BOOLEAN]

\* A challenge completes one ceremony, however often and however close together its answer
\* is presented.
OneCeremony == \A c \in Challenge : used[c] <= 1

\* A credential that was revoked or deleted before the ceremony completes none.
RevokedStaysOut == \A r \in Req : pc[r] = "update" => usable[r]

\* A ceremony passes only with a counter above every one that was accepted before it began,
\* unless two ceremonies held the credential at once.
OldCounterRefused ==
  \A r \in Req : pc[r] = "update" /\ ~crossed[key[r]] => floor[r] = 0 \/ floor[r] < count[r]
=============================================================================

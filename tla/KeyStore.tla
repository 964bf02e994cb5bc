------------------------------ MODULE KeyStore ------------------------------
(***************************************************************************)
(* The signing keys a tenant keeps in MongoDB, and the administrators that *)
(* generate, activate, retire, revoke and rotate them at the same time.  A *)
(* rotation is four calls with no transaction around them; an activation   *)
(* is a transaction, which reads one snapshot and is run again when a      *)
(* document it writes has changed since.                                   *)
(***************************************************************************)
EXTENDS Naturals

CONSTANTS
  Caller,   \* calls that can be under way together
  MaxKeys,  \* bound: keys generated
  Short     \* bound: keys that expire while the others are in use

Kid == 1..MaxKeys

VARIABLES
  doc,        \* the status of every key ("none": not there)
  nextKid,
  expired,    \* keys whose expiresAt has passed
  call,       \* what every caller does: its step, its key and its snapshot
  handed,     \* keys getActiveKey gave out for signing
  withdrawn,  \* keys somebody retired
  revoked,    \* keys somebody revoked
  twoFirst    \* two activations have found no active key to demote

vars == <<doc, nextKid, expired, call, handed, withdrawn, revoked, twoFirst>>

Idle == [step |-> "idle", kid |-> 0, snapshot |-> <<>>]

Init ==
  /\ doc = [k \in Kid |-> "none"] /\ nextKid = 1 /\ expired = {}
  /\ call = [c \in Caller |-> Idle]
  /\ handed = {} /\ withdrawn = {} /\ revoked = {} /\ twoFirst = FALSE

Verifying == {"ACTIVE", "VERIFY-ONLY"}

In(d, statuses) == {k \in Kid : d[k] \in statuses}

-----------------------------------------------------------------------------
(* Calls of one step *)

Create == doc' = [doc EXCEPT ![nextKid] = "STAGED"] /\ nextKid' = nextKid + 1

generateKey ==
  /\ nextKid <= MaxKeys /\ Create
  /\ UNCHANGED <<expired, call, handed, withdrawn, revoked, twoFirst>>

Retire(k) ==
  IF doc[k] \in Verifying
  THEN doc' = [doc EXCEPT ![k] = "RETIRED"] /\ withdrawn' = withdrawn \union {k}
  ELSE UNCHANGED <<doc, withdrawn>>

retireKey(k) ==
  /\ Retire(k)
  /\ UNCHANGED <<nextKid, expired, call, handed, revoked, twoFirst>>

revokeKey(k) ==
  /\ doc[k] \notin {"none", "REVOKED"}
  /\ doc' = [doc EXCEPT ![k] = "REVOKED"] /\ revoked' = revoked \union {k}
  /\ UNCHANGED <<nextKid, expired, call, handed, withdrawn, twoFirst>>

getActiveKey ==
  /\ \E k \in In(doc, {"ACTIVE"}) : handed' = handed \union {k}
  /\ UNCHANGED <<doc, nextKid, expired, call, withdrawn, revoked, twoFirst>>

\* What getVerificationKeys answers.
getVerificationKeys == In(doc, Verifying)

Remove(ks) == doc' = [k \in Kid |-> IF k \in ks THEN "none" ELSE doc[k]]

\* Keys whose time has passed; what still verifies is left to the index on expiresAt.
cleanupExpired ==
  /\ Remove(expired \ In(doc, Verifying))
  /\ UNCHANGED <<nextKid, expired, call, handed, withdrawn, revoked, twoFirst>>

\* MongoDB removes what has expired, whatever its status.
TtlIndex(k) ==
  /\ k \in expired /\ Remove({k})
  /\ UNCHANGED <<nextKid, expired, call, handed, withdrawn, revoked, twoFirst>>

Expire(k) ==
  /\ k \in Short /\ doc[k] # "none" /\ expired' = expired \union {k}
  /\ UNCHANGED <<doc, nextKid, call, handed, withdrawn, revoked, twoFirst>>

-----------------------------------------------------------------------------
(* Activation *)

\* The transaction begins and reads.
BeginActivate(c) ==
  /\ call[c].step = "activate"
  /\ call' = [call EXCEPT ![c] = [@ EXCEPT !.step = "commit", !.snapshot = doc]]
  /\ UNCHANGED <<doc, nextKid, expired, handed, withdrawn, revoked, twoFirst>>

\* Mutant: the key is found by its id alone.
AnyStatus(d, k) == d[k] # "none"

\* The key may become the active one.
Promotable(d, k) == d[k] = "STAGED"

\* Mutant: the key that was active is left as it is.
BothActive(d, k) ==
  [n \in Kid |-> IF n = k /\ Promotable(d, k) THEN "ACTIVE" ELSE d[n]]

\* What the transaction writes: the active keys step back, whether or not there is a key
\* to take their place.
Activated(d, k) ==
  [n \in Kid |-> IF n = k /\ Promotable(d, k) THEN "ACTIVE"
                 ELSE IF d[n] = "ACTIVE" THEN "VERIFY-ONLY" ELSE d[n]]

\* A document the transaction writes has changed since: it begins again.
Conflict(c) ==
  LET d == call[c].snapshot IN
  \E n \in Kid : Activated(d, call[c].kid)[n] # d[n] /\ doc[n] # d[n]

CommitActivate(c) ==
  LET d == call[c].snapshot
      new == Activated(d, call[c].kid) IN
  /\ call[c].step = "commit"
  /\ IF Conflict(c)
     THEN /\ call' = [call EXCEPT ![c] = [@ EXCEPT !.step = "activate", !.snapshot = <<>>]]
          /\ UNCHANGED <<doc, twoFirst>>
     ELSE /\ call' = [call EXCEPT ![c] = Idle]
          /\ doc' = [n \in Kid |-> IF new[n] # d[n] THEN new[n] ELSE doc[n]]
          /\ twoFirst' = (twoFirst \/ (In(d, {"ACTIVE"}) = {} /\ In(doc, {"ACTIVE"}) # {}))
  /\ UNCHANGED <<nextKid, expired, handed, withdrawn, revoked>>

activateKey(c, k) ==
  /\ call[c].step = "idle" /\ k < nextKid
  /\ call' = [call EXCEPT ![c] = [@ EXCEPT !.step = "activate", !.kid = k]]
  /\ UNCHANGED <<doc, nextKid, expired, handed, withdrawn, revoked, twoFirst>>

-----------------------------------------------------------------------------
(* Rotation *)

\* An active key is read (the code takes the one activated first) ...
rotateKey(c) ==
  /\ call[c].step = "idle" /\ nextKid <= MaxKeys
  /\ LET active == In(doc, {"ACTIVE"}) IN
     IF active = {}
     THEN call' = [call EXCEPT ![c].step = "generate"]
     ELSE \E k \in active : call' = [call EXCEPT ![c] = [@ EXCEPT !.step = "retire", !.kid = k]]
  /\ UNCHANGED <<doc, nextKid, expired, handed, withdrawn, revoked, twoFirst>>

\* ... retired, if it still verifies ...
RotateRetires(c) ==
  /\ call[c].step = "retire" /\ Retire(call[c].kid)
  /\ call' = [call EXCEPT ![c] = [@ EXCEPT !.step = "generate", !.kid = 0]]
  /\ UNCHANGED <<nextKid, expired, handed, revoked, twoFirst>>

\* ... and a new one generated, to be activated.
RotateGenerates(c) ==
  /\ call[c].step = "generate" /\ nextKid <= MaxKeys
  /\ Create
  /\ call' = [call EXCEPT ![c] = [@ EXCEPT !.step = "activate", !.kid = nextKid]]
  /\ UNCHANGED <<expired, handed, withdrawn, revoked, twoFirst>>

\* The database, or the process, fails the call where it stands.
Fail(c) ==
  /\ call[c].step # "idle"
  /\ call' = [call EXCEPT ![c] = Idle]
  /\ UNCHANGED <<doc, nextKid, expired, handed, withdrawn, revoked, twoFirst>>

Next ==
  \/ generateKey \/ getActiveKey \/ cleanupExpired
  \/ \E k \in Kid : retireKey(k) \/ revokeKey(k) \/ Expire(k) \/ TtlIndex(k)
  \/ \E c \in Caller :
       \/ \E k \in Kid : activateKey(c, k)
       \/ BeginActivate(c) \/ CommitActivate(c)
       \/ rotateKey(c) \/ RotateRetires(c) \/ RotateGenerates(c)
       \/ Fail(c)

Spec == Init /\ [][Next]_vars

-----------------------------------------------------------------------------
(* Properties *)

TypeOK ==
  /\ doc \in [Kid -> {"none", "STAGED", "RETIRED", "REVOKED"} \union Verifying]
  /\ nextKid \in 1 .. MaxKeys + 1
  /\ expired \union handed \union withdrawn \union revoked \subseteq Kid
  /\ \A c \in Caller : call[c].step \in {"idle", "retire", "generate", "activate", "commit"}

\* A revoked key never signs or verifies again, even when a rotation that has just made it
\* goes on to activate it.
RevokedIsDead == revoked \intersect getVerificationKeys = {}

\* What a key has signed verifies until somebody takes the key back or its time is over:
\* activations of other keys and failed calls take nothing back.
HandedVerifies == handed \subseteq getVerificationKeys \union withdrawn \union revoked \union expired

\* One key signs, however calls overlap; only activations that both found none to demote
\* can leave two.
OneSigner == twoFirst \/ \A k, l \in In(doc, {"ACTIVE"}) : k = l
=============================================================================

--------------------------- MODULE SessionService ---------------------------
(***************************************************************************)
(* The rotating refresh-token protocol of                                  *)
(* packages/core/src/services/session.service.ts, with the MongoDB         *)
(* collection it writes, the Redis liveness markers it keeps and the       *)
(* admin routes that write the same collection.                            *)
(*                                                                         *)
(* Several requests run at once; a step of a request ends at the `await`   *)
(* that lets another request in.  All sessions belong to one user of one   *)
(* application: every query of the service is by session id, token hash,   *)
(* family id or that user, so the sessions of two users never meet.  A     *)
(* session stands for its refresh token too (the hash is unique), and a    *)
(* family is named by its first session.                                   *)
(***************************************************************************)
EXTENDS Naturals, FiniteSets, TLC

CONSTANTS
  Sess,           \* session ids that can be allocated
  Req,            \* concurrent requests (calls of the service)
  None,           \* no session
  Ops,            \* the entry points clients use in this model
  Transactional,  \* MongoDB is a replica set (transactionsSupported)
  MayFail,        \* database errors and process crashes happen
  MaxActive       \* options.maxActiveSessions

Operation == {"create", "refresh", "revoke", "revokeAll", "check", "touch",
              "admin"}

MAX_ATTEMPTS == 3

ASSUME NoneAssumption == None \notin Sess
ASSUME OpsAssumption == Ops \subseteq Operation
ASSUME ModeAssumption == Transactional \in BOOLEAN /\ MayFail \in BOOLEAN
ASSUME MaxActiveAssumption == MaxActive \in Nat \ {0}

VARIABLES
  status,   \* status[s]: the session document; "none" before its insert,
            \* "gone" once the TTL index has removed it
  family,   \* family[s]: familyId
  expired,  \* sessions whose expiresAt has passed
  cache,    \* sessions with a liveness marker session:<id> = '1'
  pc,       \* pc[r]: the await request r is at
  target,   \* target[r]: the session request r works on
  child,    \* child[r]: the session a rotation or a login has inserted
  todo,     \* todo[r]: sessions whose marker r still has to delete
  attempt,  \* attempt[r]: withTransaction's loop counter
  handed,   \* history: sessions whose refresh token a client was given
  killed,   \* history: families revoked by reuse detection
  swept     \* history: families that existed when revokeAll updated

docs == <<status, family, expired>>
locals == <<pc, target, child, todo, attempt>>
history == <<handed, killed, swept>>
vars == <<docs, cache, locals, history>>

Status == {"none", "active", "rotating", "replaced", "revoked", "gone"}
Settled == {"replaced", "revoked"}

PC == {"idle",
       "claimed", "tx", "bare", "bareCheck", "bareFinal",
       "markParent", "markChild",
       "lookup", "famFind", "famUpdate", "delete",
       "limitFind", "limitRevoke", "limitDelete", "insert", "markNew",
       "sweep", "checkRead", "checkMark"}

TypeOK ==
  /\ status \in [Sess -> Status]
  /\ family \in [Sess -> Sess \cup {None}]
  /\ expired \subseteq Sess
  /\ cache \subseteq Sess
  /\ pc \in [Req -> PC]
  /\ target \in [Req -> Sess \cup {None}]
  /\ child \in [Req -> Sess \cup {None}]
  /\ todo \in [Req -> SUBSET Sess]
  /\ attempt \in [Req -> 1..MAX_ATTEMPTS]
  /\ handed \subseteq Sess
  /\ killed \subseteq Sess
  /\ swept \subseteq Sess

Init ==
  /\ status = [s \in Sess |-> "none"]
  /\ family = [s \in Sess |-> None]
  /\ expired = {}
  /\ cache = {}
  /\ pc = [r \in Req |-> "idle"]
  /\ target = [r \in Req |-> None]
  /\ child = [r \in Req |-> None]
  /\ todo = [r \in Req |-> {}]
  /\ attempt = [r \in Req |-> 1]
  /\ handed = {}
  /\ killed = {}
  /\ swept = {}

-----------------------------------------------------------------------------
(* Documents and requests *)

Exists(s) == status[s] \notin {"none", "gone"}
Active == {s \in Sess : status[s] = "active"}
Fresh == {s \in Sess : status[s] = "none"}

\* The filter of the claim; the mutant has lost the status.
CanClaimAny(s) == Exists(s)
CanClaim(s) == status[s] = "active"

\* What txBody re-reads before it finalises the parent; the mutant does not.
ParentAssumed(r) == TRUE
ParentRotating(r) == status[target[r]] = "rotating"

\* withTransaction may try again; the mutant does so once too often.
RetryLeftOffByOne(r) == attempt[r] <= MAX_ATTEMPTS
RetryLeft(r) == attempt[r] < MAX_ATTEMPTS

\* The filter of revokeFamily; one mutant updates active sessions only, the other
\* the first session instead of the family.
FamilyFirst(f) == {s \in {f} : Exists(s)}
FamilyActive(f) == {s \in Active : family[s] = f}
FamilyDocs(f) == {s \in Sess : Exists(s) /\ family[s] = f}

\* The filter of revokeAll.
Sweepable == Active

\* enforceSessionLimit's test.
LimitReached == Cardinality(Active) >= MaxActive

\* Bound: a call that inserts a session starts only while an unused id is left
\* for every call that may still insert one.
Inserting == {"claimed", "tx", "bare", "limitFind", "limitRevoke",
              "limitDelete", "insert"}
Room == Cardinality(Fresh) > Cardinality({r \in Req : pc[r] \in Inserting})

Goto(r, l) == pc' = [pc EXCEPT ![r] = l]

\* The call returns or throws: its local variables are gone.
End(r) ==
  /\ Goto(r, "idle")
  /\ target' = [target EXCEPT ![r] = None]
  /\ child' = [child EXCEPT ![r] = None]
  /\ todo' = [todo EXCEPT ![r] = {}]
  /\ attempt' = [attempt EXCEPT ![r] = 1]

Starts(r, op) == pc[r] = "idle" /\ op \in Ops

cacheLiveness(s) == cache' = cache \cup {s}

-----------------------------------------------------------------------------
(* refresh: the claim and what a lost claim leads to *)

\* findOneAndUpdate({hash, status: 'active'} -> 'rotating').  The expiry of
\* the session is not part of the filter.
RefreshClaim(r, s) ==
  /\ Starts(r, "refresh")
  /\ s \in handed
  /\ target' = [target EXCEPT ![r] = s]
  /\ \/ /\ CanClaim(s) /\ Room
        /\ status' = [status EXCEPT ![s] = "rotating"]
        /\ Goto(r, "claimed")
     \/ /\ ~CanClaim(s)
        /\ Goto(r, "lookup")
        /\ UNCHANGED status
  /\ UNCHANGED <<family, expired, cache, child, todo, attempt, history>>

\* The second read: an unknown or a rotating token only fails, a settled one
\* starts revokeFamily.
RefreshLookup(r) ==
  /\ pc[r] = "lookup"
  /\ \/ /\ status[target[r]] \in Settled
        /\ Goto(r, "famFind")
        /\ UNCHANGED <<target, child, todo, attempt>>
     \/ /\ status[target[r]] \notin Settled
        /\ End(r)
  /\ UNCHANGED <<docs, cache, history>>

\* revokeFamily: find, updateMany, then one cache.del per session found.
FamilyFind(r) ==
  /\ pc[r] = "famFind"
  /\ todo' = [todo EXCEPT ![r] = FamilyDocs(family[target[r]])]
  /\ Goto(r, "famUpdate")
  /\ UNCHANGED <<docs, cache, target, child, attempt, history>>

FamilyUpdate(r) ==
  LET f == family[target[r]] IN
  /\ pc[r] = "famUpdate"
  /\ status' = [s \in Sess |-> IF s \in FamilyDocs(f) THEN "revoked"
                                                      ELSE status[s]]
  /\ killed' = killed \cup {f}
  /\ Goto(r, "delete")
  /\ UNCHANGED <<family, expired, cache, target, child, todo, attempt,
                 handed, swept>>

DeleteMarker(r) ==
  /\ pc[r] = "delete"
  /\ \/ \E s \in todo[r] :
          /\ cache' = cache \ {s}
          /\ todo' = [todo EXCEPT ![r] = @ \ {s}]
          /\ UNCHANGED <<pc, target, child, attempt>>
     \/ /\ todo[r] = {}
        /\ End(r)
        /\ UNCHANGED cache
  /\ UNCHANGED <<docs, history>>

-----------------------------------------------------------------------------
(* refresh: the winner's rotation *)

\* The effect of a completed txBody: the child is inserted active in the
\* parent's family and the parent becomes replaced (in the mutant it does not).
RotateNoFinalise(r, c) ==
  /\ status' = [status EXCEPT ![c] = "active"]
  /\ family' = [family EXCEPT ![c] = family[target[r]]]

Rotate(r, c) ==
  /\ status' = [status EXCEPT ![c] = "active", ![target[r]] = "replaced"]
  /\ family' = [family EXCEPT ![c] = family[target[r]]]

\* txBody in a transaction reads one snapshot: the re-check of the parent
\* aborts the transaction, so the child it created does not persist.
TxSnapshot(r) ==
  /\ Transactional
  /\ pc[r] = "claimed"
  /\ \/ /\ ParentRotating(r)
        /\ Goto(r, "tx")
        /\ UNCHANGED <<target, child, todo, attempt>>
     \/ /\ ~ParentRotating(r)
        /\ End(r)
  /\ UNCHANGED <<docs, cache, history>>

\* The parent has not been written since the snapshot: both writes commit.  One
\* mutant ends without committing, the other starts the transaction over.
TxCommitDropped(r) ==
  /\ pc[r] = "tx"
  /\ ParentRotating(r)
  /\ End(r)
  /\ UNCHANGED <<docs, cache, history>>

TxCommitAgain(r) ==
  /\ pc[r] = "tx"
  /\ ParentRotating(r)
  /\ Goto(r, "claimed")
  /\ UNCHANGED <<docs, cache, target, child, todo, attempt, history>>

TxCommit(r) ==
  /\ pc[r] = "tx"
  /\ ParentRotating(r)
  /\ \E c \in Fresh :
       /\ Rotate(r, c)
       /\ child' = [child EXCEPT ![r] = c]
  /\ Goto(r, "markParent")
  /\ UNCHANGED <<expired, cache, target, todo, attempt, history>>

\* Somebody wrote the parent first: the driver runs the body again.
TxConflict(r) ==
  /\ pc[r] = "tx"
  /\ ~ParentRotating(r)
  /\ Goto(r, "claimed")
  /\ UNCHANGED <<docs, cache, target, child, todo, attempt, history>>

\* The transaction fails and is rolled back.  A transient error is retried
\* MAX_ATTEMPTS times; a non-transient one is thrown, but on the last attempt
\* the body runs once more without a transaction.
TxError(r) ==
  /\ MayFail /\ Transactional
  /\ pc[r] \in {"claimed", "tx"}
  /\ \/ /\ RetryLeft(r)
        /\ attempt' = [attempt EXCEPT ![r] = @ + 1]
        /\ Goto(r, "claimed")
        /\ UNCHANGED <<target, child, todo>>
     \/ End(r)
     \/ /\ attempt[r] = MAX_ATTEMPTS
        /\ Goto(r, "bare")
        /\ UNCHANGED <<target, child, todo, attempt>>
  /\ UNCHANGED <<docs, cache, history>>

\* The commit reaches the server but its answer is lost: every retry then
\* fails on the unique token hash and the error reaches the client.
TxCommitUnknown(r) ==
  /\ MayFail
  /\ pc[r] = "tx"
  /\ ParentRotating(r)
  /\ \E c \in Fresh : Rotate(r, c)
  /\ End(r)
  /\ UNCHANGED <<expired, cache, history>>

\* Without transactions the three operations of txBody are three steps.
BareCreate(r) ==
  /\ \/ pc[r] = "claimed" /\ ~Transactional
     \/ pc[r] = "bare"
  /\ \E c \in Fresh :
       /\ status' = [status EXCEPT ![c] = "active"]
       /\ family' = [family EXCEPT ![c] = family[target[r]]]
       /\ child' = [child EXCEPT ![r] = c]
  /\ Goto(r, "bareCheck")
  /\ UNCHANGED <<expired, cache, target, todo, attempt, history>>

BareCheck(r) ==
  /\ pc[r] = "bareCheck"
  /\ \/ /\ ParentRotating(r)
        /\ Goto(r, "bareFinal")
        /\ UNCHANGED <<target, child, todo, attempt>>
     \/ /\ ~ParentRotating(r)
        /\ End(r)
  /\ UNCHANGED <<docs, cache, history>>

\* updateOne({_id}) has no status in its filter.
BareFinalise(r) ==
  /\ pc[r] = "bareFinal"
  /\ status' = [status EXCEPT ![target[r]] =
                  IF Exists(target[r]) THEN "replaced" ELSE @]
  /\ Goto(r, "markParent")
  /\ UNCHANGED <<family, expired, cache, target, child, todo, attempt, history>>

MarkParent(r) ==
  /\ pc[r] = "markParent"
  /\ cacheLiveness(target[r])
  /\ Goto(r, "markChild")
  /\ UNCHANGED <<docs, target, child, todo, attempt, history>>

\* The call returns the child's refresh token.
MarkChild(r) ==
  /\ pc[r] = "markChild"
  /\ cacheLiveness(child[r])
  /\ handed' = handed \cup {child[r]}
  /\ End(r)
  /\ UNCHANGED <<docs, killed, swept>>

-----------------------------------------------------------------------------
(* create, with enforceSessionLimit before the insert *)

CreateCount(r) ==
  /\ Starts(r, "create")
  /\ Room
  /\ Goto(r, IF LimitReached THEN "limitFind" ELSE "insert")
  /\ UNCHANGED <<docs, cache, target, child, todo, attempt, history>>

\* sort({lastActiveAt: 1}): lastActiveAt is not modelled, any active session
\* may be the least recently active one.
LimitFind(r) ==
  /\ pc[r] = "limitFind"
  /\ \/ \E s \in Active :
          /\ target' = [target EXCEPT ![r] = s]
          /\ Goto(r, "limitRevoke")
     \/ /\ Active = {}
        /\ Goto(r, "insert")
        /\ UNCHANGED target
  /\ UNCHANGED <<docs, cache, child, todo, attempt, history>>

\* revoke(oldest): updateOne({_id}) whatever its status is by now.
LimitRevoke(r) ==
  /\ pc[r] = "limitRevoke"
  /\ status' = [status EXCEPT ![target[r]] =
                  IF Exists(target[r]) THEN "revoked" ELSE @]
  /\ Goto(r, "limitDelete")
  /\ UNCHANGED <<family, expired, cache, target, child, todo, attempt, history>>

LimitDelete(r) ==
  /\ pc[r] = "limitDelete"
  /\ cache' = cache \ {target[r]}
  /\ Goto(r, "insert")
  /\ UNCHANGED <<docs, target, child, todo, attempt, history>>

CreateInsert(r) ==
  /\ pc[r] = "insert"
  /\ \E c \in Fresh :
       /\ status' = [status EXCEPT ![c] = "active"]
       /\ family' = [family EXCEPT ![c] = c]
       /\ child' = [child EXCEPT ![r] = c]
  /\ Goto(r, "markNew")
  /\ UNCHANGED <<expired, cache, target, todo, attempt, history>>

MarkNew(r) ==
  /\ pc[r] = "markNew"
  /\ cacheLiveness(child[r])
  /\ handed' = handed \cup {child[r]}
  /\ End(r)
  /\ UNCHANGED <<docs, killed, swept>>

-----------------------------------------------------------------------------
(* revoke, revokeAll, isSessionActive, touch and the admin routes *)

Revoke(r, s) ==
  /\ Starts(r, "revoke")
  /\ Exists(s)
  /\ status' = [status EXCEPT ![s] = "revoked"]
  /\ todo' = [todo EXCEPT ![r] = {s}]
  /\ Goto(r, "delete")
  /\ UNCHANGED <<family, expired, cache, target, child, attempt, history>>

RevokeAllFind(r) ==
  /\ Starts(r, "revokeAll")
  /\ todo' = [todo EXCEPT ![r] = Sweepable]
  /\ Goto(r, "sweep")
  /\ UNCHANGED <<docs, cache, target, child, attempt, history>>

\* updateMany({userId, status: 'active'}): a rotating session is not in it.
RevokeAllUpdate(r) ==
  /\ pc[r] = "sweep"
  /\ status' = [s \in Sess |-> IF s \in Sweepable THEN "revoked" ELSE status[s]]
  /\ swept' = swept \cup {family[s] : s \in Sess \ Fresh}
  /\ Goto(r, "delete")
  /\ UNCHANGED <<family, expired, cache, target, child, todo, attempt,
                 handed, killed>>

\* isSessionActive: a marker answers at once, otherwise the document does and
\* the marker is set afterwards.
CheckCached(r, s) ==
  /\ Starts(r, "check")
  /\ status[s] # "none"
  /\ s \notin cache
  /\ target' = [target EXCEPT ![r] = s]
  /\ Goto(r, "checkRead")
  /\ UNCHANGED <<docs, cache, child, todo, attempt, history>>

CheckRead(r) ==
  /\ pc[r] = "checkRead"
  /\ \/ /\ status[target[r]] = "active" /\ target[r] \notin expired
        /\ Goto(r, "checkMark")
        /\ UNCHANGED <<target, child, todo, attempt>>
     \/ /\ ~(status[target[r]] = "active" /\ target[r] \notin expired)
        /\ End(r)
  /\ UNCHANGED <<docs, cache, history>>

CheckMark(r) ==
  /\ pc[r] = "checkMark"
  /\ cacheLiveness(target[r])
  /\ End(r)
  /\ UNCHANGED <<docs, history>>

\* touch: its update of lastActiveAt changes nothing modelled.
Touch(r, s) ==
  /\ Starts(r, "touch")
  /\ status[s] # "none"
  /\ cacheLiveness(s)
  /\ UNCHANGED <<docs, locals, history>>

\* POST /sessions/:id/revoke of the admin console: one updateOne on an active
\* session, and no marker is deleted.
AdminRevoke(s) ==
  /\ "admin" \in Ops
  /\ status[s] = "active"
  /\ status' = [status EXCEPT ![s] = "revoked"]
  /\ UNCHANGED <<family, expired, cache, locals, history>>

\* DELETE /users/:id of the admin console, its updateMany on the sessions.
AdminDeleteUser ==
  /\ "admin" \in Ops
  /\ Active # {}
  /\ status' = [s \in Sess |-> IF s \in Active THEN "revoked" ELSE status[s]]
  /\ UNCHANGED <<family, expired, cache, locals, history>>

-----------------------------------------------------------------------------
(* Time and failures *)

\* expiresAt passes.
Expire(s) ==
  /\ Exists(s)
  /\ s \notin expired
  /\ expired' = expired \cup {s}
  /\ UNCHANGED <<status, family, cache, locals, history>>

\* MongoDB's TTL monitor removes an expired document.
TtlDelete(s) ==
  /\ Exists(s)
  /\ s \in expired
  /\ status' = [status EXCEPT ![s] = "gone"]
  /\ UNCHANGED <<family, expired, cache, locals, history>>

\* The 30-second marker runs out.
MarkerExpire(s) ==
  /\ s \in cache
  /\ cache' = cache \ {s}
  /\ UNCHANGED <<docs, locals, history>>

\* The process crashes or an await rejects: the call ends where it is, and the
\* claim stays (the mutant gives it back).
FailReleases(r) ==
  /\ MayFail
  /\ pc[r] \in {"claimed", "tx", "bare", "bareCheck"}
  /\ status' = [s \in Sess |-> IF s = target[r] /\ ParentRotating(r)
                                THEN "active" ELSE status[s]]
  /\ End(r)
  /\ UNCHANGED <<family, expired, cache, history>>

Fail(r) ==
  /\ MayFail
  /\ pc[r] # "idle"
  /\ End(r)
  /\ UNCHANGED <<docs, cache, history>>

-----------------------------------------------------------------------------
Rotation(r) ==
  \/ TxSnapshot(r) \/ TxCommit(r) \/ TxConflict(r)
  \/ BareCreate(r) \/ BareCheck(r) \/ BareFinalise(r)
  \/ MarkParent(r) \/ MarkChild(r)

Continue(r) ==
  \/ Rotation(r)
  \/ RefreshLookup(r) \/ FamilyFind(r) \/ FamilyUpdate(r) \/ DeleteMarker(r)
  \/ LimitFind(r) \/ LimitRevoke(r) \/ LimitDelete(r)
  \/ CreateInsert(r) \/ MarkNew(r)
  \/ RevokeAllUpdate(r)
  \/ CheckRead(r) \/ CheckMark(r)

Start(r) ==
  \/ CreateCount(r)
  \/ RevokeAllFind(r)
  \/ \E s \in Sess :
       RefreshClaim(r, s) \/ Revoke(r, s) \/ CheckCached(r, s) \/ Touch(r, s)

Faults(r) == TxError(r) \/ TxCommitUnknown(r) \/ Fail(r)

Environment ==
  \/ AdminDeleteUser
  \/ \E s \in Sess :
       AdminRevoke(s) \/ Expire(s) \/ TtlDelete(s) \/ MarkerExpire(s)

Next ==
  \/ \E r \in Req : Start(r) \/ Continue(r) \/ Faults(r)
  \/ Environment

Spec == Init /\ [][Next]_vars

\* Every await of a running call is eventually resolved: the Node event loop
\* and the MongoDB and Redis drivers settle each promise.
FairSpec == Spec /\ \A r \in Req : WF_vars(Continue(r))
-----------------------------------------------------------------------------
(* Properties *)

\* The same token never yields two live refresh pairs: however many calls
\* present tokens of a family at once, and whatever they interleave with, at
\* most one session of the family is active (the claim of refresh()).
OneActivePerFamily ==
  \A s, t \in Sess :
    status[s] = "active" /\ status[t] = "active" /\ family[s] = family[t]
      => s = t

\* Reuse detection ends the family: once revokeFamily has updated a family, no
\* session of it is both active and in the hands of a client, even when a
\* rotation of the family was in flight.
KilledFamilyUnusable ==
  \A s \in handed : family[s] \in killed => status[s] # "active"

\* With transactions a rotation is never seen half done: a family has no active
\* session beside one that is still rotating.
NoHalfRotation ==
  \A s, t \in Sess :
    status[s] = "rotating" /\ status[t] = "active" => family[s] # family[t]

\* A document in the transient state 'rotating' belongs to a refresh() that is
\* still running, as the branch for duplicates of a rotating token assumes.
RotatingInFlight ==
  \A s \in Sess : status[s] = "rotating" =>
    \E r \in Req :
      /\ target[r] = s
      /\ pc[r] \in {"claimed", "tx", "bare", "bareCheck", "bareFinal"}

\* With transactions a rotation is never seen half done, and a document that is
\* still rotating has a refresh() that will settle it.
RotationWhole == NoHalfRotation /\ RotatingInFlight

\* Every rotation that is claimed is eventually settled.
RotationSettles ==
  \A s \in Sess : (status[s] = "rotating") ~> (status[s] # "rotating")

\* The edges drawn in docs/diagrams/refresh-rotation.md.
Edges == {<<"none", "active">>, <<"active", "rotating">>,
          <<"active", "revoked">>, <<"rotating", "replaced">>,
          <<"rotating", "revoked">>, <<"replaced", "revoked">>}

DrawnStep == \A s \in Sess : \/ status'[s] \in {status[s], "gone"}
                            \/ <<status[s], status'[s]>> \in Edges

\* The lifecycle of docs/diagrams/refresh-rotation.md: a step moves a document
\* only along the edges drawn there, and nothing leaves 'revoked' but the TTL.
LifecycleDiagram == [][DrawnStep]_vars

\* After revokeFamily no session of the family is left active, not even the
\* child of a rotation that the revocation overtook.
KilledFamilyDead ==
  \A s \in Sess : family[s] \in killed => status[s] # "active"

\* revokeAll revokes all sessions: no family that existed then has an active
\* session a client holds the token of.
RevokeAllComplete ==
  \A s \in handed : family[s] \in swept => status[s] # "active"

-----------------------------------------------------------------------------
(* The service implements RefreshFamily: the right of a family is held by    *)
(* its active session or by the call that has claimed a token and not        *)
(* inserted the child yet.                                                   *)

HasToken(f) == \E s \in Sess : status[s] = "active" /\ family[s] = f
HasClaim(f) == \E r \in Req : /\ pc[r] \in {"claimed", "tx", "bare"}
                              /\ family[target[r]] = f

RightOf(f) == IF family[f] # f THEN "unborn"
              ELSE IF HasToken(f) THEN "token"
              ELSE IF HasClaim(f) THEN "claim" ELSE "lost"

Rights == INSTANCE RefreshFamily
            WITH Family <- Sess, right <- [f \in Sess |-> RightOf(f)]

\* Whatever calls, failures and expiries interleave, each family behaves like
\* one right that is passed on and, once lost, never regained.
ImplementsRefreshFamily == Rights!Spec

\* For TLC: session ids and requests are interchangeable.
Symmetry == Permutations(Sess) \cup Permutations(Req)
=============================================================================

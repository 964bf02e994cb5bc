------------------------ MODULE SessionServiceProofs ------------------------
(***************************************************************************)
(* The safety of the rotation protocol for any number of sessions and of   *)
(* concurrent calls, with and without transactions, database errors and    *)
(* crashes.                                                                *)
(*                                                                         *)
(* OneActivePerFamily is not inductive: the step that inserts a child says *)
(* nothing about the other sessions of the family.  What is preserved is   *)
(* that a family has at most one holder: its active session, or the one    *)
(* call that has claimed a token and has not inserted the child yet        *)
(* (OneHolder).  A claim turns the first into the second, an insert the    *)
(* second into the first, and nothing makes a holder out of nothing but a  *)
(* login, whose family is new (FamiliesOK).  The holder is also what the   *)
(* refinement of RefreshFamily is about.                                   *)
(***************************************************************************)
EXTENDS SessionService, TLAPS

Claiming == {"claimed", "tx", "bare"}
HasTarget == Claiming \cup
             {"bareCheck", "bareFinal", "markParent", "markChild", "lookup",
              "famFind", "famUpdate", "limitRevoke", "limitDelete",
              "checkRead", "checkMark"}
HasChild == {"bareCheck", "bareFinal", "markParent", "markChild", "markNew"}

\* The session variables a call uses are set and name inserted sessions.
LocalsOK ==
  \A r \in Req :
    /\ pc[r] \in HasTarget => target[r] \in Sess /\ status[target[r]] # "none"
    /\ pc[r] \in HasChild => child[r] \in Sess /\ status[child[r]] # "none"

\* A family is named by a session that was inserted; so a new session's id is
\* the name of no family.
FamiliesOK ==
  /\ \A s \in Sess : status[s] # "none" =>
       family[s] \in Sess /\ status[family[s]] # "none"
  /\ \A s \in handed : status[s] # "none"

\* A family has at most one holder.
OneHolder ==
  /\ OneActivePerFamily
  /\ \A r, q \in Req :
       pc[r] \in Claiming /\ pc[q] \in Claiming
         /\ family[target[r]] = family[target[q]] => r = q
  /\ \A s \in Sess, r \in Req :
       status[s] = "active" /\ pc[r] \in Claiming =>
         family[s] # family[target[r]]

IInv == TypeOK /\ LocalsOK /\ FamiliesOK /\ OneHolder

USE DEF CanClaim, ParentRotating, RetryLeft, Sweepable, PC, Status, Settled,
        Claiming, HasTarget, HasChild, MAX_ATTEMPTS

\* No session and no call: nobody holds a right.
LEMMA InitIInv == Init => IInv
BY NoneAssumption
   DEF Init, IInv, TypeOK, LocalsOK, FamiliesOK, OneHolder, OneActivePerFamily

\* A call that returns or throws without writing anything.
LEMMA EndIInv ==
  ASSUME NEW r \in Req, IInv, End(r), UNCHANGED <<docs, cache, history>>
  PROVE  IInv'
<1> USE DEF IInv, TypeOK, LocalsOK, FamiliesOK, OneHolder, OneActivePerFamily,
            Goto, End, docs, history
<1>1. TypeOK'
  OBVIOUS
<1>2. pc' = [pc EXCEPT ![r] = "idle"] /\ \A q \in Req \ {r} :
        target'[q] = target[q] /\ child'[q] = child[q]
  OBVIOUS
<1>3. LocalsOK' /\ FamiliesOK'
  BY <1>2
<1>4. OneHolder'
  BY <1>2
<1>5. QED
  BY <1>1, <1>3, <1>4

\* The calls that start a request.
LEMMA StartIInv ==
  ASSUME NEW r \in Req, IInv, Start(r)
  PROVE  IInv'
<1> USE DEF IInv, TypeOK, LocalsOK, FamiliesOK, OneHolder, OneActivePerFamily,
            Starts, Goto, End, docs, locals, history, cacheLiveness, Exists,
            Active
<1>1. CASE CreateCount(r)
  BY <1>1 DEF CreateCount
<1>2. CASE RevokeAllFind(r)
  BY <1>2 DEF RevokeAllFind
<1>3. ASSUME NEW s \in Sess, RefreshClaim(r, s)
      PROVE  IInv'
  BY <1>3 DEF RefreshClaim
<1>4. ASSUME NEW s \in Sess, Revoke(r, s)
      PROVE  IInv'
  BY <1>4 DEF Revoke
<1>5. ASSUME NEW s \in Sess, CheckCached(r, s)
      PROVE  IInv'
  BY <1>5 DEF CheckCached
<1>6. ASSUME NEW s \in Sess, Touch(r, s)
      PROVE  IInv'
  BY <1>6 DEF Touch
<1>7. QED
  BY <1>1, <1>2, <1>3, <1>4, <1>5, <1>6 DEF Start

\* The steps of a rotation.
LEMMA RotationIInv ==
  ASSUME NEW r \in Req, IInv, Rotation(r)
  PROVE  IInv'
<1> USE DEF IInv, TypeOK, LocalsOK, FamiliesOK, OneHolder, OneActivePerFamily,
            Goto, End, docs, history, cacheLiveness, Exists, Fresh, Rotate
<1>1. CASE TxSnapshot(r)
  <2>1. CASE ParentRotating(r)
    BY <1>1, <2>1 DEF TxSnapshot
  <2>2. CASE ~ParentRotating(r)
    BY <1>1, <2>2, EndIInv DEF TxSnapshot
  <2>3. QED
    BY <2>1, <2>2
<1>2. CASE TxCommit(r)
  BY <1>2 DEF TxCommit
<1>3. CASE TxConflict(r)
  BY <1>3 DEF TxConflict
<1>4. CASE BareCreate(r)
  BY <1>4 DEF BareCreate
<1>5. CASE BareCheck(r)
  <2>1. CASE ParentRotating(r)
    BY <1>5, <2>1, SMTT(30) DEF BareCheck
  <2>2. CASE ~ParentRotating(r)
    BY <1>5, <2>2, EndIInv DEF BareCheck
  <2>3. QED
    BY <2>1, <2>2
<1>6. CASE BareFinalise(r)
  BY <1>6 DEF BareFinalise
<1>7. CASE MarkParent(r)
  BY <1>7 DEF MarkParent
<1>8. CASE MarkChild(r)
  BY <1>8 DEF MarkChild
<1>9. QED
  BY <1>1, <1>2, <1>3, <1>4, <1>5, <1>6, <1>7, <1>8 DEF Rotation

\* The other steps of a running call.
LEMMA ContinueIInv ==
  ASSUME NEW r \in Req, IInv, Continue(r)
  PROVE  IInv'
<1> USE DEF IInv, TypeOK, LocalsOK, FamiliesOK, OneHolder, OneActivePerFamily,
            Goto, End, docs, history, cacheLiveness, Exists, Fresh, Active
<1>1. CASE Rotation(r)
  BY <1>1, RotationIInv
<1>2. CASE RefreshLookup(r)
  <2>1. CASE status[target[r]] \in Settled
    BY <1>2, <2>1 DEF RefreshLookup
  <2>2. CASE status[target[r]] \notin Settled
    BY <1>2, <2>2, SMTT(30) DEF RefreshLookup
  <2>3. QED
    BY <2>1, <2>2
<1>3. CASE FamilyFind(r)
  BY <1>3 DEF FamilyFind, FamilyDocs
<1>4. CASE FamilyUpdate(r)
  BY <1>4 DEF FamilyUpdate, FamilyDocs
<1>5. CASE DeleteMarker(r)
  <2>1. CASE todo[r] = {}
    BY <1>5, <2>1, SMTT(30) DEF DeleteMarker
  <2>2. CASE todo[r] # {}
    BY <1>5, <2>2 DEF DeleteMarker
  <2>3. QED
    BY <2>1, <2>2
<1>6. CASE LimitFind(r)
  BY <1>6 DEF LimitFind
<1>7. CASE LimitRevoke(r)
  BY <1>7 DEF LimitRevoke
<1>8. CASE LimitDelete(r)
  BY <1>8 DEF LimitDelete
<1>9. CASE CreateInsert(r)
  BY <1>9 DEF CreateInsert
<1>10. CASE MarkNew(r)
  BY <1>10 DEF MarkNew
<1>11. CASE RevokeAllUpdate(r)
  BY <1>11 DEF RevokeAllUpdate
<1>12. CASE CheckRead(r)
  <2>1. CASE status[target[r]] = "active" /\ target[r] \notin expired
    BY <1>12, <2>1 DEF CheckRead
  <2>2. CASE ~(status[target[r]] = "active" /\ target[r] \notin expired)
    BY <1>12, <2>2, EndIInv DEF CheckRead
  <2>3. QED
    BY <2>1, <2>2
<1>13. CASE CheckMark(r)
  BY <1>13 DEF CheckMark
<1>14. QED
  BY <1>1, <1>2, <1>3, <1>4, <1>5, <1>6, <1>7, <1>8, <1>9, <1>10, <1>11,
     <1>12, <1>13 DEF Continue

\* Database errors and crashes.
LEMMA FaultsIInv ==
  ASSUME NEW r \in Req, IInv, Faults(r)
  PROVE  IInv'
<1> USE DEF IInv, TypeOK, LocalsOK, FamiliesOK, OneHolder, OneActivePerFamily,
            Goto, End, docs, history, Exists, Fresh
<1>1. CASE TxError(r)
  <2>1. CASE End(r)
    BY <1>1, <2>1 DEF TxError
  <2>2. CASE Goto(r, "claimed") /\ attempt[r] < MAX_ATTEMPTS
             /\ attempt' = [attempt EXCEPT ![r] = @ + 1]
             /\ UNCHANGED <<target, child, todo>>
    BY <1>1, <2>2 DEF TxError
  <2>3. CASE Goto(r, "bare") /\ UNCHANGED <<target, child, todo, attempt>>
    BY <1>1, <2>3 DEF TxError
  <2>4. QED
    BY <1>1, <2>1, <2>2, <2>3 DEF TxError
<1>2. CASE TxCommitUnknown(r)
  BY <1>2 DEF TxCommitUnknown, Rotate
<1>3. CASE Fail(r)
  BY <1>3 DEF Fail
<1>4. QED
  BY <1>1, <1>2, <1>3 DEF Faults

\* The admin routes, the TTL index and the clock.
LEMMA EnvironmentIInv ==
  ASSUME IInv, Environment
  PROVE  IInv'
<1> USE DEF IInv, TypeOK, LocalsOK, FamiliesOK, OneHolder, OneActivePerFamily,
            docs, locals, history, Exists, Active
<1>1. CASE AdminDeleteUser
  BY <1>1 DEF AdminDeleteUser
<1>2. ASSUME NEW s \in Sess, AdminRevoke(s)
      PROVE  IInv'
  BY <1>2 DEF AdminRevoke
<1>3. ASSUME NEW s \in Sess, Expire(s)
      PROVE  IInv'
  BY <1>3 DEF Expire
<1>4. ASSUME NEW s \in Sess, TtlDelete(s)
      PROVE  IInv'
  BY <1>4 DEF TtlDelete
<1>5. ASSUME NEW s \in Sess, MarkerExpire(s)
      PROVE  IInv'
  BY <1>5 DEF MarkerExpire
<1>6. QED
  BY <1>1, <1>2, <1>3, <1>4, <1>5 DEF Environment

\* Every step keeps the types and the one holder of a family.
LEMMA NextIInv == IInv /\ [Next]_vars => IInv'
<1> SUFFICES ASSUME IInv, [Next]_vars
             PROVE  IInv'
  OBVIOUS
<1>1. ASSUME NEW r \in Req, Start(r)
      PROVE  IInv'
  BY <1>1, StartIInv
<1>2. ASSUME NEW r \in Req, Continue(r)
      PROVE  IInv'
  BY <1>2, ContinueIInv
<1>3. ASSUME NEW r \in Req, Faults(r)
      PROVE  IInv'
  BY <1>3, FaultsIInv
<1>4. CASE Environment
  BY <1>4, EnvironmentIInv
<1>5. CASE UNCHANGED vars
  BY <1>5 DEF vars, docs, locals, history, IInv, TypeOK, LocalsOK, FamiliesOK,
              OneHolder, OneActivePerFamily
<1>6. QED
  BY <1>1, <1>2, <1>3, <1>4, <1>5 DEF Next

\* Every reachable state of the service is well typed and every family has at
\* most one holder of its right to rotate.
THEOREM HolderTheorem == Spec => []IInv
BY InitIInv, NextIInv, PTL DEF Spec

\* The documents, markers and call frames keep their types.
THEOREM TypeCorrect == Spec => []TypeOK
<1>1. IInv => TypeOK
  BY DEF IInv
<1>2. QED
  BY <1>1, HolderTheorem, PTL

\* The claim of refresh() makes a refresh token single-use: at no time are two
\* sessions of a family active, whatever calls, errors and crashes interleave.
THEOREM SingleUse == Spec => []OneActivePerFamily
<1>1. IInv => OneActivePerFamily
  BY DEF IInv, OneHolder
<1>2. QED
  BY <1>1, HolderTheorem, PTL
-----------------------------------------------------------------------------
(***************************************************************************)
(* Reuse detection.  When revokeFamily has updated a family, a call that   *)
(* still holds a claim in it finds the parent no longer rotating, so the   *)
(* child it inserts is never returned; a child inserted before the update  *)
(* was revoked by it.                                                      *)
(***************************************************************************)
Rechecked == {"bareFinal", "markParent", "markChild", "markNew"}

KilledOK ==
  /\ \A f \in killed : status[f] # "none"
  /\ \A r \in Req : pc[r] = "bareCheck" => family[child[r]] = family[target[r]]
  /\ \A r \in Req :
       pc[r] \in Claiming \cup {"bareCheck"} /\ family[target[r]] \in killed =>
         status[target[r]] # "rotating"
  /\ \A r \in Req :
       pc[r] \in Rechecked /\ family[child[r]] \in killed =>
         status[child[r]] # "active"
  /\ KilledFamilyUnusable

KInv == IInv /\ KilledOK

\* No family is killed at the start.
LEMMA InitKilled == Init => KilledOK
BY DEF Init, KilledOK, Rechecked, KilledFamilyUnusable

\* Steps that only move the program counter of a call on, or end it.
LEMMA EndKilled ==
  ASSUME NEW r \in Req, KInv, End(r), UNCHANGED <<docs, killed, handed>>
  PROVE  KilledOK'
BY DEF KInv, KilledOK, Rechecked, KilledFamilyUnusable, IInv, TypeOK, End, Goto,
       docs

\* A call that starts: a claim needs an active session, which a killed family has none
\* of in a client's hands.
LEMMA StartKilled ==
  ASSUME NEW r \in Req, KInv, Start(r)
  PROVE  KilledOK'
<1> USE DEF KInv, IInv, TypeOK, LocalsOK, FamiliesOK, KilledOK, Rechecked,
            KilledFamilyUnusable, Starts, Goto, docs, locals, history
<1>1. CASE CreateCount(r)
  BY <1>1 DEF CreateCount
<1>2. CASE RevokeAllFind(r)
  BY <1>2 DEF RevokeAllFind
<1>3. ASSUME NEW s \in Sess, RefreshClaim(r, s)
      PROVE  KilledOK'
  <2>1. CASE status[s] = "active"
    BY <1>3, <2>1 DEF RefreshClaim
  <2>2. CASE status[s] # "active"
    BY <1>3, <2>2 DEF RefreshClaim
  <2>3. QED
    BY <2>1, <2>2
<1>4. ASSUME NEW s \in Sess, Revoke(r, s)
      PROVE  KilledOK'
  BY <1>4 DEF Revoke, Exists
<1>5. ASSUME NEW s \in Sess, CheckCached(r, s)
      PROVE  KilledOK'
  BY <1>5 DEF CheckCached
<1>6. ASSUME NEW s \in Sess, Touch(r, s)
      PROVE  KilledOK'
  BY <1>6 DEF Touch
<1>7. QED
  BY <1>1, <1>2, <1>3, <1>4, <1>5, <1>6 DEF Start

\* A rotation that was overtaken keeps its child to itself.
LEMMA RotationKilled ==
  ASSUME NEW r \in Req, KInv, Rotation(r)
  PROVE  KilledOK'
<1> USE DEF KInv, IInv, TypeOK, LocalsOK, FamiliesOK, KilledOK, Rechecked,
            KilledFamilyUnusable, Goto, docs, history, Fresh, Exists
<1>1. CASE TxSnapshot(r)
  <2>1. CASE status[target[r]] = "rotating"
    BY <1>1, <2>1 DEF TxSnapshot
  <2>2. CASE status[target[r]] # "rotating"
    BY <1>1, <2>2, EndKilled DEF TxSnapshot
  <2>3. QED
    BY <2>1, <2>2
<1>2. CASE TxCommit(r)
  BY <1>2 DEF TxCommit, Rotate
<1>3. CASE TxConflict(r)
  BY <1>3 DEF TxConflict
<1>4. CASE BareCreate(r)
  BY <1>4 DEF BareCreate
<1>5. CASE BareCheck(r)
  <2>1. CASE status[target[r]] = "rotating"
    BY <1>5, <2>1 DEF BareCheck
  <2>2. CASE status[target[r]] # "rotating"
    BY <1>5, <2>2, EndKilled DEF BareCheck
  <2>3. QED
    BY <2>1, <2>2
<1>6. CASE BareFinalise(r)
  BY <1>6 DEF BareFinalise
<1>7. CASE MarkParent(r)
  BY <1>7 DEF MarkParent
<1>8. CASE MarkChild(r)
  BY <1>8 DEF MarkChild, End
<1>9. QED
  BY <1>1, <1>2, <1>3, <1>4, <1>5, <1>6, <1>7, <1>8 DEF Rotation

\* The other steps of a call; revokeFamily's update is what kills a family.
LEMMA ContinueKilled ==
  ASSUME NEW r \in Req, KInv, Continue(r)
  PROVE  KilledOK'
<1> USE DEF KInv, IInv, TypeOK, LocalsOK, FamiliesOK, KilledOK, Rechecked,
            KilledFamilyUnusable, Goto, docs, history, Fresh, Exists, Active
<1>1. CASE Rotation(r)
  BY <1>1, RotationKilled
<1>2. CASE RefreshLookup(r)
  <2>1. CASE status[target[r]] \in Settled
    BY <1>2, <2>1 DEF RefreshLookup
  <2>2. CASE status[target[r]] \notin Settled
    BY <1>2, <2>2, EndKilled DEF RefreshLookup
  <2>3. QED
    BY <2>1, <2>2
<1>3. CASE FamilyFind(r)
  BY <1>3 DEF FamilyFind
<1>4. CASE FamilyUpdate(r)
  BY <1>4 DEF FamilyUpdate, FamilyDocs
<1>5. CASE DeleteMarker(r)
  <2>1. CASE End(r)
    BY <1>5, <2>1, EndKilled DEF DeleteMarker
  <2>2. CASE UNCHANGED <<pc, target, child, attempt>>
    BY <1>5, <2>2 DEF DeleteMarker
  <2>3. QED
    BY <1>5, <2>1, <2>2 DEF DeleteMarker
<1>6. CASE LimitFind(r)
  BY <1>6 DEF LimitFind
<1>7. CASE LimitRevoke(r)
  BY <1>7 DEF LimitRevoke
<1>8. CASE LimitDelete(r)
  BY <1>8 DEF LimitDelete
<1>9. CASE CreateInsert(r)
  BY <1>9 DEF CreateInsert
<1>10. CASE MarkNew(r)
  BY <1>10 DEF MarkNew, End
<1>11. CASE RevokeAllUpdate(r)
  BY <1>11 DEF RevokeAllUpdate
<1>12. CASE CheckRead(r)
  <2>1. CASE status[target[r]] = "active" /\ target[r] \notin expired
    BY <1>12, <2>1 DEF CheckRead
  <2>2. CASE ~(status[target[r]] = "active" /\ target[r] \notin expired)
    BY <1>12, <2>2, EndKilled DEF CheckRead
  <2>3. QED
    BY <2>1, <2>2
<1>13. CASE CheckMark(r)
  BY <1>13, EndKilled DEF CheckMark
<1>14. QED
  BY <1>1, <1>2, <1>3, <1>4, <1>5, <1>6, <1>7, <1>8, <1>9, <1>10, <1>11,
     <1>12, <1>13 DEF Continue

\* Errors, lost commit answers and crashes give nobody a token.
LEMMA FaultsKilled ==
  ASSUME NEW r \in Req, KInv, Faults(r)
  PROVE  KilledOK'
<1> USE DEF KInv, IInv, TypeOK, LocalsOK, FamiliesOK, KilledOK, Rechecked,
            KilledFamilyUnusable, Goto, docs, history, Fresh
<1>1. CASE TxError(r)
  <2>1. CASE End(r)
    BY <1>1, <2>1, EndKilled DEF TxError
  <2>2. CASE \E l \in Claiming :
               Goto(r, l) /\ UNCHANGED <<target, child, todo>>
    BY <1>1, <2>2 DEF TxError
  <2>3. QED
    BY <1>1, <2>1, <2>2 DEF TxError
<1>2. CASE TxCommitUnknown(r)
  BY <1>2 DEF TxCommitUnknown, Rotate, End
<1>3. CASE Fail(r)
  BY <1>3, EndKilled DEF Fail
<1>4. QED
  BY <1>1, <1>2, <1>3 DEF Faults

\* Expiry, the TTL index and the admin routes only take sessions away.
LEMMA EnvironmentKilled ==
  ASSUME KInv, Environment
  PROVE  KilledOK'
<1> USE DEF KInv, IInv, TypeOK, LocalsOK, FamiliesOK, KilledOK, Rechecked,
            KilledFamilyUnusable, docs, locals, history, Exists, Active
<1>1. CASE AdminDeleteUser
  BY <1>1 DEF AdminDeleteUser
<1>2. ASSUME NEW s \in Sess, AdminRevoke(s)
      PROVE  KilledOK'
  BY <1>2 DEF AdminRevoke
<1>3. ASSUME NEW s \in Sess, Expire(s)
      PROVE  KilledOK'
  BY <1>3 DEF Expire
<1>4. ASSUME NEW s \in Sess, TtlDelete(s)
      PROVE  KilledOK'
  BY <1>4 DEF TtlDelete
<1>5. ASSUME NEW s \in Sess, MarkerExpire(s)
      PROVE  KilledOK'
  BY <1>5 DEF MarkerExpire
<1>6. QED
  BY <1>1, <1>2, <1>3, <1>4, <1>5 DEF Environment

\* Every step leaves killed families unusable.
LEMMA NextKilled == KInv /\ [Next]_vars => KilledOK'
<1> SUFFICES ASSUME KInv, [Next]_vars
             PROVE  KilledOK'
  OBVIOUS
<1>1. CASE UNCHANGED vars
  BY <1>1 DEF vars, docs, locals, history, KInv, KilledOK, Rechecked,
              KilledFamilyUnusable
<1>2. QED
  BY <1>1, StartKilled, ContinueKilled, FaultsKilled, EnvironmentKilled DEF Next

\* The theft response of refresh() is final for clients: after revokeFamily has
\* updated a family, no session of it is active with its token in a client's
\* hands, with or without transactions and whatever rotation was in flight.
THEOREM ReuseEndsFamily == Spec => []KilledFamilyUnusable
<1>1. Init => KInv
  BY InitIInv, InitKilled DEF KInv
<1>2. KInv /\ [Next]_vars => KInv'
  BY NextIInv, NextKilled DEF KInv
<1>3. KInv => KilledFamilyUnusable
  BY DEF KInv, KilledOK
<1>4. QED
  BY <1>1, <1>2, <1>3, PTL DEF Spec
-----------------------------------------------------------------------------
(***************************************************************************)
(* The refinement.  To RefreshFamily a step of the service is one of four  *)
(* kinds: it creates no session and no claim (and may end some), it turns  *)
(* an active session into a claim, a claim into an active session of the   *)
(* same family, or it starts a family.                                     *)
(***************************************************************************)

\* Only inserts make a session.
SameSessions == \A s \in Sess : status'[s] = "none" <=> status[s] = "none"

SameCalls(Q) ==
  \A q \in Q : pc'[q] \in Claiming =>
                  pc[q] \in Claiming /\ target'[q] = target[q]

Drops ==
  /\ family' = family /\ SameSessions /\ SameCalls(Req)
  /\ \A s \in Sess : status'[s] = "active" => status[s] = "active"

Claims(r, s) ==
  /\ family' = family /\ pc[r] \notin Claiming
  /\ status[s] = "active" /\ status' = [status EXCEPT ![s] = "rotating"]
  /\ pc' = [pc EXCEPT ![r] = "claimed"] /\ target' = [target EXCEPT ![r] = s]

Inserts(r, c, f) ==
  /\ status[c] = "none" /\ status'[c] = "active"
  /\ \A s \in Sess \ {c} : /\ status'[s] = "none" <=> status[s] = "none"
                           /\ status'[s] = "active" <=> status[s] = "active"
  /\ family' = [family EXCEPT ![c] = f]
  /\ pc'[r] \notin Claiming
  /\ \A q \in Req \ {r} : pc'[q] = pc[q] /\ target'[q] = target[q]

Renews(r, c) == pc[r] \in Claiming /\ Inserts(r, c, family[target[r]])
Founds(r, c) == pc[r] \notin Claiming /\ Inserts(r, c, c)

StepKind ==
  \/ Drops
  \/ \E r \in Req, s \in Sess : Claims(r, s) \/ Renews(r, s) \/ Founds(r, s)

\* The end of a call changes no session.
LEMMA EndDrops ==
  ASSUME NEW r \in Req, IInv, End(r), UNCHANGED docs
  PROVE  Drops
BY DEF IInv, TypeOK, End, Goto, docs, Drops, SameSessions, SameCalls

\* What a starting call does to the sessions.
LEMMA StartKind ==
  ASSUME NEW r \in Req, IInv, Start(r)
  PROVE  StepKind
<1> USE DEF IInv, TypeOK, LocalsOK, Starts, Goto, docs, locals, Exists, Drops,
            SameSessions, SameCalls, StepKind
<1>1. CASE CreateCount(r)
  BY <1>1 DEF CreateCount
<1>2. CASE RevokeAllFind(r)
  BY <1>2 DEF RevokeAllFind
<1>3. ASSUME NEW s \in Sess, RefreshClaim(r, s)
      PROVE  StepKind
  <2>1. CASE status[s] = "active"
    <3>1. Claims(r, s)
      BY <1>3, <2>1 DEF RefreshClaim, Claims
    <3>2. QED
      BY <3>1
  <2>2. CASE status[s] # "active"
    BY <1>3, <2>2 DEF RefreshClaim
  <2>3. QED
    BY <2>1, <2>2
<1>4. ASSUME NEW s \in Sess, Revoke(r, s)
      PROVE  StepKind
  BY <1>4 DEF Revoke
<1>5. ASSUME NEW s \in Sess, CheckCached(r, s)
      PROVE  StepKind
  BY <1>5 DEF CheckCached
<1>6. ASSUME NEW s \in Sess, Touch(r, s)
      PROVE  StepKind
  BY <1>6 DEF Touch
<1>7. QED
  BY <1>1, <1>2, <1>3, <1>4, <1>5, <1>6 DEF Start

\* What a step of a rotation does to the sessions.
LEMMA RotationKind ==
  ASSUME NEW r \in Req, IInv, Rotation(r)
  PROVE  StepKind
<1> USE DEF IInv, TypeOK, LocalsOK, Goto, docs, Exists, Fresh
<1>1. CASE TxSnapshot(r)
  BY <1>1, EndDrops DEF TxSnapshot, StepKind, Drops, SameSessions, SameCalls
<1>2. CASE TxCommit(r)
  <2>1. PICK c \in Fresh : Rotate(r, c)
    BY <1>2 DEF TxCommit
  <2>2. Renews(r, c)
    BY <1>2, <2>1, ZenonT(30) DEF TxCommit, Rotate, Renews, Inserts
  <2>3. QED
    BY <2>2 DEF StepKind
<1>3. CASE TxConflict(r)
  BY <1>3 DEF TxConflict, StepKind, Drops, SameSessions, SameCalls
<1>4. CASE BareCreate(r)
  <2>1. PICK c \in Fresh : /\ status' = [status EXCEPT ![c] = "active"]
                            /\ family' = [family EXCEPT ![c] = family[target[r]]]
    BY <1>4 DEF BareCreate
  <2>2. Renews(r, c)
    BY <1>4, <2>1 DEF BareCreate, Renews, Inserts
  <2>3. QED
    BY <2>2 DEF StepKind
<1>5. CASE BareCheck(r)
  BY <1>5, EndDrops DEF BareCheck, StepKind, Drops, SameSessions, SameCalls
<1>6. CASE BareFinalise(r)
  BY <1>6 DEF BareFinalise, StepKind, Drops, SameSessions, SameCalls
<1>7. CASE MarkParent(r)
  BY <1>7 DEF MarkParent, StepKind, Drops, SameSessions, SameCalls
<1>8. CASE MarkChild(r)
  BY <1>8, EndDrops DEF MarkChild, StepKind
<1>9. QED
  BY <1>1, <1>2, <1>3, <1>4, <1>5, <1>6, <1>7, <1>8 DEF Rotation

\* What the other steps of a call do to the sessions.
LEMMA ContinueKind ==
  ASSUME NEW r \in Req, IInv, Continue(r)
  PROVE  StepKind
<1> USE DEF IInv, TypeOK, LocalsOK, Goto, docs, Exists, Active, StepKind, Drops,
            SameSessions, SameCalls
<1>1. CASE Rotation(r)
  BY <1>1, RotationKind
<1>2. CASE RefreshLookup(r)
  BY <1>2, EndDrops DEF RefreshLookup
<1>3. CASE FamilyFind(r)
  BY <1>3 DEF FamilyFind
<1>4. CASE FamilyUpdate(r)
  BY <1>4 DEF FamilyUpdate, FamilyDocs
<1>5. CASE DeleteMarker(r)
  BY <1>5, EndDrops DEF DeleteMarker
<1>6. CASE LimitFind(r)
  BY <1>6 DEF LimitFind
<1>7. CASE LimitRevoke(r)
  BY <1>7 DEF LimitRevoke
<1>8. CASE LimitDelete(r)
  BY <1>8 DEF LimitDelete
<1>9. CASE CreateInsert(r)
  <2>1. PICK c \in Fresh : /\ status' = [status EXCEPT ![c] = "active"]
                            /\ family' = [family EXCEPT ![c] = c]
    BY <1>9 DEF CreateInsert
  <2>2. Founds(r, c)
    BY <1>9, <2>1 DEF CreateInsert, Fresh, Founds, Inserts
  <2>3. QED
    BY <2>2 DEF Fresh
<1>10. CASE MarkNew(r)
  BY <1>10, EndDrops DEF MarkNew
<1>11. CASE RevokeAllUpdate(r)
  BY <1>11 DEF RevokeAllUpdate
<1>12. CASE CheckRead(r)
  BY <1>12, EndDrops DEF CheckRead
<1>13. CASE CheckMark(r)
  BY <1>13, EndDrops DEF CheckMark
<1>14. QED
  BY <1>1, <1>2, <1>3, <1>4, <1>5, <1>6, <1>7, <1>8, <1>9, <1>10, <1>11,
     <1>12, <1>13 DEF Continue

\* Every step is one of the kinds that the refinement tells apart.
LEMMA NextKind == IInv /\ [Next]_vars => StepKind
<1> SUFFICES ASSUME IInv, [Next]_vars
             PROVE  StepKind
  OBVIOUS
<1> USE DEF IInv, TypeOK, LocalsOK, Goto, docs, locals, Exists, Active
<1>1. ASSUME NEW r \in Req, TxError(r)
      PROVE  StepKind
  BY <1>1, EndDrops DEF TxError, StepKind, Drops, SameSessions, SameCalls
<1>2. ASSUME NEW r \in Req, TxCommitUnknown(r)
      PROVE  StepKind
  <2>1. PICK c \in Fresh : Rotate(r, c)
    BY <1>2 DEF TxCommitUnknown
  <2>2. /\ pc[r] = "tx" /\ status[target[r]] = "rotating"
        /\ pc' = [pc EXCEPT ![r] = "idle"]
        /\ target' = [target EXCEPT ![r] = None]
    BY <1>2 DEF TxCommitUnknown, End
  <2>3. Renews(r, c)
    BY <2>1, <2>2 DEF Rotate, Renews, Inserts, Fresh
  <2>4. QED
    BY <2>3 DEF StepKind, Fresh
<1>3. ASSUME NEW r \in Req, Fail(r)
      PROVE  StepKind
  BY <1>3, EndDrops DEF Fail, StepKind
<1>4. CASE Environment
  BY <1>4 DEF Environment, AdminDeleteUser, AdminRevoke, Expire, TtlDelete,
              MarkerExpire, StepKind, Drops, SameSessions, SameCalls
<1>5. CASE UNCHANGED vars
  BY <1>5 DEF vars, StepKind, Drops, SameSessions, SameCalls
<1>6. QED
  BY <1>1, <1>2, <1>3, <1>4, <1>5, StartKind, ContinueKind DEF Next, Faults

\* A family is named by a session of its own; an id that was never used has none.
FamilyHeads ==
  \A s \in Sess : /\ status[s] = "none" => family[s] = None
                  /\ status[s] # "none" => family[family[s]] = family[s]

RInv == IInv /\ FamilyHeads

\* There is no family at the start.
LEMMA InitHeads == Init => FamilyHeads
BY DEF Init, FamilyHeads

\* Every step keeps what the refinement mapping reads of a family.
LEMMA NextHeads ==
  ASSUME RInv, StepKind
  PROVE  FamilyHeads'
<1> USE DEF RInv, IInv, TypeOK, LocalsOK, FamiliesOK, FamilyHeads
<1>1. CASE Drops
  BY <1>1 DEF Drops, SameSessions
<1>2. ASSUME NEW r \in Req, NEW s \in Sess, Claims(r, s)
      PROVE  FamilyHeads'
  BY <1>2 DEF Claims
<1>3. ASSUME NEW r \in Req, NEW c \in Sess, Renews(r, c)
      PROVE  FamilyHeads'
  BY <1>3 DEF Renews, Inserts
<1>4. ASSUME NEW r \in Req, NEW c \in Sess, Founds(r, c)
      PROVE  FamilyHeads'
  BY <1>4 DEF Founds, Inserts
<1>5. QED
  BY <1>1, <1>2, <1>3, <1>4 DEF StepKind

\* What the right of a family is, without the order of the tests.
LEMMA RightFacts ==
  ASSUME RInv, NEW f \in Sess
  PROVE  /\ HasToken(f) => RightOf(f) = "token"
         /\ HasClaim(f) => RightOf(f) = "claim"
         /\ ~HasToken(f) /\ ~HasClaim(f) =>
              RightOf(f) = IF family[f] = f THEN "lost" ELSE "unborn"
         /\ ~(HasToken(f) /\ HasClaim(f))
BY NoneAssumption DEF RInv, IInv, TypeOK, LocalsOK, FamiliesOK, OneHolder, FamilyHeads,
   HasToken, HasClaim, RightOf

\* A step of the first kind loses the rights it ends, and gives none.
LEMMA DropsRefines ==
  ASSUME RInv, RInv', Drops
  PROVE  \E F \in SUBSET Sess : Rights!Lose(F)
<1> DEFINE F == {f \in Sess : RightOf(f)' # RightOf(f)}
<1>1. ASSUME NEW f \in Sess
      PROVE  /\ HasToken(f)' => HasToken(f)
             /\ HasClaim(f)' => HasClaim(f)
             /\ family'[f] = family[f]
  BY <1>1 DEF Drops, SameCalls, HasToken, HasClaim
<1>2. ASSUME NEW f \in Sess
      PROVE  RightOf(f)' = RightOf(f)
             \/ (RightOf(f) \in {"token", "claim"} /\ RightOf(f)' = "lost")
  <2>1. CASE HasToken(f)'
    BY <2>1, <1>1, RightFacts DEF RightOf
  <2>2. CASE ~HasToken(f)'
    BY <2>2, <1>1, RightFacts DEF RightOf
  <2>3. QED
    BY <2>1, <2>2
<1>3. F \in SUBSET Sess
  OBVIOUS
<1>4. \A f \in F : [g \in Sess |-> RightOf(g)][f] \in {"token", "claim"}
  BY <1>2
<1>5. [f \in Sess |-> RightOf(f)]'
        = [f \in Sess |-> IF f \in F THEN "lost" ELSE RightOf(f)]
  BY <1>2
<1>6. Rights!Lose(F)
  BY <1>4, <1>5 DEF Rights!Lose
<1>7. QED
  BY <1>3, <1>6

\* A claim takes the token of one family and leaves the others alone.
LEMMA ClaimsRefines ==
  ASSUME RInv, RInv', NEW r \in Req, NEW s \in Sess, Claims(r, s)
  PROVE  \E f \in Sess : Rights!Claim(f)
<1> USE DEF RInv, IInv, TypeOK, LocalsOK, FamiliesOK
<1>0. PICK f0 \in Sess : f0 = family[s]
  BY DEF Claims
<1>1. HasToken(f0)
  BY <1>0 DEF Claims, HasToken
<1>2. HasClaim(f0)' /\ ~HasToken(f0)' /\ family'[f0] = f0
  BY <1>0 DEF Claims, HasClaim, HasToken, OneHolder, OneActivePerFamily, FamilyHeads
<1>3. ASSUME NEW f \in Sess \ {f0}
      PROVE  /\ HasToken(f)' <=> HasToken(f)
             /\ HasClaim(f)' <=> HasClaim(f)
             /\ family'[f] = family[f]
  BY <1>0, <1>3 DEF Claims, HasToken, HasClaim
<1>4. RightOf(f0) = "token" /\ RightOf(f0)' = "claim"
  BY <1>1, <1>2, RightFacts DEF RightOf
<1>5. \A f \in Sess \ {f0} : RightOf(f)' = RightOf(f)
  BY <1>3 DEF RightOf
<1>6. [f \in Sess |-> RightOf(f)]'
        = [[f \in Sess |-> RightOf(f)] EXCEPT ![f0] = "claim"]
  BY <1>1, <1>4, <1>5
<1>7. Rights!Claim(f0)
  BY <1>1, <1>4, <1>6 DEF Rights!Claim
<1>8. QED
  BY <1>1, <1>7

\* The insert of a rotation turns the claim back into a token.
LEMMA RenewsRefines ==
  ASSUME RInv, RInv', NEW r \in Req, NEW c \in Sess, Renews(r, c)
  PROVE  \E f \in Sess : Rights!Renew(f)
<1> USE DEF RInv, IInv, TypeOK, LocalsOK, FamiliesOK
<1>0. PICK f0 \in Sess : f0 = family[target[r]]
  BY DEF Renews
<1>1. HasClaim(f0)
  BY <1>0 DEF Renews, HasClaim
<1>2. HasToken(f0)' /\ family'[f0] = f0
  BY <1>0 DEF Renews, Inserts, HasToken, FamilyHeads
<1>3. ASSUME NEW f \in Sess \ {f0}
      PROVE  HasToken(f)' <=> HasToken(f)
  BY <1>0, <1>3, NoneAssumption DEF Renews, Inserts, HasToken
<1>4. ASSUME NEW f \in Sess \ {f0}
      PROVE  HasClaim(f)' <=> HasClaim(f)
  BY <1>0, <1>4 DEF Renews, Inserts, HasClaim
<1>5. ASSUME NEW f \in Sess \ {f0}
      PROVE  family'[f] = f <=> family[f] = f
  BY <1>0, <1>5, NoneAssumption DEF Renews, Inserts, FamilyHeads
<1>6. RightOf(f0) = "claim" /\ RightOf(f0)' = "token"
  BY <1>1, <1>2, RightFacts DEF RightOf
<1>7. \A f \in Sess \ {f0} : RightOf(f)' = RightOf(f)
  BY <1>3, <1>4, <1>5 DEF RightOf
<1>8. [f \in Sess |-> RightOf(f)]'
        = [[f \in Sess |-> RightOf(f)] EXCEPT ![f0] = "token"]
  BY <1>1, <1>6, <1>7
<1>9. Rights!Renew(f0)
  BY <1>1, <1>6, <1>8 DEF Rights!Renew
<1>10. QED
  BY <1>1, <1>9

\* A login starts a family nobody has had a right in.
LEMMA FoundsRefines ==
  ASSUME RInv, RInv', NEW r \in Req, NEW c \in Sess, Founds(r, c)
  PROVE  \E f \in Sess : Rights!Login(f)
<1> USE DEF RInv, IInv, TypeOK, LocalsOK, FamiliesOK
<1>1. RightOf(c) = "unborn"
  BY NoneAssumption DEF Founds, Inserts, FamilyHeads, RightOf
<1>2. HasToken(c)'
  BY DEF Founds, Inserts, HasToken
<1>3. ASSUME NEW f \in Sess \ {c}
      PROVE  HasToken(f)' <=> HasToken(f)
  BY <1>3, NoneAssumption DEF Founds, Inserts, HasToken
<1>4. ASSUME NEW f \in Sess \ {c}
      PROVE  HasClaim(f)' <=> HasClaim(f)
  BY <1>4 DEF Founds, Inserts, HasClaim
<1>5. \A f \in Sess \ {c} : family'[f] = family[f]
  BY DEF Founds, Inserts
<1>6. RightOf(c)' = "token"
  BY <1>2 DEF Founds, Inserts, RightOf
<1>7. \A f \in Sess \ {c} : RightOf(f)' = RightOf(f)
  BY <1>3, <1>4, <1>5 DEF RightOf
<1>8. [f \in Sess |-> RightOf(f)]'
        = [[f \in Sess |-> RightOf(f)] EXCEPT ![c] = "token"]
  BY <1>6, <1>7
<1>9. Rights!Login(c)
  BY <1>1, <1>8 DEF Rights!Login
<1>10. QED
  BY <1>9

\* The session service implements RefreshFamily: to a client a family is one right to
\* a session that is passed on by refresh() and, once a revocation, an expiry, an error
\* or a crash has lost it, never comes back.
THEOREM RefinesRefreshFamily == Spec => ImplementsRefreshFamily
<1>1. Init => RInv
  BY InitIInv, InitHeads DEF RInv
<1>2. RInv /\ [Next]_vars => RInv'
  BY NextIInv, NextKind, NextHeads DEF RInv
<1>3. Init => Rights!Init
  BY NoneAssumption DEF Init, Rights!Init, RightOf
<1>4. RInv /\ RInv' /\ [Next]_vars => [Rights!Next]_([f \in Sess |-> RightOf(f)])
  BY NextKind, DropsRefines, ClaimsRefines, RenewsRefines, FoundsRefines
     DEF RInv, StepKind, Rights!Next
<1>5. QED
  BY <1>1, <1>2, <1>3, <1>4, PTL DEF Spec, ImplementsRefreshFamily, Rights!Spec
-----------------------------------------------------------------------------
(***************************************************************************)
(* On a replica set, and without errors and crashes, the body of a         *)
(* rotation only runs in a transaction.  Then a rotating document always   *)
(* has the call that claimed it, which makes it a holder of the family,    *)
(* and no insert follows a revocation of the family.                       *)
(***************************************************************************)
Bare == {"bare", "bareCheck", "bareFinal"}

TxInv ==
  /\ \A r \in Req : pc[r] \notin Bare
  /\ RotatingInFlight
  /\ KilledFamilyDead

WInv == KInv /\ TxInv

\* Nothing is rotating at the start.
LEMMA InitTx == Init => TxInv
BY DEF Init, TxInv, Bare, RotatingInFlight, KilledFamilyDead

\* A claim puts the rotating session into the hands of its call.
LEMMA StartTx ==
  ASSUME WInv, NEW r \in Req, Start(r)
  PROVE  TxInv'
<1> USE DEF WInv, KInv, IInv, TypeOK, LocalsOK, TxInv, Bare, RotatingInFlight,
            KilledFamilyDead, Starts, Goto, docs, locals, history
<1>1. CASE CreateCount(r)
  BY <1>1 DEF CreateCount
<1>2. CASE RevokeAllFind(r)
  BY <1>2 DEF RevokeAllFind
<1>3. ASSUME NEW s \in Sess, RefreshClaim(r, s)
      PROVE  TxInv'
  BY <1>3 DEF RefreshClaim
<1>4. ASSUME NEW s \in Sess, Revoke(r, s)
      PROVE  TxInv'
  BY <1>4 DEF Revoke
<1>5. ASSUME NEW s \in Sess, CheckCached(r, s)
      PROVE  TxInv'
  BY <1>5 DEF CheckCached
<1>6. ASSUME NEW s \in Sess, Touch(r, s)
      PROVE  TxInv'
  BY <1>6 DEF Touch
<1>7. QED
  BY <1>1, <1>2, <1>3, <1>4, <1>5, <1>6 DEF Start

\* A commit settles the rotation; no rotation takes the three-step path.
LEMMA RotationTx ==
  ASSUME Transactional, WInv, NEW r \in Req, Rotation(r)
  PROVE  TxInv'
<1> USE DEF WInv, KInv, IInv, TypeOK, LocalsOK, FamiliesOK, KilledOK, TxInv, Bare,
            RotatingInFlight, KilledFamilyDead, Goto, End, docs, history, Fresh
<1>1. CASE TxSnapshot(r)
  BY <1>1 DEF TxSnapshot
<1>2. CASE TxCommit(r)
  BY <1>2 DEF TxCommit, Rotate
<1>3. CASE TxConflict(r)
  BY <1>3 DEF TxConflict
<1>4. CASE BareCreate(r) \/ BareCheck(r) \/ BareFinalise(r)
  BY <1>4 DEF BareCreate, BareCheck, BareFinalise
<1>5. CASE MarkParent(r)
  BY <1>5 DEF MarkParent
<1>6. CASE MarkChild(r)
  BY <1>6 DEF MarkChild
<1>7. QED
  BY <1>1, <1>2, <1>3, <1>4, <1>5, <1>6 DEF Rotation

\* The other steps of a call under transactions.
LEMMA ContinueTx ==
  ASSUME Transactional, WInv, NEW r \in Req, Continue(r)
  PROVE  TxInv'
<1> USE DEF WInv, KInv, IInv, TypeOK, LocalsOK, FamiliesOK, TxInv, Bare,
            RotatingInFlight, KilledFamilyDead, Goto, End, docs, history, Fresh,
            Exists, Active
<1>1. CASE Rotation(r)
  BY <1>1, RotationTx
<1>2. CASE RefreshLookup(r)
  BY <1>2 DEF RefreshLookup
<1>3. CASE FamilyFind(r)
  BY <1>3 DEF FamilyFind
<1>4. CASE FamilyUpdate(r)
  BY <1>4 DEF FamilyUpdate, FamilyDocs
<1>5. CASE DeleteMarker(r)
  BY <1>5 DEF DeleteMarker
<1>6. CASE LimitFind(r)
  BY <1>6 DEF LimitFind
<1>7. CASE LimitRevoke(r)
  BY <1>7 DEF LimitRevoke
<1>8. CASE LimitDelete(r)
  BY <1>8 DEF LimitDelete
<1>9. CASE CreateInsert(r)
  BY <1>9 DEF CreateInsert, KilledOK
<1>10. CASE MarkNew(r)
  BY <1>10 DEF MarkNew
<1>11. CASE RevokeAllUpdate(r)
  BY <1>11 DEF RevokeAllUpdate
<1>12. CASE CheckRead(r)
  BY <1>12 DEF CheckRead
<1>13. CASE CheckMark(r)
  BY <1>13 DEF CheckMark
<1>14. QED
  BY <1>1, <1>2, <1>3, <1>4, <1>5, <1>6, <1>7, <1>8, <1>9, <1>10, <1>11,
     <1>12, <1>13 DEF Continue

\* Expiry, the TTL index, the admin routes and the markers under transactions.
LEMMA EnvironmentTx ==
  ASSUME WInv, Environment
  PROVE  TxInv'
<1> USE DEF WInv, KInv, IInv, TypeOK, TxInv, Bare, RotatingInFlight,
            KilledFamilyDead, docs, locals, history, Exists, Active
<1>1. CASE AdminDeleteUser
  BY <1>1 DEF AdminDeleteUser
<1>2. CASE \E s \in Sess : AdminRevoke(s) \/ Expire(s) \/ TtlDelete(s) \/ MarkerExpire(s)
  BY <1>2 DEF AdminRevoke, Expire, TtlDelete, MarkerExpire
<1>3. QED
  BY <1>1, <1>2 DEF Environment

\* Every step under transactions keeps the invariant.
LEMMA NextTx ==
  ASSUME Transactional, ~MayFail
  PROVE  WInv /\ [Next]_vars => WInv'
<1> SUFFICES ASSUME WInv, [Next]_vars
             PROVE  TxInv'
  BY NextIInv, NextKilled DEF WInv, KInv
<1>1. ASSUME NEW r \in Req, Faults(r)
      PROVE  FALSE
  BY <1>1 DEF Faults, TxError, TxCommitUnknown, Fail
<1>2. CASE UNCHANGED vars
  BY <1>2 DEF vars, docs, locals, history, WInv, TxInv, RotatingInFlight,
              KilledFamilyDead
<1>3. QED
  BY <1>1, <1>2, StartTx, ContinueTx, EnvironmentTx DEF Next

\* The invariant holds in every state reached with transactions and without faults.
LEMMA TransactionalInv ==
  ASSUME Transactional, ~MayFail
  PROVE  Spec => []WInv
<1>1. Init => WInv
  BY InitIInv, InitKilled, InitTx DEF WInv, KInv
<1>2. QED
  BY <1>1, NextTx, PTL DEF Spec

\* refresh() with transactions is all or nothing to everybody else: no family has an
\* active session beside a rotating one, and a rotating one has the call that will
\* settle it.
THEOREM RotationIsWhole ==
  ASSUME Transactional, ~MayFail
  PROVE  Spec => []RotationWhole
<1>1. WInv => RotationWhole
  BY DEF WInv, TxInv, Bare, KInv, IInv, TypeOK, OneHolder, RotationWhole,
         NoHalfRotation, RotatingInFlight
<1>2. QED
  BY <1>1, TransactionalInv, PTL

\* With transactions reuse detection leaves no session of the family active at all:
\* a child inserted by a rotation it overtook is rolled back.
THEOREM KilledIsDead ==
  ASSUME Transactional, ~MayFail
  PROVE  Spec => []KilledFamilyDead
<1>1. WInv => KilledFamilyDead
  BY DEF WInv, TxInv
<1>2. QED
  BY <1>1, TransactionalInv, PTL

\* Every step takes every document along an edge of the lifecycle, or nowhere.
LEMMA NextDrawn ==
  ASSUME Transactional, ~MayFail, WInv, Next
  PROVE  DrawnStep
<1> USE DEF WInv, KInv, IInv, TypeOK, LocalsOK, TxInv, Bare, DrawnStep, Edges, Exists,
            Active, Fresh, docs, locals
<1>1. ASSUME NEW r \in Req, Start(r)
      PROVE  DrawnStep
  BY <1>1 DEF Start, CreateCount, RevokeAllFind, RefreshClaim, Revoke, CheckCached, Touch
<1>2. ASSUME NEW r \in Req, Rotation(r)
      PROVE  DrawnStep
  BY <1>2 DEF Rotation, TxSnapshot, TxCommit, Rotate, TxConflict, BareCreate, BareCheck,
              BareFinalise, MarkParent, MarkChild
<1>3. ASSUME NEW r \in Req, LimitRevoke(r) \/ CreateInsert(r)
      PROVE  DrawnStep
  BY <1>3 DEF LimitRevoke, CreateInsert
<1>4. ASSUME NEW r \in Req, FamilyUpdate(r) \/ RevokeAllUpdate(r)
      PROVE  DrawnStep
  BY <1>4 DEF FamilyUpdate, FamilyDocs, RevokeAllUpdate
<1>5. ASSUME NEW r \in Req,
             \/ RefreshLookup(r) \/ FamilyFind(r) \/ DeleteMarker(r) \/ LimitFind(r)
             \/ LimitDelete(r) \/ MarkNew(r) \/ CheckRead(r) \/ CheckMark(r)
      PROVE  DrawnStep
  BY <1>5 DEF RefreshLookup, FamilyFind, DeleteMarker, LimitFind, LimitDelete, MarkNew,
              CheckRead, CheckMark
<1>6. ASSUME NEW r \in Req, Faults(r)
      PROVE  DrawnStep
  BY <1>6 DEF Faults, TxError, TxCommitUnknown, Fail
<1>7. CASE Environment
  BY <1>7 DEF Environment, AdminDeleteUser, AdminRevoke, Expire, TtlDelete, MarkerExpire
<1>8. QED
  BY <1>1, <1>2, <1>3, <1>4, <1>5, <1>6, <1>7 DEF Next, Continue

\* With transactions a document only moves along the edges of the documented lifecycle:
\* whatever calls overlap, nothing leaves 'revoked' but the TTL, and only a rotating
\* session is replaced.
THEOREM DrawnLifecycle ==
  ASSUME Transactional, ~MayFail
  PROVE  Spec => LifecycleDiagram
<1>1. WInv /\ [Next]_vars => [DrawnStep]_vars
  BY NextDrawn
<1>2. QED
  BY <1>1, TransactionalInv, PTL DEF Spec, LifecycleDiagram
=============================================================================

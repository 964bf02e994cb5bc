----------------------------- MODULE MfaService -----------------------------
(***************************************************************************)
(* The second factor of one user: mfa.service.ts.                          *)
(*                                                                         *)
(* Secrets are numbered in the order they are generated, 0 is null.  The   *)
(* code a call presents is what it matches: a TOTP of one secret, a backup *)
(* code of one batch (one stands for the ten), or nothing.  A batch is     *)
(* issued together with a secret and carries its number.                   *)
(***************************************************************************)
EXTENDS Naturals, FiniteSets, TLC

CONSTANTS
  Req,                \* concurrent calls
  MFA_MAX_ATTEMPTS,
  MaxSecrets          \* bound on the secrets generated

ASSUME ReqAssumption == IsFiniteSet(Req)
ASSUME LimitAssumption == MFA_MAX_ATTEMPTS \in Nat \ {0}
ASSUME SecretsAssumption == MaxSecrets \in Nat

VARIABLES
  enabled, secret,   \* user.mfaEnabled, user.mfaSecret
  failed, lock,      \* user.mfaFailedAttempts, user.mfaLockUntil (none | on | past)
  stored, used,      \* the batches of backup codes stored, and those with usedAt
  last,              \* the last secret generated
  pc, op, code, seen,\* the frame of a call; seen is the secret it has read
  replay,            \* history: per call, whether it started with a spent backup code
  spent,             \* history: backup codes whose use was written
  confirmed,         \* history: secrets for which a TOTP was presented to enable
  guesses,           \* history: wrong codes compared since the last reset (saturating)
  crossed            \* history: writes that met another state than the one read, or
                     \* were lost

user == <<enabled, secret, failed, lock>>
codes == <<stored, used>>
frame == <<pc, op, code, seen, replay>>
history == <<spent, confirmed, guesses, crossed>>
vars == <<user, codes, last, frame, history>>

Secret == 0..MaxSecrets
Operation == {"setup", "enable", "verify", "disable"}
\* Bound on the failures at which calls start (a crash may keep the lock away).
MaxGuesses == MFA_MAX_ATTEMPTS + Cardinality(Req)
Presented == {"wrong"} \X {0} \cup {"totp", "backup"} \X (1..MaxSecrets)
Wrong == <<"wrong", 0>>

PC == {"idle", "store", "delete", "insert", "activate", "gate", "unlock",
       "read", "backup", "use", "success", "failure", "lock", "off", "drop"}

TypeOK ==
  /\ enabled \in BOOLEAN /\ secret \in Secret
  /\ failed \in Nat /\ lock \in {"none", "on", "past"}
  /\ stored \subseteq Secret /\ used \subseteq stored /\ last \in Secret
  /\ pc \in [Req -> PC] /\ op \in [Req -> Operation \cup {"none"}]
  /\ code \in [Req -> Presented] /\ seen \in [Req -> Secret]
  /\ spent \subseteq Secret /\ replay \in [Req -> BOOLEAN]
  /\ confirmed \subseteq Secret /\ guesses \in 0..MaxGuesses
  /\ crossed \subseteq {"setup", "count"}

Init ==
  /\ enabled = FALSE /\ secret = 0
  /\ failed = 0 /\ lock = "none"
  /\ stored = {} /\ used = {} /\ last = 0
  /\ pc = [r \in Req |-> "idle"] /\ op = [r \in Req |-> "none"]
  /\ code = [r \in Req |-> Wrong] /\ seen = [r \in Req |-> 0]
  /\ spent = {} /\ replay = [r \in Req |-> FALSE]
  /\ confirmed = {} /\ guesses = 0 /\ crossed = {}

-----------------------------------------------------------------------------
At(r, l) == pc' = [pc EXCEPT ![r] = l]

Begin(r, o, c, l) ==
  /\ pc[r] = "idle"
  /\ At(r, l)
  /\ op' = [op EXCEPT ![r] = o]
  /\ code' = [code EXCEPT ![r] = c]
  /\ seen' = [seen EXCEPT ![r] = IF o = "verify" THEN 0 ELSE secret]
  /\ replay' = [replay EXCEPT ![r] = c[1] = "backup" /\ c[2] \in spent]

Go(r, from, to) ==
  /\ pc[r] = from
  /\ At(r, to)
  /\ UNCHANGED <<op, code, seen, replay>>

End(r) ==
  /\ At(r, "idle")
  /\ op' = [op EXCEPT ![r] = "none"]
  /\ code' = [code EXCEPT ![r] = Wrong]
  /\ seen' = [seen EXCEPT ![r] = 0]
  /\ replay' = [replay EXCEPT ![r] = FALSE]

\* A write that does not find what its call has read, or that is lost.
Cross(happens, what) ==
  crossed' = IF happens THEN crossed \cup {what} ELSE crossed

\* The count of wrong codes stops where BoundedOvershoot no longer looks at it.
Counted == IF "count" \in crossed THEN 0
           ELSE IF guesses < MaxGuesses THEN guesses + 1 ELSE guesses

\* The failures that lock the account; the mutant needs one more.
OverLimit(n) == n > MFA_MAX_ATTEMPTS
AtLimit(n) == n >= MFA_MAX_ATTEMPTS

\* find({usedAt: null}): the code matches an unused row; the mutant leaves the
\* filter out.
AnyBackup(r) == \E b \in stored : code[r] = <<"backup", b>>
UnusedBackup(r) == \E b \in stored \ used : code[r] = <<"backup", b>>

\* The row updateOne marks as used, if it is still there; the mutant upserts.
MarkedUpsert(b) == {b}
Marked(b) == {b} \cap stored

\* enable verifies against the pending secret; the mutant takes any code.
AnyTotp(r, c) == TRUE
PendingTotp(r, c) == c = <<"totp", secret>>

-----------------------------------------------------------------------------
(* beginSetup *)

BeginSetup(r) ==
  /\ ~enabled /\ last < MaxSecrets
  /\ Begin(r, "setup", Wrong, "store")
  /\ UNCHANGED <<user, codes, last, history>>

StoreSecret(r) ==
  /\ last < MaxSecrets
  /\ pc[r] = "store"
  /\ last' = last + 1
  /\ secret' = last'
  /\ At(r, "delete")
  /\ seen' = [seen EXCEPT ![r] = last']
  /\ Cross(enabled, "setup")
  /\ UNCHANGED <<enabled, failed, lock, codes, op, code, replay, spent, confirmed, guesses>>

DeleteCodes(r) ==
  /\ Go(r, "delete", "insert")
  /\ stored' = {} /\ used' = {}
  /\ UNCHANGED <<user, last, history>>

InsertCodes(r) ==
  /\ pc[r] = "insert"
  /\ stored' = stored \cup {seen[r]}
  /\ End(r)
  /\ UNCHANGED <<user, used, last, history>>

-----------------------------------------------------------------------------
(* enable *)

EnableRead(r, c) ==
  /\ secret # 0 /\ ~enabled
  /\ PendingTotp(r, c)
  /\ Begin(r, "enable", c, "activate")
  /\ confirmed' = IF c = <<"totp", secret>> THEN confirmed \cup {secret} ELSE confirmed
  /\ UNCHANGED <<user, codes, last, spent, guesses, crossed>>

Activate(r) ==
  /\ pc[r] = "activate"
  /\ enabled' = TRUE
  /\ Cross(secret # seen[r], "setup")
  /\ End(r)
  /\ UNCHANGED <<secret, failed, lock, codes, last, spent, confirmed, guesses>>

-----------------------------------------------------------------------------
(* verifyMfa and disable: mfaLocked, the comparison, the bookkeeping *)

\* disable reads the user before mfaLocked, verifyMfa after it.  A code that
\* matches no secret generated so far is Wrong.
Challenge(r, o, c) ==
  /\ o \in {"verify", "disable"}
  /\ o = "disable" => enabled
  /\ c[2] <= last
  /\ failed < MaxGuesses
  /\ Begin(r, o, c, "gate")
  /\ UNCHANGED <<user, codes, last, history>>

\* While the lock runs the call is refused, also with a right code.
MfaLocked(r) ==
  /\ pc[r] = "gate"
  /\ \/ lock = "on" /\ End(r)
     \/ lock # "on" /\ Go(r, "gate", IF lock = "past" THEN "unlock" ELSE "read")
  /\ UNCHANGED <<user, codes, last, history>>

\* An expired lock is cleared, whatever it is by now.
Unlock(r) ==
  /\ Go(r, "unlock", "read")
  /\ failed' = 0 /\ lock' = "none"
  /\ guesses' = IF lock = "past" THEN 0 ELSE guesses
  /\ Cross(lock # "past", "count")
  /\ UNCHANGED <<enabled, secret, codes, last, spent, confirmed>>

\* The secret is compared here and not used afterwards.
Read(r) ==
  /\ pc[r] = "read"
  /\ LET s == IF op[r] = "verify" THEN secret ELSE seen[r] IN
       \/ /\ op[r] = "verify" /\ (~enabled \/ secret = 0)
          /\ End(r)
       \/ /\ op[r] = "disable" \/ (enabled /\ secret # 0)
          /\ At(r, IF s # 0 /\ code[r] = <<"totp", s>> THEN "success" ELSE "backup")
          /\ seen' = [seen EXCEPT ![r] = 0]
          /\ UNCHANGED <<op, code, replay>>
  /\ UNCHANGED <<user, codes, last, history>>

\* tryBackupCode
FindBackup(r) ==
  /\ \/ /\ UnusedBackup(r)
        /\ Go(r, "backup", "use")
        /\ UNCHANGED guesses
     \/ /\ ~UnusedBackup(r)
        /\ pc[r] = "backup" /\ At(r, "failure")
        /\ code' = [code EXCEPT ![r] = Wrong]
        /\ replay' = [replay EXCEPT ![r] = FALSE]
        /\ UNCHANGED <<op, seen>>
        /\ guesses' = Counted
  /\ UNCHANGED <<user, codes, last, spent, confirmed, crossed>>

UseBackup(r) ==
  /\ Go(r, "use", "success")
  /\ used' = used \cup Marked(code[r][2])
  /\ spent' = spent \cup {code[r][2]}
  /\ UNCHANGED <<user, stored, last, confirmed, guesses, crossed>>

\* resetMfaFailures: the filter leaves a counter of 0, and its lock, alone.
ResetFailures(r) ==
  /\ pc[r] = "success"
  /\ \/ failed > 0 /\ failed' = 0 /\ lock' = "none" /\ guesses' = 0
     \/ failed = 0 /\ UNCHANGED <<failed, lock, guesses>>
  /\ \/ op[r] = "verify" /\ End(r)
     \/ op[r] = "disable" /\ Go(r, "success", "off")
  /\ UNCHANGED <<enabled, secret, codes, last, spent, confirmed, crossed>>

\* recordMfaFailure: an atomic $inc, and the lock in a second update.
CountFailure(r) ==
  /\ pc[r] = "failure"
  /\ failed' = failed + 1
  /\ \/ AtLimit(failed') /\ Go(r, "failure", "lock")
     \/ ~AtLimit(failed') /\ End(r)
  /\ UNCHANGED <<enabled, secret, lock, codes, last, history>>

Lock(r) ==
  /\ pc[r] = "lock"
  /\ lock' = "on"
  /\ End(r)
  /\ UNCHANGED <<enabled, secret, failed, codes, last, history>>

SwitchOff(r) ==
  /\ Go(r, "off", "drop")
  /\ enabled' = FALSE /\ secret' = 0
  /\ UNCHANGED <<failed, lock, codes, last, history>>

DropCodes(r) ==
  /\ pc[r] = "drop"
  /\ stored' = {} /\ used' = {}
  /\ End(r)
  /\ UNCHANGED <<user, last, history>>

-----------------------------------------------------------------------------
LockEnds ==
  /\ lock = "on"
  /\ lock' = "past" /\ guesses' = 0
  /\ UNCHANGED <<enabled, secret, failed, codes, last, frame, spent, confirmed,
                 crossed>>

\* An await rejects or the process dies.
Fail(r) ==
  /\ pc[r] # "idle"
  /\ Cross(pc[r] \in {"failure", "lock"}, "count")
  /\ End(r)
  /\ UNCHANGED <<user, codes, last, spent, confirmed, guesses>>

Continue(r) ==
  \/ StoreSecret(r) \/ DeleteCodes(r) \/ InsertCodes(r) \/ Activate(r)
  \/ MfaLocked(r) \/ Unlock(r) \/ Read(r) \/ FindBackup(r) \/ UseBackup(r) \/ ResetFailures(r)
  \/ CountFailure(r) \/ Lock(r) \/ SwitchOff(r) \/ DropCodes(r)

Next ==
  \/ \E r \in Req :
       \/ Continue(r) \/ Fail(r) \/ BeginSetup(r)
       \/ \E c \in Presented :
            EnableRead(r, c) \/ \E o \in Operation : Challenge(r, o, c)
  \/ LockEnds

Spec == Init /\ [][Next]_vars

-----------------------------------------------------------------------------
(* Properties *)

\* Backup codes are single-use: a challenge that starts after the use of a code
\* was written never accepts that code, whatever setups, removals, failures and
\* other challenges happen meanwhile.
BackupCodeOnce ==
  \A r \in Req : pc[r] = "use" => ~replay[r]

\* MFA is on only with a secret whose TOTP the user has presented, unless a setup
\* wrote a secret between the check of enable and its update.
EnabledIsConfirmed ==
  "setup" \notin crossed => (enabled => secret \in confirmed)

\* A spent backup code is never accepted again and MFA is only on with a confirmed
\* secret; the variables keep their types.
FactorHolds == TypeOK /\ BackupCodeOnce /\ EnabledIsConfirmed

\* MFA_MAX_ATTEMPTS wrong codes are compared before the lock, and one more by
\* each other call that passed the lock check before the lock was set: no failure
\* is lost, because recordMfaFailure increments the counter atomically.  Two
\* exceptions: a call that stops before its failure or its lock is written, and
\* one that clears an expired lock after somebody else has.
BoundedOvershoot ==
  "count" \notin crossed =>
    guesses <= MFA_MAX_ATTEMPTS + Cardinality(Req) - 1

\* For TLC: calls are interchangeable.
Symmetry == Permutations(Req)
=============================================================================

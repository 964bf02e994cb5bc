---------------------------- MODULE LoginLockout ----------------------------
(***************************************************************************)
(* The account lock of auth.engine.ts: loginPassword with recordFailedLogin*)
(* and clearFailedLogin, and the password resets, which clear the lock too.*)
(* The lock is "past" once its 15 minutes are over: it no longer refuses,  *)
(* and the counter keeps its value.                                        *)
(***************************************************************************)
EXTENDS Naturals, FiniteSets

CONSTANTS
  Req,          \* concurrent calls
  MaxFailures,  \* failures that lock the account (5)
  MaxCounter    \* bound on the counter at which calls start

VARIABLES
  failed,   \* user.failedLoginAttempts
  lock,     \* user.loginLockUntil: none | on | past
  pc, good, \* where a call is; whether it has the right password
  seen,     \* the failures it has read
  guesses,  \* history: wrong passwords compared since the last success, reset
            \* or end of a lock (saturating)
  crossed   \* history: a failure was written over another write, or lost

frame == <<pc, good, seen>>
vars == <<failed, lock, frame, guesses, crossed>>

\* The calls in flight when the lock is set may compare one password each.
MaxGuesses == MaxFailures + Cardinality(Req) - 1

TypeOK ==
  /\ failed \in Nat /\ lock \in {"none", "on", "past"}
  /\ pc \in [Req -> {"idle", "compare", "record", "clear"}]
  /\ good \in [Req -> BOOLEAN] /\ seen \in [Req -> Nat]
  /\ guesses \in 0..(MaxGuesses + 1) /\ crossed \in BOOLEAN

Init ==
  /\ failed = 0 /\ lock = "none"
  /\ pc = [r \in Req |-> "idle"]
  /\ good = [r \in Req |-> FALSE] /\ seen = [r \in Req |-> 0]
  /\ guesses = 0 /\ crossed = FALSE

\* The failures after one more.
Failures(r) == seen[r] + 1

\* The lock a failure writes; the mutants compare with > and with = instead.
LockLate(n) == IF n > MaxFailures THEN "on" ELSE "none"
LockOnce(n) == IF n = MaxFailures THEN "on" ELSE "none"
LockFor(n) == IF n >= MaxFailures THEN "on" ELSE "none"

End(r) ==
  /\ pc' = [pc EXCEPT ![r] = "idle"]
  /\ good' = [good EXCEPT ![r] = FALSE]
  /\ seen' = [seen EXCEPT ![r] = 0]

\* loginPassword reads the user and refuses a locked one.
Login(r, b) ==
  /\ pc[r] = "idle"
  /\ lock # "on"
  /\ failed < MaxCounter
  /\ pc' = [pc EXCEPT ![r] = "compare"]
  /\ good' = [good EXCEPT ![r] = b]
  /\ seen' = [seen EXCEPT ![r] = failed]
  /\ UNCHANGED <<failed, lock, guesses, crossed>>

Compare(r) ==
  /\ pc[r] = "compare"
  /\ pc' = [pc EXCEPT ![r] = IF good[r] THEN "clear" ELSE "record"]
  /\ guesses' = IF good[r] \/ guesses > MaxGuesses THEN guesses ELSE guesses + 1
  /\ UNCHANGED <<failed, lock, good, seen, crossed>>

\* recordFailedLogin writes both fields, also loginLockUntil: null.
RecordFailedLogin(r) ==
  /\ pc[r] = "record"
  /\ failed' = Failures(r)
  /\ lock' = LockFor(Failures(r))
  /\ crossed' = (crossed \/ failed # seen[r])
  /\ End(r)
  /\ UNCHANGED guesses

\* clearFailedLogin; a disabled account is refused before it and changes nothing.
ClearFailedLogin(r) ==
  /\ pc[r] = "clear"
  /\ \/ failed' = 0 /\ lock' = "none" /\ guesses' = 0
     \/ UNCHANGED <<failed, lock, guesses>>
  /\ End(r)
  /\ UNCHANGED crossed

\* resetPassword and resetPasswordWithToken.
ResetPassword ==
  /\ failed' = 0 /\ lock' = "none" /\ guesses' = 0
  /\ UNCHANGED <<frame, crossed>>

LockEnds ==
  /\ lock = "on"
  /\ lock' = "past" /\ guesses' = 0
  /\ UNCHANGED <<failed, frame, crossed>>

\* An await rejects (withAccountStore turns it into a 503) or the process dies.
Fail(r) ==
  /\ pc[r] # "idle"
  /\ crossed' = (crossed \/ pc[r] = "record")
  /\ End(r)
  /\ UNCHANGED <<failed, lock, guesses>>

Next ==
  \/ \E r \in Req :
       \/ \E b \in BOOLEAN : Login(r, b)
       \/ Compare(r) \/ RecordFailedLogin(r) \/ ClearFailedLogin(r) \/ Fail(r)
  \/ ResetPassword \/ LockEnds

Spec == Init /\ [][Next]_vars

-----------------------------------------------------------------------------
(* Properties *)

\* MaxFailures failures lock the account: before a success, a reset or the end of
\* a lock no more wrong passwords are compared than that and one by each other
\* call in flight, unless a failure was written over another write or lost.
GuessBudget == ~crossed => guesses <= MaxGuesses

\* Once the counter has reached the limit, and as long as nothing clears it,
\* every further failure locks again: the account is not left open.
FailureLocks == [][failed >= MaxFailures /\ failed' > failed => lock' = "on"]_vars
=============================================================================

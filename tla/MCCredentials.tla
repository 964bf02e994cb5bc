--------------------------- MODULE MCCredentials ----------------------------
(***************************************************************************)
(* One-time passwords, the login lockout, the flows of the auth engine and *)
(* passkeys.  They share no state: a behaviour moves the one that part     *)
(* names, and the others stay as they started.                             *)
(***************************************************************************)
EXTENDS OtpService, TLC

CONSTANTS
  Caller, MaxFailures, MaxCounter, OneCall, TwoCalls, MaxPasswords, MaxSwitches,
  Challenge, Key, MaxCount, MaxDocs

ASSUME LockoutAssumption == IsFiniteSet(Caller) /\ MaxFailures \in Nat \ {0}
ASSUME FlowsAssumption == MaxPasswords \in Nat \ {0} /\ MaxSwitches \in Nat
ASSUME PasskeysAssumption == Challenge # {} /\ Key # {} /\ {MaxCount, MaxDocs} \subseteq Nat

VARIABLES
  part,
  failed, lock, loginPc, good, loginSeen, loginGuesses, loginCrossed,
  exists, active, mfa, password, sessions, call, resetTo, switches,
  challenges, keys, lastKey, keyPc, held, key, keyCount, keySeen, used, usable, top, floor, overlap

loginVars == <<failed, lock, loginPc, good, loginSeen, loginGuesses, loginCrossed>>

flowVars == <<exists, active, mfa, password, sessions, call, resetTo, switches>>

keyVars ==
  <<challenges, keys, lastKey, keyPc, held, key, keyCount, keySeen, used, usable, top, floor, overlap>>

Lockout == INSTANCE LoginLockout WITH Req <- Caller, pc <- loginPc, seen <- loginSeen,
                                      guesses <- loginGuesses, crossed <- loginCrossed

\* A login while the account changes, and password changes at the same time.
Logins == INSTANCE SignIn WITH Call <- OneCall, MaxPasswords <- 1,
                               Methods <- {"register", "password", "otp", "mfa", "magic"}
Resets == INSTANCE SignIn WITH Call <- TwoCalls, MaxSwitches <- 0,
                               Methods <- {"password", "reset", "change"}

Passkeys == INSTANCE WebAuthn WITH Req <- TwoCalls, store <- challenges, doc <- keys, last <- lastKey,
                                   pc <- keyPc, count <- keyCount, seen <- keySeen, crossed <- overlap

AnyInit ==
  /\ part \in {"otp", "login", "logins", "resets", "passkeys"}
  /\ Init /\ Lockout!Init /\ Passkeys!Init
  /\ IF part = "resets" THEN Resets!Init ELSE Logins!Init
  /\ part \notin {"logins", "resets"} => exists
  /\ part # "otp" => \A r1, r2 \in Req : purpose[r1] = purpose[r2]

AnyNext ==
  \/ part = "otp" /\ Next /\ UNCHANGED <<part, loginVars, flowVars, keyVars>>
  \/ part = "login" /\ Lockout!Next /\ UNCHANGED <<part, vars, flowVars, keyVars>>
  \/ /\ (part = "logins" /\ Logins!Next) \/ (part = "resets" /\ Resets!Next)
     /\ UNCHANGED <<part, vars, loginVars, keyVars>>
  \/ part = "passkeys" /\ Passkeys!Next /\ UNCHANGED <<part, vars, loginVars, flowVars>>

AnySpec == AnyInit /\ [][AnyNext]_<<part, vars, loginVars, flowVars, keyVars>>

\* Calls of the OTP service are interchangeable, and so are the purposes.
Symmetry == Permutations(Req) \cup Permutations(Purpose)

-----------------------------------------------------------------------------
(* Properties *)

\* Every wrong code that was compared is counted, a code marked consumed was accepted,
\* and a call that starts after that never accepts it again.  A login asks for the second
\* factor while it is on and lets nobody in to a disabled account, and a reset ends the
\* sessions of the password it replaces.  A passkey challenge completes one ceremony, a
\* revoked credential none, and an old counter passes only where ceremonies overlapped.
FactorsHold ==
  /\ part = "otp" => TypeOK /\ AttemptBudget /\ ConsumedWasAccepted /\ NoReplay
  /\ part = "logins" => Logins!TypeOK /\ Logins!SecondFactorAsked /\ Logins!DisabledStaysOut
  /\ part = "resets" => Resets!TypeOK /\ Resets!ResetEndsOld
  /\ part = "passkeys" => /\ Passkeys!TypeOK /\ Passkeys!OneCeremony
                          /\ Passkeys!RevokedStaysOut /\ Passkeys!OldCounterRefused

\* MaxFailures wrong passwords lock the account, but for the calls in flight, and
\* a failure counted at or beyond the limit leaves it locked.
GuessBudget == [](Lockout!TypeOK /\ Lockout!GuessBudget) /\ Lockout!FailureLocks
=============================================================================

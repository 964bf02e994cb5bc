------------------------------- MODULE SignIn -------------------------------
(***************************************************************************)
(* The flows of auth.engine.ts that open a session or change the password  *)
(* of one account, from the first read to the session, beside an           *)
(* administrator who disables the account and a user who switches the      *)
(* second factor.  What an OTP, a token or an MFA code has to satisfy is   *)
(* in OtpService, VerificationTokens and MfaService; here it is good or    *)
(* not.  Passwords are numbered in the order they are set.                 *)
(***************************************************************************)
EXTENDS Naturals, Sequences

CONSTANTS
  Call,         \* concurrent calls
  Methods,      \* the flows used in this model
  MaxPasswords, \* bound: passwords set
  MaxSwitches   \* bound: changes of the account by others

VARIABLES
  exists, active, mfa, password,  \* the user document
  sessions,   \* live sessions: how they were opened, and what was true of the call
  call,       \* the calls: flow, steps left, the document they read, history
  resetTo,    \* history: the last password whose reset is through
  switches

vars == <<exists, active, mfa, password, sessions, call, resetTo, switches>>

\* The awaits of every flow that matter here, in order.  A login reads the account before
\* or after its first factor.
register == <<"create", "session">>
loginPassword == <<"user", "compare", "active", "gate", "session">>
loginOtp == <<"factor", "user", "active", "gate", "session">>
verifyMfaLogin == <<"user", "active", "code", "session">>
redeemMagicLink == <<"factor", "user", "active", "session">>
changePassword == <<"user", "compare", "write">>

\* Mutant: a reset revokes the sessions and then writes the password.
RevokesFirst == <<"factor", "user", "revoke", "write", "session">>

\* resetPassword and resetPasswordWithToken revoke the sessions once the password is
\* written.
resetPassword == <<"factor", "user", "write", "revoke", "session">>

Steps ==
  [register |-> register, password |-> loginPassword, otp |-> loginOtp, mfa |-> verifyMfaLogin,
   magic |-> redeemMagicLink, reset |-> resetPassword, change |-> changePassword]

Document == [active |-> active, mfa |-> mfa, password |-> password]

\* open: since the first factor the second was off at some time; alive: since the call
\* began the account was enabled at some time; crossed: a reset wrote the password meanwhile.
Idle == [flow |-> "none", todo |-> <<>>, seen |-> [active |-> FALSE, mfa |-> FALSE, password |-> 0],
         proven |-> FALSE, open |-> FALSE, alive |-> FALSE, crossed |-> FALSE]

Init ==
  /\ exists \in BOOLEAN /\ active = exists /\ mfa = FALSE
  /\ password = IF exists THEN 1 ELSE 0
  /\ sessions = {} /\ call = [c \in Call |-> Idle]
  /\ resetTo = 0 /\ switches = 0

-----------------------------------------------------------------------------
(* Steps of a call *)

Begin(c, m) ==
  /\ call[c] = Idle
  /\ call' = [call EXCEPT ![c] = [Idle EXCEPT !.flow = m, !.todo = Steps[m], !.alive = active]]
  /\ UNCHANGED <<exists, active, mfa, password, sessions, resetTo, switches>>

At(c, step) == call[c].todo # <<>> /\ Head(call[c].todo) = step

\* The call with its current step done; without any left it has ended.
Done(r) == IF Len(r.todo) = 1 THEN Idle ELSE [r EXCEPT !.todo = Tail(@)]

Proven(r) == [r EXCEPT !.proven = TRUE, !.open = ~mfa]

Goes(c, r) == call' = [call EXCEPT ![c] = Done(r)]
Ends(c) == call' = [call EXCEPT ![c] = Idle]

\* Nothing but the calls changes.
Kept == UNCHANGED <<exists, active, mfa, password, sessions, resetTo, switches>>

\* register: the unique index refuses a second account.
Create(c) ==
  /\ At(c, "create")
  /\ IF exists
     THEN Ends(c) /\ UNCHANGED <<exists, active, password>>
     ELSE /\ exists' = TRUE /\ active' = TRUE /\ password' = 1
          /\ call' = [k \in Call |->
                        IF k = c THEN Done([call[c] EXCEPT !.alive = TRUE])
                        ELSE IF call[k] # Idle THEN [call[k] EXCEPT !.alive = TRUE] ELSE Idle]
  /\ UNCHANGED <<mfa, sessions, resetTo, switches>>

\* findUser.
ReadUser(c) ==
  /\ At(c, "user")
  /\ IF exists THEN Goes(c, [call[c] EXCEPT !.seen = Document]) ELSE Ends(c)
  /\ Kept

\* verifyOtp or redeem: a good one is used up, whatever follows.
Factor(c) ==
  /\ At(c, "factor")
  /\ Goes(c, Proven(call[c])) \/ Ends(c)
  /\ Kept

\* verifyPassword against the hash that was read; a good one clears the failures (see
\* LoginLockout).
Compare(c) ==
  /\ At(c, "compare")
  /\ Goes(c, Proven(call[c])) \/ Ends(c)
  /\ Kept

\* Mutant: nobody looks at isActive.
Anybody(c) == TRUE

\* The document that was read says whether the account is enabled.
Enabled(c) == call[c].seen.active

CheckActive(c) ==
  /\ At(c, "active")
  /\ IF Enabled(c) THEN Goes(c, call[c]) ELSE Ends(c)
  /\ Kept

\* Mutant: the gate looks at the document read at the start.
GateAsRead(c) == call[c].seen.mfa

\* mfa.isEnabled reads the user again.
Gate(c) == mfa

\* Behind the gate the caller is told mfaRequired and gets no session.
PassGate(c) ==
  /\ At(c, "gate")
  /\ IF Gate(c) THEN Ends(c) ELSE Goes(c, call[c])
  /\ Kept

\* verifyMfa, and the second look at the user, which only has to be there.
VerifyCode(c) ==
  /\ At(c, "code")
  /\ (mfa /\ Goes(c, Proven(call[c]))) \/ Ends(c)
  /\ Kept

\* The new password; a reset is then known to the calls under way.
WritePassword(c) ==
  /\ At(c, "write") /\ password < MaxPasswords
  /\ password' = password + 1
  /\ call' = [k \in Call |->
                IF k = c THEN Done([call[c] EXCEPT !.seen.password = password + 1])
                ELSE [call[k] EXCEPT !.crossed = @ \/ (call[k] # Idle /\ call[c].flow = "reset")]]
  /\ UNCHANGED <<exists, active, mfa, sessions, resetTo, switches>>

\* sessions.revokeAll of the user in this application.
RevokeAll(c) ==
  /\ At(c, "revoke")
  /\ sessions' = {}
  /\ Goes(c, call[c])
  /\ UNCHANGED <<exists, active, mfa, password, resetTo, switches>>

\* sessions.create; mintTokens follows (see AccountTokens).
OpenSession(c) ==
  /\ At(c, "session")
  /\ sessions' = sessions \union
       {[by |-> call[c].flow, password |-> call[c].seen.password, open |-> call[c].open,
         alive |-> call[c].alive, crossed |-> call[c].crossed]}
  /\ resetTo' = IF call[c].flow = "reset" /\ call[c].seen.password > resetTo
                THEN call[c].seen.password ELSE resetTo
  /\ Goes(c, call[c])
  /\ UNCHANGED <<exists, active, mfa, password, switches>>

\* An await rejects, or the process ends.
Fail(c) ==
  /\ call[c] # Idle /\ Ends(c)
  /\ Kept

-----------------------------------------------------------------------------
(* The others *)

Switch == exists /\ switches < MaxSwitches /\ switches' = switches + 1

\* PATCH /users/:id; the calls under way have met an enabled account.
SetActive(b) ==
  /\ Switch /\ active' = b
  /\ call' = [c \in Call |-> [call[c] EXCEPT !.alive = @ \/ (b /\ call[c] # Idle)]]
  /\ UNCHANGED <<exists, mfa, password, sessions, resetTo>>

\* confirmSetup and disable.
SetMfa(b) ==
  /\ Switch /\ mfa' = b
  /\ call' = [c \in Call |-> [call[c] EXCEPT !.open = @ \/ (~b /\ call[c].proven)]]
  /\ UNCHANGED <<exists, active, password, sessions, resetTo>>

Next ==
  \/ \E c \in Call :
       \/ \E m \in Methods : Begin(c, m)
       \/ Create(c) \/ ReadUser(c) \/ Factor(c) \/ Compare(c) \/ CheckActive(c)
       \/ PassGate(c) \/ VerifyCode(c) \/ WritePassword(c) \/ RevokeAll(c) \/ OpenSession(c)
       \/ Fail(c)
  \/ \E b \in BOOLEAN : SetActive(b) \/ SetMfa(b)

Spec == Init /\ [][Next]_vars

-----------------------------------------------------------------------------
(* Properties *)

TypeOK ==
  /\ {exists, active, mfa} \subseteq BOOLEAN
  /\ password \in 0..MaxPasswords /\ resetTo \in 0..MaxPasswords /\ switches \in 0..MaxSwitches
  /\ \A c \in Call : call[c].flow \in Methods \union {"none"}

\* Password and OTP logins open no session on the first factor alone while the second one
\* is on, even if it was switched on after the login had read the account.
SecondFactorAsked ==
  \A s \in sessions : s.by \in {"password", "otp"} => s.open

\* Nobody logs in to an account that was disabled all the while.
DisabledStaysOut ==
  \A s \in sessions : s.by \in {"password", "otp", "mfa", "magic"} => s.alive

\* Once a reset is through, no session is left that an earlier password opened, but for
\* logins that overlapped the reset.
ResetEndsOld ==
  \A s \in sessions : s.by = "password" /\ s.password < resetTo => s.crossed
=============================================================================

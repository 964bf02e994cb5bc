------------------------------ MODULE MCClients ------------------------------
(***************************************************************************)
(* What a client waits for: the tokens for an authorization code and the   *)
(* delivery of a one-time password.  The parts share no state: a behaviour *)
(* moves the one that part names, and the others stay as they started.     *)
(* Probes of the delivery's readiness share with its dispatches only the   *)
(* providers' health, and are a part of their own.                         *)
(***************************************************************************)
EXTENDS OAuthCode

CONSTANTS Call, Providers, attempts, failureThreshold, successThreshold

VARIABLES
  part,
  chain, circuit, failures, successes, cooled, up, sendPc, at, attempt, taken, lost,
  turn, healthy, available, worked, broken

otpVars ==
  <<chain, circuit, failures, successes, cooled, up, sendPc, at, attempt, taken, lost,
    turn, healthy, available, worked, broken>>

Otp == INSTANCE OtpDelivery WITH state <- circuit, pc <- sendPc

AnyInit ==
  /\ part \in {"codes", "otp", "probe"}
  /\ Init /\ Otp!Init
  /\ part = "codes" => chain = (CHOOSE c \in Otp!Chains : TRUE)

InCodes(A) == part = "codes" /\ A /\ UNCHANGED <<part, otpVars>>
InOtp(A) == part = "otp" /\ A /\ UNCHANGED <<part, vars>>
InProbe(A) == part = "probe" /\ A /\ UNCHANGED <<part, vars>>

AnyNext == InCodes(Next) \/ InOtp(Otp!DispatchNext) \/ InProbe(Otp!ProbeNext)

anyVars == <<part, vars, otpVars>>

\* The fairness of each part, for the behaviours that move it.
AnyFairness ==
  /\ \A r \in Req : WF_anyVars(InCodes(Continue(r)))
  /\ \A c \in Call : WF_anyVars(InOtp(Otp!Continue(c)))
  /\ \A p \in Otp!Provider : WF_anyVars(InOtp(Otp!CooldownEnds(p)))

AnySpec == AnyInit /\ [][AnyNext]_anyVars /\ AnyFairness

-----------------------------------------------------------------------------
(* Properties *)

\* A one-time password is reported as sent only when a provider accepted it, a breaker
\* that has seen its limit of failures is not closed, the breaker of a provider that
\* works again closes, and readiness reports what the providers said.
OtpDelivers ==
  /\ [](part # "codes" =>
          Otp!TypeOK /\ Otp!FailClosed /\ Otp!BreakerTrips /\ Otp!ProbeHonest)
  /\ Otp!BreakerRecovers
=============================================================================

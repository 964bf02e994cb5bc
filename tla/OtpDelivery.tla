---------------------------- MODULE OtpDelivery -----------------------------
(***************************************************************************)
(* OtpDeliveryManager.dispatch over a chain of providers, each wrapped in  *)
(* withRetry and, outside it, withCircuitBreaker (otp-provider.ts).  The   *)
(* breakers are shared by all dispatches; a send is an await, so a result  *)
(* may be recorded in another state of the breaker than it was allowed in. *)
(* The vendor adapters of a chain differ in how they read the answer of    *)
(* their vendor, and that is all that is kept of them.                     *)
(***************************************************************************)
EXTENDS Naturals, Sequences

CONSTANTS
  Call,              \* concurrent dispatches
  Providers,         \* length of the longest chain
  attempts,          \* RetryOptions.attempts
  failureThreshold, successThreshold

Provider == 1..Providers

-----------------------------------------------------------------------------
(* The adapters: does a 2xx count as acceptance; does a refusal come with  *)
(* its status code; is an error returned as a result, not thrown; does the *)
(* health check ask for something only a working vendor grants; is there a *)
(* vendor at all.                                                          *)

Http == [reads |-> TRUE, codes |-> TRUE, catches |-> TRUE, asks |-> TRUE, remote |-> TRUE]

SendGridProvider == Http
MailgunProvider == Http
TwilioSmsProvider == Http
AwsSnsProvider == Http

\* The health check is a SendEmail, of which any answer will do.
AwsSesProvider == [Http EXCEPT !.asks = FALSE]

\* An error has no status, and the health check only builds the transport.
NodemailerSmtpProvider == [Http EXCEPT !.codes = FALSE, !.asks = FALSE]

\* A 2xx is searched for a field that parseJsonBody does not return.
VonageSmsProvider == [Http EXCEPT !.reads = FALSE]

ConsoleEmailProvider == [Http EXCEPT !.asks = FALSE, !.remote = FALSE]
MockSmsProvider == ConsoleEmailProvider

\* An OtpProvider of the application's own, which may throw.
OwnProvider == [Http EXCEPT !.catches = FALSE]

\* The chains the identity server builds, and the ones only the library offers.
EmailChains ==
  {<<NodemailerSmtpProvider>>, <<SendGridProvider>>, <<AwsSesProvider>>, <<ConsoleEmailProvider>>}
SmsChains == {<<TwilioSmsProvider>>, <<AwsSnsProvider>>, <<MockSmsProvider>>}
LibraryChains ==
  {<<MailgunProvider, SendGridProvider>>, <<VonageSmsProvider>>, <<OwnProvider>>}
Chains == EmailChains \cup SmsChains \cup LibraryChains

-----------------------------------------------------------------------------
VARIABLES
  chain,             \* the wrapped providers of the channel, in order of priority
  state,             \* of each breaker: closed | open | half_open
  failures, successes,  \* consecutiveFailures, consecutiveSuccesses (saturating)
  cooled,            \* cooldownMs have passed since openedAt
  up,                \* the provider accepts what it is sent
  pc, at, attempt,   \* a dispatch: where it is, its provider and its attempt there
  taken,             \* history: acceptances of the message of a dispatch (0, 1 or more; once
                     \* one is lost, only whether there are any)
  lost,              \* history: dispatches whose acceptance was answered by an error
  turn,              \* a readiness probe: the provider it asks next, 0 when there is none
  healthy,           \* the providers that have answered it with ok
  available,         \* the verdict of the last one
  worked, broken     \* history: providers that were up, or down, since the probe began

breaker == <<state, failures, successes, cooled>>
frame == <<pc, at, attempt>>
probing == <<turn, healthy, available, worked, broken>>
vars == <<chain, breaker, up, frame, taken, lost, probing>>

TypeOK ==
  /\ state \in [Provider -> {"closed", "open", "half_open"}]
  /\ failures \in [Provider -> 0..failureThreshold]
  /\ successes \in [Provider -> 0..successThreshold]
  /\ cooled \in [Provider -> BOOLEAN] /\ up \in [Provider -> BOOLEAN]
  /\ pc \in [Call -> {"idle", "guard", "send", "sent", "failed"}]
  /\ at \in [Call -> Provider] /\ attempt \in [Call -> 1..attempts]
  /\ taken \in [Call -> 0..2] /\ lost \subseteq Call
  /\ chain \in Chains /\ Len(chain) <= Providers
  /\ turn \in 0..Providers /\ available \in BOOLEAN
  /\ healthy \subseteq Provider /\ worked \subseteq Provider /\ broken \subseteq Provider

Init ==
  /\ state = [p \in Provider |-> "closed"]
  /\ failures = [p \in Provider |-> 0] /\ successes = [p \in Provider |-> 0]
  /\ cooled = [p \in Provider |-> FALSE] /\ up = [p \in Provider |-> TRUE]
  /\ pc = [c \in Call |-> "idle"]
  /\ at = [c \in Call |-> 1] /\ attempt = [c \in Call |-> 1]
  /\ taken = [c \in Call |-> 0] /\ lost = {}
  /\ chain \in Chains
  /\ turn = 0 /\ healthy = {} /\ available = TRUE /\ worked = {} /\ broken = {}

-----------------------------------------------------------------------------
Saturate(n, most) == IF n < most THEN n + 1 ELSE n

\* setState, with openedAt for the one transition that needs it.
SetState(p, next) ==
  /\ state' = [state EXCEPT ![p] = next]
  /\ cooled' = [cooled EXCEPT ![p] = @ /\ next # "open"]

\* The limit of recordFailure; the mutant is off by one.
TripsLate(p) == failures[p] >= failureThreshold
Trips(p) == Saturate(failures[p], failureThreshold) >= failureThreshold

RecordFailure(p) ==
  /\ failures' = [failures EXCEPT ![p] = Saturate(@, failureThreshold)]
  /\ successes' = [successes EXCEPT ![p] = 0]
  /\ IF (state[p] = "closed" /\ Trips(p)) \/ state[p] = "half_open"
       THEN SetState(p, "open")
       ELSE UNCHANGED <<state, cooled>>

\* recordSuccess.  The failures are forgotten only when the breaker closes.
RecordSuccess(p) ==
  LET enough == Saturate(successes[p], successThreshold) >= successThreshold IN
    /\ successes' = [successes EXCEPT ![p] = Saturate(@, successThreshold)]
    /\ \/ /\ state[p] = "half_open" /\ enough
          /\ failures' = [failures EXCEPT ![p] = 0]
          /\ SetState(p, "closed")
       \/ state[p] = "open" /\ SetState(p, "half_open") /\ UNCHANGED failures
       \/ /\ state[p] = "closed" \/ (state[p] = "half_open" /\ ~enough)
          /\ UNCHANGED <<state, cooled, failures>>

-----------------------------------------------------------------------------
\* sendEmail, sendSms: the caller is back with a new code.
Dispatch(c) ==
  /\ pc[c] \in {"idle", "sent", "failed"}
  /\ pc' = [pc EXCEPT ![c] = "guard"]
  /\ taken' = [taken EXCEPT ![c] = 0] /\ lost' = lost \ {c}
  /\ UNCHANGED <<chain, breaker, up, at, attempt, probing>>

\* A provider has accepted.
Return(c) ==
  /\ pc' = [pc EXCEPT ![c] = "sent"]
  /\ at' = [at EXCEPT ![c] = 1] /\ attempt' = [attempt EXCEPT ![c] = 1]

\* The next provider of the chain, or the error of a dispatch that has no more.
Failover(c) ==
  /\ attempt' = [attempt EXCEPT ![c] = 1]
  /\ IF at[c] < Len(chain)
       THEN at' = [at EXCEPT ![c] = @ + 1] /\ pc' = [pc EXCEPT ![c] = "guard"]
       ELSE at' = [at EXCEPT ![c] = 1] /\ pc' = [pc EXCEPT ![c] = "failed"]

\* isOpen; the mutant waits for ever.
IsOpenForGood(p) == state[p] = "open"
IsOpen(p) == state[p] = "open" /\ ~cooled[p]

Guard(c) ==
  LET p == at[c] IN
    /\ pc[c] = "guard"
    /\ \/ IsOpen(p) /\ Failover(c) /\ UNCHANGED breaker
       \/ /\ ~IsOpen(p)
          /\ pc' = [pc EXCEPT ![c] = "send"]
          /\ IF state[p] = "open"
               THEN SetState(p, "half_open") /\ failures' = [failures EXCEPT ![p] = 0]
               ELSE UNCHANGED <<state, cooled, failures>>
          /\ UNCHANGED <<successes, at, attempt>>
    /\ UNCHANGED <<chain, up, taken, lost, probing>>

\* The vendor takes the message, and it is told or not.
Taken(c, told) ==
  /\ lost' = IF told THEN lost ELSE lost \cup {c}
  /\ taken' = [taken EXCEPT ![c] = IF c \in lost' THEN 1 ELSE Saturate(@, 2)]

\* The vendor takes the message (or there is none to refuse it), and the adapter can tell
\* it or not.
Takes(c, told) ==
  /\ pc[c] = "send" /\ (up[at[c]] \/ ~chain[at[c]].remote)
  /\ chain[at[c]].reads = told
  /\ Taken(c, told)
  /\ UNCHANGED <<chain, up, probing>>

Accepted(c) ==
  /\ Takes(c, TRUE)
  /\ RecordSuccess(at[c])
  /\ Return(c)

\* What withRetry does with a send that did not succeed; the mutant takes the last
\* one for a success.
GiveUpQuietly(c) ==
  /\ RecordSuccess(at[c])
  /\ Return(c)
GiveUp(c) == RecordFailure(at[c]) /\ Failover(c)

TryAgain(c) ==
  \/ /\ attempt[c] < attempts
     /\ attempt' = [attempt EXCEPT ![c] = @ + 1]
     /\ UNCHANGED <<breaker, pc, at>>
  \/ attempt[c] = attempts /\ GiveUp(c)

\* The vendor has taken the message and the adapter says it was rejected: with a 2xx,
\* which is retried.
Misread(c) ==
  /\ Takes(c, FALSE)
  /\ TryAgain(c)

\* A rejection is retried (defaultRetryable) unless it has the status of a client error.
Rejected(c) ==
  /\ pc[c] = "send" /\ ~up[at[c]] /\ chain[at[c]].remote
  /\ TryAgain(c) \/ (chain[at[c]].codes /\ GiveUp(c))
  /\ UNCHANGED <<chain, up, taken, lost, probing>>

\* No answer in time, perhaps to a message that was taken.  An adapter turns the error
\* into a result without a status; only from a provider that throws it does withRetry
\* learn of an abort, which it does not retry.
NoAnswer(c) ==
  /\ pc[c] = "send" /\ ~up[at[c]] /\ chain[at[c]].remote
  /\ TryAgain(c) \/ (~chain[at[c]].catches /\ GiveUp(c))
  /\ Taken(c, FALSE)
  /\ UNCHANGED <<chain, up, probing>>

CooldownEnds(p) ==
  /\ state[p] = "open" /\ ~cooled[p]
  /\ cooled' = [cooled EXCEPT ![p] = TRUE]
  /\ UNCHANGED <<chain, state, failures, successes, up, frame, taken, lost, probing>>

ProviderFlips(p) ==
  /\ up' = [up EXCEPT ![p] = ~@]
  /\ worked' = IF turn # 0 /\ ~up[p] THEN worked \cup {p} ELSE worked
  /\ broken' = IF turn # 0 /\ up[p] THEN broken \cup {p} ELSE broken
  /\ UNCHANGED <<chain, breaker, frame, taken, lost, turn, healthy, available>>

-----------------------------------------------------------------------------
(* The readiness probe asks the adapters one after the other, past their   *)
(* breakers: it reads none of the state of a dispatch and changes none.    *)

Probe ==
  /\ turn = 0
  /\ turn' = 1 /\ healthy' = {}
  /\ worked' = {p \in Provider : up[p]} /\ broken' = Provider \ worked'
  /\ UNCHANGED <<chain, breaker, up, frame, taken, lost, available>>

Answers(p) == up[p] \/ ~chain[p].asks

\* probe's verdict; the mutant wants every provider to be well.
AvailableAll(answered) == answered = 1..Len(chain)
Available(answered) == answered # {}

Ask ==
  LET answered == healthy \cup {p \in {turn} : Answers(p)} IN
    /\ turn # 0
    /\ IF turn < Len(chain)
         THEN turn' = turn + 1 /\ healthy' = answered /\ UNCHANGED available
         ELSE turn' = 0 /\ healthy' = answered /\ available' = Available(answered)
    /\ UNCHANGED <<chain, breaker, up, frame, taken, lost, worked, broken>>

Continue(c) == Guard(c) \/ Accepted(c) \/ Misread(c) \/ Rejected(c) \/ NoAnswer(c)

DispatchNext ==
  \/ \E c \in Call : Dispatch(c) \/ Continue(c)
  \/ \E p \in 1..Len(chain) : CooldownEnds(p) \/ ProviderFlips(p)

ProbeNext == Probe \/ Ask \/ \E p \in 1..Len(chain) : ProviderFlips(p)

Next == DispatchNext \/ ProbeNext

Spec == Init /\ [][Next]_vars

\* Sends settle (they have a timeout) and time passes.
Fairness ==
  /\ \A c \in Call : WF_vars(Continue(c))
  /\ \A p \in Provider : WF_vars(CooldownEnds(p))
FairSpec == Spec /\ Fairness

-----------------------------------------------------------------------------
(* Properties *)

\* Delivery is fail-closed: a dispatch returns only when a provider accepted the
\* message, one provider if no answer was lost, and none did when it throws.  To the
\* manager every acceptance Vonage reports is a lost one.
FailClosed ==
  \A c \in Call :
    /\ pc[c] = "sent" => taken[c] >= 1
    /\ c \notin lost => taken[c] = (IF pc[c] = "sent" THEN 1 ELSE 0)

\* A closed breaker has not seen failureThreshold failures since it closed, also
\* when results of sends from before an outage come in late.
BreakerTrips == \A p \in Provider : state[p] = "closed" => failures[p] < failureThreshold

\* Readiness calls a channel unavailable only if each of its providers was down, and
\* available only if one was up, during the probe; the adapters that do not ask
\* always say they are well.
ProbeHonest ==
  turn = 0 /\ worked \cup broken # {} =>
    /\ ~available => 1..Len(chain) \subseteq broken
    /\ available => \E p \in 1..Len(chain) : p \in worked \/ ~chain[p].asks

Tells(p) == p <= Len(chain) /\ chain[p].reads

\* A provider that works again is used again: if it keeps accepting and dispatches
\* keep arriving at it, its breaker closes for good, unless its adapter cannot tell.
BreakerRecovers ==
  \A p \in Provider :
    <>[](up[p]) /\ [](Tells(p)) /\ []<>(\E c \in Call : pc[c] = "guard" /\ at[c] = p)
      => <>[](state[p] = "closed")
=============================================================================

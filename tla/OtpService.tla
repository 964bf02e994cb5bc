----------------------------- MODULE OtpService -----------------------------
(***************************************************************************)
(* One-time codes: otp.service.ts for one channel and target.  The attempt *)
(* budget and the cooldown live in the cache and are shared by all         *)
(* purposes; the code is one document per purpose.                         *)
(*                                                                         *)
(* Generated codes are numbered in the order they are generated and are    *)
(* taken to be distinct; NoCode stands for a guess that matches none.  The *)
(* document's own `attempts` counter is written but never read, and left   *)
(* out.                                                                    *)
(***************************************************************************)
EXTENDS Naturals, FiniteSets

CONSTANTS
  Req,          \* concurrent calls
  Purpose,      \* OtpPurpose
  maxAttempts,  \* options.maxAttempts
  MaxCodes      \* bound on the codes generated

ASSUME ReqAssumption == IsFiniteSet(Req)
ASSUME AttemptsAssumption == maxAttempts \in Nat
ASSUME CodesAssumption == MaxCodes \in Nat

VARIABLES
  doc,       \* the document of each purpose (id 0: none)
  attempts,  \* cache: failed attempts in the window (0: no key)
  cooldown,  \* cache: the resend cooldown runs
  last,      \* the number of the code generated last
  pc, purpose, count, code,    \* the frame of a call: what it was given or read ...
  found,     \* ... and the id of the document it found
  accepted,  \* history: the codes that were accepted
  guesses,   \* history: wrong codes compared since the budget was last cleared, as long as
             \* no failure was lost
  spent,     \* history: codes whose consumption was written
  replay,    \* history: per call, whether its code was spent when it started
  crossed    \* history: writes that met another state than the one read

cache == <<attempts, cooldown>>
given == <<purpose, count, code, found, replay>>
frame == <<pc, given>>
history == <<accepted, guesses, spent, crossed>>
vars == <<doc, cache, last, frame, history>>

NoCode == 0
Code == 0..MaxCodes
PC == {"idle", "budget", "upsert", "cool", "send", "lookup", "fail", "consume",
       "clear", "clearCooldown"}

\* guesses is only told apart up to one more than AttemptBudget can allow.
GuessLimit == maxAttempts + Cardinality(Req) + 1

Doc == [id : Code, code : Code, consumed : BOOLEAN, expired : BOOLEAN]
NoDoc == [id |-> 0, code |-> NoCode, consumed |-> FALSE, expired |-> FALSE]
Live(d) == d.id # 0 /\ ~d.consumed /\ ~d.expired

TypeOK ==
  /\ doc \in [Purpose -> Doc]
  /\ attempts \in 0..maxAttempts
  /\ cooldown \in BOOLEAN
  /\ last \in Code
  /\ pc \in [Req -> PC]
  /\ purpose \in [Req -> Purpose]
  /\ count \in [Req -> 0..maxAttempts]
  /\ code \in [Req -> Code] /\ found \in [Req -> Code]
  /\ accepted \subseteq Code /\ guesses \in 0..GuessLimit
  /\ spent \subseteq Code /\ replay \in [Req -> BOOLEAN]
  /\ crossed \subseteq {"failure", "resend"}

Init ==
  /\ doc = [p \in Purpose |-> NoDoc]
  /\ attempts = 0 /\ cooldown = FALSE
  /\ last = 0
  /\ pc = [r \in Req |-> "idle"]
  /\ purpose \in [Req -> Purpose]
  /\ count = [r \in Req |-> 0]
  /\ code = [r \in Req |-> NoCode] /\ found = [r \in Req |-> 0]
  /\ accepted = {} /\ guesses = 0 /\ crossed = {}
  /\ spent = {} /\ replay = [r \in Req |-> FALSE]

-----------------------------------------------------------------------------
At(r, l) == pc' = [pc EXCEPT ![r] = l]

Done(r) ==
  /\ At(r, "idle")
  /\ count' = [count EXCEPT ![r] = 0]
  /\ code' = [code EXCEPT ![r] = NoCode]
  /\ found' = [found EXCEPT ![r] = 0]
  /\ replay' = [replay EXCEPT ![r] = FALSE]
  /\ UNCHANGED purpose

\* The budget is used up; the mutant allows one more.
ExhaustedLate(n) == n > maxAttempts
Exhausted(n) == n >= maxAttempts

\* The number of failures stored after one more; the mutant starts again.
FirstFailure(n) == 1
NextFailure(n) == n + 1

\* The upsert of a new code; the mutant does not clear the flag of the old one.
Id(d, c) == IF d = NoDoc THEN c ELSE d.id
ReissuedAsIs(d, c) == [d EXCEPT !.id = Id(d, c), !.code = c, !.expired = FALSE]
Reissued(d, c) == [id |-> Id(d, c), code |-> c, consumed |-> FALSE, expired |-> FALSE]

\* What a successful verification writes; the mutant forgets the flag.
NotConsumed(d) == d
Consumed(d) == [d EXCEPT !.consumed = TRUE]

\* A write that does not find what its call has read.
Cross(happens, what) ==
  crossed' = IF happens THEN crossed \cup {what} ELSE crossed

\* A failure was written over another one, or its write was lost.
Lost == "failure" \in crossed

-----------------------------------------------------------------------------
(* requestOtp *)

\* Within the cooldown the call returns at once.
Request(r, p) ==
  /\ pc[r] = "idle"
  /\ ~cooldown
  /\ At(r, "budget")
  /\ purpose' = [purpose EXCEPT ![r] = p]
  /\ UNCHANGED <<doc, cache, last, count, code, found, replay, history>>

RequestBudget(r) ==
  /\ pc[r] = "budget"
  /\ At(r, IF Exhausted(attempts) THEN "idle" ELSE "upsert")
  /\ UNCHANGED <<doc, cache, last, given, history>>

Upsert(r) ==
  /\ pc[r] = "upsert"
  /\ last < MaxCodes
  /\ last' = last + 1
  /\ doc' = [doc EXCEPT ![purpose[r]] = Reissued(@, last')]
  /\ At(r, "cool")
  /\ UNCHANGED <<cache, given, history>>

StartCooldown(r) ==
  /\ pc[r] = "cool"
  /\ cooldown' = TRUE
  /\ At(r, "send")
  /\ UNCHANGED <<doc, attempts, last, given, history>>

\* sendEmail or sendSms: delivered or not, nothing else changes.
Send(r) ==
  /\ pc[r] = "send"
  /\ Done(r)
  /\ UNCHANGED <<doc, cache, last, history>>

-----------------------------------------------------------------------------
(* verifyOtp *)

Verify(r, p, c) ==
  /\ pc[r] = "idle"
  /\ ~Exhausted(attempts)
  /\ At(r, "lookup")
  /\ purpose' = [purpose EXCEPT ![r] = p]
  /\ count' = [count EXCEPT ![r] = attempts]
  /\ code' = [code EXCEPT ![r] = c]
  /\ replay' = [replay EXCEPT ![r] = c \in spent]
  /\ UNCHANGED <<doc, cache, last, found, history>>

\* No document, or an expired or consumed one, costs no attempt.
Lookup(r) ==
  /\ pc[r] = "lookup"
  /\ LET d == doc[purpose[r]] IN
       \/ ~Live(d) /\ Done(r) /\ UNCHANGED history
       \/ /\ Live(d) /\ d.code # code[r]
          /\ At(r, "fail")
          /\ guesses' = IF Lost \/ guesses = GuessLimit THEN guesses ELSE guesses + 1
          /\ UNCHANGED <<given, accepted, spent, crossed>>
       \/ /\ Live(d) /\ d.code = code[r]
          /\ At(r, "consume")
          /\ found' = [found EXCEPT ![r] = d.id]
          /\ accepted' = accepted \cup {code[r]}
          /\ UNCHANGED <<purpose, count, code, replay, guesses, spent, crossed>>
  /\ UNCHANGED <<doc, cache, last>>

\* The failure is stored as the number read at the start plus one.
RecordFailure(r) ==
  /\ pc[r] = "fail"
  /\ attempts' = NextFailure(count[r])
  /\ Cross(attempts # count[r], "failure")
  /\ Done(r)
  /\ guesses' = IF Lost' THEN 0 ELSE guesses
  /\ UNCHANGED <<doc, cooldown, last, accepted, spent>>

\* updateOne by _id: whatever code the document holds by now, if it is still there.
Consume(r) ==
  /\ pc[r] = "consume"
  /\ doc' = [doc EXCEPT ![purpose[r]] = IF @.id = found[r] THEN Consumed(@) ELSE @]
  /\ spent' = spent \cup {code[r]}
  /\ Cross(doc[purpose[r]].code # code[r], "resend")
  /\ At(r, "clear")
  /\ UNCHANGED <<cache, last, given, accepted, guesses>>

ClearAttempts(r) ==
  /\ pc[r] = "clear"
  /\ attempts' = 0
  /\ guesses' = 0
  /\ At(r, "clearCooldown")
  /\ UNCHANGED <<doc, cooldown, last, given, accepted, spent, crossed>>

ClearCooldown(r) ==
  /\ pc[r] = "clearCooldown"
  /\ cooldown' = FALSE
  /\ Done(r)
  /\ UNCHANGED <<doc, attempts, last, history>>

-----------------------------------------------------------------------------
(* Time and faults *)

CooldownEnds ==
  /\ cooldown
  /\ cooldown' = FALSE
  /\ UNCHANGED <<doc, attempts, last, frame, history>>

\* attemptsWindowMs after the last failure the key is gone.
WindowEnds ==
  /\ attempts > 0
  /\ attempts' = 0
  /\ guesses' = 0
  /\ UNCHANGED <<doc, cooldown, last, frame, accepted, spent, crossed>>

CodeExpires(p) ==
  /\ doc[p] # NoDoc /\ ~doc[p].expired
  /\ doc' = [doc EXCEPT ![p].expired = TRUE]
  /\ UNCHANGED <<cache, last, frame, history>>

\* The TTL index removes the document some time after it expired.
TtlDelete(p) ==
  /\ doc[p].expired
  /\ doc' = [doc EXCEPT ![p] = NoDoc]
  /\ UNCHANGED <<cache, last, frame, history>>

\* An await rejects or the process dies.
Fail(r) ==
  /\ pc[r] # "idle"
  /\ Cross(pc[r] = "fail", "failure")
  /\ Done(r)
  /\ guesses' = IF Lost' THEN 0 ELSE guesses
  /\ UNCHANGED <<doc, cache, last, accepted, spent>>

Continue(r) ==
  \/ RequestBudget(r) \/ Upsert(r) \/ StartCooldown(r) \/ Send(r)
  \/ Lookup(r) \/ RecordFailure(r) \/ Consume(r) \/ ClearAttempts(r) \/ ClearCooldown(r)

Next ==
  \/ \E r \in Req :
       \/ Continue(r) \/ Fail(r)
       \/ \E p \in Purpose : Request(r, p) \/ \E c \in 0..last : Verify(r, p, c)
  \/ CooldownEnds \/ WindowEnds
  \/ \E p \in Purpose : CodeExpires(p) \/ TtlDelete(p)

Spec == Init /\ [][Next]_vars

-----------------------------------------------------------------------------
(* Properties *)

\* The budget is cumulative: each wrong code that was compared since the last
\* reset is counted in attempts or about to be, however many codes were sent
\* meanwhile and whatever calls overlap, unless a failure was written over
\* another one or its write was lost.
AttemptBudget ==
  ~Lost =>
    guesses <= attempts + Cardinality({r \in Req : pc[r] = "fail"})

\* A code the service has marked consumed is one it has accepted, across resends,
\* expiries and overlapping calls, unless a resend came between the lookup of a
\* call and its update.
ConsumedWasAccepted ==
  "resend" \notin crossed =>
    \A p \in Purpose : doc[p].consumed => doc[p].code \in accepted

\* No replay: a call that starts after a code was marked consumed does not
\* accept it, whatever resends, expiries and other calls happen meanwhile.
NoReplay == \A r \in Req : pc[r] = "consume" => ~replay[r]
=============================================================================

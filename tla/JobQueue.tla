------------------------------ MODULE JobQueue ------------------------------
(***************************************************************************)
(* job-queue.ts: waiting jobs, one drain loop and one timer.  Times count  *)
(* down: wait is what is left until runAt and timer until the timeout, in  *)
(* units of defaultBackoffMs.  Which of several due jobs is taken first is *)
(* left open.                                                              *)
(***************************************************************************)
EXTENDS Naturals, FiniteSets

CONSTANTS
  Job,
  maxAttempts,
  MaxTries     \* bound: attempts of a job without a handler

VARIABLES
  state,       \* new | waiting | active | done | failed
  attempts,    \* job.attempts
  wait,        \* time left until runAt
  handler,     \* a handler is registered
  running,     \* the drain loop runs
  timer,       \* time left of drainTimer; Off when it is not set
  calls,       \* history: invocations of the handler for a job
  displaced    \* history: a job waits that no timer will find due

vars == <<state, attempts, wait, handler, running, timer, calls, displaced>>

MaxDelay == 2 ^ MaxTries
Off == MaxDelay + 1

TypeOK ==
  /\ state \in [Job -> {"new", "waiting", "active", "done", "failed"}]
  /\ attempts \in [Job -> 0..MaxTries] /\ wait \in [Job -> 0..MaxDelay]
  /\ handler \in BOOLEAN /\ running \in BOOLEAN
  /\ timer \in 0..Off
  /\ calls \in [Job -> Nat] /\ displaced \in BOOLEAN

Init ==
  /\ state = [j \in Job |-> "new"]
  /\ attempts = [j \in Job |-> 0] /\ wait = [j \in Job |-> 0]
  /\ handler = FALSE /\ running = FALSE /\ timer = Off
  /\ calls = [j \in Job |-> 0] /\ displaced = FALSE

-----------------------------------------------------------------------------
Idle == \A j \in Job : state[j] # "active"
Due(j) == state[j] = "waiting" /\ wait[j] = 0

\* register.
Register ==
  /\ handler' = TRUE
  /\ UNCHANGED <<state, attempts, wait, running, timer, calls, displaced>>

\* enqueue, with runAt now or later; it starts the loop and sets no timer.
Enqueue(j, later) ==
  /\ state[j] = "new"
  /\ state' = [state EXCEPT ![j] = "waiting"]
  /\ wait' = [wait EXCEPT ![j] = later]
  /\ running' = TRUE
  /\ displaced' = (displaced \/ later > 0)
  /\ UNCHANGED <<attempts, handler, timer, calls>>

\* requeue: the job waits 2^attempts, and its timeout replaces the pending one.
\* One mutant relies on the timer that is there, the other doubles the delay.
RequeueQuiet(j) ==
  LET delay == 2 ^ (attempts[j] + 1) IN
    /\ attempts' = [attempts EXCEPT ![j] = @ + 1]
    /\ state' = [state EXCEPT ![j] = "waiting"]
    /\ wait' = [wait EXCEPT ![j] = delay]
    /\ UNCHANGED <<timer, displaced>>
RequeueLong(j) ==
  LET delay == 2 ^ (attempts[j] + 2) IN
    /\ attempts' = [attempts EXCEPT ![j] = @ + 1]
    /\ state' = [state EXCEPT ![j] = "waiting"]
    /\ wait' = [wait EXCEPT ![j] = delay]
    /\ timer' = delay
    /\ UNCHANGED displaced
Requeue(j) ==
  LET delay == 2 ^ (attempts[j] + 1) IN
    /\ attempts' = [attempts EXCEPT ![j] = @ + 1]
    /\ state' = [state EXCEPT ![j] = "waiting"]
    /\ wait' = [wait EXCEPT ![j] = delay]
    /\ timer' = delay
    /\ displaced' = (displaced \/ \E k \in Job : state[k] = "waiting" /\ wait[k] > delay)

\* drain takes one job after the other.
Take(j) ==
  /\ running /\ Idle /\ Due(j) /\ handler
  /\ state' = [state EXCEPT ![j] = "active"]
  /\ calls' = [calls EXCEPT ![j] = @ + 1]
  /\ UNCHANGED <<attempts, wait, handler, running, timer, displaced>>

\* Without a handler the job goes back, however often it has been there.
TakeUnhandled(j) ==
  /\ running /\ Idle /\ Due(j) /\ ~handler
  /\ attempts[j] < MaxTries
  /\ Requeue(j)
  /\ UNCHANGED <<handler, running, calls>>

Rest ==
  /\ running /\ Idle /\ \A j \in Job : ~Due(j)
  /\ running' = FALSE
  /\ UNCHANGED <<state, attempts, wait, handler, timer, calls, displaced>>

Succeed(j) ==
  /\ state[j] = "active"
  /\ state' = [state EXCEPT ![j] = "done"]
  /\ UNCHANGED <<attempts, wait, handler, running, timer, calls, displaced>>

\* The limit of process; the mutant is off by one.
SpentLate(n) == n > maxAttempts
Spent(n) == n >= maxAttempts

\* The handler throws: reject, or requeue.
Throw(j) ==
  /\ state[j] = "active"
  /\ \/ /\ Spent(attempts[j] + 1)
        /\ attempts' = [attempts EXCEPT ![j] = IF @ < MaxTries THEN @ + 1 ELSE @]
        /\ state' = [state EXCEPT ![j] = "failed"]
        /\ UNCHANGED <<wait, timer, displaced>>
     \/ ~Spent(attempts[j] + 1) /\ Requeue(j)
  /\ UNCHANGED <<handler, running, calls>>

TimerFires ==
  /\ timer = 0
  /\ timer' = Off /\ running' = TRUE
  /\ UNCHANGED <<state, attempts, wait, handler, calls, displaced>>

Tick ==
  /\ \/ timer \in 1..MaxDelay
     \/ \E j \in Job : wait[j] > 0
  /\ timer' = IF timer \in 1..MaxDelay THEN timer - 1 ELSE timer
  /\ wait' = [j \in Job |-> IF wait[j] > 0 THEN wait[j] - 1 ELSE 0]
  /\ UNCHANGED <<state, attempts, handler, running, calls, displaced>>

Step(j) == Take(j) \/ TakeUnhandled(j) \/ Succeed(j) \/ Throw(j)
Loop == Rest \/ TimerFires \/ Tick \/ \E j \in Job : Step(j)

Next ==
  \/ Loop \/ Register
  \/ \E j \in Job, later \in {0, 1} : Enqueue(j, later)

Spec == Init /\ [][Next]_vars

\* The event loop runs timers and continuations, and a handler settles.
Fairness ==
  /\ WF_vars(Rest) /\ WF_vars(TimerFires) /\ WF_vars(Tick)
  /\ \A j \in Job : WF_vars(Step(j))
FairSpec == Spec /\ Fairness

-----------------------------------------------------------------------------
(* Properties *)

\* Retries are bounded: a handler sees a job at most maxAttempts times, whatever
\* the job went through before a handler was registered.
RetriesBounded == \A j \in Job : calls[j] <= maxAttempts

\* A job that waits is served in the end, although one timer stands for all of
\* them, unless a requeue or a later runAt left a job without a timer.
JobsEnd ==
  \A j \in Job :
    (state[j] = "waiting" /\ handler) ~> (state[j] \in {"done", "failed"} \/ displaced)
=============================================================================

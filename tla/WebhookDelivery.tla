-------------------------- MODULE WebhookDelivery ---------------------------
(***************************************************************************)
(* deliver of webhook.service.ts: one loop per matching endpoint, started  *)
(* by dispatch and awaited by nobody.  Each attempt writes an entry of its *)
(* own to the ledger; the model keeps the status of the newest one.        *)
(***************************************************************************)
EXTENDS Naturals

CONSTANTS
  Delivery,    \* (webhook, event) pairs
  maxRetries

VARIABLES
  pc,          \* idle | post | record | error | retry | retryError | sleep | ended
  attempts,
  answer,      \* of the last POST: ok (2xx or 404) | refused | none
  ledger,      \* none | delivered | failed | retrying
  posts,       \* history: POSTs sent
  taken,       \* history: POSTs the endpoint accepted
  unsure       \* history: an answer or a ledger entry of the delivery was lost

frame == <<pc, attempts, answer>>
vars == <<frame, ledger, posts, taken, unsure>>

TypeOK ==
  /\ pc \in [Delivery -> {"idle", "post", "record", "error", "retry", "retryError",
                          "sleep", "ended"}]
  /\ attempts \in [Delivery -> Nat]
  /\ answer \in [Delivery -> {"ok", "refused", "none"}]
  /\ ledger \in [Delivery -> {"none", "delivered", "failed", "retrying"}]
  /\ posts \in [Delivery -> Nat] /\ taken \in [Delivery -> Nat]
  /\ unsure \subseteq Delivery

Init ==
  /\ pc = [d \in Delivery |-> "idle"]
  /\ attempts = [d \in Delivery |-> 0]
  /\ answer = [d \in Delivery |-> "none"]
  /\ ledger = [d \in Delivery |-> "none"]
  /\ posts = [d \in Delivery |-> 0] /\ taken = [d \in Delivery |-> 0]
  /\ unsure = {}

-----------------------------------------------------------------------------
At(d, where) == pc' = [pc EXCEPT ![d] = where] /\ UNCHANGED <<attempts, answer>>
Write(d, status) == ledger' = [ledger EXCEPT ![d] = status]

\* dispatch finds the active webhook and starts its loop.
Dispatch(d) ==
  /\ pc[d] = "idle"
  /\ pc' = [pc EXCEPT ![d] = "post"]
  /\ attempts' = [attempts EXCEPT ![d] = 1]
  /\ UNCHANGED <<answer, ledger, posts, taken, unsure>>

\* fetch: an answer of either kind, or an error, perhaps after the endpoint has
\* accepted the payload.
Post(d) ==
  /\ pc[d] = "post"
  /\ posts' = [posts EXCEPT ![d] = @ + 1]
  /\ \E a \in {"ok", "refused", "none"} :
       /\ answer' = [answer EXCEPT ![d] = a]
       /\ pc' = [pc EXCEPT ![d] = IF a = "none" THEN "error" ELSE "record"]
       /\ \/ /\ a # "refused"
             /\ taken' = [taken EXCEPT ![d] = @ + 1]
             /\ unsure' = IF a = "none" THEN unsure \cup {d} ELSE unsure
          \/ a # "ok" /\ UNCHANGED <<taken, unsure>>
  /\ UNCHANGED <<attempts, ledger>>

\* The limit on attempts; the mutant is off by one.
ExhaustedLate(d) == attempts[d] > maxRetries
Exhausted(d) == attempts[d] >= maxRetries

\* The outcome of an answer; the mutant takes a refusal for a delivery.
DeliveredAny(d) == TRUE
Delivered(d) == answer[d] = "ok"

\* The entry for an answer, and for the last one the status again.
Record(d) ==
  /\ pc[d] = "record"
  /\ \/ Delivered(d) /\ Write(d, "delivered") /\ At(d, "ended")
     \/ /\ ~Delivered(d) /\ Write(d, "failed")
        /\ At(d, IF Exhausted(d) THEN "ended" ELSE "retry")
  /\ UNCHANGED <<posts, taken, unsure>>

\* The entry for an error; the same block catches an entry that was not stored.
\* The mutant goes on with the block instead of the loop.
RecordErrorAgain(d) ==
  /\ pc[d] = "error"
  /\ Write(d, "failed")
  /\ At(d, IF Exhausted(d) THEN "ended" ELSE "error")
  /\ UNCHANGED <<posts, taken, unsure>>
RecordError(d) ==
  /\ pc[d] = "error"
  /\ Write(d, "failed")
  /\ At(d, IF Exhausted(d) THEN "ended" ELSE "retryError")
  /\ UNCHANGED <<posts, taken, unsure>>

MarkRetrying(d) ==
  /\ pc[d] \in {"retry", "retryError"}
  /\ Write(d, "retrying")
  /\ At(d, "sleep")
  /\ UNCHANGED <<posts, taken, unsure>>

\* A database error in the try block leads to the catch block; one there rejects
\* the promise nobody awaits.
DbFails(d) ==
  /\ \/ pc[d] \in {"record", "retry"} /\ At(d, "error")
     \/ pc[d] \in {"error", "retryError"} /\ At(d, "ended")
  /\ unsure' = unsure \cup {d}
  /\ UNCHANGED <<ledger, posts, taken>>

Wake(d) ==
  /\ pc[d] = "sleep"
  /\ pc' = [pc EXCEPT ![d] = "post"]
  /\ attempts' = [attempts EXCEPT ![d] = @ + 1]
  /\ UNCHANGED <<answer, ledger, posts, taken, unsure>>

\* The process stops: nothing takes the loop up again.
Stop ==
  /\ pc' = [d \in Delivery |-> IF pc[d] = "idle" THEN "idle" ELSE "ended"]
  /\ unsure' = unsure \cup {d \in Delivery : pc[d] \notin {"idle", "ended"}}
  /\ UNCHANGED <<attempts, answer, ledger, posts, taken>>

Continue(d) == Post(d) \/ Record(d) \/ RecordError(d) \/ MarkRetrying(d) \/ Wake(d)

Next ==
  \/ \E d \in Delivery : Dispatch(d) \/ Continue(d) \/ DbFails(d)
  \/ Stop

Spec == Init /\ [][Next]_vars
Fairness == \A d \in Delivery : WF_vars(Continue(d))
FairSpec == Spec /\ Fairness

-----------------------------------------------------------------------------
(* Properties *)

\* An endpoint is called maxRetries times at most for an event, and not again once
\* it has accepted it, unless its answer or the entry for it was lost.
SentAsNeeded ==
  \A d \in Delivery :
    /\ posts[d] <= maxRetries
    /\ d \notin unsure => taken[d] <= 1

\* The newest entry of a delivery that has ended tells what happened: delivered if
\* and only if the endpoint accepted the event.
LedgerTrue ==
  \A d \in Delivery :
    pc[d] = "ended" /\ d \notin unsure =>
      ledger[d] = (IF taken[d] = 1 THEN "delivered" ELSE "failed")

\* A delivery ends, with the database and the endpoint failing at any point.
DeliveryEnds == \A d \in Delivery : pc[d] # "idle" ~> pc[d] = "ended"
=============================================================================

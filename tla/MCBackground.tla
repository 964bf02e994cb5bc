---------------------------- MODULE MCBackground ----------------------------
(***************************************************************************)
(* The work nobody awaits: the job queue, webhook deliveries, the region   *)
(* manager, and the start and stop of servers.  They share no state, so a  *)
(* behaviour moves one of them, which the variable part names, and the     *)
(* others stay as they started.                                            *)
(***************************************************************************)
EXTENDS Naturals, FiniteSets

CONSTANTS Job, maxAttempts, MaxTries, Delivery, maxRetries, Call, Event, Region, MaxSubs,
          Server, Seeded, MaxRequests, MaxCrashes

VARIABLES
  part,
  state, jobAttempts, wait, handler, running, timer, calls, displaced,
  pc, attempts, answer, ledger, posts, taken, unsure,
  subs, stopper, sent, fresh, seen, primary, up, health, callPc, arg, handled,
  announced, crossed,
  records, granted, bootPc, client, bound, requests, open, swallowed, crashes

jobVars == <<state, jobAttempts, wait, handler, running, timer, calls, displaced>>
hookVars == <<pc, attempts, answer, ledger, posts, taken, unsure>>
regionVars == <<subs, stopper, sent, fresh, seen, primary, up, health, callPc, arg,
                handled, announced, crossed>>
serverVars == <<records, granted, bootPc, client, bound, requests, open, swallowed, crashes>>
vars == <<part, jobVars, hookVars, regionVars, serverVars>>

Jobs == INSTANCE JobQueue WITH attempts <- jobAttempts
Hooks == INSTANCE WebhookDelivery
Regions == INSTANCE RegionManager WITH pc <- callPc
Servers == INSTANCE ServerLifecycle WITH pc <- bootPc

Init ==
  /\ part \in {"jobs", "hooks", "regions", "servers"}
  /\ Jobs!Init /\ Hooks!Init /\ Regions!Init /\ Servers!Init

InJobs(A) == part = "jobs" /\ A /\ UNCHANGED <<part, hookVars, regionVars, serverVars>>
InHooks(A) == part = "hooks" /\ A /\ UNCHANGED <<part, jobVars, regionVars, serverVars>>
InRegions(A) == part = "regions" /\ A /\ UNCHANGED <<part, jobVars, hookVars, serverVars>>
InServers(A) == part = "servers" /\ A /\ UNCHANGED <<part, jobVars, hookVars, regionVars>>

Next ==
  InJobs(Jobs!Next) \/ InHooks(Hooks!Next) \/ InRegions(Regions!Next) \/ InServers(Servers!Next)

\* The fairness of each part, for the behaviours that move it.
Fairness ==
  /\ WF_vars(InJobs(Jobs!Rest)) /\ WF_vars(InJobs(Jobs!TimerFires))
  /\ WF_vars(InJobs(Jobs!Tick)) /\ \A j \in Job : WF_vars(InJobs(Jobs!Step(j)))
  /\ \A d \in Delivery : WF_vars(InHooks(Hooks!Continue(d)))
  /\ \A c \in Call : WF_vars(InRegions(Regions!Continue(c)))
  /\ WF_vars(InRegions(Regions!HealthExpires))
  /\ \A s \in Server : /\ WF_vars(InServers(Servers!Start(s)))
                       /\ WF_vars(InServers(Servers!Stop(s)))
                       /\ WF_vars(InServers(Servers!Respond(s)))

FairSpec == Init /\ [][Next]_vars /\ Fairness

-----------------------------------------------------------------------------
(* Properties *)

\* Jobs: a handler sees a job at most maxAttempts times, and a waiting job is
\* served in the end although one timer stands for all of them.
JobsSettle == [](Jobs!TypeOK /\ Jobs!RetriesBounded) /\ Jobs!JobsEnd

\* Webhooks: an endpoint is called maxRetries times at most and not again once it
\* accepted, every delivery ends, and its newest ledger entry tells what happened.
DeliveriesSettle ==
  [](Hooks!TypeOK /\ Hooks!SentAsNeeded /\ Hooks!LedgerTrue) /\ Hooks!DeliveryEnds

\* Regions: an event is handled once within its deduplication window, by the one
\* receiver that is registered, the primary is the one announced last, and a region
\* that stays down is not taken for a good one for ever.
RegionsAgree ==
  /\ [](Regions!TypeOK /\ Regions!HandledOnce /\ Regions!OneReceiver /\ Regions!PrimaryAsAnnounced)
  /\ Regions!HealthCatchesUp

\* Servers: one that serves has its records, a shutdown leaves running requests their
\* connections, the seeded admin gets the role, and starts and stops come to an end.
ServersSettle ==
  /\ [](Servers!TypeOK /\ Servers!Bootstrapped /\ Servers!ConnectionsOutlive)
  /\ (part = "servers" => Servers!AdminSeeded) /\ Servers!StartsAndStops
=============================================================================

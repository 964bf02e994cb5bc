--------------------------- MODULE RegionManager ----------------------------
(***************************************************************************)
(* One RegionManager of region-manager.ts: its subscription to the         *)
(* transport, the deduplication of events, the primary region and the      *)
(* cached health of one region.  The transport (external) may lose, repeat *)
(* and reorder events.                                                     *)
(***************************************************************************)
EXTENDS Naturals, FiniteSets

CONSTANTS
  Call,        \* concurrent calls of the manager
  Event,       \* event ids
  Region,      \* configured regions
  MaxSubs      \* bound: calls of start begin with fewer receivers than this

VARIABLES
  subs,        \* receivers registered at the transport
  stopper,     \* unsubscribeTransport is set
  sent,        \* events the transport has accepted
  fresh,       \* events within their deduplication window
  seen,        \* seenEvents that have not expired
  primary,     \* the region marked as primary
  up, health,  \* the probed region answers; its cached health
  pc, arg,     \* where a call is, and the region it works on or the answer it got
  handled,     \* history: how often an event was handled within its window
  announced,   \* history: the last primary that was broadcast
  crossed      \* history: "start" and "switch" calls that met each other

link == <<subs, stopper>>
events == <<sent, fresh, seen, handled>>
routing == <<primary, announced>>
probes == <<up, health>>
vars == <<link, events, routing, probes, pc, arg, crossed>>

TypeOK ==
  /\ subs \in Nat /\ stopper \in BOOLEAN
  /\ sent \subseteq Event /\ fresh \subseteq Event /\ seen \subseteq Event
  /\ primary \in Region /\ announced \in Region
  /\ up \in BOOLEAN /\ health \in {"none", "up", "down"}
  /\ pc \in [Call -> {"idle", "start", "stop", "switch", "probe"}]
  /\ arg \in [Call -> Region \cup {"up", "down"}]
  /\ handled \in [Event -> Nat] /\ crossed \subseteq {"start", "switch"}

Init ==
  /\ subs = 0 /\ stopper = FALSE
  /\ sent = {} /\ fresh = Event /\ seen = {}
  /\ primary = (CHOOSE g \in Region : TRUE) /\ announced = primary
  /\ up = TRUE /\ health = "none"
  /\ pc = [c \in Call |-> "idle"] /\ arg = [c \in Call |-> "down"]
  /\ handled = [e \in Event |-> 0] /\ crossed = {}

-----------------------------------------------------------------------------
Begin(c, where, what) ==
  /\ pc[c] = "idle"
  /\ pc' = [pc EXCEPT ![c] = where]
  /\ arg' = [arg EXCEPT ![c] = what]

End(c) ==
  /\ pc' = [pc EXCEPT ![c] = "idle"]
  /\ arg' = [arg EXCEPT ![c] = "down"]

Others(c, where) == \E d \in Call \ {c} : pc[d] \in where
Cross(happens, what) == crossed' = IF happens THEN crossed \cup {what} ELSE crossed

\* start returns at once when there is a subscription; the mutant does not look.
NeedsStartAlways == TRUE
NeedsStart == ~stopper

Start(c) ==
  /\ NeedsStart /\ subs < MaxSubs
  /\ Begin(c, "start", "down")
  /\ Cross(Others(c, {"start"}), "start")
  /\ UNCHANGED <<link, events, routing, probes>>

\* transport.subscribe has registered the receiver.
Started(c) ==
  /\ pc[c] = "start"
  /\ subs' = subs + 1 /\ stopper' = TRUE
  /\ End(c)
  /\ UNCHANGED <<events, routing, probes, crossed>>

\* stop forgets the subscription before it awaits its end.
Stop(c) ==
  /\ stopper
  /\ stopper' = FALSE
  /\ Begin(c, "stop", "down")
  /\ UNCHANGED <<subs, events, routing, probes, crossed>>

Stopped(c) ==
  /\ pc[c] = "stop"
  /\ subs' = subs - 1
  /\ End(c)
  /\ UNCHANGED <<stopper, events, routing, probes, crossed>>

-----------------------------------------------------------------------------
\* broadcastEvent and revokeSession, of this manager or another one.
Broadcast(e) ==
  /\ e \notin sent
  /\ sent' = sent \cup {e}
  /\ UNCHANGED <<fresh, seen, handled, link, routing, probes, pc, arg, crossed>>

\* isNewEvent keeps an id to the end of its window, and a late one not at all.
\* The mutant keeps nothing.
RememberNothing(e) == seen
Remember(e) == IF e \in fresh THEN seen \cup {e} ELSE seen

\* processIncoming, as often as the transport delivers.
Deliver(e) ==
  /\ subs > 0 /\ e \in sent \ seen
  /\ seen' = Remember(e)
  /\ handled' = IF e \in fresh THEN [handled EXCEPT ![e] = @ + 1] ELSE handled
  /\ UNCHANGED <<sent, fresh, link, routing, probes, pc, arg, crossed>>

\* The window of an event ends; pruneSeen drops the id.
WindowEnds(e) ==
  /\ e \in sent \cap fresh
  /\ fresh' = fresh \ {e}
  /\ seen' = seen \ {e}
  /\ UNCHANGED <<sent, handled, link, routing, probes, pc, arg, crossed>>

-----------------------------------------------------------------------------
\* switchPrimary: the announcement first, the change when it was accepted.
SwitchPrimary(c, g) ==
  /\ Begin(c, "switch", g)
  /\ announced' = g
  /\ Cross(Others(c, {"switch"}), "switch")
  /\ UNCHANGED <<link, events, primary, probes>>

\* The loop that promotes one region and demotes the others; the mutant does
\* neither.
KeepPrimary(g) == primary
NewPrimary(g) == g

Switched(c) ==
  /\ pc[c] = "switch"
  /\ primary' = NewPrimary(arg[c])
  /\ End(c)
  /\ UNCHANGED <<link, events, announced, probes, crossed>>

\* publish rejects: the caller sees the error, others may have the announcement.
SwitchFails(c) ==
  /\ pc[c] = "switch"
  /\ End(c)
  /\ Cross(TRUE, "switch")
  /\ UNCHANGED <<link, events, routing, probes>>

-----------------------------------------------------------------------------
\* probeRegion, when nothing is cached; a probe that throws counts as down.
Probe(c) ==
  /\ health = "none"
  /\ Begin(c, "probe", IF up THEN "up" ELSE "down")
  /\ UNCHANGED <<link, events, routing, probes, crossed>>

Probed(c) ==
  /\ pc[c] = "probe"
  /\ health' = arg[c]
  /\ End(c)
  /\ UNCHANGED <<up, link, events, routing, crossed>>

\* probeCacheTtlMs passes; the mutant keeps a good result.
LapsedIfDown == IF health = "down" THEN "none" ELSE health
Lapsed == "none"

HealthExpires ==
  /\ health # "none"
  /\ health' = Lapsed
  /\ UNCHANGED <<up, link, events, routing, pc, arg, crossed>>

RegionFlips ==
  /\ up' = ~up
  /\ UNCHANGED <<health, link, events, routing, pc, arg, crossed>>

Continue(c) == Started(c) \/ Stopped(c) \/ Switched(c) \/ Probed(c)

Next ==
  \/ \E c \in Call :
       \/ Start(c) \/ Stop(c) \/ Probe(c) \/ Continue(c) \/ SwitchFails(c)
       \/ \E g \in Region : SwitchPrimary(c, g)
  \/ \E e \in Event : Broadcast(e) \/ Deliver(e) \/ WindowEnds(e)
  \/ HealthExpires \/ RegionFlips

Spec == Init /\ [][Next]_vars

\* Promises settle, and the life of a cached result ends.
Fairness == (\A c \in Call : WF_vars(Continue(c))) /\ WF_vars(HealthExpires)
FairSpec == Spec /\ Fairness

-----------------------------------------------------------------------------
(* Properties *)

\* Idempotent delivery: the handlers see an event once within its window, however
\* often the transport delivers it and however many receivers were registered.
HandledOnce == \A e \in Event : handled[e] <= 1

\* One receiver at most is registered when no call is under way, and none after a
\* stop, unless calls of start overlapped.
OneReceiver ==
  "start" \notin crossed /\ (\A c \in Call : pc[c] \notin {"start", "stop"}) =>
    subs = (IF stopper THEN 1 ELSE 0)

\* When no switch is under way the primary is the one announced last, unless
\* switches overlapped or an announcement failed.
PrimaryAsAnnounced ==
  "switch" \notin crossed /\ (\A c \in Call : pc[c] # "switch") => primary = announced

\* A region that stays down is not taken for a good one for ever, although results
\* are cached and probes in flight bring older ones.
HealthCatchesUp == <>[](~up) => <>[](health # "up")
=============================================================================

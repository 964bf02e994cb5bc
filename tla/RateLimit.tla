----------------------------- MODULE RateLimit ------------------------------
(***************************************************************************)
(* One (type, scope) pair of rateLimit.service.ts over the cache of        *)
(* redisCache.ts: a counter in Redis, one in MongoDB and one in the memory *)
(* of each instance.  Counts above the limit are all alike.                *)
(***************************************************************************)
EXTENDS Naturals

CONSTANTS
  Req,              \* concurrent calls of consume
  Inst,             \* server processes
  limit,            \* rule.limit
  durableFallback   \* constructor option

VARIABLES
  redisUp, mongoUp, \* a command sent now is served
  count,            \* the counters of the running windows
  ttl,              \* the Redis counter has an expiry
  pc, home,         \* where a call is, and the instance it runs on
  allowed,          \* history: calls let through by each counter in its window
  outage,           \* history: Redis was down or a command failed
  stuck             \* history: an EXPIRE was not carried out

store == <<redisUp, mongoUp, count, ttl>>
vars == <<store, pc, home, allowed, outage, stuck>>

Counter == {"redis", "mongo"} \cup Inst

TypeOK ==
  /\ redisUp \in BOOLEAN /\ mongoUp \in BOOLEAN /\ ttl \in BOOLEAN
  /\ count \in [Counter -> 0..(limit + 1)]
  /\ pc \in [Req -> {"idle", "incr", "expire", "mongo"}] /\ home \in [Req -> Inst]
  /\ allowed \in [Counter -> Nat]
  /\ outage \in BOOLEAN /\ stuck \in BOOLEAN

Init ==
  /\ redisUp = TRUE /\ mongoUp = TRUE /\ ttl = FALSE
  /\ count = [c \in Counter |-> 0]
  /\ pc = [r \in Req |-> "idle"] /\ home = [r \in Req |-> CHOOSE i \in Inst : TRUE]
  /\ allowed = [c \in Counter |-> 0]
  /\ outage = FALSE /\ stuck = FALSE

-----------------------------------------------------------------------------
At(r, where) == pc' = [pc EXCEPT ![r] = where] /\ UNCHANGED home

\* The atomic increment of a counter.
Counted(n) == IF n > limit THEN n ELSE n + 1

\* decision; the mutant lets one call more through.
WithinLate(n) == n <= limit + 1
Within(n) == n <= limit

\* A counter is incremented and its new value decides.
Decide(r, c) ==
  /\ count' = [count EXCEPT ![c] = Counted(@)]
  /\ allowed' = IF Within(Counted(count[c])) THEN [allowed EXCEPT ![c] = @ + 1]
                ELSE allowed
  /\ At(r, "idle")

\* consume: the probe of ready() chooses the tier.
Consume(r, i) ==
  /\ pc[r] = "idle"
  /\ pc' = [pc EXCEPT ![r] = IF ~redisUp /\ durableFallback THEN "mongo" ELSE "incr"]
  /\ home' = [home EXCEPT ![r] = i]
  /\ UNCHANGED <<store, allowed, outage, stuck>>

\* incrementAndExpire on Redis.  The first increment still has to set the expiry.
IncrRedis(r) ==
  /\ pc[r] = "incr" /\ redisUp
  /\ \/ /\ count["redis"] = 0
        /\ count' = [count EXCEPT !["redis"] = 1]
        /\ At(r, "expire")
        /\ UNCHANGED allowed
     \/ count["redis"] > 0 /\ Decide(r, "redis")
  /\ UNCHANGED <<redisUp, mongoUp, ttl, outage, stuck>>

\* The answer to INCR is lost: the counter of the process decides instead.
IncrLost(r) ==
  /\ pc[r] = "incr" /\ redisUp
  /\ LET own == home[r] IN
       /\ count' = [count EXCEPT !["redis"] = Counted(@), ![own] = Counted(@)]
       /\ allowed' = IF Within(Counted(count[own])) THEN [allowed EXCEPT ![own] = @ + 1]
                     ELSE allowed
  /\ stuck' = (stuck \/ count["redis"] = 0)
  /\ outage' = TRUE
  /\ At(r, "idle")
  /\ UNCHANGED <<redisUp, mongoUp, ttl>>

IncrMemory(r) ==
  /\ pc[r] = "incr" /\ ~redisUp
  /\ Decide(r, home[r])
  /\ UNCHANGED <<redisUp, mongoUp, ttl, outage, stuck>>

\* EXPIRE after the first INCR; the mutant forgets it.
ExpireSkipped(r) ==
  /\ pc[r] = "expire" /\ redisUp
  /\ allowed' = IF Within(1) THEN [allowed EXCEPT !["redis"] = @ + 1] ELSE allowed
  /\ At(r, "idle")
  /\ UNCHANGED <<store, outage, stuck>>
Expire(r) ==
  /\ pc[r] = "expire" /\ redisUp
  /\ ttl' = TRUE
  /\ allowed' = IF Within(1) THEN [allowed EXCEPT !["redis"] = @ + 1] ELSE allowed
  /\ At(r, "idle")
  /\ UNCHANGED <<redisUp, mongoUp, count, outage, stuck>>

ExpireFails(r) ==
  /\ pc[r] = "expire"
  /\ Decide(r, home[r])
  /\ stuck' = TRUE /\ outage' = TRUE
  /\ UNCHANGED <<redisUp, mongoUp, ttl>>

\* mongoIncrement; when MongoDB does not answer either, the cache decides.
MongoIncrement(r) ==
  /\ pc[r] = "mongo"
  /\ \/ mongoUp /\ Decide(r, "mongo")
     \/ ~mongoUp /\ At(r, "incr") /\ UNCHANGED <<count, allowed>>
  /\ UNCHANGED <<redisUp, mongoUp, ttl, outage, stuck>>

-----------------------------------------------------------------------------
\* The window of a counter ends.
WindowEnds(c) ==
  /\ count[c] > 0
  /\ c = "redis" => ttl
  /\ count' = [count EXCEPT ![c] = 0]
  /\ ttl' = (ttl /\ c # "redis")
  /\ allowed' = [allowed EXCEPT ![c] = 0]
  /\ UNCHANGED <<redisUp, mongoUp, pc, home, outage, stuck>>

RedisFlips ==
  /\ redisUp' = ~redisUp
  /\ outage' = TRUE
  /\ UNCHANGED <<mongoUp, count, ttl, pc, home, allowed, stuck>>

MongoFlips ==
  /\ mongoUp' = ~mongoUp
  /\ UNCHANGED <<redisUp, count, ttl, pc, home, allowed, outage, stuck>>

\* A process restarts: its calls end and its memory is empty.
Restart(i) ==
  /\ pc' = [r \in Req |-> IF home[r] = i THEN "idle" ELSE pc[r]]
  /\ count' = [count EXCEPT ![i] = 0]
  /\ allowed' = [allowed EXCEPT ![i] = 0]
  /\ stuck' = (stuck \/ \E r \in Req : home[r] = i /\ pc[r] = "expire")
  /\ UNCHANGED <<redisUp, mongoUp, ttl, home, outage>>

Next ==
  \/ \E r \in Req :
       \/ \E i \in Inst : Consume(r, i)
       \/ IncrRedis(r) \/ IncrLost(r) \/ IncrMemory(r)
       \/ Expire(r) \/ ExpireFails(r) \/ MongoIncrement(r)
  \/ \E c \in Counter : WindowEnds(c)
  \/ \E i \in Inst : Restart(i)
  \/ RedisFlips \/ MongoFlips

Spec == Init /\ [][Next]_vars

-----------------------------------------------------------------------------
(* Properties *)

\* While Redis serves every command its counter is the only one, and the limit holds
\* over all instances.  An outage widens it, because each tier counts on its own, but by
\* no more than one budget for each tier, whatever calls, windows, outages and restarts
\* interleave.
BudgetPerWindow ==
  \A c \in Counter : allowed[c] <= IF outage \/ c = "redis" THEN limit ELSE 0

\* A scope is not blocked for ever: a counter in Redis has an expiry or a call is
\* about to set it, unless a process or the connection failed right there.
CounterExpires ==
  count["redis"] > 0 /\ ~ttl => stuck \/ \E r \in Req : pc[r] = "expire"
=============================================================================

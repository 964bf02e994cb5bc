-------------------------- MODULE ServerLifecycle ---------------------------
(***************************************************************************)
(* The life of identity servers that share one database: server.ts with    *)
(* ensureBootstrap of admin.ts and the RedisManager of redisCache.ts.      *)
(* Servers start at the same time, crash and are started again, and shut   *)
(* down on a signal while requests are running.                            *)
(***************************************************************************)
EXTENDS Naturals, FiniteSets

CONSTANTS
  Server,
  Seeded,        \* an admin's address and password are configured
  MaxRequests,   \* bound on the requests running at a server
  MaxCrashes     \* bound on the crashes

VARIABLES
  records,       \* which of "tenant", "application", "role", "user" exist
  granted,       \* the admin holds the role
  pc,
  client, bound, \* RedisManager: its client, and the one the runtime was built with
  requests,      \* running
  open,          \* servers whose database connection is open
  swallowed,     \* history: an assignment of the role failed
  crashes        \* history: how many

vars == <<records, granted, pc, client, bound, requests, open, swallowed, crashes>>

Record == {"tenant", "application", "role", "user"}
Serving == {"serving", "draining"}
\* The records in the order in which a server ensures them.
After == [tenant |-> "find-application", application |-> "find-role",
          role |-> IF Seeded THEN "find-user" ELSE "listen", user |-> "assign"]
Find == [tenant |-> "find-tenant", application |-> "find-application",
         role |-> "find-role", user |-> "find-user"]
Create == [tenant |-> "create-tenant", application |-> "create-application",
           role |-> "create-role", user |-> "create-user"]

PC == {"down", "redis", "health", "assign", "listen", "draining", "serving",
       "redisOff", "mongoOff", "exit"} \cup {Find[r] : r \in Record} \cup {Create[r] : r \in Record}

TypeOK ==
  /\ records \subseteq Record /\ granted \in BOOLEAN /\ pc \in [Server -> PC]
  /\ client \in [Server -> {"none", "failed", "ready"}] /\ bound \in [Server -> BOOLEAN]
  /\ requests \in [Server -> 0..MaxRequests] /\ open \subseteq Server
  /\ swallowed \in BOOLEAN /\ crashes \in 0..MaxCrashes

Init ==
  /\ records = {} /\ granted = FALSE
  /\ pc = [s \in Server |-> "down"]
  /\ client = [s \in Server |-> "none"] /\ bound = [s \in Server |-> FALSE]
  /\ requests = [s \in Server |-> 0] /\ open = {} /\ swallowed = FALSE /\ crashes = 0

-----------------------------------------------------------------------------
Go(s, l) == pc' = [pc EXCEPT ![s] = l]

\* The process ends, with all it has in memory.
Ended(s) ==
  /\ Go(s, "down")
  /\ client' = [client EXCEPT ![s] = "none"] /\ bound' = [bound EXCEPT ![s] = FALSE]
  /\ requests' = [requests EXCEPT ![s] = 0] /\ open' = open \ {s}

\* mongoose.connect.
Boot(s) ==
  /\ pc[s] = "down"
  /\ Go(s, "redis") /\ open' = open \cup {s}
  /\ UNCHANGED <<records, granted, client, bound, requests, swallowed, crashes>>

\* RedisManager.connect: an error is only logged.
RedisConnect(s) ==
  /\ pc[s] = "redis"
  /\ client' \in {[client EXCEPT ![s] = c] : c \in {"ready", "failed"}}
  /\ Go(s, "health")
  /\ UNCHANGED <<records, granted, bound, requests, open, swallowed, crashes>>

\* The health probe, and the runtime, with the client only if connect() came back.
CreateRuntime(s) ==
  /\ pc[s] = "health"
  /\ bound' = [bound EXCEPT ![s] = client[s] = "ready"]
  /\ Go(s, "find-tenant")
  /\ UNCHANGED <<records, granted, client, requests, open, swallowed, crashes>>

\* A record that exists is taken as it is, and the user still gets the role; the mutant
\* gives it to new users only.
NewUsersOnly(r) == IF r = "user" THEN "listen" ELSE After[r]
Found(r) == After[r]

\* ensureBootstrap: findOne for each record.
Look(s, r) ==
  /\ pc[s] = Find[r]
  /\ Go(s, IF r \in records THEN Found(r) ELSE Create[r])
  /\ UNCHANGED <<records, granted, client, bound, requests, open, swallowed, crashes>>

\* A record that has appeared since the look is a duplicate key: for the user the rest
\* is skipped, otherwise the process ends with an unhandled rejection.
Ensure(s, r) ==
  /\ pc[s] = Create[r]
  /\ \/ /\ r \notin records
        /\ records' = records \cup {r} /\ Go(s, After[r])
        /\ UNCHANGED <<client, bound, requests, open>>
     \/ /\ r \in records /\ r = "user"
        /\ Go(s, "listen") /\ UNCHANGED <<records, client, bound, requests, open>>
     \/ r \in records /\ r # "user" /\ Ended(s) /\ UNCHANGED records
  /\ UNCHANGED <<granted, swallowed, crashes>>

\* assignRole, whose errors are dropped.
Assign(s) ==
  /\ pc[s] = "assign"
  /\ \/ granted' = TRUE /\ UNCHANGED swallowed
     \/ swallowed' = TRUE /\ UNCHANGED granted
  /\ Go(s, "listen")
  /\ UNCHANGED <<records, client, bound, requests, open, crashes>>

Listen(s) ==
  /\ pc[s] = "listen"
  /\ Go(s, "serving")
  /\ UNCHANGED <<records, granted, client, bound, requests, open, swallowed, crashes>>

Request(s) ==
  /\ pc[s] = "serving" /\ requests[s] < MaxRequests
  /\ requests' = [requests EXCEPT ![s] = @ + 1]
  /\ UNCHANGED <<records, granted, pc, client, bound, open, swallowed, crashes>>

Respond(s) ==
  /\ requests[s] > 0
  /\ requests' = [requests EXCEPT ![s] = @ - 1]
  /\ UNCHANGED <<records, granted, pc, client, bound, open, swallowed, crashes>>

\* SIGTERM while serving; a second one changes nothing.  Before that no handler is
\* registered and the signal is a crash.
Shutdown(s) ==
  /\ pc[s] = "serving"
  /\ Go(s, "draining")
  /\ UNCHANGED <<records, granted, client, bound, requests, open, swallowed, crashes>>

\* httpServer.close calls back when the last response is out; the mutant does not wait.
NotAwaited(s) == TRUE
Drained(s) == requests[s] = 0

HttpClosed(s) ==
  /\ pc[s] = "draining" /\ Drained(s)
  /\ Go(s, "redisOff")
  /\ UNCHANGED <<records, granted, client, bound, requests, open, swallowed, crashes>>

\* RedisManager.disconnect; an error is logged.
RedisClosed(s) ==
  /\ pc[s] = "redisOff"
  /\ client' = [client EXCEPT ![s] = "none"]
  /\ Go(s, "mongoOff")
  /\ UNCHANGED <<records, granted, bound, requests, open, swallowed, crashes>>

MongoClosed(s) ==
  /\ pc[s] = "mongoOff"
  /\ open' = open \ {s}
  /\ Go(s, "exit")
  /\ UNCHANGED <<records, granted, client, bound, requests, swallowed, crashes>>

Exit(s) ==
  /\ pc[s] = "exit"
  /\ Ended(s)
  /\ UNCHANGED <<records, granted, swallowed, crashes>>

\* A crash, or an error that reaches nobody while starting.
Crash(s) ==
  /\ pc[s] # "down" /\ crashes < MaxCrashes
  /\ crashes' = crashes + 1
  /\ Ended(s)
  /\ UNCHANGED <<records, granted, swallowed>>

Start(s) ==
  \/ Boot(s) \/ RedisConnect(s) \/ CreateRuntime(s) \/ Assign(s) \/ Listen(s)
  \/ \E r \in Record : Look(s, r) \/ Ensure(s, r)
Stop(s) == HttpClosed(s) \/ RedisClosed(s) \/ MongoClosed(s) \/ Exit(s)
Next == \E s \in Server : Start(s) \/ Stop(s) \/ Request(s) \/ Respond(s) \/ Shutdown(s) \/ Crash(s)

\* Promises settle, requests end, and an ended process is started again (restart
\* policies of the deployment).
Fairness == \A s \in Server : WF_vars(Start(s)) /\ WF_vars(Stop(s)) /\ WF_vars(Respond(s))
FairSpec == Init /\ [][Next]_vars /\ Fairness

-----------------------------------------------------------------------------
(* Properties *)

\* A server that serves has its records, whoever made them.
Bootstrapped ==
  \A s \in Server : pc[s] \in Serving => {"tenant", "application", "role"} \subseteq records

\* A shutdown never takes the connections away from a request that is running.
ConnectionsOutlive == \A s \in Server : requests[s] > 0 => s \in open

\* The seeded admin gets the role in the end, although servers that start together
\* get in each other's way and crash half way, unless the assignment failed.
AdminSeeded == Seeded => <>(granted \/ swallowed)

\* A server that starts comes to serve and one that shuts down ends, with Redis up or
\* not, unless it crashes.
StartsAndStops ==
  \A s \in Server : /\ pc[s] = "redis" ~> pc[s] \in {"serving", "down"}
                    /\ pc[s] = "draining" ~> pc[s] = "down"
=============================================================================

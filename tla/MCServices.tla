----------------------------- MODULE MCServices -----------------------------
(***************************************************************************)
(* Parts that share no state: verification tokens, rate limits, the        *)
(* distributed lock, the signed-in state of a client and a page of the     *)
(* consoles.  A behaviour moves the one that part names, and the others    *)
(* stay as they started.                                                   *)
(***************************************************************************)
EXTENDS VerificationTokens, FiniteSets, TLC

CONSTANTS
  Inst, limit, durableFallback, Holder, None, retries,
  Call, MaxLogins, Query, MaxChanges, MaxCalls

\* The limit and the retries are numbers, an instance is none of the shared counters, and
\* the absent token is nobody's.
ASSUME LimitsAssumption == limit \in Nat /\ Inst # {} /\ Inst \cap {"redis", "mongo"} = {}
ASSUME LocksAssumption == retries \in Nat /\ None \notin Holder
\* Something can be asked for, and the first version of what is shown is within the bound.
ASSUME ClientsAssumption == MaxLogins \in Nat /\ Query # {} /\ MaxChanges \in Nat \ {0}

VARIABLES
  part,
  redisUp, mongoUp, count, ttl, limitPc, home, allowed, outage, stuck,
  ready, holder, cached, lockPc, tries, lease, fallback,
  client, view, store, cred, live, ranOut, opened, killed, callKind, with, answer,
  passed, assumed, stranded, left,
  page, query, shown, loading, saving, error, result, version, call, turn, newest, crossed

limitVars == <<redisUp, mongoUp, count, ttl, limitPc, home, allowed, outage, stuck>>
lockVars == <<ready, holder, cached, lockPc, tries, lease, fallback>>
clientVars == <<client, view, store, cred, live, ranOut, opened, killed, callKind, with,
                answer, passed, assumed, stranded, left>>
pageVars == <<page, query, shown, loading, saving, error, result, version, call, turn, newest,
              crossed>>

Limits == INSTANCE RateLimit WITH pc <- limitPc
Locks == INSTANCE DistributedLock WITH Req <- Holder, pc <- lockPc
Sessions == INSTANCE ClientSession WITH expired <- ranOut, kind <- callKind
Console == INSTANCE ConsolePages

\* The inputs VerificationTokens leaves open, where they do not matter.
Settled ==
  /\ \A t \in Token : local[t] /\ kind[t] = (CHOOSE k \in Kind : TRUE)
  /\ \A r \in Req : want[r] = (CHOOSE k \in Kind : TRUE) /\ held[r] = (CHOOSE t \in Token : TRUE)

AnyInit ==
  /\ part \in {"tokens", "limits", "locks", "sessions", "pages"}
  /\ Init /\ (part # "tokens" => Settled)
  /\ Limits!Init /\ Locks!Init
  /\ Sessions!Init /\ (part # "sessions" => client = Sessions!React)
  /\ Console!Init /\ (part # "pages" => page = Console!TenantForm /\ query = CHOOSE q \in Query : TRUE)

AnyNext ==
  /\ \/ part = "tokens" /\ Next /\ UNCHANGED <<limitVars, lockVars, clientVars, pageVars>>
     \/ part = "limits" /\ Limits!Next /\ UNCHANGED <<vars, lockVars, clientVars, pageVars>>
     \/ part = "locks" /\ Locks!Next /\ UNCHANGED <<vars, limitVars, clientVars, pageVars>>
     \/ part = "sessions" /\ Sessions!Next /\ UNCHANGED <<vars, limitVars, lockVars, pageVars>>
     \/ part = "pages" /\ Console!Next /\ UNCHANGED <<vars, limitVars, lockVars, clientVars>>
  /\ UNCHANGED part

AnySpec == AnyInit /\ [][AnyNext]_<<part, vars, limitVars, lockVars, clientVars, pageVars>>

\* Calls, kinds and tokens are interchangeable.
Symmetry == Permutations(Req) \cup Permutations(Kind) \cup Permutations(Token) \cup Permutations(Call)

-----------------------------------------------------------------------------
(* Properties *)

\* One budget per window over all instances and one per tier after an outage, and
\* a counter in Redis that expires, unless a failure hit right after its creation.
BudgetPerWindow ==
  part = "limits" => Limits!TypeOK /\ Limits!BudgetPerWindow /\ Limits!CounterExpires

\* One caller at most holds the lock within its TTL, unless the cache was used, and
\* it goes when its holder releases it or its TTL passes.
LeaseExclusive ==
  [](part = "locks" => Locks!TypeOK /\ Locks!LeaseExclusive) /\ Locks!OnlyOwnerReleases

\* What a client or a console page shows is what the server has, unless an older answer
\* came in late: a user with a live session, nothing of one after a logout, the rows of
\* the query in the controls, a spinner with a cause, and one submit at a time.
ClientsAgree ==
  /\ part = "sessions" => /\ Sessions!TypeOK /\ Sessions!SignedInIsLive
                          /\ Sessions!SignedOutForgets /\ Sessions!LoadingHasCause
  /\ part = "pages" => /\ Console!TypeOK /\ Console!ShowsTheTruth
                       /\ Console!SpinnerHasCause /\ Console!OneSubmit
=============================================================================

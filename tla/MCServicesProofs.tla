-------------------------- MODULE MCServicesProofs --------------------------
(***************************************************************************)
(* Verification tokens, the distributed lock, the rate limits, the client  *)
(* SDKs' sessions and the consoles' pages, for any number of tokens, kinds,*)
(* callers, retries, instances, calls, logins and changes: a token         *)
(* is redeemed once, one that a later issue replaced never is again, and   *)
(* no more tokens of a kind are live than there are calls; one caller at   *)
(* most holds the lock within its TTL as long as the cache was never used  *)
(* in its place, and its token goes only with its holder or its TTL; no    *)
(* tier lets more calls through in a window than the limit, and without an *)
(* outage only Redis counts; what a client or a page shows is what the     *)
(* server has.                                                             *)
(***************************************************************************)
EXTENDS MCServices, FiniteSetTheorems, TLAPS

-----------------------------------------------------------------------------
(* Verification tokens *)

Spent(t) == state[t] \in {"consumed", "gone"}

TokenInv ==
  /\ TypeOK /\ RedeemedOnce
  /\ \A t \in Token : granted[t] > 0 => Spent(t)
  /\ \A t \in dead : Spent(t)

\* The initial states satisfy the invariant: no token is stored.
LEMMA InitToken == Init => TokenInv
  BY DEF Init, TokenInv, TypeOK, RedeemedOnce, Spent

\* A spent token stays spent, so every step keeps the invariant.
LEMMA TokenStep == TokenInv /\ [Next]_vars => TokenInv'
<1> SUFFICES ASSUME TokenInv, [Next]_vars PROVE TokenInv'
    OBVIOUS
<1> USE DEF TokenInv, TypeOK, RedeemedOnce, Spent, tokens, frame
<1>1. CASE UNCHANGED vars
      BY <1>1 DEF vars
<1>2. ASSUME NEW r \in Req, NEW k \in Kind, Issue(r, k) PROVE TokenInv'
      BY <1>2 DEF Issue, Replaced, Live
<1>3. ASSUME NEW r \in Req, NEW t \in Token, Create(r, t) PROVE TokenInv'
      BY <1>3 DEF Create, End
<1>4. ASSUME NEW t \in Token, IssueElsewhere(t) PROVE TokenInv'
      BY <1>4 DEF IssueElsewhere
<1>5. ASSUME NEW r \in Req, NEW t \in Token, NEW k \in Kind, Redeem(r, t, k) PROVE TokenInv'
  <2>1. granted[t] = 0 /\ t \notin dead
        BY <1>5 DEF Redeem, Redeemable
  <2> QED BY <1>5, <2>1 DEF Redeem
<1>6. ASSUME NEW r \in Req, Effect(r) PROVE TokenInv'
      BY <1>6 DEF Effect, End
<1>7. ASSUME NEW t \in Token, Expire(t) PROVE TokenInv'
      BY <1>7 DEF Expire
<1>8. ASSUME NEW t \in Token, TtlDelete(t) PROVE TokenInv'
      BY <1>8 DEF TtlDelete
<1>9. ASSUME NEW r \in Req, Fail(r) PROVE TokenInv'
      BY <1>9 DEF Fail, End
<1> QED
    BY <1>1, <1>2, <1>3, <1>4, <1>5, <1>6, <1>7, <1>8, <1>9 DEF Next

\* The invariant holds in every state the service reaches.
LEMMA TokensKept == Spec => []TokenInv
  BY InitToken, TokenStep, PTL DEF Spec

\* redeem succeeds once for a token.
THEOREM TokenSingleUse == Spec => []RedeemedOnce
<1>1. TokenInv => RedeemedOnce
      BY DEF TokenInv
<1> QED BY TokensKept, <1>1, PTL

\* A redeem never succeeds for a token that issue replaced.
THEOREM ReplacedStaysDead == Spec => ReplacedIsDead
<1> DEFINE Quiet == \A t \in dead : granted'[t] = granted[t]
<1>1. TokenInv /\ [Next]_vars => [Quiet]_vars
  <2> SUFFICES ASSUME TokenInv, Next, NEW u \in dead PROVE granted'[u] = granted[u]
      BY DEF vars
  <2> USE DEF TokenInv, TypeOK, Spent, tokens, frame
  <2>1. ASSUME NEW r \in Req, NEW t \in Token, NEW k \in Kind, Redeem(r, t, k)
        PROVE granted'[u] = granted[u]
    <3>1. t # u
          BY <2>1 DEF Redeem, Redeemable
    <3> QED BY <2>1, <3>1 DEF Redeem
  <2> QED
      BY <2>1 DEF Next, Issue, Create, IssueElsewhere, Effect, Expire, TtlDelete, Fail
<1> QED BY TokensKept, <1>1, PTL DEF Spec, ReplacedIsDead

-----------------------------------------------------------------------------
\* The calls that have consumed the tokens of kind k and not stored theirs yet.
Issuing(k) == {r \in Req : pc[r] = "create" /\ want[r] = k}

\* Every live token of a kind is one that some call had room for: the live ones
\* and those about to be stored are together no more than the calls.
RoomForEach ==
  \A k \in Kind : /\ IsFiniteSet(Live(k)) /\ IsFiniteSet(Issuing(k))
                  /\ Cardinality(Live(k)) + Cardinality(Issuing(k)) <= Cardinality(Req)

\* At the start no token is live and no call runs.
LEMMA InitRoom == Init => RoomForEach
<1> SUFFICES ASSUME Init, NEW k \in Kind
             PROVE  /\ IsFiniteSet(Live(k)) /\ IsFiniteSet(Issuing(k))
                    /\ Cardinality(Live(k)) + Cardinality(Issuing(k)) <= Cardinality(Req)
    BY DEF RoomForEach
<1>1. Live(k) = {} /\ Issuing(k) = {}
      BY DEF Init, Live, Issuing
<1> QED BY <1>1, ReqAssumption, FS_EmptySet, FS_CardinalityType

\* A step that adds nothing to either set keeps the room.
LEMMA RoomKept ==
  ASSUME NEW S, NEW T, NEW S2, NEW T2, NEW n \in Nat, S2 \subseteq S, T2 \subseteq T,
         IsFiniteSet(S), IsFiniteSet(T), Cardinality(S) + Cardinality(T) <= n
  PROVE  IsFiniteSet(S2) /\ IsFiniteSet(T2) /\ Cardinality(S2) + Cardinality(T2) <= n
<1>1. IsFiniteSet(S2) /\ Cardinality(S2) <= Cardinality(S)
      BY FS_Subset
<1>2. IsFiniteSet(T2) /\ Cardinality(T2) <= Cardinality(T)
      BY FS_Subset
<1>3. /\ Cardinality(S) \in Nat /\ Cardinality(T) \in Nat
      /\ Cardinality(S2) \in Nat /\ Cardinality(T2) \in Nat
      BY <1>1, <1>2, FS_CardinalityType
<1> QED BY <1>1, <1>2, <1>3

\* issue empties the live tokens of its kind before it takes a place, and storing
\* the token gives that place to it.
LEMMA StepRoom ==
  TokenInv /\ RoomForEach /\ [Next]_vars => RoomForEach'
<1> SUFFICES ASSUME TokenInv, RoomForEach, [Next]_vars, NEW k \in Kind
             PROVE  /\ IsFiniteSet(Live(k)') /\ IsFiniteSet(Issuing(k)')
                    /\ Cardinality(Live(k)') + Cardinality(Issuing(k)') <= Cardinality(Req)
    BY DEF RoomForEach
<1>n. Cardinality(Req) \in Nat
      BY ReqAssumption, FS_CardinalityType
<1>h. /\ IsFiniteSet(Live(k)) /\ IsFiniteSet(Issuing(k))
      /\ Cardinality(Live(k)) + Cardinality(Issuing(k)) <= Cardinality(Req)
      BY DEF RoomForEach
<1>k. ASSUME Live(k)' \subseteq Live(k), Issuing(k)' \subseteq Issuing(k)
      PROVE  /\ IsFiniteSet(Live(k)') /\ IsFiniteSet(Issuing(k)')
             /\ Cardinality(Live(k)') + Cardinality(Issuing(k)') <= Cardinality(Req)
      BY <1>k, <1>n, <1>h, RoomKept
<1> USE DEF TokenInv, TypeOK
<1>1. CASE UNCHANGED vars
      BY <1>1, <1>k DEF vars, tokens, frame, Live, Issuing
<1>2. ASSUME NEW r \in Req, NEW q \in Kind, Issue(r, q)
      PROVE  /\ IsFiniteSet(Live(k)') /\ IsFiniteSet(Issuing(k)')
             /\ Cardinality(Live(k)') + Cardinality(Issuing(k)') <= Cardinality(Req)
  <2>1. CASE q = k
    <3>1. Live(k)' = {}
          BY <1>2, <2>1 DEF Issue, Replaced, Live
    <3>2. Issuing(k)' \subseteq Req
          BY DEF Issuing
    <3>3. IsFiniteSet(Issuing(k)') /\ Cardinality(Issuing(k)') <= Cardinality(Req)
          BY <3>2, ReqAssumption, FS_Subset
    <3>4. Cardinality(Issuing(k)') \in Nat
          BY <3>3, FS_CardinalityType
    <3> QED BY <3>1, <3>3, <3>4, <1>n, FS_EmptySet
  <2>2. CASE q # k
        BY <1>2, <2>2, <1>k DEF Issue, Replaced, Live, Issuing
  <2> QED BY <2>1, <2>2
<1>3. ASSUME NEW r \in Req, NEW t \in Token, Create(r, t)
      PROVE  /\ IsFiniteSet(Live(k)') /\ IsFiniteSet(Issuing(k)')
             /\ Cardinality(Live(k)') + Cardinality(Issuing(k)') <= Cardinality(Req)
  <2>1. CASE want[r] = k
    <3>1. Live(k)' = Live(k) \cup {t} /\ t \notin Live(k)
          BY <1>3, <2>1 DEF Create, Live
    <3>2. Issuing(k)' = Issuing(k) \ {r} /\ r \in Issuing(k)
          BY <1>3, <2>1 DEF Create, End, Issuing
    <3>3. IsFiniteSet(Live(k)') /\ Cardinality(Live(k)') = Cardinality(Live(k)) + 1
          BY <3>1, <1>h, FS_AddElement
    <3>4. IsFiniteSet(Issuing(k)') /\ Cardinality(Issuing(k)') = Cardinality(Issuing(k)) - 1
          BY <3>2, <1>h, FS_RemoveElement
    <3>5. Cardinality(Live(k)) \in Nat /\ Cardinality(Issuing(k)) \in Nat
          BY <1>h, FS_CardinalityType
    <3> QED BY <3>3, <3>4, <3>5, <1>h, <1>n
  <2>2. CASE want[r] # k
        BY <1>3, <2>2, <1>k DEF Create, End, Live, Issuing
  <2> QED BY <2>1, <2>2
<1>4. ASSUME NEW t \in Token, IssueElsewhere(t)
      PROVE  Live(k)' \subseteq Live(k) /\ Issuing(k)' \subseteq Issuing(k)
      BY <1>4 DEF IssueElsewhere, frame, Live, Issuing
<1>5. ASSUME NEW r \in Req, NEW t \in Token, NEW q \in Kind, Redeem(r, t, q)
      PROVE  Live(k)' \subseteq Live(k) /\ Issuing(k)' \subseteq Issuing(k)
      BY <1>5 DEF Redeem, frame, Live, Issuing
<1>6. ASSUME NEW r \in Req, Effect(r) \/ Fail(r)
      PROVE  Live(k)' \subseteq Live(k) /\ Issuing(k)' \subseteq Issuing(k)
      BY <1>6 DEF Effect, Fail, End, tokens, Live, Issuing
<1>7. ASSUME NEW t \in Token, Expire(t) \/ TtlDelete(t)
      PROVE  Live(k)' \subseteq Live(k) /\ Issuing(k)' \subseteq Issuing(k)
      BY <1>7 DEF Expire, TtlDelete, frame, Live, Issuing
<1> QED
    BY <1>1, <1>2, <1>3, <1>4, <1>5, <1>6, <1>7, <1>k DEF Next

\* However many issues ran, failed half way or raced, no more tokens of a kind are
\* live than there are calls: a single caller leaves one.
THEOREM OneLiveTokenPerCall == Spec => []OneLiveToken
<1>1. RoomForEach => OneLiveToken
  <2> SUFFICES ASSUME RoomForEach, NEW k \in Kind
               PROVE  Cardinality(Live(k)) <= Cardinality(Req)
      BY DEF OneLiveToken
  <2>1. /\ IsFiniteSet(Live(k)) /\ IsFiniteSet(Issuing(k))
        /\ Cardinality(Live(k)) + Cardinality(Issuing(k)) <= Cardinality(Req)
        BY DEF RoomForEach
  <2>2. Cardinality(Live(k)) \in Nat /\ Cardinality(Issuing(k)) \in Nat /\ Cardinality(Req) \in Nat
        BY <2>1, ReqAssumption, FS_CardinalityType
  <2> QED BY <2>1, <2>2
<1>2. Init => RoomForEach
      BY InitRoom
<1>3. TokenInv /\ RoomForEach /\ [Next]_vars => RoomForEach'
      BY StepRoom
<1> QED BY TokensKept, <1>1, <1>2, <1>3, PTL DEF Spec


-----------------------------------------------------------------------------
(* Locks *)

\* A caller within its TTL is one that was granted the lock and whose token is
\* still in Redis.
LeaseIsStored == ~fallback => \A r \in Holder : lease[r] => holder = r /\ lockPc[r] = "held"

LockInv == Locks!TypeOK /\ LeaseIsStored

\* At the start nobody holds the lock.
LEMMA InitLock == Locks!Init => LockInv
<1> SUFFICES ASSUME Locks!Init PROVE Locks!TypeOK /\ LeaseIsStored
    BY DEF LockInv
<1>1. tries \in [Holder -> 0..retries]
      BY LocksAssumption DEF Locks!Init
<1>2. Locks!TypeOK
      BY <1>1 DEF Locks!Init, Locks!TypeOK
<1> QED BY <1>2 DEF Locks!Init, LeaseIsStored

\* A refused call waits for its next attempt or returns.
LEMMA RefusedCall ==
  ASSUME Locks!TypeOK, NEW r \in Holder, Locks!Refused(r)
  PROVE  /\ lockPc' \in [Holder -> {"idle", "try", "probe", "store", "held"}]
         /\ tries' \in [Holder -> 0..retries]
         /\ \A q \in Holder : q # r => lockPc'[q] = lockPc[q]
<1> USE LocksAssumption DEF Locks!TypeOK
<1>1. tries[r] < retries => tries[r] + 1 \in 0..retries
      OBVIOUS
<1> QED BY <1>1 DEF Locks!Refused

\* Every step keeps the types.
LEMMA LockType ==
  Locks!TypeOK /\ [Locks!Next]_(Locks!vars) => Locks!TypeOK'
<1> SUFFICES ASSUME Locks!TypeOK, [Locks!Next]_(Locks!vars) PROVE Locks!TypeOK'
    OBVIOUS
<1> USE LocksAssumption DEF Locks!TypeOK
<1>1. CASE UNCHANGED Locks!vars
      BY <1>1 DEF Locks!vars
<1>2. ASSUME NEW r \in Holder, Locks!Acquire(r) PROVE Locks!TypeOK'
      BY <1>2 DEF Locks!Acquire
<1>3. ASSUME NEW r \in Holder, Locks!SetNx(r) PROVE Locks!TypeOK'
      BY <1>3, RefusedCall DEF Locks!SetNx, Locks!Granted
<1>4. ASSUME NEW r \in Holder, Locks!SetLost(r) PROVE Locks!TypeOK'
      BY <1>4, RefusedCall DEF Locks!SetLost
<1>5. ASSUME NEW r \in Holder, Locks!Probe(r) PROVE Locks!TypeOK'
      BY <1>5 DEF Locks!Probe
<1>6. ASSUME NEW r \in Holder, Locks!Probed(r) PROVE Locks!TypeOK'
      BY <1>6, RefusedCall DEF Locks!Probed
<1>7. ASSUME NEW r \in Holder, Locks!Store(r) PROVE Locks!TypeOK'
      BY <1>7 DEF Locks!Store, Locks!Granted
<1>8. ASSUME NEW r \in Holder, Locks!Release(r) \/ Locks!Abandon(r) PROVE Locks!TypeOK'
      BY <1>8 DEF Locks!Release, Locks!Abandon, Locks!End
<1>9. ASSUME NEW r \in Holder, Locks!Extend(r) PROVE Locks!TypeOK'
      BY <1>9 DEF Locks!Extend
<1>10. CASE Locks!KeyExpires \/ Locks!CacheExpires \/ Locks!ClientFlips
      BY <1>10 DEF Locks!KeyExpires, Locks!CacheExpires, Locks!ClientFlips
<1> QED
    BY <1>1, <1>2, <1>3, <1>4, <1>5, <1>6, <1>7, <1>8, <1>9, <1>10 DEF Locks!Next

\* A lease starts with the token stored, and ends with it.
LEMMA LockLease ==
  LockInv /\ [Locks!Next]_(Locks!vars) => LeaseIsStored'
<1> SUFFICES ASSUME LockInv, [Locks!Next]_(Locks!vars), ~fallback', NEW q \in Holder, lease'[q]
             PROVE  holder' = q /\ lockPc'[q] = "held"
    BY DEF LeaseIsStored
<1> USE LocksAssumption DEF LockInv, Locks!TypeOK, LeaseIsStored
<1>1. CASE UNCHANGED Locks!vars
      BY <1>1 DEF Locks!vars
<1>2. ASSUME NEW r \in Holder, Locks!Acquire(r) PROVE holder' = q /\ lockPc'[q] = "held"
      BY <1>2 DEF Locks!Acquire
<1>3. ASSUME NEW r \in Holder, Locks!SetNx(r) PROVE holder' = q /\ lockPc'[q] = "held"
  <2>1. CASE Locks!Free(r) /\ holder' = r /\ Locks!Granted(r)
        BY <1>3, <2>1 DEF Locks!SetNx, Locks!Free, Locks!Granted
  <2>2. CASE ~Locks!Free(r) /\ Locks!Refused(r) /\ UNCHANGED <<holder, lease>>
        BY <1>3, <2>2, RefusedCall DEF Locks!SetNx
  <2> QED BY <1>3, <2>1, <2>2 DEF Locks!SetNx
<1>4. ASSUME NEW r \in Holder, Locks!SetLost(r) PROVE holder' = q /\ lockPc'[q] = "held"
      BY <1>4, RefusedCall DEF Locks!SetLost, Locks!Free
<1>5. ASSUME NEW r \in Holder, Locks!Probe(r) PROVE holder' = q /\ lockPc'[q] = "held"
      BY <1>5 DEF Locks!Probe
<1>6. ASSUME NEW r \in Holder, Locks!Probed(r) PROVE holder' = q /\ lockPc'[q] = "held"
      BY <1>6, RefusedCall DEF Locks!Probed
<1>7. ASSUME NEW r \in Holder, Locks!Store(r) PROVE holder' = q /\ lockPc'[q] = "held"
      BY <1>7 DEF Locks!Store
<1>8. ASSUME NEW r \in Holder, Locks!Release(r) \/ Locks!Abandon(r) PROVE holder' = q /\ lockPc'[q] = "held"
      BY <1>8 DEF Locks!Release, Locks!Abandon, Locks!End, Locks!Owns
<1>9. ASSUME NEW r \in Holder, Locks!Extend(r) PROVE holder' = q /\ lockPc'[q] = "held"
      BY <1>9 DEF Locks!Extend
<1>10. CASE Locks!KeyExpires \/ Locks!CacheExpires \/ Locks!ClientFlips
      BY <1>10 DEF Locks!KeyExpires, Locks!CacheExpires, Locks!ClientFlips
<1> QED
    BY <1>1, <1>2, <1>3, <1>4, <1>5, <1>6, <1>7, <1>8, <1>9, <1>10 DEF Locks!Next

\* The token of a holder goes with its release or its TTL.
LEMMA LockStep ==
  ASSUME Locks!TypeOK, Locks!Next, NEW r \in Holder, holder = r, holder' # r
  PROVE  holder' = None /\ ~lease'[r]
<1> USE LocksAssumption DEF Locks!TypeOK
<1>1. ASSUME NEW q \in Holder, Locks!SetNx(q) \/ Locks!SetLost(q)
      PROVE  holder' = None /\ ~lease'[r]
      BY <1>1 DEF Locks!SetNx, Locks!SetLost, Locks!Free
<1>2. ASSUME NEW q \in Holder, Locks!Release(q) PROVE holder' = None /\ ~lease'[r]
      BY <1>2 DEF Locks!Release, Locks!Owns, Locks!End
<1>3. CASE Locks!KeyExpires
      BY <1>3 DEF Locks!KeyExpires
<1> QED
    BY <1>1, <1>2, <1>3
    DEF Locks!Next, Locks!Acquire, Locks!Probe, Locks!Probed, Locks!Store, Locks!Extend,
        Locks!Abandon, Locks!CacheExpires, Locks!ClientFlips

\* Two callers never both hold the lock within its TTL, as long as no call has used the
\* cache as a lock: acquire is SET NX, extend and release ask for the caller's own token.
\* A token leaves Redis by its holder's release or by its TTL, never because of a late
\* release, an extension or another acquisition.
THEOREM LockHolds == AnySpec => LeaseExclusive
<1> DEFINE Move == [\A r \in Holder : holder = r /\ holder' # r => holder' = None /\ ~lease'[r]]_(Locks!vars)
<1>1. AnyInit => LockInv
      BY InitLock DEF AnyInit
<1>2. ASSUME LockInv, [AnyNext]_<<part, vars, limitVars, lockVars, clientVars, pageVars>>
      PROVE  [Locks!Next]_(Locks!vars)
      BY <1>2 DEF AnyNext, lockVars, Locks!vars
<1>3. LockInv /\ [Locks!Next]_(Locks!vars) => LockInv'
      BY LockType, LockLease DEF LockInv
<1>4. LockInv /\ [Locks!Next]_(Locks!vars) => Move
      BY LockStep DEF LockInv, Locks!vars
<1>5. LockInv => (part = "locks" => Locks!TypeOK /\ Locks!LeaseExclusive)
      BY DEF LockInv, LeaseIsStored, Locks!LeaseExclusive
<1>6. LockInv /\ [AnyNext]_<<part, vars, limitVars, lockVars, clientVars, pageVars>>
        => LockInv' /\ Move
      BY <1>2, <1>3, <1>4
<1> QED BY <1>1, <1>5, <1>6, PTL DEF AnySpec, LeaseExclusive, Locks!OnlyOwnerReleases

-----------------------------------------------------------------------------
(* Rate limits *)

Expiring(r) == limitPc[r] = "expire"

\* The calls a counter has let through are among those it has counted.  The first call
\* in Redis is let through when it has set the expiry; until then the window cannot end,
\* so there is one such call, and its place is kept.  Without an outage no call gets to
\* another counter.
LimitInv ==
  /\ Limits!TypeOK
  /\ \A c \in Limits!Counter : allowed[c] <= count[c] /\ allowed[c] <= limit
  /\ \A r, q \in Req : Expiring(r) /\ Expiring(q) => r = q
  /\ (\E r \in Req : Expiring(r)) =>
       ~ttl /\ allowed["redis"] < count["redis"] /\ (limit > 0 => allowed["redis"] < limit)
  /\ count["redis"] = 0 => ~ttl
  /\ ~outage => /\ redisUp /\ \A r \in Req : limitPc[r] # "mongo"
                /\ \A c \in Limits!Counter : c # "redis" => allowed[c] = 0
  /\ Limits!CounterExpires

\* The counters.
LEMMA Counters ==
  /\ "redis" \in Limits!Counter /\ "mongo" \in Limits!Counter
         /\ \A i \in Inst : i \in Limits!Counter /\ i # "redis" /\ i # "mongo"
  BY LimitsAssumption DEF Limits!Counter

\* A counter that saturates one above the limit.
LEMMA CountedIs ==
  ASSUME NEW n \in 0..(limit + 1)
  PROVE  /\ Limits!Counted(n) \in 0..(limit + 1) /\ Limits!Counted(n) >= n /\ Limits!Counted(n) > 0
         /\ Limits!Within(Limits!Counted(n)) => n < limit /\ Limits!Counted(n) = n + 1
  BY LimitsAssumption DEF Limits!Counted, Limits!Within

\* At the start nothing is counted.
LEMMA InitLimit == Limits!Init => LimitInv
<1> SUFFICES ASSUME Limits!Init PROVE LimitInv
    OBVIOUS
<1>1. (CHOOSE i \in Inst : TRUE) \in Inst
      BY LimitsAssumption
<1>2. redisUp \in BOOLEAN /\ mongoUp \in BOOLEAN /\ ttl \in BOOLEAN /\ outage \in BOOLEAN /\ stuck \in BOOLEAN
      BY Zenon DEF Limits!Init
<1>3. count \in [Limits!Counter -> 0..(limit + 1)] /\ allowed \in [Limits!Counter -> Nat]
      BY LimitsAssumption DEF Limits!Init
<1>4. limitPc \in [Req -> {"idle", "incr", "expire", "mongo"}] /\ home \in [Req -> Inst]
      BY <1>1 DEF Limits!Init
<1>5. Limits!TypeOK
      BY <1>2, <1>3, <1>4 DEF Limits!TypeOK
<1>6. \A c \in Limits!Counter : allowed[c] = 0 /\ count[c] = 0
      BY DEF Limits!Init
<1>7. \A r \in Req : limitPc[r] = "idle"
      BY DEF Limits!Init
<1>8. \A c \in Limits!Counter : allowed[c] <= count[c] /\ allowed[c] <= limit
      BY <1>6, LimitsAssumption
<1> QED BY <1>5, <1>6, <1>7, <1>8, Counters DEF Limits!Init, LimitInv, Expiring, Limits!CounterExpires

\* Counting a call on one counter keeps its allowance within the limit.
LEMMA DecideKeeps ==
  ASSUME LimitInv, NEW r \in Req, NEW c \in Limits!Counter, Limits!Decide(r, c)
  PROVE  /\ count' \in [Limits!Counter -> 0..(limit + 1)] /\ allowed' \in [Limits!Counter -> Nat]
         /\ limitPc' \in [Req -> {"idle", "incr", "expire", "mongo"}] /\ UNCHANGED home
         /\ \A d \in Limits!Counter : allowed'[d] <= count'[d] /\ allowed'[d] <= limit
         /\ \A d \in Limits!Counter : d # c => count'[d] = count[d] /\ allowed'[d] = allowed[d]
         /\ count'[c] > 0
         /\ allowed[c] < count[c] => allowed'[c] < count'[c] /\ (allowed[c] < limit => allowed'[c] < limit)
         /\ limitPc'[r] = "idle" /\ \A q \in Req : q # r => limitPc'[q] = limitPc[q]
<1> DEFINE n == Limits!Counted(count[c])
<1>1. count[c] \in 0..(limit + 1) /\ allowed[c] \in Nat /\ allowed[c] <= count[c] /\ allowed[c] <= limit
      BY DEF LimitInv, Limits!TypeOK
<1>2. /\ n \in 0..(limit + 1) /\ n >= count[c] /\ n > 0
      /\ Limits!Within(n) => count[c] < limit /\ n = count[c] + 1
      BY <1>1, CountedIs
<1> HIDE DEF n
<1>3. /\ count' = [count EXCEPT ![c] = n]
      /\ allowed' = IF Limits!Within(n) THEN [allowed EXCEPT ![c] = allowed[c] + 1] ELSE allowed
      /\ limitPc' = [limitPc EXCEPT ![r] = "idle"] /\ UNCHANGED home
      BY DEF n, Limits!Decide, Limits!At
<1>4. count' \in [Limits!Counter -> 0..(limit + 1)] /\ allowed' \in [Limits!Counter -> Nat]
      BY <1>1, <1>2, <1>3 DEF LimitInv, Limits!TypeOK
<1>5. \A d \in Limits!Counter : d # c => count'[d] = count[d] /\ allowed'[d] = allowed[d]
      BY <1>3 DEF LimitInv, Limits!TypeOK
<1>6. count'[c] = n /\ allowed'[c] = IF Limits!Within(n) THEN allowed[c] + 1 ELSE allowed[c]
      BY <1>3 DEF LimitInv, Limits!TypeOK
<1>7. /\ allowed'[c] <= count'[c] /\ allowed'[c] <= limit
      /\ allowed[c] < count[c] => allowed'[c] < count'[c] /\ (allowed[c] < limit => allowed'[c] < limit)
      BY <1>1, <1>2, <1>6, LimitsAssumption
<1>8. /\ limitPc' \in [Req -> {"idle", "incr", "expire", "mongo"}]
      /\ limitPc'[r] = "idle" /\ \A q \in Req : q # r => limitPc'[q] = limitPc[q]
      BY <1>3 DEF LimitInv, Limits!TypeOK
<1> QED BY <1>2, <1>3, <1>4, <1>5, <1>6, <1>7, <1>8 DEF LimitInv

\* What the steps of a call leave of LimitInv to show, when the call is not about to set
\* the expiry before or after it and Redis is not the counter that changes.
LEMMA OtherCounter ==
  ASSUME LimitInv, NEW r \in Req, NEW c \in Limits!Counter \ {"redis"},
         Limits!Decide(r, c), UNCHANGED <<redisUp, mongoUp, ttl>>, outage' \in BOOLEAN, stuck' \in BOOLEAN,
         outage', outage => outage', stuck => stuck', Expiring(r) => stuck'
  PROVE  LimitInv'
<1>1. Limits!TypeOK'
      BY DecideKeeps DEF LimitInv, Limits!TypeOK
<1>2. \A q \in Req : Expiring(q)' => Expiring(q)
      BY DecideKeeps DEF Expiring
<1>3. count'["redis"] = count["redis"] /\ allowed'["redis"] = allowed["redis"]
      BY DecideKeeps, Counters
<1>4. Limits!CounterExpires'
  <2> SUFFICES ASSUME count'["redis"] > 0, ~ttl', ~stuck'
               PROVE  \E q \in Req : limitPc'[q] = "expire"
      BY DEF Limits!CounterExpires
  <2>1. PICK q \in Req : limitPc[q] = "expire"
        BY <1>3 DEF LimitInv, Limits!CounterExpires
  <2>2. q # r
        BY <2>1 DEF Expiring
  <2> QED BY <2>1, <2>2, DecideKeeps
<1> QED BY <1>1, <1>2, <1>3, <1>4, DecideKeeps DEF LimitInv

\* A call that sets no expiry moves and nothing is counted.
LEMMA CallMoves ==
  ASSUME LimitInv, NEW r \in Req, NEW to \in {"incr", "mongo"},
         limitPc' = [limitPc EXCEPT ![r] = to], home' \in [Req -> Inst], ~Expiring(r),
         to = "mongo" => outage,
         UNCHANGED <<redisUp, mongoUp, ttl, count, allowed, outage, stuck>>
  PROVE  LimitInv'
<1>1. Limits!TypeOK'
      BY DEF LimitInv, Limits!TypeOK
<1>2. \A q \in Req : (limitPc'[q] = "expire") <=> (limitPc[q] = "expire")
      BY DEF LimitInv, Limits!TypeOK, Expiring
<1>3. ~outage => \A q \in Req : limitPc'[q] # "mongo"
      BY DEF LimitInv, Limits!TypeOK
<1> QED BY <1>1, <1>2, <1>3 DEF LimitInv, Expiring, Limits!CounterExpires

\* The first increment of a window in Redis leaves its call to set the expiry.
LEMMA FirstIncrement ==
  ASSUME LimitInv, NEW r \in Req, Limits!IncrRedis(r), count["redis"] = 0
  PROVE  LimitInv'
<1>1. /\ count' = [count EXCEPT !["redis"] = 1] /\ limitPc' = [limitPc EXCEPT ![r] = "expire"]
      /\ UNCHANGED <<redisUp, mongoUp, ttl, home, allowed, outage, stuck>>
      BY DEF Limits!IncrRedis, Limits!At
<1>2. count' \in [Limits!Counter -> 0..(limit + 1)]
      BY <1>1, Counters, LimitsAssumption DEF LimitInv, Limits!TypeOK
<1>3. limitPc' \in [Req -> {"idle", "incr", "expire", "mongo"}]
      BY <1>1 DEF LimitInv, Limits!TypeOK
<1>4. Limits!TypeOK'
      BY <1>1, <1>2, <1>3 DEF LimitInv, Limits!TypeOK
<1>5. /\ count'["redis"] = 1 /\ \A d \in Limits!Counter : d # "redis" => count'[d] = count[d]
      /\ limitPc'[r] = "expire" /\ \A q \in Req : q # r => limitPc'[q] = limitPc[q]
      BY <1>1, Counters DEF LimitInv, Limits!TypeOK
<1>6. allowed["redis"] = 0 /\ ~ttl /\ \A q \in Req : ~Expiring(q)
      BY Counters DEF LimitInv, Limits!TypeOK
<1>7. \A q \in Req : Expiring(q)' => q = r
      BY <1>5, <1>6 DEF Expiring
<1>8. \A c \in Limits!Counter : allowed'[c] <= count'[c] /\ allowed'[c] <= limit
      BY <1>1, <1>5, <1>6 DEF LimitInv
<1>9. Limits!CounterExpires'
      BY <1>5 DEF Limits!CounterExpires
<1>10. ~outage' => /\ redisUp' /\ \A q \in Req : limitPc'[q] # "mongo"
                   /\ \A c \in Limits!Counter : c # "redis" => allowed'[c] = 0
      BY <1>1, <1>5 DEF LimitInv
<1>11. ~ttl' /\ allowed'["redis"] < count'["redis"] /\ (limit > 0 => allowed'["redis"] < limit)
      BY <1>1, <1>5, <1>6
<1>12. \A q1, q2 \in Req : Expiring(q1)' /\ Expiring(q2)' => q1 = q2
      BY <1>7
<1> QED BY <1>4, <1>8, <1>9, <1>10, <1>11, <1>12 DEF LimitInv, Expiring

\* A later increment decides.
LEMMA LaterIncrement ==
  ASSUME LimitInv, NEW r \in Req, Limits!IncrRedis(r), count["redis"] > 0
  PROVE  LimitInv'
<1>1. /\ Limits!Decide(r, "redis") /\ UNCHANGED <<redisUp, mongoUp, ttl, outage, stuck>>
      /\ ~Expiring(r)
      BY DEF Limits!IncrRedis, Expiring
<1>2. "redis" \in Limits!Counter
      BY Counters
<1>3. Limits!TypeOK'
      BY <1>1, <1>2, DecideKeeps DEF LimitInv, Limits!TypeOK
<1>4. \A q \in Req : (limitPc'[q] = "expire") <=> (limitPc[q] = "expire")
      BY <1>1, <1>2, DecideKeeps DEF Expiring
<1>5. ~outage => \A q \in Req : limitPc'[q] # "mongo"
      BY <1>1, <1>2, DecideKeeps DEF LimitInv
<1>6. (\E q \in Req : Expiring(q)') =>
        ~ttl' /\ allowed'["redis"] < count'["redis"] /\ (limit > 0 => allowed'["redis"] < limit)
      BY <1>1, <1>2, <1>4, DecideKeeps DEF LimitInv, Expiring
<1>7. Limits!CounterExpires'
      BY <1>1, <1>4 DEF LimitInv, Limits!CounterExpires
<1> QED BY <1>1, <1>2, <1>3, <1>4, <1>5, <1>6, <1>7, DecideKeeps DEF LimitInv, Expiring

\* The answer to INCR is lost: the call is counted in Redis and in its process.
LEMMA LostIncrement ==
  ASSUME LimitInv, NEW r \in Req, Limits!IncrLost(r)
  PROVE  LimitInv'
<1> DEFINE own == home[r]
           n == Limits!Counted(count[own])
           m == Limits!Counted(count["redis"])
<1>1. own \in Limits!Counter /\ own # "redis" /\ "redis" \in Limits!Counter
      BY Counters DEF LimitInv, Limits!TypeOK
<1>2. count[own] \in 0..(limit + 1) /\ count["redis"] \in 0..(limit + 1) /\ allowed[own] \in Nat
      BY <1>1 DEF LimitInv, Limits!TypeOK
<1>3. /\ n \in 0..(limit + 1) /\ n >= count[own] /\ n > 0
      /\ Limits!Within(n) => count[own] < limit /\ n = count[own] + 1
      /\ m \in 0..(limit + 1) /\ m >= count["redis"] /\ m > 0
      BY <1>2, CountedIs
<1>4. /\ count' = [count EXCEPT !["redis"] = m, ![own] = n]
      /\ allowed' = IF Limits!Within(n) THEN [allowed EXCEPT ![own] = allowed[own] + 1] ELSE allowed
      /\ limitPc' = [limitPc EXCEPT ![r] = "idle"] /\ UNCHANGED <<redisUp, mongoUp, ttl, home>>
      /\ outage' = TRUE /\ stuck' = (stuck \/ count["redis"] = 0) /\ ~Expiring(r)
      BY <1>1 DEF Limits!IncrLost, Limits!At, LimitInv, Limits!TypeOK, Expiring
<1> HIDE DEF n, m, own
<1>5. /\ count' \in [Limits!Counter -> 0..(limit + 1)] /\ allowed' \in [Limits!Counter -> Nat]
      /\ count'["redis"] = m /\ count'[own] = n /\ allowed'["redis"] = allowed["redis"]
      /\ allowed'[own] = IF Limits!Within(n) THEN allowed[own] + 1 ELSE allowed[own]
      /\ \A c \in Limits!Counter \ {own} : allowed'[c] = allowed[c]
      /\ \A c \in Limits!Counter \ {own, "redis"} : count'[c] = count[c]
      BY <1>1, <1>2, <1>3, <1>4 DEF LimitInv, Limits!TypeOK
<1>6. outage' \in BOOLEAN /\ stuck' \in BOOLEAN
      BY <1>4, Zenon
<1>7. Limits!TypeOK'
      BY <1>4, <1>5, <1>6 DEF LimitInv, Limits!TypeOK
<1>8. \A q \in Req : (limitPc'[q] = "expire") <=> (limitPc[q] = "expire")
      BY <1>4 DEF LimitInv, Limits!TypeOK, Expiring
<1>9. \A c \in Limits!Counter : allowed'[c] <= count'[c] /\ allowed'[c] <= limit
  <2>1. allowed'[own] <= count'[own] /\ allowed'[own] <= limit
        BY <1>1, <1>2, <1>3, <1>5, LimitsAssumption DEF LimitInv
  <2>2. allowed'["redis"] <= count'["redis"] /\ allowed'["redis"] <= limit
        BY <1>1, <1>2, <1>3, <1>5, LimitsAssumption DEF LimitInv, Limits!TypeOK
  <2> QED BY <1>5, <2>1, <2>2 DEF LimitInv
<1>10. (\E q \in Req : Expiring(q)') =>
         ~ttl' /\ allowed'["redis"] < count'["redis"] /\ (limit > 0 => allowed'["redis"] < limit)
      BY <1>1, <1>2, <1>3, <1>4, <1>5, <1>8 DEF LimitInv, Expiring, Limits!TypeOK
<1>11. Limits!CounterExpires'
  <2>1. (stuck \/ count["redis"] = 0 => stuck') /\ ttl' = ttl
        BY <1>4, Zenon
  <2>2. count["redis"] # 0 => count["redis"] > 0
        BY <1>2
  <2> QED BY <1>8, <2>1, <2>2 DEF LimitInv, Limits!CounterExpires
<1>12. count'["redis"] # 0
      BY <1>3, <1>5
<1> QED BY <1>4, <1>7, <1>8, <1>9, <1>10, <1>11, <1>12 DEF LimitInv, Expiring

\* The call that created the counter sets its expiry and is let through.
LEMMA ExpirySet ==
  ASSUME LimitInv, NEW r \in Req, Limits!Expire(r)
  PROVE  LimitInv'
<1>1. /\ allowed' = IF Limits!Within(1) THEN [allowed EXCEPT !["redis"] = allowed["redis"] + 1] ELSE allowed
      /\ limitPc' = [limitPc EXCEPT ![r] = "idle"] /\ ttl' = TRUE
      /\ UNCHANGED <<redisUp, mongoUp, count, home, outage, stuck>> /\ Expiring(r)
      BY DEF Limits!Expire, Limits!At, Expiring
<1>2. "redis" \in Limits!Counter
      BY Counters
<1>3. allowed["redis"] < count["redis"] /\ (Limits!Within(1) => allowed["redis"] < limit)
      BY <1>1, LimitsAssumption DEF LimitInv, Limits!Within
<1>4. allowed' \in [Limits!Counter -> Nat] /\ limitPc' \in [Req -> {"idle", "incr", "expire", "mongo"}]
      BY <1>1, <1>2 DEF LimitInv, Limits!TypeOK
<1>5. ttl' \in BOOLEAN
      BY <1>1, Zenon
<1>6. Limits!TypeOK'
      BY <1>1, <1>4, <1>5 DEF LimitInv, Limits!TypeOK
<1>7. \A q \in Req : limitPc'[q] # "expire"
      BY <1>1 DEF LimitInv, Limits!TypeOK, Expiring
<1>8. \A c \in Limits!Counter : allowed'[c] <= count'[c] /\ allowed'[c] <= limit
      BY <1>1, <1>2, <1>3, LimitsAssumption DEF LimitInv, Limits!TypeOK
<1>9. ~outage' => /\ redisUp' /\ \A q \in Req : limitPc'[q] # "mongo"
                  /\ \A c \in Limits!Counter : c # "redis" => allowed'[c] = 0
      BY <1>1, <1>2 DEF LimitInv, Limits!TypeOK
<1>10. count'["redis"] # 0
      BY <1>1, <1>2, <1>3 DEF LimitInv, Limits!TypeOK
<1> QED BY <1>1, <1>6, <1>7, <1>8, <1>9, <1>10 DEF LimitInv, Expiring, Limits!CounterExpires

\* A window ends, or a process restarts: a counter is empty again, and so is its allowance.
LEMMA CounterEmptied ==
  ASSUME LimitInv, NEW c \in Limits!Counter,
         count' = [count EXCEPT ![c] = 0], allowed' = [allowed EXCEPT ![c] = 0]
  PROVE  /\ count' \in [Limits!Counter -> 0..(limit + 1)] /\ allowed' \in [Limits!Counter -> Nat]
         /\ \A d \in Limits!Counter : allowed'[d] <= count'[d] /\ allowed'[d] <= limit
         /\ \A d \in Limits!Counter : d # c => count'[d] = count[d] /\ allowed'[d] = allowed[d]
         /\ count'[c] = 0 /\ allowed'[c] = 0
<1>1. count' \in [Limits!Counter -> 0..(limit + 1)] /\ allowed' \in [Limits!Counter -> Nat]
      BY LimitsAssumption DEF LimitInv, Limits!TypeOK
<1>2. /\ \A d \in Limits!Counter : d # c => count'[d] = count[d] /\ allowed'[d] = allowed[d]
      /\ count'[c] = 0 /\ allowed'[c] = 0
      BY DEF LimitInv, Limits!TypeOK
<1> QED BY <1>1, <1>2, LimitsAssumption DEF LimitInv

\* A window of Redis ends only with an expiry set, so no call is about to set one.
LEMMA WindowOver ==
  ASSUME LimitInv, NEW c \in Limits!Counter, Limits!WindowEnds(c)
  PROVE  LimitInv'
<1>1. /\ count' = [count EXCEPT ![c] = 0] /\ allowed' = [allowed EXCEPT ![c] = 0]
      /\ ttl' = (ttl /\ c # "redis") /\ (c = "redis" => ttl)
      /\ UNCHANGED <<redisUp, mongoUp, limitPc, home, outage, stuck>>
      BY DEF Limits!WindowEnds
<1>2. ttl' \in BOOLEAN
      BY <1>1, Zenon
<1>3. Limits!TypeOK'
      BY <1>1, <1>2, CounterEmptied DEF LimitInv, Limits!TypeOK
<1>4. "redis" \in Limits!Counter
      BY Counters
<1>5. c = "redis" => \A q \in Req : ~Expiring(q)
      BY <1>1 DEF LimitInv
<1>6. (c = "redis" => ~ttl') /\ (c # "redis" => ttl' = ttl)
      BY <1>1, <1>2, Zenon DEF LimitInv, Limits!TypeOK
<1>7. CASE c = "redis"
  <2>1. \A q \in Req : ~Expiring(q)'
        BY <1>1, <1>5, <1>7 DEF Expiring
  <2>2. count'["redis"] = 0
        BY <1>1, <1>7, CounterEmptied
  <2>3. Limits!CounterExpires'
        BY <2>2 DEF Limits!CounterExpires
  <2>4. \A d \in Limits!Counter : /\ allowed'[d] <= count'[d] /\ allowed'[d] <= limit
                                  /\ d # "redis" => allowed'[d] = allowed[d]
        BY <1>1, <1>7, CounterEmptied
  <2> QED BY <1>1, <1>3, <1>6, <1>7, <2>1, <2>2, <2>3, <2>4 DEF LimitInv
<1>8. CASE c # "redis"
      BY <1>1, <1>3, <1>4, <1>6, <1>8, CounterEmptied DEF LimitInv, Expiring, Limits!CounterExpires
<1> QED BY <1>7, <1>8

\* A process restarts.
LEMMA Restarted ==
  ASSUME LimitInv, NEW i \in Inst, Limits!Restart(i)
  PROVE  LimitInv'
<1>1. /\ count' = [count EXCEPT ![i] = 0] /\ allowed' = [allowed EXCEPT ![i] = 0]
      /\ limitPc' = [r \in Req |-> IF home[r] = i THEN "idle" ELSE limitPc[r]]
      /\ stuck' = (stuck \/ \E r \in Req : home[r] = i /\ limitPc[r] = "expire")
      /\ UNCHANGED <<redisUp, mongoUp, ttl, home, outage>>
      BY DEF Limits!Restart
<1>2. i \in Limits!Counter /\ i # "redis" /\ "redis" \in Limits!Counter
      BY Counters
<1>3. stuck' \in BOOLEAN
      BY <1>1, Zenon
<1>4. limitPc' \in [Req -> {"idle", "incr", "expire", "mongo"}]
      BY <1>1 DEF LimitInv, Limits!TypeOK
<1>5. Limits!TypeOK'
      BY <1>1, <1>2, <1>3, <1>4, CounterEmptied DEF LimitInv, Limits!TypeOK
<1>6. \A q \in Req : limitPc'[q] = "idle" \/ limitPc'[q] = limitPc[q]
      BY <1>1
<1>7. \A q \in Req : Expiring(q)' => Expiring(q)
      BY <1>6 DEF Expiring
<1>8. Limits!CounterExpires'
  <2> SUFFICES ASSUME count'["redis"] > 0, ~ttl', ~stuck'
               PROVE  \E q \in Req : limitPc'[q] = "expire"
      BY DEF Limits!CounterExpires
  <2>1. count'["redis"] = count["redis"]
        BY <1>1, <1>2, CounterEmptied
  <2>2. PICK q \in Req : limitPc[q] = "expire"
        BY <1>1, <2>1 DEF LimitInv, Limits!CounterExpires
  <2> QED BY <1>1, <2>2
<1>9. ~outage' => \A q \in Req : limitPc'[q] # "mongo"
      BY <1>1, <1>6 DEF LimitInv
<1> QED BY <1>1, <1>2, <1>5, <1>7, <1>8, <1>9, CounterEmptied DEF LimitInv

\* Every step keeps the invariant.
LEMMA LimitStep ==
  LimitInv /\ [Limits!Next]_(Limits!vars) => LimitInv'
<1> SUFFICES ASSUME LimitInv, [Limits!Next]_(Limits!vars) PROVE LimitInv'
    OBVIOUS
<1>1. CASE UNCHANGED Limits!vars
      BY <1>1 DEF Limits!vars, Limits!store, LimitInv, Limits!TypeOK, Expiring, Limits!CounterExpires
<1>2. ASSUME NEW r \in Req, NEW i \in Inst, Limits!Consume(r, i) PROVE LimitInv'
  <2>1. home' \in [Req -> Inst] /\ ~Expiring(r)
        BY <1>2 DEF Limits!Consume, LimitInv, Limits!TypeOK, Expiring
  <2>2. PICK to \in {"incr", "mongo"} : limitPc' = [limitPc EXCEPT ![r] = to] /\ (to = "mongo" => ~redisUp)
        BY <1>2 DEF Limits!Consume
  <2>3. to = "mongo" => outage
        BY <2>2 DEF LimitInv
  <2> QED BY <1>2, <2>1, <2>2, <2>3, CallMoves DEF Limits!Consume, Limits!store
<1>3. ASSUME NEW r \in Req, Limits!IncrRedis(r) PROVE LimitInv'
  <2>1. count["redis"] = 0 \/ count["redis"] > 0
        BY <1>3 DEF Limits!IncrRedis
  <2> QED BY <1>3, <2>1, FirstIncrement, LaterIncrement
<1>4. ASSUME NEW r \in Req, Limits!IncrLost(r) PROVE LimitInv'
      BY <1>4, LostIncrement
<1>5. ASSUME NEW r \in Req, Limits!IncrMemory(r) PROVE LimitInv'
  <2>1. home[r] \in Limits!Counter \ {"redis"}
        BY Counters DEF LimitInv, Limits!TypeOK
  <2>2. outage /\ ~Expiring(r) /\ outage \in BOOLEAN /\ stuck \in BOOLEAN
        BY <1>5 DEF Limits!IncrMemory, LimitInv, Limits!TypeOK, Expiring
  <2> QED BY <1>5, <2>1, <2>2, OtherCounter DEF Limits!IncrMemory
<1>6. ASSUME NEW r \in Req, Limits!Expire(r) PROVE LimitInv'
      BY <1>6, ExpirySet
<1>7. ASSUME NEW r \in Req, Limits!ExpireFails(r) PROVE LimitInv'
  <2>1. home[r] \in Limits!Counter \ {"redis"}
        BY Counters DEF LimitInv, Limits!TypeOK
  <2>2. outage' /\ stuck' /\ outage' \in BOOLEAN /\ stuck' \in BOOLEAN
        BY <1>7, Zenon DEF Limits!ExpireFails
  <2> QED BY <1>7, <2>1, <2>2, OtherCounter DEF Limits!ExpireFails
<1>8. ASSUME NEW r \in Req, Limits!MongoIncrement(r) PROVE LimitInv'
  <2>1. "mongo" \in Limits!Counter \ {"redis"}
        BY Counters
  <2>2. outage /\ ~Expiring(r) /\ outage \in BOOLEAN /\ stuck \in BOOLEAN /\ home \in [Req -> Inst]
        BY <1>8 DEF Limits!MongoIncrement, LimitInv, Limits!TypeOK, Expiring
  <2>3. CASE Limits!Decide(r, "mongo")
        BY <1>8, <2>1, <2>2, <2>3, OtherCounter DEF Limits!MongoIncrement
  <2>4. CASE Limits!At(r, "incr") /\ UNCHANGED <<count, allowed>>
    <3>1. PICK to \in {"incr"} : limitPc' = [limitPc EXCEPT ![r] = to]
          BY <2>4 DEF Limits!At
    <3>2. UNCHANGED <<home, redisUp, mongoUp, ttl, count, allowed, outage, stuck>>
          BY <1>8, <2>4 DEF Limits!MongoIncrement, Limits!At
    <3> QED BY <2>2, <3>1, <3>2, CallMoves
  <2> QED BY <1>8, <2>3, <2>4 DEF Limits!MongoIncrement
<1>9. ASSUME NEW c \in Limits!Counter, Limits!WindowEnds(c) PROVE LimitInv'
      BY <1>9, WindowOver
<1>10. ASSUME NEW i \in Inst, Limits!Restart(i) PROVE LimitInv'
      BY <1>10, Restarted
<1>11. CASE Limits!RedisFlips
  <2>1. redisUp' \in BOOLEAN /\ outage' \in BOOLEAN /\ outage'
        BY <1>11, Zenon DEF Limits!RedisFlips
  <2> QED BY <1>11, <2>1 DEF Limits!RedisFlips, LimitInv, Limits!TypeOK, Expiring, Limits!CounterExpires
<1>12. CASE Limits!MongoFlips
  <2>1. mongoUp' \in BOOLEAN
        BY <1>12, Zenon DEF Limits!MongoFlips
  <2> QED BY <1>12, <2>1 DEF Limits!MongoFlips, LimitInv, Limits!TypeOK, Expiring, Limits!CounterExpires
<1> QED
    BY <1>1, <1>2, <1>3, <1>4, <1>5, <1>6, <1>7, <1>8, <1>9, <1>10, <1>11, <1>12 DEF Limits!Next

\* No tier lets more calls through in a window than the limit, and while Redis serves
\* every command no other tier counts, so that the limit is one over all instances.  A
\* counter in Redis that no failure hit has an expiry, or the call that is about to set it.
THEOREM BudgetHolds == AnySpec => []BudgetPerWindow
<1>1. AnyInit => LimitInv
      BY InitLimit DEF AnyInit
<1>2. LimitInv /\ [AnyNext]_<<part, vars, limitVars, lockVars, clientVars, pageVars>>
        => [Limits!Next]_(Limits!vars)
      BY DEF AnyNext, limitVars, Limits!vars, Limits!store
<1>3. LimitInv /\ [AnyNext]_<<part, vars, limitVars, lockVars, clientVars, pageVars>> => LimitInv'
      BY <1>2, LimitStep
<1>4. LimitInv => BudgetPerWindow
      BY LimitsAssumption DEF LimitInv, BudgetPerWindow, Limits!BudgetPerWindow
<1> QED BY <1>1, <1>3, <1>4, PTL DEF AnySpec

-----------------------------------------------------------------------------
(* The signed-in state of a client *)

Answers == {"none", "ok", "fail", "refused", "challenge"}

\* What the proof needs to know of a client.
Sound(k) ==
  /\ k.asks => ~k.waits
  /\ k.userless = "stay" => ~k.waits
  /\ k.userless \in {"in", "out", "stay"}
ClientFacts == Sound(client)

\* Sessions are numbered as they are opened.
Numbered ==
  /\ answer \in [Call -> Answers]
  /\ cred <= opened /\ \A c \in Call : with[c] <= opened
  /\ live \cup killed \subseteq 1..opened

\* A logout under way, in whose answer the client will forget its user.
LeavingSoon == client.forgets /\ \E d \in Call : callKind[d] = "logout"

\* The session of a login whose answer is on its way is nobody else's.
FreshLogins ==
  \A c \in Call : callKind[c] = "login" /\ answer[c] = "ok" =>
    /\ with[c] \in live \cup killed /\ with[c] # cred
    /\ \A d \in Call : d # c => with[d] # with[c]

\* A user is on the way to the screen only with a session that has not been left.
ConfirmedCalls ==
  \A c \in Call :
    callKind[c] \in {"profile", "me", "boot", "again"} /\ answer[c] = "ok" /\ c \notin passed =>
      with[c] \in live \cup killed \/ LeavingSoon

ShownIsLive == view = "in" /\ ~assumed => cred \in live \cup killed \/ LeavingSoon

\* Only the start of a page, or a login of a client that waits for it, ends the spinner.
Waiting ==
  \E c \in Call : \/ callKind[c] \in {"boot", "refresh", "again"}
                  \/ client.waits /\ callKind[c] = "login"
LoadingEnds == view = "loading" => stranded \/ Waiting

ClientType == Sessions!TypeOK /\ ClientFacts /\ Numbered
ClientInv ==
  /\ ClientType
  /\ FreshLogins /\ ConfirmedCalls /\ ShownIsLive /\ Sessions!SignedOutForgets /\ LoadingEnds

\* Of every client.
LEMMA ClientsAre == \A k \in Sessions!Clients : Sound(k)
<1> USE DEF Sound
<1>1. Sound(Sessions!React) /\ Sound(Sessions!Vue) /\ Sound(Sessions!Angular)
      BY DEF Sessions!React, Sessions!Vue, Sessions!Angular
<1>2. Sound(Sessions!AdminConsole)
      BY DEF Sessions!React, Sessions!Vue, Sessions!Angular, Sessions!AdminConsole
<1>3. Sound(Sessions!DeveloperPortal)
      BY DEF Sessions!React, Sessions!Vue, Sessions!Angular, Sessions!AdminConsole,
             Sessions!DeveloperPortal
<1>4. Sound(Sessions!Go)
      BY DEF Sessions!Go
<1> QED BY <1>1, <1>2, <1>3, <1>4
        DEF Sessions!Clients, Sessions!Python, Sessions!Java, Sessions!Dotnet

\* Every step keeps the types.
LEMMA ClientTypes ==
  ASSUME ClientInv, Sessions!Next PROVE Sessions!TypeOK'
<1> USE ClientsAssumption DEF ClientInv, ClientType, Sessions!TypeOK, Numbered, Answers
<1>1. ASSUME NEW c \in Call, Sessions!Login(c) \/ Sessions!Profile(c) \/ Sessions!LogoutTold(c)
      PROVE  Sessions!TypeOK'
      BY <1>1 DEF Sessions!Login, Sessions!Profile, Sessions!LogoutTold, Sessions!Send
<1>2. ASSUME NEW c \in Call, Sessions!Reload(c) PROVE Sessions!TypeOK'
  <2>1. {store', assumed', stranded', left'} \subseteq BOOLEAN
        BY <1>2, Zenon DEF Sessions!Reload, Sessions!Blank
  <2> QED BY <1>2, <2>1 DEF Sessions!Reload, Sessions!Blank
<1>3. ASSUME NEW c \in Call, Sessions!ServeLogin(c) PROVE Sessions!TypeOK'
      BY <1>3 DEF Sessions!ServeLogin, Sessions!Answer
<1>4. ASSUME NEW c \in Call, Sessions!Serve(c) \/ Sessions!ServeRefresh(c) \/ Sessions!ServeLogout(c)
      PROVE  Sessions!TypeOK'
      BY <1>4 DEF Sessions!Serve, Sessions!ServeRefresh, Sessions!ServeLogout, Sessions!Answer,
                  Sessions!Good
<1>5. ASSUME NEW c \in Call, Sessions!Expel(c) PROVE Sessions!TypeOK'
  <2>1. {store', assumed', stranded', left'} \subseteq BOOLEAN
        BY <1>5, Zenon DEF Sessions!Expel, Sessions!Show, Sessions!Done, Sessions!Busy
  <2> QED BY <1>5, <2>1 DEF Sessions!Expel, Sessions!Show, Sessions!Done, Sessions!Busy
<1>6. ASSUME NEW c \in Call, Sessions!LoginOk(c) PROVE Sessions!TypeOK'
  <2>1. {store', assumed', stranded', left'} \subseteq BOOLEAN
        BY <1>6, Zenon DEF Sessions!LoginOk, Sessions!Show, Sessions!Done, Sessions!Busy
  <2> QED BY <1>6, <2>1 DEF Sessions!LoginOk, Sessions!Show, Sessions!Done, Sessions!Busy
<1>7. ASSUME NEW c \in Call, Sessions!LoginChallenge(c) \/ Sessions!LoginFail(c)
      PROVE  Sessions!TypeOK'
  <2>1. {store', assumed', stranded', left'} \subseteq BOOLEAN
        BY <1>7, Zenon DEF Sessions!LoginChallenge, Sessions!LoginFail, Sessions!Show,
                           Sessions!Stay, Sessions!Done, Sessions!Busy
  <2> QED BY <1>7, <2>1 DEF ClientFacts, Sound, Sessions!LoginChallenge, Sessions!LoginFail,
                            Sessions!Show, Sessions!Stay, Sessions!Done, Sessions!Busy
<1>8. ASSUME NEW c \in Call, Sessions!ProfileBack(c) PROVE Sessions!TypeOK'
  <2>1. {store', assumed', stranded', left'} \subseteq BOOLEAN
        BY <1>8, Zenon DEF Sessions!ProfileBack, Sessions!Show, Sessions!Stay, Sessions!Done,
                           Sessions!Busy
  <2> QED BY <1>8, <2>1 DEF Sessions!ProfileBack, Sessions!Show, Sessions!Stay, Sessions!Done,
                            Sessions!Busy
<1>9. ASSUME NEW c \in Call, Sessions!LogoutBack(c) PROVE Sessions!TypeOK'
  <2>1. {store', assumed', stranded', left'} \subseteq BOOLEAN
        BY <1>9, Zenon DEF Sessions!LogoutBack, Sessions!Forget, Sessions!Show, Sessions!Stay,
                           Sessions!Done, Sessions!Busy
  <2> QED BY <1>9, <2>1 DEF Sessions!LogoutBack, Sessions!Forget, Sessions!Show, Sessions!Stay,
                            Sessions!Done, Sessions!Busy
<1>10. ASSUME NEW c \in Call, Sessions!BootOk(c) PROVE Sessions!TypeOK'
  <2>1. {store', assumed', stranded', left'} \subseteq BOOLEAN
        BY <1>10, Zenon DEF Sessions!BootOk, Sessions!Show, Sessions!Done, Sessions!Busy
  <2> QED BY <1>10, <2>1 DEF Sessions!BootOk, Sessions!Show, Sessions!Done, Sessions!Busy
<1>11. ASSUME NEW c \in Call, Sessions!BootOffline(c) PROVE Sessions!TypeOK'
  <2>1. {store', assumed', stranded', left'} \subseteq BOOLEAN
        BY <1>11, Zenon DEF Sessions!BootOffline, Sessions!Show, Sessions!Done, Sessions!Busy
  <2> QED BY <1>11, <2>1 DEF Sessions!BootOffline, Sessions!Show, Sessions!Done, Sessions!Busy
<1>12. ASSUME NEW c \in Call, Sessions!BootRefresh(c) \/ Sessions!BootAgain(c)
       PROVE  Sessions!TypeOK'
      BY <1>12 DEF Sessions!BootRefresh, Sessions!BootAgain
<1>13. ASSUME NEW c \in Call, Sessions!BootEscape(c) \/ Sessions!BootOut(c) PROVE Sessions!TypeOK'
  <2>1. {store', assumed', stranded', left'} \subseteq BOOLEAN
        BY <1>13, Zenon DEF Sessions!BootEscape, Sessions!BootOut, Sessions!Show, Sessions!Stay,
                            Sessions!Done, Sessions!Busy
  <2> QED BY <1>13, <2>1 DEF Sessions!BootEscape, Sessions!BootOut, Sessions!Show, Sessions!Stay,
                             Sessions!Done, Sessions!Busy
<1>14. ASSUME NEW s \in 1..MaxLogins, Sessions!Expire(s) \/ Sessions!Kill(s) PROVE Sessions!TypeOK'
      BY <1>14 DEF Sessions!Expire, Sessions!Kill
<1>15. CASE Sessions!LogoutQuiet
  <2>1. {store', assumed', stranded', left'} \subseteq BOOLEAN
        BY <1>15, Zenon DEF Sessions!LogoutQuiet
  <2> QED BY <1>15, <2>1 DEF Sessions!LogoutQuiet, Sessions!Busy
<1> QED BY <1>1, <1>2, <1>3, <1>4, <1>5, <1>6, <1>7, <1>8, <1>9, <1>10, <1>11, <1>12, <1>13, <1>14, <1>15
        DEF Sessions!Next, Sessions!Boot

\* A new session has a new number.
LEMMA SessionsNumbered ==
  ASSUME ClientInv, Sessions!Next PROVE Numbered'
<1> USE ClientsAssumption DEF ClientInv, ClientType, Sessions!TypeOK, Numbered, Answers
<1>1. ASSUME NEW c \in Call, Sessions!Login(c) \/ Sessions!Profile(c) \/ Sessions!LogoutTold(c)
      PROVE  Numbered'
      BY <1>1 DEF Sessions!Login, Sessions!Profile, Sessions!LogoutTold, Sessions!Send
<1>2. ASSUME NEW c \in Call, Sessions!Reload(c) PROVE Numbered'
      BY <1>2 DEF Sessions!Reload, Sessions!Blank
<1>3. ASSUME NEW c \in Call, Sessions!ServeLogin(c) PROVE Numbered'
      BY <1>3 DEF Sessions!ServeLogin, Sessions!Answer
<1>4. ASSUME NEW c \in Call, Sessions!Serve(c) \/ Sessions!ServeRefresh(c) \/ Sessions!ServeLogout(c)
      PROVE  Numbered'
      BY <1>4 DEF Sessions!Serve, Sessions!ServeRefresh, Sessions!ServeLogout, Sessions!Answer,
                  Sessions!Good
<1>5. ASSUME NEW c \in Call, Sessions!Expel(c) PROVE Numbered'
      BY <1>5 DEF Sessions!Expel, Sessions!Show, Sessions!Done, Sessions!Busy
<1>6. ASSUME NEW c \in Call, Sessions!LoginOk(c) PROVE Numbered'
      BY <1>6 DEF Sessions!LoginOk, Sessions!Show, Sessions!Done, Sessions!Busy
<1>7. ASSUME NEW c \in Call, Sessions!LoginChallenge(c) \/ Sessions!LoginFail(c) PROVE Numbered'
      BY <1>7 DEF Sessions!LoginChallenge, Sessions!LoginFail, Sessions!Show, Sessions!Stay,
                  Sessions!Done, Sessions!Busy
<1>8. ASSUME NEW c \in Call, Sessions!ProfileBack(c) PROVE Numbered'
      BY <1>8 DEF Sessions!ProfileBack, Sessions!Show, Sessions!Stay, Sessions!Done, Sessions!Busy
<1>9. ASSUME NEW c \in Call, Sessions!LogoutBack(c) PROVE Numbered'
      BY <1>9 DEF Sessions!LogoutBack, Sessions!Forget, Sessions!Show, Sessions!Stay,
                  Sessions!Done, Sessions!Busy
<1>10. ASSUME NEW c \in Call, Sessions!BootOk(c) PROVE Numbered'
      BY <1>10 DEF Sessions!BootOk, Sessions!Show, Sessions!Done, Sessions!Busy
<1>11. ASSUME NEW c \in Call, Sessions!BootOffline(c) PROVE Numbered'
      BY <1>11 DEF Sessions!BootOffline, Sessions!Show, Sessions!Done, Sessions!Busy
<1>12. ASSUME NEW c \in Call, Sessions!BootRefresh(c) \/ Sessions!BootAgain(c) PROVE Numbered'
      BY <1>12 DEF Sessions!BootRefresh, Sessions!BootAgain
<1>13. ASSUME NEW c \in Call, Sessions!BootEscape(c) \/ Sessions!BootOut(c) PROVE Numbered'
      BY <1>13 DEF Sessions!BootEscape, Sessions!BootOut, Sessions!Show, Sessions!Stay,
                   Sessions!Done, Sessions!Busy
<1>14. ASSUME NEW s \in 1..MaxLogins, Sessions!Expire(s) \/ Sessions!Kill(s) PROVE Numbered'
      BY <1>14 DEF Sessions!Expire, Sessions!Kill
<1>15. CASE Sessions!LogoutQuiet
      BY <1>15 DEF Sessions!LogoutQuiet, Sessions!Busy
<1> QED BY <1>1, <1>2, <1>3, <1>4, <1>5, <1>6, <1>7, <1>8, <1>9, <1>10, <1>11, <1>12, <1>13, <1>14, <1>15
        DEF Sessions!Next, Sessions!Boot

\* A login that was answered keeps its session to itself until the client takes it over.
LEMMA LoginsFresh ==
  ASSUME ClientInv, Sessions!Next PROVE FreshLogins'
<1> USE ClientsAssumption DEF ClientInv, ClientType, Sessions!TypeOK, Numbered, Answers
<1>1. ASSUME NEW c \in Call, Sessions!Login(c) \/ Sessions!Profile(c) \/ Sessions!LogoutTold(c)
      PROVE  FreshLogins'
      BY <1>1 DEF FreshLogins, Sessions!Login, Sessions!Profile, Sessions!LogoutTold,
                  Sessions!Send
<1>2. ASSUME NEW c \in Call, Sessions!Reload(c) PROVE FreshLogins'
      BY <1>2 DEF FreshLogins, Sessions!Reload, Sessions!Blank
<1>3. ASSUME NEW c \in Call, Sessions!ServeLogin(c) PROVE FreshLogins'
      BY <1>3 DEF FreshLogins, Sessions!ServeLogin, Sessions!Answer
<1>4. ASSUME NEW c \in Call, Sessions!Serve(c) \/ Sessions!ServeRefresh(c) \/ Sessions!ServeLogout(c)
      PROVE  FreshLogins'
      BY <1>4 DEF FreshLogins, Sessions!Serve, Sessions!ServeRefresh, Sessions!ServeLogout,
                  Sessions!Answer, Sessions!Good
<1>5. ASSUME NEW c \in Call, Sessions!Expel(c) PROVE FreshLogins'
      BY <1>5 DEF FreshLogins, Sessions!Expel, Sessions!Show, Sessions!Done, Sessions!Busy
<1>6. ASSUME NEW c \in Call, Sessions!LoginOk(c) PROVE FreshLogins'
      BY <1>6 DEF FreshLogins, Sessions!LoginOk, Sessions!Show, Sessions!Done, Sessions!Busy
<1>7. ASSUME NEW c \in Call, Sessions!LoginChallenge(c) \/ Sessions!LoginFail(c)
      PROVE  FreshLogins'
      BY <1>7 DEF FreshLogins, Sessions!LoginChallenge, Sessions!LoginFail, Sessions!Show,
                  Sessions!Stay, Sessions!Done, Sessions!Busy
<1>8. ASSUME NEW c \in Call, Sessions!ProfileBack(c) PROVE FreshLogins'
      BY <1>8 DEF FreshLogins, Sessions!ProfileBack, Sessions!Show, Sessions!Stay, Sessions!Done,
                  Sessions!Busy
<1>9. ASSUME NEW c \in Call, Sessions!LogoutBack(c) PROVE FreshLogins'
      BY <1>9 DEF FreshLogins, Sessions!LogoutBack, Sessions!Forget, Sessions!Show, Sessions!Stay,
                  Sessions!Done, Sessions!Busy
<1>10. ASSUME NEW c \in Call, Sessions!BootOk(c) PROVE FreshLogins'
      BY <1>10 DEF FreshLogins, Sessions!BootOk, Sessions!Show, Sessions!Done, Sessions!Busy
<1>11. ASSUME NEW c \in Call, Sessions!BootOffline(c) PROVE FreshLogins'
      BY <1>11 DEF FreshLogins, Sessions!BootOffline, Sessions!Show, Sessions!Done, Sessions!Busy
<1>12. ASSUME NEW c \in Call, Sessions!BootRefresh(c) \/ Sessions!BootAgain(c) PROVE FreshLogins'
      BY <1>12 DEF FreshLogins, Sessions!BootRefresh, Sessions!BootAgain
<1>13. ASSUME NEW c \in Call, Sessions!BootEscape(c) \/ Sessions!BootOut(c) PROVE FreshLogins'
      BY <1>13 DEF FreshLogins, Sessions!BootEscape, Sessions!BootOut, Sessions!Show,
                   Sessions!Stay, Sessions!Done, Sessions!Busy
<1>14. ASSUME NEW s \in 1..MaxLogins, Sessions!Expire(s) \/ Sessions!Kill(s) PROVE FreshLogins'
      BY <1>14 DEF FreshLogins, Sessions!Expire, Sessions!Kill
<1>15. CASE Sessions!LogoutQuiet
      BY <1>15 DEF FreshLogins, Sessions!LogoutQuiet, Sessions!Busy
<1> QED BY <1>1, <1>2, <1>3, <1>4, <1>5, <1>6, <1>7, <1>8, <1>9, <1>10, <1>11, <1>12, <1>13, <1>14, <1>15
        DEF Sessions!Next, Sessions!Boot

\* A logout that ends in the client passes every other call by.
LEMMA CallsConfirmed ==
  ASSUME ClientInv, Sessions!Next PROVE ConfirmedCalls'
<1> USE ClientsAssumption DEF ClientInv, ClientType, Sessions!TypeOK, Numbered, Answers
<1>1. ASSUME NEW c \in Call, Sessions!Login(c) \/ Sessions!Profile(c) \/ Sessions!LogoutTold(c)
      PROVE  ConfirmedCalls'
      BY <1>1 DEF ConfirmedCalls, LeavingSoon, Sessions!Login, Sessions!Profile,
                  Sessions!LogoutTold, Sessions!Send
<1>2. ASSUME NEW c \in Call, Sessions!Reload(c) PROVE ConfirmedCalls'
      BY <1>2 DEF ConfirmedCalls, LeavingSoon, Sessions!Reload, Sessions!Blank
<1>3. ASSUME NEW c \in Call, Sessions!ServeLogin(c) PROVE ConfirmedCalls'
      BY <1>3 DEF ConfirmedCalls, LeavingSoon, Sessions!ServeLogin, Sessions!Answer
<1>4. ASSUME NEW c \in Call, Sessions!Serve(c) \/ Sessions!ServeRefresh(c) \/ Sessions!ServeLogout(c)
      PROVE  ConfirmedCalls'
      BY <1>4 DEF ConfirmedCalls, LeavingSoon, Sessions!Serve, Sessions!ServeRefresh,
                  Sessions!ServeLogout, Sessions!Answer, Sessions!Good
<1>5. ASSUME NEW c \in Call, Sessions!Expel(c) PROVE ConfirmedCalls'
      BY <1>5 DEF ConfirmedCalls, LeavingSoon, Sessions!Expel, Sessions!Show, Sessions!Done,
                  Sessions!Busy
<1>6. ASSUME NEW c \in Call, Sessions!LoginOk(c) PROVE ConfirmedCalls'
      BY <1>6 DEF ConfirmedCalls, LeavingSoon, Sessions!LoginOk, Sessions!Show, Sessions!Done,
                  Sessions!Busy
<1>7. ASSUME NEW c \in Call, Sessions!LoginChallenge(c) \/ Sessions!LoginFail(c)
      PROVE  ConfirmedCalls'
      BY <1>7 DEF ConfirmedCalls, LeavingSoon, Sessions!LoginChallenge, Sessions!LoginFail,
                  Sessions!Show, Sessions!Stay, Sessions!Done, Sessions!Busy
<1>8. ASSUME NEW c \in Call, Sessions!ProfileBack(c) PROVE ConfirmedCalls'
      BY <1>8 DEF ConfirmedCalls, LeavingSoon, Sessions!ProfileBack, Sessions!Show, Sessions!Stay,
                  Sessions!Done, Sessions!Busy
<1>9. ASSUME NEW c \in Call, Sessions!LogoutBack(c) PROVE ConfirmedCalls'
      BY <1>9 DEF ConfirmedCalls, LeavingSoon, Sessions!LogoutBack, Sessions!Forget,
                  Sessions!Show, Sessions!Stay, Sessions!Done, Sessions!Busy
<1>10. ASSUME NEW c \in Call, Sessions!BootOk(c) PROVE ConfirmedCalls'
      BY <1>10 DEF ConfirmedCalls, LeavingSoon, Sessions!BootOk, Sessions!Show, Sessions!Done,
                   Sessions!Busy
<1>11. ASSUME NEW c \in Call, Sessions!BootOffline(c) PROVE ConfirmedCalls'
      BY <1>11 DEF ConfirmedCalls, LeavingSoon, Sessions!BootOffline, Sessions!Show,
                   Sessions!Done, Sessions!Busy
<1>12. ASSUME NEW c \in Call, Sessions!BootRefresh(c) \/ Sessions!BootAgain(c)
       PROVE  ConfirmedCalls'
      BY <1>12 DEF ConfirmedCalls, LeavingSoon, Sessions!BootRefresh, Sessions!BootAgain
<1>13. ASSUME NEW c \in Call, Sessions!BootEscape(c) \/ Sessions!BootOut(c) PROVE ConfirmedCalls'
      BY <1>13 DEF ConfirmedCalls, LeavingSoon, Sessions!BootEscape, Sessions!BootOut,
                   Sessions!Show, Sessions!Stay, Sessions!Done, Sessions!Busy
<1>14. ASSUME NEW s \in 1..MaxLogins, Sessions!Expire(s) \/ Sessions!Kill(s) PROVE ConfirmedCalls'
      BY <1>14 DEF ConfirmedCalls, LeavingSoon, Sessions!Expire, Sessions!Kill
<1>15. CASE Sessions!LogoutQuiet
      BY <1>15 DEF ConfirmedCalls, LeavingSoon, Sessions!LogoutQuiet, Sessions!Busy
<1> QED BY <1>1, <1>2, <1>3, <1>4, <1>5, <1>6, <1>7, <1>8, <1>9, <1>10, <1>11, <1>12, <1>13, <1>14, <1>15
        DEF Sessions!Next, Sessions!Boot

\* What is shown on an answer in order is a session that is live, ended elsewhere or about to be
\* forgotten.
LEMMA ShownStaysLive ==
  ASSUME ClientInv, Sessions!Next PROVE ShownIsLive'
<1> USE ClientsAssumption DEF ClientInv, ClientType, Sessions!TypeOK, Numbered, Answers
<1>1. ASSUME NEW c \in Call, Sessions!Login(c) \/ Sessions!Profile(c) \/ Sessions!LogoutTold(c)
      PROVE  ShownIsLive'
      BY <1>1 DEF ShownIsLive, FreshLogins, ConfirmedCalls, LeavingSoon, Sessions!Login,
                  Sessions!Profile, Sessions!LogoutTold, Sessions!Send
<1>2. ASSUME NEW c \in Call, Sessions!Reload(c) PROVE ShownIsLive'
      BY <1>2 DEF ShownIsLive, FreshLogins, ConfirmedCalls, LeavingSoon, Sessions!Reload,
                  Sessions!Blank
<1>3. ASSUME NEW c \in Call, Sessions!ServeLogin(c) PROVE ShownIsLive'
      BY <1>3 DEF ShownIsLive, FreshLogins, ConfirmedCalls, LeavingSoon, Sessions!ServeLogin,
                  Sessions!Answer
<1>4. ASSUME NEW c \in Call, Sessions!Serve(c) \/ Sessions!ServeRefresh(c) \/ Sessions!ServeLogout(c)
      PROVE  ShownIsLive'
      BY <1>4 DEF ShownIsLive, FreshLogins, ConfirmedCalls, LeavingSoon, Sessions!Serve,
                  Sessions!ServeRefresh, Sessions!ServeLogout, Sessions!Answer, Sessions!Good
<1>5. ASSUME NEW c \in Call, Sessions!Expel(c) PROVE ShownIsLive'
      BY <1>5 DEF ShownIsLive, FreshLogins, ConfirmedCalls, LeavingSoon, Sessions!Expel,
                  Sessions!Show, Sessions!Done, Sessions!Busy
<1>6. ASSUME NEW c \in Call, Sessions!LoginOk(c) PROVE ShownIsLive'
      BY <1>6 DEF ShownIsLive, FreshLogins, ConfirmedCalls, LeavingSoon, Sessions!LoginOk,
                  Sessions!Show, Sessions!Done, Sessions!Busy
<1>7. ASSUME NEW c \in Call, Sessions!LoginChallenge(c) \/ Sessions!LoginFail(c)
      PROVE  ShownIsLive'
      BY <1>7 DEF ShownIsLive, FreshLogins, ConfirmedCalls, LeavingSoon, Sessions!LoginChallenge,
                  Sessions!LoginFail, Sessions!Show, Sessions!Stay, Sessions!Done, Sessions!Busy
<1>8. ASSUME NEW c \in Call, Sessions!ProfileBack(c) PROVE ShownIsLive'
      BY <1>8 DEF ShownIsLive, FreshLogins, ConfirmedCalls, LeavingSoon, Sessions!ProfileBack,
                  Sessions!Show, Sessions!Stay, Sessions!Done, Sessions!Busy
<1>9. ASSUME NEW c \in Call, Sessions!LogoutBack(c) PROVE ShownIsLive'
      BY <1>9 DEF ShownIsLive, FreshLogins, ConfirmedCalls, LeavingSoon, Sessions!LogoutBack,
                  Sessions!Forget, Sessions!Show, Sessions!Stay, Sessions!Done, Sessions!Busy
<1>10. ASSUME NEW c \in Call, Sessions!BootOk(c) PROVE ShownIsLive'
      BY <1>10 DEF ShownIsLive, FreshLogins, ConfirmedCalls, LeavingSoon, Sessions!BootOk,
                   Sessions!Show, Sessions!Done, Sessions!Busy
<1>11. ASSUME NEW c \in Call, Sessions!BootOffline(c) PROVE ShownIsLive'
      BY <1>11 DEF ShownIsLive, FreshLogins, ConfirmedCalls, LeavingSoon, Sessions!BootOffline,
                   Sessions!Show, Sessions!Done, Sessions!Busy
<1>12. ASSUME NEW c \in Call, Sessions!BootRefresh(c) \/ Sessions!BootAgain(c) PROVE ShownIsLive'
      BY <1>12 DEF ShownIsLive, FreshLogins, ConfirmedCalls, LeavingSoon, Sessions!BootRefresh,
                   Sessions!BootAgain
<1>13. ASSUME NEW c \in Call, Sessions!BootEscape(c) \/ Sessions!BootOut(c) PROVE ShownIsLive'
      BY <1>13 DEF ShownIsLive, FreshLogins, ConfirmedCalls, LeavingSoon, Sessions!BootEscape,
                   Sessions!BootOut, Sessions!Show, Sessions!Stay, Sessions!Done, Sessions!Busy
<1>14. ASSUME NEW s \in 1..MaxLogins, Sessions!Expire(s) \/ Sessions!Kill(s) PROVE ShownIsLive'
      BY <1>14 DEF ShownIsLive, FreshLogins, ConfirmedCalls, LeavingSoon, Sessions!Expire,
                   Sessions!Kill
<1>15. CASE Sessions!LogoutQuiet
      BY <1>15 DEF ShownIsLive, FreshLogins, ConfirmedCalls, LeavingSoon, Sessions!LogoutQuiet,
                   Sessions!Busy
<1> QED BY <1>1, <1>2, <1>3, <1>4, <1>5, <1>6, <1>7, <1>8, <1>9, <1>10, <1>11, <1>12, <1>13, <1>14, <1>15
        DEF Sessions!Next, Sessions!Boot

\* Whatever fills the store or shows a user takes the mark of a logout away.
LEMMA LeftStaysForgotten ==
  ASSUME ClientInv, Sessions!Next PROVE Sessions!SignedOutForgets'
<1> USE ClientsAssumption DEF ClientInv, ClientType, Sessions!TypeOK, Numbered, Answers
<1>1. ASSUME NEW c \in Call, Sessions!Login(c) \/ Sessions!Profile(c) \/ Sessions!LogoutTold(c)
      PROVE  Sessions!SignedOutForgets'
      BY <1>1 DEF Sessions!SignedOutForgets, Sessions!Login, Sessions!Profile,
                  Sessions!LogoutTold, Sessions!Send
<1>2. ASSUME NEW c \in Call, Sessions!Reload(c) PROVE Sessions!SignedOutForgets'
      BY <1>2 DEF Sessions!SignedOutForgets, Sessions!Reload, Sessions!Blank
<1>3. ASSUME NEW c \in Call, Sessions!ServeLogin(c) PROVE Sessions!SignedOutForgets'
      BY <1>3 DEF Sessions!SignedOutForgets, Sessions!ServeLogin, Sessions!Answer
<1>4. ASSUME NEW c \in Call, Sessions!Serve(c) \/ Sessions!ServeRefresh(c) \/ Sessions!ServeLogout(c)
      PROVE  Sessions!SignedOutForgets'
      BY <1>4 DEF Sessions!SignedOutForgets, Sessions!Serve, Sessions!ServeRefresh,
                  Sessions!ServeLogout, Sessions!Answer, Sessions!Good
<1>5. ASSUME NEW c \in Call, Sessions!Expel(c) PROVE Sessions!SignedOutForgets'
      BY <1>5 DEF Sessions!SignedOutForgets, Sessions!Expel, Sessions!Show, Sessions!Done,
                  Sessions!Busy
<1>6. ASSUME NEW c \in Call, Sessions!LoginOk(c) PROVE Sessions!SignedOutForgets'
      BY <1>6 DEF Sessions!SignedOutForgets, Sessions!LoginOk, Sessions!Show, Sessions!Done,
                  Sessions!Busy
<1>7. ASSUME NEW c \in Call, Sessions!LoginChallenge(c) \/ Sessions!LoginFail(c)
      PROVE  Sessions!SignedOutForgets'
      BY <1>7 DEF Sessions!SignedOutForgets, Sessions!LoginChallenge, Sessions!LoginFail,
                  Sessions!Show, Sessions!Stay, Sessions!Done, Sessions!Busy
<1>8. ASSUME NEW c \in Call, Sessions!ProfileBack(c) PROVE Sessions!SignedOutForgets'
      BY <1>8 DEF Sessions!SignedOutForgets, Sessions!ProfileBack, Sessions!Show, Sessions!Stay,
                  Sessions!Done, Sessions!Busy
<1>9. ASSUME NEW c \in Call, Sessions!LogoutBack(c) PROVE Sessions!SignedOutForgets'
      BY <1>9 DEF Sessions!SignedOutForgets, Sessions!LogoutBack, Sessions!Forget, Sessions!Show,
                  Sessions!Stay, Sessions!Done, Sessions!Busy
<1>10. ASSUME NEW c \in Call, Sessions!BootOk(c) PROVE Sessions!SignedOutForgets'
      BY <1>10 DEF Sessions!SignedOutForgets, Sessions!BootOk, Sessions!Show, Sessions!Done,
                   Sessions!Busy
<1>11. ASSUME NEW c \in Call, Sessions!BootOffline(c) PROVE Sessions!SignedOutForgets'
      BY <1>11 DEF Sessions!SignedOutForgets, Sessions!BootOffline, Sessions!Show, Sessions!Done,
                   Sessions!Busy
<1>12. ASSUME NEW c \in Call, Sessions!BootRefresh(c) \/ Sessions!BootAgain(c)
       PROVE  Sessions!SignedOutForgets'
      BY <1>12 DEF Sessions!SignedOutForgets, Sessions!BootRefresh, Sessions!BootAgain
<1>13. ASSUME NEW c \in Call, Sessions!BootEscape(c) \/ Sessions!BootOut(c)
       PROVE  Sessions!SignedOutForgets'
      BY <1>13 DEF Sessions!SignedOutForgets, Sessions!BootEscape, Sessions!BootOut,
                   Sessions!Show, Sessions!Stay, Sessions!Done, Sessions!Busy
<1>14. ASSUME NEW s \in 1..MaxLogins, Sessions!Expire(s) \/ Sessions!Kill(s) PROVE Sessions!SignedOutForgets'
      BY <1>14 DEF Sessions!SignedOutForgets, Sessions!Expire, Sessions!Kill
<1>15. CASE Sessions!LogoutQuiet
      BY <1>15 DEF Sessions!SignedOutForgets, Sessions!LogoutQuiet, Sessions!Busy
<1> QED BY <1>1, <1>2, <1>3, <1>4, <1>5, <1>6, <1>7, <1>8, <1>9, <1>10, <1>11, <1>12, <1>13, <1>14, <1>15
        DEF Sessions!Next, Sessions!Boot

\* Whatever ends the last cause of the spinner shows something else, or strands the page.
LEMMA SpinnerEnds ==
  ASSUME ClientInv, Sessions!Next PROVE LoadingEnds'
<1> USE ClientsAssumption DEF ClientInv, ClientType, Sessions!TypeOK, Numbered, Answers
<1>1. ASSUME NEW c \in Call, Sessions!Login(c) \/ Sessions!Profile(c) \/ Sessions!LogoutTold(c)
      PROVE  LoadingEnds'
      BY <1>1 DEF LoadingEnds, Waiting, ClientFacts, Sound, Sessions!Login, Sessions!Profile,
                  Sessions!LogoutTold, Sessions!Send
<1>2. ASSUME NEW c \in Call, Sessions!Reload(c) PROVE LoadingEnds'
      BY <1>2 DEF LoadingEnds, Waiting, ClientFacts, Sound, Sessions!Reload, Sessions!Blank
<1>3. ASSUME NEW c \in Call, Sessions!ServeLogin(c) PROVE LoadingEnds'
      BY <1>3 DEF LoadingEnds, Waiting, ClientFacts, Sound, Sessions!ServeLogin, Sessions!Answer
<1>4. ASSUME NEW c \in Call, Sessions!Serve(c) \/ Sessions!ServeRefresh(c) \/ Sessions!ServeLogout(c)
      PROVE  LoadingEnds'
      BY <1>4 DEF LoadingEnds, Waiting, ClientFacts, Sound, Sessions!Serve, Sessions!ServeRefresh,
                  Sessions!ServeLogout, Sessions!Answer, Sessions!Good
<1>5. ASSUME NEW c \in Call, Sessions!Expel(c) PROVE LoadingEnds'
      BY <1>5 DEF LoadingEnds, Waiting, ClientFacts, Sound, Sessions!Expel, Sessions!Show,
                  Sessions!Done, Sessions!Busy
<1>6. ASSUME NEW c \in Call, Sessions!LoginOk(c) PROVE LoadingEnds'
      BY <1>6 DEF LoadingEnds, Waiting, ClientFacts, Sound, Sessions!LoginOk, Sessions!Show,
                  Sessions!Done, Sessions!Busy
<1>7. ASSUME NEW c \in Call, Sessions!LoginChallenge(c) \/ Sessions!LoginFail(c)
      PROVE  LoadingEnds'
      BY <1>7 DEF LoadingEnds, Waiting, ClientFacts, Sound, Sessions!LoginChallenge,
                  Sessions!LoginFail, Sessions!Show, Sessions!Stay, Sessions!Done, Sessions!Busy
<1>8. ASSUME NEW c \in Call, Sessions!ProfileBack(c) PROVE LoadingEnds'
      BY <1>8 DEF LoadingEnds, Waiting, ClientFacts, Sound, Sessions!ProfileBack, Sessions!Show,
                  Sessions!Stay, Sessions!Done, Sessions!Busy
<1>9. ASSUME NEW c \in Call, Sessions!LogoutBack(c) PROVE LoadingEnds'
      BY <1>9 DEF LoadingEnds, Waiting, ClientFacts, Sound, Sessions!LogoutBack, Sessions!Forget,
                  Sessions!Show, Sessions!Stay, Sessions!Done, Sessions!Busy
<1>10. ASSUME NEW c \in Call, Sessions!BootOk(c) PROVE LoadingEnds'
      BY <1>10 DEF LoadingEnds, Waiting, ClientFacts, Sound, Sessions!BootOk, Sessions!Show,
                   Sessions!Done, Sessions!Busy
<1>11. ASSUME NEW c \in Call, Sessions!BootOffline(c) PROVE LoadingEnds'
      BY <1>11 DEF LoadingEnds, Waiting, ClientFacts, Sound, Sessions!BootOffline, Sessions!Show,
                   Sessions!Done, Sessions!Busy
<1>12. ASSUME NEW c \in Call, Sessions!BootRefresh(c) \/ Sessions!BootAgain(c) PROVE LoadingEnds'
      BY <1>12 DEF LoadingEnds, Waiting, ClientFacts, Sound, Sessions!BootRefresh,
                   Sessions!BootAgain
<1>13. ASSUME NEW c \in Call, Sessions!BootEscape(c) \/ Sessions!BootOut(c) PROVE LoadingEnds'
      BY <1>13 DEF LoadingEnds, Waiting, ClientFacts, Sound, Sessions!BootEscape,
                   Sessions!BootOut, Sessions!Show, Sessions!Stay, Sessions!Done, Sessions!Busy
<1>14. ASSUME NEW s \in 1..MaxLogins, Sessions!Expire(s) \/ Sessions!Kill(s) PROVE LoadingEnds'
      BY <1>14 DEF LoadingEnds, Waiting, ClientFacts, Sound, Sessions!Expire, Sessions!Kill
<1>15. CASE Sessions!LogoutQuiet
      BY <1>15 DEF LoadingEnds, Waiting, ClientFacts, Sound, Sessions!LogoutQuiet, Sessions!Busy
<1> QED BY <1>1, <1>2, <1>3, <1>4, <1>5, <1>6, <1>7, <1>8, <1>9, <1>10, <1>11, <1>12, <1>13, <1>14, <1>15
        DEF Sessions!Next, Sessions!Boot

\* At the start nobody is signed in.
LEMMA InitClient == Sessions!Init => ClientInv
<1> SUFFICES ASSUME Sessions!Init PROVE ClientInv
    OBVIOUS
<1>1. ClientFacts
      BY ClientsAre DEF Sessions!Init, ClientFacts
<1>2. {store, assumed, stranded, left} \subseteq BOOLEAN
      BY Zenon DEF Sessions!Init
<1> QED BY <1>1, <1>2, ClientsAssumption
        DEF Sessions!Init, ClientInv, ClientType, Sessions!TypeOK, Numbered, Answers, FreshLogins,
            ConfirmedCalls, ShownIsLive, Sessions!SignedOutForgets, LoadingEnds

\* Every step of a client keeps its invariant.
LEMMA ClientStep == ClientInv /\ [Sessions!Next]_(Sessions!vars) => ClientInv'
<1>1. ASSUME ClientInv, Sessions!Next PROVE ClientInv'
      BY <1>1, ClientTypes, SessionsNumbered, LoginsFresh, CallsConfirmed, ShownStaysLive,
         LeftStaysForgotten, SpinnerEnds, ClientsAre DEF ClientInv, ClientType, ClientFacts, Sessions!TypeOK
<1>2. ASSUME ClientInv, UNCHANGED Sessions!vars PROVE ClientInv'
      BY <1>2 DEF Sessions!vars, ClientInv, ClientType, ClientFacts, Sessions!TypeOK, Numbered,
                  FreshLogins, ConfirmedCalls, ShownIsLive, Sessions!SignedOutForgets, LoadingEnds,
                  LeavingSoon, Waiting
<1> QED BY <1>1, <1>2

\* The invariant says what the client promises.
LEMMA ClientPromise ==
  ClientInv => /\ Sessions!TypeOK /\ Sessions!SignedInIsLive
               /\ Sessions!SignedOutForgets /\ Sessions!LoadingHasCause
  BY DEF ClientInv, ClientType, ShownIsLive, LeavingSoon, LoadingEnds, Waiting, Sessions!Busy,
         Sessions!SignedInIsLive, Sessions!LoadingHasCause

-----------------------------------------------------------------------------
(* The pages of the consoles *)

\* What the proof needs to know of a page.
PageFacts(p) ==
  /\ p.loads \in BOOLEAN
  /\ p.form # "guarded" => p.loads
  /\ p.form = "guarded" => ~p.acts
  /\ p.form = "open" => p.after = "reload"

PageCall == [kind : {"idle", "load", "act", "submit"}, query : Query, version : 0..MaxChanges,
             answer : {"none", "ok", "fail"}, turn : Nat]

PageType ==
  /\ Console!TypeOK /\ PageFacts(page)
  /\ shown \in [query : Query, version : 0..MaxChanges] /\ turn \in Nat
  /\ call \in [Call -> PageCall]
  /\ \A c \in Call : /\ call[c].turn <= turn
                     /\ call[c].kind = "submit" => page.form \in {"guarded", "open"}
                     /\ call[c].kind = "act" => page.acts

\* The newest load of all is still to be applied.
Pending(c) ==
  /\ call[c].kind = "load" /\ newest < call[c].turn
  /\ \A d \in Call : call[d].kind = "load" /\ d # c => call[d].turn < call[c].turn

\* A page that shows its rows has the newest ones, or they are on the way, or a change is
\* under way that will load them or end in an error.
Current ==
  page.form # "guarded" /\ ~error /\ ~crossed =>
    \/ \E c \in Call : call[c].kind \in {"act", "submit"}
    \/ \E c \in Call : /\ Pending(c) /\ call[c].query = query
                       /\ call[c].answer = "ok" => call[c].version = version
    \/ /\ shown = [query |-> query, version |-> version]
       /\ \A c \in Call : call[c].kind = "load" => call[c].turn < newest

Submitting(c) == call[c].kind = "submit"

\* One submit of a guarded form, which has the version it made.
SubmitsAlone ==
  page.form = "guarded" =>
    /\ \A c, d \in Call : Submitting(c) /\ Submitting(d) => c = d
    /\ saving <=> \E c \in Call : Submitting(c)
    /\ \A c \in Call : Submitting(c) => /\ result = 0
                                        /\ call[c].answer = "ok" => call[c].version = version
    /\ result # 0 => result = version

PageInv == PageType /\ Current /\ SubmitsAlone /\ Console!SpinnerHasCause

\* Of every page.
LEMMA PagesAre == \A p \in Console!Pages : PageFacts(p)
<1>1. PageFacts(Console!UsersList) BY DEF PageFacts, Console!UsersList, Console!Report
<1>2. PageFacts(Console!UsersDetails) BY DEF PageFacts, Console!UsersDetails, Console!Report
<1>3. PageFacts(Console!AuditLogs) BY DEF PageFacts, Console!AuditLogs, Console!Report
<1>4. PageFacts(Console!Breaches) BY DEF PageFacts, Console!Breaches, Console!Report
<1>5. PageFacts(Console!Risk) BY DEF PageFacts, Console!Risk, Console!Report
<1>6. PageFacts(Console!SubscriptionsList) BY DEF PageFacts, Console!SubscriptionsList,
   Console!Report
<1>7. PageFacts(Console!AdminDashboard) BY DEF PageFacts, Console!AdminDashboard, Console!Report
<1>8. PageFacts(Console!PortalDashboard) BY DEF PageFacts, Console!PortalDashboard, Console!Report
<1>9. PageFacts(Console!WebhooksList) BY DEF PageFacts, Console!WebhooksList, Console!Report
<1>10. PageFacts(Console!Analytics) BY DEF PageFacts, Console!Analytics, Console!Report
<1>11. PageFacts(Console!UsersEdit) BY DEF PageFacts, Console!UsersEdit, Console!Form,
   Console!Report
<1>12. PageFacts(Console!UsersCreate) BY DEF PageFacts, Console!UsersCreate, Console!UserForm,
   Console!Form, Console!Report
<1>13. PageFacts(Console!UserForm) BY DEF PageFacts, Console!UserForm, Console!Form,
   Console!Report
<1>14. PageFacts(Console!TenantForm) BY DEF PageFacts, Console!TenantForm, Console!Form,
   Console!Report
<1>15. PageFacts(Console!ClientForm) BY DEF PageFacts, Console!ClientForm, Console!Form,
   Console!Report
<1>16. PageFacts(Console!ClientsCreate) BY DEF PageFacts, Console!ClientsCreate, Console!Form,
   Console!Report
<1>17. PageFacts(Console!Settings) BY DEF PageFacts, Console!Settings, Console!Form,
   Console!Report
<1>18. PageFacts(Console!AdminLogin) BY DEF PageFacts, Console!AdminLogin, Console!Form,
   Console!Report
<1>19. PageFacts(Console!PortalLogin) BY DEF PageFacts, Console!PortalLogin, Console!Form,
   Console!Report
<1>20. PageFacts(Console!WebhooksCreate) BY DEF PageFacts, Console!WebhooksCreate, Console!Form,
   Console!Report
<1>21. PageFacts(Console!ApiKeysCreate) BY DEF PageFacts, Console!ApiKeysCreate, Console!Form,
   Console!Report
<1>22. PageFacts(Console!WebhookTester) BY DEF PageFacts, Console!WebhookTester, Console!Form,
   Console!Report
<1>23. PageFacts(Console!ApiExplorer) BY DEF PageFacts, Console!ApiExplorer, Console!Form,
   Console!Report
<1>24. PageFacts(Console!RolesList) BY DEF PageFacts, Console!RolesList, Console!Listing,
   Console!Report
<1>25. PageFacts(Console!SessionsList) BY DEF PageFacts, Console!SessionsList, Console!Listing,
   Console!Report
<1>26. PageFacts(Console!TenantsList) BY DEF PageFacts, Console!TenantsList, Console!Listing,
   Console!Report
<1>27. PageFacts(Console!ClientsList) BY DEF PageFacts, Console!ClientsList, Console!Listing,
   Console!Report
<1>28. PageFacts(Console!KeyManager) BY DEF PageFacts, Console!KeyManager, Console!Listing,
   Console!Report
<1>29. PageFacts(Console!Profile) BY DEF PageFacts, Console!Profile, Console!Listing,
   Console!Report
<1> QED BY <1>1, <1>2, <1>11, <1>12, <1>13, <1>24, <1>25, <1>26, <1>14, <1>27, <1>15,
        <1>16, <1>3, <1>4, <1>5, <1>6, <1>17, <1>7, <1>18, <1>19, <1>8, <1>9, <1>20, <1>21, <1>28,
        <1>10, <1>29, <1>22, <1>23 DEF Console!Pages

\* What an idle slot holds.
LEMMA IdlePage ==
  /\ Console!Idle \in PageCall /\ Console!Idle.kind = "idle" /\ Console!Idle.turn = 0
  /\ Console!Idle.answer = "none"
<1>1. (CHOOSE q \in Query : TRUE) \in Query BY ClientsAssumption
<1> QED BY <1>1, ClientsAssumption DEF Console!Idle, PageCall

\* The calls of a page keep their types.
LEMMA PageTypes ==
  ASSUME PageInv, [Console!Next]_(Console!vars) PROVE PageType'
<1> USE IdlePage, ClientsAssumption DEF PageInv, PageType
<1>1. ASSUME NEW c \in Call, NEW q \in Query, Console!Ask(c, q) PROVE PageType'
  <2>1. loading' \in BOOLEAN /\ saving' \in BOOLEAN /\ error' \in BOOLEAN /\ crossed' \in BOOLEAN
        BY <1>1, Zenon DEF
     PageType, Console!TypeOK, Console!Ask, Console!Free, Console!Load, Console!Made
  <2>2. call' \in [Call -> PageCall] BY <1>1 DEF PageCall, Console!TypeOK, PageFacts, Console!Ask,
     Console!Free, Console!Load, Console!Made
  <2>3. /\ turn' \in Nat /\ newest' \in 0..turn' /\ turn <= turn'
        /\ \A d \in Call : call'[d].turn <= turn'
        BY <1>1 DEF
     PageCall, Console!TypeOK, Console!Ask, Console!Free, Console!Load, Console!Made
  <2>4. \A d \in Call : /\ call'[d].kind = "submit" => page'.form \in {"guarded", "open"}
                        /\ call'[d].kind = "act" => page'.acts
        BY <1>1 DEF
     PageCall, Console!TypeOK, Console!Ask, Console!Free, Console!Load, Console!Made
  <2>5. /\ version' \in 1..MaxChanges /\ result' \in 0..MaxChanges
        /\ shown' \in [query : Query, version : 0..MaxChanges] /\ shown'.query \in Query
        BY <1>1 DEF
     PageCall, Console!TypeOK, Console!Ask, Console!Free, Console!Load, Console!Made
  <2>6. page' \in Console!Pages /\ query' \in Query /\ PageFacts(page)' BY <1>1 DEF
     Console!TypeOK, PageFacts, Console!Ask, Console!Free, Console!Load, Console!Made
  <2>7. Console!TypeOK' BY <2>1, <2>3, <2>5, <2>6, Zenon DEF Console!TypeOK
  <2> HIDE DEF PageType
  <2> QED BY <2>2, <2>3, <2>4, <2>5, <2>6, <2>7 DEF PageType
<1>2. ASSUME NEW c \in Call, Console!Again(c) PROVE PageType'
  <2>1. loading' \in BOOLEAN /\ saving' \in BOOLEAN /\ error' \in BOOLEAN /\ crossed' \in BOOLEAN
        BY <1>2, Zenon DEF
     PageType, Console!TypeOK, Console!Again, Console!Free, Console!Load, Console!Made
  <2>2. call' \in [Call -> PageCall] BY <1>2 DEF PageCall, Console!TypeOK, PageFacts,
     Console!Again, Console!Free, Console!Load, Console!Made
  <2>3. /\ turn' \in Nat /\ newest' \in 0..turn' /\ turn <= turn'
        /\ \A d \in Call : call'[d].turn <= turn'
        BY <1>2 DEF
     PageCall, Console!TypeOK, Console!Again, Console!Free, Console!Load, Console!Made
  <2>4. \A d \in Call : /\ call'[d].kind = "submit" => page'.form \in {"guarded", "open"}
                        /\ call'[d].kind = "act" => page'.acts
        BY <1>2 DEF
     PageCall, Console!TypeOK, Console!Again, Console!Free, Console!Load, Console!Made
  <2>5. /\ version' \in 1..MaxChanges /\ result' \in 0..MaxChanges
        /\ shown' \in [query : Query, version : 0..MaxChanges] /\ shown'.query \in Query
        BY <1>2 DEF
     PageCall, Console!TypeOK, Console!Again, Console!Free, Console!Load, Console!Made
  <2>6. page' \in Console!Pages /\ query' \in Query /\ PageFacts(page)' BY <1>2 DEF
     Console!TypeOK, PageFacts, Console!Again, Console!Free, Console!Load, Console!Made
  <2>7. Console!TypeOK' BY <2>1, <2>3, <2>5, <2>6, Zenon DEF Console!TypeOK
  <2> HIDE DEF PageType
  <2> QED BY <2>2, <2>3, <2>4, <2>5, <2>6, <2>7 DEF PageType
<1>3. ASSUME NEW c \in Call, Console!Act(c) PROVE PageType'
      BY <1>3 DEF PageType, Console!TypeOK, PageCall, PageFacts, Console!Act, Console!Free,
                  Console!Made
<1>4. ASSUME NEW c \in Call, Console!Submit(c) PROVE PageType'
  <2>1. loading' \in BOOLEAN /\ saving' \in BOOLEAN /\ error' \in BOOLEAN /\ crossed' \in BOOLEAN
        BY <1>4, Zenon DEF
     PageType, Console!TypeOK, Console!Submit, Console!Free, Console!CanSubmit, Console!Made
  <2>2. call' \in [Call -> PageCall] BY <1>4 DEF PageCall, Console!TypeOK, PageFacts,
     Console!Submit, Console!Free, Console!CanSubmit, Console!Made
  <2>3. /\ turn' \in Nat /\ newest' \in 0..turn' /\ turn <= turn'
        /\ \A d \in Call : call'[d].turn <= turn'
        BY <1>4 DEF
     PageCall, Console!TypeOK, Console!Submit, Console!Free, Console!CanSubmit, Console!Made
  <2>4. \A d \in Call : /\ call'[d].kind = "submit" => page'.form \in {"guarded", "open"}
                        /\ call'[d].kind = "act" => page'.acts
        BY <1>4 DEF
     PageCall, Console!TypeOK, Console!Submit, Console!Free, Console!CanSubmit, Console!Made
  <2>5. /\ version' \in 1..MaxChanges /\ result' \in 0..MaxChanges
        /\ shown' \in [query : Query, version : 0..MaxChanges] /\ shown'.query \in Query
        BY <1>4 DEF
     PageCall, Console!TypeOK, Console!Submit, Console!Free, Console!CanSubmit, Console!Made
  <2>6. page' \in Console!Pages /\ query' \in Query /\ PageFacts(page)' BY <1>4 DEF
     Console!TypeOK, PageFacts, Console!Submit, Console!Free, Console!CanSubmit, Console!Made
  <2>7. Console!TypeOK' BY <2>1, <2>3, <2>5, <2>6, Zenon DEF Console!TypeOK
  <2> HIDE DEF PageType
  <2> QED BY <2>2, <2>3, <2>4, <2>5, <2>6, <2>7 DEF PageType
<1>5. ASSUME NEW c \in Call, Console!Serve(c) PROVE PageType'
  <2>1. loading' \in BOOLEAN /\ saving' \in BOOLEAN /\ error' \in BOOLEAN /\ crossed' \in BOOLEAN
        BY <1>5, Zenon DEF
     PageType, Console!TypeOK, Console!Serve
  <2>2. call' \in [Call -> PageCall]
    <3>1. PICK a \in {"ok", "fail"} : call' = [call EXCEPT ![c].answer = a, ![c].version = version]
          BY <1>5 DEF Console!Serve
    <3>2. [call[c] EXCEPT !.answer = a, !.version = version] \in PageCall
      <4>1. version \in 0..MaxChanges /\ call[c] \in PageCall BY DEF Console!TypeOK
      <4> QED BY <4>1 DEF PageCall
    <3> QED BY <3>1, <3>2
  <2>3. /\ turn' \in Nat /\ newest' \in 0..turn' /\ turn <= turn'
        /\ \A d \in Call : call'[d].turn <= turn'
        BY <1>5 DEF
     PageCall, Console!TypeOK, Console!Serve
  <2>4. \A d \in Call : /\ call'[d].kind = "submit" => page'.form \in {"guarded", "open"}
                        /\ call'[d].kind = "act" => page'.acts
        BY <1>5 DEF
     PageCall, Console!TypeOK, Console!Serve
  <2>5. /\ version' \in 1..MaxChanges /\ result' \in 0..MaxChanges
        /\ shown' \in [query : Query, version : 0..MaxChanges] /\ shown'.query \in Query
        BY <1>5 DEF
     PageCall, Console!TypeOK, Console!Serve
  <2>6. page' \in Console!Pages /\ query' \in Query /\ PageFacts(page)' BY <1>5 DEF
     Console!TypeOK, PageFacts, Console!Serve
  <2>7. Console!TypeOK' BY <2>1, <2>3, <2>5, <2>6, Zenon DEF Console!TypeOK
  <2> HIDE DEF PageType
  <2> QED BY <2>2, <2>3, <2>4, <2>5, <2>6, <2>7 DEF PageType
<1>6. ASSUME NEW c \in Call, Console!Change(c) PROVE PageType'
      BY <1>6 DEF PageType, Console!TypeOK, PageCall, PageFacts, Console!Change
<1>7. ASSUME NEW c \in Call, Console!Loaded(c) PROVE PageType'
  <2>1. loading' \in BOOLEAN /\ saving' \in BOOLEAN /\ error' \in BOOLEAN /\ crossed' \in BOOLEAN
        BY <1>7, Zenon DEF
     PageType, Console!TypeOK, Console!Loaded, Console!SpinnerOff
  <2>2. call' \in [Call -> PageCall] BY <1>7 DEF PageCall, Console!TypeOK, PageFacts,
     Console!Loaded, Console!SpinnerOff
  <2>3. /\ turn' \in Nat /\ newest' \in 0..turn' /\ turn <= turn'
        /\ \A d \in Call : call'[d].turn <= turn'
        BY <1>7 DEF
     PageCall, Console!TypeOK, Console!Loaded, Console!SpinnerOff
  <2>4. \A d \in Call : /\ call'[d].kind = "submit" => page'.form \in {"guarded", "open"}
                        /\ call'[d].kind = "act" => page'.acts
        BY <1>7 DEF
     PageCall, Console!TypeOK, Console!Loaded, Console!SpinnerOff
  <2>5. /\ version' \in 1..MaxChanges /\ result' \in 0..MaxChanges
        /\ shown' \in [query : Query, version : 0..MaxChanges] /\ shown'.query \in Query
        BY <1>7 DEF
     PageCall, Console!TypeOK, Console!Loaded, Console!SpinnerOff
  <2>6. page' \in Console!Pages /\ query' \in Query /\ PageFacts(page)' BY <1>7 DEF
     Console!TypeOK, PageFacts, Console!Loaded, Console!SpinnerOff
  <2>7. Console!TypeOK' BY <2>1, <2>3, <2>5, <2>6, Zenon DEF Console!TypeOK
  <2> HIDE DEF PageType
  <2> QED BY <2>2, <2>3, <2>4, <2>5, <2>6, <2>7 DEF PageType
<1>8. ASSUME NEW c \in Call, Console!Acted(c) PROVE PageType'
  <2>1. loading' \in BOOLEAN /\ saving' \in BOOLEAN /\ error' \in BOOLEAN /\ crossed' \in BOOLEAN
        BY <1>8, Zenon DEF
     PageType, Console!TypeOK, Console!Acted, Console!Reload, Console!Load, Console!Made
  <2>2. call' \in [Call -> PageCall] BY <1>8 DEF PageCall, Console!TypeOK, PageFacts,
     Console!Acted, Console!Reload, Console!Load, Console!Made
  <2>3. /\ turn' \in Nat /\ newest' \in 0..turn' /\ turn <= turn'
        /\ \A d \in Call : call'[d].turn <= turn'
        BY <1>8 DEF
     PageCall, Console!TypeOK, Console!Acted, Console!Reload, Console!Load, Console!Made
  <2>4. \A d \in Call : /\ call'[d].kind = "submit" => page'.form \in {"guarded", "open"}
                        /\ call'[d].kind = "act" => page'.acts
        BY <1>8 DEF
     PageCall, Console!TypeOK, Console!Acted, Console!Reload, Console!Load, Console!Made
  <2>5. /\ version' \in 1..MaxChanges /\ result' \in 0..MaxChanges
        /\ shown' \in [query : Query, version : 0..MaxChanges] /\ shown'.query \in Query
        BY <1>8 DEF
     PageCall, Console!TypeOK, Console!Acted, Console!Reload, Console!Load, Console!Made
  <2>6. page' \in Console!Pages /\ query' \in Query /\ PageFacts(page)' BY <1>8 DEF
     Console!TypeOK, PageFacts, Console!Acted, Console!Reload, Console!Load, Console!Made
  <2>7. Console!TypeOK' BY <2>1, <2>3, <2>5, <2>6, Zenon DEF Console!TypeOK
  <2> HIDE DEF PageType
  <2> QED BY <2>2, <2>3, <2>4, <2>5, <2>6, <2>7 DEF PageType
<1>9. ASSUME NEW c \in Call, Console!Submitted(c) PROVE PageType'
  <2>1. loading' \in BOOLEAN /\ saving' \in BOOLEAN /\ error' \in BOOLEAN /\ crossed' \in BOOLEAN
        BY <1>9, Zenon DEF
     PageType, Console!TypeOK, Console!Submitted, Console!Reload, Console!Load, Console!Made
  <2>2. call' \in [Call -> PageCall] BY <1>9 DEF PageCall, Console!TypeOK, PageFacts,
     Console!Submitted, Console!Reload, Console!Load, Console!Made
  <2>3. /\ turn' \in Nat /\ newest' \in 0..turn' /\ turn <= turn'
        /\ \A d \in Call : call'[d].turn <= turn'
        BY <1>9 DEF
     PageCall, Console!TypeOK, Console!Submitted, Console!Reload, Console!Load, Console!Made
  <2>4. \A d \in Call : /\ call'[d].kind = "submit" => page'.form \in {"guarded", "open"}
                        /\ call'[d].kind = "act" => page'.acts
        BY <1>9 DEF
     PageCall, Console!TypeOK, Console!Submitted, Console!Reload, Console!Load, Console!Made
  <2>5. /\ version' \in 1..MaxChanges /\ result' \in 0..MaxChanges
        /\ shown' \in [query : Query, version : 0..MaxChanges] /\ shown'.query \in Query
        BY <1>9 DEF
     PageCall, Console!TypeOK, Console!Submitted, Console!Reload, Console!Load, Console!Made
  <2>6. page' \in Console!Pages /\ query' \in Query /\ PageFacts(page)' BY <1>9 DEF
     Console!TypeOK, PageFacts, Console!Submitted, Console!Reload, Console!Load, Console!Made
  <2>7. Console!TypeOK' BY <2>1, <2>3, <2>5, <2>6, Zenon DEF Console!TypeOK
  <2> HIDE DEF PageType
  <2> QED BY <2>2, <2>3, <2>4, <2>5, <2>6, <2>7 DEF PageType
<1>10. CASE UNCHANGED pageVars
      BY <1>10 DEF PageType, Console!TypeOK, PageCall, PageFacts, pageVars
<1> QED BY <1>1, <1>2, <1>3, <1>4, <1>5, <1>6, <1>7, <1>8, <1>9, <1>10
        DEF Console!Next, Console!vars, pageVars

\* Whatever changes the server's rows ends in a load or an error.
LEMMA RowsStayCurrent ==
  ASSUME PageInv, [Console!Next]_(Console!vars) PROVE Current'
<1> USE IdlePage, ClientsAssumption DEF PageInv, PageType
<1>1. ASSUME NEW c \in Call, NEW q \in Query, Console!Ask(c, q) PROVE Current'
      BY <1>1 DEF Current, Pending, PageCall, PageFacts, Console!TypeOK, Console!Ask,
                  Console!Free, Console!Load, Console!Made
<1>2. ASSUME NEW c \in Call, Console!Again(c) PROVE Current'
      BY <1>2 DEF Current, Pending, PageCall, PageFacts, Console!TypeOK, Console!Again,
                  Console!Free, Console!Load, Console!Made
<1>3. ASSUME NEW c \in Call, Console!Act(c) PROVE Current'
      BY <1>3 DEF Current, Pending, PageCall, PageFacts, Console!TypeOK, Console!Act,
                  Console!Free, Console!Made
<1>4. ASSUME NEW c \in Call, Console!Submit(c) PROVE Current'
      BY <1>4 DEF Current, Pending, PageCall, PageFacts, Console!TypeOK, Console!Submit,
                  Console!Free, Console!CanSubmit, Console!Made
<1>5. ASSUME NEW c \in Call, Console!Serve(c) PROVE Current'
      BY <1>5 DEF Current, Pending, PageCall, PageFacts, Console!TypeOK, Console!Serve
<1>6. ASSUME NEW c \in Call, Console!Change(c) PROVE Current'
      BY <1>6 DEF Current, Pending, PageCall, PageFacts, Console!TypeOK, Console!Change
<1>7. ASSUME NEW c \in Call, Console!Loaded(c) PROVE Current'
      BY <1>7 DEF Current, Pending, PageCall, PageFacts, Console!TypeOK, Console!Loaded,
                  Console!SpinnerOff
<1>8. ASSUME NEW c \in Call, Console!Acted(c) PROVE Current'
      BY <1>8 DEF Current, Pending, PageCall, PageFacts, Console!TypeOK, Console!Acted,
                  Console!Reload, Console!Load, Console!Made
<1>9. ASSUME NEW c \in Call, Console!Submitted(c) PROVE Current'
      BY <1>9 DEF Current, Pending, PageCall, PageFacts, Console!TypeOK, Console!Submitted,
                  Console!Reload, Console!Load, Console!Made
<1>10. CASE UNCHANGED pageVars
      BY <1>10 DEF Current, Pending, PageCall, PageFacts, Console!TypeOK, pageVars
<1> QED BY <1>1, <1>2, <1>3, <1>4, <1>5, <1>6, <1>7, <1>8, <1>9, <1>10
        DEF Console!Next, Console!vars, pageVars

\* The button of a guarded form is off from a submit to its answer.
LEMMA SubmitsStayAlone ==
  ASSUME PageInv, [Console!Next]_(Console!vars) PROVE SubmitsAlone'
<1> USE IdlePage, ClientsAssumption DEF PageInv, PageType
<1>1. ASSUME NEW c \in Call, NEW q \in Query, Console!Ask(c, q) PROVE SubmitsAlone'
      BY <1>1 DEF SubmitsAlone, Submitting, PageCall, PageFacts, Console!TypeOK, Console!Ask,
                  Console!Free, Console!Load, Console!Made
<1>2. ASSUME NEW c \in Call, Console!Again(c) PROVE SubmitsAlone'
      BY <1>2 DEF SubmitsAlone, Submitting, PageCall, PageFacts, Console!TypeOK, Console!Again,
                  Console!Free, Console!Load, Console!Made
<1>3. ASSUME NEW c \in Call, Console!Act(c) PROVE SubmitsAlone'
      BY <1>3 DEF SubmitsAlone, Submitting, PageCall, PageFacts, Console!TypeOK, Console!Act,
                  Console!Free, Console!Made
<1>4. ASSUME NEW c \in Call, Console!Submit(c) PROVE SubmitsAlone'
      BY <1>4 DEF SubmitsAlone, Submitting, PageCall, PageFacts, Console!TypeOK, Console!Submit,
                  Console!Free, Console!CanSubmit, Console!Made
<1>5. ASSUME NEW c \in Call, Console!Serve(c) PROVE SubmitsAlone'
      BY <1>5 DEF SubmitsAlone, Submitting, PageCall, PageFacts, Console!TypeOK, Console!Serve
<1>6. ASSUME NEW c \in Call, Console!Change(c) PROVE SubmitsAlone'
      BY <1>6 DEF SubmitsAlone, Submitting, PageCall, PageFacts, Console!TypeOK, Console!Change
<1>7. ASSUME NEW c \in Call, Console!Loaded(c) PROVE SubmitsAlone'
      BY <1>7 DEF SubmitsAlone, Submitting, PageCall, PageFacts, Console!TypeOK, Console!Loaded,
                  Console!SpinnerOff
<1>8. ASSUME NEW c \in Call, Console!Acted(c) PROVE SubmitsAlone'
      BY <1>8 DEF SubmitsAlone, Submitting, PageCall, PageFacts, Console!TypeOK, Console!Acted,
                  Console!Reload, Console!Load, Console!Made
<1>9. ASSUME NEW c \in Call, Console!Submitted(c) PROVE SubmitsAlone'
      BY <1>9 DEF SubmitsAlone, Submitting, PageCall, PageFacts, Console!TypeOK,
                  Console!Submitted, Console!Reload, Console!Load, Console!Made
<1>10. CASE UNCHANGED pageVars
      BY <1>10 DEF SubmitsAlone, Submitting, PageCall, PageFacts, Console!TypeOK, pageVars
<1> QED BY <1>1, <1>2, <1>3, <1>4, <1>5, <1>6, <1>7, <1>8, <1>9, <1>10
        DEF Console!Next, Console!vars, pageVars

\* Every way of showing the spinner starts a load.
LEMMA SpinnerStaysTrue ==
  ASSUME PageInv, [Console!Next]_(Console!vars) PROVE Console!SpinnerHasCause'
<1> USE IdlePage, ClientsAssumption DEF PageInv, PageType
<1>1. ASSUME NEW c \in Call, NEW q \in Query, Console!Ask(c, q) PROVE Console!SpinnerHasCause'
      BY <1>1 DEF Console!SpinnerHasCause, Console!Under, PageCall, PageFacts, Console!TypeOK,
                  Console!Ask, Console!Free, Console!Load, Console!Made
<1>2. ASSUME NEW c \in Call, Console!Again(c) PROVE Console!SpinnerHasCause'
      BY <1>2 DEF Console!SpinnerHasCause, Console!Under, PageCall, PageFacts, Console!TypeOK,
                  Console!Again, Console!Free, Console!Load, Console!Made
<1>3. ASSUME NEW c \in Call, Console!Act(c) PROVE Console!SpinnerHasCause'
      BY <1>3 DEF Console!SpinnerHasCause, Console!Under, PageCall, PageFacts, Console!TypeOK,
                  Console!Act, Console!Free, Console!Made
<1>4. ASSUME NEW c \in Call, Console!Submit(c) PROVE Console!SpinnerHasCause'
      BY <1>4 DEF Console!SpinnerHasCause, Console!Under, PageCall, PageFacts, Console!TypeOK,
                  Console!Submit, Console!Free, Console!CanSubmit, Console!Made
<1>5. ASSUME NEW c \in Call, Console!Serve(c) PROVE Console!SpinnerHasCause'
      BY <1>5 DEF Console!SpinnerHasCause, Console!Under, PageCall, PageFacts, Console!TypeOK,
                  Console!Serve
<1>6. ASSUME NEW c \in Call, Console!Change(c) PROVE Console!SpinnerHasCause'
      BY <1>6 DEF Console!SpinnerHasCause, Console!Under, PageCall, PageFacts, Console!TypeOK,
                  Console!Change
<1>7. ASSUME NEW c \in Call, Console!Loaded(c) PROVE Console!SpinnerHasCause'
      BY <1>7 DEF Console!SpinnerHasCause, Console!Under, PageCall, PageFacts, Console!TypeOK,
                  Console!Loaded, Console!SpinnerOff
<1>8. ASSUME NEW c \in Call, Console!Acted(c) PROVE Console!SpinnerHasCause'
  <2>1. CASE call' = [call EXCEPT ![c] = Console!Made("load", query)]
    <3>1. call'[c].kind = "load" BY <2>1 DEF PageCall, Console!Made
    <3> QED BY <3>1 DEF Console!SpinnerHasCause, Console!Under
  <2>2. CASE call' = [call EXCEPT ![c] = Console!Idle] /\ UNCHANGED loading
    <3>1. \A d \in Call : call[d].kind = "load" => call'[d] = call[d] BY <1>8, <2>2 DEF PageCall,
       Console!Acted
    <3> QED BY <3>1, <2>2 DEF Console!SpinnerHasCause, Console!Under
  <2> QED BY <1>8, <2>1, <2>2 DEF Console!Acted, Console!Reload, Console!Load
<1>9. ASSUME NEW c \in Call, Console!Submitted(c) PROVE Console!SpinnerHasCause'
  <2>1. CASE call' = [call EXCEPT ![c] = Console!Made("load", query)]
    <3>1. call'[c].kind = "load" BY <2>1 DEF PageCall, Console!Made
    <3> QED BY <3>1 DEF Console!SpinnerHasCause, Console!Under
  <2>2. CASE call' = [call EXCEPT ![c] = Console!Idle] /\ UNCHANGED loading
    <3>1. \A d \in Call : call[d].kind = "load" => call'[d] = call[d] BY <1>9, <2>2 DEF PageCall,
       Console!Submitted
    <3> QED BY <3>1, <2>2 DEF Console!SpinnerHasCause, Console!Under
  <2> QED BY <1>9, <2>1, <2>2 DEF Console!Submitted, Console!Reload, Console!Load
<1>10. CASE UNCHANGED pageVars
      BY <1>10 DEF Console!SpinnerHasCause, Console!Under, PageCall, PageFacts, Console!TypeOK,
                   pageVars
<1> QED BY <1>1, <1>2, <1>3, <1>4, <1>5, <1>6, <1>7, <1>8, <1>9, <1>10
        DEF Console!Next, Console!vars, pageVars

\* At the start a page that loads has its load under way.
LEMMA InitPage == Console!Init => PageInv
<1> SUFFICES ASSUME Console!Init PROVE PageInv
    OBVIOUS
<1> USE IdlePage, ClientsAssumption
<1>1. PageFacts(page) /\ page.loads \in BOOLEAN BY PagesAre DEF Console!Init, PageFacts
<1>2. loading \in BOOLEAN /\ saving \in BOOLEAN /\ error \in BOOLEAN /\ crossed \in BOOLEAN
      BY <1>1, Zenon DEF Console!Init
<1>3. Console!TypeOK
  <2>1. version \in 1..MaxChanges /\ result \in 0..MaxChanges /\ newest \in 0..turn
        BY DEF Console!Init
  <2>2. page \in Console!Pages /\ query \in Query /\ shown.query \in Query
        BY DEF Console!Init
  <2> QED BY <1>2, <2>1, <2>2, Zenon DEF Console!TypeOK
<1>4. PICK c \in Call :
        call = [x \in Call |-> IF x = c /\ page.loads
                               THEN [Console!Idle EXCEPT !.kind = "load", !.query = query, !.turn = 1]
                               ELSE Console!Idle]
      BY DEF Console!Init
<1> DEFINE First == [Console!Idle EXCEPT !.kind = "load", !.query = query, !.turn = 1]
<1>5. First \in PageCall /\ First.kind = "load" /\ First.query = query /\ First.turn = 1
      /\ First.answer = "none"
      BY DEF Console!Init, PageCall
<1>6. call \in [Call -> {Console!Idle, First}] /\ (page.loads => call[c] = First)
      /\ (\A d \in Call : d # c \/ ~page.loads => call[d] = Console!Idle)
      BY <1>4
<1> HIDE DEF First
<1>7. PageType
  <2>1. call \in [Call -> PageCall] BY <1>5, <1>6
  <2>2. \A d \in Call : call[d].turn <= 1 /\ call[d].kind \in {"idle", "load"}
        BY <1>5, <1>6
  <2>3. shown \in [query : Query, version : 0..MaxChanges] /\ turn \in Nat /\ turn = 1
        BY DEF Console!Init
  <2> QED BY <1>1, <1>3, <2>1, <2>2, <2>3 DEF PageType
<1>8. Current
  <2>1. CASE page.loads
    <3>1. Pending(c) /\ call[c].query = query /\ call[c].answer = "none"
          BY <1>5, <1>6, <2>1 DEF Pending, Console!Init
    <3> QED BY <3>1 DEF Current
  <2>2. CASE ~page.loads
        BY <1>1, <2>2 DEF Current, PageFacts
  <2> QED BY <2>1, <2>2
<1>9. SubmitsAlone
      BY <1>5, <1>6 DEF SubmitsAlone, Submitting, Console!Init
<1>10. Console!SpinnerHasCause
      BY <1>5, <1>6 DEF Console!SpinnerHasCause, Console!Under, Console!Init
<1> QED BY <1>7, <1>8, <1>9, <1>10 DEF PageInv

\* Every step of a page keeps its invariant.
LEMMA PageStep == PageInv /\ [Console!Next]_(Console!vars) => PageInv'
  BY PageTypes, RowsStayCurrent, SubmitsStayAlone, SpinnerStaysTrue DEF PageInv

\* The invariant says what the page promises.
LEMMA PagePromise ==
  PageInv => /\ Console!TypeOK /\ Console!ShowsTheTruth
             /\ Console!SpinnerHasCause /\ Console!OneSubmit
<1> SUFFICES ASSUME PageInv
             PROVE  Console!TypeOK /\ Console!ShowsTheTruth /\ Console!OneSubmit
    BY DEF PageInv
<1>1. Console!TypeOK
      BY DEF PageInv, PageType
<1>2. Console!ShowsTheTruth
  <2> SUFFICES ASSUME {c \in Call : call[c] # Console!Idle} = {}, ~error, ~crossed,
                      page.form # "guarded"
               PROVE  shown = [query |-> query, version |-> version]
      BY DEF Console!ShowsTheTruth
  <2>1. \A c \in Call : call[c].kind = "idle"
        BY IdlePage
  <2> QED BY <2>1 DEF PageInv, Current, Pending
<1>3. Console!OneSubmit
  <2> DEFINE Subs == Console!Under("submit")
  <2>1. ASSUME page.form = "guarded"
        PROVE  (\A c, d \in Subs : c = d) /\ (result # 0 => result = version)
        BY <2>1 DEF PageInv, SubmitsAlone, Submitting, Console!Under
  <2>2. ASSUME page.form = "guarded" PROVE saving = (Subs # {})
    <3>1. saving \in BOOLEAN /\ (saving <=> Subs # {})
          BY <1>1, <2>2 DEF PageInv, SubmitsAlone, Submitting, Console!Under, Console!TypeOK
    <3> QED BY <3>1, Zenon
  <2> QED BY <2>1, <2>2, Zenon DEF Console!OneSubmit
<1> QED BY <1>1, <1>2, <1>3

-----------------------------------------------------------------------------

\* What a client or a page shows is what the server has, unless an older answer came in
\* late: a user with a live session, nothing of one after a logout, the rows of the query
\* in the controls, a spinner with a cause, and one submit at a time.
THEOREM ClientsTruthful == AnySpec => []ClientsAgree
<1> DEFINE Step == [AnyNext]_<<part, vars, limitVars, lockVars, clientVars, pageVars>>
<1>1. AnyInit => ClientInv /\ PageInv
      BY InitClient, InitPage DEF AnyInit
<1>2. Step => [Sessions!Next]_(Sessions!vars)
      BY DEF AnyNext, clientVars, Sessions!vars
<1>3. Step => [Console!Next]_(Console!vars)
      BY DEF AnyNext, pageVars, Console!vars
<1>4. ClientInv /\ PageInv /\ Step => ClientInv' /\ PageInv'
      BY <1>2, <1>3, ClientStep, PageStep
<1>5. ClientInv /\ PageInv => ClientsAgree
      BY ClientPromise, PagePromise DEF ClientsAgree
<1> QED BY <1>1, <1>4, <1>5, PTL DEF AnySpec
=============================================================================

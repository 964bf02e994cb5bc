-------------------------- MODULE DistributedLock ---------------------------
(***************************************************************************)
(* One key of distributed-lock.ts.  A call stands for the token it has     *)
(* generated, so it starts again only when that token is gone everywhere.  *)
(* The fallback stores its token in the cache, under a key of its own.     *)
(***************************************************************************)
EXTENDS Naturals

CONSTANTS
  Req,       \* concurrent callers, on any instance
  None,      \* no token
  retries    \* LockOptions.retries

VARIABLES
  ready,     \* client.status is 'ready'
  holder,    \* the token under the key in Redis
  cached,    \* the token under the key in the cache
  pc, tries, \* where a call is, and its attempts so far
  lease,     \* the TTL counted from the call's acquisition has not passed
  fallback   \* history: a call has used the cache as a lock

vars == <<ready, holder, cached, pc, tries, lease, fallback>>

TypeOK ==
  /\ ready \in BOOLEAN
  /\ holder \in Req \cup {None} /\ cached \in Req \cup {None}
  /\ pc \in [Req -> {"idle", "try", "probe", "store", "held"}]
  /\ tries \in [Req -> 0..retries]
  /\ lease \in [Req -> BOOLEAN] /\ fallback \in BOOLEAN

Init ==
  /\ ready = TRUE
  /\ holder = None /\ cached = None
  /\ pc = [r \in Req |-> "idle"] /\ tries = [r \in Req |-> 0]
  /\ lease = [r \in Req |-> FALSE] /\ fallback = FALSE

-----------------------------------------------------------------------------
\* tryAcquire returned false: another attempt after a delay, or null.  The mutant
\* tries once more.
RefusedLate(r) ==
  \/ /\ tries[r] <= retries
     /\ tries' = [tries EXCEPT ![r] = @ + 1]
     /\ pc' = [pc EXCEPT ![r] = "try"]
  \/ /\ tries[r] > retries
     /\ pc' = [pc EXCEPT ![r] = "idle"]
     /\ UNCHANGED tries
Refused(r) ==
  \/ /\ tries[r] < retries
     /\ tries' = [tries EXCEPT ![r] = @ + 1]
     /\ pc' = [pc EXCEPT ![r] = "try"]
  \/ /\ tries[r] = retries
     /\ pc' = [pc EXCEPT ![r] = "idle"]
     /\ UNCHANGED tries

Granted(r) ==
  /\ pc' = [pc EXCEPT ![r] = "held"]
  /\ lease' = [lease EXCEPT ![r] = TRUE]
  /\ UNCHANGED tries

Acquire(r) ==
  /\ pc[r] = "idle" /\ r \notin {holder, cached}
  /\ pc' = [pc EXCEPT ![r] = "try"]
  /\ tries' = [tries EXCEPT ![r] = 0]
  /\ UNCHANGED <<ready, holder, cached, lease, fallback>>

\* SET NX EX; the mutant does without NX.
SetIfFree(r) == TRUE
Free(r) == holder = None

SetNx(r) ==
  /\ pc[r] = "try" /\ ready
  /\ \/ Free(r) /\ holder' = r /\ Granted(r)
     \/ ~Free(r) /\ Refused(r) /\ UNCHANGED <<holder, lease>>
  /\ UNCHANGED <<ready, cached, fallback>>

\* The command fails, perhaps after it was carried out.  Each attempt has a token
\* of its own; only the one of the last attempt is followed.
SetLost(r) ==
  /\ pc[r] = "try" /\ ready /\ tries[r] = retries
  /\ holder' \in {holder, IF Free(r) THEN r ELSE holder}
  /\ Refused(r)
  /\ UNCHANGED <<ready, cached, lease, fallback>>

\* Not ready: a read that may be answered when the client is back, or fail.
Probe(r) ==
  /\ pc[r] = "try" /\ ~ready
  /\ pc' = [pc EXCEPT ![r] = "probe"]
  /\ UNCHANGED <<ready, holder, cached, tries, lease, fallback>>

Probed(r) ==
  /\ pc[r] = "probe"
  /\ \/ holder = None /\ pc' = [pc EXCEPT ![r] = "store"] /\ UNCHANGED tries
     \/ Refused(r)
  /\ UNCHANGED <<ready, holder, cached, lease, fallback>>

Store(r) ==
  /\ pc[r] = "store"
  /\ cached' = r /\ fallback' = TRUE
  /\ Granted(r)
  /\ UNCHANGED <<ready, holder>>

\* The owner check of the release script; the mutant leaves it out.
OwnsAny(r) == TRUE
Owns(r) == holder = r

End(r) ==
  /\ pc' = [pc EXCEPT ![r] = "idle"]
  /\ lease' = [lease EXCEPT ![r] = FALSE]
  /\ UNCHANGED tries

\* release, by the script or by a plain delete in the cache.
Release(r) ==
  /\ pc[r] = "held"
  /\ \/ ready /\ holder' = (IF Owns(r) THEN None ELSE holder) /\ UNCHANGED cached
     \/ ~ready /\ cached' = None /\ UNCHANGED holder
  /\ End(r)
  /\ UNCHANGED <<ready, fallback>>

\* extend: the TTL starts again, if the token is still there.
Extend(r) ==
  /\ pc[r] = "held"
  /\ \/ /\ ready /\ holder = r
        /\ lease' = [lease EXCEPT ![r] = TRUE]
        /\ UNCHANGED <<cached, fallback>>
     \/ /\ ~ready
        /\ cached' = r /\ fallback' = TRUE
        /\ lease' = [lease EXCEPT ![r] = TRUE]
  /\ UNCHANGED <<ready, holder, pc, tries>>

\* The process dies, or the release fails: the token stays until its TTL.
Abandon(r) ==
  /\ pc[r] # "idle"
  /\ End(r)
  /\ UNCHANGED <<ready, holder, cached, fallback>>

-----------------------------------------------------------------------------
KeyExpires ==
  /\ holder # None
  /\ holder' = None
  /\ lease' = [lease EXCEPT ![holder] = FALSE]
  /\ UNCHANGED <<ready, cached, pc, tries, fallback>>

CacheExpires ==
  /\ cached # None
  /\ cached' = None
  /\ lease' = [lease EXCEPT ![cached] = FALSE]
  /\ UNCHANGED <<ready, holder, pc, tries, fallback>>

ClientFlips ==
  /\ ready' = ~ready
  /\ UNCHANGED <<holder, cached, pc, tries, lease, fallback>>

Next ==
  \/ \E r \in Req :
       \/ Acquire(r) \/ SetNx(r) \/ SetLost(r) \/ Probe(r) \/ Probed(r) \/ Store(r)
       \/ Release(r) \/ Extend(r) \/ Abandon(r)
  \/ KeyExpires \/ CacheExpires \/ ClientFlips

Spec == Init /\ [][Next]_vars

-----------------------------------------------------------------------------
(* Properties *)

\* Mutual exclusion: of the callers that hold the lock within its TTL there is one
\* at most, although late holders release and extend, commands are lost and
\* processes die, unless a call has used the cache as a lock.
LeaseExclusive ==
  ~fallback =>
    \A r, q \in Req : lease[r] /\ lease[q] => r = q

\* Release and extend touch a lock of the caller only: the token in Redis goes when
\* its holder releases it or its TTL passes, and never changes hands directly.
OnlyOwnerReleases ==
  [][\A r \in Req :
       holder = r /\ holder' # r => holder' = None /\ ~lease'[r]]_vars
=============================================================================

----------------------------- MODULE AuditChain -----------------------------
(***************************************************************************)
(* The hash-chained audit log: audit.service.ts over withTransaction of    *)
(* infrastructure/mongo-transactions.ts.                                   *)
(*                                                                         *)
(* A hash is modelled collision-free: the hash of an entry is the sequence *)
(* of events from the root to it, and AUDIT_CHAIN_ROOT (also: no lastHash  *)
(* yet) is the empty sequence.  A transaction is one step: every writer    *)
(* updates the counter document first, so a concurrent one gets a write    *)
(* conflict and is run again by the driver on a later snapshot.            *)
(***************************************************************************)
EXTENDS Naturals, Sequences, TLC

CONSTANTS
  Writer,        \* concurrent calls of log
  Event,         \* audit events (eventType, ip, userId and metadata)
  Supported,     \* transactionsSupported at the start
  Switches,      \* how it changes: "up" (connected), "down" (reconnecting)
  Faults,        \* of "transient", "unknown", "error", "lost" (see below)
  MaxSequence    \* bound on the sequence at which calls start

ASSUME SupportedAssumption == Supported \in BOOLEAN
ASSUME SwitchesAssumption == Switches \subseteq {"up", "down"}
ASSUME FaultsAssumption == Faults \subseteq {"transient", "unknown", "error", "lost"}
ASSUME BoundAssumption == MaxSequence \in Nat

VARIABLES
  supported,  \* what transactionsSupported answers
  retention,  \* setRetentionDays was called
  seq,        \* the counter document audit-sequences: seq ...
  lastHash,   \* ... and lastHash
  log,        \* the collection of entries
  pc,         \* idle | tx | alloc | tail | insert
  attempt,    \* the attempt of withTransaction
  event,      \* what the call logs
  mySeq,      \* the sequence it was given
  myPrev,     \* the predecessor it has read
  bestEffort  \* history: a call has taken the best-effort path

store == <<seq, lastHash, log>>
env == <<supported, retention>>
frame == <<pc, attempt, event, mySeq, myPrev>>
vars == <<store, env, frame, bestEffort>>

ROOT == <<>>
maxAttempts == 3
Hash == Seq(Event)
chainHash(prev, e) == Append(prev, e)
HashOf(x) == chainHash(x.prev, x.event)

Entry == [sequence : Nat, prev : Hash, event : Event, ttl : BOOLEAN]

TypeOK ==
  /\ supported \in BOOLEAN /\ retention \in BOOLEAN
  /\ seq \in Nat /\ lastHash \in Hash
  /\ log \subseteq Entry
  /\ pc \in [Writer -> {"idle", "tx", "alloc", "tail", "insert"}]
  /\ attempt \in [Writer -> 1..maxAttempts]
  /\ event \in [Writer -> Event]
  /\ mySeq \in [Writer -> Nat]
  /\ myPrev \in [Writer -> Hash]
  /\ bestEffort \in BOOLEAN

Init ==
  /\ supported = Supported /\ retention = FALSE
  /\ seq = 0 /\ lastHash = ROOT
  /\ log = {}
  /\ pc = [w \in Writer |-> "idle"]
  /\ attempt = [w \in Writer |-> 1]
  /\ event \in [Writer -> Event]
  /\ mySeq = [w \in Writer |-> 0]
  /\ myPrev = [w \in Writer |-> ROOT]
  /\ bestEffort = FALSE

-----------------------------------------------------------------------------
\* findOne().sort({sequence: -1}): the hash of the last entry, if there is one.
TailHash == IF log = {} THEN ROOT
            ELSE HashOf(CHOOSE x \in log : \A y \in log : x.sequence >= y.sequence)

\* The predecessor of a transactional write; the mutant never has it.
TxPrevRoot == ROOT
TxPrev == IF lastHash # ROOT THEN lastHash ELSE TailHash

\* The sequence a best-effort write receives; the mutant takes the counter as
\* it was before the increment.
SequenceRead == seq
NextSequence == seq + 1

buildDoc(s, prev, e) ==
  [sequence |-> s, prev |-> prev, event |-> e, ttl |-> retention]

At(w, l) == pc' = [pc EXCEPT ![w] = l]

End(w) ==
  /\ At(w, "idle")
  /\ attempt' = [attempt EXCEPT ![w] = 1]
  /\ mySeq' = [mySeq EXCEPT ![w] = 0]
  /\ myPrev' = [myPrev EXCEPT ![w] = ROOT]
  /\ UNCHANGED event

\* log: the write goes through a transaction where the topology has them.
Log(w, e) ==
  /\ pc[w] = "idle"
  /\ seq < MaxSequence
  /\ event' = [event EXCEPT ![w] = e]
  /\ At(w, IF supported THEN "tx" ELSE "alloc")
  /\ bestEffort' = (bestEffort \/ ~supported)
  /\ UNCHANGED <<store, env, attempt, mySeq, myPrev>>

\* The body of writeEntry's transaction.
TxEffect(w) ==
  /\ seq' = seq + 1
  /\ log' = log \cup {buildDoc(seq + 1, TxPrev, event[w])}
  /\ lastHash' = chainHash(TxPrev, event[w])

TxCommit(w) ==
  /\ pc[w] = "tx"
  /\ TxEffect(w)
  /\ End(w)
  /\ UNCHANGED <<env, bestEffort>>

\* The mutant runs one attempt too many.
CanRetryOnceMore(w) == attempt[w] <= maxAttempts
CanRetry(w) == attempt[w] < maxAttempts

\* After a transient error withTransaction tries again, after the last attempt
\* it throws and log swallows the error.
Retry(w) ==
  \/ /\ CanRetry(w)
     /\ attempt' = [attempt EXCEPT ![w] = @ + 1]
     /\ UNCHANGED <<pc, event, mySeq, myPrev>>
  \/ ~CanRetry(w) /\ End(w)

TxTransient(w) ==
  /\ "transient" \in Faults
  /\ pc[w] = "tx"
  /\ Retry(w)
  /\ UNCHANGED <<store, env, bestEffort>>

\* The commit is applied and its answer lost (a network error: transient).
TxUnknown(w) ==
  /\ "unknown" \in Faults
  /\ pc[w] = "tx"
  /\ TxEffect(w)
  /\ Retry(w)
  /\ UNCHANGED <<env, bestEffort>>

\* Any other error is thrown, but on the last attempt it leads to work(null).
TxError(w) ==
  /\ "error" \in Faults
  /\ pc[w] = "tx"
  /\ \/ CanRetry(w) /\ End(w) /\ UNCHANGED bestEffort
     \/ /\ ~CanRetry(w)
        /\ At(w, "alloc")
        /\ bestEffort' = TRUE
        /\ UNCHANGED <<attempt, event, mySeq, myPrev>>
  /\ UNCHANGED <<store, env>>

-----------------------------------------------------------------------------
(* writeEntryBestEffort: three awaits, and lastHash stays as it is *)

GetNextSequence(w) ==
  /\ pc[w] = "alloc"
  /\ seq' = seq + 1
  /\ mySeq' = [mySeq EXCEPT ![w] = NextSequence]
  /\ At(w, "tail")
  /\ UNCHANGED <<lastHash, log, env, attempt, event, myPrev, bestEffort>>

\* A failed read of the tail falls back to the root.
ReadTail(w) ==
  /\ pc[w] = "tail"
  /\ \/ myPrev' = [myPrev EXCEPT ![w] = TailHash]
     \/ "lost" \in Faults /\ myPrev' = [myPrev EXCEPT ![w] = ROOT]
  /\ At(w, "insert")
  /\ UNCHANGED <<store, env, attempt, event, mySeq, bestEffort>>

\* The unique index on sequence refuses a duplicate; log swallows the error.
Insert(w) ==
  /\ pc[w] = "insert"
  /\ log' = IF \E x \in log : x.sequence = mySeq[w] THEN log
            ELSE log \cup {buildDoc(mySeq[w], myPrev[w], event[w])}
  /\ End(w)
  /\ UNCHANGED <<seq, lastHash, env, bestEffort>>

\* Another await of the best-effort path rejects, or the process dies.
Lose(w) ==
  /\ "lost" \in Faults
  /\ pc[w] # "idle"
  /\ End(w)
  /\ UNCHANGED <<store, env, bestEffort>>

-----------------------------------------------------------------------------
\* setRetentionDays marks the entries written from now on.
SetRetentionDays ==
  /\ retention' = TRUE
  /\ UNCHANGED <<store, frame, supported, bestEffort>>

\* The TTL index removes a marked entry; the window may have been shortened, so
\* a later entry can go before an earlier one.
TtlDelete(x) ==
  /\ x.ttl
  /\ log' = log \ {x}
  /\ UNCHANGED <<seq, lastHash, env, frame, bestEffort>>

\* The connection leaves or reaches readyState 1 on a replica set.
SwitchTopology ==
  /\ (IF supported THEN "down" ELSE "up") \in Switches
  /\ supported' = ~supported
  /\ UNCHANGED <<store, frame, retention, bestEffort>>

Continue(w) ==
  \/ TxCommit(w) \/ TxTransient(w) \/ TxUnknown(w) \/ TxError(w)
  \/ GetNextSequence(w) \/ ReadTail(w) \/ Insert(w)

Next ==
  \/ \E w \in Writer : Continue(w) \/ Lose(w) \/ \E e \in Event : Log(w, e)
  \/ \E x \in log : TtlDelete(x)
  \/ SetRetentionDays
  \/ SwitchTopology

Spec == Init /\ [][Next]_vars

-----------------------------------------------------------------------------
(* Properties *)

\* A sequence belongs to one entry.
OnePerSequence == \A x, y \in log : x.sequence = y.sequence => x = y

\* Whatever path the writers take, no two entries ever carry the same sequence
\* although best-effort writers insert long after they were given theirs, and the
\* unique index never has to refuse one.
NoSequenceReuse ==
  /\ OnePerSequence
  /\ \A w \in Writer :
       pc[w] \in {"tail", "insert"} =>
         /\ \A x \in log : x.sequence # mySeq[w]
         /\ \A v \in Writer \ {w} :
              pc[v] \in {"tail", "insert"} => mySeq[v] # mySeq[w]

\* Writers never share a sequence, on whichever path they write and however often they
\* try; the variables keep their types.
SequencesApart == TypeOK /\ NoSequenceReuse

\* The chain is strict: as long as every write has gone through a transaction,
\* no two entries share a predecessor and an entry holds the hash of the one with
\* the sequence before it, with any number of writers, retries, commits whose
\* answer was lost and expired entries.
NoFork == \A x, y \in log : x.prev = y.prev => x = y

Linked == \A x, y \in log : y.sequence = x.sequence + 1 => y.prev = HashOf(x)

OneChain == ~bestEffort => NoFork /\ Linked

\* For TLC: calls are interchangeable, and so are the events.
Symmetry == Permutations(Writer) \cup Permutations(Event)
=============================================================================

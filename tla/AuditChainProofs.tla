-------------------------- MODULE AuditChainProofs --------------------------
(***************************************************************************)
(* Proofs about AuditChain: until a write takes the best-effort path the   *)
(* audit log is one chain, for any number of writers, events, retries,     *)
(* repeated commits, failed transactions and topology changes; and on      *)
(* either path no two writes share a sequence.                             *)
(***************************************************************************)
EXTENDS AuditChain, WellFoundedInduction, TLAPS

\* No call is on the best-effort path.
NoBestEffort == \A w \in Writer : pc[w] \in {"idle", "tx"}

\* The length of every hash follows the sequence ...
ChainLength ==
  /\ Len(lastHash) = seq
  /\ \A x \in log : x.sequence \in 1..seq /\ Len(x.prev) = x.sequence - 1

\* ... (with OnePerSequence) and the counter holds the hash of the last one.
TipIsLast == \A x \in log : x.sequence = seq => HashOf(x) = lastHash

Strict == /\ TypeOK /\ NoBestEffort /\ ChainLength /\ OnePerSequence
          /\ TipIsLast /\ Linked

IInv == ~bestEffort => Strict

-----------------------------------------------------------------------------
\* A hash with an event appended is a hash, one longer.
LEMMA ChainHashType ==
  ASSUME NEW h \in Hash, NEW e \in Event
  PROVE  /\ chainHash(h, e) \in Hash
         /\ Len(chainHash(h, e)) = Len(h) + 1
BY DEF Hash, chainHash

\* The predecessor a transaction reads is always the counter's tip.
LEMMA TxPrevIsTip ==
  ASSUME Strict
  PROVE  TxPrev = lastHash
<1>1. CASE lastHash # ROOT
  BY <1>1 DEF TxPrev
<1>2. CASE lastHash = ROOT
  <2>1. seq = 0
    BY <1>2 DEF Strict, ChainLength, ROOT
  <2>2. log = {}
    BY <2>1 DEF Strict, ChainLength
  <2> QED
    BY <1>2, <2>2 DEF TxPrev, TailHash
<1> QED
  BY <1>1, <1>2

\* What a committed transaction does to the store keeps it one chain.
LEMMA TxEffectChain ==
  ASSUME Strict, NEW w \in Writer, TxEffect(w)
  PROVE  /\ seq' \in Nat /\ lastHash' \in Hash /\ log' \subseteq Entry
         /\ ChainLength' /\ OnePerSequence' /\ TipIsLast' /\ Linked'
<1> DEFINE new == buildDoc(seq + 1, lastHash, event[w])
<1>1. /\ seq' = seq + 1
      /\ log' = log \cup {new}
      /\ lastHash' = chainHash(lastHash, event[w])
  BY TxPrevIsTip DEF TxEffect
<1>2. /\ seq \in Nat /\ lastHash \in Hash /\ event[w] \in Event
      /\ retention \in BOOLEAN /\ log \subseteq Entry
  BY DEF Strict, TypeOK
<1>3. /\ new \in Entry /\ new.sequence = seq + 1 /\ new.prev = lastHash
      /\ HashOf(new) = lastHash'
  BY <1>1, <1>2 DEF buildDoc, Entry, HashOf
<1> HIDE DEF new
<1>4. lastHash' \in Hash /\ Len(lastHash') = seq + 1
  BY <1>1, <1>2, ChainHashType DEF Strict, ChainLength
<1>5. \A x \in log : x.sequence \in 1..seq /\ Len(x.prev) = x.sequence - 1
  BY DEF Strict, ChainLength
<1>6. ChainLength'
  <2>1. Len(new.prev) = new.sequence - 1 /\ new.sequence \in 1..(seq + 1)
    BY <1>2, <1>3 DEF Strict, ChainLength
  <2> QED
    BY <1>1, <1>2, <1>4, <1>5, <2>1 DEF ChainLength
<1>7. OnePerSequence'
  BY <1>1, <1>2, <1>3, <1>5 DEF OnePerSequence, Strict
<1>8. TipIsLast'
  <2> SUFFICES ASSUME NEW x \in log', x.sequence = seq'
               PROVE  HashOf(x) = lastHash'
    BY DEF TipIsLast, HashOf, chainHash
  <2> QED
    BY <1>1, <1>2, <1>3, <1>5
<1>9. Linked'
  <2> SUFFICES ASSUME NEW x \in log', NEW y \in log', y.sequence = x.sequence + 1
               PROVE  y.prev = HashOf(x)
    BY DEF Linked, HashOf, chainHash
  <2>1. CASE y = new
    <3>1. x.sequence = seq
      BY <1>1, <1>2, <1>3, <1>5, <2>1 DEF Entry
    <3>2. x \in log
      BY <1>1, <1>2, <1>3, <3>1
    <3> QED
      BY <1>3, <2>1, <3>1, <3>2 DEF Strict, TipIsLast
  <2>2. CASE y \in log
    <3>1. x \in log
      BY <1>1, <1>2, <1>3, <1>5, <2>2
    <3> QED
      BY <2>2, <3>1 DEF Strict, Linked
  <2> QED
    BY <1>1, <2>1, <2>2
<1> QED
  BY <1>1, <1>2, <1>3, <1>4, <1>6, <1>7, <1>8, <1>9

\* The end of a call keeps the frames well-typed.
LEMMA FrameEnd ==
  ASSUME Strict, NEW w \in Writer, End(w)
  PROVE  /\ pc' \in [Writer -> {"idle", "tx", "alloc", "tail", "insert"}]
         /\ \A v \in Writer : pc'[v] \in {"idle", "tx"}
         /\ attempt' \in [Writer -> 1..maxAttempts]
         /\ event' \in [Writer -> Event]
         /\ mySeq' \in [Writer -> Nat]
         /\ myPrev' \in [Writer -> Hash]
BY DEF Strict, TypeOK, NoBestEffort, End, At, maxAttempts, Hash, ROOT

\* A transaction that is tried again, or ends, keeps the frames of the calls well formed.
LEMMA FrameRetry ==
  ASSUME Strict, NEW w \in Writer, pc[w] = "tx", Retry(w)
  PROVE  /\ pc' \in [Writer -> {"idle", "tx", "alloc", "tail", "insert"}]
         /\ \A v \in Writer : pc'[v] \in {"idle", "tx"}
         /\ attempt' \in [Writer -> 1..maxAttempts]
         /\ event' \in [Writer -> Event]
         /\ mySeq' \in [Writer -> Nat]
         /\ myPrev' \in [Writer -> Hash]
<1>1. CASE End(w)
  BY <1>1, FrameEnd
<1>2. CASE /\ CanRetry(w)
           /\ attempt' = [attempt EXCEPT ![w] = @ + 1]
           /\ UNCHANGED <<pc, event, mySeq, myPrev>>
  BY <1>2 DEF Strict, TypeOK, NoBestEffort, CanRetry, maxAttempts
<1> QED
  BY <1>1, <1>2 DEF Retry

\* The store unchanged keeps what is said about it.
LEMMA StoreUnchanged ==
  ASSUME Strict, UNCHANGED store
  PROVE  ChainLength' /\ OnePerSequence' /\ TipIsLast' /\ Linked'
BY DEF Strict, store, ChainLength, OnePerSequence, TipIsLast, Linked, HashOf, chainHash

-----------------------------------------------------------------------------
\* The empty log is a chain.
LEMMA InitStrict ==
  ASSUME Init
  PROVE  Strict
<1>1. ROOT \in Hash /\ Len(ROOT) = 0
  BY DEF ROOT, Hash
<1>2. TypeOK
  <2>1. supported \in BOOLEAN /\ retention \in BOOLEAN /\ bestEffort \in BOOLEAN
    BY SupportedAssumption DEF Init
  <2>2. /\ seq \in Nat /\ lastHash \in Hash /\ log \subseteq Entry
        /\ pc \in [Writer -> {"idle", "tx", "alloc", "tail", "insert"}]
        /\ attempt \in [Writer -> 1..maxAttempts]
        /\ event \in [Writer -> Event]
        /\ mySeq \in [Writer -> Nat]
    BY <1>1 DEF Init, maxAttempts
  <2>3. myPrev \in [Writer -> Hash]
    BY <1>1 DEF Init
  <2> QED
    BY <2>1, <2>2, <2>3 DEF TypeOK
<1>3. NoBestEffort
  BY DEF Init, NoBestEffort
<1>4. ChainLength /\ OnePerSequence /\ TipIsLast /\ Linked
  BY <1>1 DEF Init, ChainLength, OnePerSequence, TipIsLast, Linked
<1> QED
  BY <1>2, <1>3, <1>4 DEF Strict

\* A step that leaves everybody off the best-effort path keeps the chain strict.
LEMMA NextStrict ==
  ASSUME Strict, ~bestEffort, ~bestEffort', [Next]_vars
  PROVE  Strict'
<1>1. ASSUME NEW w \in Writer, TxCommit(w)
      PROVE  Strict'
  BY <1>1, TxEffectChain, FrameEnd DEF TxCommit, env, Strict, TypeOK, NoBestEffort
<1>2. ASSUME NEW w \in Writer, TxTransient(w)
      PROVE  Strict'
  BY <1>2, FrameRetry, StoreUnchanged DEF TxTransient, env, store, Strict, TypeOK, NoBestEffort
<1>3. ASSUME NEW w \in Writer, TxUnknown(w)
      PROVE  Strict'
  BY <1>3, TxEffectChain, FrameRetry DEF TxUnknown, env, Strict, TypeOK, NoBestEffort
<1>4. ASSUME NEW w \in Writer, TxError(w)
      PROVE  Strict'
  <2>1. End(w) /\ UNCHANGED <<store, env, bestEffort>>
    BY <1>4 DEF TxError
  <2> QED
    BY <2>1, FrameEnd, StoreUnchanged DEF env, store, Strict, TypeOK, NoBestEffort
<1>5. ASSUME NEW w \in Writer, Lose(w)
      PROVE  Strict'
  BY <1>5, FrameEnd, StoreUnchanged DEF Lose, env, store, Strict, TypeOK, NoBestEffort
<1>6. ASSUME NEW w \in Writer, NEW e \in Event, Log(w, e)
      PROVE  Strict'
  <2>1. supported
    BY <1>6 DEF Log
  <2> QED
    BY <1>6, <2>1, StoreUnchanged DEF Log, At, env, store, Strict, TypeOK, NoBestEffort
<1>7. ASSUME NEW x \in log, TtlDelete(x)
      PROVE  Strict'
  <2>1. /\ log' \subseteq log
        /\ UNCHANGED <<seq, lastHash, supported, retention, pc, attempt, event,
                       mySeq, myPrev, bestEffort>>
    BY <1>7 DEF TtlDelete, env, frame
  <2>2. TypeOK' /\ NoBestEffort'
    BY <2>1 DEF Strict, TypeOK, NoBestEffort
  <2>3. ChainLength' /\ OnePerSequence' /\ TipIsLast' /\ Linked'
    BY <2>1 DEF Strict, ChainLength, OnePerSequence, TipIsLast, Linked, HashOf, chainHash
  <2> QED
    BY <2>2, <2>3 DEF Strict
<1>8. CASE SetRetentionDays
  BY <1>8, StoreUnchanged DEF SetRetentionDays, frame, store, Strict, TypeOK, NoBestEffort
<1>9. CASE SwitchTopology
  BY <1>9, StoreUnchanged DEF SwitchTopology, frame, store, Strict, TypeOK, NoBestEffort
<1>10. CASE UNCHANGED vars
  BY <1>10, StoreUnchanged DEF vars, frame, env, store, Strict, TypeOK, NoBestEffort
<1>11. \A w \in Writer : ~GetNextSequence(w) /\ ~ReadTail(w) /\ ~Insert(w)
  BY DEF GetNextSequence, ReadTail, Insert, Strict, NoBestEffort
<1> QED
  BY <1>1, <1>2, <1>3, <1>4, <1>5, <1>6, <1>7, <1>8, <1>9, <1>10, <1>11 DEF Next, Continue

\* Once a call has taken the best-effort path the history flag stays.
LEMMA BestEffortStays ==
  ASSUME bestEffort, [Next]_vars
  PROVE  bestEffort'
BY DEF Next, vars, Continue, TxCommit, TxTransient, TxUnknown, TxError, Lose, Log,
       GetNextSequence, ReadTail, Insert, TtlDelete, SetRetentionDays, SwitchTopology

\* The chain is strict on a replica set: with concurrent writers, retried
\* transactions, commits whose answer was lost, reconnects and expired entries,
\* no two entries share a predecessor and adjacent ones are linked, until a write
\* takes the best-effort path.
THEOREM StrictChain == Spec => []OneChain
<1>1. Init => IInv
  BY InitStrict DEF IInv
<1>2. IInv /\ [Next]_vars => IInv'
  BY NextStrict, BestEffortStays DEF IInv
<1>3. IInv => OneChain
  <2> SUFFICES ASSUME IInv, ~bestEffort
               PROVE  NoFork /\ Linked
    BY DEF OneChain
  <2>1. Strict
    BY DEF IInv
  <2>2. ASSUME NEW x \in log, NEW y \in log, x.prev = y.prev
        PROVE  x = y
    BY <2>1, <2>2 DEF Strict, ChainLength, OnePerSequence
  <2> QED
    BY <2>1, <2>2 DEF NoFork, Strict
<1> QED
  BY <1>1, <1>2, <1>3, PTL DEF Spec
-----------------------------------------------------------------------------
(***************************************************************************)
(* On both paths.  The counter is ahead of every sequence that an entry or *)
(* a call has, and each of them has its own.                               *)
(***************************************************************************)
Numbered == {"tail", "insert"}

CounterAhead ==
  /\ \A x \in log : x.sequence <= seq
  /\ \A w \in Writer : pc[w] \in Numbered => mySeq[w] <= seq

SInv == TypeOK /\ CounterAhead /\ NoSequenceReuse

\* A bounded set of naturals that has an element has a greatest one.
LEMMA Greatest ==
  ASSUME NEW S \in SUBSET Nat, S # {}, NEW n \in Nat, \A s \in S : s <= n
  PROVE  \E m \in S : \A k \in S : k <= m
<1> DEFINE T == {n - s : s \in S}
<1>1. T \subseteq Nat
  <2>1. \A s \in S : n - s \in Nat
    OBVIOUS
  <2>2. QED
    BY <2>1
<1>0. T # {}
  <2>1. PICK s \in S : TRUE
    OBVIOUS
  <2>2. n - s \in T
    OBVIOUS
  <2>3. QED
    BY <2>2
<1> HIDE DEF T
<1>2. PICK d \in T : \A e \in T : ~(<<e, d>> \in OpToRel(<, Nat))
  BY <1>0, <1>1, WFMin, NatLessThanWellFounded, Zenon
<1>3. \A e \in T : ~(e < d)
  BY <1>1, <1>2, Zenon DEF OpToRel
<1>4. PICK m \in S : d = n - m
  BY DEF T
<1>5. \A k \in S : ~(n - k < n - m)
  BY <1>3, <1>4 DEF T
<1>6. QED
  BY <1>5

\* The read of the tail finds a hash.
LEMMA TailHashType ==
  ASSUME SInv
  PROVE  TailHash \in Hash /\ TxPrev \in Hash
<1>1. ROOT \in Hash /\ lastHash \in Hash
  BY DEF ROOT, Hash, SInv, TypeOK
<1>2. ASSUME log # {}
      PROVE  TailHash \in Hash
  <2>1. PICK m \in {x.sequence : x \in log} : \A k \in {x.sequence : x \in log} : k <= m
    <3>1. {x.sequence : x \in log} \in SUBSET Nat
      BY DEF SInv, TypeOK, Entry
    <3>2. {x.sequence : x \in log} # {}
      BY <1>2
    <3>3. seq \in Nat /\ \A k \in {x.sequence : x \in log} : k <= seq
      BY DEF SInv, TypeOK, CounterAhead
    <3>4. QED
      BY <3>1, <3>2, <3>3, Greatest
  <2>2. PICK x \in log : m = x.sequence
    BY <2>1
  <2>3. \A y \in log : y.sequence \in Nat
    BY DEF SInv, TypeOK, Entry
  <2>4. \A y \in log : x.sequence >= y.sequence
    BY <2>1, <2>2, <2>3
  <2> DEFINE last == CHOOSE z \in log : \A y \in log : z.sequence >= y.sequence
  <2>5. last \in log
    BY <2>2, <2>4
  <2> HIDE DEF last
  <2>6. last.prev \in Hash /\ last.event \in Event
    BY <2>5 DEF SInv, TypeOK, Entry
  <2>7. HashOf(last) \in Hash
    BY <2>6, ChainHashType DEF HashOf
  <2>8. TailHash = HashOf(last)
    BY <1>2 DEF TailHash, last
  <2>9. QED
    BY <2>7, <2>8
<1>3. QED
  BY <1>1, <1>2 DEF TailHash, TxPrev

\* No sequence is allocated at the start.
LEMMA InitApart == Init => SInv
<1> SUFFICES ASSUME Init
             PROVE  SInv
  OBVIOUS
<1>1. TypeOK
  BY InitStrict DEF Strict
<1>2. QED
  BY <1>1 DEF SInv, Init, CounterAhead, NoSequenceReuse, OnePerSequence, Numbered

\* The new entry of a transaction has the next sequence, which is nobody's.
LEMMA TxEffectApart ==
  ASSUME SInv, NEW w \in Writer, TxEffect(w)
  PROVE  /\ seq' = seq + 1 /\ lastHash' \in Hash /\ log' \subseteq Entry
         /\ \E new \in Entry : new.sequence = seq + 1 /\ log' = log \cup {new}
<1> DEFINE new == buildDoc(seq + 1, TxPrev, event[w])
<1>1. /\ seq \in Nat /\ event[w] \in Event /\ retention \in BOOLEAN /\ log \subseteq Entry
  BY DEF SInv, TypeOK
<1>2. new \in Entry /\ new.sequence = seq + 1
  BY <1>1, TailHashType DEF buildDoc, Entry
<1>3. lastHash' \in Hash
  BY <1>1, TailHashType, ChainHashType DEF TxEffect
<1>4. QED
  BY <1>1, <1>2, <1>3 DEF TxEffect

\* A call that ends or tries again gives up no sequence that counts.
LEMMA FrameApart ==
  ASSUME SInv, NEW w \in Writer, End(w) \/ (pc[w] = "tx" /\ Retry(w))
  PROVE  /\ pc' \in [Writer -> {"idle", "tx", "alloc", "tail", "insert"}]
         /\ attempt' \in [Writer -> 1..maxAttempts]
         /\ event' \in [Writer -> Event]
         /\ mySeq' \in [Writer -> Nat]
         /\ myPrev' \in [Writer -> Hash]
         /\ pc'[w] \notin Numbered
         /\ \A v \in Writer \ {w} : pc'[v] = pc[v] /\ mySeq'[v] = mySeq[v]
<1>1. CASE End(w)
  <2>1. ROOT \in Hash
    BY DEF ROOT, Hash
  <2>2. QED
    BY <1>1, <2>1 DEF SInv, TypeOK, End, At, maxAttempts, Numbered
<1>2. CASE /\ pc[w] = "tx" /\ CanRetry(w)
           /\ attempt' = [attempt EXCEPT ![w] = @ + 1]
           /\ UNCHANGED <<pc, event, mySeq, myPrev>>
  BY <1>2 DEF SInv, TypeOK, CanRetry, maxAttempts, Numbered
<1>3. QED
  BY <1>1, <1>2 DEF Retry

\* Every step keeps the sequences of entries and of writers apart.
LEMMA NextApart == SInv /\ [Next]_vars => SInv'
<1> SUFFICES ASSUME SInv, [Next]_vars
             PROVE  SInv'
  OBVIOUS
<1> USE DEF SInv, TypeOK, CounterAhead, NoSequenceReuse, OnePerSequence, Numbered, store,
            env, frame
<1>1. ASSUME NEW w \in Writer, TxCommit(w) \/ TxUnknown(w)
      PROVE  SInv'
  <2>1. /\ TxEffect(w) /\ UNCHANGED <<env, bestEffort>>
        /\ End(w) \/ (pc[w] = "tx" /\ Retry(w))
    BY <1>1 DEF TxCommit, TxUnknown
  <2>2. PICK new \in Entry : new.sequence = seq + 1 /\ log' = log \cup {new}
    BY <2>1, TxEffectApart
  <2>3. seq' = seq + 1 /\ lastHash' \in Hash /\ log' \subseteq Entry
    BY <2>1, TxEffectApart
  <2>4. TypeOK'
    BY <2>1, <2>3, FrameApart
  <2>5. CounterAhead'
    BY <2>1, <2>2, <2>3, FrameApart DEF Entry
  <2>6. OnePerSequence'
    BY <2>2 DEF Entry
  <2>7. NoSequenceReuse'
    BY <2>1, <2>2, <2>6, FrameApart
  <2>8. QED
    BY <2>4, <2>5, <2>7
<1>2. ASSUME NEW w \in Writer,
             TxTransient(w) \/ Lose(w) \/ (TxError(w) /\ End(w))
      PROVE  SInv'
  <2>1. /\ UNCHANGED <<store, env, bestEffort>>
        /\ End(w) \/ (pc[w] = "tx" /\ Retry(w))
    BY <1>2 DEF TxTransient, Lose, TxError, End, At
  <2>2. QED
    BY <2>1, FrameApart
<1>3. ASSUME NEW w \in Writer, TxError(w), ~End(w)
      PROVE  SInv'
  BY <1>3 DEF TxError, At
<1>4. ASSUME NEW w \in Writer, GetNextSequence(w)
      PROVE  SInv'
  <2>1. /\ seq' = seq + 1 /\ mySeq' = [mySeq EXCEPT ![w] = seq + 1]
        /\ pc[w] = "alloc" /\ pc' = [pc EXCEPT ![w] = "tail"]
        /\ UNCHANGED <<lastHash, log, env, attempt, event, myPrev, bestEffort>>
    BY <1>4 DEF GetNextSequence, NextSequence, At
  <2>2. TypeOK' /\ CounterAhead'
    BY <2>1 DEF Entry
  <2>3. NoSequenceReuse'
    BY <2>1 DEF Entry
  <2>4. QED
    BY <2>2, <2>3
<1>5. ASSUME NEW w \in Writer, ReadTail(w)
      PROVE  SInv'
  <2>1. ROOT \in Hash
    BY DEF ROOT, Hash
  <2>2. QED
    BY <1>5, <2>1, TailHashType DEF ReadTail, At
<1>6. ASSUME NEW w \in Writer, Insert(w)
      PROVE  SInv'
  <2>1. buildDoc(mySeq[w], myPrev[w], event[w]) \in Entry
        /\ buildDoc(mySeq[w], myPrev[w], event[w]).sequence = mySeq[w]
    BY DEF buildDoc, Entry
  <2>2. log' = log \cup {buildDoc(mySeq[w], myPrev[w], event[w])}
    BY <1>6 DEF Insert
  <2>3. End(w) /\ pc[w] = "insert" /\ UNCHANGED <<seq, lastHash, env, bestEffort>>
    BY <1>6 DEF Insert
  <2>4. QED
    BY <2>1, <2>2, <2>3, FrameApart
<1>7. ASSUME NEW w \in Writer, NEW e \in Event, Log(w, e)
      PROVE  SInv'
  BY <1>7 DEF Log, At
<1>8. ASSUME NEW x \in log, TtlDelete(x)
      PROVE  SInv'
  BY <1>8 DEF TtlDelete
<1>9. CASE SetRetentionDays \/ SwitchTopology \/ UNCHANGED vars
  BY <1>9, ZenonT(30) DEF SetRetentionDays, SwitchTopology, vars
<1>10. QED
  BY <1>1, <1>2, <1>3, <1>4, <1>5, <1>6, <1>7, <1>8, <1>9 DEF Next, Continue

\* On both write paths, with any number of writers, retries, lost answers, fallbacks,
\* reconnects and expired entries, no two entries carry the same sequence, and none is
\* given to two calls: the unique index never has to refuse a write.
THEOREM SequencesStayApart == Spec => []SequencesApart
<1>1. SInv => SequencesApart
  BY DEF SInv, SequencesApart
<1>2. QED
  BY <1>1, InitApart, NextApart, PTL DEF Spec
=============================================================================

--------------------------- MODULE BackupRestore ---------------------------
(***************************************************************************)
(* The backup, verify and restore scripts on a store that is in use.  A    *)
(* backup dumps one collection after the other into a directory in plain   *)
(* text, packs it into an archive and copies that to latest; a restore     *)
(* unpacks an archive into an isolated store, inserts the documents,       *)
(* creates the indexes and checks them.  A process may end between any two *)
(* steps and in the middle of a write, and the backup key may change.      *)
(***************************************************************************)
EXTENDS Naturals

CONSTANTS
  Run,        \* backup runs
  Coll,       \* collections of the store
  Key,        \* backup keys, and NoKey for PEZHWAN_BACKUP_KEY_SKIP
  NoKey,
  MaxWrites   \* bound: changes of the store

VARIABLES
  db,        \* db[c]: how often collection c has changed, from 1
  env,       \* the key the scripts are given now
  step,      \* step[r]: where backup run r stands
  dumped,    \* dumped[r][c]: the version of c in its directory, 0 when not there yet
  dir,       \* runs whose directory is on disk
  archive,   \* archive[r]: [state, key]; "none", "partial" or "whole"
  latest,    \* [run, state]: what latest.pzbu holds
  began, ended,    \* versions of the store when a run began and ended its dump
  task,      \* "none", or what reads an archive: "restore" or "verify"
  stage,     \* where it stands
  source,    \* the run whose archive it reads
  unpacked,  \* whether its own directory is on disk
  target,    \* target[c]: version of c in the isolated store, 0 for none
  indexes,   \* collections of the isolated store with their indexes
  report     \* "none", "ok" or "failed"

vars == <<db, env, step, dumped, dir, archive, latest, began, ended, task, stage, source,
          unpacked, target, indexes, report>>

storeVars == <<db, env>>
backupVars == <<step, dumped, dir, archive, latest, began, ended>>
restoreVars == <<task, stage, source, unpacked, target, indexes, report>>

-----------------------------------------------------------------------------

Zero == [c \in Coll |-> 0]

Init ==
  /\ db = [c \in Coll |-> 1] /\ env \in Key
  /\ step = [r \in Run |-> "idle"] /\ dumped = [r \in Run |-> Zero] /\ dir = {}
  /\ archive = [r \in Run |-> [state |-> "none", key |-> NoKey]]
  /\ latest = [run |-> NoKey, state |-> "none"]
  /\ began = [r \in Run |-> Zero] /\ ended = [r \in Run |-> Zero]
  /\ task = "none" /\ stage = "idle" /\ source = NoKey /\ unpacked = FALSE
  /\ target = Zero /\ indexes = {} /\ report = "none"

\* The identity server goes on writing.
Write(c) ==
  /\ db[c] <= MaxWrites
  /\ db' = [db EXCEPT ![c] = @ + 1]
  /\ UNCHANGED <<env, backupVars, restoreVars>>

\* Another PEZHWAN_BACKUP_KEY for the scripts that start from now on.
NewKey(k) ==
  /\ k # env /\ env' = k
  /\ \A r \in Run : step[r] \in {"idle", "done", "failed", "crashed"}
  /\ UNCHANGED <<db, backupVars, restoreVars>>

-----------------------------------------------------------------------------
(* runBackup *)

Begin(r) ==
  /\ step[r] = "idle"
  /\ step' = [step EXCEPT ![r] = "dump"] /\ dir' = dir \cup {r}
  /\ began' = [began EXCEPT ![r] = db]
  /\ UNCHANGED <<storeVars, dumped, archive, latest, ended, restoreVars>>

\* logicalDump: find and indexes of one collection, and its file.
Dump(r, c) ==
  /\ step[r] = "dump" /\ dumped[r][c] = 0
  /\ dumped' = [dumped EXCEPT ![r][c] = db[c]]
  /\ UNCHANGED <<storeVars, step, dir, archive, latest, began, ended, restoreVars>>

\* The manifest is written last.
Manifest(r) ==
  /\ step[r] = "dump" /\ \A c \in Coll : dumped[r][c] # 0
  /\ step' = [step EXCEPT ![r] = "package"]
  /\ ended' = [ended EXCEPT ![r] = db]
  /\ UNCHANGED <<storeVars, dumped, dir, archive, latest, began, restoreVars>>

\* packageBackup writes the archive, in more than one piece.
Package(r) ==
  /\ step[r] = "package" /\ archive[r].state # "whole"
  /\ archive' = [archive EXCEPT ![r] =
       [state |-> IF archive[r].state = "none" THEN "partial" ELSE "whole", key |-> env]]
  /\ step' = [step EXCEPT ![r] = IF archive[r].state = "none" THEN "package" ELSE "copy"]
  /\ UNCHANGED <<storeVars, dumped, dir, latest, began, ended, restoreVars>>

\* copyFile onto latest.pzbu: the bytes of two copies at the same time mix.
Overlap(r) == \E q \in Run \ {r} : step[q] = "copying"

Copy(r) ==
  /\ step[r] \in {"copy", "copying"}
  /\ IF step[r] = "copy"
     THEN /\ latest' = [run |-> r, state |-> IF Overlap(r) THEN "mixed" ELSE "partial"]
          /\ step' = [step EXCEPT ![r] = "copying"]
     ELSE /\ latest' = IF latest = [run |-> r, state |-> "partial"]
                       THEN [latest EXCEPT !.state = "whole"] ELSE latest
          /\ step' = [step EXCEPT ![r] = "clean"]
  /\ UNCHANGED <<storeVars, dumped, dir, archive, began, ended, restoreVars>>

\* Anything may throw, the copy included.
Throw(r) ==
  /\ step[r] \in {"dump", "package", "copy", "copying"}
  /\ step' = [step EXCEPT ![r] = "unwind"]
  /\ UNCHANGED <<storeVars, dumped, dir, archive, latest, began, ended, restoreVars>>

\* Mutant: the directory goes only when the backup went through.
CleanOnSuccess(r) == IF step[r] = "clean" THEN dir \ {r} ELSE dir

\* finally: the directory is removed whatever happened.
Cleaned(r) == dir \ {r}

End(r) ==
  /\ step[r] \in {"clean", "unwind"}
  /\ dir' = Cleaned(r)
  /\ step' = [step EXCEPT ![r] = IF step[r] = "clean" THEN "done" ELSE "failed"]
  /\ UNCHANGED <<storeVars, dumped, archive, latest, began, ended, restoreVars>>

Crash(r) ==
  /\ step[r] \notin {"idle", "done", "failed", "crashed"}
  /\ step' = [step EXCEPT ![r] = "crashed"]
  /\ UNCHANGED <<storeVars, dumped, dir, archive, latest, began, ended, restoreVars>>

-----------------------------------------------------------------------------
(* verify-backup and runRestore *)

\* The archive of a run, or latest.
Read(t, r) ==
  /\ stage = "idle" /\ archive[r].state # "none"
  /\ task' = t /\ source' = r /\ stage' = "unpack" /\ unpacked' = TRUE
  /\ target' = Zero /\ indexes' = {} /\ report' = "none"
  /\ UNCHANGED <<storeVars, backupVars>>

ReadLatest(t) ==
  /\ stage = "idle" /\ latest.run # NoKey
  /\ task' = t /\ source' = latest.run /\ unpacked' = TRUE
  /\ stage' = IF latest.state = "whole" THEN "unpack" ELSE "refused"
  /\ target' = Zero /\ indexes' = {} /\ report' = "none"
  /\ UNCHANGED <<storeVars, backupVars>>

\* Mutant: what could be read of the payload is taken.
AnyArchive(r) == archive[r].state # "none"

\* unpackageBackup: an encrypted payload needs its key and its tag, a plain one has
\* the checksum of gzip; a key given for a plain archive is not used.
Opens(r) == archive[r].state = "whole" /\ archive[r].key \in {NoKey, env}

Unpack ==
  /\ stage = "unpack"
  /\ stage' = IF Opens(source) THEN (IF task = "verify" THEN "verified" ELSE "insert") ELSE "refused"
  /\ UNCHANGED <<storeVars, backupVars, task, source, unpacked, target, indexes, report>>

\* What the archive holds of a collection: of a partial one, something less.
Holds(r, c) == IF archive[r].state = "whole" THEN dumped[r][c] ELSE 0

\* logicalRestore: the documents of all collections, then the indexes of all.
Insert(c) ==
  /\ stage = "insert" /\ target[c] = 0
  /\ target' = [target EXCEPT ![c] = Holds(source, c)]
  /\ stage' = IF \A x \in Coll \ {c} : target[x] # 0 THEN "index" ELSE stage
  /\ UNCHANGED <<storeVars, backupVars, task, source, unpacked, indexes, report>>

Index(c) ==
  /\ stage = "index" /\ c \notin indexes
  /\ indexes' = indexes \cup {c}
  /\ UNCHANGED <<storeVars, backupVars, task, stage, source, unpacked, target, report>>

\* Mutant: the indexes are not waited for.
NoIndexNeeded == TRUE

Indexed == indexes = Coll

\* verifyIndexes and the report.
Check ==
  /\ \/ stage = "index" /\ Indexed
     \/ stage = "verified"
  /\ report' = "ok" /\ stage' = "close"
  /\ UNCHANGED <<storeVars, backupVars, task, source, unpacked, target, indexes>>

\* Any step may throw.
Refuse ==
  /\ stage \in {"refused", "insert", "index"}
  /\ report' = "failed" /\ stage' = "close"
  /\ UNCHANGED <<storeVars, backupVars, task, source, unpacked, target, indexes>>

\* A verification that fails exits before its directory is removed.
Close ==
  /\ stage = "close"
  /\ stage' = "idle" /\ unpacked' = (task = "verify" /\ report = "failed")
  /\ UNCHANGED <<storeVars, backupVars, task, source, target, indexes, report>>

Next ==
  \/ \E c \in Coll : Write(c) \/ Insert(c) \/ Index(c)
  \/ \E k \in Key : NewKey(k)
  \/ \E r \in Run :
       \/ Begin(r) \/ Manifest(r) \/ Package(r) \/ Copy(r) \/ Throw(r) \/ End(r) \/ Crash(r)
       \/ \E c \in Coll : Dump(r, c)
       \/ \E t \in {"restore", "verify"} : Read(t, r)
  \/ \E t \in {"restore", "verify"} : ReadLatest(t)
  \/ Unpack \/ Check \/ Refuse \/ Close

Spec == Init /\ [][Next]_vars

-----------------------------------------------------------------------------
(* Properties *)

TypeOK ==
  /\ db \in [Coll -> 1..MaxWrites + 1] /\ env \in Key /\ dir \subseteq Run
  /\ \A r \in Run : archive[r].state \in {"none", "partial", "whole"} /\ archive[r].key \in Key
  /\ latest.state \in {"none", "partial", "mixed", "whole"}
  /\ indexes \subseteq Coll /\ report \in {"none", "ok", "failed"}

\* A restore that reports success has put every collection back as it was at some
\* moment of that backup, with its indexes; a verification that passes has seen a
\* whole archive.
RestoreIsTrue ==
  report = "ok" =>
    /\ archive[source].state = "whole"
    /\ task = "restore" =>
         /\ indexes = Coll
         /\ \A c \in Coll : target[c] >= began[source][c] /\ target[c] <= ended[source][c]

\* The latest archive is complete, or one is being copied or was not to its end, unless
\* two were copied at the same time.
LatestIsWhole ==
  latest.state = "partial" => step[latest.run] \in {"copying", "unwind", "failed", "crashed"}

\* A dump in plain text stays on disk only when the process has died.
NoDumpLeft == dir \subseteq {r \in Run : step[r] \notin {"idle", "done", "failed"}}
=============================================================================

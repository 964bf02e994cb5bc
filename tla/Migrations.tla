----------------------------- MODULE Migrations -----------------------------
(***************************************************************************)
(* The numbered scripts of migrations/: each ensures collections, indexes  *)
(* and fields, or previews them in a dry run.  Operators run the scripts   *)
(* in numeric order, at the same time, and again after a failure; the      *)
(* runner imports them, which starts them, and records them.               *)
(* 004 changes stored secrets and is MfaMigration.                         *)
(***************************************************************************)
EXTENDS Naturals, Sequences

CONSTANTS
  Operator,      \* people or pipelines running the scripts with --apply
  Docs,          \* documents of each collection that lack the new fields
  BATCH_SIZE,
  Imported       \* the first migrations the runner finds

Collection(c) == <<"collection", c>>
Indexes(c) == <<"indexes", c>>
Field(c, f) == <<"field", c, f>>
InTurn(cs) == [i \in DOMAIN cs |-> Collection(cs[i])] \o [i \in DOMAIN cs |-> Indexes(cs[i])]

\* What each script ensures, in its order.  Three collections stand for the fourteen of
\* the initial schema, and their fields for the ones 005 fills in, which are all
\* treated alike.
InitialSchema ==
  <<Collection("users"), Indexes("users"), Collection("sessions"), Indexes("sessions"),
    Collection("auditlogs"), Indexes("auditlogs")>>
AddMfaFields == <<Field("users", "mfa")>> \o InTurn(<<"backupcodes">>)
AddAuditSequence == <<Collection("auditsequences"), <<"counter", "auditsequences">>>>
AddTenantsApplications ==
  InTurn(<<"tenants", "applications">>) \o
  <<Field("users", "tenantId"), Field("sessions", "tenantId"), Field("sessions", "applicationId")>>
AddWebhooks == InTurn(<<"webhooks", "webhookdeliveries">>)
AddTeamsOrganizations == InTurn(<<"organizations", "teams">>)
AddSubscriptions == InTurn(<<"subscriptions">>)
AddWebauthn == InTurn(<<"webauthncredentials">>)
AddRiskEvents == InTurn(<<"riskevents", "breachrecords">>)

Script == <<InitialSchema, AddMfaFields, AddAuditSequence, AddTenantsApplications, AddWebhooks,
            AddTeamsOrganizations, AddSubscriptions, AddWebauthn, AddRiskEvents>>
Scripts == 1..Len(Script)
IsField(item) == item[1] = "field"
Items == UNION {{Script[s][i] : i \in DOMAIN Script[s]} : s \in Scripts}
FieldItems == {Field("users", "mfa"), Field("users", "tenantId"), Field("sessions", "tenantId"),
               Field("sessions", "applicationId")}

VARIABLES
  db,            \* the items that are there
  lacking,       \* documents without a field
  script, at, pc,   \* of an operator's run: which script, which item, what it does next
  found,         \* ... and whether the look at the item found it
  runner,        \* the runner: the next file, or 0 before it has read _migrations
  flag,          \* it was called with --apply
  task,          \* the scripts it has imported, which run on their own: next item
  recorded       \* _migrations

opVars == <<script, at, pc, found>>
runnerVars == <<runner, flag, task, recorded>>
vars == <<db, lacking, opVars, runnerVars>>

Done(f) == task[f] > Len(Script[f])

TypeOK ==
  /\ db \subseteq Items /\ lacking \in [FieldItems -> 0..Docs]
  /\ script \in [Operator -> Scripts] /\ at \in [Operator -> Nat]
  /\ pc \in [Operator -> {"idle", "look", "act", "more", "ok", "failed"}]
  /\ found \in [Operator -> BOOLEAN]
  /\ runner \in 0..(Imported + 1) /\ flag \in BOOLEAN
  /\ task \in [1..Imported -> Nat] /\ recorded \subseteq 1..Imported

\* A new database, or one from before the migrations with documents in it.
Init ==
  /\ \/ db = {} /\ lacking = [f \in FieldItems |-> 0]
     \/ /\ db = {Collection(f[2]) : f \in FieldItems}
        /\ lacking = [f \in FieldItems |-> Docs]
  /\ script = [o \in Operator |-> 1] /\ at = [o \in Operator |-> 1]
  /\ pc = [o \in Operator |-> "idle"] /\ found = [o \in Operator |-> FALSE]
  /\ runner = 0 /\ flag \in BOOLEAN
  /\ task = [f \in 1..Imported |-> 0] /\ recorded = {}

-----------------------------------------------------------------------------
Item(o) == Script[script[o]][at[o]]
Present(item) == IF IsField(item) THEN lacking[item] = 0 ELSE item \in db
Least(m, n) == IF m < n THEN m ELSE n

\* An operator starts the next script once this one went through, and this one
\* again when it failed.
Launch(o) ==
  /\ \/ pc[o] \in {"idle", "failed"} /\ UNCHANGED script
     \/ /\ pc[o] = "ok" /\ script[o] < Len(Script)
        /\ script' = [script EXCEPT ![o] = @ + 1]
  /\ pc' = [pc EXCEPT ![o] = "look"]
  /\ UNCHANGED <<db, lacking, at, found, runnerVars>>

\* On to the next item, or to the end of the script.
Advance(o) ==
  IF at[o] < Len(Script[script[o]])
    THEN at' = [at EXCEPT ![o] = @ + 1] /\ pc' = [pc EXCEPT ![o] = "look"]
    ELSE at' = [at EXCEPT ![o] = 1] /\ pc' = [pc EXCEPT ![o] = "ok"]

\* The script ends with an error: exit code 1; the mutant reports the error and exits
\* as if nothing had happened.
LogOnly(o) == at' = [at EXCEPT ![o] = 1] /\ pc' = [pc EXCEPT ![o] = "ok"]
GiveUp(o) == at' = [at EXCEPT ![o] = 1] /\ pc' = [pc EXCEPT ![o] = "failed"]

\* listCollections, indexes() or findOne.
Look(o) ==
  /\ pc[o] = "look" /\ ~IsField(Item(o))
  /\ found' = [found EXCEPT ![o] = Present(Item(o))]
  /\ pc' = [pc EXCEPT ![o] = "act"]
  /\ UNCHANGED <<db, lacking, script, at, runnerVars>>

\* createCollection or createIndexes, or nothing where the look found the item.  A
\* collection that has appeared since then is NamespaceExists, which is no error; the
\* mutant lets it fail the script.
CreateStrict(o) ==
  /\ IF found[o] \/ Item(o) \notin db THEN Advance(o)
                                      ELSE GiveUp(o)
  /\ db' = db \cup {Item(o)}
Create(o) == Advance(o) /\ db' = db \cup {Item(o)}

Ensure(o) ==
  /\ pc[o] = "act"
  /\ Create(o)
  /\ found' = [found EXCEPT ![o] = FALSE]
  /\ UNCHANGED <<lacking, script, runnerVars>>

\* The loop over the batches ends with a batch that is not full.
LastBatch(n) == n < BATCH_SIZE

\* One batch of a backfill.  A collection that does not exist lacks nothing.
Backfill(o) ==
  LET item == Item(o)
      n == Least(lacking[item], BATCH_SIZE) IN
    /\ pc[o] = "look" /\ IsField(item)
    /\ lacking' = [lacking EXCEPT ![item] = @ - n]
    /\ IF LastBatch(n) THEN Advance(o) ELSE pc' = [pc EXCEPT ![o] = "more"] /\ UNCHANGED at
    /\ UNCHANGED <<db, script, found, runnerVars>>

\* The next batch: cursor.limit on a cursor that has been read throws, and the script
\* ends.  What was filled stays.
NextBatch(o) ==
  /\ pc[o] = "more"
  /\ GiveUp(o)
  /\ found' = [found EXCEPT ![o] = FALSE]
  /\ UNCHANGED <<db, lacking, script, runnerVars>>

\* The database fails or the process is stopped.
Fail(o) ==
  /\ pc[o] \in {"look", "act", "more"}
  /\ GiveUp(o)
  /\ found' = [found EXCEPT ![o] = FALSE]
  /\ UNCHANGED <<db, lacking, script, runnerVars>>

-----------------------------------------------------------------------------
\* The runner reads _migrations.
RunnerStarts ==
  /\ runner = 0 /\ runner' = 1
  /\ UNCHANGED <<db, lacking, opVars, flag, task, recorded>>

\* Files that _migrations knows are passed over; the mutant imports them too.
AnyFile == runner \in 1..Imported
Pending == runner \in 1..Imported /\ runner \notin recorded

\* The import starts main(), which nobody awaits: no script exports up().
Import ==
  /\ Pending /\ task[runner] = 0
  /\ task' = [task EXCEPT ![runner] = 1]
  /\ UNCHANGED <<db, lacking, opVars, runner, flag, recorded>>

\* The insert into _migrations.
Record ==
  /\ runner \in 1..Imported /\ task[runner] > 0
  /\ recorded' = recorded \cup {runner} /\ runner' = runner + 1
  /\ UNCHANGED <<db, lacking, opVars, flag, task>>

SkipApplied ==
  /\ runner \in recorded
  /\ runner' = runner + 1
  /\ UNCHANGED <<db, lacking, opVars, flag, task, recorded>>

\* A script the runner imported handles its next item; without --apply it only
\* prints what it would do.
TaskStep(f) ==
  /\ task[f] > 0 /\ ~Done(f)
  /\ LET item == Script[f][task[f]] IN
       \/ ~flag /\ UNCHANGED <<db, lacking>>
       \/ flag /\ ~IsField(item) /\ db' = db \cup {item} /\ UNCHANGED lacking
       \/ /\ flag /\ IsField(item) /\ lacking[item] < BATCH_SIZE
          /\ lacking' = [lacking EXCEPT ![item] = 0] /\ UNCHANGED db
  /\ task' = [task EXCEPT ![f] = @ + 1]
  /\ UNCHANGED <<opVars, runner, flag, recorded>>

\* A script or the runner fails, or a script that has ended closes the connection
\* under the others: process.exit(1).  The runner is started again.
Exit ==
  /\ runner > 0
  /\ runner' = 0 /\ task' = [f \in 1..Imported |-> 0]
  /\ UNCHANGED <<db, lacking, opVars, flag, recorded>>

Step(o) == Look(o) \/ Ensure(o) \/ Backfill(o) \/ NextBatch(o)
RunnerNext ==
  \/ RunnerStarts \/ Import \/ Record \/ SkipApplied \/ Exit
  \/ \E f \in 1..Imported : TaskStep(f)
OperatorNext == \E o \in Operator : Launch(o) \/ Step(o) \/ Fail(o)
Next == OperatorNext \/ RunnerNext

Spec == Init /\ [][Next]_vars

-----------------------------------------------------------------------------
(* Properties *)

\* A script that went through has ensured everything it declares, also when another
\* operator ran it at the same time and earlier runs stopped half way.
WentThrough ==
  \A o \in Operator : \A s \in Scripts :
    (s < script[o] \/ (s = script[o] /\ pc[o] = "ok")) =>
      \A i \in DOMAIN Script[s] : Present(Script[s][i])

\* Migrations are additive, and only an error of the database or a full batch fails
\* one: operators that run at the same time never make each other fail.
Additive ==
  [][/\ db \subseteq db'
     /\ \A f \in FieldItems : lacking'[f] <= lacking[f]
     /\ \A o \in Operator : (Ensure(o) \/ Look(o)) => pc'[o] # "failed"]_vars

\* A migration the runner has recorded stays recorded and is not started again, however
\* often the runner is started and wherever it stopped.
RecordedOnce ==
  [][/\ recorded \subseteq recorded'
     /\ \A f \in recorded : task[f] = 0 => task'[f] = 0]_vars
=============================================================================

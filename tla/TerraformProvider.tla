------------------------- MODULE TerraformProvider -------------------------
(***************************************************************************)
(* The Terraform provider for one resource: what the state file records    *)
(* against what the server has.  An apply reads the recorded object, plans *)
(* from the difference to the configuration, and creates, updates or       *)
(* replaces.  Every request may fail before or after the server did the    *)
(* work.  Others change or remove the object in between.                   *)
(***************************************************************************)
EXTENDS Naturals

CONSTANTS
  FieldValue,       \* values of a field
  MaxObjects,  \* bound: objects made on the server
  MaxEdits     \* bound: changes of the configuration and changes by others

VARIABLES
  kind,      \* the kind of the resource
  config,    \* the values asked for
  recorded,  \* the state file: id (0 for none), tainted, active and values
  remote,    \* remote[i]: the object with id i, there = "no" when there is none
  made,      \* objects made so far
  step,      \* where the apply stands
  moved,     \* whether others changed an object since the apply began
  edits,
  lost,      \* objects whose id never reached the state file
  unsure,    \* whether an update failed although the new values were recorded
  clean      \* whether the last apply ended without an error and nothing changed since

vars == <<kind, config, recorded, remote, made, step, moved, edits, lost, unsure, clean>>

-----------------------------------------------------------------------------
(* The kinds of resource: key is the field the server keeps unique, gone how *)
(* a delete works, patch whether there is an update, reread whether a create *)
(* and an update end with a read of their own, unread the fields a read      *)
(* leaves as they are recorded.                                              *)

resourceUser == [key |-> "plain", gone |-> "soft", patch |-> TRUE, reread |-> TRUE, unread |-> {"fixed", "blind"}]

resourceTenant == [key |-> "fixed", gone |-> "soft", patch |-> TRUE, reread |-> TRUE, unread |-> {"blind"}]

resourceRole == [key |-> "fixed", gone |-> "hard", patch |-> TRUE, reread |-> FALSE, unread |-> {"blind"}]

resourceClient == [key |-> "none", gone |-> "soft", patch |-> TRUE, reread |-> FALSE, unread |-> {"blind"}]

resourceWebhook == [key |-> "none", gone |-> "never", patch |-> FALSE, reread |-> FALSE, unread |-> {"blind"}]

Kinds == {resourceUser, resourceTenant, resourceRole, resourceClient, resourceWebhook}

\* A field whose change needs another object, one that is updated and read, and
\* one that is updated and never read (only the metadata of a user).
Field == {"fixed", "plain", "blind"}

\* A webhook has no field that needs another object; only users have a blind one.
Used == (IF kind = resourceWebhook THEN {"plain"} ELSE {"fixed", "plain"})
          \cup (IF kind = resourceUser THEN {"blind"} ELSE {})

-----------------------------------------------------------------------------

Nothing == CHOOSE v \in FieldValue : TRUE

Plain == [f \in Field |-> Nothing]

Init ==
  /\ kind \in Kinds
  /\ config = Plain
  /\ recorded = [id |-> 0, tainted |-> FALSE, active |-> TRUE, values |-> Plain]
  /\ remote = [i \in 1..MaxObjects |-> [there |-> "no", values |-> Plain]]
  /\ made = 0 /\ step = "idle" /\ moved = FALSE /\ edits = 0
  /\ lost = {} /\ unsure = FALSE /\ clean = FALSE

Mine == remote[recorded.id]

Differs == {f \in Used : recorded.values[f] # config[f]}
             \cup (IF recorded.active THEN {} ELSE {"active"})

\* The run ends with a diagnostic.
Fail == step' = "idle" /\ clean' = FALSE

-----------------------------------------------------------------------------
(* The people at work *)

Edit(f, v) ==
  /\ step = "idle" /\ edits < MaxEdits /\ f \in Used /\ v # config[f]
  /\ config' = [config EXCEPT ![f] = v]
  /\ edits' = edits + 1 /\ clean' = FALSE
  /\ UNCHANGED <<kind, recorded, remote, made, step, moved, lost, unsure>>

Drift(i, v) ==
  /\ edits < MaxEdits /\ i <= made /\ remote[i].there = "yes"
  /\ \/ v # remote[i].values["plain"] /\ remote' = [remote EXCEPT ![i].values["plain"] = v]
     \/ kind.gone = "hard" /\ remote' = [remote EXCEPT ![i].there = "no"]
  /\ edits' = edits + 1 /\ clean' = FALSE /\ moved' = TRUE
  /\ UNCHANGED <<kind, config, recorded, made, step, lost, unsure>>

-----------------------------------------------------------------------------
(* An apply *)

\* Mutant: what is recorded is taken for what is there.
Unread == recorded

\* What a read puts into the state file; only users and tenants tell whether they
\* are active.
ReadBack ==
  [recorded EXCEPT
    !.active = kind.reread => Mine.there = "yes",
    !.values = [f \in Field |-> IF f \in kind.unread THEN recorded.values[f] ELSE Mine.values[f]]]

\* An object that is not there is an error, by its id and in a list alike.
CanRead == Mine.there # "no"

Begin ==
  /\ step = "idle"
  /\ moved' = FALSE
  /\ IF recorded.id = 0
     THEN step' = "create" /\ UNCHANGED <<recorded, clean>>
     ELSE \/ CanRead /\ recorded' = ReadBack
             /\ step' = "planned" /\ UNCHANGED clean
          \/ Fail /\ UNCHANGED recorded
  /\ UNCHANGED <<kind, config, remote, made, edits, lost, unsure>>

\* What Terraform makes of the difference.
Plan ==
  /\ step = "planned"
  /\ IF recorded.tainted \/ "fixed" \in Differs THEN step' = "replace" /\ UNCHANGED clean
     ELSE IF Differs # {} THEN step' = "update" /\ UNCHANGED clean
     ELSE step' = "idle" /\ clean' = ~moved
  /\ UNCHANGED <<kind, config, recorded, remote, made, moved, edits, lost, unsure>>

\* The server refuses a second object with the same key, a deactivated one included.
Taken == kind.key # "none" /\ \E i \in 1..made :
           remote[i].there # "no" /\ remote[i].values[kind.key] = config[kind.key]

\* A create whose answer is lost leaves an object that no state file knows.
CreateLost ==
  /\ step = "create" /\ ~Taken /\ made < MaxObjects
  /\ made' = made + 1
  /\ remote' = [remote EXCEPT ![made + 1] = [there |-> "yes", values |-> config]]
  /\ lost' = lost \cup {made + 1}
  /\ Fail
  /\ UNCHANGED <<kind, config, recorded, moved, edits, unsure>>

CreateRefused ==
  /\ step = "create"
  /\ Fail
  /\ UNCHANGED <<kind, config, recorded, remote, made, moved, edits, lost, unsure>>

\* The id is set; what follows may still fail, and Terraform marks the object then.
CreateOk ==
  /\ step = "create" /\ ~Taken /\ made < MaxObjects
  /\ made' = made + 1
  /\ remote' = [remote EXCEPT ![made + 1] = [there |-> "yes", values |-> config]]
  /\ \/ /\ recorded' = [id |-> made + 1, tainted |-> FALSE, active |-> TRUE, values |-> config]
        /\ step' = "idle" /\ clean' = TRUE
     \/ /\ kind.reread
        /\ recorded' = [id |-> made + 1, tainted |-> TRUE, active |-> TRUE, values |-> config]
        /\ Fail
  /\ unsure' = FALSE
  /\ UNCHANGED <<kind, config, moved, edits, lost>>

Patched ==
  [remote EXCEPT
    ![recorded.id].there = IF "active" \in Differs THEN "yes" ELSE @,
    ![recorded.id].values = [f \in Field |-> IF f \in Differs THEN config[f] ELSE @[f]]]

\* The changed fields are sent.  Terraform records the new values also when the
\* update fails.
UpdateFails ==
  /\ step = "update"
  /\ \/ kind.patch /\ Mine.there # "no"
        /\ remote' = Patched
     \/ UNCHANGED remote
  /\ recorded' = [recorded EXCEPT !.values = config, !.active = TRUE]
  /\ unsure' = TRUE
  /\ Fail
  /\ UNCHANGED <<kind, config, made, moved, edits, lost>>

UpdateOk ==
  /\ step = "update" /\ kind.patch /\ Mine.there # "no"
  /\ remote' = Patched
  /\ recorded' = [recorded EXCEPT !.values = config, !.active = TRUE]
  /\ step' = "reread"
  /\ UNCHANGED <<kind, config, made, moved, edits, lost, unsure, clean>>

\* The read at the end of an update.  A change by others since then shows up as a
\* difference of the next plan.
Reread ==
  /\ step = "reread"
  /\ \/ /\ CanRead /\ recorded' = ReadBack
        /\ step' = "idle" /\ clean' = (ReadBack.values = config /\ ReadBack.active)
     \/ Fail /\ UNCHANGED recorded
  /\ UNCHANGED <<kind, config, remote, made, moved, edits, lost, unsure>>

\* The resource is taken out of the configuration.
Destroy ==
  /\ step = "idle" /\ recorded.id # 0
  /\ step' = "delete"
  /\ UNCHANGED <<kind, config, recorded, remote, made, moved, edits, lost, unsure, clean>>

\* What the server does with a delete.
Deleted == IF kind.gone = "hard" THEN "no" ELSE "off"

\* Mutant: the id is dropped whatever the answer was.
DropId == recorded' = [recorded EXCEPT !.id = 0, !.tainted = FALSE]

\* An error leaves the id in the state file.
KeepId == UNCHANGED recorded

DeleteFails ==
  /\ step \in {"delete", "replace"}
  /\ \/ /\ kind.gone # "never" /\ Mine.there # "no"
        /\ remote' = [remote EXCEPT ![recorded.id].there = Deleted]
     \/ UNCHANGED remote
  /\ KeepId
  /\ Fail
  /\ UNCHANGED <<kind, config, made, moved, edits, lost, unsure>>

DeleteOk ==
  /\ step \in {"delete", "replace"} /\ kind.gone # "never" /\ Mine.there # "no"
  /\ remote' = [remote EXCEPT ![recorded.id].there = Deleted]
  /\ recorded' = [recorded EXCEPT !.id = 0, !.tainted = FALSE]
  /\ step' = IF step = "replace" THEN "create" ELSE "idle"
  /\ clean' = FALSE
  /\ UNCHANGED <<kind, config, made, moved, edits, lost, unsure>>

Next ==
  \/ \E f \in Field, v \in FieldValue : Edit(f, v)
  \/ \E i \in 1..MaxObjects, v \in FieldValue : Drift(i, v)
  \/ Begin \/ Plan \/ CreateLost \/ CreateRefused \/ CreateOk
  \/ UpdateFails \/ UpdateOk \/ Reread \/ Destroy \/ DeleteFails \/ DeleteOk

Spec == Init /\ [][Next]_vars

-----------------------------------------------------------------------------
(* Properties *)

TypeOK ==
  /\ kind \in Kinds /\ config \in [Field -> FieldValue]
  /\ recorded.id \in 0..made /\ recorded.tainted \in BOOLEAN /\ recorded.active \in BOOLEAN
  /\ recorded.values \in [Field -> FieldValue]
  /\ \A i \in 1..MaxObjects : remote[i].there \in {"no", "yes", "off"} /\ remote[i].values \in [Field -> FieldValue]
  /\ step \in {"idle", "planned", "create", "update", "reread", "replace", "delete"}
  /\ lost \subseteq 1..made

\* After an apply without an error the server has what was asked for, in the field
\* no read covers unless an update failed before.
AppliedIsReal ==
  clean => /\ recorded.id # 0 /\ Mine.there \in (IF kind.reread THEN {"yes"} ELSE {"yes", "off"})
           /\ \A f \in Used : Mine.values[f] = config[f] \/ (unsure /\ f \in kind.unread)

\* An object in use is in the state file, unless the answer to its create was lost.
NoneForgotten ==
  \A i \in 1..made : remote[i].there = "yes" => i = recorded.id \/ i \in lost
=============================================================================

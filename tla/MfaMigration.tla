---------------------------- MODULE MfaMigration ----------------------------
(***************************************************************************)
(* The re-encryption of stored MFA secrets, by scripts/migrate-mfa-        *)
(* secrets.mjs (to v3) and by migrations/004 (to v2), with their backup    *)
(* and rollback, while users go on enrolling anew.  A stored value is its  *)
(* format and what decrypting it yields.  One tool is used at a time: the  *)
(* rows of their backups have different fields.                            *)
(***************************************************************************)
EXTENDS Naturals

CONSTANTS
  User,
  Tool,        \* the tools, "script" and "004", one of which is used
  Secrets      \* TOTP secrets a user enrols with, one after the other

VARIABLES
  stored,      \* users.mfaSecret
  truth,       \* the secret in the user's authenticator
  backup,      \* mfaSecretsBackup
  tool,        \* the one in use
  pc, cur,     \* its run: what it does and for which user
  read,        \* ... and the value the cursor returned
  todo,        \* users the cursor has yet to return
  stale        \* history: users who changed their secret while a backup of it existed,
               \* or whose v3 value 004 has rewritten

vars == <<stored, truth, backup, tool, pc, cur, read, todo, stale>>

Formats == {"raw", "unprefixed", "v2", "v3", "short"}
None == [format |-> "none", secret |-> 0]
Junk == Secrets + 1                 \* not what any authenticator has
Value(f, s) == [format |-> f, secret |-> s]
Values == {None} \cup [format : Formats, secret : 1..Junk]

TypeOK ==
  /\ stored \in [User -> Values] /\ truth \in [User -> 1..Secrets]
  /\ backup \subseteq [user : User, value : Values]
  /\ tool \in Tool /\ pc \in {"idle", "scan", "backup", "write", "clear"}
  /\ cur \in User /\ read \in Values /\ todo \in SUBSET User /\ stale \subseteq User

Init ==
  /\ stored \in [User -> {Value(f, 1) : f \in Formats}]
  /\ truth = [u \in User |-> 1] /\ backup = {}
  /\ tool \in Tool /\ pc = "idle" /\ cur = (CHOOSE u \in User : TRUE)
  /\ read = None /\ todo = {} /\ stale = {}

-----------------------------------------------------------------------------
\* What the script makes of a value: current, re-wrapped, or skipped (too short to
\* be a secret, and no envelope).
ClassifyScript(v) ==
  CASE v.format = "v3" -> "current"
    [] v.format \in {"v2", "unprefixed", "raw"} -> "legacy"
    [] OTHER -> "skip"

\* 004 knows no v3: such a value fails as an envelope and is long enough to pass for
\* a raw secret.
Classify004(v) ==
  CASE v.format = "v2" -> "current"
    [] v.format \in {"unprefixed", "raw", "v3"} -> "legacy"
    [] OTHER -> "skip"

Classify(v) == IF tool = "004" THEN Classify004(v) ELSE ClassifyScript(v)

\* The new envelope around the secret that was found in the old value.
Rewrapped(v) ==
  IF tool = "004" THEN Value("v2", IF v.format = "v3" THEN Junk ELSE v.secret)
                  ELSE Value("v3", v.secret)

\* users.find({mfaSecret: {$ne: null}}).
Apply ==
  /\ pc = "idle"
  /\ pc' = "scan"
  /\ todo' = {u \in User : stored[u] # None}
  /\ UNCHANGED <<tool, stored, truth, backup, cur, read, stale>>

\* The next document, and what it is taken for.
Scan(u) ==
  /\ pc = "scan" /\ u \in todo
  /\ todo' = todo \ {u}
  /\ IF stored[u] # None /\ Classify(stored[u]) = "legacy"
       THEN /\ pc' = "backup"
            /\ cur' = u /\ read' = stored[u]
       ELSE UNCHANGED <<pc, cur, read>>
  /\ UNCHANGED <<tool, stored, truth, backup, stale>>

\* The backup before the change: a row each (the script), or one row per user (004).
Backup ==
  /\ pc = "backup"
  /\ backup' = {b \in backup : tool = "004" => b.user # cur}
                 \cup {[user |-> cur, value |-> read]}
  /\ pc' = "write"
  /\ UNCHANGED <<tool, stored, truth, cur, read, todo, stale>>

\* The update finds the value that was read; the mutant filters by _id only.
AnyVersion == TRUE
StillThere == stored[cur] = read

Write ==
  /\ pc = "write"
  /\ stored' = IF StillThere THEN [stored EXCEPT ![cur] = Rewrapped(read)] ELSE stored
  /\ stale' = IF tool = "004" /\ read.format = "v3" THEN stale \cup {cur} ELSE stale
  /\ pc' = "scan" /\ read' = None
  /\ UNCHANGED <<tool, truth, backup, cur, todo>>

\* --rollback: the value of a backup row, whatever is stored now, then the row goes;
\* 004 keeps a row that changed nothing.
Rollback ==
  /\ pc = "idle"
  /\ \E b \in backup :
       /\ ~(tool = "004" /\ stored[b.user] = b.value)
       /\ stored' = [stored EXCEPT ![b.user] = b.value]
       /\ cur' = b.user /\ read' = b.value
  /\ pc' = "clear"
  /\ UNCHANGED <<tool, truth, backup, todo, stale>>

Clear ==
  /\ pc = "clear"
  /\ backup' = backup \ {[user |-> cur, value |-> read]}
  /\ pc' = "idle" /\ read' = None
  /\ UNCHANGED <<tool, stored, truth, cur, todo, stale>>

\* The run is over, or ends at any point with an error.
Ends ==
  /\ pc # "idle"
  /\ pc' = "idle"
  /\ todo' = {} /\ read' = None
  /\ UNCHANGED <<tool, stored, truth, backup, cur, stale>>

\* A change of the secret outdates the backups of it, and those being made.
Outdated(u) ==
  \/ \E b \in backup : b.user = u
  \/ cur = u /\ pc \in {"backup", "write", "clear"}
MarkStale(u) == stale' = IF Outdated(u) THEN stale \cup {u} ELSE stale

\* MfaService.beginSetup and enable: a new secret, stored as v3.
Enrol(u) ==
  /\ truth[u] < Secrets
  /\ truth' = [truth EXCEPT ![u] = @ + 1]
  /\ stored' = [stored EXCEPT ![u] = Value("v3", truth[u] + 1)]
  /\ MarkStale(u)
  /\ UNCHANGED <<tool, backup, pc, cur, read, todo>>

ToolNext ==
  \/ Apply \/ Backup \/ Write \/ Rollback \/ Clear \/ Ends
  \/ \E u \in User : Scan(u)
Next == ToolNext \/ (\E u \in User : Enrol(u))

Spec == Init /\ [][Next]_vars

-----------------------------------------------------------------------------
(* Properties *)

\* The migration never changes the secret itself: what is stored decrypts to what the
\* user's authenticator has, through interrupted runs, rollbacks and overlapping
\* enrolments.  Two exceptions: a rollback puts back a secret the user has
\* replaced, and 004 takes a v3 envelope for a secret.
SecretKept == \A u \in User \ stale : stored[u].secret = truth[u]

\* A write never replaces a secret enrolled after the tool read the old one.
NotOverwritten ==
  [][(Write /\ ~(tool = "004" /\ read.format = "v3")) =>
       \A u \in User : stored'[u].secret = stored[u].secret]_vars
=============================================================================

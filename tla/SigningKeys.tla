---------------------------- MODULE SigningKeys -----------------------------
(***************************************************************************)
(* JWT signing keys: the KeyStore of each instance, its persistence in a   *)
(* shared directory (initKeyPersistence, KeyStoreService with the file     *)
(* adapter), scheduled rotation, scripts/rotate-keys.mjs, restarts and the *)
(* expiry of keys.  A kid is numbered by its createdAt.                    *)
(***************************************************************************)
EXTENDS Naturals, FiniteSetsExt

CONSTANTS
  Inst,          \* server instances that share the directory
  MaxKeys        \* bound on the keys ever generated

Kid == 1..MaxKeys
Status == {"ACTIVE", "VERIFY-ONLY"}
Absent == "none"

VARIABLES
  disk, tmp,     \* <kid>.pem and <kid>.pem.tmp: the status in the file
  next,          \* the next kid
  expired,       \* keys whose expiresAt has passed
  pc,            \* down | listed | starting | serving
  listing, litter,  \* what readdir returned: keys, and .tmp files
  mem, own,      \* the KeyStore of an instance, and the keys it generated itself
  saving, writing,  \* the save under way: keys still to write, and the one being written
  plan,          \* rotate-keys.mjs: 0, or the key it is about to retire
  signedBy,      \* history: keys an instance has signed with since it started
  signed,        \* history: keys that have signed
  unsaved        \* history: keys generated without a save, or whose save was cut off

files == <<disk, tmp>>
boot == <<pc, listing, litter>>
store == <<mem, own>>
save == <<saving, writing>>
hist == <<signedBy, signed, unsaved>>
vars == <<files, next, expired, boot, store, save, plan, hist>>

TypeOK ==
  /\ disk \in [Kid -> Status \cup {Absent}] /\ tmp \in [Kid -> Status \cup {Absent}]
  /\ next \in 1..(MaxKeys + 1) /\ expired \subseteq Kid
  /\ pc \in [Inst -> {"down", "listed", "starting", "serving"}]
  /\ listing \in [Inst -> SUBSET Kid] /\ litter \in [Inst -> SUBSET Kid]
  /\ mem \in [Inst -> [Kid -> Status \cup {Absent}]] /\ own \in [Inst -> SUBSET Kid]
  /\ saving \in [Inst -> SUBSET Kid] /\ writing \in [Inst -> Kid \cup {0}]
  /\ plan \in Kid \cup {0}
  /\ signedBy \in [Inst -> SUBSET Kid] /\ signed \subseteq Kid /\ unsaved \subseteq Kid

Nothing == [k \in Kid |-> Absent]

Init ==
  /\ disk = Nothing /\ tmp = Nothing /\ next = 1 /\ expired = {}
  /\ pc = [i \in Inst |-> "down"]
  /\ listing = [i \in Inst |-> {}] /\ litter = [i \in Inst |-> {}]
  /\ mem = [i \in Inst |-> Nothing] /\ own = [i \in Inst |-> {}]
  /\ saving = [i \in Inst |-> {}] /\ writing = [i \in Inst |-> 0]
  /\ plan = 0 /\ signedBy = [i \in Inst |-> {}] /\ signed = {} /\ unsaved = {}

-----------------------------------------------------------------------------
Keys(i) == {k \in Kid : mem[i][k] # Absent}
Active(i) == {k \in Kid : mem[i][k] = "ACTIVE"}

\* byKid and jwks: retired keys still verify; the mutant knows the signing keys only.
ActiveOnly(i, k) == mem[i][k] = "ACTIVE" /\ k \notin expired
ByKid(i, k) == mem[i][k] # Absent /\ k \notin expired

\* prune, then the new key.
WithNewKey(m) == [k \in Kid |-> IF k = next THEN "ACTIVE" ELSE IF k \in expired THEN Absent ELSE m[k]]

\* Map order: the keys read from the directory, in any order, before the own ones.
First(i, s) == IF s \ own[i] # {} THEN s \ own[i] ELSE {Min(s)}

\* readdir.
Load(i) ==
  /\ pc[i] = "down"
  /\ pc' = [pc EXCEPT ![i] = "listed"]
  /\ listing' = [listing EXCEPT ![i] = {k \in Kid : disk[k] # Absent}]
  /\ litter' = [litter EXCEPT ![i] = {k \in Kid : tmp[k] # Absent}]
  /\ UNCHANGED <<files, next, expired, store, save, plan, hist>>

\* The listed files are read and leftover .tmp files removed; the first key is
\* generated and saved.
Adopt(i) ==
  LET read == [k \in Kid |-> IF k \in listing[i] \ expired THEN disk[k] ELSE Absent] IN
    /\ pc[i] = "listed"
    /\ tmp' = [k \in Kid |-> IF k \in litter[i] THEN Absent ELSE tmp[k]]
    /\ litter' = [litter EXCEPT ![i] = {}]
    /\ \/ /\ read # Nothing
          /\ pc' = [pc EXCEPT ![i] = "serving"]
          /\ mem' = [mem EXCEPT ![i] = read]
          /\ UNCHANGED <<next, own, saving>>
       \/ /\ read = Nothing /\ next <= MaxKeys
          /\ pc' = [pc EXCEPT ![i] = "starting"]
          /\ mem' = [mem EXCEPT ![i] = WithNewKey(Nothing)]
          /\ own' = [own EXCEPT ![i] = {next}] /\ saving' = [saving EXCEPT ![i] = {next}]
          /\ next' = next + 1
    /\ UNCHANGED <<disk, expired, listing, writing, plan, hist>>

\* save(): each key in turn, its status as it is now.
WriteTmp(i) ==
  /\ saving[i] # {} /\ writing[i] = 0
  /\ \E k \in First(i, saving[i]) :
       /\ tmp' = [tmp EXCEPT ![k] = IF mem[i][k] = Absent THEN "ACTIVE" ELSE mem[i][k]]
       /\ writing' = [writing EXCEPT ![i] = k]
  /\ UNCHANGED <<disk, next, expired, boot, store, saving, plan, hist>>

Started(i) ==
  pc' = [pc EXCEPT ![i] = IF @ = "starting" /\ saving'[i] = {} THEN "serving" ELSE @]

Rename(i) ==
  LET k == writing[i] IN
    /\ k # 0 /\ tmp[k] # Absent
    /\ disk' = [disk EXCEPT ![k] = tmp[k]] /\ tmp' = [tmp EXCEPT ![k] = Absent]
    /\ saving' = [saving EXCEPT ![i] = @ \ {k}] /\ writing' = [writing EXCEPT ![i] = 0]
    /\ Started(i)
    /\ UNCHANGED <<next, expired, listing, litter, store, plan, hist>>

\* The process ends; its memory is gone and the save it was at is cut off.
Crashed(i) ==
  /\ pc' = [pc EXCEPT ![i] = "down"]
  /\ listing' = [listing EXCEPT ![i] = {}] /\ litter' = [litter EXCEPT ![i] = {}]
  /\ mem' = [mem EXCEPT ![i] = Nothing] /\ own' = [own EXCEPT ![i] = {}]
  /\ signedBy' = [signedBy EXCEPT ![i] = {}]

\* The rename finds no file (another instance took it, or its start removed it) or
\* the disk fails: the save rejects.  rotate() logs it, init() ends the process.
SaveFails(i) ==
  /\ writing[i] # 0
  /\ unsaved' = unsaved \cup saving[i]
  /\ saving' = [saving EXCEPT ![i] = {}] /\ writing' = [writing EXCEPT ![i] = 0]
  /\ IF pc[i] = "starting" THEN Crashed(i) ELSE UNCHANGED <<boot, store, signedBy>>
  /\ UNCHANGED <<files, next, expired, plan, signed>>

Crash(i) ==
  /\ pc[i] # "down"
  /\ unsaved' = unsaved \cup saving[i]
  /\ saving' = [saving EXCEPT ![i] = {}] /\ writing' = [writing EXCEPT ![i] = 0]
  /\ Crashed(i)
  /\ UNCHANGED <<files, next, expired, plan, signed>>

\* What a rotation saves: all the keys; the mutant forgets to save.
SaveNothing(i) == {}
SaveAll(i) == {k \in Kid : mem'[i][k] # Absent}

\* rotate(): the first ACTIVE key, a new one, then the retirement, which throws when
\* the new key's prune has dropped the old one as expired; the save is then skipped.
Rotate(i) ==
  LET new == WithNewKey(mem[i]) IN
    /\ pc[i] = "serving" /\ saving[i] = {} /\ next <= MaxKeys
    /\ own' = [own EXCEPT ![i] = @ \cup {next}] /\ next' = next + 1
    /\ \/ /\ Active(i) = {}
          /\ mem' = [mem EXCEPT ![i] = new]
          /\ saving' = [saving EXCEPT ![i] = SaveAll(i)] /\ UNCHANGED unsaved
       \/ /\ Active(i) # {}
          /\ \E old \in First(i, Active(i)) :
               \/ /\ old \notin expired
                  /\ mem' = [mem EXCEPT ![i] = [new EXCEPT ![old] = "VERIFY-ONLY"]]
                  /\ saving' = [saving EXCEPT ![i] = SaveAll(i)] /\ UNCHANGED unsaved
               \/ /\ old \in expired
                  /\ mem' = [mem EXCEPT ![i] = new]
                  /\ unsaved' = unsaved \cup {next} /\ UNCHANGED saving
    /\ UNCHANGED <<files, expired, boot, writing, plan, signedBy, signed>>

Signs(i, k) ==
  signedBy' = [signedBy EXCEPT ![i] = @ \cup {k}] /\ signed' = signed \cup {k}

\* sign: the newest ACTIVE key, or a key made on the spot, which nobody saves.
Sign(i) ==
  LET usable == Active(i) \ expired IN
    /\ pc[i] = "serving"
    /\ \/ /\ usable # {} /\ Signs(i, Max(usable))
          /\ UNCHANGED <<next, store, unsaved>>
       \/ /\ usable = {} /\ next <= MaxKeys /\ Signs(i, next)
          /\ mem' = [mem EXCEPT ![i] = WithNewKey(@)]
          /\ own' = [own EXCEPT ![i] = @ \cup {next}] /\ next' = next + 1
          /\ unsaved' = unsaved \cup {next}
    /\ UNCHANGED <<files, expired, boot, save, plan>>

\* rotate-keys.mjs beside the servers: it writes the new key first, then the old one.
ScriptNew ==
  /\ plan = 0 /\ next <= MaxKeys
  /\ LET usable == {k \in Kid : disk[k] = "ACTIVE"} \ expired IN
       plan' \in (IF usable = {} THEN {0} ELSE usable)
  /\ disk' = [disk EXCEPT ![next] = "ACTIVE"] /\ next' = next + 1
  /\ UNCHANGED <<tmp, expired, boot, store, save, hist>>

ScriptOld ==
  /\ plan # 0
  /\ plan' = 0
  /\ disk' = [disk EXCEPT ![plan] = "VERIFY-ONLY"]
  /\ UNCHANGED <<tmp, next, expired, boot, store, save, hist>>

\* Keys expire in the order of their creation.
KeyExpires ==
  /\ \E k \in Kid : k < next /\ k \notin expired /\ expired' = 1..k
  /\ UNCHANGED <<files, next, boot, store, save, plan, hist>>

Next ==
  \/ \E i \in Inst : \/ Load(i) \/ Adopt(i) \/ WriteTmp(i) \/ Rename(i) \/ SaveFails(i)
                     \/ Crash(i) \/ Rotate(i) \/ Sign(i)
  \/ ScriptNew \/ ScriptOld \/ KeyExpires

Spec == Init /\ [][Next]_vars

-----------------------------------------------------------------------------
(* Properties *)

\* Rotation breaks no token: as long as an instance runs it verifies, and publishes
\* for others, every key it has signed with and that has not expired.
TokensVerify == \A i \in Inst : \A k \in signedBy[i] \ expired : ByKid(i, k)

\* Tokens survive restarts: a key that has signed is in the directory or on its way
\* there, unless it was made without a save or its save was cut off.
KeysDurable ==
  \A k \in signed \ (expired \cup unsaved) :
    disk[k] # Absent \/ \E i \in Inst : k \in saving[i]

\* What was in the directory when an instance started is in its store.
RestartRestores ==
  \A i \in Inst : pc[i] = "serving" => \A k \in listing[i] \ expired : ByKid(i, k)
=============================================================================

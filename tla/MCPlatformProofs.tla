-------------------------- MODULE MCPlatformProofs --------------------------
(***************************************************************************)
(* What the platform's parts promise, for every number of operators,       *)
(* instances, requests, people, resources and codes: the MFA secrets, the  *)
(* signing keys, Terraform and the backups, the ways to sign in and the    *)
(* requests to the server.  The parts share no state, so every part has an *)
(* invariant of its own, stated for the arguments its instance is used     *)
(* with.                                                                   *)
(***************************************************************************)
EXTENDS MCPlatform, WellFoundedInduction, TLAPS

-----------------------------------------------------------------------------
(* The re-encryption of MFA secrets *)

\* What is stored for a user, what a backup row holds and what the tool has read are all
\* the secret of the authenticator, unless the user is known to be out of date.
Backed == \A b \in backup : b.value # Mfa!None
  /\ (b.user \in stale \/ b.value.secret = truth[b.user])
ReadIs == toolPc \in {"backup", "write"} =>
            read # Mfa!None /\ (cur \in stale \/ read.secret = truth[cur])
Storing == \A u \in User : stored[u] # Mfa!None

MfaInv == Mfa!TypeOK /\ Mfa!SecretKept /\ Backed /\ ReadIs /\ Storing

\* Every value but the missing one is a secret in a format.
LEMMA MfaValues ==
  /\ \A v \in Mfa!Values \ {Mfa!None} : v \in [format : Mfa!Formats, secret : 1..Secrets + 1]
  /\ \A f \in Mfa!Formats, s \in 1..Secrets + 1 :
       Mfa!Value(f, s) \in Mfa!Values \ {Mfa!None} /\ Mfa!Value(f, s).secret = s
  /\ {"v2", "v3"} \subseteq Mfa!Formats
  BY MfaAssumption DEF Mfa!Values, Mfa!None, Mfa!Value, Mfa!Formats, Mfa!Junk

\* At the start every user has the first secret.
LEMMA InitMfa == Mfa!Init => MfaInv
<1> SUFFICES ASSUME Mfa!Init PROVE MfaInv
    OBVIOUS
<1>1. 1 \in 1..Secrets + 1 /\ 1 \in 1..Secrets BY MfaAssumption
<1>2. \A u \in User : stored[u] \in Mfa!Values \ {Mfa!None} /\ stored[u].secret = 1
      BY <1>1, MfaValues DEF Mfa!Init
<1>3. cur \in User BY MfaAssumption DEF Mfa!Init
<1> QED BY <1>1, <1>2, <1>3, MfaValues
        DEF Mfa!Init, MfaInv, Mfa!TypeOK, Mfa!SecretKept, Backed, ReadIs, Storing, Mfa!Values

\* A write that finds what was read keeps the secret, but for 004 and a v3 value.
LEMMA MfaRewraps ==
  ASSUME Mfa!TypeOK, read # Mfa!None
  PROVE  /\ Mfa!Rewrapped(read) \in Mfa!Values \ {Mfa!None}
         /\ ~(tool = "004" /\ read.format = "v3") => Mfa!Rewrapped(read).secret = read.secret
<1>1. read.secret \in 1..Secrets + 1 BY MfaValues DEF Mfa!TypeOK
<1> QED BY <1>1, MfaValues, MfaAssumption DEF Mfa!Rewrapped, Mfa!Junk

\* Every step of the tools and of the users keeps the invariant.
LEMMA MfaStep == MfaInv /\ [Mfa!Next]_(Mfa!vars) => MfaInv'
<1> SUFFICES ASSUME MfaInv, [Mfa!Next]_(Mfa!vars) PROVE MfaInv'
    OBVIOUS
<1> USE MfaValues DEF MfaInv
<1>1. CASE Mfa!Apply
      BY <1>1 DEF Mfa!Apply, Mfa!TypeOK, Mfa!SecretKept, Backed, ReadIs, Storing
<1>2. ASSUME NEW u \in User, Mfa!Scan(u) PROVE MfaInv'
      BY <1>2 DEF Mfa!Scan, Mfa!TypeOK, Mfa!SecretKept, Backed, ReadIs, Storing
<1>3. CASE Mfa!Backup
      BY <1>3 DEF Mfa!Backup, Mfa!TypeOK, Mfa!SecretKept, Backed, ReadIs, Storing
<1>4. CASE Mfa!Write
      BY <1>4, MfaRewraps
      DEF Mfa!Write, Mfa!StillThere, Mfa!TypeOK, Mfa!SecretKept, Backed, ReadIs, Storing, Mfa!Values
<1>5. CASE Mfa!Rollback
      BY <1>5 DEF Mfa!Rollback, Mfa!TypeOK, Mfa!SecretKept, Backed, ReadIs, Storing
<1>6. CASE Mfa!Clear
      BY <1>6 DEF Mfa!Clear, Mfa!TypeOK, Mfa!SecretKept, Backed, ReadIs, Storing, Mfa!Values
<1>7. CASE Mfa!Ends
      BY <1>7 DEF Mfa!Ends, Mfa!TypeOK, Mfa!SecretKept, Backed, ReadIs, Storing, Mfa!Values
<1>8. ASSUME NEW u \in User, Mfa!Enrol(u) PROVE MfaInv'
  <2>1. truth[u] + 1 \in 1..Secrets /\ truth[u] + 1 \in 1..Secrets + 1
        BY <1>8, MfaAssumption, SMTT(30) DEF Mfa!Enrol, Mfa!TypeOK
  <2> QED BY <1>8, <2>1, SMTT(30)
          DEF Mfa!Enrol, Mfa!MarkStale, Mfa!Outdated, Mfa!TypeOK, Mfa!SecretKept, Backed, ReadIs,
              Storing
<1>9. CASE UNCHANGED Mfa!vars
      BY <1>9 DEF Mfa!vars, Mfa!TypeOK, Mfa!SecretKept, Backed, ReadIs, Storing
<1> QED BY <1>1, <1>2, <1>3, <1>4, <1>5, <1>6, <1>7, <1>8, <1>9 DEF Mfa!Next, Mfa!ToolNext

\* Re-encrypting MFA secrets changes no secret and never replaces a newer one: whatever
\* runs, rollbacks, failures and enrolments overlap, what is stored decrypts to what the
\* authenticator has.
THEOREM SecretsKept == Spec => SecretsHold
<1>1. Init => MfaInv
      BY InitMfa DEF Init
<1>2. [Next]_vars => [Mfa!Next]_(Mfa!vars)
      BY DEF Next, vars, innerVars, mfaVars, Mfa!vars
<1>3. MfaInv /\ [Next]_vars => MfaInv'
      BY <1>2, MfaStep
<1>4. MfaInv => (part = "mfa" => Mfa!TypeOK /\ Mfa!SecretKept)
      BY DEF MfaInv
<1>5. MfaInv /\ [Next]_vars
        => [(Mfa!Write /\ ~(tool = "004" /\ read.format = "v3")) =>
              \A u \in User : stored'[u].secret = stored[u].secret]_(Mfa!vars)
  <2> SUFFICES ASSUME MfaInv, Mfa!Write, ~(tool = "004" /\ read.format = "v3"), NEW u \in User
               PROVE  stored'[u].secret = stored[u].secret
      OBVIOUS
  <2> QED BY MfaRewraps DEF MfaInv, Mfa!TypeOK, Mfa!Write, Mfa!StillThere, ReadIs
<1> QED BY <1>1, <1>3, <1>4, <1>5, PTL DEF Spec, SecretsHold, Mfa!NotOverwritten

-----------------------------------------------------------------------------
(* The signing keys of the instances *)

\* A set of numbers has a least one.
LEMMA LeastIs == ASSUME NEW S \in SUBSET Nat, S # {} PROVE \E x \in S : \A y \in S : x <= y
<1>1. PICK x \in S : \A y \in S : ~(<<y, x>> \in OpToRel(<, Nat))
      BY WFMin, NatLessThanWellFounded, Zenon
<1>2. \A y \in S : ~(y < x)
      BY <1>1 DEF OpToRel
<1> QED BY <1>2

\* A set of numbers up to n has a greatest one.
LEMMA GreatestIs ==
  ASSUME NEW n \in Nat, NEW S \in SUBSET (0..n), S # {} PROVE \E x \in S : \A y \in S : x >= y
<1> DEFINE T == {n - x : x \in S}
<1>1. T \in SUBSET Nat OBVIOUS
<1>2. PICK s \in S : TRUE OBVIOUS
<1>3. n - s \in T OBVIOUS
<1>4. PICK t \in T : \A u \in T : t <= u BY <1>1, <1>3, LeastIs
<1>5. PICK x \in S : t = n - x OBVIOUS
<1>6. \A y \in S : n - x <= n - y BY <1>4, <1>5
<1> QED BY <1>6

\* What Min and Max choose.
LEMMA MinMax ==
  ASSUME NEW I, NEW n \in Nat, NEW S \in SUBSET (1..n), S # {}
  PROVE  KeysOf(I, n)!Min(S) \in S /\ KeysOf(I, n)!Max(S) \in S
<1>1. S \in SUBSET Nat /\ S \in SUBSET (0..n) OBVIOUS
<1>2. \E x \in S : \A y \in S : x <= y BY <1>1, LeastIs
<1>3. \E x \in S : \A y \in S : x >= y BY <1>1, GreatestIs
<1> QED BY <1>2, <1>3 DEF KeysOf!Min, KeysOf!Max

\* Until an instance serves it has signed nothing, and saves the key it starts with only.
Starting(I) ==
  \A i \in I : /\ bootPc[i] # "serving" => signedBy[i] = {}
               /\ bootPc[i] \in {"down", "listed"} => saving[i] = {} /\ writing[i] = 0
               /\ bootPc[i] \in {"down", "listed"} => \A k \in DOMAIN mem[i] : mem[i][k] = "none"

\* A key is in the directory, on its way there, or known to be made without a save.
Kept(I, k) == disk[k] # "none" \/ k \in unsaved \/ \E i \in I : k \in saving[i]

\* The keys of every store and the keys that have signed are kept.
AllKept(I, n) ==
  /\ \A i \in I, k \in 1..n : mem[i][k] # "none" => k \in expired \/ Kept(I, k)
  /\ \A k \in signed : k \in expired \/ Kept(I, k)

\* What an instance listed was in the directory, and is in its store once it has read it.
Restored(I) ==
  \A i \in I : \A k \in listing[i] :
    /\ disk[k] # "none"
    /\ bootPc[i] \in {"starting", "serving"} /\ k \notin expired => mem[i][k] # "none"

\* Older keys expire first.
OldFirst == \A k \in expired : \A l \in 1..k : l \in expired

KeysInv(I, n) ==
  KeysOf(I, n)!TypeOK /\ OldFirst /\ Starting(I) /\ AllKept(I, n) /\ KeysOf(I, n)!TokensVerify
    /\ Restored(I)

\* Nothing is there at the start.
LEMMA InitKeys == ASSUME NEW I, NEW n \in Nat, KeysOf(I, n)!Init PROVE KeysInv(I, n)
<1> USE DEF KeysOf!Kid, KeysOf!Absent, KeysOf!Nothing, KeysOf!Init
<1>1. KeysOf(I, n)!TypeOK
      BY DEF KeysOf!TypeOK, KeysOf!Status
<1>2. OldFirst /\ Starting(I) /\ AllKept(I, n) /\ KeysOf(I, n)!TokensVerify /\ Restored(I)
      BY DEF OldFirst, Starting, AllKept, Kept, KeysOf!TokensVerify, Restored
<1> QED BY <1>1, <1>2 DEF KeysInv

\* The keys a rotation or a save may take first.
LEMMA FirstIs ==
  ASSUME NEW I, NEW n \in Nat, NEW i \in I, NEW S \in SUBSET (1..n), S # {}
  PROVE  KeysOf(I, n)!First(i, S) \subseteq S
  BY MinMax DEF KeysOf!First

\* The store with a new key: what has expired is gone, the rest is as it was.
LEMMA NewKeyIs ==
  ASSUME NEW I, NEW n \in Nat, NEW m \in [1..n -> {"ACTIVE", "VERIFY-ONLY", "none"}],
         next \in 1..n
  PROVE  /\ KeysOf(I, n)!WithNewKey(m) \in [1..n -> {"ACTIVE", "VERIFY-ONLY", "none"}]
         /\ KeysOf(I, n)!WithNewKey(m)[next] = "ACTIVE"
         /\ \A k \in 1..n \ {next} : KeysOf(I, n)!WithNewKey(m)[k] = IF k \in expired THEN "none" ELSE m[k]
  BY DEF KeysOf!WithNewKey, KeysOf!Kid, KeysOf!Absent

\* What a store may do between its start and its end: grow by the next key, and lose keys
\* that have expired; a new key is saved or noted as unsaved.
StoreGrows(I, n, i) ==
  /\ mem' \in [I -> [1..n -> {"ACTIVE", "VERIFY-ONLY", "none"}]]
  /\ \A j \in I \ {i} : mem'[j] = mem[j]
  /\ \A k \in 1..n : /\ mem[i][k] # "none" /\ k \notin expired => mem'[i][k] # "none"
                     /\ mem'[i][k] # "none" => mem[i][k] # "none" \/ k = next
  /\ own' \in [I -> SUBSET (1..n)] /\ saving' \in [I -> SUBSET (1..n)]
  /\ unsaved \subseteq unsaved' /\ unsaved' \subseteq 1..n /\ next' \in 1..(n + 1)
  /\ \A j \in I \ {i} : saving'[j] = saving[j]
  /\ saving'[i] = saving[i] \/ (saving[i] = {} /\ next \in saving'[i])
  /\ next' # next => next \in saving'[i] \/ next \in unsaved'
  /\ next' = next => mem' = mem
  /\ UNCHANGED <<disk, tmp, expired, bootPc, listing, litter, writing, plan>>

\* A rotation.
LEMMA RotateGrows ==
  ASSUME NEW I, NEW n \in Nat, NEW i \in I, KeysOf(I, n)!TypeOK, KeysOf(I, n)!Rotate(i)
  PROVE  StoreGrows(I, n, i) /\ UNCHANGED <<signedBy, signed>>
<1> USE DEF KeysOf!Kid, KeysOf!Absent
<1> DEFINE new == KeysOf(I, n)!WithNewKey(mem[i])
           Sta == {"ACTIVE", "VERIFY-ONLY", "none"}
<1>1. next \in 1..n /\ mem[i] \in [1..n -> Sta] /\ saving[i] = {}
      BY DEF KeysOf!Rotate, KeysOf!TypeOK, KeysOf!Status
<1>2. /\ new \in [1..n -> Sta] /\ new[next] = "ACTIVE"
      /\ \A k \in 1..n \ {next} : new[k] = IF k \in expired THEN "none" ELSE mem[i][k]
      BY <1>1, NewKeyIs
<1> HIDE DEF new
<1>3. /\ mem \in [I -> [1..n -> Sta]] /\ saving \in [I -> SUBSET (1..n)] /\ unsaved \subseteq 1..n
      BY DEF KeysOf!TypeOK, KeysOf!Status
<1>4. own' \in [I -> SUBSET (1..n)] /\ next' = next + 1 /\ next' \in 1..(n + 1)
      BY <1>1 DEF KeysOf!Rotate, KeysOf!TypeOK
<1>5. UNCHANGED <<disk, tmp, expired, bootPc, listing, litter, writing, plan, signedBy, signed>>
      BY DEF KeysOf!Rotate, KeysOf!files, KeysOf!boot
<1>6. ASSUME NEW m \in [1..n -> Sta], mem' = [mem EXCEPT ![i] = m],
             \A k \in 1..n : (m[k] = "none") = (new[k] = "none")
      PROVE  /\ mem' \in [I -> [1..n -> Sta]] /\ \A j \in I \ {i} : mem'[j] = mem[j]
             /\ \A k \in 1..n : /\ mem[i][k] # "none" /\ k \notin expired => mem'[i][k] # "none"
                                /\ mem'[i][k] # "none" => mem[i][k] # "none" \/ k = next
             /\ mem'[i][next] # "none"
      BY <1>1, <1>2, <1>3, <1>6
<1>7. CASE KeysOf(I, n)!Active(i) = {}
  <2>1. mem' = [mem EXCEPT ![i] = new] /\ UNCHANGED unsaved
        /\ saving' = [saving EXCEPT ![i] = {k \in 1..n : mem'[i][k] # "none"}]
        BY <1>7 DEF KeysOf!Rotate, KeysOf!SaveAll, new
  <2> QED BY <1>1, <1>2, <1>3, <1>4, <1>5, <1>6, <2>1 DEF StoreGrows
<1>8. ASSUME NEW old \in KeysOf(I, n)!Active(i), old \notin expired, UNCHANGED unsaved,
             mem' = [mem EXCEPT ![i] = [new EXCEPT ![old] = "VERIFY-ONLY"]],
             saving' = [saving EXCEPT ![i] = {k \in 1..n : mem'[i][k] # "none"}]
      PROVE  StoreGrows(I, n, i)
  <2>1. old \in 1..n /\ new[old] # "none"
        BY <1>2, <1>8 DEF KeysOf!Active
  <2>2. /\ [new EXCEPT ![old] = "VERIFY-ONLY"] \in [1..n -> Sta]
        /\ \A k \in 1..n : ([new EXCEPT ![old] = "VERIFY-ONLY"][k] = "none") = (new[k] = "none")
        BY <1>2, <2>1
  <2>3. /\ mem' \in [I -> [1..n -> Sta]] /\ \A j \in I \ {i} : mem'[j] = mem[j]
        /\ \A k \in 1..n : /\ mem[i][k] # "none" /\ k \notin expired => mem'[i][k] # "none"
                           /\ mem'[i][k] # "none" => mem[i][k] # "none" \/ k = next
        /\ mem'[i][next] # "none"
        BY <1>6, <1>8, <2>2
  <2>4. /\ saving' \in [I -> SUBSET (1..n)] /\ next \in saving'[i]
        /\ \A j \in I \ {i} : saving'[j] = saving[j]
        BY <1>1, <1>3, <1>8, <2>3
  <2>5. /\ unsaved \subseteq unsaved' /\ unsaved' \subseteq 1..n /\ next' # next
        /\ UNCHANGED <<disk, tmp, expired, bootPc, listing, litter, writing, plan>>
        BY <1>1, <1>3, <1>4, <1>5, <1>8
  <2> QED BY <1>1, <1>4, <2>3, <2>4, <2>5 DEF StoreGrows
<1>9. ASSUME mem' = [mem EXCEPT ![i] = new], unsaved' = unsaved \cup {next}, UNCHANGED saving
      PROVE  StoreGrows(I, n, i)
      BY <1>1, <1>2, <1>3, <1>4, <1>5, <1>6, <1>9 DEF StoreGrows
<1>10. CASE KeysOf(I, n)!Active(i) # {}
  <2>1. KeysOf(I, n)!First(i, KeysOf(I, n)!Active(i)) \subseteq KeysOf(I, n)!Active(i)
        BY <1>10, FirstIs DEF KeysOf!Active
  <2>2. PICK old \in KeysOf(I, n)!First(i, KeysOf(I, n)!Active(i)) :
          \/ /\ old \notin expired
             /\ mem' = [mem EXCEPT ![i] = [new EXCEPT ![old] = "VERIFY-ONLY"]]
             /\ saving' = [saving EXCEPT ![i] = KeysOf(I, n)!SaveAll(i)] /\ UNCHANGED unsaved
          \/ /\ old \in expired
             /\ mem' = [mem EXCEPT ![i] = new]
             /\ unsaved' = unsaved \cup {next} /\ UNCHANGED saving
        BY <1>10 DEF KeysOf!Rotate, new
  <2>3. KeysOf(I, n)!SaveAll(i) = {k \in 1..n : mem'[i][k] # "none"} BY DEF KeysOf!SaveAll
  <2>4. CASE old \in expired BY <1>5, <1>9, <2>2, <2>4
  <2>5. CASE old \notin expired
    <3>1. old \in KeysOf(I, n)!Active(i) BY <2>1
    <3>2. /\ mem' = [mem EXCEPT ![i] = [new EXCEPT ![old] = "VERIFY-ONLY"]] /\ UNCHANGED unsaved
          /\ saving' = [saving EXCEPT ![i] = {k \in 1..n : mem'[i][k] # "none"}]
          BY <2>2, <2>3, <2>5
    <3> QED BY <1>5, <1>8, <2>5, <3>1, <3>2
  <2> QED BY <2>4, <2>5
<1> QED BY <1>5, <1>7, <1>10

\* Signing: with a key of the store, or with a new one.
LEMMA SignGrows ==
  ASSUME NEW I, NEW n \in Nat, NEW i \in I, KeysOf(I, n)!TypeOK, KeysOf(I, n)!Sign(i)
  PROVE  /\ StoreGrows(I, n, i) /\ bootPc[i] = "serving"
         /\ \E k \in 1..n : /\ mem'[i][k] # "none" /\ (k \in expired => k = next)
                            /\ signedBy' = [signedBy EXCEPT ![i] = @ \cup {k}]
                            /\ signed' = signed \cup {k}
<1> USE DEF KeysOf!Kid, KeysOf!Absent
<1> DEFINE Sta == {"ACTIVE", "VERIFY-ONLY", "none"}
           usable == KeysOf(I, n)!Active(i) \ expired
<1>1. /\ mem \in [I -> [1..n -> Sta]] /\ saving \in [I -> SUBSET (1..n)] /\ unsaved \subseteq 1..n
      /\ own \in [I -> SUBSET (1..n)] /\ next \in 1..(n + 1)
      BY DEF KeysOf!TypeOK, KeysOf!Status
<1>2. /\ UNCHANGED <<disk, tmp, expired, bootPc, listing, litter, saving, writing, plan>>
      /\ bootPc[i] = "serving"
      BY DEF KeysOf!Sign, KeysOf!files, KeysOf!boot, KeysOf!save
<1>3. CASE usable # {} /\ KeysOf(I, n)!Signs(i, KeysOf(I, n)!Max(usable))
           /\ UNCHANGED <<next, mem, own, unsaved>>
  <2>1. KeysOf(I, n)!Max(usable) \in usable
    <3>1. usable \in SUBSET (1..n) BY DEF KeysOf!Active
    <3> QED BY <1>3, <3>1, MinMax
  <2>2. KeysOf(I, n)!Max(usable) \in 1..n /\ mem[i][KeysOf(I, n)!Max(usable)] # "none"
        /\ KeysOf(I, n)!Max(usable) \notin expired
        BY <2>1 DEF KeysOf!Active
  <2>3. StoreGrows(I, n, i) BY <1>1, <1>2, <1>3 DEF StoreGrows
  <2> QED BY <1>2, <1>3, <2>2, <2>3 DEF KeysOf!Signs
<1>4. CASE /\ next <= n /\ KeysOf(I, n)!Signs(i, next)
           /\ mem' = [mem EXCEPT ![i] = KeysOf(I, n)!WithNewKey(mem[i])]
           /\ own' = [own EXCEPT ![i] = @ \cup {next}] /\ next' = next + 1
           /\ unsaved' = unsaved \cup {next}
  <2> DEFINE new == KeysOf(I, n)!WithNewKey(mem[i])
  <2>1. next \in 1..n /\ mem[i] \in [1..n -> Sta] /\ next' \in 1..(n + 1) BY <1>1, <1>4
  <2>2. /\ new \in [1..n -> Sta] /\ new[next] = "ACTIVE"
        /\ \A k \in 1..n \ {next} : new[k] = IF k \in expired THEN "none" ELSE mem[i][k]
        BY <2>1, NewKeyIs
  <2> HIDE DEF new
  <2>3. mem' = [mem EXCEPT ![i] = new] BY <1>4 DEF new
  <2>4. mem'[i] = new /\ mem' \in [I -> [1..n -> Sta]] BY <1>1, <2>2, <2>3
  <2>5. StoreGrows(I, n, i) BY <1>1, <1>2, <1>4, <2>1, <2>2, <2>3, <2>4 DEF StoreGrows
  <2> QED BY <1>2, <1>4, <2>1, <2>2, <2>4, <2>5 DEF KeysOf!Signs
<1> QED BY <1>3, <1>4 DEF KeysOf!Sign, KeysOf!store

\* A start: the keys that were listed, or a first one, which is then saved.
Adopts(I, n, i, m) ==
  /\ m \in [1..n -> {"ACTIVE", "VERIFY-ONLY", "none"}] /\ mem' = [mem EXCEPT ![i] = m]
  /\ tmp' \in [1..n -> {"ACTIVE", "VERIFY-ONLY", "none"}] /\ bootPc[i] = "listed"
  /\ litter' \in [I -> SUBSET (1..n)]
  /\ UNCHANGED <<disk, expired, listing, writing, plan, signedBy, signed, unsaved>>
  /\ \/ /\ \A k \in 1..n : m[k] = IF k \in listing[i] \ expired THEN disk[k] ELSE "none"
        /\ bootPc' = [bootPc EXCEPT ![i] = "serving"] /\ UNCHANGED <<next, own, saving>>
     \/ /\ \A k \in listing[i] \ expired : disk[k] = "none"
        /\ \A k \in 1..n : m[k] # "none" => k = next
        /\ bootPc' = [bootPc EXCEPT ![i] = "starting"]
        /\ own' = [own EXCEPT ![i] = {next}] /\ saving' = [saving EXCEPT ![i] = {next}]
        /\ next \in 1..n /\ next' = next + 1

\* A start is one of the two.
LEMMA AdoptDoes ==
  ASSUME NEW I, NEW n \in Nat, NEW i \in I, KeysOf(I, n)!TypeOK, KeysOf(I, n)!Adopt(i)
  PROVE  \E m : Adopts(I, n, i, m)
<1> USE DEF KeysOf!Kid, KeysOf!Absent
<1> DEFINE Sta == {"ACTIVE", "VERIFY-ONLY", "none"}
           seen1 == [k \in 1..n |-> IF k \in listing[i] \ expired THEN disk[k] ELSE "none"]
<1>1. /\ disk \in [1..n -> Sta] /\ tmp \in [1..n -> Sta] /\ litter \in [I -> SUBSET (1..n)]
      /\ listing[i] \subseteq 1..n /\ next \in 1..(n + 1)
      BY DEF KeysOf!TypeOK, KeysOf!Status
<1>2. /\ tmp' \in [1..n -> Sta] /\ litter' \in [I -> SUBSET (1..n)] /\ bootPc[i] = "listed"
      BY <1>1 DEF KeysOf!Adopt
<1>3. UNCHANGED <<disk, expired, listing, writing, plan, signedBy, signed, unsaved>>
      BY DEF KeysOf!Adopt, KeysOf!hist
<1>4. seen1 \in [1..n -> Sta] BY <1>1
<1>5. KeysOf(I, n)!Nothing \in [1..n -> Sta] /\ \A k \in 1..n : KeysOf(I, n)!Nothing[k] = "none"
   BY DEF KeysOf!Nothing
<1>6. CASE /\ bootPc' = [bootPc EXCEPT ![i] = "serving"] /\ mem' = [mem EXCEPT ![i] = seen1]
           /\ UNCHANGED <<next, own, saving>>
      BY <1>2, <1>3, <1>4, <1>6 DEF Adopts
<1>7. CASE /\ seen1 = KeysOf(I, n)!Nothing /\ next <= n
           /\ bootPc' = [bootPc EXCEPT ![i] = "starting"]
           /\ mem' = [mem EXCEPT ![i] = KeysOf(I, n)!WithNewKey(KeysOf(I, n)!Nothing)]
           /\ own' = [own EXCEPT ![i] = {next}] /\ saving' = [saving EXCEPT ![i] = {next}]
           /\ next' = next + 1
  <2>1. next \in 1..n BY <1>1, <1>7
  <2>2. /\ KeysOf(I, n)!WithNewKey(KeysOf(I, n)!Nothing) \in [1..n -> Sta]
        /\ \A k \in 1..n : KeysOf(I, n)!WithNewKey(KeysOf(I, n)!Nothing)[k] # "none" => k = next
        BY <1>5, <2>1, NewKeyIs
  <2>3. \A k \in listing[i] \ expired : disk[k] = "none"
        BY <1>1, <1>5, <1>7
  <2> QED BY <1>2, <1>3, <1>7, <2>1, <2>2, <2>3 DEF Adopts
<1> QED BY <1>6, <1>7 DEF KeysOf!Adopt


\* A key expires with all before it.
LEMMA OldStayFirst ==
  ASSUME NEW I, NEW n \in Nat, KeysInv(I, n), KeysOf(I, n)!Next
  PROVE  OldFirst'
<1> USE DEF KeysInv, KeysOf!Kid, KeysOf!Absent
<1>1. ASSUME NEW i \in I, KeysOf(I, n)!Load(i) PROVE OldFirst'
      BY <1>1 DEF OldFirst, KeysOf!TypeOK, KeysOf!Load, KeysOf!files, KeysOf!store, KeysOf!save,
         KeysOf!hist
<1>2. ASSUME NEW i \in I, KeysOf(I, n)!Adopt(i) PROVE OldFirst'
  <2>1. PICK m : Adopts(I, n, i, m) BY <1>2, AdoptDoes
  <2> QED BY <2>1 DEF Adopts, OldFirst, KeysOf!TypeOK
<1>3. ASSUME NEW i \in I, KeysOf(I, n)!WriteTmp(i) PROVE OldFirst'
  <2>1. KeysOf(I, n)!First(i, saving[i]) \subseteq saving[i] BY <1>3, FirstIs DEF KeysOf!WriteTmp,
     KeysOf!TypeOK
  <2> QED BY <1>3, <2>1 DEF OldFirst, KeysOf!TypeOK, KeysOf!WriteTmp, KeysOf!boot, KeysOf!store,
     KeysOf!hist
<1>4. ASSUME NEW i \in I, KeysOf(I, n)!Rename(i) PROVE OldFirst'
      BY <1>4 DEF OldFirst, KeysOf!TypeOK, KeysOf!Rename, KeysOf!Started, KeysOf!store,
         KeysOf!hist
<1>5. ASSUME NEW i \in I, KeysOf(I, n)!SaveFails(i) PROVE OldFirst'
  <2>1. CASE bootPc[i] = "starting"
        BY <1>5, <2>1 DEF OldFirst, KeysOf!TypeOK, KeysOf!SaveFails, KeysOf!Crashed,
           KeysOf!Nothing, KeysOf!files, KeysOf!boot, KeysOf!store, KeysOf!hist
  <2>2. CASE bootPc[i] # "starting"
        BY <1>5, <2>2 DEF OldFirst, KeysOf!TypeOK, KeysOf!SaveFails, KeysOf!Crashed,
           KeysOf!Nothing, KeysOf!files, KeysOf!boot, KeysOf!store, KeysOf!hist
  <2> QED BY <2>1, <2>2
<1>6. ASSUME NEW i \in I, KeysOf(I, n)!Crash(i) PROVE OldFirst'
      BY <1>6 DEF OldFirst, KeysOf!TypeOK, KeysOf!Crash, KeysOf!Crashed, KeysOf!Nothing,
         KeysOf!files
<1>7. ASSUME NEW i \in I, KeysOf(I, n)!Rotate(i) PROVE OldFirst'
  <2>1. StoreGrows(I, n, i) /\ UNCHANGED <<signedBy, signed>> BY <1>7, RotateGrows
  <2>2. bootPc[i] = "serving" BY <1>7 DEF KeysOf!Rotate
  <2> QED BY <2>1, <2>2 DEF StoreGrows, OldFirst, KeysOf!TypeOK
<1>8. ASSUME NEW i \in I, KeysOf(I, n)!Sign(i) PROVE OldFirst'
  <2>1. StoreGrows(I, n, i) /\ bootPc[i] = "serving" BY <1>8, SignGrows
  <2>2. PICK k \in 1..n : /\ mem'[i][k] # "none" /\ (k \in expired => k = next)
                            /\ signedBy' = [signedBy EXCEPT ![i] = @ \cup {k}]
                            /\ signed' = signed \cup {k}
        BY <1>8, SignGrows
  <2> QED BY <2>1, <2>2 DEF StoreGrows, OldFirst, KeysOf!TypeOK
<1>9. CASE KeysOf(I, n)!ScriptNew
      BY <1>9 DEF OldFirst, KeysOf!TypeOK, KeysOf!ScriptNew, KeysOf!boot, KeysOf!store,
         KeysOf!save, KeysOf!hist
<1>10. CASE KeysOf(I, n)!ScriptOld
      BY <1>10 DEF OldFirst, KeysOf!TypeOK, KeysOf!ScriptOld, KeysOf!boot, KeysOf!store,
         KeysOf!save, KeysOf!hist
<1>11. CASE KeysOf(I, n)!KeyExpires
      BY <1>11 DEF OldFirst, KeysOf!TypeOK, KeysOf!KeyExpires, KeysOf!files, KeysOf!boot,
         KeysOf!store, KeysOf!save, KeysOf!hist
<1> QED BY <1>1, <1>2, <1>3, <1>4, <1>5, <1>6, <1>7, <1>8, <1>9, <1>10, <1>11
        DEF KeysOf!Next

\* The keys keep their types.
LEMMA KeyTypes ==
  ASSUME NEW I, NEW n \in Nat, KeysInv(I, n), KeysOf(I, n)!Next
  PROVE  KeysOf(I, n)!TypeOK'
<1> USE DEF KeysInv, KeysOf!Kid, KeysOf!Absent
<1>1. ASSUME NEW i \in I, KeysOf(I, n)!Load(i) PROVE KeysOf(I, n)!TypeOK'
      BY <1>1 DEF KeysOf!TypeOK, KeysOf!Status, KeysOf!Active, KeysOf!Load, KeysOf!files,
         KeysOf!store, KeysOf!save, KeysOf!hist
<1>2. ASSUME NEW i \in I, KeysOf(I, n)!Adopt(i) PROVE KeysOf(I, n)!TypeOK'
  <2>1. PICK m : Adopts(I, n, i, m) BY <1>2, AdoptDoes
  <2>2. /\ mem' \in [I -> [1..n -> {"ACTIVE", "VERIFY-ONLY", "none"}]]
        /\ bootPc' \in [I -> {"down", "listed", "starting", "serving"}]
        BY <2>1, ZenonT(60) DEF Adopts, KeysOf!TypeOK, KeysOf!Status
  <2>3. /\ own' \in [I -> SUBSET (1..n)] /\ saving' \in [I -> SUBSET (1..n)] /\ next' \in 1..(n + 1)
    <3>1. /\ own \in [I -> SUBSET (1..n)] /\ saving \in [I -> SUBSET (1..n)] /\ next \in 1..(n + 1)
          BY DEF KeysOf!TypeOK
    <3>2. CASE UNCHANGED <<next, own, saving>> BY <3>1, <3>2
    <3>3. CASE /\ own' = [own EXCEPT ![i] = {next}] /\ saving' = [saving EXCEPT ![i] = {next}]
               /\ next \in 1..n /\ next' = next + 1
      <4>1. {next} \in SUBSET (1..n) /\ next + 1 \in 1..(n + 1) BY <3>3
      <4> QED BY <3>1, <3>3, <4>1
    <3> QED BY <2>1, <3>2, <3>3 DEF Adopts
  <2> QED BY <2>1, <2>2, <2>3 DEF Adopts, KeysOf!TypeOK, KeysOf!Status
<1>3. ASSUME NEW i \in I, KeysOf(I, n)!WriteTmp(i) PROVE KeysOf(I, n)!TypeOK'
  <2>1. KeysOf(I, n)!First(i, saving[i]) \subseteq saving[i] BY <1>3, FirstIs DEF KeysOf!WriteTmp,
     KeysOf!TypeOK
  <2> QED BY <1>3, <2>1 DEF KeysOf!TypeOK, KeysOf!Status, KeysOf!Active, KeysOf!WriteTmp,
     KeysOf!boot, KeysOf!store, KeysOf!hist
<1>4. ASSUME NEW i \in I, KeysOf(I, n)!Rename(i) PROVE KeysOf(I, n)!TypeOK'
      BY <1>4 DEF KeysOf!TypeOK, KeysOf!Status, KeysOf!Active, KeysOf!Rename, KeysOf!Started,
         KeysOf!store, KeysOf!hist
<1>5. ASSUME NEW i \in I, KeysOf(I, n)!SaveFails(i) PROVE KeysOf(I, n)!TypeOK'
  <2>1. CASE bootPc[i] = "starting"
    <3>1. mem' = [mem EXCEPT ![i] = KeysOf(I, n)!Nothing]
          /\ KeysOf(I, n)!Nothing \in [1..n -> {"none"}]
          BY <1>5, <2>1 DEF KeysOf!SaveFails, KeysOf!Crashed, KeysOf!Nothing
    <3>2. mem' \in [I -> [1..n -> KeysOf(I, n)!Status \cup {"none"}]]
          BY <3>1 DEF KeysOf!TypeOK
    <3>3. /\ unsaved' \subseteq 1..n /\ saving' \in [I -> SUBSET (1..n)]
          /\ writing' \in [I -> (1..n) \cup {0}]
          BY <1>5 DEF KeysOf!SaveFails, KeysOf!TypeOK
    <3>4. /\ bootPc' \in [I -> {"down", "listed", "starting", "serving"}]
          /\ listing' \in [I -> SUBSET (1..n)] /\ litter' \in [I -> SUBSET (1..n)]
          /\ own' \in [I -> SUBSET (1..n)] /\ signedBy' \in [I -> SUBSET (1..n)]
          BY <1>5, <2>1 DEF KeysOf!SaveFails, KeysOf!Crashed, KeysOf!TypeOK
    <3> QED BY <1>5, <3>2, <3>3, <3>4 DEF KeysOf!SaveFails, KeysOf!TypeOK, KeysOf!files
  <2>2. CASE bootPc[i] # "starting"
        BY <1>5, <2>2 DEF KeysOf!TypeOK, KeysOf!Status, KeysOf!SaveFails, KeysOf!files,
           KeysOf!boot, KeysOf!store
  <2> QED BY <2>1, <2>2
<1>6. ASSUME NEW i \in I, KeysOf(I, n)!Crash(i) PROVE KeysOf(I, n)!TypeOK'
      BY <1>6 DEF KeysOf!TypeOK, KeysOf!Status, KeysOf!Active, KeysOf!Crash, KeysOf!Crashed,
         KeysOf!Nothing, KeysOf!files
<1>7. ASSUME NEW i \in I, KeysOf(I, n)!Rotate(i) PROVE KeysOf(I, n)!TypeOK'
  <2>1. StoreGrows(I, n, i) /\ UNCHANGED <<signedBy, signed>> BY <1>7, RotateGrows
  <2>2. bootPc[i] = "serving" BY <1>7 DEF KeysOf!Rotate
  <2> QED BY <2>1, <2>2 DEF StoreGrows, KeysOf!TypeOK, KeysOf!Status
<1>8. ASSUME NEW i \in I, KeysOf(I, n)!Sign(i) PROVE KeysOf(I, n)!TypeOK'
  <2>1. StoreGrows(I, n, i) /\ bootPc[i] = "serving" BY <1>8, SignGrows
  <2>2. PICK k \in 1..n : /\ mem'[i][k] # "none" /\ (k \in expired => k = next)
                            /\ signedBy' = [signedBy EXCEPT ![i] = @ \cup {k}]
                            /\ signed' = signed \cup {k}
        BY <1>8, SignGrows
  <2> QED BY <2>1, <2>2 DEF StoreGrows, KeysOf!TypeOK, KeysOf!Status
<1>9. CASE KeysOf(I, n)!ScriptNew
      BY <1>9 DEF KeysOf!TypeOK, KeysOf!Status, KeysOf!Active, KeysOf!ScriptNew, KeysOf!boot,
         KeysOf!store, KeysOf!save, KeysOf!hist
<1>10. CASE KeysOf(I, n)!ScriptOld
      BY <1>10 DEF KeysOf!TypeOK, KeysOf!Status, KeysOf!Active, KeysOf!ScriptOld, KeysOf!boot,
         KeysOf!store, KeysOf!save, KeysOf!hist
<1>11. CASE KeysOf(I, n)!KeyExpires
      BY <1>11 DEF KeysOf!TypeOK, KeysOf!Status, KeysOf!Active, KeysOf!KeyExpires, KeysOf!files,
         KeysOf!boot, KeysOf!store, KeysOf!save, KeysOf!hist
<1> QED BY <1>1, <1>2, <1>3, <1>4, <1>5, <1>6, <1>7, <1>8, <1>9, <1>10, <1>11
        DEF KeysOf!Next

\* Signing and rotating begin once an instance serves.
LEMMA StartsClean ==
  ASSUME NEW I, NEW n \in Nat, KeysInv(I, n), KeysOf(I, n)!Next
  PROVE  Starting(I)'
<1> USE DEF KeysInv, KeysOf!Kid, KeysOf!Absent
<1>1. ASSUME NEW i \in I, KeysOf(I, n)!Load(i) PROVE Starting(I)'
      BY <1>1 DEF Starting, KeysOf!TypeOK, KeysOf!Status, KeysOf!Load, KeysOf!files, KeysOf!store,
         KeysOf!save, KeysOf!hist
<1>2. ASSUME NEW i \in I, KeysOf(I, n)!Adopt(i) PROVE Starting(I)'
  <2>1. PICK m : Adopts(I, n, i, m) BY <1>2, AdoptDoes
  <2> QED BY <2>1 DEF Adopts, Starting, KeysOf!TypeOK, KeysOf!Status
<1>3. ASSUME NEW i \in I, KeysOf(I, n)!WriteTmp(i) PROVE Starting(I)'
  <2>1. KeysOf(I, n)!First(i, saving[i]) \subseteq saving[i] BY <1>3, FirstIs DEF KeysOf!WriteTmp,
     KeysOf!TypeOK
  <2> QED BY <1>3, <2>1 DEF Starting, KeysOf!TypeOK, KeysOf!Status, KeysOf!WriteTmp, KeysOf!boot,
     KeysOf!store, KeysOf!hist
<1>4. ASSUME NEW i \in I, KeysOf(I, n)!Rename(i) PROVE Starting(I)'
      BY <1>4 DEF Starting, KeysOf!TypeOK, KeysOf!Status, KeysOf!Rename, KeysOf!Started,
         KeysOf!store, KeysOf!hist
<1>5. ASSUME NEW i \in I, KeysOf(I, n)!SaveFails(i) PROVE Starting(I)'
  <2>1. CASE bootPc[i] = "starting"
        BY <1>5, <2>1 DEF Starting, KeysOf!TypeOK, KeysOf!Status, KeysOf!SaveFails,
           KeysOf!Crashed, KeysOf!Nothing, KeysOf!files, KeysOf!boot, KeysOf!store, KeysOf!hist
  <2>2. CASE bootPc[i] # "starting"
        BY <1>5, <2>2 DEF Starting, KeysOf!TypeOK, KeysOf!Status, KeysOf!SaveFails,
           KeysOf!Crashed, KeysOf!Nothing, KeysOf!files, KeysOf!boot, KeysOf!store, KeysOf!hist
  <2> QED BY <2>1, <2>2
<1>6. ASSUME NEW i \in I, KeysOf(I, n)!Crash(i) PROVE Starting(I)'
      BY <1>6 DEF Starting, KeysOf!TypeOK, KeysOf!Status, KeysOf!Crash, KeysOf!Crashed,
         KeysOf!Nothing, KeysOf!files
<1>7. ASSUME NEW i \in I, KeysOf(I, n)!Rotate(i) PROVE Starting(I)'
  <2>1. StoreGrows(I, n, i) /\ UNCHANGED <<signedBy, signed>> BY <1>7, RotateGrows
  <2>2. bootPc[i] = "serving" BY <1>7 DEF KeysOf!Rotate
  <2> QED BY <2>1, <2>2 DEF StoreGrows, Starting
<1>8. ASSUME NEW i \in I, KeysOf(I, n)!Sign(i) PROVE Starting(I)'
  <2>1. StoreGrows(I, n, i) /\ bootPc[i] = "serving" BY <1>8, SignGrows
  <2>2. PICK k \in 1..n : /\ mem'[i][k] # "none" /\ (k \in expired => k = next)
                            /\ signedBy' = [signedBy EXCEPT ![i] = @ \cup {k}]
                            /\ signed' = signed \cup {k}
        BY <1>8, SignGrows
  <2>3. signedBy \in [I -> SUBSET (1..n)] BY DEF KeysOf!TypeOK
  <2>4. /\ \A j \in I \ {i} : mem'[j] = mem[j] /\ saving'[j] = saving[j]
        /\ UNCHANGED <<bootPc, writing>>
        BY <2>1 DEF StoreGrows
  <2>5. \A j \in I \ {i} : signedBy'[j] = signedBy[j] BY <2>2, <2>3
  <2> QED BY <2>1, <2>4, <2>5 DEF Starting
<1>9. CASE KeysOf(I, n)!ScriptNew
      BY <1>9 DEF Starting, KeysOf!TypeOK, KeysOf!Status, KeysOf!ScriptNew, KeysOf!boot,
         KeysOf!store, KeysOf!save, KeysOf!hist
<1>10. CASE KeysOf(I, n)!ScriptOld
      BY <1>10 DEF Starting, KeysOf!TypeOK, KeysOf!Status, KeysOf!ScriptOld, KeysOf!boot,
         KeysOf!store, KeysOf!save, KeysOf!hist
<1>11. CASE KeysOf(I, n)!KeyExpires
      BY <1>11 DEF Starting, KeysOf!TypeOK, KeysOf!Status, KeysOf!KeyExpires, KeysOf!files,
         KeysOf!boot, KeysOf!store, KeysOf!save, KeysOf!hist
<1> QED BY <1>1, <1>2, <1>3, <1>4, <1>5, <1>6, <1>7, <1>8, <1>9, <1>10, <1>11
        DEF KeysOf!Next

\* A key leaves a save for the directory or for the list of the unsaved.
LEMMA KeysStayKept ==
  ASSUME NEW I, NEW n \in Nat, KeysInv(I, n), KeysOf(I, n)!Next
  PROVE  AllKept(I, n)'
<1> USE DEF KeysInv, KeysOf!Kid, KeysOf!Absent
<1>1. ASSUME NEW i \in I, KeysOf(I, n)!Load(i) PROVE AllKept(I, n)'
      BY <1>1 DEF OldFirst, AllKept, Kept, Starting, KeysOf!TypeOK, KeysOf!Status, KeysOf!Active,
         KeysOf!Load, KeysOf!files, KeysOf!store, KeysOf!save, KeysOf!hist
<1>2. ASSUME NEW i \in I, KeysOf(I, n)!Adopt(i) PROVE AllKept(I, n)'
  <2>1. PICK m : Adopts(I, n, i, m) BY <1>2, AdoptDoes
  <2>2. saving \in [I -> SUBSET (1..n)] /\ saving[i] = {}
        /\ disk \in [1..n -> KeysOf(I, n)!Status \cup {"none"}]
        BY <2>1 DEF KeysOf!TypeOK, Starting, Adopts
  <2>3. \A l \in 1..n : Kept(I, l) => Kept(I, l)' BY <2>1, <2>2 DEF Adopts, Kept
  <2>4. \A l \in 1..n : m[l] # "none" => Kept(I, l)'
        BY <2>1, <2>2 DEF Adopts, Kept
  <2>5. signed \subseteq 1..n /\ mem \in [I -> [1..n -> KeysOf(I, n)!Status \cup {"none"}]]
        BY DEF KeysOf!TypeOK
  <2> QED BY <2>1, <2>3, <2>4, <2>5 DEF Adopts, AllKept
<1>3. ASSUME NEW i \in I, KeysOf(I, n)!WriteTmp(i) PROVE AllKept(I, n)'
  <2>1. KeysOf(I, n)!First(i, saving[i]) \subseteq saving[i] BY <1>3, FirstIs DEF KeysOf!WriteTmp,
     KeysOf!TypeOK
  <2> QED BY <1>3, <2>1 DEF OldFirst, AllKept, Kept, Starting, KeysOf!TypeOK, KeysOf!Status,
     KeysOf!Active, KeysOf!WriteTmp, KeysOf!boot, KeysOf!store, KeysOf!hist
<1>4. ASSUME NEW i \in I, KeysOf(I, n)!Rename(i) PROVE AllKept(I, n)'
      BY <1>4 DEF OldFirst, AllKept, Kept, Starting, KeysOf!TypeOK, KeysOf!Status, KeysOf!Active,
         KeysOf!Rename, KeysOf!Started, KeysOf!store, KeysOf!hist
<1>5. ASSUME NEW i \in I, KeysOf(I, n)!SaveFails(i) PROVE AllKept(I, n)'
  <2>1. saving \in [I -> SUBSET (1..n)] /\ signed \subseteq 1..n
        /\ mem \in [I -> [1..n -> KeysOf(I, n)!Status \cup {"none"}]]
        BY DEF KeysOf!TypeOK
  <2>2. \A l \in 1..n : Kept(I, l) => Kept(I, l)' BY <1>5, <2>1 DEF KeysOf!SaveFails, Kept,
     KeysOf!files
  <2>3. \A j \in I, l \in 1..n : mem'[j][l] # "none" => mem[j][l] # "none"
    <3>1. CASE bootPc[i] = "starting"
      <4>1. mem' = [mem EXCEPT ![i] = KeysOf(I, n)!Nothing]
            /\ \A l \in 1..n : KeysOf(I, n)!Nothing[l] = "none"
            BY <1>5, <3>1 DEF KeysOf!SaveFails, KeysOf!Crashed, KeysOf!Nothing
      <4> QED BY <2>1, <4>1
    <3>2. CASE bootPc[i] # "starting" BY <1>5, <3>2 DEF KeysOf!SaveFails, KeysOf!store
    <3> QED BY <3>1, <3>2
  <2>4. UNCHANGED <<expired, signed>> BY <1>5 DEF KeysOf!SaveFails
  <2> QED BY <2>1, <2>2, <2>3, <2>4 DEF AllKept
<1>6. ASSUME NEW i \in I, KeysOf(I, n)!Crash(i) PROVE AllKept(I, n)'
      BY <1>6 DEF OldFirst, AllKept, Kept, Starting, KeysOf!TypeOK, KeysOf!Status, KeysOf!Active,
         KeysOf!Crash, KeysOf!Crashed, KeysOf!Nothing, KeysOf!files
<1>7. ASSUME NEW i \in I, KeysOf(I, n)!Rotate(i) PROVE AllKept(I, n)'
  <2>1. StoreGrows(I, n, i) /\ UNCHANGED <<signedBy, signed>> BY <1>7, RotateGrows
  <2>2. bootPc[i] = "serving" BY <1>7 DEF KeysOf!Rotate
  <2>3. \A l \in 1..n : Kept(I, l) => Kept(I, l)' BY <2>1 DEF StoreGrows, Kept
  <2>4. \A l \in 1..n : l = next /\ next' # next => Kept(I, l)' BY <2>1 DEF StoreGrows, Kept
  <2>5. signed \subseteq 1..n BY DEF KeysOf!TypeOK
  <2> QED BY <2>1, <2>3, <2>4, <2>5 DEF StoreGrows, AllKept
<1>8. ASSUME NEW i \in I, KeysOf(I, n)!Sign(i) PROVE AllKept(I, n)'
  <2>1. StoreGrows(I, n, i) /\ bootPc[i] = "serving" BY <1>8, SignGrows
  <2>2. PICK k \in 1..n : /\ mem'[i][k] # "none" /\ (k \in expired => k = next)
                            /\ signedBy' = [signedBy EXCEPT ![i] = @ \cup {k}]
                            /\ signed' = signed \cup {k}
        BY <1>8, SignGrows
  <2>3. \A l \in 1..n : Kept(I, l) => Kept(I, l)' BY <2>1 DEF StoreGrows, Kept
  <2>4. \A l \in 1..n : l = next /\ next' # next => Kept(I, l)' BY <2>1 DEF StoreGrows, Kept
  <2>5. signed \subseteq 1..n BY DEF KeysOf!TypeOK
  <2>6. \A j \in I, l \in 1..n : mem'[j][l] # "none" => (l \in expired)' \/ Kept(I, l)'
        BY <2>1, <2>3, <2>4 DEF StoreGrows, AllKept
  <2>7. \A l \in signed' : (l \in expired)' \/ Kept(I, l)'
        BY <2>1, <2>2, <2>3, <2>5, <2>6 DEF StoreGrows, AllKept
  <2> QED BY <2>6, <2>7 DEF AllKept
<1>9. CASE KeysOf(I, n)!ScriptNew
      BY <1>9 DEF OldFirst, AllKept, Kept, Starting, KeysOf!TypeOK, KeysOf!Status, KeysOf!Active,
         KeysOf!ScriptNew, KeysOf!boot, KeysOf!store, KeysOf!save, KeysOf!hist
<1>10. CASE KeysOf(I, n)!ScriptOld
      BY <1>10 DEF OldFirst, AllKept, Kept, Starting, KeysOf!TypeOK, KeysOf!Status, KeysOf!Active,
         KeysOf!ScriptOld, KeysOf!boot, KeysOf!store, KeysOf!save, KeysOf!hist
<1>11. CASE KeysOf(I, n)!KeyExpires
      BY <1>11, SMTT(30) DEF OldFirst, AllKept, Kept, Starting, KeysOf!TypeOK, KeysOf!Status,
                             KeysOf!Active,
         KeysOf!KeyExpires, KeysOf!files, KeysOf!boot, KeysOf!store, KeysOf!save, KeysOf!hist
<1> QED BY <1>1, <1>2, <1>3, <1>4, <1>5, <1>6, <1>7, <1>8, <1>9, <1>10, <1>11
        DEF KeysOf!Next

\* A key that has signed leaves the store when it has expired.
LEMMA TokensStayGood ==
  ASSUME NEW I, NEW n \in Nat, KeysInv(I, n), KeysOf(I, n)!Next
  PROVE  KeysOf(I, n)!TokensVerify'
<1> USE DEF KeysInv, KeysOf!Kid, KeysOf!Absent
<1>1. ASSUME NEW i \in I, KeysOf(I, n)!Load(i) PROVE KeysOf(I, n)!TokensVerify'
      BY <1>1 DEF OldFirst, KeysOf!TokensVerify, KeysOf!ByKid, Starting, KeysOf!TypeOK,
         KeysOf!Status, KeysOf!Active, KeysOf!Load, KeysOf!files, KeysOf!store, KeysOf!save,
         KeysOf!hist
<1>2. ASSUME NEW i \in I, KeysOf(I, n)!Adopt(i) PROVE KeysOf(I, n)!TokensVerify'
  <2>1. PICK m : Adopts(I, n, i, m) BY <1>2, AdoptDoes
  <2> QED BY <2>1 DEF Adopts, OldFirst, KeysOf!TokensVerify, KeysOf!ByKid, Starting,
     KeysOf!TypeOK, KeysOf!Status
<1>3. ASSUME NEW i \in I, KeysOf(I, n)!WriteTmp(i) PROVE KeysOf(I, n)!TokensVerify'
  <2>1. KeysOf(I, n)!First(i, saving[i]) \subseteq saving[i] BY <1>3, FirstIs DEF KeysOf!WriteTmp,
     KeysOf!TypeOK
  <2> QED BY <1>3, <2>1 DEF OldFirst, KeysOf!TokensVerify, KeysOf!ByKid, Starting, KeysOf!TypeOK,
     KeysOf!Status, KeysOf!Active, KeysOf!WriteTmp, KeysOf!boot, KeysOf!store, KeysOf!hist
<1>4. ASSUME NEW i \in I, KeysOf(I, n)!Rename(i) PROVE KeysOf(I, n)!TokensVerify'
      BY <1>4 DEF OldFirst, KeysOf!TokensVerify, KeysOf!ByKid, Starting, KeysOf!TypeOK,
         KeysOf!Status, KeysOf!Active, KeysOf!Rename, KeysOf!Started, KeysOf!store, KeysOf!hist
<1>5. ASSUME NEW i \in I, KeysOf(I, n)!SaveFails(i) PROVE KeysOf(I, n)!TokensVerify'
  <2>1. CASE bootPc[i] = "starting"
        BY <1>5, <2>1 DEF OldFirst, KeysOf!TokensVerify, KeysOf!ByKid, Starting, KeysOf!TypeOK,
           KeysOf!Status, KeysOf!Active, KeysOf!SaveFails, KeysOf!Crashed, KeysOf!Nothing,
           KeysOf!files, KeysOf!boot, KeysOf!store, KeysOf!hist
  <2>2. CASE bootPc[i] # "starting"
        BY <1>5, <2>2 DEF OldFirst, KeysOf!TokensVerify, KeysOf!ByKid, Starting, KeysOf!TypeOK,
           KeysOf!Status, KeysOf!Active, KeysOf!SaveFails, KeysOf!Crashed, KeysOf!Nothing,
           KeysOf!files, KeysOf!boot, KeysOf!store, KeysOf!hist
  <2> QED BY <2>1, <2>2
<1>6. ASSUME NEW i \in I, KeysOf(I, n)!Crash(i) PROVE KeysOf(I, n)!TokensVerify'
      BY <1>6 DEF OldFirst, KeysOf!TokensVerify, KeysOf!ByKid, Starting, KeysOf!TypeOK,
         KeysOf!Status, KeysOf!Active, KeysOf!Crash, KeysOf!Crashed, KeysOf!Nothing, KeysOf!files
<1>7. ASSUME NEW i \in I, KeysOf(I, n)!Rotate(i) PROVE KeysOf(I, n)!TokensVerify'
  <2>1. StoreGrows(I, n, i) /\ UNCHANGED <<signedBy, signed>> BY <1>7, RotateGrows
  <2>2. bootPc[i] = "serving" BY <1>7 DEF KeysOf!Rotate
  <2> QED BY <2>1, <2>2, SMTT(30)
      DEF StoreGrows, OldFirst, KeysOf!TokensVerify, KeysOf!ByKid, Starting,
     KeysOf!TypeOK, KeysOf!Status
<1>8. ASSUME NEW i \in I, KeysOf(I, n)!Sign(i) PROVE KeysOf(I, n)!TokensVerify'
  <2>1. StoreGrows(I, n, i) /\ bootPc[i] = "serving" BY <1>8, SignGrows
  <2>2. PICK k \in 1..n : /\ mem'[i][k] # "none" /\ (k \in expired => k = next)
                            /\ signedBy' = [signedBy EXCEPT ![i] = @ \cup {k}]
                            /\ signed' = signed \cup {k}
        BY <1>8, SignGrows
  <2> QED BY <2>1, <2>2 DEF StoreGrows, OldFirst, KeysOf!TokensVerify, KeysOf!ByKid, Starting,
     KeysOf!TypeOK, KeysOf!Status
<1>9. CASE KeysOf(I, n)!ScriptNew
      BY <1>9 DEF OldFirst, KeysOf!TokensVerify, KeysOf!ByKid, Starting, KeysOf!TypeOK,
         KeysOf!Status, KeysOf!Active, KeysOf!ScriptNew, KeysOf!boot, KeysOf!store, KeysOf!save,
         KeysOf!hist
<1>10. CASE KeysOf(I, n)!ScriptOld
      BY <1>10 DEF OldFirst, KeysOf!TokensVerify, KeysOf!ByKid, Starting, KeysOf!TypeOK,
         KeysOf!Status, KeysOf!Active, KeysOf!ScriptOld, KeysOf!boot, KeysOf!store, KeysOf!save,
         KeysOf!hist
<1>11. CASE KeysOf(I, n)!KeyExpires
      BY <1>11 DEF OldFirst, KeysOf!TokensVerify, KeysOf!ByKid, Starting, KeysOf!TypeOK,
         KeysOf!Status, KeysOf!Active, KeysOf!KeyExpires, KeysOf!files, KeysOf!boot, KeysOf!store,
         KeysOf!save, KeysOf!hist
<1> QED BY <1>1, <1>2, <1>3, <1>4, <1>5, <1>6, <1>7, <1>8, <1>9, <1>10, <1>11
        DEF KeysOf!Next

\* Nothing leaves the directory, and what was listed is read.
LEMMA ListedStays ==
  ASSUME NEW I, NEW n \in Nat, KeysInv(I, n), KeysOf(I, n)!Next
  PROVE  Restored(I)'
<1> USE DEF KeysInv, KeysOf!Kid, KeysOf!Absent
<1>1. ASSUME NEW i \in I, KeysOf(I, n)!Load(i) PROVE Restored(I)'
      BY <1>1 DEF OldFirst, Restored, Starting, KeysOf!TypeOK, KeysOf!Status, KeysOf!Active,
         KeysOf!Load, KeysOf!files, KeysOf!store, KeysOf!save, KeysOf!hist
<1>2. ASSUME NEW i \in I, KeysOf(I, n)!Adopt(i) PROVE Restored(I)'
  <2>1. PICK m : Adopts(I, n, i, m) BY <1>2, AdoptDoes
  <2> QED BY <2>1 DEF Adopts, OldFirst, Restored, Starting, KeysOf!TypeOK, KeysOf!Status
<1>3. ASSUME NEW i \in I, KeysOf(I, n)!WriteTmp(i) PROVE Restored(I)'
  <2>1. KeysOf(I, n)!First(i, saving[i]) \subseteq saving[i] BY <1>3, FirstIs DEF KeysOf!WriteTmp,
     KeysOf!TypeOK
  <2> QED BY <1>3, <2>1 DEF OldFirst, Restored, Starting, KeysOf!TypeOK, KeysOf!Status,
     KeysOf!Active, KeysOf!WriteTmp, KeysOf!boot, KeysOf!store, KeysOf!hist
<1>4. ASSUME NEW i \in I, KeysOf(I, n)!Rename(i) PROVE Restored(I)'
      BY <1>4 DEF OldFirst, Restored, Starting, KeysOf!TypeOK, KeysOf!Status, KeysOf!Active,
         KeysOf!Rename, KeysOf!Started, KeysOf!store, KeysOf!hist
<1>5. ASSUME NEW i \in I, KeysOf(I, n)!SaveFails(i) PROVE Restored(I)'
  <2>1. CASE bootPc[i] = "starting"
        BY <1>5, <2>1 DEF OldFirst, Restored, Starting, KeysOf!TypeOK, KeysOf!Status,
           KeysOf!Active, KeysOf!SaveFails, KeysOf!Crashed, KeysOf!Nothing, KeysOf!files,
           KeysOf!boot, KeysOf!store, KeysOf!hist
  <2>2. CASE bootPc[i] # "starting"
        BY <1>5, <2>2 DEF OldFirst, Restored, Starting, KeysOf!TypeOK, KeysOf!Status,
           KeysOf!Active, KeysOf!SaveFails, KeysOf!Crashed, KeysOf!Nothing, KeysOf!files,
           KeysOf!boot, KeysOf!store, KeysOf!hist
  <2> QED BY <2>1, <2>2
<1>6. ASSUME NEW i \in I, KeysOf(I, n)!Crash(i) PROVE Restored(I)'
      BY <1>6 DEF OldFirst, Restored, Starting, KeysOf!TypeOK, KeysOf!Status, KeysOf!Active,
         KeysOf!Crash, KeysOf!Crashed, KeysOf!Nothing, KeysOf!files
<1>7. ASSUME NEW i \in I, KeysOf(I, n)!Rotate(i) PROVE Restored(I)'
  <2>1. StoreGrows(I, n, i) /\ UNCHANGED <<signedBy, signed>> BY <1>7, RotateGrows
  <2>2. bootPc[i] = "serving" BY <1>7 DEF KeysOf!Rotate
  <2>3. \A j \in I, l \in 1..n : mem[j][l] # "none" /\ l \notin expired => mem'[j][l] # "none"
        BY <2>1 DEF StoreGrows
  <2>4. \A j \in I : listing[j] \subseteq 1..n BY DEF KeysOf!TypeOK
  <2> QED BY <2>1, <2>3, <2>4 DEF StoreGrows, Restored
<1>8. ASSUME NEW i \in I, KeysOf(I, n)!Sign(i) PROVE Restored(I)'
  <2>1. StoreGrows(I, n, i) /\ bootPc[i] = "serving" BY <1>8, SignGrows
  <2>2. PICK k \in 1..n : /\ mem'[i][k] # "none" /\ (k \in expired => k = next)
                            /\ signedBy' = [signedBy EXCEPT ![i] = @ \cup {k}]
                            /\ signed' = signed \cup {k}
        BY <1>8, SignGrows
  <2>3. \A j \in I, l \in 1..n : mem[j][l] # "none" /\ l \notin expired => mem'[j][l] # "none"
        BY <2>1 DEF StoreGrows
  <2>4. \A j \in I : listing[j] \subseteq 1..n BY DEF KeysOf!TypeOK
  <2> QED BY <2>1, <2>3, <2>4 DEF StoreGrows, Restored
<1>9. CASE KeysOf(I, n)!ScriptNew
      BY <1>9 DEF OldFirst, Restored, Starting, KeysOf!TypeOK, KeysOf!Status, KeysOf!Active,
         KeysOf!ScriptNew, KeysOf!boot, KeysOf!store, KeysOf!save, KeysOf!hist
<1>10. CASE KeysOf(I, n)!ScriptOld
      BY <1>10 DEF OldFirst, Restored, Starting, KeysOf!TypeOK, KeysOf!Status, KeysOf!Active,
         KeysOf!ScriptOld, KeysOf!boot, KeysOf!store, KeysOf!save, KeysOf!hist
<1>11. CASE KeysOf(I, n)!KeyExpires
      BY <1>11 DEF OldFirst, Restored, Starting, KeysOf!TypeOK, KeysOf!Status, KeysOf!Active,
         KeysOf!KeyExpires, KeysOf!files, KeysOf!boot, KeysOf!store, KeysOf!save, KeysOf!hist
<1> QED BY <1>1, <1>2, <1>3, <1>4, <1>5, <1>6, <1>7, <1>8, <1>9, <1>10, <1>11
        DEF KeysOf!Next

\* Every step keeps the invariant.
LEMMA KeysStep ==
  ASSUME NEW I, NEW n \in Nat, KeysInv(I, n), [KeysOf(I, n)!Next]_(KeysOf(I, n)!vars)
  PROVE KeysInv(I, n)'
<1>1. CASE KeysOf(I, n)!Next
      BY <1>1, KeyTypes, OldStayFirst, StartsClean, KeysStayKept, TokensStayGood, ListedStays DEF
         KeysInv
<1>2. CASE UNCHANGED KeysOf(I, n)!vars
      BY <1>2 DEF KeysOf!vars, KeysOf!files, KeysOf!boot, KeysOf!store, KeysOf!save, KeysOf!hist,
         KeysInv, KeysOf!TypeOK, OldFirst, Starting,
                  AllKept, Kept, KeysOf!TokensVerify, KeysOf!ByKid, Restored
<1> QED BY <1>1, <1>2

\* The invariant says what the keys promise.
LEMMA KeysPromise ==
  ASSUME NEW I, NEW n \in Nat, KeysInv(I, n)
  PROVE  KeysOf(I, n)!TypeOK /\ KeysOf(I, n)!TokensVerify /\ KeysOf(I, n)!KeysDurable
         /\ KeysOf(I, n)!RestartRestores
<1>1. KeysOf(I, n)!KeysDurable
      BY DEF KeysInv, AllKept, Kept, KeysOf!KeysDurable, KeysOf!TypeOK, KeysOf!Absent, KeysOf!Kid
<1>2. KeysOf(I, n)!RestartRestores
      BY DEF KeysInv, Restored, KeysOf!RestartRestores, KeysOf!ByKid, KeysOf!Absent
<1> QED BY <1>1, <1>2 DEF KeysInv

-----------------------------------------------------------------------------
(* The keys of a tenant in MongoDB *)

KeyStatus == {"none", "STAGED", "RETIRED", "REVOKED", "ACTIVE", "VERIFY-ONLY"}

StoreCall(n) ==
  [step : {"idle", "retire", "generate", "activate", "commit"}, kid : 0..n,
   snapshot : {<<>>} \cup [1..n -> KeyStatus]]

StoreType(C, n) ==
  /\ doc \in [1..n -> KeyStatus] /\ nextKid \in 1..(n + 1)
  /\ keysExpired \subseteq 1..n /\ handed \subseteq 1..n /\ withdrawn \subseteq 1..n
  /\ revoked \subseteq 1..n
  /\ keyCall \in [C -> StoreCall(n)]
  /\ \A c \in C : /\ keyCall[c].step = "retire" => keyCall[c].kid \in 1..n
                  /\ keyCall[c].step = "commit" => keyCall[c].snapshot \in [1..n -> KeyStatus]

\* A kid is not used again, and what was revoked is revoked or gone.
StoreKids(n) ==
  \A k \in 1..n : /\ doc[k] # "none" => k < nextKid
                  /\ k \in revoked => k < nextKid /\ doc[k] \in {"REVOKED", "none"}

StoreInv(C, n, S) ==
  /\ StoreType(C, n) /\ StoreKids(n)
  /\ StoreOf(C, n, S)!HandedVerifies /\ StoreOf(C, n, S)!OneSigner

\* Nothing is there at the start.
LEMMA InitStore ==
  ASSUME NEW C, NEW n \in Nat, NEW S, StoreOf(C, n, S)!Init PROVE StoreInv(C, n, S)
<1>1. StoreType(C, n)
      BY DEF StoreOf!Init, StoreType, KeyStatus, StoreCall, StoreOf!Kid, StoreOf!Idle
<1> QED BY <1>1
        DEF StoreInv, StoreType, StoreKids, StoreOf!Init, StoreOf!HandedVerifies, StoreOf!OneSigner,
            StoreOf!Kid, StoreOf!In

\* A call that takes a key up.
LEMMA CallTakes ==
  ASSUME NEW n \in Nat, NEW r \in StoreCall(n), NEW k \in 0..n,
         NEW st \in {"retire", "generate", "activate"}
  PROVE  [r EXCEPT !.step = st, !.kid = k] \in StoreCall(n)
  BY DEF StoreCall

\* Calls and documents keep their types.
LEMMA StoreTypes ==
  ASSUME NEW C, NEW n \in Nat, NEW S, StoreInv(C, n, S), StoreOf(C, n, S)!Next
  PROVE  StoreType(C, n)'
<1> USE DEF StoreInv, StoreType, KeyStatus, StoreOf!Kid
<1>1. CASE StoreOf(C, n, S)!generateKey
      BY <1>1 DEF StoreKids, StoreCall, StoreOf!In, StoreOf!Verifying, StoreOf!Idle,
         StoreOf!generateKey, StoreOf!Create
<1>2. CASE StoreOf(C, n, S)!getActiveKey
      BY <1>2 DEF StoreKids, StoreCall, StoreOf!In, StoreOf!Verifying, StoreOf!Idle,
         StoreOf!getActiveKey
<1>3. CASE StoreOf(C, n, S)!cleanupExpired
      BY <1>3 DEF StoreKids, StoreCall, StoreOf!In, StoreOf!Verifying, StoreOf!Idle,
         StoreOf!cleanupExpired, StoreOf!Remove
<1>4. ASSUME NEW k \in 1..n, StoreOf(C, n, S)!retireKey(k) PROVE StoreType(C, n)'
      BY <1>4 DEF StoreKids, StoreCall, StoreOf!In, StoreOf!Verifying, StoreOf!Idle,
         StoreOf!retireKey, StoreOf!Retire
<1>5. ASSUME NEW k \in 1..n, StoreOf(C, n, S)!revokeKey(k) PROVE StoreType(C, n)'
      BY <1>5 DEF StoreKids, StoreCall, StoreOf!In, StoreOf!Verifying, StoreOf!Idle,
         StoreOf!revokeKey
<1>6. ASSUME NEW k \in 1..n, StoreOf(C, n, S)!Expire(k) PROVE StoreType(C, n)'
      BY <1>6 DEF StoreKids, StoreCall, StoreOf!In, StoreOf!Verifying, StoreOf!Idle,
         StoreOf!Expire
<1>7. ASSUME NEW k \in 1..n, StoreOf(C, n, S)!TtlIndex(k) PROVE StoreType(C, n)'
      BY <1>7 DEF StoreKids, StoreCall, StoreOf!In, StoreOf!Verifying, StoreOf!Idle,
         StoreOf!TtlIndex, StoreOf!Remove
<1>8. ASSUME NEW c \in C, NEW k \in 1..n, StoreOf(C, n, S)!activateKey(c, k) PROVE StoreType(C, n)'
  <2> DEFINE new == [keyCall[c] EXCEPT !.step = "activate", !.kid = k]
  <2>1. keyCall' = [keyCall EXCEPT ![c] = new] BY <1>8 DEF StoreOf!activateKey
  <2>2. new \in StoreCall(n) BY k \in 0..n, CallTakes
  <2>3. new.step = "activate"
        BY DEF StoreCall
  <2> HIDE DEF new
  <2> QED BY <1>8, <2>1, <2>2, <2>3 DEF StoreOf!activateKey
<1>9. ASSUME NEW c \in C, StoreOf(C, n, S)!BeginActivate(c) PROVE StoreType(C, n)'
  <2> DEFINE new == [keyCall[c] EXCEPT !.step = "commit", !.snapshot = doc]
  <2>1. keyCall' = [keyCall EXCEPT ![c] = new] BY <1>9 DEF StoreOf!BeginActivate
  <2>2. new \in StoreCall(n) BY DEF StoreCall
  <2>3. new.step = "commit" /\ new.snapshot = doc
        BY DEF StoreCall
  <2> HIDE DEF new
  <2> QED BY <1>9, <2>1, <2>2, <2>3 DEF StoreOf!BeginActivate
<1>10. ASSUME NEW c \in C, StoreOf(C, n, S)!CommitActivate(c) PROVE StoreType(C, n)'
  <2>1. \A k : StoreOf(C, n, S)!Activated(keyCall[c].snapshot, k) \in [1..n -> KeyStatus]
        BY <1>10 DEF StoreOf!CommitActivate, StoreOf!Activated, StoreOf!Promotable
  <2>2. doc' \in [1..n -> KeyStatus]
        BY <1>10, <2>1 DEF StoreOf!CommitActivate
  <2>3. CASE StoreOf(C, n, S)!Conflict(c)
    <3> DEFINE new == [keyCall[c] EXCEPT !.step = "activate", !.snapshot = <<>>]
    <3>1. keyCall' = [keyCall EXCEPT ![c] = new] BY <1>10, <2>3 DEF StoreOf!CommitActivate
    <3>2. new \in StoreCall(n) /\ new.step = "activate" BY DEF StoreCall
    <3> HIDE DEF new
    <3> QED BY <1>10, <2>2, <3>1, <3>2 DEF StoreOf!CommitActivate
  <2>4. CASE ~StoreOf(C, n, S)!Conflict(c)
    <3>1. keyCall' = [keyCall EXCEPT ![c] = StoreOf(C, n, S)!Idle] BY <1>10, <2>4 DEF
       StoreOf!CommitActivate
    <3>2. StoreOf(C, n, S)!Idle \in StoreCall(n) /\ StoreOf(C, n, S)!Idle.step = "idle" BY DEF
       StoreCall, StoreOf!Idle
    <3> QED BY <1>10, <2>2, <3>1, <3>2 DEF StoreOf!CommitActivate
  <2> QED BY <2>3, <2>4
<1>11. ASSUME NEW c \in C, StoreOf(C, n, S)!rotateKey(c) PROVE StoreType(C, n)'
  <2>1. CASE StoreOf(C, n, S)!In(doc, {"ACTIVE"}) = {}
    <3> DEFINE new == [keyCall[c] EXCEPT !.step = "generate"]
    <3>1. keyCall' = [keyCall EXCEPT ![c] = new] BY <1>11, <2>1 DEF StoreOf!rotateKey
    <3>2. new \in StoreCall(n) /\ new.step = "generate" BY DEF StoreCall
    <3> HIDE DEF new
    <3> QED BY <1>11, <3>1, <3>2 DEF StoreOf!rotateKey
  <2>2. ASSUME NEW k \in StoreOf(C, n, S)!In(doc, {"ACTIVE"}),
               keyCall' = [keyCall EXCEPT ![c] = [@ EXCEPT !.step = "retire", !.kid = k]]
        PROVE  StoreType(C, n)'
    <3> DEFINE new == [keyCall[c] EXCEPT !.step = "retire", !.kid = k]
    <3>1. keyCall' = [keyCall EXCEPT ![c] = new] BY <2>2
    <3>2. k \in 1..n BY DEF StoreOf!In
    <3>3. new \in StoreCall(n) BY <3>2, k \in 0..n, CallTakes
    <3>4. new.step = "retire" /\ new.kid = k BY DEF StoreCall
    <3> HIDE DEF new
    <3> QED BY <1>11, <3>1, <3>2, <3>3, <3>4 DEF StoreOf!rotateKey
  <2> QED BY <1>11, <2>1, <2>2 DEF StoreOf!rotateKey
<1>12. ASSUME NEW c \in C, StoreOf(C, n, S)!RotateRetires(c) PROVE StoreType(C, n)'
  <2> DEFINE new == [keyCall[c] EXCEPT !.step = "generate", !.kid = 0]
  <2>1. keyCall' = [keyCall EXCEPT ![c] = new] BY <1>12 DEF StoreOf!RotateRetires
  <2>2. new \in StoreCall(n) BY 0 \in 0..n, CallTakes
  <2>3. new.step = "generate"
        BY DEF StoreCall
  <2> HIDE DEF new
  <2> QED BY <1>12, <2>1, <2>2, <2>3 DEF StoreOf!RotateRetires, StoreOf!Retire, StoreOf!Verifying
<1>13. ASSUME NEW c \in C, StoreOf(C, n, S)!RotateGenerates(c) PROVE StoreType(C, n)'
  <2> DEFINE new == [keyCall[c] EXCEPT !.step = "activate", !.kid = nextKid]
  <2>1. keyCall' = [keyCall EXCEPT ![c] = new] BY <1>13 DEF StoreOf!RotateGenerates
  <2>2. new \in StoreCall(n) BY <1>13, nextKid \in 0..n, CallTakes DEF StoreOf!RotateGenerates
  <2>3. new.step = "activate"
        BY DEF StoreCall
  <2> HIDE DEF new
  <2> QED BY <1>13, <2>1, <2>2, <2>3 DEF StoreOf!RotateGenerates, StoreOf!Create
<1>14. ASSUME NEW c \in C, StoreOf(C, n, S)!Fail(c) PROVE StoreType(C, n)'
      BY <1>14 DEF StoreKids, StoreCall, StoreOf!In, StoreOf!Verifying, StoreOf!Idle, StoreOf!Fail
<1> QED BY <1>1, <1>2, <1>3, <1>4, <1>5, <1>6, <1>7, <1>8, <1>9, <1>10, <1>11, <1>12, <1>13, <1>14
        DEF StoreOf!Next

\* No call brings a revoked key back.
LEMMA RevokedStays ==
  ASSUME NEW C, NEW n \in Nat, NEW S, StoreInv(C, n, S), StoreOf(C, n, S)!Next
  PROVE  StoreKids(n)'
<1> USE DEF StoreInv, StoreType, KeyStatus, StoreOf!Kid
<1>1. CASE StoreOf(C, n, S)!generateKey
      BY <1>1 DEF StoreKids, StoreCall, StoreOf!Verifying, StoreOf!In, StoreOf!generateKey,
         StoreOf!Create
<1>2. CASE StoreOf(C, n, S)!getActiveKey
      BY <1>2 DEF StoreKids, StoreCall, StoreOf!Verifying, StoreOf!In, StoreOf!getActiveKey
<1>3. CASE StoreOf(C, n, S)!cleanupExpired
      BY <1>3 DEF StoreKids, StoreCall, StoreOf!Verifying, StoreOf!In, StoreOf!cleanupExpired,
         StoreOf!Remove
<1>4. ASSUME NEW k \in 1..n, StoreOf(C, n, S)!retireKey(k) PROVE StoreKids(n)'
      BY <1>4 DEF StoreKids, StoreCall, StoreOf!Verifying, StoreOf!In, StoreOf!retireKey,
         StoreOf!Retire
<1>5. ASSUME NEW k \in 1..n, StoreOf(C, n, S)!revokeKey(k) PROVE StoreKids(n)'
      BY <1>5 DEF StoreKids, StoreCall, StoreOf!Verifying, StoreOf!In, StoreOf!revokeKey
<1>6. ASSUME NEW k \in 1..n, StoreOf(C, n, S)!Expire(k) PROVE StoreKids(n)'
      BY <1>6 DEF StoreKids, StoreCall, StoreOf!Verifying, StoreOf!In, StoreOf!Expire
<1>7. ASSUME NEW k \in 1..n, StoreOf(C, n, S)!TtlIndex(k) PROVE StoreKids(n)'
      BY <1>7 DEF StoreKids, StoreCall, StoreOf!Verifying, StoreOf!In, StoreOf!TtlIndex,
         StoreOf!Remove
<1>8. ASSUME NEW c \in C, NEW k \in 1..n, StoreOf(C, n, S)!activateKey(c, k) PROVE StoreKids(n)'
      BY <1>8 DEF StoreKids, StoreCall, StoreOf!Verifying, StoreOf!In, StoreOf!activateKey
<1>9. ASSUME NEW c \in C, StoreOf(C, n, S)!BeginActivate(c) PROVE StoreKids(n)'
      BY <1>9 DEF StoreKids, StoreCall, StoreOf!Verifying, StoreOf!In, StoreOf!BeginActivate
<1>10. ASSUME NEW c \in C, StoreOf(C, n, S)!CommitActivate(c) PROVE StoreKids(n)'
      BY <1>10 DEF StoreKids, StoreCall, StoreOf!Verifying, StoreOf!In, StoreOf!CommitActivate,
         StoreOf!Activated, StoreOf!Promotable, StoreOf!Conflict
<1>11. ASSUME NEW c \in C, StoreOf(C, n, S)!rotateKey(c) PROVE StoreKids(n)'
      BY <1>11 DEF StoreKids, StoreCall, StoreOf!Verifying, StoreOf!In, StoreOf!rotateKey
<1>12. ASSUME NEW c \in C, StoreOf(C, n, S)!RotateRetires(c) PROVE StoreKids(n)'
      BY <1>12 DEF StoreKids, StoreCall, StoreOf!Verifying, StoreOf!In, StoreOf!RotateRetires,
         StoreOf!Retire
<1>13. ASSUME NEW c \in C, StoreOf(C, n, S)!RotateGenerates(c) PROVE StoreKids(n)'
      BY <1>13 DEF StoreKids, StoreCall, StoreOf!Verifying, StoreOf!In, StoreOf!RotateGenerates,
         StoreOf!Create
<1>14. ASSUME NEW c \in C, StoreOf(C, n, S)!Fail(c) PROVE StoreKids(n)'
      BY <1>14 DEF StoreKids, StoreCall, StoreOf!Verifying, StoreOf!In, StoreOf!Fail
<1> QED BY <1>1, <1>2, <1>3, <1>4, <1>5, <1>6, <1>7, <1>8, <1>9, <1>10, <1>11, <1>12, <1>13, <1>14
        DEF StoreOf!Next

\* Only taking a key back, or its time, ends its verification.
LEMMA HandedStays ==
  ASSUME NEW C, NEW n \in Nat, NEW S, StoreInv(C, n, S), StoreOf(C, n, S)!Next
  PROVE  StoreOf(C, n, S)!HandedVerifies'
<1> USE DEF StoreInv, StoreType, KeyStatus, StoreOf!Kid
<1>1. CASE StoreOf(C, n, S)!generateKey
      BY <1>1 DEF StoreOf!HandedVerifies, StoreOf!getVerificationKeys, StoreKids, StoreCall,
         StoreOf!Verifying, StoreOf!In, StoreOf!generateKey, StoreOf!Create
<1>2. CASE StoreOf(C, n, S)!getActiveKey
      BY <1>2 DEF StoreOf!HandedVerifies, StoreOf!getVerificationKeys, StoreKids, StoreCall,
         StoreOf!Verifying, StoreOf!In, StoreOf!getActiveKey
<1>3. CASE StoreOf(C, n, S)!cleanupExpired
      BY <1>3 DEF StoreOf!HandedVerifies, StoreOf!getVerificationKeys, StoreKids, StoreCall,
         StoreOf!Verifying, StoreOf!In, StoreOf!cleanupExpired, StoreOf!Remove
<1>4. ASSUME NEW k \in 1..n, StoreOf(C, n, S)!retireKey(k) PROVE StoreOf(C, n, S)!HandedVerifies'
      BY <1>4 DEF StoreOf!HandedVerifies, StoreOf!getVerificationKeys, StoreKids, StoreCall,
         StoreOf!Verifying, StoreOf!In, StoreOf!retireKey, StoreOf!Retire
<1>5. ASSUME NEW k \in 1..n, StoreOf(C, n, S)!revokeKey(k) PROVE StoreOf(C, n, S)!HandedVerifies'
      BY <1>5 DEF StoreOf!HandedVerifies, StoreOf!getVerificationKeys, StoreKids, StoreCall,
         StoreOf!Verifying, StoreOf!In, StoreOf!revokeKey
<1>6. ASSUME NEW k \in 1..n, StoreOf(C, n, S)!Expire(k) PROVE StoreOf(C, n, S)!HandedVerifies'
      BY <1>6 DEF StoreOf!HandedVerifies, StoreOf!getVerificationKeys, StoreKids, StoreCall,
         StoreOf!Verifying, StoreOf!In, StoreOf!Expire
<1>7. ASSUME NEW k \in 1..n, StoreOf(C, n, S)!TtlIndex(k) PROVE StoreOf(C, n, S)!HandedVerifies'
      BY <1>7 DEF StoreOf!HandedVerifies, StoreOf!getVerificationKeys, StoreKids, StoreCall,
         StoreOf!Verifying, StoreOf!In, StoreOf!TtlIndex, StoreOf!Remove
<1>8. ASSUME NEW c \in C, NEW k \in 1..n, StoreOf(C, n, S)!activateKey(c, k)
      PROVE StoreOf(C, n, S)!HandedVerifies'
      BY <1>8 DEF StoreOf!HandedVerifies, StoreOf!getVerificationKeys, StoreKids, StoreCall,
         StoreOf!Verifying, StoreOf!In, StoreOf!activateKey
<1>9. ASSUME NEW c \in C, StoreOf(C, n, S)!BeginActivate(c) PROVE StoreOf(C, n, S)!HandedVerifies'
      BY <1>9 DEF StoreOf!HandedVerifies, StoreOf!getVerificationKeys, StoreKids, StoreCall,
         StoreOf!Verifying, StoreOf!In, StoreOf!BeginActivate
<1>10. ASSUME NEW c \in C, StoreOf(C, n, S)!CommitActivate(c) PROVE StoreOf(C, n, S)!HandedVerifies'
      BY <1>10 DEF StoreOf!HandedVerifies, StoreOf!getVerificationKeys, StoreKids, StoreCall,
         StoreOf!Verifying, StoreOf!In, StoreOf!CommitActivate, StoreOf!Activated,
         StoreOf!Promotable, StoreOf!Conflict
<1>11. ASSUME NEW c \in C, StoreOf(C, n, S)!rotateKey(c) PROVE StoreOf(C, n, S)!HandedVerifies'
      BY <1>11 DEF StoreOf!HandedVerifies, StoreOf!getVerificationKeys, StoreKids, StoreCall,
         StoreOf!Verifying, StoreOf!In, StoreOf!rotateKey
<1>12. ASSUME NEW c \in C, StoreOf(C, n, S)!RotateRetires(c) PROVE StoreOf(C, n, S)!HandedVerifies'
      BY <1>12 DEF StoreOf!HandedVerifies, StoreOf!getVerificationKeys, StoreKids, StoreCall,
         StoreOf!Verifying, StoreOf!In, StoreOf!RotateRetires, StoreOf!Retire
<1>13. ASSUME NEW c \in C, StoreOf(C, n, S)!RotateGenerates(c)
       PROVE StoreOf(C, n, S)!HandedVerifies'
      BY <1>13 DEF StoreOf!HandedVerifies, StoreOf!getVerificationKeys, StoreKids, StoreCall,
         StoreOf!Verifying, StoreOf!In, StoreOf!RotateGenerates, StoreOf!Create
<1>14. ASSUME NEW c \in C, StoreOf(C, n, S)!Fail(c) PROVE StoreOf(C, n, S)!HandedVerifies'
      BY <1>14 DEF StoreOf!HandedVerifies, StoreOf!getVerificationKeys, StoreKids, StoreCall,
         StoreOf!Verifying, StoreOf!In, StoreOf!Fail
<1> QED BY <1>1, <1>2, <1>3, <1>4, <1>5, <1>6, <1>7, <1>8, <1>9, <1>10, <1>11, <1>12, <1>13, <1>14
        DEF StoreOf!Next

\* An activation that saw the active key demotes it.
LEMMA SignerStays ==
  ASSUME NEW C, NEW n \in Nat, NEW S, StoreInv(C, n, S), StoreOf(C, n, S)!Next
  PROVE  StoreOf(C, n, S)!OneSigner'
<1> USE DEF StoreInv, StoreType, KeyStatus, StoreOf!Kid
<1>1. CASE StoreOf(C, n, S)!generateKey
      BY <1>1 DEF StoreOf!OneSigner, StoreKids, StoreCall, StoreOf!Verifying, StoreOf!In,
         StoreOf!generateKey, StoreOf!Create
<1>2. CASE StoreOf(C, n, S)!getActiveKey
      BY <1>2 DEF StoreOf!OneSigner, StoreKids, StoreCall, StoreOf!Verifying, StoreOf!In,
         StoreOf!getActiveKey
<1>3. CASE StoreOf(C, n, S)!cleanupExpired
      BY <1>3 DEF StoreOf!OneSigner, StoreKids, StoreCall, StoreOf!Verifying, StoreOf!In,
         StoreOf!cleanupExpired, StoreOf!Remove
<1>4. ASSUME NEW k \in 1..n, StoreOf(C, n, S)!retireKey(k) PROVE StoreOf(C, n, S)!OneSigner'
      BY <1>4 DEF StoreOf!OneSigner, StoreKids, StoreCall, StoreOf!Verifying, StoreOf!In,
         StoreOf!retireKey, StoreOf!Retire
<1>5. ASSUME NEW k \in 1..n, StoreOf(C, n, S)!revokeKey(k) PROVE StoreOf(C, n, S)!OneSigner'
      BY <1>5 DEF StoreOf!OneSigner, StoreKids, StoreCall, StoreOf!Verifying, StoreOf!In,
         StoreOf!revokeKey
<1>6. ASSUME NEW k \in 1..n, StoreOf(C, n, S)!Expire(k) PROVE StoreOf(C, n, S)!OneSigner'
      BY <1>6 DEF StoreOf!OneSigner, StoreKids, StoreCall, StoreOf!Verifying, StoreOf!In,
         StoreOf!Expire
<1>7. ASSUME NEW k \in 1..n, StoreOf(C, n, S)!TtlIndex(k) PROVE StoreOf(C, n, S)!OneSigner'
      BY <1>7 DEF StoreOf!OneSigner, StoreKids, StoreCall, StoreOf!Verifying, StoreOf!In,
         StoreOf!TtlIndex, StoreOf!Remove
<1>8. ASSUME NEW c \in C, NEW k \in 1..n, StoreOf(C, n, S)!activateKey(c, k)
      PROVE StoreOf(C, n, S)!OneSigner'
      BY <1>8 DEF StoreOf!OneSigner, StoreKids, StoreCall, StoreOf!Verifying, StoreOf!In,
         StoreOf!activateKey
<1>9. ASSUME NEW c \in C, StoreOf(C, n, S)!BeginActivate(c) PROVE StoreOf(C, n, S)!OneSigner'
      BY <1>9 DEF StoreOf!OneSigner, StoreKids, StoreCall, StoreOf!Verifying, StoreOf!In,
         StoreOf!BeginActivate
<1>10. ASSUME NEW c \in C, StoreOf(C, n, S)!CommitActivate(c) PROVE StoreOf(C, n, S)!OneSigner'
  <2> DEFINE d == keyCall[c].snapshot
  <2>1. CASE StoreOf(C, n, S)!Conflict(c)
        BY <1>10, <2>1 DEF StoreOf!CommitActivate, StoreOf!OneSigner, StoreOf!In
  <2>2. CASE ~StoreOf(C, n, S)!Conflict(c)
    <3> DEFINE new == StoreOf(C, n, S)!Activated(d, keyCall[c].kid)
    <3>1. d \in [1..n -> KeyStatus]
          BY <1>10 DEF StoreOf!CommitActivate
    <3>2. \A m \in 1..n : /\ d[m] = "ACTIVE" => new[m] = "VERIFY-ONLY"
                          /\ new[m] = "ACTIVE" => m = keyCall[c].kid
          BY <3>1 DEF StoreOf!Activated, StoreOf!Promotable
    <3>3. \A m \in 1..n : new[m] # d[m] => doc[m] = d[m]
          BY <2>2 DEF StoreOf!Conflict
    <3>4. doc' = [m \in 1..n |-> IF new[m] # d[m] THEN new[m] ELSE doc[m]]
          BY <1>10, <2>2 DEF StoreOf!CommitActivate
    <3>5. twoFirst' = (twoFirst \/ (StoreOf(C, n, S)!In(d, {"ACTIVE"}) = {} /\ StoreOf(C, n, S)!In(doc, {"ACTIVE"}) # {}))
          BY <1>10, <2>2 DEF StoreOf!CommitActivate
    <3>6. ~twoFirst' => ~twoFirst /\ (StoreOf(C, n, S)!In(d, {"ACTIVE"}) # {} \/ StoreOf(C, n, S)!In(doc, {"ACTIVE"}) = {})
          BY <3>5, Zenon
    <3> HIDE DEF d, new
    <3>7. SUFFICES ASSUME ~twoFirst', NEW k \in 1..n, NEW l \in 1..n,
                          doc'[k] = "ACTIVE", doc'[l] = "ACTIVE"
                   PROVE  k = l
          BY DEF StoreOf!OneSigner, StoreOf!In
    <3>8. \A m \in 1..n : d[m] = "ACTIVE" => doc[m] = "ACTIVE" /\ doc'[m] # "ACTIVE"
          BY <3>2, <3>3, <3>4
    <3>9. \A m \in 1..n : doc'[m] = "ACTIVE" => doc[m] # "ACTIVE"
          BY <3>4, <3>6, <3>7, <3>8 DEF StoreOf!OneSigner, StoreOf!In
    <3> QED BY <3>2, <3>4, <3>7, <3>9
  <2> QED BY <2>1, <2>2
<1>11. ASSUME NEW c \in C, StoreOf(C, n, S)!rotateKey(c) PROVE StoreOf(C, n, S)!OneSigner'
      BY <1>11 DEF StoreOf!OneSigner, StoreKids, StoreCall, StoreOf!Verifying, StoreOf!In,
         StoreOf!rotateKey
<1>12. ASSUME NEW c \in C, StoreOf(C, n, S)!RotateRetires(c) PROVE StoreOf(C, n, S)!OneSigner'
      BY <1>12 DEF StoreOf!OneSigner, StoreKids, StoreCall, StoreOf!Verifying, StoreOf!In,
         StoreOf!RotateRetires, StoreOf!Retire
<1>13. ASSUME NEW c \in C, StoreOf(C, n, S)!RotateGenerates(c) PROVE StoreOf(C, n, S)!OneSigner'
      BY <1>13 DEF StoreOf!OneSigner, StoreKids, StoreCall, StoreOf!Verifying, StoreOf!In,
         StoreOf!RotateGenerates, StoreOf!Create
<1>14. ASSUME NEW c \in C, StoreOf(C, n, S)!Fail(c) PROVE StoreOf(C, n, S)!OneSigner'
      BY <1>14 DEF StoreOf!OneSigner, StoreKids, StoreCall, StoreOf!Verifying, StoreOf!In,
         StoreOf!Fail
<1> QED BY <1>1, <1>2, <1>3, <1>4, <1>5, <1>6, <1>7, <1>8, <1>9, <1>10, <1>11, <1>12, <1>13, <1>14
        DEF StoreOf!Next

\* Every step keeps the invariant.
LEMMA StoreStep ==
  ASSUME NEW C, NEW n \in Nat, NEW S, StoreInv(C, n, S),
         [StoreOf(C, n, S)!Next]_(StoreOf(C, n, S)!vars)
  PROVE  StoreInv(C, n, S)'
<1>1. CASE StoreOf(C, n, S)!Next
      BY <1>1, StoreTypes, RevokedStays, HandedStays, SignerStays DEF StoreInv
<1>2. CASE UNCHANGED StoreOf(C, n, S)!vars
      BY <1>2 DEF StoreOf!vars, StoreInv, StoreType, StoreKids, StoreOf!HandedVerifies,
         StoreOf!OneSigner, StoreOf!In, StoreOf!Kid,
                  StoreOf!getVerificationKeys
<1> QED BY <1>1, <1>2

\* The invariant says what the store promises.
LEMMA StorePromise ==
  ASSUME NEW C, NEW n \in Nat, NEW S, StoreInv(C, n, S)
  PROVE  StoreOf(C, n, S)!TypeOK /\ StoreOf(C, n, S)!RevokedIsDead
         /\ StoreOf(C, n, S)!HandedVerifies /\ StoreOf(C, n, S)!OneSigner
<1>1. StoreOf(C, n, S)!TypeOK
      BY DEF StoreInv, StoreType, KeyStatus, StoreCall, StoreOf!TypeOK, StoreOf!Kid,
         StoreOf!Verifying
<1>2. StoreOf(C, n, S)!RevokedIsDead
      BY DEF StoreInv, StoreType, StoreKids, StoreOf!RevokedIsDead, StoreOf!getVerificationKeys,
         StoreOf!In, StoreOf!Kid, StoreOf!Verifying
<1> QED BY <1>1, <1>2 DEF StoreInv
-----------------------------------------------------------------------------

BothKeys == IF part = "rotations" THEN KeysInv(Single, MaxKeys) ELSE KeysInv(Inst, FewKeys)
BothStores == IF part = "key expiry" THEN StoreInv(Single, FewKeys, 1..FewKeys)
                                     ELSE StoreInv(Admin, FewKeys, {})

\* Rotations and restarts break no token: an instance verifies what it signed until the
\* key expires, a key that signed is in the directory unless its save was cut off, and a
\* start restores what it listed.  A revoked key stays dead, and one key signs.
THEOREM KeysSafe == Spec => []KeysHold
<1> USE KeysAssumption
<1>1. Init => BothKeys /\ BothStores
      BY InitKeys, InitStore DEF Init, BothKeys, BothStores
<1>2. BothKeys /\ [Next]_vars => BothKeys'
  <2> SUFFICES ASSUME BothKeys, [Next]_vars PROVE BothKeys'
      OBVIOUS
  <2>1. part' = part BY DEF Next, vars
  <2>2. part = "rotations" => [KeysOf(Single, MaxKeys)!Next]_(KeysOf(Single, MaxKeys)!vars)
        BY DEF Next, vars, innerVars, keyVars, KeysOf!vars, KeysOf!files, KeysOf!boot,
               KeysOf!store, KeysOf!save, KeysOf!hist
  <2>3. part # "rotations" => [KeysOf(Inst, FewKeys)!Next]_(KeysOf(Inst, FewKeys)!vars)
        BY DEF Next, vars, innerVars, keyVars, KeysOf!vars, KeysOf!files, KeysOf!boot,
               KeysOf!store, KeysOf!save, KeysOf!hist
  <2> QED BY <2>1, <2>2, <2>3, KeysStep DEF BothKeys
<1>3. BothStores /\ [Next]_vars => BothStores'
  <2> SUFFICES ASSUME BothStores, [Next]_vars PROVE BothStores'
      OBVIOUS
  <2>1. part' = part BY DEF Next, vars
  <2>2. part = "key expiry" => [StoreOf(Single, FewKeys, 1..FewKeys)!Next]_(StoreOf(Single, FewKeys, 1..FewKeys)!vars)
        BY DEF Next, vars, outerVars, storeVars, StoreOf!vars
  <2>3. part # "key expiry" => [StoreOf(Admin, FewKeys, {})!Next]_(StoreOf(Admin, FewKeys, {})!vars)
        BY DEF Next, vars, outerVars, storeVars, StoreOf!vars
  <2> QED BY <2>1, <2>2, <2>3, StoreStep DEF BothStores
<1>4. BothKeys /\ BothStores => KeysHold
      BY KeysPromise, StorePromise DEF BothKeys, BothStores, KeysHold
<1> QED BY <1>1, <1>2, <1>3, <1>4, PTL DEF Spec

-----------------------------------------------------------------------------
(* The Terraform provider *)

TerraformObject == [there : {"no", "yes", "off"}, values : [Terraform!Field -> FieldValue]]

\* What the state file may hold.
TerraformRecord ==
  [id : 0..MaxObjects, tainted : BOOLEAN, active : BOOLEAN,
   values : [Terraform!Field -> FieldValue]]

TerraformType ==
  /\ kind \in Terraform!Kinds /\ config \in [Terraform!Field -> FieldValue]
  /\ recordedState \in TerraformRecord
  /\ recordedState.id <= made /\ made \in 0..MaxObjects
  /\ remote \in [1..MaxObjects -> TerraformObject]
  /\ applyStep \in {"idle", "planned", "create", "update", "reread", "replace", "delete"}
  /\ lost \subseteq 1..made /\ moved \in BOOLEAN /\ unsure \in BOOLEAN /\ clean \in BOOLEAN
  /\ applyStep \in {"planned", "update", "reread", "replace", "delete"} => recordedState.id # 0
  /\ applyStep = "create" => recordedState.id = 0

\* What no read covers is as recorded, unless an update failed.
TerraformUnread ==
  recordedState.id # 0 /\ ~unsure =>
    \A f \in Terraform!Used \cap kind.unread :
      remote[recordedState.id].values[f] = recordedState.values[f]

\* A plan is made from what is there, unless others changed it since.
TerraformRead ==
  applyStep = "planned" /\ ~moved =>
    /\ remote[recordedState.id].there # "no"
    /\ kind.reread /\ recordedState.active => remote[recordedState.id].there = "yes"
    /\ \A f \in Terraform!Used \ kind.unread :
         remote[recordedState.id].values[f] = recordedState.values[f]

TerraformInv ==
  /\ TerraformType /\ TerraformUnread /\ TerraformRead
  /\ Terraform!AppliedIsReal /\ Terraform!NoneForgotten

\* The five kinds of resource are records of the same fields.
LEMMA KindFields ==
  ASSUME NEW k \in Terraform!Kinds
  PROVE  /\ k.gone \in {"soft", "hard", "never"} /\ k.unread \subseteq {"fixed", "blind"}
         /\ k.reread \in BOOLEAN
<1>1. CASE k = Terraform!resourceUser BY <1>1 DEF Terraform!resourceUser
<1>2. CASE k = Terraform!resourceTenant BY <1>2 DEF Terraform!resourceTenant
<1>3. CASE k = Terraform!resourceRole BY <1>3 DEF Terraform!resourceRole
<1>4. CASE k = Terraform!resourceClient BY <1>4 DEF Terraform!resourceClient
<1>5. CASE k = Terraform!resourceWebhook BY <1>5 DEF Terraform!resourceWebhook
<1> QED BY <1>1, <1>2, <1>3, <1>4, <1>5 DEF Terraform!Kinds

\* Every kind uses some of the fields.
LEMMA UsedFields == Terraform!Used \subseteq Terraform!Field
  BY DEF Terraform!Used, Terraform!Field

\* What an update leaves on the server.
LEMMA PatchedObject ==
  ASSUME TerraformType, recordedState.id # 0
  PROVE  /\ Terraform!Patched \in [1..MaxObjects -> TerraformObject]
         /\ \A i \in 1..MaxObjects : i # recordedState.id => Terraform!Patched[i] = remote[i]
         /\ Terraform!Patched[recordedState.id].there =
              IF "active" \in Terraform!Differs THEN "yes" ELSE remote[recordedState.id].there
         /\ \A f \in Terraform!Field : Terraform!Patched[recordedState.id].values[f] =
              IF f \in Terraform!Differs THEN config[f] ELSE remote[recordedState.id].values[f]
<1> DEFINE j == recordedState.id
           there == IF "active" \in Terraform!Differs THEN "yes" ELSE remote[j].there
           values == [f \in Terraform!Field |->
                        IF f \in Terraform!Differs THEN config[f] ELSE remote[j].values[f]]
           new == [remote[j] EXCEPT !.there = there, !.values = values]
<1>1. j \in 1..MaxObjects /\ remote[j] \in TerraformObject
      BY DEF TerraformType, TerraformRecord
<1>2. there \in {"no", "yes", "off"} /\ values \in [Terraform!Field -> FieldValue]
      BY <1>1 DEF TerraformObject, TerraformType, TerraformRecord
<1>3. new \in TerraformObject /\ new.there = there /\ new.values = values
      BY <1>1, <1>2 DEF TerraformObject
<1>4. Terraform!Patched = [remote EXCEPT ![j] = new]
      BY <1>1 DEF Terraform!Patched, TerraformType, TerraformObject
<1> HIDE DEF new
<1> QED BY <1>1, <1>2, <1>3, <1>4 DEF TerraformType


\* Nobody but its maker changes what an object holds in a delete.
LEMMA ThereSet ==
  ASSUME TerraformType, NEW j \in 1..MaxObjects, NEW t \in {"no", "yes", "off"},
         NEW new, new = [remote EXCEPT ![j].there = t]
  PROVE  /\ new \in [1..MaxObjects -> TerraformObject]
         /\ \A i \in 1..MaxObjects : i # j => new[i] = remote[i]
         /\ new[j].there = t /\ new[j].values = remote[j].values
<1> DEFINE o == [remote[j] EXCEPT !.there = t]
<1>1. remote[j] \in TerraformObject BY DEF TerraformType
<1>2. o \in TerraformObject /\ o.there = t /\ o.values = remote[j].values
      BY <1>1 DEF TerraformObject
<1>3. new = [remote EXCEPT ![j] = o] BY DEF TerraformType
<1> HIDE DEF o
<1> QED BY <1>2, <1>3 DEF TerraformType

\* A delete takes an object out of use.
LEMMA DeleteSets ==
  ASSUME TerraformType, recordedState.id # 0,
         NEW new, new = remote \/ new = [remote EXCEPT ![recordedState.id].there = Terraform!Deleted]
  PROVE  /\ new \in [1..MaxObjects -> TerraformObject]
         /\ \A i \in 1..MaxObjects : i # recordedState.id => new[i] = remote[i]
         /\ new[recordedState.id].values = remote[recordedState.id].values
         /\ new # remote => new[recordedState.id].there # "yes"
<1>1. recordedState.id \in 1..MaxObjects BY DEF TerraformType, TerraformRecord
<1>2. Terraform!Deleted \in {"no", "off"} BY DEF Terraform!Deleted
<1>3. CASE new = remote BY <1>3 DEF TerraformType
<1>4. CASE new = [remote EXCEPT ![recordedState.id].there = Terraform!Deleted]
  <2> DEFINE j == recordedState.id
             o == [remote[j] EXCEPT !.there = Terraform!Deleted]
  <2>1. remote[j] \in TerraformObject BY <1>1 DEF TerraformType
  <2>2. o \in TerraformObject /\ o.there # "yes" /\ o.values = remote[j].values
        BY <1>2, <2>1 DEF TerraformObject
  <2>3. new = [remote EXCEPT ![j] = o] BY <1>4 DEF TerraformType
  <2> HIDE DEF o
  <2> QED BY <1>1, <2>2, <2>3 DEF TerraformType
<1> QED BY <1>3, <1>4

\* The state file without the object.
LEMMA IdDropped ==
  ASSUME NEW r \in TerraformRecord, NEW new, new = [r EXCEPT !.id = 0, !.tainted = FALSE]
  PROVE  new \in TerraformRecord /\ new.id = 0
<1> DEFINE b == FALSE
<1>1. b \in BOOLEAN /\ 0 \in 0..MaxObjects BY OperationsAssumption
<1>2. new = [r EXCEPT !.id = 0, !.tainted = b] OBVIOUS
<1> HIDE DEF b
<1> QED BY <1>1, <1>2 DEF TerraformRecord

\* Others change the field that is read, and no other.
LEMMA PlainSet ==
  ASSUME TerraformType, NEW j \in 1..MaxObjects, NEW v \in FieldValue,
         NEW new, new = [remote EXCEPT ![j].values["plain"] = v]
  PROVE  /\ new \in [1..MaxObjects -> TerraformObject]
         /\ \A i \in 1..MaxObjects : i # j => new[i] = remote[i]
         /\ new[j].there = remote[j].there
         /\ \A f \in Terraform!Field : f # "plain" => new[j].values[f] = remote[j].values[f]
<1> DEFINE w == [remote[j].values EXCEPT !["plain"] = v]
           o == [remote[j] EXCEPT !.values = w]
<1>1. remote[j] \in TerraformObject BY DEF TerraformType
<1>2. /\ w \in [Terraform!Field -> FieldValue]
      /\ \A f \in Terraform!Field : f # "plain" => w[f] = remote[j].values[f]
      BY <1>1 DEF TerraformObject
<1>3. new = [remote EXCEPT ![j] = o] BY DEF TerraformType
<1> HIDE DEF w
<1>4. o \in TerraformObject /\ o.there = remote[j].there /\ o.values = w
      BY <1>1, <1>2 DEF TerraformObject
<1> HIDE DEF o
<1> QED BY <1>2, <1>3, <1>4 DEF TerraformType

\* A create makes the next object, as configured.
LEMMA MadeSet ==
  ASSUME TerraformType, made < MaxObjects,
         NEW new, new = [remote EXCEPT ![made + 1] = [there |-> "yes", values |-> config]]
  PROVE  /\ new \in [1..MaxObjects -> TerraformObject]
         /\ \A i \in 1..MaxObjects : i # made + 1 => new[i] = remote[i]
         /\ new[made + 1].there = "yes" /\ new[made + 1].values = config
<1> DEFINE o == [there |-> "yes", values |-> config]
<1>1. o \in TerraformObject /\ o.there = "yes" /\ o.values = config
      BY DEF TerraformObject, TerraformType
<1>2. made + 1 \in 1..MaxObjects BY OperationsAssumption DEF TerraformType
<1> HIDE DEF o
<1>3. new = [remote EXCEPT ![made + 1] = o] BY DEF o
<1> QED BY <1>1, <1>2, <1>3 DEF TerraformType

\* What a read puts into the state file.
LEMMA ReadBackIs ==
  ASSUME TerraformType, recordedState.id # 0, NEW new, new = Terraform!ReadBack
  PROVE  /\ new \in TerraformRecord
         /\ new.id = recordedState.id /\ new.tainted = recordedState.tainted
         /\ new.active = (kind.reread => remote[recordedState.id].there = "yes")
         /\ \A f \in Terraform!Field : new.values[f] =
              IF f \in kind.unread THEN recordedState.values[f]
              ELSE remote[recordedState.id].values[f]
<1> DEFINE a == (kind.reread => remote[recordedState.id].there = "yes")
           w == [f \in Terraform!Field |-> IF f \in kind.unread THEN recordedState.values[f]
                                  ELSE remote[recordedState.id].values[f]]
<1>1. recordedState \in TerraformRecord BY DEF TerraformType, TerraformRecord
<1>2. remote[recordedState.id] \in TerraformObject BY DEF TerraformType, TerraformRecord
<1>3. w \in [Terraform!Field -> FieldValue] BY <1>1, <1>2 DEF TerraformRecord, TerraformObject
<1>4. a \in BOOLEAN OBVIOUS
<1>5. new = [recordedState EXCEPT !.active = a, !.values = w]
      BY DEF Terraform!ReadBack, Terraform!Mine
<1>6. \A f \in Terraform!Field : w[f] = IF f \in kind.unread THEN recordedState.values[f]
                               ELSE remote[recordedState.id].values[f]
      OBVIOUS
<1> HIDE DEF a, w
<1>7. /\ new \in TerraformRecord /\ new.id = recordedState.id
      /\ new.tainted = recordedState.tainted /\ new.active = a /\ new.values = w
      BY <1>1, <1>3, <1>4, <1>5 DEF TerraformRecord
<1> QED BY <1>6, <1>7 DEF a

\* Nothing is recorded and nothing there at the start.
LEMMA InitTerraform == ASSUME Terraform!Init PROVE TerraformInv
<1>1. Terraform!Plain \in [Terraform!Field -> FieldValue]
      BY OperationsAssumption DEF Terraform!Plain, Terraform!Nothing
<1> DEFINE o == [there |-> "no", values |-> Terraform!Plain]
<1>2. o \in TerraformObject /\ o.there = "no" BY <1>1 DEF TerraformObject
<1>3. remote = [i \in 1..MaxObjects |-> o] BY DEF Terraform!Init
<1> HIDE DEF o
<1>4. remote \in [1..MaxObjects -> TerraformObject] BY <1>2, <1>3
<1>5. recordedState \in TerraformRecord
      BY <1>1, OperationsAssumption DEF Terraform!Init, TerraformRecord
<1>6. recordedState.id = 0 /\ made = 0 BY DEF Terraform!Init
<1>7. TerraformType
  <2>1. kind \in Terraform!Kinds /\ config \in [Terraform!Field -> FieldValue]
        BY <1>1 DEF Terraform!Init
  <2>2. /\ applyStep = "idle" /\ lost = {} /\ moved = FALSE /\ unsure = FALSE /\ clean = FALSE
        BY DEF Terraform!Init
  <2>3. recordedState.id <= made /\ made \in 0..MaxObjects BY <1>6, OperationsAssumption
  <2> QED BY <1>4, <1>5, <2>1, <2>2, <2>3 DEF TerraformType
<1> QED BY <1>7 DEF Terraform!Init, TerraformInv, TerraformType, TerraformUnread, TerraformRead,
               Terraform!AppliedIsReal, Terraform!NoneForgotten

\* The type and the place of an apply.
LEMMA TypeTerraform == ASSUME TerraformInv, Terraform!Next PROVE TerraformType'
<1> USE OperationsAssumption DEF TerraformInv
<1>1. ASSUME NEW f \in Terraform!Field, NEW v \in FieldValue, Terraform!Edit(f, v)
      PROVE TerraformType'
      BY <1>1 DEF TerraformType, TerraformRecord, Terraform!Edit
<1>2. ASSUME NEW i \in 1..MaxObjects, NEW v \in FieldValue, Terraform!Drift(i, v)
      PROVE TerraformType'
  <2>1. remote' \in [1..MaxObjects -> TerraformObject]
        BY <1>2, PlainSet, ThereSet DEF TerraformType, Terraform!Drift
  <2> QED BY <1>2, <2>1 DEF TerraformType, Terraform!Drift
<1>3. CASE Terraform!Begin
      BY <1>3, ReadBackIs DEF TerraformType, TerraformRecord, Terraform!Begin, Terraform!CanRead,
                              Terraform!Mine, Terraform!Fail
<1>4. CASE Terraform!Plan
      BY <1>4 DEF TerraformType, TerraformRecord, Terraform!Plan, Terraform!Differs
<1>5. CASE Terraform!CreateLost
  <2>1. remote' \in [1..MaxObjects -> TerraformObject]
        BY <1>5, MadeSet DEF Terraform!CreateLost
  <2>2. made' = made + 1 /\ made < MaxObjects /\ lost' = lost \cup {made + 1} /\ clean' \in BOOLEAN
        BY <1>5 DEF Terraform!CreateLost, Terraform!Fail
  <2>3. made' \in 0..MaxObjects /\ lost' \subseteq 1..made'
        BY <2>2 DEF TerraformType
  <2> QED BY <1>5, <2>1, <2>2, <2>3 DEF TerraformType, Terraform!CreateLost, Terraform!Fail
<1>6. CASE Terraform!CreateRefused
      BY <1>6 DEF TerraformType, TerraformRecord, Terraform!CreateRefused, Terraform!Fail
<1>7. CASE Terraform!CreateOk
  <2>1. remote' \in [1..MaxObjects -> TerraformObject]
        BY <1>7, MadeSet DEF Terraform!CreateOk
  <2>2. made' = made + 1 /\ made < MaxObjects /\ lost' = lost /\ UNCHANGED <<kind, config, moved>>
        BY <1>7 DEF Terraform!CreateOk
  <2>3. made + 1 \in 0..MaxObjects /\ made' \in 0..MaxObjects /\ lost' \subseteq 1..made'
        BY <2>2 DEF TerraformType
  <2>4. clean' \in BOOLEAN /\ unsure' \in BOOLEAN /\ applyStep' = "idle"
        BY <1>7 DEF Terraform!CreateOk, Terraform!Fail
  <2>5. PICK b \in BOOLEAN :
          recordedState' = [id |-> made + 1, tainted |-> b, active |-> TRUE, values |-> config]
        BY <1>7 DEF Terraform!CreateOk
  <2>6. recordedState' \in TerraformRecord /\ recordedState'.id = made + 1
        BY <2>3, <2>5 DEF TerraformRecord, TerraformType
  <2> QED BY <2>1, <2>2, <2>3, <2>4, <2>6 DEF TerraformType
<1>8. CASE Terraform!UpdateFails
      BY <1>8, PatchedObject DEF TerraformType, TerraformRecord, Terraform!UpdateFails,
                                 Terraform!Fail, Terraform!Mine
<1>9. CASE Terraform!UpdateOk
      BY <1>9, PatchedObject DEF TerraformType, TerraformRecord, Terraform!UpdateOk, Terraform!Mine
<1>10. CASE Terraform!Reread
      BY <1>10, ReadBackIs DEF TerraformType, TerraformRecord, Terraform!Reread, Terraform!CanRead,
                               Terraform!Mine, Terraform!Fail
<1>11. CASE Terraform!Destroy
      BY <1>11 DEF TerraformType, TerraformRecord, Terraform!Destroy
<1>12. CASE Terraform!DeleteFails
  <2>1. remote' \in [1..MaxObjects -> TerraformObject]
        BY <1>12, DeleteSets DEF TerraformType, Terraform!DeleteFails
  <2> QED BY <1>12, <2>1 DEF TerraformType, Terraform!DeleteFails, Terraform!KeepId, Terraform!Fail
<1>13. CASE Terraform!DeleteOk
  <2>1. remote' \in [1..MaxObjects -> TerraformObject]
        BY <1>13, DeleteSets DEF TerraformType, Terraform!DeleteOk
  <2>2. recordedState' = [recordedState EXCEPT !.id = 0, !.tainted = FALSE]
        BY <1>13 DEF Terraform!DeleteOk
  <2>3. recordedState' \in TerraformRecord /\ recordedState'.id = 0
        BY <2>2, IdDropped DEF TerraformType
  <2>4. /\ UNCHANGED <<kind, config, made, moved, lost, unsure>>
        /\ clean' = FALSE /\ applyStep' \in {"create", "idle"}
        BY <1>13 DEF Terraform!DeleteOk
  <2>5. recordedState'.id <= made' BY <2>3, <2>4 DEF TerraformType
  <2> QED BY <2>1, <2>3, <2>4, <2>5 DEF TerraformType
<1> QED BY <1>1, <1>2, <1>3, <1>4, <1>5, <1>6, <1>7, <1>8, <1>9, <1>10, <1>11, <1>12, <1>13
    DEF Terraform!Next

\* A field that no read covers changes on both sides alike.
LEMMA UnreadTerraform == ASSUME TerraformInv, Terraform!Next PROVE TerraformUnread'
<1> USE OperationsAssumption DEF TerraformInv
<1>1. ASSUME NEW f \in Terraform!Field, NEW v \in FieldValue, Terraform!Edit(f, v)
      PROVE TerraformUnread'
      BY <1>1 DEF TerraformType, TerraformUnread, Terraform!Used, Terraform!Field, Terraform!Edit
<1>2. ASSUME NEW i \in 1..MaxObjects, NEW v \in FieldValue, Terraform!Drift(i, v)
      PROVE TerraformUnread'
  <2>1. \A f \in Terraform!Field : f # "plain" =>
          \A j \in 1..MaxObjects : remote'[j].values[f] = remote[j].values[f]
        BY <1>2, PlainSet, ThereSet DEF Terraform!Drift
  <2>2. kind.unread \subseteq {"fixed", "blind"} BY KindFields DEF TerraformType
  <2>3. UNCHANGED <<kind, recordedState, unsure>> BY <1>2 DEF Terraform!Drift
  <2>4. recordedState.id # 0 => recordedState.id \in 1..MaxObjects
        BY DEF TerraformType, TerraformRecord
  <2> QED BY <2>1, <2>2, <2>3, <2>4, UsedFields DEF TerraformUnread, Terraform!Used
<1>3. CASE Terraform!Begin
      BY <1>3, ReadBackIs DEF TerraformType, TerraformUnread, Terraform!Used, Terraform!Field,
                              Terraform!Begin, Terraform!CanRead, Terraform!Mine, Terraform!Fail
<1>4. CASE Terraform!Plan
      BY <1>4 DEF TerraformType, TerraformUnread, Terraform!Used, Terraform!Field, Terraform!Plan,
                  Terraform!Differs
<1>5. CASE Terraform!CreateLost
      BY <1>5, MadeSet DEF TerraformType, TerraformUnread, Terraform!Used, Terraform!Field,
                           Terraform!CreateLost, Terraform!Fail
<1>6. CASE Terraform!CreateRefused
      BY <1>6 DEF TerraformType, TerraformUnread, Terraform!Used, Terraform!Field,
                  Terraform!CreateRefused, Terraform!Fail
<1>7. CASE Terraform!CreateOk
      BY <1>7, MadeSet DEF TerraformType, TerraformUnread, Terraform!Used, Terraform!Field,
                           Terraform!CreateOk, Terraform!Fail
<1>8. CASE Terraform!UpdateFails
      BY <1>8, PatchedObject DEF TerraformType, TerraformUnread, Terraform!Used, Terraform!Field,
                                 Terraform!UpdateFails, Terraform!Fail, Terraform!Mine
<1>9. CASE Terraform!UpdateOk
  <2>1. /\ UNCHANGED <<kind, unsure>> /\ recordedState.id # 0
        /\ remote' = Terraform!Patched
        /\ recordedState' = [recordedState EXCEPT !.values = config, !.active = TRUE]
        BY <1>9 DEF Terraform!UpdateOk, TerraformType
  <2>2. recordedState'.id = recordedState.id /\ recordedState'.values = config
        BY <2>1 DEF TerraformType, TerraformRecord
  <2>3. \A f \in Terraform!Field : remote'[recordedState.id].values[f] =
          IF f \in Terraform!Differs THEN config[f] ELSE remote[recordedState.id].values[f]
        BY <2>1, PatchedObject
  <2>4. \A f \in Terraform!Used : f \notin Terraform!Differs => recordedState.values[f] = config[f]
        BY DEF Terraform!Differs
  <2> QED BY <2>1, <2>2, <2>3, <2>4, UsedFields DEF TerraformUnread, Terraform!Used
<1>10. CASE Terraform!Reread
      BY <1>10, ReadBackIs DEF TerraformType, TerraformUnread, Terraform!Used, Terraform!Field,
                               Terraform!Reread, Terraform!CanRead, Terraform!Mine, Terraform!Fail
<1>11. CASE Terraform!Destroy
      BY <1>11 DEF TerraformType, TerraformUnread, Terraform!Used, Terraform!Field,
                   Terraform!Destroy
<1>12. CASE Terraform!DeleteFails
      BY <1>12, ThereSet DEF TerraformType, TerraformUnread, Terraform!Used, Terraform!Field,
                             Terraform!DeleteFails, Terraform!Fail, Terraform!Mine,
                               Terraform!KeepId, Terraform!Deleted
<1>13. CASE Terraform!DeleteOk
      BY <1>13, ThereSet DEF TerraformType, TerraformUnread, Terraform!Used, Terraform!Field,
                             Terraform!DeleteOk, Terraform!Mine, Terraform!Deleted
<1> QED BY <1>1, <1>2, <1>3, <1>4, <1>5, <1>6, <1>7, <1>8, <1>9, <1>10, <1>11, <1>12, <1>13
    DEF Terraform!Next

\* A plan follows its read at once, or others moved in between.
LEMMA ReadTerraform == ASSUME TerraformInv, Terraform!Next PROVE TerraformRead'
<1> USE OperationsAssumption DEF TerraformInv
<1>1. ASSUME NEW f \in Terraform!Field, NEW v \in FieldValue, Terraform!Edit(f, v)
      PROVE TerraformRead'
      BY <1>1 DEF TerraformType, TerraformRead, Terraform!Used, Terraform!Edit
<1>2. ASSUME NEW i \in 1..MaxObjects, NEW v \in FieldValue, Terraform!Drift(i, v)
      PROVE TerraformRead'
      BY <1>2, PlainSet, ThereSet DEF TerraformType, TerraformRead, Terraform!Used, Terraform!Drift
<1>3. CASE Terraform!Begin
  <2>1. CASE applyStep' # "planned" BY <2>1 DEF TerraformRead
  <2>2. CASE applyStep' = "planned"
    <3>1. /\ UNCHANGED <<kind, remote>> /\ recordedState.id # 0
          /\ recordedState' = Terraform!ReadBack /\ remote[recordedState.id].there # "no"
          BY <1>3, <2>2 DEF Terraform!Begin, Terraform!CanRead, Terraform!Mine, Terraform!Fail
    <3>2. /\ recordedState'.id = recordedState.id
          /\ recordedState'.active = (kind.reread => remote[recordedState.id].there = "yes")
          /\ \A f \in Terraform!Field : f \notin kind.unread =>
               recordedState'.values[f] = remote[recordedState.id].values[f]
          BY <3>1, ReadBackIs
    <3>3. \A f \in Terraform!Used \ kind.unread :
            remote'[recordedState'.id].values[f] = recordedState'.values[f]
          BY <3>1, <3>2, UsedFields
    <3>4. Terraform!Used' = Terraform!Used BY <3>1 DEF Terraform!Used
    <3> QED BY <3>1, <3>2, <3>3, <3>4 DEF TerraformRead
  <2> QED BY <2>1, <2>2
<1>4. CASE Terraform!Plan
      BY <1>4 DEF TerraformType, TerraformRead, Terraform!Used, Terraform!Plan, Terraform!Differs
<1>5. CASE Terraform!CreateLost
      BY <1>5, MadeSet DEF TerraformType, TerraformRead, Terraform!Used, Terraform!CreateLost,
                           Terraform!Fail
<1>6. CASE Terraform!CreateRefused
      BY <1>6 DEF TerraformType, TerraformRead, Terraform!Used, Terraform!CreateRefused,
                  Terraform!Fail
<1>7. CASE Terraform!CreateOk
      BY <1>7, MadeSet DEF TerraformType, TerraformRead, Terraform!Used, Terraform!CreateOk,
                           Terraform!Fail
<1>8. CASE Terraform!UpdateFails
      BY <1>8, PatchedObject DEF TerraformType, TerraformRead, Terraform!Used,
                                 Terraform!UpdateFails, Terraform!Fail, Terraform!Mine
<1>9. CASE Terraform!UpdateOk
      BY <1>9, PatchedObject DEF TerraformType, TerraformRead, Terraform!Used, Terraform!UpdateOk,
                                 Terraform!Mine
<1>10. CASE Terraform!Reread
      BY <1>10, ReadBackIs DEF TerraformType, TerraformRead, Terraform!Used, Terraform!Reread,
                               Terraform!CanRead, Terraform!Mine, Terraform!Fail
<1>11. CASE Terraform!Destroy
      BY <1>11 DEF TerraformType, TerraformRead, Terraform!Used, Terraform!Destroy
<1>12. CASE Terraform!DeleteFails
      BY <1>12, ThereSet DEF TerraformType, TerraformRead, Terraform!Used, Terraform!DeleteFails,
                             Terraform!Fail, Terraform!Mine, Terraform!KeepId, Terraform!Deleted
<1>13. CASE Terraform!DeleteOk
      BY <1>13, ThereSet DEF TerraformType, TerraformRead, Terraform!Used, Terraform!DeleteOk,
                             Terraform!Mine, Terraform!Deleted
<1> QED BY <1>1, <1>2, <1>3, <1>4, <1>5, <1>6, <1>7, <1>8, <1>9, <1>10, <1>11, <1>12, <1>13
    DEF Terraform!Next

\* An apply that ends without an error has what was asked for.
LEMMA AppliedTerraform == ASSUME TerraformInv, Terraform!Next PROVE Terraform!AppliedIsReal'
<1> USE OperationsAssumption DEF TerraformInv
<1>1. ASSUME NEW f \in Terraform!Field, NEW v \in FieldValue, Terraform!Edit(f, v)
      PROVE Terraform!AppliedIsReal'
      BY <1>1 DEF TerraformType, TerraformUnread, TerraformRead, Terraform!AppliedIsReal,
                  Terraform!Used, Terraform!Mine, Terraform!Differs, Terraform!Edit
<1>2. ASSUME NEW i \in 1..MaxObjects, NEW v \in FieldValue, Terraform!Drift(i, v)
      PROVE Terraform!AppliedIsReal'
      BY <1>2, PlainSet, ThereSet
      DEF TerraformType, TerraformUnread, TerraformRead, Terraform!AppliedIsReal, Terraform!Used,
          Terraform!Mine, Terraform!Differs, Terraform!Drift
<1>3. CASE Terraform!Begin
      BY <1>3, ReadBackIs DEF TerraformType, TerraformUnread, TerraformRead,
                              Terraform!AppliedIsReal, Terraform!Used, Terraform!Mine,
                                Terraform!Differs, Terraform!Begin, Terraform!CanRead,
                                  Terraform!Fail
<1>4. CASE Terraform!Plan
  <2>1. UNCHANGED <<kind, config, recordedState, remote, unsure>> /\ recordedState.id # 0
        BY <1>4 DEF Terraform!Plan, TerraformType
  <2>2. CASE clean' = clean BY <2>1, <2>2
        DEF Terraform!AppliedIsReal, Terraform!Mine, Terraform!Used
  <2>3. CASE clean' # clean
    <3>1. clean' = ~moved /\ Terraform!Differs = {} /\ applyStep = "planned"
          BY <1>4, <2>3 DEF Terraform!Plan
    <3>2. recordedState.active /\ \A f \in Terraform!Used : recordedState.values[f] = config[f]
          BY <3>1 DEF Terraform!Differs
    <3>3. CASE clean'
      <4>1. ~moved BY <3>1, <3>3
      <4>2. remote[recordedState.id].there \in {"yes", "off"}
            BY <4>1, <3>1 DEF TerraformRead, TerraformType, TerraformObject, TerraformRecord
      <4> QED BY <2>1, <3>1, <3>2, <4>1, <4>2
              DEF TerraformUnread, TerraformRead, Terraform!AppliedIsReal, Terraform!Mine,
                  Terraform!Used
    <3> QED BY <3>3 DEF Terraform!AppliedIsReal
  <2> QED BY <2>2, <2>3
<1>5. CASE Terraform!CreateLost
      BY <1>5, MadeSet DEF TerraformType, TerraformUnread, TerraformRead, Terraform!AppliedIsReal,
                           Terraform!Used, Terraform!Mine, Terraform!Differs, Terraform!CreateLost,
                             Terraform!Fail
<1>6. CASE Terraform!CreateRefused
      BY <1>6 DEF TerraformType, TerraformUnread, TerraformRead, Terraform!AppliedIsReal,
                  Terraform!Used, Terraform!Mine, Terraform!Differs, Terraform!CreateRefused,
                    Terraform!Fail
<1>7. CASE Terraform!CreateOk
      BY <1>7, MadeSet DEF TerraformType, TerraformUnread, TerraformRead, Terraform!AppliedIsReal,
                           Terraform!Used, Terraform!Mine, Terraform!Differs, Terraform!CreateOk,
                             Terraform!Fail
<1>8. CASE Terraform!UpdateFails
      BY <1>8, PatchedObject DEF TerraformType, TerraformUnread, TerraformRead,
                                 Terraform!AppliedIsReal, Terraform!Used, Terraform!Mine,
                                   Terraform!Differs, Terraform!UpdateFails, Terraform!Fail
<1>9. CASE Terraform!UpdateOk
  <2>1. /\ UNCHANGED <<kind, config, unsure, clean>> /\ recordedState.id # 0
        /\ remote' = Terraform!Patched
        /\ recordedState' = [recordedState EXCEPT !.values = config, !.active = TRUE]
        BY <1>9 DEF Terraform!UpdateOk, TerraformType
  <2>2. recordedState'.id = recordedState.id
        BY <2>1 DEF TerraformType, TerraformRecord
  <2>3. /\ remote'[recordedState.id].there \in {"yes", remote[recordedState.id].there}
        /\ \A f \in Terraform!Field :
             remote'[recordedState.id].values[f] \in {config[f], remote[recordedState.id].values[f]}
        BY <2>1, PatchedObject
  <2> QED BY <2>1, <2>2, <2>3, UsedFields
      DEF Terraform!AppliedIsReal, Terraform!Mine, Terraform!Used
<1>10. CASE Terraform!Reread
  <2>1. UNCHANGED <<kind, config, remote, unsure>> /\ recordedState.id # 0
        BY <1>10 DEF Terraform!Reread, TerraformType
  <2>2. CASE ~clean' BY <2>2 DEF Terraform!AppliedIsReal
  <2>3. CASE clean'
    <3>1. /\ recordedState' = Terraform!ReadBack /\ remote[recordedState.id].there # "no"
          /\ Terraform!ReadBack.values = config /\ Terraform!ReadBack.active
          BY <1>10, <2>3 DEF Terraform!Reread, Terraform!CanRead, Terraform!Mine, Terraform!Fail
    <3>2. /\ recordedState'.id = recordedState.id
          /\ kind.reread => remote[recordedState.id].there = "yes"
          /\ \A f \in Terraform!Field : config[f] = IF f \in kind.unread THEN recordedState.values[f]
                                           ELSE remote[recordedState.id].values[f]
          BY <2>1, <3>1, ReadBackIs
    <3>3. remote[recordedState.id].there \in {"yes", "off"}
          BY <2>1, <3>1 DEF TerraformType, TerraformObject, TerraformRecord
    <3> QED BY <2>1, <3>2, <3>3, UsedFields
        DEF Terraform!AppliedIsReal, Terraform!Mine, Terraform!Used, TerraformUnread
  <2> QED BY <2>2, <2>3
<1>11. CASE Terraform!Destroy
      BY <1>11 DEF TerraformType, TerraformUnread, TerraformRead, Terraform!AppliedIsReal,
                   Terraform!Used, Terraform!Mine, Terraform!Differs, Terraform!Destroy
<1>12. CASE Terraform!DeleteFails
      BY <1>12, ThereSet DEF TerraformType, TerraformUnread, TerraformRead, Terraform!AppliedIsReal,
                             Terraform!Used, Terraform!Mine, Terraform!Differs,
                               Terraform!DeleteFails, Terraform!Fail, Terraform!KeepId,
                                 Terraform!Deleted
<1>13. CASE Terraform!DeleteOk
      BY <1>13, ThereSet DEF TerraformType, TerraformUnread, TerraformRead, Terraform!AppliedIsReal,
                             Terraform!Used, Terraform!Mine, Terraform!Differs, Terraform!DeleteOk,
                               Terraform!Deleted
<1> QED BY <1>1, <1>2, <1>3, <1>4, <1>5, <1>6, <1>7, <1>8, <1>9, <1>10, <1>11, <1>12, <1>13
    DEF Terraform!Next

\* Only a create makes an object.
LEMMA ForgottenTerraform == ASSUME TerraformInv, Terraform!Next PROVE Terraform!NoneForgotten'
<1> USE OperationsAssumption DEF TerraformInv
<1>1. ASSUME NEW f \in Terraform!Field, NEW v \in FieldValue, Terraform!Edit(f, v)
      PROVE Terraform!NoneForgotten'
      BY <1>1 DEF TerraformType, Terraform!NoneForgotten, Terraform!Edit
<1>2. ASSUME NEW i \in 1..MaxObjects, NEW v \in FieldValue, Terraform!Drift(i, v)
      PROVE Terraform!NoneForgotten'
      BY <1>2, PlainSet, ThereSet DEF TerraformType, Terraform!NoneForgotten, Terraform!Drift
<1>3. CASE Terraform!Begin
      BY <1>3, ReadBackIs DEF TerraformType, Terraform!NoneForgotten, Terraform!Begin,
                              Terraform!CanRead, Terraform!Mine, Terraform!Fail
<1>4. CASE Terraform!Plan
      BY <1>4 DEF TerraformType, Terraform!NoneForgotten, Terraform!Plan, Terraform!Differs
<1>5. CASE Terraform!CreateLost
      BY <1>5, MadeSet DEF TerraformType, Terraform!NoneForgotten, Terraform!CreateLost,
                           Terraform!Fail
<1>6. CASE Terraform!CreateRefused
      BY <1>6 DEF TerraformType, Terraform!NoneForgotten, Terraform!CreateRefused, Terraform!Fail
<1>7. CASE Terraform!CreateOk
      BY <1>7, MadeSet DEF TerraformType, Terraform!NoneForgotten, Terraform!CreateOk,
                           Terraform!Fail
<1>8. CASE Terraform!UpdateFails
      BY <1>8, PatchedObject DEF TerraformType, Terraform!NoneForgotten, Terraform!UpdateFails,
                                 Terraform!Fail, Terraform!Mine
<1>9. CASE Terraform!UpdateOk
      BY <1>9, PatchedObject DEF TerraformType, Terraform!NoneForgotten, Terraform!UpdateOk,
                                 Terraform!Mine
<1>10. CASE Terraform!Reread
      BY <1>10, ReadBackIs DEF TerraformType, Terraform!NoneForgotten, Terraform!Reread,
                               Terraform!CanRead, Terraform!Mine, Terraform!Fail
<1>11. CASE Terraform!Destroy
      BY <1>11 DEF TerraformType, Terraform!NoneForgotten, Terraform!Destroy
<1>12. CASE Terraform!DeleteFails
      BY <1>12, ThereSet DEF TerraformType, Terraform!NoneForgotten, Terraform!DeleteFails,
                             Terraform!Fail, Terraform!Mine, Terraform!KeepId, Terraform!Deleted
<1>13. CASE Terraform!DeleteOk
      BY <1>13, ThereSet DEF TerraformType, Terraform!NoneForgotten, Terraform!DeleteOk,
                             Terraform!Mine, Terraform!Deleted
<1> QED BY <1>1, <1>2, <1>3, <1>4, <1>5, <1>6, <1>7, <1>8, <1>9, <1>10, <1>11, <1>12, <1>13
    DEF Terraform!Next
-----------------------------------------------------------------------------
(* Backups and restores *)

BackupStep == {"idle", "dump", "package", "copy", "copying", "clean", "unwind", "done", "failed",
               "crashed"}

BackupType(R, C, K, n) ==
  /\ store \in [C -> 1..n + 1] /\ env \in K
  /\ runStep \in [R -> BackupStep]
  /\ dumped \in [R -> [C -> Nat]] /\ began \in [R -> [C -> Nat]] /\ ended \in [R -> [C -> Nat]]
  /\ dir \subseteq R
  /\ archive \in [R -> [state : {"none", "partial", "whole"}, key : K]]
  /\ latest \in [run : R \cup {NoKey}, state : {"none", "partial", "mixed", "whole"}]
  /\ target \in [C -> Nat] /\ indexes \subseteq C /\ report \in {"none", "ok", "failed"}

\* A dump holds what the store held between its begin and its end, and all of it when
\* there is an archive.
BackupDumps(R, C) ==
  \A r \in R :
    /\ runStep[r] = "idle" => \A c \in C : dumped[r][c] = 0
    /\ runStep[r] # "idle" => \A c \in C : began[r][c] <= store[c]
    /\ \A c \in C : dumped[r][c] # 0 => began[r][c] <= dumped[r][c] /\ dumped[r][c] <= store[c]
    /\ archive[r].state # "none" => runStep[r] \notin {"idle", "dump"}
    /\ archive[r].state # "none" \/ runStep[r] \in {"package", "copy", "copying", "clean", "done"} =>
         \A c \in C : dumped[r][c] # 0 /\ dumped[r][c] <= ended[r][c]
    /\ runStep[r] \in {"copy", "copying", "clean", "done"} => archive[r].state = "whole"

\* What is copied to latest is a whole archive.
BackupLatest(R, C, K, n) ==
  /\ latest.state # "none" => latest.run \in R /\ archive[latest.run].state = "whole"
  /\ BackupsOf(R, C, K, n)!LatestIsWhole /\ BackupsOf(R, C, K, n)!NoDumpLeft

\* Where a restore or a verification stands, and what it has put back so far.
BackupReader(R, C, K, n) ==
  /\ stage \in {"unpack", "insert", "index", "verified"} => source \in R /\ report = "none"
  /\ stage = "refused" => report = "none"
  /\ stage = "unpack" => \A c \in C : target[c] = 0
  /\ stage \in {"insert", "index", "verified"} => archive[source].state = "whole"
  /\ stage \in {"insert", "index"} =>
       \A c \in C : target[c] # 0 => target[c] = dumped[source][c]
  /\ stage = "index" => \A c \in C : target[c] # 0
  /\ stage = "verified" => reader = "verify"
  /\ report = "ok" => source \in R
  /\ BackupsOf(R, C, K, n)!RestoreIsTrue

BackupInv(R, C, K, n) ==
  /\ BackupType(R, C, K, n) /\ BackupDumps(R, C)
  /\ BackupLatest(R, C, K, n) /\ BackupReader(R, C, K, n)

\* Nothing is there at the start.
LEMMA InitBackups ==
  ASSUME NEW R, NEW C, NEW K, NEW n \in Nat, NoKey \in K, BackupsOf(R, C, K, n)!Init
  PROVE  BackupInv(R, C, K, n)
<1> DEFINE none == [state |-> "none", key |-> NoKey]
           z == [c \in C |-> 0]
<1>1. none \in [state : {"none", "partial", "whole"}, key : K] /\ none.state = "none" OBVIOUS
<1>2. z \in [C -> Nat] /\ \A c \in C : z[c] = 0 OBVIOUS
<1>3. /\ archive = [r \in R |-> none] /\ dumped = [r \in R |-> z] /\ began = [r \in R |-> z]
      /\ ended = [r \in R |-> z] /\ target = z
      BY DEF BackupsOf!Init, BackupsOf!Zero
<1> HIDE DEF none, z
<1>4. archive \in [R -> [state : {"none", "partial", "whole"}, key : K]] BY <1>1, <1>3
<1>5. /\ dumped \in [R -> [C -> Nat]] /\ began \in [R -> [C -> Nat]] /\ ended \in [R -> [C -> Nat]]
      BY <1>2, <1>3
<1>6. BackupType(R, C, K, n)
      BY <1>2, <1>3, <1>4, <1>5 DEF BackupsOf!Init, BackupType, BackupStep
<1>7. BackupDumps(R, C) BY <1>1, <1>2, <1>3 DEF BackupsOf!Init, BackupDumps
<1>8. BackupLatest(R, C, K, n)
      BY DEF BackupsOf!Init, BackupLatest, BackupsOf!LatestIsWhole, BackupsOf!NoDumpLeft
<1>9. BackupReader(R, C, K, n) BY DEF BackupsOf!Init, BackupReader, BackupsOf!RestoreIsTrue
<1> QED BY <1>6, <1>7, <1>8, <1>9 DEF BackupInv

\* The type.
LEMMA TypeBackups ==
  ASSUME NEW R, NEW C, NEW K, NEW n \in Nat, BackupInv(R, C, K, n), BackupsOf(R, C, K, n)!Next
  PROVE  BackupType(R, C, K, n)'
<1> USE DEF BackupInv, BackupsOf!storeVars, BackupsOf!backupVars, BackupsOf!restoreVars
<1>1. ASSUME NEW c \in C, BackupsOf(R, C, K, n)!Write(c) PROVE BackupType(R, C, K, n)'
      BY <1>1 DEF BackupType, BackupStep, BackupsOf!Write
<1>2. ASSUME NEW c \in C, BackupsOf(R, C, K, n)!Insert(c) PROVE BackupType(R, C, K, n)'
  <2>1. BackupsOf(R, C, K, n)!Holds(source, c) \in Nat
        BY <1>2 DEF BackupsOf!Insert, BackupsOf!Holds, BackupReader, BackupType
  <2> QED BY <1>2, <2>1 DEF BackupType, BackupsOf!Insert
<1>3. ASSUME NEW c \in C, BackupsOf(R, C, K, n)!Index(c) PROVE BackupType(R, C, K, n)'
      BY <1>3 DEF BackupType, BackupStep, BackupsOf!Index
<1>4. ASSUME NEW k \in K, BackupsOf(R, C, K, n)!NewKey(k) PROVE BackupType(R, C, K, n)'
      BY <1>4 DEF BackupType, BackupStep, BackupsOf!NewKey
<1>5. ASSUME NEW r \in R, BackupsOf(R, C, K, n)!Begin(r) PROVE BackupType(R, C, K, n)'
      BY <1>5 DEF BackupType, BackupStep, BackupsOf!Begin
<1>6. ASSUME NEW r \in R, BackupsOf(R, C, K, n)!Manifest(r) PROVE BackupType(R, C, K, n)'
      BY <1>6 DEF BackupType, BackupStep, BackupsOf!Manifest
<1>7. ASSUME NEW r \in R, BackupsOf(R, C, K, n)!Package(r) PROVE BackupType(R, C, K, n)'
      BY <1>7 DEF BackupType, BackupStep, BackupsOf!Package
<1>8. ASSUME NEW r \in R, BackupsOf(R, C, K, n)!Copy(r) PROVE BackupType(R, C, K, n)'
  <2> DEFINE Copies == [run : R \cup {NoKey}, state : {"none", "partial", "mixed", "whole"}]
  <2>1. latest' \in Copies
    <3>1. CASE runStep[r] = "copy" BY <1>8, <3>1 DEF BackupsOf!Copy
    <3>2. CASE runStep[r] = "copying" BY <1>8, <3>2 DEF BackupsOf!Copy, BackupType
    <3> QED BY <1>8, <3>1, <3>2 DEF BackupsOf!Copy
  <2>2. runStep' \in [R -> BackupStep] BY <1>8 DEF BackupsOf!Copy, BackupType, BackupStep
  <2> QED BY <1>8, <2>1, <2>2 DEF BackupsOf!Copy, BackupType
<1>9. ASSUME NEW r \in R, BackupsOf(R, C, K, n)!Throw(r) PROVE BackupType(R, C, K, n)'
      BY <1>9 DEF BackupType, BackupStep, BackupsOf!Throw
<1>10. ASSUME NEW r \in R, BackupsOf(R, C, K, n)!End(r) PROVE BackupType(R, C, K, n)'
      BY <1>10 DEF BackupType, BackupStep, BackupsOf!End, BackupsOf!Cleaned
<1>11. ASSUME NEW r \in R, BackupsOf(R, C, K, n)!Crash(r) PROVE BackupType(R, C, K, n)'
      BY <1>11 DEF BackupType, BackupStep, BackupsOf!Crash
<1>12. ASSUME NEW r \in R, NEW c \in C, BackupsOf(R, C, K, n)!Dump(r, c)
       PROVE BackupType(R, C, K, n)'
      BY <1>12 DEF BackupType, BackupStep, BackupsOf!Dump
<1>13. ASSUME NEW r \in R, NEW t \in {"restore", "verify"}, BackupsOf(R, C, K, n)!Read(t, r)
       PROVE BackupType(R, C, K, n)'
      BY <1>13 DEF BackupType, BackupStep, BackupsOf!Read, BackupsOf!Zero
<1>14. ASSUME NEW t \in {"restore", "verify"}, BackupsOf(R, C, K, n)!ReadLatest(t)
       PROVE BackupType(R, C, K, n)'
      BY <1>14 DEF BackupType, BackupStep, BackupsOf!ReadLatest, BackupsOf!Zero
<1>15. CASE BackupsOf(R, C, K, n)!Unpack
      BY <1>15 DEF BackupType, BackupStep, BackupsOf!Unpack, BackupsOf!Opens
<1>16. CASE BackupsOf(R, C, K, n)!Check
      BY <1>16 DEF BackupType, BackupStep, BackupsOf!Check, BackupsOf!Indexed
<1>17. CASE BackupsOf(R, C, K, n)!Refuse
      BY <1>17 DEF BackupType, BackupStep, BackupsOf!Refuse
<1>18. CASE BackupsOf(R, C, K, n)!Close
      BY <1>18 DEF BackupType, BackupStep, BackupsOf!Close
<1> QED BY <1>1, <1>2, <1>3, <1>4, <1>5, <1>6, <1>7, <1>8, <1>9, <1>10, <1>11, <1>12, <1>13, <1>14,
      <1>15, <1>16, <1>17, <1>18
        DEF BackupsOf!Next

\* A backup reads between its begin and its end.
LEMMA DumpsBackups ==
  ASSUME NEW R, NEW C, NEW K, NEW n \in Nat, BackupInv(R, C, K, n), BackupsOf(R, C, K, n)!Next
  PROVE  BackupDumps(R, C)'
<1> USE DEF BackupInv, BackupsOf!storeVars, BackupsOf!backupVars, BackupsOf!restoreVars
<1>1. ASSUME NEW c \in C, BackupsOf(R, C, K, n)!Write(c) PROVE BackupDumps(R, C)'
      BY <1>1 DEF BackupType, BackupDumps, BackupsOf!Write
<1>2. ASSUME NEW c \in C, BackupsOf(R, C, K, n)!Insert(c) PROVE BackupDumps(R, C)'
      BY <1>2 DEF BackupType, BackupDumps, BackupsOf!Insert, BackupsOf!Holds
<1>3. ASSUME NEW c \in C, BackupsOf(R, C, K, n)!Index(c) PROVE BackupDumps(R, C)'
      BY <1>3 DEF BackupType, BackupDumps, BackupsOf!Index
<1>4. ASSUME NEW k \in K, BackupsOf(R, C, K, n)!NewKey(k) PROVE BackupDumps(R, C)'
      BY <1>4 DEF BackupType, BackupDumps, BackupsOf!NewKey
<1>5. ASSUME NEW r \in R, BackupsOf(R, C, K, n)!Begin(r) PROVE BackupDumps(R, C)'
      BY <1>5 DEF BackupType, BackupDumps, BackupsOf!Begin
<1>6. ASSUME NEW r \in R, BackupsOf(R, C, K, n)!Manifest(r) PROVE BackupDumps(R, C)'
      BY <1>6 DEF BackupType, BackupDumps, BackupsOf!Manifest
<1>7. ASSUME NEW r \in R, BackupsOf(R, C, K, n)!Package(r) PROVE BackupDumps(R, C)'
      BY <1>7 DEF BackupType, BackupDumps, BackupsOf!Package
<1>8. ASSUME NEW r \in R, BackupsOf(R, C, K, n)!Copy(r) PROVE BackupDumps(R, C)'
      BY <1>8 DEF BackupType, BackupDumps, BackupsOf!Copy, BackupsOf!Overlap
<1>9. ASSUME NEW r \in R, BackupsOf(R, C, K, n)!Throw(r) PROVE BackupDumps(R, C)'
      BY <1>9 DEF BackupType, BackupDumps, BackupsOf!Throw
<1>10. ASSUME NEW r \in R, BackupsOf(R, C, K, n)!End(r) PROVE BackupDumps(R, C)'
      BY <1>10 DEF BackupType, BackupDumps, BackupsOf!End, BackupsOf!Cleaned
<1>11. ASSUME NEW r \in R, BackupsOf(R, C, K, n)!Crash(r) PROVE BackupDumps(R, C)'
      BY <1>11 DEF BackupType, BackupDumps, BackupsOf!Crash
<1>12. ASSUME NEW r \in R, NEW c \in C, BackupsOf(R, C, K, n)!Dump(r, c) PROVE BackupDumps(R, C)'
      BY <1>12 DEF BackupType, BackupDumps, BackupsOf!Dump
<1>13. ASSUME NEW r \in R, NEW t \in {"restore", "verify"}, BackupsOf(R, C, K, n)!Read(t, r)
       PROVE BackupDumps(R, C)'
      BY <1>13 DEF BackupType, BackupDumps, BackupsOf!Read, BackupsOf!Zero
<1>14. ASSUME NEW t \in {"restore", "verify"}, BackupsOf(R, C, K, n)!ReadLatest(t)
       PROVE BackupDumps(R, C)'
      BY <1>14 DEF BackupType, BackupDumps, BackupsOf!ReadLatest, BackupsOf!Zero
<1>15. CASE BackupsOf(R, C, K, n)!Unpack
      BY <1>15 DEF BackupType, BackupDumps, BackupsOf!Unpack, BackupsOf!Opens
<1>16. CASE BackupsOf(R, C, K, n)!Check
      BY <1>16 DEF BackupType, BackupDumps, BackupsOf!Check, BackupsOf!Indexed
<1>17. CASE BackupsOf(R, C, K, n)!Refuse
      BY <1>17 DEF BackupType, BackupDumps, BackupsOf!Refuse
<1>18. CASE BackupsOf(R, C, K, n)!Close
      BY <1>18 DEF BackupType, BackupDumps, BackupsOf!Close
<1> QED BY <1>1, <1>2, <1>3, <1>4, <1>5, <1>6, <1>7, <1>8, <1>9, <1>10, <1>11, <1>12, <1>13, <1>14,
      <1>15, <1>16, <1>17, <1>18
        DEF BackupsOf!Next

\* A copy that is not whole is under way or failed.
LEMMA LatestBackups ==
  ASSUME NEW R, NEW C, NEW K, NEW n \in Nat, BackupInv(R, C, K, n), BackupsOf(R, C, K, n)!Next
  PROVE  BackupLatest(R, C, K, n)'
<1> USE DEF BackupInv, BackupsOf!storeVars, BackupsOf!backupVars, BackupsOf!restoreVars
<1>1. ASSUME NEW c \in C, BackupsOf(R, C, K, n)!Write(c) PROVE BackupLatest(R, C, K, n)'
      BY <1>1 DEF BackupType, BackupDumps, BackupLatest, BackupsOf!LatestIsWhole,
                  BackupsOf!NoDumpLeft, BackupsOf!Write
<1>2. ASSUME NEW c \in C, BackupsOf(R, C, K, n)!Insert(c) PROVE BackupLatest(R, C, K, n)'
      BY <1>2 DEF BackupType, BackupDumps, BackupLatest, BackupsOf!LatestIsWhole,
                  BackupsOf!NoDumpLeft, BackupsOf!Insert, BackupsOf!Holds
<1>3. ASSUME NEW c \in C, BackupsOf(R, C, K, n)!Index(c) PROVE BackupLatest(R, C, K, n)'
      BY <1>3 DEF BackupType, BackupDumps, BackupLatest, BackupsOf!LatestIsWhole,
                  BackupsOf!NoDumpLeft, BackupsOf!Index
<1>4. ASSUME NEW k \in K, BackupsOf(R, C, K, n)!NewKey(k) PROVE BackupLatest(R, C, K, n)'
      BY <1>4 DEF BackupType, BackupDumps, BackupLatest, BackupsOf!LatestIsWhole,
                  BackupsOf!NoDumpLeft, BackupsOf!NewKey
<1>5. ASSUME NEW r \in R, BackupsOf(R, C, K, n)!Begin(r) PROVE BackupLatest(R, C, K, n)'
      BY <1>5 DEF BackupType, BackupDumps, BackupLatest, BackupsOf!LatestIsWhole,
                  BackupsOf!NoDumpLeft, BackupsOf!Begin
<1>6. ASSUME NEW r \in R, BackupsOf(R, C, K, n)!Manifest(r) PROVE BackupLatest(R, C, K, n)'
      BY <1>6 DEF BackupType, BackupDumps, BackupLatest, BackupsOf!LatestIsWhole,
                  BackupsOf!NoDumpLeft, BackupsOf!Manifest
<1>7. ASSUME NEW r \in R, BackupsOf(R, C, K, n)!Package(r) PROVE BackupLatest(R, C, K, n)'
      BY <1>7 DEF BackupType, BackupDumps, BackupLatest, BackupsOf!LatestIsWhole,
                  BackupsOf!NoDumpLeft, BackupsOf!Package
<1>8. ASSUME NEW r \in R, BackupsOf(R, C, K, n)!Copy(r) PROVE BackupLatest(R, C, K, n)'
      BY <1>8 DEF BackupType, BackupDumps, BackupLatest, BackupsOf!LatestIsWhole,
                  BackupsOf!NoDumpLeft, BackupsOf!Copy, BackupsOf!Overlap
<1>9. ASSUME NEW r \in R, BackupsOf(R, C, K, n)!Throw(r) PROVE BackupLatest(R, C, K, n)'
      BY <1>9 DEF BackupType, BackupDumps, BackupLatest, BackupsOf!LatestIsWhole,
                  BackupsOf!NoDumpLeft, BackupsOf!Throw
<1>10. ASSUME NEW r \in R, BackupsOf(R, C, K, n)!End(r) PROVE BackupLatest(R, C, K, n)'
      BY <1>10 DEF BackupType, BackupDumps, BackupLatest, BackupsOf!LatestIsWhole,
                   BackupsOf!NoDumpLeft, BackupsOf!End, BackupsOf!Cleaned
<1>11. ASSUME NEW r \in R, BackupsOf(R, C, K, n)!Crash(r) PROVE BackupLatest(R, C, K, n)'
      BY <1>11 DEF BackupType, BackupDumps, BackupLatest, BackupsOf!LatestIsWhole,
                   BackupsOf!NoDumpLeft, BackupsOf!Crash
<1>12. ASSUME NEW r \in R, NEW c \in C, BackupsOf(R, C, K, n)!Dump(r, c)
       PROVE BackupLatest(R, C, K, n)'
      BY <1>12 DEF BackupType, BackupDumps, BackupLatest, BackupsOf!LatestIsWhole,
                   BackupsOf!NoDumpLeft, BackupsOf!Dump
<1>13. ASSUME NEW r \in R, NEW t \in {"restore", "verify"}, BackupsOf(R, C, K, n)!Read(t, r)
       PROVE BackupLatest(R, C, K, n)'
      BY <1>13 DEF BackupType, BackupDumps, BackupLatest, BackupsOf!LatestIsWhole,
                   BackupsOf!NoDumpLeft, BackupsOf!Read, BackupsOf!Zero
<1>14. ASSUME NEW t \in {"restore", "verify"}, BackupsOf(R, C, K, n)!ReadLatest(t)
       PROVE BackupLatest(R, C, K, n)'
      BY <1>14 DEF BackupType, BackupDumps, BackupLatest, BackupsOf!LatestIsWhole,
                   BackupsOf!NoDumpLeft, BackupsOf!ReadLatest, BackupsOf!Zero
<1>15. CASE BackupsOf(R, C, K, n)!Unpack
      BY <1>15 DEF BackupType, BackupDumps, BackupLatest, BackupsOf!LatestIsWhole,
                   BackupsOf!NoDumpLeft, BackupsOf!Unpack, BackupsOf!Opens
<1>16. CASE BackupsOf(R, C, K, n)!Check
      BY <1>16 DEF BackupType, BackupDumps, BackupLatest, BackupsOf!LatestIsWhole,
                   BackupsOf!NoDumpLeft, BackupsOf!Check, BackupsOf!Indexed
<1>17. CASE BackupsOf(R, C, K, n)!Refuse
      BY <1>17 DEF BackupType, BackupDumps, BackupLatest, BackupsOf!LatestIsWhole,
                   BackupsOf!NoDumpLeft, BackupsOf!Refuse
<1>18. CASE BackupsOf(R, C, K, n)!Close
      BY <1>18 DEF BackupType, BackupDumps, BackupLatest, BackupsOf!LatestIsWhole,
                   BackupsOf!NoDumpLeft, BackupsOf!Close
<1> QED BY <1>1, <1>2, <1>3, <1>4, <1>5, <1>6, <1>7, <1>8, <1>9, <1>10, <1>11, <1>12, <1>13, <1>14,
      <1>15, <1>16, <1>17, <1>18
        DEF BackupsOf!Next

\* What a restore puts back is what was dumped.
LEMMA ReaderBackups ==
  ASSUME NEW R, NEW C, NEW K, NEW n \in Nat, BackupInv(R, C, K, n), BackupsOf(R, C, K, n)!Next
  PROVE  BackupReader(R, C, K, n)'
<1> USE DEF BackupInv, BackupsOf!storeVars, BackupsOf!backupVars, BackupsOf!restoreVars
<1>1. ASSUME NEW c \in C, BackupsOf(R, C, K, n)!Write(c) PROVE BackupReader(R, C, K, n)'
      BY <1>1 DEF BackupType, BackupDumps, BackupLatest, BackupReader, BackupsOf!RestoreIsTrue,
                  BackupsOf!Write
<1>2. ASSUME NEW c \in C, BackupsOf(R, C, K, n)!Insert(c) PROVE BackupReader(R, C, K, n)'
      BY <1>2, ZenonT(60) DEF BackupType, BackupDumps, BackupLatest, BackupReader,
                              BackupsOf!RestoreIsTrue, BackupsOf!Insert, BackupsOf!Holds
<1>3. ASSUME NEW c \in C, BackupsOf(R, C, K, n)!Index(c) PROVE BackupReader(R, C, K, n)'
      BY <1>3 DEF BackupType, BackupDumps, BackupLatest, BackupReader, BackupsOf!RestoreIsTrue,
                  BackupsOf!Index
<1>4. ASSUME NEW k \in K, BackupsOf(R, C, K, n)!NewKey(k) PROVE BackupReader(R, C, K, n)'
      BY <1>4 DEF BackupType, BackupDumps, BackupLatest, BackupReader, BackupsOf!RestoreIsTrue,
                  BackupsOf!NewKey
<1>5. ASSUME NEW r \in R, BackupsOf(R, C, K, n)!Begin(r) PROVE BackupReader(R, C, K, n)'
      BY <1>5 DEF BackupType, BackupDumps, BackupLatest, BackupReader, BackupsOf!RestoreIsTrue,
                  BackupsOf!Begin
<1>6. ASSUME NEW r \in R, BackupsOf(R, C, K, n)!Manifest(r) PROVE BackupReader(R, C, K, n)'
      BY <1>6 DEF BackupType, BackupDumps, BackupLatest, BackupReader, BackupsOf!RestoreIsTrue,
                  BackupsOf!Manifest
<1>7. ASSUME NEW r \in R, BackupsOf(R, C, K, n)!Package(r) PROVE BackupReader(R, C, K, n)'
      BY <1>7 DEF BackupType, BackupDumps, BackupLatest, BackupReader, BackupsOf!RestoreIsTrue,
                  BackupsOf!Package
<1>8. ASSUME NEW r \in R, BackupsOf(R, C, K, n)!Copy(r) PROVE BackupReader(R, C, K, n)'
      BY <1>8 DEF BackupType, BackupDumps, BackupLatest, BackupReader, BackupsOf!RestoreIsTrue,
                  BackupsOf!Copy, BackupsOf!Overlap
<1>9. ASSUME NEW r \in R, BackupsOf(R, C, K, n)!Throw(r) PROVE BackupReader(R, C, K, n)'
      BY <1>9 DEF BackupType, BackupDumps, BackupLatest, BackupReader, BackupsOf!RestoreIsTrue,
                  BackupsOf!Throw
<1>10. ASSUME NEW r \in R, BackupsOf(R, C, K, n)!End(r) PROVE BackupReader(R, C, K, n)'
      BY <1>10 DEF BackupType, BackupDumps, BackupLatest, BackupReader, BackupsOf!RestoreIsTrue,
                   BackupsOf!End, BackupsOf!Cleaned
<1>11. ASSUME NEW r \in R, BackupsOf(R, C, K, n)!Crash(r) PROVE BackupReader(R, C, K, n)'
      BY <1>11 DEF BackupType, BackupDumps, BackupLatest, BackupReader, BackupsOf!RestoreIsTrue,
                   BackupsOf!Crash
<1>12. ASSUME NEW r \in R, NEW c \in C, BackupsOf(R, C, K, n)!Dump(r, c)
       PROVE BackupReader(R, C, K, n)'
      BY <1>12 DEF BackupType, BackupDumps, BackupLatest, BackupReader, BackupsOf!RestoreIsTrue,
                   BackupsOf!Dump
<1>13. ASSUME NEW r \in R, NEW t \in {"restore", "verify"}, BackupsOf(R, C, K, n)!Read(t, r)
       PROVE BackupReader(R, C, K, n)'
      BY <1>13 DEF BackupType, BackupDumps, BackupLatest, BackupReader, BackupsOf!RestoreIsTrue,
                   BackupsOf!Read, BackupsOf!Zero
<1>14. ASSUME NEW t \in {"restore", "verify"}, BackupsOf(R, C, K, n)!ReadLatest(t)
       PROVE BackupReader(R, C, K, n)'
      BY <1>14 DEF BackupType, BackupDumps, BackupLatest, BackupReader, BackupsOf!RestoreIsTrue,
                   BackupsOf!ReadLatest, BackupsOf!Zero
<1>15. CASE BackupsOf(R, C, K, n)!Unpack
      BY <1>15 DEF BackupType, BackupDumps, BackupLatest, BackupReader, BackupsOf!RestoreIsTrue,
                   BackupsOf!Unpack, BackupsOf!Opens
<1>16. CASE BackupsOf(R, C, K, n)!Check
      BY <1>16 DEF BackupType, BackupDumps, BackupLatest, BackupReader, BackupsOf!RestoreIsTrue,
                   BackupsOf!Check, BackupsOf!Indexed
<1>17. CASE BackupsOf(R, C, K, n)!Refuse
      BY <1>17 DEF BackupType, BackupDumps, BackupLatest, BackupReader, BackupsOf!RestoreIsTrue,
                   BackupsOf!Refuse
<1>18. CASE BackupsOf(R, C, K, n)!Close
      BY <1>18 DEF BackupType, BackupDumps, BackupLatest, BackupReader, BackupsOf!RestoreIsTrue,
                   BackupsOf!Close
<1> QED BY <1>1, <1>2, <1>3, <1>4, <1>5, <1>6, <1>7, <1>8, <1>9, <1>10, <1>11, <1>12, <1>13, <1>14,
      <1>15, <1>16, <1>17, <1>18
        DEF BackupsOf!Next
\* No step breaks the invariant.
LEMMA BackupsStep ==
  ASSUME NEW R, NEW C, NEW K, NEW n \in Nat, BackupInv(R, C, K, n), BackupsOf(R, C, K, n)!Next
  PROVE  BackupInv(R, C, K, n)'
  BY TypeBackups, DumpsBackups, LatestBackups, ReaderBackups DEF BackupInv

\* Others leave the backups alone.
LEMMA BackupsStay ==
  ASSUME NEW R, NEW C, NEW K, NEW n \in Nat, BackupInv(R, C, K, n), UNCHANGED backupVars
  PROVE  BackupInv(R, C, K, n)'
  BY DEF BackupInv, BackupType, BackupDumps, BackupLatest, BackupReader, BackupsOf!LatestIsWhole,
         BackupsOf!NoDumpLeft, BackupsOf!RestoreIsTrue, backupVars

\* What the invariant says of the backups.
LEMMA BackupsPromise ==
  ASSUME NEW R, NEW C, NEW K, NEW n \in Nat, BackupInv(R, C, K, n)
  PROVE  /\ BackupsOf(R, C, K, n)!TypeOK /\ BackupsOf(R, C, K, n)!RestoreIsTrue
         /\ BackupsOf(R, C, K, n)!LatestIsWhole /\ BackupsOf(R, C, K, n)!NoDumpLeft
  BY DEF BackupInv, BackupType, BackupLatest, BackupReader, BackupsOf!TypeOK

\* No step breaks the invariant, and others leave the resource alone.
LEMMA TerraformStep ==
  ASSUME TerraformInv, Terraform!Next \/ UNCHANGED terraformVars PROVE TerraformInv'
<1>1. CASE Terraform!Next
      BY <1>1, TypeTerraform, UnreadTerraform, ReadTerraform, AppliedTerraform, ForgottenTerraform
      DEF TerraformInv
<1>2. CASE UNCHANGED terraformVars
      BY <1>2 DEF terraformVars, TerraformInv, TerraformType, TerraformUnread, TerraformRead,
                  Terraform!AppliedIsReal, Terraform!NoneForgotten, Terraform!Used, Terraform!Mine
<1> QED BY <1>1, <1>2

\* The invariant contains the type the model states.
LEMMA TerraformTypes == ASSUME TerraformInv PROVE Terraform!TypeOK
<1>1. \A i \in 1..MaxObjects : /\ remote[i].there \in {"no", "yes", "off"}
                               /\ remote[i].values \in [Terraform!Field -> FieldValue]
      BY DEF TerraformInv, TerraformType, TerraformObject
<1>2. /\ recordedState.id \in 0..made /\ recordedState.tainted \in BOOLEAN
      /\ recordedState.active \in BOOLEAN
      /\ recordedState.values \in [Terraform!Field -> FieldValue]
      BY DEF TerraformInv, TerraformType, TerraformRecord
<1> QED BY <1>1, <1>2 DEF TerraformInv, TerraformType, Terraform!TypeOK

BothBackups ==
  IF part = "two backups" THEN BackupInv(Run, OneColl, {NoKey}, 0)
                          ELSE BackupInv(OneRun, Coll, Key, MaxWrites)

\* After an apply without an error the server has what was asked for, and an object in use
\* is in the state file unless the answer to its create was lost.  A restore that reports
\* success has put back what the store held during the backup, the latest archive is whole
\* unless a copy was cut off, and a dump in plain text outlives only a process that died.
THEOREM OperationsSafe == Spec => []OperationsHold
<1> USE OperationsAssumption
<1>1. Init => TerraformInv /\ BothBackups
      BY InitTerraform, InitBackups DEF Init, BothBackups
<1>2. TerraformInv /\ BothBackups /\ [Next]_vars => (TerraformInv /\ BothBackups)'
  <2> SUFFICES ASSUME TerraformInv, BothBackups, [Next]_vars PROVE TerraformInv' /\ BothBackups'
      OBVIOUS
  <2>1. part' = part BY DEF Next, vars
  <2>2. Terraform!Next \/ UNCHANGED terraformVars
        BY DEF Next, vars, opsVars
  <2>3. \/ UNCHANGED backupVars
        \/ part = "backups" /\ BackupsOf(OneRun, Coll, Key, MaxWrites)!Next
        \/ part = "two backups" /\ BackupsOf(Run, OneColl, {NoKey}, 0)!Next
        BY DEF Next, vars, opsVars
  <2> QED BY <2>1, <2>2, <2>3, TerraformStep, BackupsStep, BackupsStay DEF BothBackups
<1>3. TerraformInv /\ BothBackups => OperationsHold
      BY TerraformTypes, BackupsPromise DEF TerraformInv, BothBackups, OperationsHold
<1> QED BY <1>1, <1>2, <1>3, PTL DEF Spec

-----------------------------------------------------------------------------
(* OAuth clients and grants *)

GrantClient(S, n) ==
  [there : BOOLEAN, active : BOOLEAN, confidential : BOOLEAN, secret : 0..n,
   grants : SUBSET {"authorization_code", "refresh_token", "client_credentials"},
   scopes : SUBSET S, uris : SUBSET Uri]

GrantCode == [state : {"none", "live", "expired", "consumed"}, uri : Uri,
              pkce : {"no", "S256", "unnamed"}]

GrantRequest(D, S, n) ==
  [pc : {"idle", "client", "session", "find", "consume", "issue", "minted", "refused"},
   grant : {"none", "service", "engine service", "refresh", "code"}, secret : 0..n,
   scope : SUBSET S, uri : Uri, code : D \cup {0}, proof : BOOLEAN, barred : BOOLEAN,
   offered : SUBSET S, late : BOOLEAN]

GrantType(R, D, S, n, b) ==
  /\ client \in GrantClient(S, n) /\ client.secret <= changes
  /\ code \in [D -> GrantCode] /\ req \in [R -> GrantRequest(D, S, n)]
  /\ changes \in 0..n /\ requests \in 0..b /\ grantOf \in [D -> Nat]

\* The steps of each grant; only a request for a code names one.
GrantKinds(R, D) ==
  \A r \in R :
    /\ req[r].grant = "code" => req[r].code \in D
    /\ req[r].code # 0 => req[r].grant = "code"
    /\ req[r].pc \in {"find", "consume"} => req[r].grant = "code"
    /\ req[r].pc = "session" => req[r].grant = "refresh"
    /\ req[r].pc = "issue" => req[r].grant \in {"engine service", "code"}

\* Whoever is barred is not served, and a client under way is offered what it has.
GrantClients(R) ==
  \A r \in R :
    /\ req[r].pc \notin {"idle", "client", "refused"} => ~req[r].barred
    /\ req[r].pc = "client" =>
         /\ req[r].barred => ~(client.there /\ client.active
                                /\ (client.confidential => req[r].secret = client.secret))
         /\ client.scopes \subseteq req[r].offered
    /\ req[r].pc = "minted" /\ req[r].grant = "service" => req[r].scope \subseteq req[r].offered

\* A code is used up before tokens are minted for it.
GrantOnce(D) ==
  \A d \in D : grantOf[d] <= 1 /\ (code[d].state # "consumed" => grantOf[d] = 0)

\* A request that is late for its code goes no further than to look for it.
GrantLate(R) ==
  \A r \in R : req[r].late =>
    /\ req[r].grant = "code" /\ code[req[r].code].state \notin {"none", "live"}
    /\ req[r].pc \in {"client", "find", "refused"}

\* Tokens are minted for a request that used its code up and proved itself.
GrantProven(R) ==
  \A r \in R : req[r].grant = "code" /\ req[r].pc \in {"issue", "minted"} =>
    /\ code[req[r].code].state = "consumed"
    /\ req[r].uri = code[req[r].code].uri
    /\ code[req[r].code].pkce = "no" \/ req[r].proof
    /\ req[r].pc = "issue" => grantOf[req[r].code] = 0

\* No two requests have used up the same code.
GrantAlone(R) ==
  \A q, r \in R :
    /\ req[q].grant = "code" /\ req[q].pc = "issue"
    /\ req[r].grant = "code" /\ req[r].pc = "issue" /\ req[q].code = req[r].code
    => q = r

GrantInv(R, D, S, n, b) ==
  /\ GrantType(R, D, S, n, b) /\ GrantKinds(R, D) /\ GrantClients(R)
  /\ GrantOnce(D) /\ GrantLate(R) /\ GrantProven(R) /\ GrantAlone(R)

\* A request that goes on to another step.
LEMMA RequestGoes ==
  ASSUME NEW R, NEW D, NEW S, NEW n, req \in [R -> GrantRequest(D, S, n)], NEW r \in R,
         NEW p \in {"session", "find", "consume", "issue", "minted", "refused"},
         NEW new, new = [req EXCEPT ![r].pc = p]
  PROVE  /\ new \in [R -> GrantRequest(D, S, n)] /\ new[r].pc = p
         /\ \A q \in R \ {r} : new[q] = req[q]
         /\ new[r].grant = req[r].grant /\ new[r].secret = req[r].secret
         /\ new[r].scope = req[r].scope /\ new[r].uri = req[r].uri /\ new[r].code = req[r].code
         /\ new[r].proof = req[r].proof /\ new[r].barred = req[r].barred
         /\ new[r].offered = req[r].offered /\ new[r].late = req[r].late
<1> DEFINE o == [req[r] EXCEPT !.pc = p]
<1>1. req[r] \in GrantRequest(D, S, n) OBVIOUS
<1>2. /\ o \in GrantRequest(D, S, n) /\ o.pc = p
      /\ o.grant = req[r].grant /\ o.secret = req[r].secret
      /\ o.scope = req[r].scope /\ o.uri = req[r].uri /\ o.code = req[r].code
      /\ o.proof = req[r].proof /\ o.barred = req[r].barred
      /\ o.offered = req[r].offered /\ o.late = req[r].late
      BY <1>1 DEF GrantRequest
<1>3. new = [req EXCEPT ![r] = o] OBVIOUS
<1> HIDE DEF o
<1> QED BY <1>2, <1>3


\* Every request under way sees a change of the client.
LEMMA RequestSees ==
  ASSUME NEW R, NEW D, NEW S, NEW n, NEW b, NEW U, req \in [R -> GrantRequest(D, S, n)],
         NEW c \in GrantClient(S, n), GrantsOf(R, D, S, n, b, U)!Change(c), NEW r \in R
  PROVE  /\ req'[r] \in GrantRequest(D, S, n)
         /\ req'[r].pc = req[r].pc /\ req'[r].grant = req[r].grant
         /\ req'[r].secret = req[r].secret /\ req'[r].scope = req[r].scope
         /\ req'[r].uri = req[r].uri /\ req'[r].code = req[r].code
         /\ req'[r].proof = req[r].proof /\ req'[r].late = req[r].late
         /\ req'[r].barred => /\ req[r].barred
                              /\ ~(c.there /\ c.active /\ (c.confidential => req[r].secret = c.secret))
         /\ req[r].offered \subseteq req'[r].offered
         /\ req[r].pc \notin {"idle", "done"} => c.scopes \subseteq req'[r].offered
<1> DEFINE w == req[r].barred /\ ~(c.there /\ c.active
                                   /\ (c.confidential => req[r].secret = c.secret))
           s == IF req[r].pc \in {"idle", "done"} THEN req[r].offered
                ELSE req[r].offered \cup c.scopes
           o == [req[r] EXCEPT !.barred = w, !.offered = s]
<1>1. req[r] \in GrantRequest(D, S, n) /\ w \in BOOLEAN OBVIOUS
<1>2. /\ s \in SUBSET S /\ req[r].offered \subseteq s
      /\ req[r].pc \notin {"idle", "done"} => c.scopes \subseteq s
      BY <1>1 DEF GrantRequest, GrantClient
<1>3. req'[r] = o BY DEF GrantsOf!Change, GrantsOf!Servable
<1> HIDE DEF w, s
<1>4. /\ o \in GrantRequest(D, S, n) /\ o.pc = req[r].pc
      /\ o.grant = req[r].grant /\ o.secret = req[r].secret
      /\ o.scope = req[r].scope /\ o.uri = req[r].uri /\ o.code = req[r].code
      /\ o.proof = req[r].proof /\ o.barred = w
      /\ o.offered = s /\ o.late = req[r].late
      BY <1>1, <1>2 DEF GrantRequest
<1> HIDE DEF o
<1> QED BY <1>2, <1>3, <1>4 DEF w

\* A change of the client bars those whom the client it leaves does not serve.
LEMMA ChangeKeeps ==
  ASSUME NEW R, NEW D, NEW S, NEW n \in Nat, NEW b, NEW U, GrantInv(R, D, S, n, b),
         NEW c \in GrantClient(S, n), c.secret <= changes + 1, GrantsOf(R, D, S, n, b, U)!Change(c)
  PROVE  GrantInv(R, D, S, n, b)'
<1>0. req \in [R -> GrantRequest(D, S, n)] BY DEF GrantInv, GrantType
<1>1. /\ client' = c /\ changes' = changes + 1 /\ changes < n
      /\ UNCHANGED <<code, requests, grantOf>> /\ req' = [r \in R |-> req'[r]]
      BY DEF GrantsOf!Change
<1>2. req' \in [R -> GrantRequest(D, S, n)]
  <2>1. \A r \in R : req'[r] \in GrantRequest(D, S, n) BY <1>0, RequestSees
  <2> QED BY <1>1, <2>1
<1>3. \A r \in R : /\ req'[r].pc = req[r].pc /\ req'[r].grant = req[r].grant
                   /\ req'[r].uri = req[r].uri /\ req'[r].code = req[r].code
                   /\ req'[r].proof = req[r].proof /\ req'[r].late = req[r].late
  <2> TAKE r \in R
  <2> QED BY <1>0, RequestSees
<1>4. GrantType(R, D, S, n, b)' BY <1>1, <1>2 DEF GrantInv, GrantType
<1>5. GrantKinds(R, D)' BY <1>3, ZenonT(60) DEF GrantInv, GrantKinds
<1>7. GrantOnce(D)' /\ GrantLate(R)' BY <1>1, <1>3 DEF GrantInv, GrantOnce, GrantLate
<1>8. GrantProven(R)' /\ GrantAlone(R)' BY <1>1, <1>3 DEF GrantInv, GrantProven, GrantAlone
<1>6. GrantClients(R)'
  <2> SUFFICES ASSUME NEW r \in R
               PROVE  /\ req'[r].pc \notin {"idle", "client", "refused"} => ~req'[r].barred
                      /\ req'[r].pc = "client" =>
                           /\ req'[r].barred => ~(c.there /\ c.active
                                /\ (c.confidential => req'[r].secret = c.secret))
                           /\ c.scopes \subseteq req'[r].offered
                      /\ req'[r].pc = "minted" /\ req'[r].grant = "service" =>
                           req'[r].scope \subseteq req'[r].offered
      BY <1>1 DEF GrantClients
  <2>1. /\ req'[r].pc = req[r].pc /\ req'[r].grant = req[r].grant
        /\ req'[r].secret = req[r].secret /\ req'[r].scope = req[r].scope
        BY <1>0, RequestSees
  <2>2. req'[r].barred => req[r].barred BY <1>0, RequestSees
  <2>3. req'[r].barred => ~(c.there /\ c.active /\ (c.confidential => req[r].secret = c.secret))
        BY <1>0, RequestSees
  <2>4. req[r].offered \subseteq req'[r].offered BY <1>0, RequestSees
  <2>5. req[r].pc \notin {"idle", "done"} => c.scopes \subseteq req'[r].offered
        BY <1>0, RequestSees
  <2> QED BY <2>1, <2>2, <2>3, <2>4, <2>5 DEF GrantInv, GrantClients
<1> QED BY <1>4, <1>5, <1>6, <1>7, <1>8 DEF GrantInv

\* A code that was not issued.
LEMMA UnusedCode ==
  ASSUME NEW R, NEW D, NEW S, NEW n, NEW b, NEW U
  PROVE  GrantsOf(R, D, S, n, b, U)!NoCode \in GrantCode
         /\ GrantsOf(R, D, S, n, b, U)!NoCode.state = "none"
         /\ GrantsOf(R, D, S, n, b, U)!NoCode.uri \in Uri
  BY GrantsAssumption DEF GrantsOf!NoCode, GrantCode

\* A request that is not under way.
LEMMA IdleRequest ==
  ASSUME NEW R, NEW D, NEW S, NEW n \in Nat, NEW b, NEW U
  PROVE  /\ GrantsOf(R, D, S, n, b, U)!Idle \in GrantRequest(D, S, n)
         /\ GrantsOf(R, D, S, n, b, U)!Idle.pc = "idle"
         /\ GrantsOf(R, D, S, n, b, U)!Idle.grant = "none"
         /\ GrantsOf(R, D, S, n, b, U)!Idle.code = 0 /\ ~GrantsOf(R, D, S, n, b, U)!Idle.late
  BY UnusedCode DEF GrantsOf!Idle, GrantRequest

\* What a request brings.
LEMMA BroughtRequest ==
  ASSUME NEW R, NEW D, NEW S, NEW n \in Nat, NEW b, NEW U, 0 \notin D, NEW r,
         GrantsOf(R, D, S, n, b, U)!Arrive(r)
  PROVE  \E k \in GrantRequest(D, S, n) :
           GrantsOf(R, D, S, n, b, U)!Begin(r, k) /\ (k.grant = "code" => k.code \in D)
             /\ (k.code # 0 => k.grant = "code")
<1> DEFINE i == GrantsOf(R, D, S, n, b, U)!Idle
<1>1. i \in GrantRequest(D, S, n) /\ i.code = 0 BY IdleRequest
<1>2. PICK s \in 0..n :
        \/ \E a \in SUBSET S : GrantsOf(R, D, S, n, b, U)!Begin(r, [i EXCEPT !.grant = "service", !.secret = s, !.scope = a])
        \/ \E g \in {"engine service", "refresh"} : GrantsOf(R, D, S, n, b, U)!Begin(r, [i EXCEPT !.grant = g, !.secret = s])
        \/ \E d \in D, u \in Uri, p \in BOOLEAN :
             GrantsOf(R, D, S, n, b, U)!Begin(r, [i EXCEPT !.grant = "code", !.secret = s, !.code = d, !.uri = u, !.proof = p])
      BY DEF GrantsOf!Arrive
<1> HIDE DEF i
<1>3. ASSUME NEW a \in SUBSET S, NEW k,
             k = [i EXCEPT !.grant = "service", !.secret = s, !.scope = a]
      PROVE  k \in GrantRequest(D, S, n) /\ k.grant = "service" /\ k.code = 0
      BY <1>1, <1>3 DEF GrantRequest
<1>4. ASSUME NEW g \in {"engine service", "refresh"}, NEW k,
             k = [i EXCEPT !.grant = g, !.secret = s]
      PROVE  k \in GrantRequest(D, S, n) /\ k.grant = g /\ k.code = 0
      BY <1>1, <1>4 DEF GrantRequest
<1>5. ASSUME NEW d \in D, NEW u \in Uri, NEW p \in BOOLEAN, NEW k,
             k = [i EXCEPT !.grant = "code", !.secret = s, !.code = d, !.uri = u, !.proof = p]
      PROVE  k \in GrantRequest(D, S, n) /\ k.grant = "code" /\ k.code = d
      BY <1>1, <1>5 DEF GrantRequest
<1>6. CASE \E a \in SUBSET S : GrantsOf(R, D, S, n, b, U)!Begin(r, [i EXCEPT !.grant = "service", !.secret = s, !.scope = a])
      BY <1>3, <1>6
<1>7. CASE \E g \in {"engine service", "refresh"} : GrantsOf(R, D, S, n, b, U)!Begin(r, [i EXCEPT !.grant = g, !.secret = s])
      BY <1>4, <1>7
<1>8. CASE \E d \in D, u \in Uri, p \in BOOLEAN :
             GrantsOf(R, D, S, n, b, U)!Begin(r, [i EXCEPT !.grant = "code", !.secret = s, !.code = d, !.uri = u, !.proof = p])
  <2>1. PICK d \in D, u \in Uri, p \in BOOLEAN :
          GrantsOf(R, D, S, n, b, U)!Begin(r, [i EXCEPT !.grant = "code", !.secret = s, !.code = d, !.uri = u, !.proof = p])
        BY <1>8
  <2> DEFINE k == [i EXCEPT !.grant = "code", !.secret = s, !.code = d, !.uri = u, !.proof = p]
  <2>2. k \in GrantRequest(D, S, n) /\ k.grant = "code" /\ k.code = d BY <1>5
  <2>3. GrantsOf(R, D, S, n, b, U)!Begin(r, k) BY <2>1
  <2> HIDE DEF k
  <2> QED BY <2>2, <2>3
<1> QED BY <1>2, <1>6, <1>7, <1>8

\* Nothing is there at the start.
LEMMA InitGrants ==
  ASSUME NEW R, NEW D, NEW S, NEW n \in Nat, NEW b \in Nat, NEW U, 0 \notin D,
         GrantsOf(R, D, S, n, b, U)!Init
  PROVE  GrantInv(R, D, S, n, b)
<1> DEFINE i == GrantsOf(R, D, S, n, b, U)!Idle
<1>1. GrantsOf(R, D, S, n, b, U)!NoCode \in GrantCode
      /\ GrantsOf(R, D, S, n, b, U)!NoCode.state = "none" BY UnusedCode
<1>2. /\ i \in GrantRequest(D, S, n) /\ i.pc = "idle" /\ i.grant = "none" /\ i.code = 0
      /\ ~i.late
      BY IdleRequest
<1>3. GrantsOf(R, D, S, n, b, U)!Absent \in GrantClient(S, n)
      /\ GrantsOf(R, D, S, n, b, U)!Absent.secret = 0 BY DEF GrantsOf!Absent, GrantClient
<1> HIDE DEF i
<1>4. /\ client = GrantsOf(R, D, S, n, b, U)!Absent
      /\ code = [d \in D |-> GrantsOf(R, D, S, n, b, U)!NoCode] /\ req = [r \in R |-> i]
      /\ changes = 0 /\ requests = 0 /\ grantOf = [d \in D |-> 0]
      BY DEF GrantsOf!Init, i
<1>5. GrantType(R, D, S, n, b) BY <1>1, <1>2, <1>3, <1>4 DEF GrantType
<1>6. GrantClients(R) BY <1>2, <1>4 DEF GrantClients
<1>7. GrantKinds(R, D) BY <1>2, <1>4 DEF GrantKinds
<1>8. GrantOnce(D) /\ GrantLate(R) /\ GrantProven(R) /\ GrantAlone(R)
      BY <1>2, <1>4 DEF GrantOnce, GrantLate, GrantProven, GrantAlone
<1> QED BY <1>5, <1>6, <1>7, <1>8 DEF GrantInv

\* The administrators change a client.
LEMMA ClientChanges ==
  ASSUME NEW R, NEW D, NEW S, NEW n \in Nat, NEW b \in Nat, NEW U, 0 \notin D,
         GrantInv(R, D, S, n, b),
           GrantsOf(R, D, S, n, b, U)!Register \/ GrantsOf(R, D, S, n, b, U)!SetActive
             \/ GrantsOf(R, D, S, n, b, U)!Patch \/ GrantsOf(R, D, S, n, b, U)!RotateSecret
                  \/ GrantsOf(R, D, S, n, b, U)!Remove
  PROVE  GrantInv(R, D, S, n, b)'
<1>1. PICK c :
        /\ GrantsOf(R, D, S, n, b, U)!Change(c)
        /\ \/ \E z \in BOOLEAN, s \in SUBSET S,
                 g \in SUBSET {"authorization_code", "refresh_token", "client_credentials"} :
                c = [there |-> TRUE, active |-> TRUE, confidential |-> z,
                     secret |-> IF z THEN 1 ELSE 0, grants |-> g, scopes |-> s, uris |-> Uri]
           \/ c = [client EXCEPT !.active = ~client.active]
           \/ \E s \in SUBSET S : c = [client EXCEPT !.scopes = s]
           \/ \E u \in Uri : c = [client EXCEPT !.uris = {u}]
           \/ c = [client EXCEPT !.secret = client.secret + 1]
           \/ c = GrantsOf(R, D, S, n, b, U)!Absent
  <2>1. CASE GrantsOf(R, D, S, n, b, U)!Register BY <2>1 DEF GrantsOf!Register, GrantsOf!Grants
  <2>2. CASE GrantsOf(R, D, S, n, b, U)!SetActive BY <2>2 DEF GrantsOf!SetActive
  <2>3. CASE GrantsOf(R, D, S, n, b, U)!Patch BY <2>3 DEF GrantsOf!Patch
  <2>4. CASE GrantsOf(R, D, S, n, b, U)!RotateSecret BY <2>4 DEF GrantsOf!RotateSecret
  <2>5. CASE GrantsOf(R, D, S, n, b, U)!Remove BY <2>5 DEF GrantsOf!Remove
  <2> QED BY <2>1, <2>2, <2>3, <2>4, <2>5
<1>2. /\ client \in GrantClient(S, n) /\ client.secret <= changes /\ changes < n
      /\ changes \in 0..n
      BY <1>1 DEF GrantInv, GrantType, GrantsOf!Change
<1>3. c \in GrantClient(S, n) /\ c.secret <= changes + 1
  <2>1. ASSUME NEW z \in BOOLEAN, NEW s \in SUBSET S,
               NEW g \in SUBSET {"authorization_code", "refresh_token", "client_credentials"},
               c = [there |-> TRUE, active |-> TRUE, confidential |-> z,
                    secret |-> IF z THEN 1 ELSE 0, grants |-> g, scopes |-> s, uris |-> Uri]
        PROVE  c \in GrantClient(S, n) /\ c.secret <= changes + 1
    <3> DEFINE k == IF z THEN 1 ELSE 0
    <3>1. k \in 0..n /\ k <= changes + 1 BY <1>2
    <3>2. c = [there |-> TRUE, active |-> TRUE, confidential |-> z, secret |-> k,
               grants |-> g, scopes |-> s, uris |-> Uri] BY <2>1
    <3> HIDE DEF k
    <3> QED BY <3>1, <3>2 DEF GrantClient
  <2>2. CASE c = [client EXCEPT !.active = ~client.active] 
    <3> DEFINE z == ~client.active
    <3>1. z \in BOOLEAN /\ c = [client EXCEPT !.active = z] BY <2>2
    <3> HIDE DEF z
    <3> QED BY <1>2, <3>1 DEF GrantClient
  <2>3. CASE \E s \in SUBSET S : c = [client EXCEPT !.scopes = s] BY <2>3, <1>2 DEF GrantClient
  <2>4. CASE \E u \in Uri : c = [client EXCEPT !.uris = {u}] BY <2>4, <1>2 DEF GrantClient
  <2>5. CASE c = [client EXCEPT !.secret = client.secret + 1] BY <2>5, <1>2 DEF GrantClient
  <2>6. CASE c = GrantsOf(R, D, S, n, b, U)!Absent BY <2>6, <1>2 DEF GrantsOf!Absent, GrantClient
  <2> QED BY <1>1, <2>1, <2>2, <2>3, <2>4, <2>5, <2>6
<1> QED BY <1>1, <1>3, ChangeKeeps

\* The core endpoint reads the client.
LEMMA ServiceReads ==
  ASSUME NEW R, NEW D, NEW S, NEW n \in Nat, NEW b \in Nat, NEW U, 0 \notin D,
         GrantInv(R, D, S, n, b), NEW r \in R, GrantsOf(R, D, S, n, b, U)!ReadClient(r)
  PROVE  GrantInv(R, D, S, n, b)'
<1>0. req \in [R -> GrantRequest(D, S, n)] BY DEF GrantInv, GrantType
<1>1. PICK p \in {"session", "find", "consume", "issue", "minted", "refused"} :
        /\ req' = [req EXCEPT ![r].pc = p] /\ UNCHANGED <<client, code, changes, requests, grantOf>>
        /\ req[r].pc = "client"
        /\ \/ p = "refused"
           \/ /\ client.there /\ client.active
              /\ (client.confidential => req[r].secret = client.secret)
              /\ \/ p = "minted" /\ req[r].grant = "service" /\ req[r].scope \subseteq client.scopes
                 \/ p = "session" /\ req[r].grant = "refresh"
      BY DEF GrantsOf!ReadClient, GrantsOf!To, GrantsOf!Authenticates, GrantsOf!MayServe
<1>11. /\ p \in {"session", "find", "consume", "issue", "minted", "refused"}
       /\ req' = [req EXCEPT ![r].pc = p]
       BY <1>1
<1>2. /\ req' \in [R -> GrantRequest(D, S, n)] /\ req'[r].pc = p
      /\ \A q \in R \ {r} : req'[q] = req[q]
      BY <1>0, <1>11, RequestGoes
<1>3. /\ req'[r].grant = req[r].grant /\ req'[r].secret = req[r].secret
      /\ req'[r].scope = req[r].scope /\ req'[r].uri = req[r].uri /\ req'[r].code = req[r].code
      /\ req'[r].proof = req[r].proof /\ req'[r].barred = req[r].barred
      /\ req'[r].offered = req[r].offered /\ req'[r].late = req[r].late
      BY <1>0, <1>11, RequestGoes
<1>4. GrantType(R, D, S, n, b)' BY <1>1, <1>2 DEF GrantInv, GrantType
<1>5. GrantKinds(R, D)' BY <1>1, <1>2, <1>3, ZenonT(60) DEF GrantInv, GrantKinds
<1>6. GrantClients(R)' BY <1>1, <1>2, <1>3 DEF GrantInv, GrantKinds, GrantClients
<1>7. GrantOnce(D)' BY <1>1 DEF GrantInv, GrantOnce
<1>8. GrantLate(R)' BY <1>1, <1>2, <1>3 DEF GrantInv, GrantKinds, GrantLate
<1>9. GrantProven(R)' BY <1>1, <1>2, <1>3 DEF GrantInv, GrantKinds, GrantProven
<1>10. GrantAlone(R)' BY <1>1, <1>2, <1>3, ZenonT(60) DEF GrantInv, GrantKinds, GrantAlone
<1> QED BY <1>4, <1>5, <1>6, <1>7, <1>8, <1>9, <1>10 DEF GrantInv

\* The engine reads the client.
LEMMA EngineReads ==
  ASSUME NEW R, NEW D, NEW S, NEW n \in Nat, NEW b \in Nat, NEW U, 0 \notin D,
         GrantInv(R, D, S, n, b), NEW r \in R, GrantsOf(R, D, S, n, b, U)!requireActiveClient(r)
  PROVE  GrantInv(R, D, S, n, b)'
<1>0. req \in [R -> GrantRequest(D, S, n)] BY DEF GrantInv, GrantType
<1>1. PICK p \in {"session", "find", "consume", "issue", "minted", "refused"} :
        /\ req' = [req EXCEPT ![r].pc = p] /\ UNCHANGED <<client, code, changes, requests, grantOf>>
        /\ req[r].pc = "client"
        /\ \/ p = "refused"
           \/ /\ client.there /\ client.active
              /\ (client.confidential => req[r].secret = client.secret)
              /\ \/ p = "issue" /\ req[r].grant = "engine service"
                 \/ p = "find" /\ req[r].grant = "code"
      BY DEF GrantsOf!requireActiveClient, GrantsOf!To, GrantsOf!Authenticates
<1>11. /\ p \in {"session", "find", "consume", "issue", "minted", "refused"}
       /\ req' = [req EXCEPT ![r].pc = p]
       BY <1>1
<1>2. /\ req' \in [R -> GrantRequest(D, S, n)] /\ req'[r].pc = p
      /\ \A q \in R \ {r} : req'[q] = req[q]
      BY <1>0, <1>11, RequestGoes
<1>3. /\ req'[r].grant = req[r].grant /\ req'[r].secret = req[r].secret
      /\ req'[r].scope = req[r].scope /\ req'[r].uri = req[r].uri /\ req'[r].code = req[r].code
      /\ req'[r].proof = req[r].proof /\ req'[r].barred = req[r].barred
      /\ req'[r].offered = req[r].offered /\ req'[r].late = req[r].late
      BY <1>0, <1>11, RequestGoes
<1>4. GrantType(R, D, S, n, b)' BY <1>1, <1>2 DEF GrantInv, GrantType
<1>5. GrantKinds(R, D)' BY <1>1, <1>2, <1>3, ZenonT(60) DEF GrantInv, GrantKinds
<1>6. GrantClients(R)' BY <1>1, <1>2, <1>3 DEF GrantInv, GrantKinds, GrantClients
<1>7. GrantOnce(D)' BY <1>1 DEF GrantInv, GrantOnce
<1>8. GrantLate(R)' BY <1>1, <1>2, <1>3 DEF GrantInv, GrantKinds, GrantLate
<1>9. GrantProven(R)' BY <1>1, <1>2, <1>3, ZenonT(60) DEF GrantInv, GrantKinds, GrantProven
<1>10. GrantAlone(R)' BY <1>1, <1>2, <1>3, ZenonT(60) DEF GrantInv, GrantKinds, GrantAlone
<1> QED BY <1>4, <1>5, <1>6, <1>7, <1>8, <1>9, <1>10 DEF GrantInv

\* The session is refreshed.
LEMMA SessionRefreshes ==
  ASSUME NEW R, NEW D, NEW S, NEW n \in Nat, NEW b \in Nat, NEW U, 0 \notin D,
         GrantInv(R, D, S, n, b), NEW r \in R, GrantsOf(R, D, S, n, b, U)!Refresh(r)
  PROVE  GrantInv(R, D, S, n, b)'
<1>0. req \in [R -> GrantRequest(D, S, n)] BY DEF GrantInv, GrantType
<1>1. PICK p \in {"session", "find", "consume", "issue", "minted", "refused"} :
        /\ req' = [req EXCEPT ![r].pc = p] /\ UNCHANGED <<client, code, changes, requests, grantOf>>
        /\ req[r].pc = "session" /\ p \in {"refused", "minted"}
      BY DEF GrantsOf!Refresh, GrantsOf!To
<1>11. /\ p \in {"session", "find", "consume", "issue", "minted", "refused"}
       /\ req' = [req EXCEPT ![r].pc = p]
       BY <1>1
<1>2. /\ req' \in [R -> GrantRequest(D, S, n)] /\ req'[r].pc = p
      /\ \A q \in R \ {r} : req'[q] = req[q]
      BY <1>0, <1>11, RequestGoes
<1>3. /\ req'[r].grant = req[r].grant /\ req'[r].secret = req[r].secret
      /\ req'[r].scope = req[r].scope /\ req'[r].uri = req[r].uri /\ req'[r].code = req[r].code
      /\ req'[r].proof = req[r].proof /\ req'[r].barred = req[r].barred
      /\ req'[r].offered = req[r].offered /\ req'[r].late = req[r].late
      BY <1>0, <1>11, RequestGoes
<1>4. GrantType(R, D, S, n, b)' BY <1>1, <1>2 DEF GrantInv, GrantType
<1>5. GrantKinds(R, D)' BY <1>1, <1>2, <1>3 DEF GrantInv, GrantKinds
<1>6. GrantClients(R)' BY <1>1, <1>2, <1>3 DEF GrantInv, GrantKinds, GrantClients
<1>7. GrantOnce(D)' BY <1>1 DEF GrantInv, GrantOnce
<1>8. GrantLate(R)' BY <1>1, <1>2, <1>3 DEF GrantInv, GrantKinds, GrantLate
<1>9. GrantProven(R)' BY <1>1, <1>2, <1>3, ZenonT(60) DEF GrantInv, GrantKinds, GrantProven
<1>10. GrantAlone(R)' BY <1>1, <1>2, <1>3, ZenonT(60) DEF GrantInv, GrantKinds, GrantAlone
<1> QED BY <1>4, <1>5, <1>6, <1>7, <1>8, <1>9, <1>10 DEF GrantInv

\* A code that is live is found.
LEMMA CodeFound ==
  ASSUME NEW R, NEW D, NEW S, NEW n \in Nat, NEW b \in Nat, NEW U, 0 \notin D,
         GrantInv(R, D, S, n, b), NEW r \in R, GrantsOf(R, D, S, n, b, U)!FindCode(r)
  PROVE  GrantInv(R, D, S, n, b)'
<1>0. req \in [R -> GrantRequest(D, S, n)] BY DEF GrantInv, GrantType
<1>1. PICK p \in {"session", "find", "consume", "issue", "minted", "refused"} :
        /\ req' = [req EXCEPT ![r].pc = p] /\ UNCHANGED <<client, code, changes, requests, grantOf>>
        /\ req[r].pc = "find"
        /\ p = "refused" \/ (p = "consume" /\ code[req[r].code].state = "live")
      BY DEF GrantsOf!FindCode, GrantsOf!To
<1>11. /\ p \in {"session", "find", "consume", "issue", "minted", "refused"}
       /\ req' = [req EXCEPT ![r].pc = p]
       BY <1>1
<1>2. /\ req' \in [R -> GrantRequest(D, S, n)] /\ req'[r].pc = p
      /\ \A q \in R \ {r} : req'[q] = req[q]
      BY <1>0, <1>11, RequestGoes
<1>3. /\ req'[r].grant = req[r].grant /\ req'[r].secret = req[r].secret
      /\ req'[r].scope = req[r].scope /\ req'[r].uri = req[r].uri /\ req'[r].code = req[r].code
      /\ req'[r].proof = req[r].proof /\ req'[r].barred = req[r].barred
      /\ req'[r].offered = req[r].offered /\ req'[r].late = req[r].late
      BY <1>0, <1>11, RequestGoes
<1>4. GrantType(R, D, S, n, b)' BY <1>1, <1>2 DEF GrantInv, GrantType
<1>5. GrantKinds(R, D)' BY <1>1, <1>2, <1>3 DEF GrantInv, GrantKinds
<1>6. GrantClients(R)' BY <1>1, <1>2, <1>3 DEF GrantInv, GrantKinds, GrantClients
<1>7. GrantOnce(D)' BY <1>1 DEF GrantInv, GrantOnce
<1>8. GrantLate(R)' BY <1>1, <1>2, <1>3 DEF GrantInv, GrantKinds, GrantLate
<1>9. GrantProven(R)' BY <1>1, <1>2, <1>3 DEF GrantInv, GrantKinds, GrantProven
<1>10. GrantAlone(R)' BY <1>1, <1>2, <1>3, ZenonT(60) DEF GrantInv, GrantKinds, GrantAlone
<1> QED BY <1>4, <1>5, <1>6, <1>7, <1>8, <1>9, <1>10 DEF GrantInv

\* The host issues tokens, or fails to.
LEMMA TokensIssued ==
  ASSUME NEW R, NEW D, NEW S, NEW n \in Nat, NEW b \in Nat, NEW U, 0 \notin D,
         GrantInv(R, D, S, n, b), NEW r \in R, GrantsOf(R, D, S, n, b, U)!Issue(r)
  PROVE  GrantInv(R, D, S, n, b)'
<1>0. req \in [R -> GrantRequest(D, S, n)] BY DEF GrantInv, GrantType
<1>1. PICK p \in {"minted", "refused"} :
        /\ req' = [req EXCEPT ![r].pc = p] /\ UNCHANGED <<client, code, changes, requests>>
        /\ req[r].pc = "issue"
        /\ \/ UNCHANGED grantOf /\ (p = "refused" \/ req[r].grant # "code")
           \/ /\ p = "minted" /\ req[r].grant = "code"
              /\ grantOf' = [grantOf EXCEPT ![req[r].code] = grantOf[req[r].code] + 1]
      BY DEF GrantsOf!Issue, GrantsOf!To
<1>11. /\ p \in {"session", "find", "consume", "issue", "minted", "refused"}
       /\ req' = [req EXCEPT ![r].pc = p]
       BY <1>1
<1>2. /\ req' \in [R -> GrantRequest(D, S, n)] /\ req'[r].pc = p
      /\ \A q \in R \ {r} : req'[q] = req[q]
      BY <1>0, <1>11, RequestGoes
<1>3. /\ req'[r].grant = req[r].grant /\ req'[r].secret = req[r].secret
      /\ req'[r].scope = req[r].scope /\ req'[r].uri = req[r].uri /\ req'[r].code = req[r].code
      /\ req'[r].proof = req[r].proof /\ req'[r].barred = req[r].barred
      /\ req'[r].offered = req[r].offered /\ req'[r].late = req[r].late
      BY <1>0, <1>11, RequestGoes
<1>12. grantOf \in [D -> Nat] /\ (req[r].grant = "code" => req[r].code \in D)
       BY DEF GrantInv, GrantType, GrantKinds
<1>13. \A d \in D : grantOf'[d] # grantOf[d] =>
         grantOf'[d] = grantOf[d] + 1 /\ d = req[r].code /\ req[r].grant = "code" /\ p = "minted"
       BY <1>1, <1>12
<1>14. grantOf' \in [D -> Nat] BY <1>1, <1>12
<1>4. GrantType(R, D, S, n, b)' BY <1>1, <1>2, <1>14 DEF GrantInv, GrantType
<1>5. GrantKinds(R, D)' BY <1>1, <1>2, <1>3 DEF GrantInv, GrantKinds
<1>6. GrantClients(R)' BY <1>1, <1>2, <1>3 DEF GrantInv, GrantKinds, GrantClients
<1>7. GrantOnce(D)' BY <1>1, <1>12, <1>13 DEF GrantInv, GrantOnce, GrantProven
<1>8. GrantLate(R)' BY <1>1, <1>2, <1>3 DEF GrantInv, GrantKinds, GrantLate
<1>9. GrantProven(R)'
  <2>1. ASSUME NEW q \in R \ {r}, req'[q].grant = "code", req'[q].pc \in {"issue", "minted"}
        PROVE  /\ code'[req'[q].code].state = "consumed"
               /\ req'[q].uri = code'[req'[q].code].uri
               /\ code'[req'[q].code].pkce = "no" \/ req'[q].proof
               /\ req'[q].pc = "issue" => grantOf'[req'[q].code] = 0
    <3>1. /\ req'[q] = req[q] /\ req[q].code \in D
          /\ req[q].pc = "issue" => grantOf[req[q].code] = 0
          BY <1>2, <2>1 DEF GrantInv, GrantKinds, GrantProven
    <3>2. req[q].pc = "issue" /\ req[r].grant = "code" => req[q].code # req[r].code
          BY <1>1, <2>1, <3>1 DEF GrantInv, GrantAlone
    <3>3. req[q].pc = "issue" => grantOf'[req[q].code] = 0
          BY <1>13, <3>1, <3>2
    <3> QED BY <1>1, <2>1, <3>1, <3>3 DEF GrantInv, GrantProven
  <2>2. ASSUME req'[r].grant = "code", req'[r].pc \in {"issue", "minted"}
        PROVE  /\ code'[req'[r].code].state = "consumed"
               /\ req'[r].uri = code'[req'[r].code].uri
               /\ code'[req'[r].code].pkce = "no" \/ req'[r].proof
               /\ req'[r].pc = "issue" => grantOf'[req'[r].code] = 0
        BY <1>1, <1>2, <1>3, <2>2 DEF GrantInv, GrantProven
  <2> QED BY <2>1, <2>2 DEF GrantProven
<1>10. GrantAlone(R)' BY <1>1, <1>2, <1>3, ZenonT(60) DEF GrantInv, GrantKinds, GrantAlone
<1> QED BY <1>4, <1>5, <1>6, <1>7, <1>8, <1>9, <1>10 DEF GrantInv

\* The code is used up, whatever is compared afterwards.
LEMMA CodeUsedUp ==
  ASSUME NEW R, NEW D, NEW S, NEW n \in Nat, NEW b \in Nat, NEW U, 0 \notin D,
         GrantInv(R, D, S, n, b), NEW r \in R, GrantsOf(R, D, S, n, b, U)!ConsumeCode(r)
  PROVE  GrantInv(R, D, S, n, b)'
<1>0. /\ req \in [R -> GrantRequest(D, S, n)] /\ code \in [D -> GrantCode]
      /\ req[r].code \in D /\ req[r].grant = "code"
      BY DEF GrantInv, GrantType, GrantKinds, GrantsOf!ConsumeCode
<1> DEFINE d == req[r].code
<1>1. PICK p \in {"issue", "refused"} :
        /\ req' = [req EXCEPT ![r].pc = p] /\ UNCHANGED <<client, changes, requests, grantOf>>
        /\ req[r].pc = "consume"
        /\ \/ UNCHANGED code /\ p = "refused"
           \/ /\ code' = [code EXCEPT ![d].state = "consumed"]
              /\ code[d].state \in {"live", "expired"}
              /\ p = "issue" => /\ req[r].uri = code[d].uri
                                /\ code[d].pkce = "no" \/ req[r].proof
      BY DEF GrantsOf!ConsumeCode, GrantsOf!To, GrantsOf!Consumable, GrantsOf!Proves
<1>11. /\ p \in {"session", "find", "consume", "issue", "minted", "refused"}
       /\ req' = [req EXCEPT ![r].pc = p]
       BY <1>1
<1>2. /\ req' \in [R -> GrantRequest(D, S, n)] /\ req'[r].pc = p
      /\ \A q \in R \ {r} : req'[q] = req[q]
      BY <1>0, <1>11, RequestGoes
<1>3. /\ req'[r].grant = req[r].grant /\ req'[r].secret = req[r].secret
      /\ req'[r].scope = req[r].scope /\ req'[r].uri = req[r].uri /\ req'[r].code = req[r].code
      /\ req'[r].proof = req[r].proof /\ req'[r].barred = req[r].barred
      /\ req'[r].offered = req[r].offered /\ req'[r].late = req[r].late
      BY <1>0, <1>11, RequestGoes
<1>12. /\ code' \in [D -> GrantCode]
       /\ \A e \in D : code'[e].uri = code[e].uri /\ code'[e].pkce = code[e].pkce
       /\ \A e \in D : code'[e].state \in {code[e].state, "consumed"}
       /\ p = "issue" => code'[d].state = "consumed"
       /\ \A e \in D : code'[e].state # code[e].state => e = d
  <2>1. CASE UNCHANGED code /\ p = "refused" BY <1>0, <2>1
  <2>2. CASE code' = [code EXCEPT ![d].state = "consumed"]
    <3>1. code' \in [D -> GrantCode] BY <1>0, <2>2 DEF GrantCode
    <3>2. /\ code'[d].state = "consumed"
          /\ code'[d].uri = code[d].uri /\ code'[d].pkce = code[d].pkce
          BY <1>0, <2>2 DEF GrantCode
    <3>3. \A e \in D \ {d} : code'[e] = code[e] BY <1>0, <2>2
    <3> QED BY <1>0, <3>1, <3>2, <3>3
  <2> QED BY <1>1, <2>1, <2>2
<1>13. \A q \in R : /\ req[q].grant = "code" => req[q].code \in D
                    /\ req[q].late => req[q].code \in D
       BY DEF GrantInv, GrantKinds, GrantLate
<1>14. p = "issue" => code[d].state \in {"live", "expired"} BY <1>1
<1>4. GrantType(R, D, S, n, b)' BY <1>1, <1>2, <1>12 DEF GrantInv, GrantType
<1>5. GrantKinds(R, D)' BY <1>1, <1>2, <1>3 DEF GrantInv, GrantKinds
<1>6. GrantClients(R)' BY <1>1, <1>2, <1>3 DEF GrantInv, GrantKinds, GrantClients
<1>7. GrantOnce(D)' BY <1>1, <1>12 DEF GrantInv, GrantOnce
<1>8. GrantLate(R)' BY <1>1, <1>2, <1>3, <1>12, <1>13, ZenonT(60)
      DEF GrantInv, GrantKinds, GrantLate
<1>9. GrantProven(R)'
  <2>1. ASSUME NEW q \in R \ {r}, req'[q].grant = "code", req'[q].pc \in {"issue", "minted"}
        PROVE  /\ code'[req'[q].code].state = "consumed"
               /\ req'[q].uri = code'[req'[q].code].uri
               /\ code'[req'[q].code].pkce = "no" \/ req'[q].proof
               /\ req'[q].pc = "issue" => grantOf'[req'[q].code] = 0
        BY <1>1, <1>2, <1>12, <1>13, <2>1 DEF GrantInv, GrantProven
  <2>2. ASSUME req'[r].grant = "code", req'[r].pc \in {"issue", "minted"}
        PROVE  /\ code'[req'[r].code].state = "consumed"
               /\ req'[r].uri = code'[req'[r].code].uri
               /\ code'[req'[r].code].pkce = "no" \/ req'[r].proof
               /\ req'[r].pc = "issue" => grantOf'[req'[r].code] = 0
        BY <1>0, <1>1, <1>2, <1>3, <1>12, <1>14, <2>2 DEF GrantInv, GrantOnce
  <2> QED BY <2>1, <2>2 DEF GrantProven
<1>10. GrantAlone(R)'
  <2>1. ASSUME NEW q \in R \ {r}, req[q].grant = "code", req[q].pc = "issue", p = "issue"
        PROVE  req[q].code # d
        BY <1>14, <2>1 DEF GrantInv, GrantProven
  <2> QED BY <1>1, <1>2, <1>3, <2>1 DEF GrantInv, GrantAlone
<1> QED BY <1>4, <1>5, <1>6, <1>7, <1>8, <1>9, <1>10 DEF GrantInv

\* A code for a client that is there.
LEMMA CodeIssued ==
  ASSUME NEW R, NEW D, NEW S, NEW n \in Nat, NEW b \in Nat, NEW U, 0 \notin D,
         GrantInv(R, D, S, n, b), NEW d \in D, NEW u \in Uri, NEW k \in {"no", "S256", "unnamed"},
           GrantsOf(R, D, S, n, b, U)!IssueCode(d, u, k)
  PROVE  GrantInv(R, D, S, n, b)'
<1>1. /\ code' = [code EXCEPT ![d] = [state |-> "live", uri |-> u, pkce |-> k]]
      /\ code[d].state = "none" /\ UNCHANGED <<client, req, changes, requests, grantOf>>
      BY DEF GrantsOf!IssueCode
<1>2. /\ code \in [D -> GrantCode]
      /\ \A q \in R : (req[q].grant = "code" => req[q].code \in D)
      BY DEF GrantInv, GrantType, GrantKinds
<1>3. code' \in [D -> GrantCode] /\ \A e \in D \ {d} : code'[e] = code[e]
      BY <1>1, <1>2 DEF GrantCode
<1>4. GrantType(R, D, S, n, b)' BY <1>1, <1>3 DEF GrantInv, GrantType
<1>5. GrantKinds(R, D)' BY <1>1 DEF GrantInv, GrantKinds
<1>6. GrantClients(R)' BY <1>1 DEF GrantInv, GrantClients
<1>7. GrantOnce(D)' BY <1>1, <1>2, <1>3 DEF GrantInv, GrantOnce
<1>8. GrantLate(R)' BY <1>1, <1>2, <1>3 DEF GrantInv, GrantLate
<1>9. GrantProven(R)' BY <1>1, <1>2, <1>3 DEF GrantInv, GrantProven
<1>10. GrantAlone(R)' BY <1>1 DEF GrantInv, GrantAlone
<1> QED BY <1>4, <1>5, <1>6, <1>7, <1>8, <1>9, <1>10 DEF GrantInv

\* The time of a code is over.
LEMMA CodeExpires ==
  ASSUME NEW R, NEW D, NEW S, NEW n \in Nat, NEW b \in Nat, NEW U, 0 \notin D,
         GrantInv(R, D, S, n, b), NEW d \in D, GrantsOf(R, D, S, n, b, U)!Expire(d)
  PROVE  GrantInv(R, D, S, n, b)'
<1>0. /\ req \in [R -> GrantRequest(D, S, n)] /\ code \in [D -> GrantCode]
      /\ \A q \in R : (req[q].grant = "code" => req[q].code \in D)
      BY DEF GrantInv, GrantType, GrantKinds
<1>1. /\ code' = [code EXCEPT ![d].state = "expired"] /\ code[d].state = "live"
      /\ UNCHANGED <<client, changes, requests, grantOf>>
      BY DEF GrantsOf!Expire
<1>2. /\ code' \in [D -> GrantCode] /\ code'[d].state = "expired"
      /\ code'[d].uri = code[d].uri /\ code'[d].pkce = code[d].pkce
      /\ \A e \in D \ {d} : code'[e] = code[e]
      BY <1>0, <1>1 DEF GrantCode
<1>3. ASSUME NEW r \in R
      PROVE  /\ req'[r] \in GrantRequest(D, S, n) /\ req'[r].pc = req[r].pc
             /\ req'[r].grant = req[r].grant /\ req'[r].secret = req[r].secret
             /\ req'[r].scope = req[r].scope /\ req'[r].uri = req[r].uri
             /\ req'[r].code = req[r].code /\ req'[r].proof = req[r].proof
             /\ req'[r].barred = req[r].barred /\ req'[r].offered = req[r].offered
             /\ req'[r].late => req[r].late \/ (req[r].code = d /\ req[r].pc = "client")
  <2> DEFINE z == req[r].late \/ (req[r].code = d /\ req[r].pc = "client")
             o == [req[r] EXCEPT !.late = z]
  <2>1. req[r] \in GrantRequest(D, S, n) /\ z \in BOOLEAN BY <1>0 DEF GrantRequest
  <2>2. req'[r] = o BY DEF GrantsOf!Expire
  <2> HIDE DEF z
  <2>3. /\ o \in GrantRequest(D, S, n) /\ o.pc = req[r].pc
        /\ o.grant = req[r].grant /\ o.secret = req[r].secret
        /\ o.scope = req[r].scope /\ o.uri = req[r].uri /\ o.code = req[r].code
        /\ o.proof = req[r].proof /\ o.barred = req[r].barred
        /\ o.offered = req[r].offered /\ o.late = z
        BY <2>1 DEF GrantRequest
  <2> HIDE DEF o
  <2> QED BY <2>2, <2>3 DEF z
<1>11. req' \in [R -> GrantRequest(D, S, n)]
  <2>1. req' = [r \in R |-> req'[r]] BY DEF GrantsOf!Expire
  <2> QED BY <1>3, <2>1
<1>4. GrantType(R, D, S, n, b)' BY <1>1, <1>2, <1>11 DEF GrantInv, GrantType
<1>12. \A r \in R : req'[r].pc = req[r].pc /\ req'[r].grant = req[r].grant
       /\ req'[r].code = req[r].code
       BY <1>3
<1>5. GrantKinds(R, D)' BY <1>12 DEF GrantInv, GrantKinds
<1>6. GrantClients(R)' BY <1>1, <1>3 DEF GrantInv, GrantClients
<1>7. GrantOnce(D)' BY <1>1, <1>2 DEF GrantInv, GrantOnce
<1>8. GrantLate(R)'
  <2> SUFFICES ASSUME NEW r \in R, req'[r].late
               PROVE  /\ req[r].grant = "code" /\ code'[req[r].code].state \notin {"none", "live"}
                      /\ req[r].pc \in {"client", "find", "refused"}
      BY <1>3 DEF GrantLate
  <2>1. CASE req[r].late BY <1>0, <1>2, <2>1 DEF GrantInv, GrantLate
  <2>2. CASE req[r].code = d /\ req[r].pc = "client"
        BY <1>2, <2>2 DEF GrantInv, GrantKinds
  <2> QED BY <1>3, <2>1, <2>2
<1>9. GrantProven(R)' BY <1>0, <1>1, <1>2, <1>3 DEF GrantInv, GrantProven
<1>10. GrantAlone(R)' BY <1>3 DEF GrantInv, GrantAlone
<1> QED BY <1>4, <1>5, <1>6, <1>7, <1>8, <1>9, <1>10 DEF GrantInv

\* The answer goes out.
LEMMA RequestAnswered ==
  ASSUME NEW R, NEW D, NEW S, NEW n \in Nat, NEW b \in Nat, NEW U, 0 \notin D,
         GrantInv(R, D, S, n, b), NEW r \in R, GrantsOf(R, D, S, n, b, U)!Answer(r)
  PROVE  GrantInv(R, D, S, n, b)'
<1> DEFINE i == GrantsOf(R, D, S, n, b, U)!Idle
<1>1. /\ i \in GrantRequest(D, S, n) /\ i.pc = "idle" /\ i.grant = "none" /\ i.code = 0
      /\ ~i.late
      BY IdleRequest
<1>2. req' = [req EXCEPT ![r] = i] /\ UNCHANGED <<client, code, changes, requests, grantOf>>
      BY DEF GrantsOf!Answer
<1> HIDE DEF i
<1>3. req \in [R -> GrantRequest(D, S, n)] BY DEF GrantInv, GrantType
<1>4. /\ req' \in [R -> GrantRequest(D, S, n)] /\ req'[r] = i
      /\ \A q \in R \ {r} : req'[q] = req[q]
      BY <1>1, <1>2, <1>3
<1>5. GrantType(R, D, S, n, b)' BY <1>2, <1>4 DEF GrantInv, GrantType
<1>6. GrantKinds(R, D)' /\ GrantClients(R)'
      BY <1>1, <1>2, <1>4 DEF GrantInv, GrantKinds, GrantClients
<1>7. GrantOnce(D)' /\ GrantLate(R)' BY <1>1, <1>2, <1>4 DEF GrantInv, GrantOnce, GrantLate
<1>8. GrantProven(R)' /\ GrantAlone(R)' BY <1>1, <1>2, <1>4 DEF GrantInv, GrantProven, GrantAlone
<1> QED BY <1>5, <1>6, <1>7, <1>8 DEF GrantInv

\* A request brings what its grant needs.
LEMMA RequestBegins ==
  ASSUME NEW R, NEW D, NEW S, NEW n \in Nat, NEW b \in Nat, NEW U, 0 \notin D,
         GrantInv(R, D, S, n, b), NEW r \in R, GrantsOf(R, D, S, n, b, U)!Arrive(r)
  PROVE  GrantInv(R, D, S, n, b)'
<1>0. PICK k \in GrantRequest(D, S, n) :
        GrantsOf(R, D, S, n, b, U)!Begin(r, k) /\ (k.grant = "code" => k.code \in D)
          /\ (k.code # 0 => k.grant = "code")
      BY BroughtRequest
<1>1. /\ k \in GrantRequest(D, S, n) /\ (k.grant = "code" => k.code \in D)
      /\ k.code # 0 => k.grant = "code"
      BY <1>0
<1> DEFINE w == ~(client.there /\ client.active /\ (client.confidential => k.secret = client.secret))
           l == k.code # 0 /\ code[k.code].state = "expired"
           o == [k EXCEPT !.pc = "client", !.barred = w, !.offered = client.scopes, !.late = l]
<1>2. /\ req' = [req EXCEPT ![r] = o] /\ UNCHANGED <<client, code, changes, grantOf>>
      /\ requests' = requests + 1 /\ requests < b
      BY <1>0 DEF GrantsOf!Begin, GrantsOf!Servable
<1>3. /\ w \in BOOLEAN /\ l \in BOOLEAN /\ client.scopes \in SUBSET S
      /\ req \in [R -> GrantRequest(D, S, n)]
      BY DEF GrantInv, GrantType, GrantClient
<1> HIDE DEF w, l
<1>4. /\ o \in GrantRequest(D, S, n) /\ o.pc = "client" /\ o.grant = k.grant /\ o.code = k.code
      /\ o.secret = k.secret /\ o.barred = w /\ o.offered = client.scopes /\ o.late = l
      BY <1>1, <1>3 DEF GrantRequest
<1> HIDE DEF o
<1>5. /\ req' \in [R -> GrantRequest(D, S, n)] /\ req'[r] = o
      /\ \A q \in R \ {r} : req'[q] = req[q]
      BY <1>2, <1>3, <1>4
<1>6. GrantType(R, D, S, n, b)' BY <1>2, <1>5 DEF GrantInv, GrantType
<1>7. GrantKinds(R, D)' BY <1>1, <1>4, <1>5 DEF GrantInv, GrantKinds
<1>8. GrantClients(R)' BY <1>2, <1>4, <1>5 DEF GrantInv, GrantClients, w
<1>9. GrantOnce(D)' BY <1>2 DEF GrantInv, GrantOnce
<1>10. GrantLate(R)' BY <1>1, <1>2, <1>4, <1>5 DEF GrantInv, GrantLate, l
<1>11. GrantProven(R)' /\ GrantAlone(R)' BY <1>2, <1>4, <1>5 DEF GrantInv, GrantProven, GrantAlone
<1> QED BY <1>6, <1>7, <1>8, <1>9, <1>10, <1>11 DEF GrantInv

\* No step breaks the invariant.
LEMMA GrantsStep ==
  ASSUME NEW R, NEW D, NEW S, NEW n \in Nat, NEW b \in Nat, NEW U, 0 \notin D,
         GrantInv(R, D, S, n, b),
         GrantsOf(R, D, S, n, b, U)!Next \/ UNCHANGED grantVars
  PROVE  GrantInv(R, D, S, n, b)'
<1>1. CASE UNCHANGED grantVars
      BY <1>1 DEF grantVars, GrantInv, GrantType, GrantKinds, GrantClients, GrantOnce, GrantLate,
                  GrantProven, GrantAlone
<1>2. CASE GrantsOf(R, D, S, n, b, U)!Next
      BY <1>2, ClientChanges, CodeIssued, CodeExpires, RequestBegins, ServiceReads, EngineReads,
         SessionRefreshes, CodeFound, CodeUsedUp, TokensIssued, RequestAnswered
      DEF GrantsOf!Next
<1> QED BY <1>1, <1>2

\* What the invariant says of the grants.
LEMMA GrantsPromise ==
  ASSUME NEW R, NEW D, NEW S, NEW n \in Nat, NEW b \in Nat, NEW U, 0 \notin D,
         GrantInv(R, D, S, n, b)
  PROVE  GrantsOf(R, D, S, n, b, U)!TypeOK /\ GrantsOf(R, D, S, n, b, U)!ShutOut
         /\ GrantsOf(R, D, S, n, b, U)!ScopesWithin /\ GrantsOf(R, D, S, n, b, U)!OncePerCode
         /\ GrantsOf(R, D, S, n, b, U)!ProvenOnly
<1>1. GrantsOf(R, D, S, n, b, U)!TypeOK
  <2>1. client.secret \in 0..n + 1 /\ client.scopes \subseteq S
        BY DEF GrantInv, GrantType, GrantClient
  <2>2. \A d \in D : code[d].state \in {"none", "live", "expired", "consumed"}
        BY DEF GrantInv, GrantType, GrantCode
  <2>3. \A r \in R : req[r].offered \subseteq S /\ req[r].code \in D \cup {0}
        BY DEF GrantInv, GrantType, GrantRequest
  <2> QED BY <2>1, <2>2, <2>3 DEF GrantsOf!TypeOK, GrantInv, GrantType
<1>2. GrantsOf(R, D, S, n, b, U)!ShutOut /\ GrantsOf(R, D, S, n, b, U)!ScopesWithin
      BY DEF GrantsOf!ShutOut, GrantsOf!ScopesWithin, GrantInv, GrantClients
<1>3. GrantsOf(R, D, S, n, b, U)!OncePerCode
      BY DEF GrantsOf!OncePerCode, GrantInv, GrantOnce, GrantLate
<1>4. GrantsOf(R, D, S, n, b, U)!ProvenOnly BY DEF GrantsOf!ProvenOnly, GrantInv, GrantProven
<1> QED BY <1>1, <1>2, <1>3, <1>4

-----------------------------------------------------------------------------
(* The SCIM directory *)

ScimResource == [id : Nat \ {0}, name : {NoKey}, active : BOOLEAN]
ScimWalk == [startIndex : Nat, count : Nat \ {0}, seen : Seq(Nat), first : SUBSET Nat, removed : BOOLEAN]

ScimType ==
  /\ resources \in Seq(ScimResource) /\ scimId \in Nat \ {0}
  /\ walk \in ScimWalk /\ walked \in ScimWalk

\* Resources stay in the order of their ids.
ScimOrder ==
  /\ \A n \in 1..Len(resources) : resources[n].id < scimId
  /\ \A m, n \in 1..Len(resources) : m < n => resources[m].id < resources[n].id

\* A walk has seen nothing of what is behind its place, and nothing twice.
ScimSeen ==
  walk.startIndex # 0 =>
    /\ \A m, n \in 1..Len(walk.seen) : m < n => walk.seen[m] < walk.seen[n]
    /\ \A m \in 1..Len(walk.seen) : walk.seen[m] < scimId
    /\ \A m \in 1..Len(walk.seen) : \A n \in 1..Len(resources) :
         n >= walk.startIndex => walk.seen[m] < resources[n].id

\* It has seen everything before its place, unless something was deleted.
ScimCovered ==
  walk.startIndex # 0 /\ ~walk.removed =>
    /\ walk.startIndex <= Len(resources) + 1
    /\ \A n \in 1..Len(resources) :
         n < walk.startIndex => \E m \in 1..Len(walk.seen) : walk.seen[m] = resources[n].id
    /\ \A i \in walk.first : \E n \in 1..Len(resources) : resources[n].id = i

\* The walk that came to its end.
ScimEnded ==
  /\ \A m, n \in 1..Len(walked.seen) : m < n => walked.seen[m] < walked.seen[n]
  /\ ~walked.removed => \A i \in walked.first : \E m \in 1..Len(walked.seen) : walked.seen[m] = i

ScimInv == ScimType /\ ScimOrder /\ ScimSeen /\ ScimCovered /\ ScimEnded

\* Nothing is there at the start.
LEMMA InitScim == ASSUME Scim!Init PROVE ScimInv
<1>1. /\ Scim!Nowhere \in ScimWalk /\ Scim!Nowhere.startIndex = 0 /\ Scim!Nowhere.seen = <<>>
      /\ Scim!Nowhere.first = {}
      BY DEF Scim!Nowhere, ScimWalk
<1>2. resources = <<>> /\ scimId = 1 /\ walk = Scim!Nowhere /\ walked = Scim!Nowhere
      BY DEF Scim!Init
<1> QED BY <1>1, <1>2 DEF ScimInv, ScimType, ScimOrder, ScimSeen, ScimCovered, ScimEnded

\* Ids are numbers from 1.
LEMMA ScimIds ==
  ASSUME ScimInv PROVE \A n \in 1..Len(resources) : resources[n].id \in Nat \ {0}
<1> SUFFICES ASSUME NEW n \in 1..Len(resources) PROVE resources[n].id \in Nat \ {0} OBVIOUS
<1>1. resources[n] \in ScimResource BY DEF ScimInv, ScimType
<1> QED BY <1>1 DEF ScimResource

\* A resource is found at one place.
LEMMA ScimAt ==
  ASSUME ScimInv, NEW i \in Scim!Ids
  PROVE  Scim!At(i) \in 1..Len(resources) /\ resources[Scim!At(i)].id = i
  BY DEF Scim!At, Scim!Ids, ScimInv, ScimType

\* A change of a resource in its place.
LEMMA ScimInPlace ==
  ASSUME ScimInv, UNCHANGED <<scimId, walk, walked>>, resources' \in Seq(ScimResource),
         Len(resources') = Len(resources),
         \A n \in 1..Len(resources) : resources'[n].id = resources[n].id
  PROVE  ScimInv'
<1>1. ScimType' BY DEF ScimInv, ScimType
<1>2. ScimOrder' BY DEF ScimInv, ScimType, ScimOrder
<1>3. ScimSeen' BY DEF ScimInv, ScimType, ScimSeen
<1>4. ScimCovered' BY SMTT(30) DEF ScimInv, ScimType, ScimCovered
<1>5. ScimEnded' BY DEF ScimInv, ScimEnded
<1> QED BY <1>1, <1>2, <1>3, <1>4, <1>5 DEF ScimInv

\* A new resource comes last.
LEMMA ScimCreates == ASSUME ScimInv, NEW v \in {NoKey}, Scim!create(v) PROVE ScimInv'
<1> DEFINE o == [id |-> scimId, name |-> v, active |-> TRUE]
<1>1. o \in ScimResource /\ o.id = scimId BY DEF ScimInv, ScimType, ScimResource
<1>2. /\ resources' = Append(resources, o) /\ scimId' = scimId + 1 /\ UNCHANGED <<walk, walked>>
      BY DEF Scim!create
<1> HIDE DEF o
<1>3. resources \in Seq(ScimResource) /\ scimId \in Nat /\ walk \in ScimWalk
      BY DEF ScimInv, ScimType
<1>4. /\ resources' \in Seq(ScimResource) /\ Len(resources') = Len(resources) + 1
      /\ \A n \in 1..Len(resources) : resources'[n] = resources[n]
      /\ resources'[Len(resources) + 1] = o /\ Len(resources) \in Nat
      BY <1>1, <1>2, <1>3
<1>5. ScimType' BY <1>2, <1>3, <1>4 DEF ScimInv, ScimType
<1>6. ScimOrder'
  <2>1. \A n \in 1..Len(resources) : resources[n].id \in Nat BY ScimIds
  <2> QED BY <1>1, <1>2, <1>3, <1>4, <2>1 DEF ScimInv, ScimOrder
<1>7. ScimSeen'
  <2>1. walk.startIndex \in Nat /\ walk.seen \in Seq(Nat) BY <1>3 DEF ScimWalk
  <2>2. ASSUME walk.startIndex # 0, NEW m \in 1..Len(walk.seen),
               NEW n \in 1..Len(resources'), n >= walk.startIndex
        PROVE  walk.seen[m] < resources'[n].id
    <3>1. walk.seen[m] < scimId BY <2>2 DEF ScimInv, ScimSeen
    <3>2. CASE n = Len(resources) + 1 BY <1>1, <1>4, <3>1, <3>2
    <3>3. CASE n \in 1..Len(resources)
      <4>1. walk.seen[m] < resources[n].id BY <2>2, <3>3 DEF ScimInv, ScimSeen
      <4> QED BY <1>4, <3>3, <4>1
    <3> QED BY <1>4, <3>2, <3>3
  <2>3. ASSUME walk.startIndex # 0
        PROVE  /\ \A m, n \in 1..Len(walk.seen) : m < n => walk.seen[m] < walk.seen[n]
               /\ \A m \in 1..Len(walk.seen) : walk.seen[m] < scimId + 1
    <3>1. \A m \in 1..Len(walk.seen) : walk.seen[m] \in Nat /\ walk.seen[m] < scimId
          BY <2>1, <2>3 DEF ScimInv, ScimSeen
    <3>2. \A m \in 1..Len(walk.seen) : walk.seen[m] < scimId + 1 BY <1>3, <3>1
    <3> QED BY <2>3, <3>2 DEF ScimInv, ScimSeen
  <2> QED BY <1>2, <2>2, <2>3 DEF ScimSeen
<1>8. ScimCovered'
  <2>1. walk.startIndex \in Nat BY <1>3 DEF ScimWalk
  <2> QED BY <1>2, <1>3, <1>4, <2>1 DEF ScimInv, ScimCovered
<1>9. ScimEnded' BY <1>2 DEF ScimInv, ScimEnded
<1> QED BY <1>5, <1>6, <1>7, <1>8, <1>9 DEF ScimInv

\* PUT keeps the id and the place.
LEMMA ScimReplaces == ASSUME ScimInv, NEW i \in Scim!Ids, NEW v \in {NoKey},
       Scim!replace(i, v) PROVE ScimInv'
<1> DEFINE o == [id |-> i, name |-> v, active |-> TRUE]
<1>1. Scim!At(i) \in 1..Len(resources) /\ resources[Scim!At(i)].id = i BY ScimAt
<1>2. resources \in Seq(ScimResource) BY DEF ScimInv, ScimType
<1>3. o \in ScimResource /\ o.id = i
  <2>1. i \in Nat \ {0} BY <1>1, ScimIds
  <2> QED BY <2>1 DEF ScimResource
<1>4. resources' = [resources EXCEPT ![Scim!At(i)] = o] /\ UNCHANGED <<scimId, walk, walked>>
      BY DEF Scim!replace
<1> HIDE DEF o
<1> QED BY <1>1, <1>2, <1>3, <1>4, ScimInPlace

\* PATCH keeps the id and the place.
LEMMA ScimPatches ==
  ASSUME ScimInv, NEW i \in Scim!Ids, NEW v \in {NoKey}, NEW p \in {"name", "active", "members"},
         Scim!patchResource(i, [path |-> p, value |-> v])
  PROVE  ScimInv'
<1>1. Scim!At(i) \in 1..Len(resources) /\ resources[Scim!At(i)].id = i BY ScimAt
<1>2. resources \in Seq(ScimResource) BY DEF ScimInv, ScimType
<1> DEFINE r == resources[Scim!At(i)]
           a == IF p = "active" /\ scimKind = "Users" THEN FALSE ELSE r.active
           m == IF p = "name" THEN v ELSE r.name
           o == [r EXCEPT !.name = m, !.active = a]
<1>3. r \in ScimResource BY <1>1, <1>2
<1>4. m \in {NoKey} /\ a \in BOOLEAN BY <1>3 DEF ScimResource
<1>5. resources' = [resources EXCEPT ![Scim!At(i)] = o] /\ UNCHANGED <<scimId, walk, walked>>
      BY <1>1, <1>2 DEF Scim!patchResource, Scim!Applied
<1> HIDE DEF m, a
<1>6. o \in ScimResource /\ o.id = r.id BY <1>3, <1>4 DEF ScimResource
<1> HIDE DEF o
<1> QED BY <1>1, <1>2, <1>5, <1>6, ScimInPlace

\* A deleted resource leaves the others in their order, one place forward behind it.
LEMMA ScimDeletes == ASSUME ScimInv, NEW i \in Scim!Ids, Scim!delete(i) PROVE ScimInv'
<1> DEFINE a == Scim!At(i)
<1>1. a \in 1..Len(resources) BY ScimAt
<1>2. resources \in Seq(ScimResource) /\ Len(resources) \in Nat BY DEF ScimInv, ScimType
<1>3. /\ resources' = SubSeq(resources, 1, a - 1) \o SubSeq(resources, a + 1, Len(resources))
      /\ walk' = [walk EXCEPT !.removed = TRUE] /\ UNCHANGED <<scimId, walked>>
      BY DEF Scim!delete
<1> HIDE DEF a
<1>4. /\ resources' \in Seq(ScimResource) /\ Len(resources') = Len(resources) - 1
      /\ \A n \in 1 .. Len(resources) - 1 :
           resources'[n] = IF n < a THEN resources[n] ELSE resources[n + 1]
  <2> DEFINE x == SubSeq(resources, 1, a - 1)
             y == SubSeq(resources, a + 1, Len(resources))
  <2>1. x \in Seq(ScimResource) /\ Len(x) = a - 1 /\ \A n \in 1 .. a - 1 : x[n] = resources[n]
        BY <1>1, <1>2
  <2>2. /\ y \in Seq(ScimResource) /\ Len(y) = Len(resources) - a
        /\ \A n \in 1 .. Len(resources) - a : y[n] = resources[a + n]
        BY <1>1, <1>2
  <2> HIDE DEF x, y
  <2>3. resources' = x \o y BY <1>3 DEF x, y
  <2>4. resources' \in Seq(ScimResource) /\ Len(resources') = Len(resources) - 1
        BY <1>1, <1>2, <2>1, <2>2, <2>3
  <2> SUFFICES ASSUME NEW n \in 1 .. Len(resources) - 1
               PROVE  resources'[n] = IF n < a THEN resources[n] ELSE resources[n + 1]
      BY <2>4
  <2>5. CASE n < a BY <1>1, <1>2, <2>1, <2>2, <2>3, <2>5
  <2>6. CASE n >= a
    <3>1. n - (a - 1) \in 1 .. Len(resources) - a /\ a + (n - (a - 1)) = n + 1 BY <1>1, <1>2, <2>6
    <3>2. resources'[n] = y[n - (a - 1)] BY <1>1, <1>2, <2>1, <2>2, <2>3, <3>1, <2>6
    <3>3. resources'[n] = resources[n + 1] BY <2>2, <3>1, <3>2
    <3> QED BY <3>3, <2>6, <1>1, <1>2
  <2> QED BY <2>5, <2>6, <1>1, <1>2
<1>5. /\ walk' \in ScimWalk /\ walk'.startIndex = walk.startIndex /\ walk'.seen = walk.seen
      /\ walk'.removed
      BY <1>3 DEF ScimInv, ScimType, ScimWalk
<1>6. \A n \in 1..Len(resources) : resources[n].id \in Nat BY ScimIds
<1>7. ScimType' BY <1>3, <1>4, <1>5 DEF ScimInv, ScimType
<1>8. ScimOrder'
  <2>1. /\ \A n \in 1..Len(resources) : resources[n].id < scimId
        /\ \A m, n \in 1..Len(resources) : m < n => resources[m].id < resources[n].id
        BY DEF ScimInv, ScimOrder
  <2>2. \A n \in 1..Len(resources') : \E b \in 1..Len(resources) :
          resources'[n] = resources[b] /\ ((b = n /\ n < a) \/ (b = n + 1 /\ n >= a))
    <3> SUFFICES ASSUME NEW n \in 1 .. Len(resources) - 1
                 PROVE  \E b \in 1..Len(resources) :
                   resources'[n] = resources[b] /\ ((b = n /\ n < a) \/ (b = n + 1 /\ n >= a))
        BY <1>4
    <3>1. CASE n < a
      <4>1. n \in 1..Len(resources) /\ resources'[n] = resources[n] BY <3>1, <1>1, <1>2, <1>4
      <4> QED BY <4>1, <3>1
    <3>2. CASE ~(n < a)
      <4>1. n + 1 \in 1..Len(resources) /\ resources'[n] = resources[n + 1] /\ n >= a
            BY <3>2, <1>1, <1>2, <1>4
      <4> QED BY <4>1
    <3> QED BY <3>1, <3>2
  <2>3. \A n \in 1..Len(resources') : resources'[n].id < scimId' BY <1>3, <2>1, <2>2
  <2>4. ASSUME NEW m \in 1..Len(resources'), NEW n \in 1..Len(resources'), m < n
        PROVE  resources'[m].id < resources'[n].id
    <3>1. PICK b \in 1..Len(resources) :
            resources'[m] = resources[b] /\ ((b = m /\ m < a) \/ (b = m + 1 /\ m >= a))
          BY <2>2
    <3>2. PICK d \in 1..Len(resources) :
            resources'[n] = resources[d] /\ ((d = n /\ n < a) \/ (d = n + 1 /\ n >= a))
          BY <2>2
    <3>3. b < d BY <3>1, <3>2, <2>4, <1>1, <1>2, <1>4
    <3> QED BY <3>1, <3>2, <3>3, <2>1
  <2> QED BY <2>3, <2>4 DEF ScimOrder
<1>9. ScimSeen'
  <2>1. walk.startIndex \in Nat /\ walk.seen \in Seq(Nat) BY DEF ScimInv, ScimType, ScimWalk
  <2>2. ASSUME walk.startIndex # 0, NEW m \in 1..Len(walk.seen), NEW n \in 1..Len(resources'),
               n >= walk.startIndex
        PROVE  walk.seen[m] < resources'[n].id
    <3>1. \A d \in 1..Len(resources) : d >= walk.startIndex => walk.seen[m] < resources[d].id
          BY <2>2 DEF ScimInv, ScimSeen
    <3>2. CASE n < a
      <4>1. n \in 1..Len(resources) /\ resources'[n] = resources[n] BY <3>2, <1>1, <1>2, <1>4
      <4> QED BY <4>1, <3>1, <2>2
    <3>3. CASE ~(n < a)
      <4>1. /\ n + 1 \in 1..Len(resources) /\ resources'[n] = resources[n + 1]
            /\ n + 1 >= walk.startIndex
            BY <3>3, <1>1, <1>2, <1>4, <2>1, <2>2
      <4> QED BY <4>1, <3>1
    <3> QED BY <3>2, <3>3
  <2> QED BY <1>3, <1>5, <2>2 DEF ScimInv, ScimSeen
<1>10. ScimCovered' BY <1>5 DEF ScimCovered
<1>11. ScimEnded' BY <1>3 DEF ScimInv, ScimEnded
<1> QED BY <1>7, <1>8, <1>9, <1>10, <1>11 DEF ScimInv

\* A walk begins before the first resource.
LEMMA ScimBegins ==
  ASSUME ScimInv, NEW c \in Nat \ {0}, Scim!BeginWalk(c) PROVE ScimInv'
<1>1. Scim!Ids \subseteq Nat BY ScimIds DEF Scim!Ids, ScimInv, ScimType
<1>2. /\ walk' \in ScimWalk /\ walk'.startIndex = 1 /\ walk'.seen = <<>> /\ walk'.first = Scim!Ids
      BY <1>1 DEF Scim!BeginWalk, ScimWalk
<1>3. UNCHANGED <<resources, scimId, walked>> BY DEF Scim!BeginWalk
<1>4. resources \in Seq(ScimResource) /\ Len(resources) \in Nat BY DEF ScimInv, ScimType
<1>5. ScimType' BY <1>2, <1>3 DEF ScimInv, ScimType
<1>6. ScimOrder' BY <1>3 DEF ScimInv, ScimOrder
<1>7. ScimSeen' BY <1>2 DEF ScimSeen
<1>8. ScimCovered'
  <2>1. \A j \in Scim!Ids : \E n \in 1..Len(resources) : resources[n].id = j BY <1>4 DEF Scim!Ids
  <2> QED BY <1>2, <1>3, <1>4, <2>1 DEF ScimCovered
<1>9. ScimEnded' BY <1>3 DEF ScimInv, ScimEnded
<1> QED BY <1>5, <1>6, <1>7, <1>8, <1>9 DEF ScimInv

\* What a page holds: the resources from its start on, and none only when there are none.
LEMMA ScimPage ==
  ASSUME ScimInv, NEW s \in Nat \ {0}, NEW c \in Nat \ {0}
  PROVE  \E k \in Nat :
           /\ k + s <= Len(resources) + 1 \/ (k = 0 /\ s > Len(resources))
           /\ Scim!Page(resources, s, c) = [m \in 1..k |-> resources[s - 1 + m]]
           /\ k = 0 => s > Len(resources)
<1> DEFINE L == Len(resources)
           k == IF s > L THEN 0 ELSE IF c <= L - s + 1 THEN c ELSE L - s + 1
<1>1. L \in Nat BY DEF ScimInv, ScimType
<1> HIDE DEF L
<1>2. k \in Nat /\ {m \in 1..c : s - 1 + m <= L} = 1..k BY <1>1
<1>3. Scim!Page(resources, s, c) = [m \in 1..k |-> resources[s - 1 + m]] BY <1>2 DEF Scim!Page, L
<1>4. /\ k + s <= L + 1 \/ (k = 0 /\ s > L)
      /\ k = 0 => s > L
  <2>1. CASE s > L BY <2>1
  <2>2. CASE ~(s > L) BY <2>2, <1>1
  <2> QED BY <2>1, <2>2
<1> HIDE DEF k
<1> QED BY <1>2, <1>3, <1>4 DEF L

\* What two sequences have joined.
LEMMA Joined ==
  ASSUME NEW g \in Seq(Nat), NEW p \in Seq(Nat)
  PROVE  /\ Len(g \o p) = Len(g) + Len(p)
         /\ \A m \in 1..Len(g) : (g \o p)[m] = g[m]
         /\ \A m \in 1..Len(p) : (g \o p)[Len(g) + m] = p[m]
<1>1. Len(g) \in Nat /\ Len(p) \in Nat OBVIOUS
<1>2. Len(g \o p) = Len(g) + Len(p) OBVIOUS
<1>3. \A m \in 1..Len(g) : (g \o p)[m] = g[m] BY <1>1
<1>4. ASSUME NEW m \in 1..Len(p) PROVE (g \o p)[Len(g) + m] = p[m]
  <2>1. Len(g) + m \in 1 .. Len(g) + Len(p) /\ Len(g) + m > Len(g) /\ (Len(g) + m) - Len(g) = m
        BY <1>1
  <2> QED BY <2>1, <1>1
<1> QED BY <1>2, <1>3, <1>4

\* What a walk has seen after a page of k resources from s on.
ScimShown(q, s, k) ==
  /\ Len(q) = Len(walk.seen) + k
  /\ \A m \in 1..Len(walk.seen) : q[m] = walk.seen[m]
  /\ \A m \in 1..k : q[Len(walk.seen) + m] = resources[s - 1 + m].id

\* It is again in order, and everything before its place has been seen.
LEMMA ScimWalks ==
  ASSUME ScimInv, NEW k \in Nat, NEW s \in Nat \ {0}, s = walk.startIndex,
         k + s <= Len(resources) + 1 \/ (k = 0 /\ s > Len(resources)), NEW q, ScimShown(q, s, k)
  PROVE  /\ \A m, n \in 1..Len(q) : m < n => q[m] < q[n]
         /\ \A m \in 1..Len(q) : q[m] < scimId
         /\ \A m \in 1..Len(q) : \A n \in 1..Len(resources) : n >= s + k => q[m] < resources[n].id
         /\ ~walk.removed =>
              /\ s + k <= Len(resources) + 1
              /\ \A n \in 1..Len(resources) :
                   n < s + k => \E m \in 1..Len(q) : q[m] = resources[n].id
<1> DEFINE L == Len(resources)
           z == Len(walk.seen)
<1>1. z \in Nat /\ L \in Nat BY DEF ScimInv, ScimType, ScimWalk
<1>2. k + s <= L + 1 \/ (k = 0 /\ s > L) OBVIOUS
<1>3. /\ Len(q) = z + k /\ \A m \in 1..z : q[m] = walk.seen[m]
      /\ \A m \in 1..k : q[z + m] = resources[s - 1 + m].id
      BY DEF ScimShown
<1>4. /\ \A m, n \in 1..z : m < n => walk.seen[m] < walk.seen[n]
      /\ \A m \in 1..z : walk.seen[m] < scimId
      /\ \A m \in 1..z : \A n \in 1..L : n >= s => walk.seen[m] < resources[n].id
      BY DEF ScimInv, ScimSeen
<1>5. /\ \A n \in 1..L : resources[n].id < scimId
      /\ \A m, n \in 1..L : m < n => resources[m].id < resources[n].id
      BY DEF ScimInv, ScimOrder
<1>6. ~walk.removed =>
        /\ s <= L + 1
        /\ \A n \in 1..L : n < s => \E m \in 1..z : walk.seen[m] = resources[n].id
      BY DEF ScimInv, ScimCovered
<1> HIDE DEF z, L
<1>7. \A m \in 1 .. z + k :
        \/ m \in 1..z /\ q[m] = walk.seen[m]
        \/ \E d \in 1..L : m > z /\ d = s - 1 + (m - z) /\ q[m] = resources[d].id
  <2> SUFFICES ASSUME NEW m \in 1 .. z + k, ~(m \in 1..z)
               PROVE  \E d \in 1..L : m > z /\ d = s - 1 + (m - z) /\ q[m] = resources[d].id
      BY <1>3
  <2>1. m - z \in 1..k /\ z + (m - z) = m /\ m > z BY <1>1
  <2>2. q[m] = resources[s - 1 + (m - z)].id BY <2>1, <1>3
  <2>3. s - 1 + (m - z) \in 1..L BY <2>1, <1>1, <1>2, SMTT(30)
  <2> QED BY <2>1, <2>2, <2>3
<1>8. ASSUME NEW m \in 1 .. z + k, NEW n \in 1 .. z + k, m < n PROVE q[m] < q[n]
  <2>1. CASE n \in 1..z /\ q[n] = walk.seen[n]
    <3>1. m \in 1..z BY <2>1, <1>1, <1>8
    <3> QED BY <2>1, <3>1, <1>3, <1>4, <1>8
  <2>2. ASSUME NEW d \in 1..L, n > z, d = s - 1 + (n - z), q[n] = resources[d].id PROVE q[m] < q[n]
    <3>1. CASE m \in 1..z /\ q[m] = walk.seen[m]
      <4>1. d >= s BY <2>2, <1>1
      <4> QED BY <2>2, <3>1, <4>1, <1>4
    <3>2. ASSUME NEW e \in 1..L, m > z, e = s - 1 + (m - z), q[m] = resources[e].id
          PROVE  q[m] < q[n]
      <4>1. e < d BY <2>2, <3>2, <1>1, <1>8, SMTT(30)
      <4> QED BY <2>2, <3>2, <4>1, <1>5
    <3> QED BY <3>1, <3>2, <1>7
  <2> QED BY <2>1, <2>2, <1>7
<1>9. ASSUME NEW m \in 1 .. z + k PROVE q[m] < scimId BY <1>4, <1>5, <1>7
<1>10. ASSUME NEW m \in 1 .. z + k, NEW n \in 1..L, n >= s + k PROVE q[m] < resources[n].id
  <2>1. CASE m \in 1..z /\ q[m] = walk.seen[m]
    <3>1. n >= s BY <1>1, <1>10
    <3> QED BY <2>1, <3>1, <1>4
  <2>2. ASSUME NEW d \in 1..L, m > z, d = s - 1 + (m - z), q[m] = resources[d].id
        PROVE  q[m] < resources[n].id
    <3>1. d < n BY <2>2, <1>1, <1>10
    <3> QED BY <2>2, <3>1, <1>5
  <2> QED BY <2>1, <2>2, <1>7
<1>11. ASSUME ~walk.removed PROVE s + k <= L + 1 BY <1>1, <1>2, <1>6, <1>11
<1>12. ASSUME ~walk.removed, NEW n \in 1..L, n < s + k
       PROVE \E m \in 1 .. z + k : q[m] = resources[n].id
  <2>1. CASE n < s
    <3>1. PICK m \in 1..z : walk.seen[m] = resources[n].id BY <2>1, <1>6, <1>12
    <3>2. m \in 1 .. z + k /\ q[m] = resources[n].id BY <3>1, <1>1, <1>3
    <3> QED BY <3>2
  <2>2. CASE ~(n < s)
    <3> DEFINE b == n - s + 1
    <3>1. b \in 1..k /\ s - 1 + b = n /\ z + b \in 1 .. z + k BY <2>2, <1>1, <1>12, SMTT(30)
    <3> HIDE DEF b
    <3>2. q[z + b] = resources[n].id BY <3>1, <1>3
    <3> QED BY <3>1, <3>2
  <2> QED BY <2>1, <2>2
<1> QED BY <1>3, <1>8, <1>9, <1>10, <1>11, <1>12 DEF L

\* A page is shown and the walk goes on behind it, or ends.
LEMMA ScimLists == ASSUME ScimInv, Scim!List PROVE ScimInv'
<1> DEFINE s == walk.startIndex
           c == Scim!parseCount(walk.count)
           page == Scim!Page(resources, s, c)
           w == [walk EXCEPT !.startIndex = s + Len(page),
                             !.seen = @ \o [n \in DOMAIN page |-> page[n].id]]
<1>1. s # 0 /\ UNCHANGED <<resources, scimId>> BY DEF Scim!List
<1>2. \/ (Len(page) = 0 \/ s + Len(page) > Len(resources)) /\ walk' = Scim!Nowhere /\ walked' = w
      \/ ~(Len(page) = 0 \/ s + Len(page) > Len(resources)) /\ walk' = w /\ walked' = walked
      BY DEF Scim!List
<1>3. /\ walk \in ScimWalk /\ s \in Nat \ {0} /\ walk.count \in Nat \ {0} /\ walk.seen \in Seq(Nat)
      BY <1>1 DEF ScimInv, ScimType, ScimWalk
<1>4. c \in Nat \ {0} BY <1>3, ScimAssumption DEF Scim!parseCount
<1> HIDE DEF s, c
<1>5. PICK k \in Nat :
        /\ k + s <= Len(resources) + 1 \/ (k = 0 /\ s > Len(resources))
        /\ page = [m \in 1..k |-> resources[s - 1 + m]]
        /\ k = 0 => s > Len(resources)
      BY <1>3, <1>4, ScimPage
<1> HIDE DEF page
<1>6. Len(resources) \in Nat BY DEF ScimInv, ScimType
<1>7. \A m \in 1..k : s - 1 + m \in 1..Len(resources) BY <1>3, <1>5, <1>6
<1>8. Len(page) = k /\ DOMAIN page = 1..k BY <1>5
<1> DEFINE p == [m \in 1..k |-> resources[s - 1 + m].id]
<1>9. [n \in DOMAIN page |-> page[n].id] = p BY <1>5, <1>8
<1>10. p \in Seq(Nat)
  <2>1. \A n \in 1..Len(resources) : resources[n].id \in Nat BY ScimIds
  <2> QED BY <2>1, <1>7
<1> HIDE DEF p
<1>11. walk.seen \o p \in Seq(Nat) /\ s + k \in Nat BY <1>3, <1>10
<1>12. w = [walk EXCEPT !.startIndex = s + k, !.seen = walk.seen \o p] BY <1>8, <1>9
<1> HIDE DEF w
<1>13. /\ w \in ScimWalk /\ w.startIndex = s + k /\ w.seen = walk.seen \o p
       /\ w.first = walk.first /\ w.removed = walk.removed
       BY <1>3, <1>11, <1>12 DEF ScimWalk
<1>14. /\ \A m, n \in 1..Len(w.seen) : m < n => w.seen[m] < w.seen[n]
       /\ \A m \in 1..Len(w.seen) : w.seen[m] < scimId
       /\ \A m \in 1..Len(w.seen) : \A n \in 1..Len(resources) :
            n >= s + k => w.seen[m] < resources[n].id
       /\ ~walk.removed =>
            /\ s + k <= Len(resources) + 1
            /\ \A n \in 1..Len(resources) :
                 n < s + k => \E m \in 1..Len(w.seen) : w.seen[m] = resources[n].id
  <2>1. ScimShown(w.seen, s, k)
    <3>1. Len(p) = k /\ \A m \in 1..k : p[m] = resources[s - 1 + m].id BY <1>10 DEF p
    <3> DEFINE g == walk.seen
    <3>2. g \in Seq(Nat) /\ w.seen = g \o p BY <1>3, <1>13
    <3> HIDE DEF g
    <3>3. /\ Len(g \o p) = Len(g) + k /\ \A m \in 1..Len(g) : (g \o p)[m] = g[m]
          /\ \A m \in 1..k : (g \o p)[Len(g) + m] = p[m]
          BY <3>1, <3>2, <1>10, Joined
    <3> QED BY <3>1, <3>2, <3>3 DEF ScimShown, g
  <2>2. s = walk.startIndex BY DEF s
  <2> HIDE DEF s
  <2> DEFINE q == w.seen
  <2>3. ScimShown(q, s, k) BY <2>1
  <2> HIDE DEF q
  <2>4. /\ \A m, n \in 1..Len(q) : m < n => q[m] < q[n]
        /\ \A m \in 1..Len(q) : q[m] < scimId
        /\ \A m \in 1..Len(q) : \A n \in 1..Len(resources) : n >= s + k => q[m] < resources[n].id
        /\ ~walk.removed =>
             /\ s + k <= Len(resources) + 1
             /\ \A n \in 1..Len(resources) :
                  n < s + k => \E m \in 1..Len(q) : q[m] = resources[n].id
    <3>1. k + s <= Len(resources) + 1 \/ (k = 0 /\ s > Len(resources)) BY <1>5
    <3>2. s \in Nat \ {0} BY <1>3
    <3> QED BY <3>1, <3>2, <2>2, <2>3, ScimWalks
  <2> QED BY <2>4 DEF q
<1>15. ScimOrder' BY <1>1 DEF ScimInv, ScimOrder
<1>16. CASE walk' = Scim!Nowhere /\ walked' = w /\ (k = 0 \/ s + k > Len(resources))
  <2>1. Scim!Nowhere \in ScimWalk /\ Scim!Nowhere.startIndex = 0 BY DEF Scim!Nowhere, ScimWalk
  <2>2. ScimType' BY <1>1, <1>13, <1>16, <2>1 DEF ScimInv, ScimType
  <2>3. ScimSeen' /\ ScimCovered' BY <1>16, <2>1 DEF ScimSeen, ScimCovered
  <2>4. ScimEnded'
    <3>1. ASSUME ~w.removed, NEW i \in w.first PROVE \E m \in 1..Len(w.seen) : w.seen[m] = i
      <4>1. PICK n \in 1..Len(resources) : resources[n].id = i
            BY <3>1, <1>1, <1>13 DEF ScimInv, ScimCovered, s
      <4>2. n < s + k BY <1>3, <1>5, <1>6, <1>16
      <4> QED BY <3>1, <4>1, <4>2, <1>13, <1>14
    <3> QED BY <3>1, <1>14, <1>16 DEF ScimEnded
  <2> QED BY <1>15, <2>2, <2>3, <2>4 DEF ScimInv
<1>17. CASE walk' = w /\ walked' = walked
  <2>1. ScimType' BY <1>1, <1>13, <1>17 DEF ScimInv, ScimType
  <2>2. ScimSeen' BY <1>1, <1>13, <1>14, <1>17 DEF ScimSeen
  <2>3. ScimCovered'
    <3>1. ~walk.removed => \A i \in walk.first : \E n \in 1..Len(resources) : resources[n].id = i
          BY <1>1 DEF ScimInv, ScimCovered, s
    <3> QED BY <1>1, <1>13, <1>14, <1>17, <3>1 DEF ScimCovered
  <2>4. ScimEnded' BY <1>17 DEF ScimInv, ScimEnded
  <2> QED BY <1>15, <2>1, <2>2, <2>3, <2>4 DEF ScimInv
<1> QED BY <1>2, <1>8, <1>16, <1>17

\* Every request keeps the directory's invariant.
LEMMA ScimStep == ASSUME ScimInv, Scim!Next \/ UNCHANGED scimVars PROVE ScimInv'
<1>1. CASE UNCHANGED scimVars
  <2>1. UNCHANGED <<resources, scimId, walk, walked>> BY <1>1 DEF scimVars
  <2> QED BY <2>1 DEF ScimInv, ScimType, ScimOrder, ScimSeen, ScimCovered, ScimEnded
<1>2. CASE Scim!Next
  <2>1. ASSUME NEW c \in 1 .. Cap + 1, Scim!BeginWalk(c) PROVE ScimInv'
    <3>1. c \in Nat \ {0} BY <2>1, ScimAssumption
    <3> QED BY <2>1, <3>1, ScimBegins
  <2> QED BY <1>2, <2>1, ScimCreates, ScimReplaces, ScimPatches, ScimDeletes, ScimLists
      DEF Scim!Next
<1> QED BY <1>1, <1>2

\* The invariant gives what the directory promises.
LEMMA ScimPromise == ASSUME ScimInv PROVE Scim!TypeOK /\ Scim!WalkComplete
<1>1. resources \in Seq(ScimResource) /\ Len(resources) \in Nat
      /\ DOMAIN resources = 1..Len(resources)
      BY DEF ScimInv, ScimType
<1>2. \A n \in 1..Len(resources) : resources[n].name \in {NoKey} /\ resources[n].active \in BOOLEAN
  <2> SUFFICES ASSUME NEW n \in 1..Len(resources)
               PROVE  resources[n].name \in {NoKey} /\ resources[n].active \in BOOLEAN
      OBVIOUS
  <2>1. resources[n] \in ScimResource BY <1>1
  <2> QED BY <2>1 DEF ScimResource
<1>3. \A n \in 1..Len(resources) : resources[n].id \in Nat \ {0} BY ScimIds
<1>4. \A m, n \in 1..Len(resources) : resources[m].id = resources[n].id => m = n
      BY <1>1, <1>3 DEF ScimInv, ScimOrder
<1>5. Scim!Ids \subseteq 1 .. scimId - 1 BY <1>1, <1>3 DEF Scim!Ids, ScimInv, ScimOrder, ScimType
<1>6. Scim!TypeOK BY <1>1, <1>2, <1>4, <1>5 DEF Scim!TypeOK
<1>7. /\ walked.seen \in Seq(Nat) /\ DOMAIN walked.seen = 1..Len(walked.seen)
      /\ Len(walked.seen) \in Nat
      BY DEF ScimInv, ScimType, ScimWalk
<1>8. \A m, n \in DOMAIN walked.seen : walked.seen[m] = walked.seen[n] => m = n
      BY <1>7 DEF ScimInv, ScimEnded
<1>9. ~walked.removed => walked.first \subseteq {walked.seen[n] : n \in DOMAIN walked.seen}
      BY <1>7 DEF ScimInv, ScimEnded
<1> QED BY <1>6, <1>8, <1>9 DEF Scim!WalkComplete

-----------------------------------------------------------------------------
(* Sign-in with an external identity *)

LoginCall(P, I) ==
  [pc : {"idle", "exchange", "profile", "verify", "lookup", "create", "link", "done"},
   idp : I \cup {"google"}, who : 0..P, subject : 0..P, mail : {"none", "plain", "verified"},
   verified : BOOLEAN, user : Nat, fresh : BOOLEAN, knew : BOOLEAN, token : Nat, kid : BOOLEAN,
   sound : BOOLEAN]

LoginUser(P, I) == [by : I, email : 0..P, identities : SUBSET (I \X (0..P))]

\* The subject a call may carry.
SubjectOf(P, p, w) == IF p = "github" THEN P + 1 - w ELSE w

\* What holds of a sign-in under way, with the identities that are known and so many users.
LoginFits(P, I, k, ids, n) ==
  /\ k.user <= n /\ (k.pc = "link" => k.user # 0)
  /\ k.pc # "idle" => k.who # 0 /\ k.idp \in I
  /\ k.pc = "profile" => k.idp # "oidc"
  /\ k.fresh => k.pc \in {"link", "done"}
  /\ k.subject # 0 => k.subject = SubjectOf(P, k.idp, k.who)
  /\ k.knew => <<k.idp, SubjectOf(P, k.idp, k.who)>> \in ids
  /\ (k.pc = "create" \/ k.fresh) /\ k.subject # 0 => ~k.knew
  /\ k.idp = "oidc" /\ k.pc \in {"lookup", "create", "link", "done"} => k.sound
  /\ k.verified /\ k.idp \in {"google", "github", "apple", "custom", "oidc"} => k.mail = "verified"

LoginType(C, P, I, n, u, r) ==
  /\ users \in Seq(LoginUser(P, I)) /\ call \in [C -> LoginCall(P, I)]
  /\ jwks \in Seq(Nat) /\ Len(jwks) # 0 /\ newest \in 1 .. r + 1
  /\ begun \in 0..n /\ unlinks \in 0..u

LoginCalls(C, P, I) == \A c \in C : LoginFits(P, I, call[c], known, Len(users))

\* An identity that is known belongs to a user.
LoginKnown == \A i \in known : \E u \in 1..Len(users) : i \in users[u].identities

\* A user that nobody asked to share has one owner, also with the links under way.
LoginOwner(C, P, u, w) ==
  /\ users[u].email \in {0, w}
  /\ \A i \in users[u].identities : i[2] \in {0, SubjectOf(P, i[1], w)}
  /\ \A c \in C : call[c].pc = "link" /\ call[c].user = u =>
       call[c].subject \in {0, SubjectOf(P, call[c].idp, w)}

LoginOwned(C, P) == \A u \in 1..Len(users) : u \in mixed \/ \E w \in 1..P : LoginOwner(C, P, u, w)

\* A user made by resolve has an identity.
LoginInside ==
  \A u \in 1..Len(users) : users[u].by = "oidc" /\ unlinks = 0 => users[u].identities # {}

LoginInv(C, P, I, n, u, r) ==
  LoginType(C, P, I, n, u, r) /\ LoginCalls(C, P, I) /\ LoginKnown /\ LoginOwned(C, P)
    /\ LoginInside

\* Subjects are numbers from 1.
LEMMA SubjectIn ==
  ASSUME NEW P \in Nat, NEW p, NEW w \in 1..P PROVE SubjectOf(P, p, w) \in 1..P
  BY DEF SubjectOf

\* The model's subject is that one.
LEMMA SubjectIs ==
  ASSUME NEW C, NEW P, NEW I, NEW n, NEW u, NEW r, NEW p, NEW w
  PROVE  LoginsOf(C, P, I, n, u, r)!Subject(p, w) = SubjectOf(P, p, w)
  BY DEF LoginsOf!Subject, SubjectOf

\* A call that is idle.
LEMMA IdleLogin ==
  ASSUME NEW C, NEW P \in Nat, NEW I, NEW n, NEW u, NEW r, NEW ids, NEW len \in Nat
  PROVE  /\ LoginsOf(C, P, I, n, u, r)!Idle \in LoginCall(P, I)
         /\ LoginFits(P, I, LoginsOf(C, P, I, n, u, r)!Idle, ids, len)
         /\ LoginsOf(C, P, I, n, u, r)!Idle.pc = "idle"
         /\ LoginsOf(C, P, I, n, u, r)!Idle.idp = "google"
         /\ LoginsOf(C, P, I, n, u, r)!Idle.who = 0
         /\ LoginsOf(C, P, I, n, u, r)!Idle.user = 0 /\ LoginsOf(C, P, I, n, u, r)!Idle.subject = 0
         /\ ~LoginsOf(C, P, I, n, u, r)!Idle.fresh /\ ~LoginsOf(C, P, I, n, u, r)!Idle.verified
<1>1. LoginsOf(C, P, I, n, u, r)!Idle \in LoginCall(P, I) BY DEF LoginsOf!Idle, LoginCall
<1>2. /\ LoginsOf(C, P, I, n, u, r)!Idle.pc = "idle" /\ LoginsOf(C, P, I, n, u, r)!Idle.user = 0
      /\ LoginsOf(C, P, I, n, u, r)!Idle.subject = 0 /\ ~LoginsOf(C, P, I, n, u, r)!Idle.fresh
      /\ ~LoginsOf(C, P, I, n, u, r)!Idle.knew
      /\ ~LoginsOf(C, P, I, n, u, r)!Idle.verified /\ LoginsOf(C, P, I, n, u, r)!Idle.idp = "google"
      /\ LoginsOf(C, P, I, n, u, r)!Idle.who = 0
      BY DEF LoginsOf!Idle
<1> QED BY <1>1, <1>2 DEF LoginFits

\* The start: no users and no calls.
LEMMA InitLogins ==
  ASSUME NEW C, NEW P \in Nat, NEW I, NEW n \in Nat, NEW u \in Nat, NEW r \in Nat,
         LoginsOf(C, P, I, n, u, r)!Init
  PROVE  LoginInv(C, P, I, n, u, r)
<1>1. /\ users = <<>> /\ call = [c \in C |-> LoginsOf(C, P, I, n, u, r)!Idle] /\ jwks = <<1>>
      /\ newest = 1 /\ begun = 0
      /\ unlinks = 0 /\ known = {} /\ mixed = {}
      BY DEF LoginsOf!Init
<1>2. Len(users) = 0 /\ users \in Seq(LoginUser(P, I)) BY <1>1
<1>3. LoginsOf(C, P, I, n, u, r)!Idle \in LoginCall(P, I)
      /\ LoginFits(P, I, LoginsOf(C, P, I, n, u, r)!Idle, {}, 0) BY IdleLogin
<1>4. LoginType(C, P, I, n, u, r)
  <2>1. call \in [C -> LoginCall(P, I)] BY <1>1, <1>3
  <2>2. jwks \in Seq(Nat) /\ Len(jwks) # 0 BY <1>1
  <2> QED BY <2>1, <2>2, <1>1, <1>2 DEF LoginType
<1>5. LoginCalls(C, P, I) BY <1>1, <1>2, <1>3 DEF LoginCalls
<1> QED BY <1>1, <1>2, <1>4, <1>5 DEF LoginInv, LoginKnown, LoginOwned, LoginInside

\* What fits goes on fitting while identities become known and users are made.
LEMMA GoesOnFitting ==
  ASSUME NEW P, NEW I, NEW k \in LoginCall(P, I), NEW ids, NEW more, ids \subseteq more,
         NEW n \in Nat, NEW m \in Nat, n <= m, LoginFits(P, I, k, ids, n)
  PROVE  LoginFits(P, I, k, more, m)
<1>1. k.user \in Nat BY DEF LoginCall
<1> QED BY <1>1 DEF LoginFits

\* A step of one sign-in that changes neither users nor counters: it keeps the invariant
\* when the new state of the call fits, and when a link is to a user that has the
\* identity or was asked to share.
LEMMA LoginMoves ==
  ASSUME NEW C, NEW P \in Nat, NEW I, NEW n \in Nat, NEW u \in Nat, NEW r \in Nat,
         LoginInv(C, P, I, n, u, r), NEW c \in C, NEW o \in LoginCall(P, I),
         call' = [call EXCEPT ![c] = o], LoginFits(P, I, o, known', Len(users)),
         UNCHANGED <<users, jwks, newest, unlinks>>, begun' \in 0..n, mixed \subseteq mixed',
         known \subseteq known',
           \A i \in known' : \E v \in 1..Len(users) : i \in users[v].identities,
         o.pc = "link" => o.user \in mixed' \/ <<o.idp, o.subject>> \in users[o.user].identities
  PROVE  LoginInv(C, P, I, n, u, r)'
<1>1. /\ users \in Seq(LoginUser(P, I)) /\ Len(users) \in Nat /\ call \in [C -> LoginCall(P, I)]
      BY DEF LoginInv, LoginType
<1>2. call' \in [C -> LoginCall(P, I)] /\ call'[c] = o /\ \A d \in C \ {c} : call'[d] = call[d]
      BY <1>1
<1>3. LoginType(C, P, I, n, u, r)' BY <1>2 DEF LoginInv, LoginType
<1>4. LoginCalls(C, P, I)'
  <2>1. \A d \in C \ {c} : LoginFits(P, I, call[d], known', Len(users))
    <3> SUFFICES ASSUME NEW d \in C \ {c} PROVE LoginFits(P, I, call[d], known', Len(users))
        OBVIOUS
    <3>1. call[d] \in LoginCall(P, I) /\ LoginFits(P, I, call[d], known, Len(users))
          BY <1>1 DEF LoginInv, LoginCalls
    <3> QED BY <1>1, <3>1, GoesOnFitting
  <2>2. \A d \in C : LoginFits(P, I, call'[d], known', Len(users)) BY <1>2, <2>1
  <2> QED BY <2>2 DEF LoginCalls
<1>5. LoginKnown' BY DEF LoginKnown
<1>6. LoginOwned(C, P)'
  <2> SUFFICES ASSUME NEW v \in 1..Len(users), v \notin mixed'
               PROVE  \E w \in 1..P : LoginOwner(C, P, v, w)'
      BY DEF LoginOwned
  <2>1. PICK w \in 1..P : LoginOwner(C, P, v, w) BY DEF LoginInv, LoginOwned
  <2>2. o.pc = "link" /\ o.user = v => o.subject \in {0, SubjectOf(P, o.idp, w)}
    <3>1. <<o.idp, o.subject>>[1] = o.idp /\ <<o.idp, o.subject>>[2] = o.subject OBVIOUS
    <3>2. \A i \in users[v].identities : i[2] \in {0, SubjectOf(P, i[1], w)} BY <2>1 DEF LoginOwner
    <3> QED BY <3>1, <3>2
  <2>3. ASSUME NEW d \in C, call'[d].pc = "link", call'[d].user = v
        PROVE  call'[d].subject \in {0, SubjectOf(P, call'[d].idp, w)}
    <3>1. CASE d = c BY <3>1, <2>2, <2>3, <1>2
    <3>2. CASE d # c BY <3>2, <2>1, <2>3, <1>2 DEF LoginOwner
    <3> QED BY <3>1, <3>2
  <2>4. LoginOwner(C, P, v, w)' BY <2>1, <2>3 DEF LoginOwner
  <2> QED BY <2>4
<1>7. LoginInside' BY DEF LoginInv, LoginInside
<1> QED BY <1>3, <1>4, <1>5, <1>6, <1>7 DEF LoginInv

\* A call that ends with an error.
LEMMA LoginThrown ==
  ASSUME NEW C, NEW P \in Nat, NEW I, NEW n \in Nat, NEW u \in Nat, NEW r \in Nat,
         LoginInv(C, P, I, n, u, r), NEW c \in C, LoginsOf(C, P, I, n, u, r)!Throw(c),
         UNCHANGED <<users, jwks, newest, begun, unlinks, known, mixed>>
  PROVE  LoginInv(C, P, I, n, u, r)'
<1> DEFINE o == LoginsOf(C, P, I, n, u, r)!Idle
<1>1. Len(users) \in Nat /\ begun \in 0..n BY DEF LoginInv, LoginType
<1>2. o \in LoginCall(P, I) /\ LoginFits(P, I, o, known, Len(users)) /\ o.pc = "idle"
  <2>1. LoginFits(P, I, o, known, Len(users)) BY <1>1, IdleLogin
  <2>2. o \in LoginCall(P, I) /\ o.pc = "idle" BY IdleLogin
  <2> QED BY <2>1, <2>2
<1>3. call' = [call EXCEPT ![c] = o] BY DEF LoginsOf!Throw, LoginsOf!Set
<1>4. \A i \in known' : \E v \in 1..Len(users) : i \in users[v].identities
      BY DEF LoginInv, LoginKnown
<1> HIDE DEF o
<1>5. begun' \in 0..n /\ o.pc # "link" /\ LoginFits(P, I, o, known', Len(users)) BY <1>1, <1>2
<1> QED BY <1>2, <1>3, <1>4, <1>5, LoginMoves

\* A call at work, as the invariant describes it.
LEMMA LoginAtWork ==
  ASSUME NEW C, NEW P \in Nat, NEW I, NEW n, NEW u, NEW r, LoginInv(C, P, I, n, u, r), NEW c \in C
  PROVE  /\ call[c] \in LoginCall(P, I) /\ LoginFits(P, I, call[c], known, Len(users))
         /\ Len(users) \in Nat /\ begun \in 0..n
         /\ \A i \in known : \E v \in 1..Len(users) : i \in users[v].identities
  BY DEF LoginInv, LoginType, LoginCalls, LoginKnown

\* A sign-in begins.
LEMMA LoginBegins ==
  ASSUME NEW C, NEW P \in Nat, NEW I, NEW n \in Nat, NEW u \in Nat, NEW r \in Nat,
         LoginInv(C, P, I, n, u, r), NEW c \in C, NEW p \in I, NEW w \in 1..P,
           LoginsOf(C, P, I, n, u, r)!Begin(c, p, w)
  PROVE  LoginInv(C, P, I, n, u, r)'
<1> DEFINE z == <<p, SubjectOf(P, p, w)>> \in known
           o == [LoginsOf(C, P, I, n, u, r)!Idle EXCEPT !.pc = "exchange", !.idp = p, !.who = w, !.knew = z]
<1>1. /\ Len(users) \in Nat /\ begun \in 0..n
      /\ \A i \in known : \E v \in 1..Len(users) : i \in users[v].identities
      BY LoginAtWork
<1>2. /\ call' = [call EXCEPT ![c] = o] /\ begun < n /\ begun' = begun + 1
      /\ UNCHANGED <<users, jwks, newest, unlinks, known, mixed>>
      BY SubjectIs DEF LoginsOf!Begin, LoginsOf!Set
<1>3. z \in BOOLEAN /\ (z => <<p, SubjectOf(P, p, w)>> \in known) OBVIOUS
<1>4. /\ LoginsOf(C, P, I, n, u, r)!Idle \in LoginCall(P, I)
      /\ LoginsOf(C, P, I, n, u, r)!Idle.user = 0 /\ LoginsOf(C, P, I, n, u, r)!Idle.subject = 0
      /\ ~LoginsOf(C, P, I, n, u, r)!Idle.fresh
      /\ ~LoginsOf(C, P, I, n, u, r)!Idle.verified
      BY IdleLogin
<1> HIDE DEF z
<1> DEFINE k == LoginsOf(C, P, I, n, u, r)!Idle
<1> HIDE DEF k
<1>5. k \in LoginCall(P, I) /\ k.user = 0 /\ k.subject = 0 /\ ~k.fresh /\ ~k.verified BY <1>4 DEF k
<1>6. o = [k EXCEPT !.pc = "exchange", !.idp = p, !.who = w, !.knew = z] BY DEF k
<1> HIDE DEF o
<1>7. /\ o \in LoginCall(P, I) /\ o.pc = "exchange" /\ o.idp = p /\ o.who = w /\ o.knew = z
      /\ o.user = 0 /\ o.subject = 0 /\ ~o.fresh /\ ~o.verified
  <2>1. w \in 0..P /\ p \in I \cup {"google"} OBVIOUS
  <2>2. o \in LoginCall(P, I) BY <1>3, <1>5, <1>6, <2>1 DEF LoginCall
  <2>3. o.pc = "exchange" /\ o.idp = p /\ o.who = w /\ o.knew = z BY <1>5, <1>6 DEF LoginCall
  <2>4. o.user = k.user /\ o.subject = k.subject /\ o.fresh = k.fresh /\ o.verified = k.verified
        BY <1>5, <1>6 DEF LoginCall
  <2> QED BY <1>5, <2>2, <2>3, <2>4
<1>8. LoginFits(P, I, o, known', Len(users)) BY <1>1, <1>2, <1>3, <1>7 DEF LoginFits
<1>9. begun' \in 0..n /\ o.pc # "link" BY <1>1, <1>2, <1>7
<1>10. \A i \in known' : \E v \in 1..Len(users) : i \in users[v].identities BY <1>1, <1>2
<1> QED BY <1>2, <1>7, <1>8, <1>9, <1>10, LoginMoves

\* The code is exchanged.
LEMMA LoginExchanges ==
  ASSUME NEW C, NEW P \in Nat, NEW I, NEW n \in Nat, NEW u \in Nat, NEW r \in Nat,
         LoginInv(C, P, I, n, u, r), NEW c \in C, LoginsOf(C, P, I, n, u, r)!Exchange(c)
  PROVE  LoginInv(C, P, I, n, u, r)'
<1> DEFINE k == call[c]
<1>1. /\ k \in LoginCall(P, I) /\ LoginFits(P, I, k, known, Len(users)) /\ Len(users) \in Nat
      /\ begun \in 0..n /\ \A i \in known : \E v \in 1..Len(users) : i \in users[v].identities
      BY LoginAtWork
<1>2. newest \in Nat BY DEF LoginInv, LoginType
<1>3. k.pc = "exchange" /\ UNCHANGED <<users, jwks, newest, begun, unlinks, known, mixed>>
      BY DEF LoginsOf!Exchange
<1>4. CASE LoginsOf(C, P, I, n, u, r)!Throw(c) BY <1>3, <1>4, LoginThrown
<1>5. ASSUME NEW o \in LoginCall(P, I), call' = [call EXCEPT ![c] = o],
             o.pc \in {"profile", "verify"}, o.pc = "profile" => o.idp # "oidc", o.idp = k.idp,
             o.who = k.who, o.subject = k.subject, o.user = k.user, o.fresh = k.fresh,
             o.knew = k.knew, o.verified = k.verified, o.mail = k.mail
      PROVE  LoginInv(C, P, I, n, u, r)'
  <2>1. LoginFits(P, I, o, known', Len(users)) BY <1>1, <1>3, <1>5 DEF LoginFits
  <2>2. begun' \in 0..n /\ o.pc # "link" BY <1>1, <1>3, <1>5
  <2>3. \A i \in known' : \E v \in 1..Len(users) : i \in users[v].identities BY <1>1, <1>3
  <2> QED BY <1>3, <1>5, <2>1, <2>2, <2>3, LoginMoves
<1>6. CASE k.idp # "oidc" /\ LoginsOf(C, P, I, n, u, r)!Set(c, [k EXCEPT !.pc = "profile"])
  <2> DEFINE o == [k EXCEPT !.pc = "profile"]
  <2>1. call' = [call EXCEPT ![c] = o] BY <1>6 DEF LoginsOf!Set
  <2> HIDE DEF k
  <2>2. /\ o \in LoginCall(P, I) /\ o.pc = "profile" /\ o.idp = k.idp /\ o.who = k.who
        /\ o.subject = k.subject /\ o.user = k.user /\ o.fresh = k.fresh /\ o.knew = k.knew
        /\ o.verified = k.verified /\ o.mail = k.mail
        BY <1>1 DEF LoginCall
  <2> HIDE DEF o
  <2> QED BY <1>5, <1>6, <2>1, <2>2
<1>7. ASSUME NEW kid \in BOOLEAN, NEW sound \in BOOLEAN,
             LoginsOf(C, P, I, n, u, r)!Set(c, [k EXCEPT !.pc = "verify", !.token = newest, !.kid = kid, !.sound = sound])
      PROVE  LoginInv(C, P, I, n, u, r)'
  <2> DEFINE o == [k EXCEPT !.pc = "verify", !.token = newest, !.kid = kid, !.sound = sound]
  <2>1. call' = [call EXCEPT ![c] = o] BY <1>7 DEF LoginsOf!Set
  <2> HIDE DEF k
  <2>2. /\ o \in LoginCall(P, I) /\ o.pc = "verify" /\ o.idp = k.idp /\ o.who = k.who
        /\ o.subject = k.subject /\ o.user = k.user /\ o.fresh = k.fresh /\ o.knew = k.knew
        /\ o.verified = k.verified /\ o.mail = k.mail
        BY <1>1, <1>2 DEF LoginCall
  <2> HIDE DEF o
  <2> QED BY <1>5, <2>1, <2>2
<1> QED BY <1>4, <1>6, <1>7 DEF LoginsOf!Exchange

\* A call that has the claims: its subject is that of the person or empty.
LEMMA LoginClaims ==
  ASSUME NEW C, NEW P \in Nat, NEW I, NEW n \in Nat, NEW u \in Nat, NEW r \in Nat,
         LoginInv(C, P, I, n, u, r), NEW c \in C, call[c].pc \in {"profile", "verify"},
         UNCHANGED <<users, jwks, newest, begun, unlinks, known, mixed>>,
         NEW o \in LoginCall(P, I), call' = [call EXCEPT ![c] = o], o.pc = "lookup",
         o.idp = call[c].idp, o.who = call[c].who, o.user = call[c].user, o.fresh = call[c].fresh,
         o.knew = call[c].knew, o.subject \in {0, SubjectOf(P, call[c].idp, call[c].who)},
         o.idp = "oidc" => o.sound,
         o.verified /\ o.idp \in {"google", "github", "apple", "custom", "oidc"} =>
           o.mail = "verified"
  PROVE  LoginInv(C, P, I, n, u, r)'
<1>1. /\ LoginFits(P, I, call[c], known, Len(users)) /\ begun \in 0..n
      /\ \A i \in known : \E v \in 1..Len(users) : i \in users[v].identities
      BY LoginAtWork
<1>2. LoginFits(P, I, o, known', Len(users)) BY <1>1 DEF LoginFits
<1>3. begun' \in 0..n /\ o.pc # "link" BY <1>1
<1>4. \A i \in known' : \E v \in 1..Len(users) : i \in users[v].identities BY <1>1
<1> QED BY <1>2, <1>3, <1>4, LoginMoves

\* The rules of the adapters that tell.
LEMMA AdapterRules ==
  ASSUME NEW C, NEW P, NEW I, NEW n, NEW u, NEW r, NEW p \in {"google", "github", "apple", "custom"}
  PROVE  LoginsOf(C, P, I, n, u, r)!Adapters[p].verified \in {"told", "listed"}
  BY DEF LoginsOf!Adapters, LoginsOf!GoogleProvider, LoginsOf!GitHubProvider,
     LoginsOf!AppleProvider, LoginsOf!CustomProvider

\* What a profile makes of a call.
LoginTold(P, I, k, a) ==
  /\ a \in LoginCall(P, I) /\ a.pc = "lookup" /\ a.idp = k.idp /\ a.who = k.who
  /\ a.user = k.user /\ a.fresh = k.fresh /\ a.knew = k.knew
  /\ a.subject \in {0, SubjectOf(P, k.idp, k.who)}
  /\ a.verified /\ a.idp \in {"google", "github", "apple", "custom", "oidc"} => a.mail = "verified"

\* The profile an adapter makes of an answer.
LEMMA ProfileMade ==
  ASSUME NEW C, NEW P \in Nat, NEW I, NEW n, NEW u, NEW r, NEW k \in LoginCall(P, I),
         k.who # 0, k.idp # "oidc", NEW h, NEW m \in {"none", "plain", "verified"},
         NEW b, NEW a, a = LoginsOf(C, P, I, n, u, r)!Profile(k, h, m, b)
  PROVE  LoginTold(P, I, k, a)
<1> DEFINE rule == LoginsOf(C, P, I, n, u, r)!Adapters[k.idp].verified
           mail == IF rule = "listed" /\ ~b /\ m = "verified" THEN "plain" ELSE m
           s == IF h THEN SubjectOf(P, k.idp, k.who) ELSE 0
           v == \/ rule = "always"
                \/ rule = "present" /\ mail # "none"
                \/ rule \in {"told", "listed"} /\ mail = "verified"
           o == [k EXCEPT !.pc = "lookup", !.subject = s, !.mail = mail, !.verified = v]
<1>1. a = o BY SubjectIs DEF LoginsOf!Profile
<1>2. k.who \in 1..P BY DEF LoginCall
<1>3. s \in 0..P /\ s \in {0, SubjectOf(P, k.idp, k.who)} BY <1>2, SubjectIn
<1>4. mail \in {"none", "plain", "verified"} OBVIOUS
<1>5. v \in BOOLEAN OBVIOUS
<1>6. v /\ k.idp \in {"google", "github", "apple", "custom", "oidc"} => mail = "verified"
  <2> HIDE DEF mail
  <2>1. k.idp \in {"google", "github", "apple", "custom"} => rule \in {"told", "listed"}
        BY AdapterRules
  <2> HIDE DEF rule
  <2> QED BY <2>1 
<1> HIDE DEF rule, mail, s, v
<1>7. /\ o \in LoginCall(P, I) /\ o.pc = "lookup" /\ o.idp = k.idp /\ o.who = k.who
      /\ o.user = k.user /\ o.fresh = k.fresh /\ o.knew = k.knew
      /\ o.subject = s /\ o.verified = v /\ o.mail = mail
      BY <1>3, <1>4, <1>5 DEF LoginCall
<1> HIDE DEF o
<1> QED BY <1>1, <1>3, <1>6, <1>7 DEF LoginTold

\* The profile comes with an answer, or the call ends.
LEMMA LoginProfile ==
  ASSUME NEW C, NEW P \in Nat, NEW I, NEW n \in Nat, NEW u \in Nat, NEW r \in Nat,
         LoginInv(C, P, I, n, u, r), NEW c \in C, LoginsOf(C, P, I, n, u, r)!GetProfile(c)
  PROVE  LoginInv(C, P, I, n, u, r)'
<1> DEFINE k == call[c]
<1>1. /\ k \in LoginCall(P, I) /\ LoginFits(P, I, k, known, Len(users)) BY LoginAtWork
<1>2. k.pc = "profile" /\ UNCHANGED <<users, jwks, newest, begun, unlinks, known, mixed>>
      BY DEF LoginsOf!GetProfile
<1>3. k.who # 0 /\ k.idp # "oidc" BY <1>1, <1>2 DEF LoginFits
<1>4. CASE LoginsOf(C, P, I, n, u, r)!Throw(c) BY <1>2, <1>4, LoginThrown
<1>5. ASSUME NEW h, NEW b, NEW m \in {"none", "plain", "verified"},
             LoginsOf(C, P, I, n, u, r)!Set(c, LoginsOf(C, P, I, n, u, r)!Profile(k, h, m, b))
      PROVE  LoginInv(C, P, I, n, u, r)'
  <2> DEFINE o == LoginsOf(C, P, I, n, u, r)!Profile(k, h, m, b)
  <2>1. call' = [call EXCEPT ![c] = o] BY <1>5 DEF LoginsOf!Set
  <2>2. /\ o \in LoginCall(P, I) /\ o.pc = "lookup" /\ o.idp = k.idp /\ o.who = k.who
        /\ o.user = k.user /\ o.fresh = k.fresh /\ o.knew = k.knew
        /\ o.subject \in {0, SubjectOf(P, k.idp, k.who)}
        /\ o.verified /\ o.idp \in {"google", "github", "apple", "custom", "oidc"} =>
             o.mail = "verified"
    <3>1. o = LoginsOf(C, P, I, n, u, r)!Profile(k, h, m, b) OBVIOUS
    <3> HIDE DEF o, k
    <3>2. LoginTold(P, I, k, o) BY <3>1, <1>1, <1>3, ProfileMade
    <3> QED BY <3>2 DEF LoginTold
  <2> HIDE DEF o
  <2>3. k.pc \in {"profile", "verify"} /\ (o.idp = "oidc" => o.sound) BY <1>2, <1>3, <2>2
  <2> QED BY <1>2, <2>1, <2>2, <2>3, LoginClaims
<1>6. "none" \in {"none", "plain", "verified"} OBVIOUS
<1>7. LoginsOf(C, P, I, n, u, r)!Mail = {"none", "plain", "verified"} BY DEF LoginsOf!Mail
<1> QED BY <1>4, <1>5, <1>6, <1>7 DEF LoginsOf!GetProfile

\* The key a token is checked with is one that is published.
LEMMA PublishedKey ==
  ASSUME NEW C, NEW P, NEW I, NEW n, NEW u, NEW r, LoginInv(C, P, I, n, u, r), NEW k, NEW e,
         LoginsOf(C, P, I, n, u, r)!Accepted(k, jwks, e)
  PROVE  k.sound /\ k.token \in {jwks[m] : m \in DOMAIN jwks}
<1>1. 1 \in DOMAIN jwks BY DEF LoginInv, LoginType
<1> QED BY <1>1 DEF LoginsOf!Accepted, LoginsOf!KeyFor

\* An id_token is verified before its claims are used.
LEMMA LoginVerifies ==
  ASSUME NEW C, NEW P \in Nat, NEW I, NEW n \in Nat, NEW u \in Nat, NEW r \in Nat,
         LoginInv(C, P, I, n, u, r), NEW c \in C, LoginsOf(C, P, I, n, u, r)!VerifyIdToken(c)
  PROVE  LoginInv(C, P, I, n, u, r)'
<1> DEFINE k == call[c]
<1>1. k \in LoginCall(P, I) /\ LoginFits(P, I, k, known, Len(users)) BY LoginAtWork
<1>2. k.pc = "verify" /\ UNCHANGED <<users, jwks, newest, begun, unlinks, known, mixed>>
      BY DEF LoginsOf!VerifyIdToken
<1>3. CASE LoginsOf(C, P, I, n, u, r)!Throw(c) BY <1>2, <1>3, LoginThrown
<1> DEFINE s == k.sound /\ k.token \in {jwks[m] : m \in DOMAIN jwks}
           o(m) == [k EXCEPT !.pc = "lookup", !.subject = SubjectOf(P, k.idp, k.who), !.mail = m,
                             !.verified = m = "verified", !.token = 0, !.kid = FALSE, !.sound = s]
<1>4. ASSUME NEW e \in BOOLEAN, NEW m \in {"none", "plain", "verified"},
             LoginsOf(C, P, I, n, u, r)!Accepted(k, jwks, e),
               LoginsOf(C, P, I, n, u, r)!Set(c, o(m))
      PROVE  LoginInv(C, P, I, n, u, r)'
  <2> DEFINE v == m = "verified"
             f == FALSE
             q == SubjectOf(P, k.idp, k.who)
             a == [k EXCEPT !.pc = "lookup", !.subject = q, !.mail = m, !.verified = v,
                            !.token = 0, !.kid = f, !.sound = s]
  <2>1. s BY <1>4, PublishedKey
  <2>2. s \in BOOLEAN /\ v \in BOOLEAN /\ f \in BOOLEAN /\ (v => m = "verified") OBVIOUS
  <2>3. q \in 0..P
    <3>1. k.who \in 1..P BY <1>1, <1>2 DEF LoginFits, LoginCall
    <3> QED BY <3>1, SubjectIn
  <2>4. call' = [call EXCEPT ![c] = a] BY <1>4 DEF LoginsOf!Set
  <2> HIDE DEF k, s, v, f, q
  <2>5. a \in LoginCall(P, I) BY <1>1, <2>2, <2>3 DEF LoginCall
  <2>6. /\ a.pc = "lookup" /\ a.idp = k.idp /\ a.who = k.who /\ a.user = k.user /\ a.fresh = k.fresh
        /\ a.knew = k.knew /\ a.subject = q /\ a.mail = m /\ a.verified = v /\ a.sound = s
        BY <1>1 DEF LoginCall
  <2> HIDE DEF a
  <2>7. a.subject \in {0, SubjectOf(P, k.idp, k.who)} BY <2>6 DEF q
  <2>8. k.pc \in {"profile", "verify"} /\ (a.idp = "oidc" => a.sound) BY <1>2, <2>1, <2>6
  <2>9. a.verified /\ a.idp \in {"google", "github", "apple", "custom", "oidc"} =>
          a.mail = "verified"
        BY <2>2, <2>6
  <2> QED BY <1>2, <2>4, <2>5, <2>6, <2>7, <2>8, <2>9, LoginClaims DEF k
<1>5. LoginsOf(C, P, I, n, u, r)!Mail = {"none", "plain", "verified"} BY DEF LoginsOf!Mail
<1>6. LoginsOf(C, P, I, n, u, r)!Throw(c) \/ \E e \in BOOLEAN,
        m \in LoginsOf(C, P, I, n, u, r)!Mail : LoginsOf(C, P, I, n, u, r)!Accepted(k, jwks, e)
          /\ LoginsOf(C, P, I, n, u, r)!Set(c, o(m))
      BY SubjectIs DEF LoginsOf!VerifyIdToken
<1> HIDE DEF o
<1> QED BY <1>3, <1>4, <1>5, <1>6

\* The caller takes the answer.
LEMMA LoginReturns ==
  ASSUME NEW C, NEW P \in Nat, NEW I, NEW n \in Nat, NEW u \in Nat, NEW r \in Nat,
         LoginInv(C, P, I, n, u, r), NEW c \in C, LoginsOf(C, P, I, n, u, r)!Return(c)
  PROVE  LoginInv(C, P, I, n, u, r)'
  BY LoginThrown DEF LoginsOf!Return

\* The provider's keys rotate.
LEMMA LoginRotates ==
  ASSUME NEW C, NEW P \in Nat, NEW I, NEW n \in Nat, NEW u \in Nat, NEW r \in Nat,
         LoginInv(C, P, I, n, u, r), LoginsOf(C, P, I, n, u, r)!Rotate
  PROVE  LoginInv(C, P, I, n, u, r)'
<1>1. UNCHANGED <<users, call, begun, unlinks, known, mixed>> BY DEF LoginsOf!Rotate
<1>2. newest \in 1 .. r + 1 /\ newest <= r /\ newest' = newest + 1
      BY DEF LoginsOf!Rotate, LoginInv, LoginType
<1>3. newest' \in 1 .. r + 1 /\ newest \in Nat BY <1>2
<1>4. jwks' \in Seq(Nat) /\ Len(jwks') # 0
  <2>1. \A a, b \in Nat : /\ <<a>> \in Seq(Nat) /\ Len(<<a>>) # 0
                          /\ <<a, b>> \in Seq(Nat) /\ Len(<<a, b>>) # 0
        OBVIOUS
  <2>2. newest + 1 \in Nat BY <1>3
  <2> QED BY <2>1, <2>2, <1>3 DEF LoginsOf!Rotate
<1>5. LoginType(C, P, I, n, u, r)' BY <1>1, <1>3, <1>4 DEF LoginInv, LoginType
<1>6. LoginCalls(C, P, I)' BY <1>1 DEF LoginInv, LoginCalls
<1>7. LoginKnown' /\ LoginInside' BY <1>1 DEF LoginInv, LoginKnown, LoginInside
<1>8. LoginOwned(C, P)' BY <1>1 DEF LoginInv, LoginOwned, LoginOwner
<1> QED BY <1>5, <1>6, <1>7, <1>8 DEF LoginInv

\* A query that finds a user for an identity finds the identity or has crossed two of them.
LEMMA MatchedUser ==
  ASSUME NEW C, NEW P, NEW I, NEW n, NEW u, NEW r, NEW v, NEW i,
         LoginsOf(C, P, I, n, u, r)!Matches(v, i)
  PROVE  i \in users[v].identities \/ LoginsOf(C, P, I, n, u, r)!Crossed(v, i)
  BY DEF LoginsOf!Matches, LoginsOf!Crossed, LoginsOf!Exact

\* The user is looked for.
LEMMA LoginLooksUp ==
  ASSUME NEW C, NEW P \in Nat, NEW I, NEW n \in Nat, NEW u \in Nat, NEW r \in Nat,
         LoginInv(C, P, I, n, u, r), NEW c \in C, LoginsOf(C, P, I, n, u, r)!Lookup(c)
  PROVE  LoginInv(C, P, I, n, u, r)'
<1> DEFINE k == call[c]
           i == <<k.idp, k.subject>>
           hits == {v \in DOMAIN users : LoginsOf(C, P, I, n, u, r)!Matches(v, i)}
<1>1. /\ k \in LoginCall(P, I) /\ LoginFits(P, I, k, known, Len(users)) /\ Len(users) \in Nat
      /\ begun \in 0..n /\ \A j \in known : \E v \in 1..Len(users) : j \in users[v].identities
      BY LoginAtWork
<1>2. DOMAIN users = 1..Len(users) BY DEF LoginInv, LoginType
<1>3. k.pc = "lookup" /\ UNCHANGED <<users, jwks, newest, begun, unlinks>> BY DEF LoginsOf!Lookup
<1>4. LoginsOf(C, P, I, n, u, r)!Identity(k) = i BY DEF LoginsOf!Identity
<1>5. \/ LoginsOf(C, P, I, n, u, r)!Throw(c) /\ UNCHANGED <<known, mixed>>
      \/ \E v \in hits :
           /\ mixed' = mixed \cup (IF LoginsOf(C, P, I, n, u, r)!Crossed(v, i) THEN {v} ELSE {})
           /\ IF k.idp # "oidc" THEN LoginsOf(C, P, I, n, u, r)!Set(c, [k EXCEPT !.pc = "link", !.user = v]) /\ UNCHANGED known
                                ELSE LoginsOf(C, P, I, n, u, r)!Finish(c, [k EXCEPT !.user = v])
      \/ /\ hits = {}
         /\ \E v \in 0 .. Len(users), auto \in BOOLEAN :
              /\ mixed' = IF v = 0 THEN mixed ELSE mixed \cup {v}
              /\ IF v # 0 THEN LoginsOf(C, P, I, n, u, r)!Set(c, [k EXCEPT !.pc = "link", !.user = v])
                 ELSE \/ LoginsOf(C, P, I, n, u, r)!Set(c, [k EXCEPT !.pc = "create"])
                      \/ LoginsOf(C, P, I, n, u, r)!Throw(c)
         /\ UNCHANGED known
      BY <1>4 DEF LoginsOf!Lookup, LoginsOf!Callback
<1>6. CASE LoginsOf(C, P, I, n, u, r)!Throw(c) /\ UNCHANGED <<known, mixed>>
      BY <1>3, <1>6, LoginThrown
<1>7. ASSUME NEW v \in 1..Len(users),
             LoginsOf(C, P, I, n, u, r)!Set(c, [k EXCEPT !.pc = "link", !.user = v]),
               UNCHANGED known,
             mixed \subseteq mixed', v \in mixed' \/ i \in users[v].identities
      PROVE  LoginInv(C, P, I, n, u, r)'
  <2> DEFINE o == [k EXCEPT !.pc = "link", !.user = v]
  <2>1. call' = [call EXCEPT ![c] = o] BY <1>7 DEF LoginsOf!Set
  <2>2. v \in Nat /\ v <= Len(users) /\ v # 0 BY <1>1
  <2> HIDE DEF k
  <2>3. /\ o \in LoginCall(P, I) /\ o.pc = "link" /\ o.user = v /\ o.idp = k.idp /\ o.who = k.who
        /\ o.subject = k.subject /\ o.fresh = k.fresh /\ o.knew = k.knew /\ o.verified = k.verified
        /\ o.mail = k.mail /\ o.sound = k.sound
        BY <1>1, <2>2 DEF LoginCall
  <2> HIDE DEF o
  <2>4. LoginFits(P, I, o, known', Len(users)) BY <1>1, <1>3, <1>7, <2>2, <2>3 DEF LoginFits
  <2>5. o.user \in mixed' \/ <<o.idp, o.subject>> \in users[o.user].identities BY <1>7, <2>3 DEF i
  <2>6. /\ begun' \in 0..n /\ known \subseteq known'
        /\ \A j \in known' : \E w \in 1..Len(users) : j \in users[w].identities
        BY <1>1, <1>3, <1>7
  <2> QED BY <1>3, <1>7, <2>1, <2>3, <2>4, <2>5, <2>6, LoginMoves
<1>8. ASSUME NEW v \in hits, mixed' = mixed \cup (IF LoginsOf(C, P, I, n, u, r)!Crossed(v, i) THEN {v} ELSE {}),
             k.idp # "oidc", LoginsOf(C, P, I, n, u, r)!Set(c, [k EXCEPT !.pc = "link", !.user = v]), UNCHANGED known
      PROVE  LoginInv(C, P, I, n, u, r)'
  <2>1. v \in 1..Len(users) /\ LoginsOf(C, P, I, n, u, r)!Matches(v, i) BY <1>2
  <2>2. v \in mixed' \/ i \in users[v].identities
    <3> HIDE DEF i, k
    <3> QED BY <1>8, <2>1, MatchedUser
  <2>3. mixed \subseteq mixed' BY <1>8
  <2> QED BY <1>7, <1>8, <2>1, <2>2, <2>3
<1>9. ASSUME NEW v \in hits, mixed \subseteq mixed',
             LoginsOf(C, P, I, n, u, r)!Finish(c, [k EXCEPT !.user = v])
      PROVE  LoginInv(C, P, I, n, u, r)'
  <2> DEFINE a == [k EXCEPT !.user = v]
             o == [a EXCEPT !.pc = "done"]
  <2>1. v \in 1..Len(users) /\ v \in Nat /\ v <= Len(users) BY <1>1, <1>2
  <2>2. /\ call' = [call EXCEPT ![c] = o]
        /\ known' = known \cup (IF <<a.idp, a.subject>> \in users'[a.user].identities
                                THEN {<<a.idp, a.subject>>} ELSE {})
        BY <1>9 DEF LoginsOf!Finish, LoginsOf!Set, LoginsOf!Identity
  <2> HIDE DEF k
  <2>3. /\ a \in LoginCall(P, I) /\ a.user = v /\ a.idp = k.idp /\ a.who = k.who
        /\ a.subject = k.subject /\ a.fresh = k.fresh /\ a.knew = k.knew /\ a.verified = k.verified
        /\ a.mail = k.mail /\ a.sound = k.sound
        BY <1>1, <2>1 DEF LoginCall
  <2> HIDE DEF a
  <2>4. /\ o \in LoginCall(P, I) /\ o.pc = "done" /\ o.user = v /\ o.idp = a.idp /\ o.who = a.who
        /\ o.subject = a.subject /\ o.fresh = a.fresh /\ o.knew = a.knew /\ o.verified = a.verified
        /\ o.mail = a.mail /\ o.sound = a.sound
        BY <2>3 DEF LoginCall
  <2> HIDE DEF o
  <2>5. known \subseteq known' /\ \A j \in known' : \E w \in 1..Len(users) : j \in users[w].identities
        BY <1>1, <1>3, <2>1, <2>2, <2>3
  <2>6. LoginFits(P, I, o, known', Len(users)) BY <1>1, <1>3, <2>1, <2>3, <2>4, <2>5 DEF LoginFits
  <2>7. begun' \in 0..n /\ o.pc # "link" BY <1>1, <1>3, <2>4
  <2> QED BY <1>3, <1>9, <2>2, <2>4, <2>5, <2>6, <2>7, LoginMoves
<1>10. ASSUME hits = {}, LoginsOf(C, P, I, n, u, r)!Set(c, [k EXCEPT !.pc = "create"]),
              UNCHANGED <<known, mixed>>
       PROVE  LoginInv(C, P, I, n, u, r)'
  <2> DEFINE o == [k EXCEPT !.pc = "create"]
  <2>1. call' = [call EXCEPT ![c] = o] BY <1>10 DEF LoginsOf!Set
  <2>2. k.subject # 0 => ~k.knew
    <3> SUFFICES ASSUME k.subject # 0, k.knew PROVE FALSE OBVIOUS
    <3>1. i \in known BY <1>1 DEF LoginFits
    <3>2. PICK v \in 1..Len(users) : i \in users[v].identities BY <1>1, <3>1
    <3>3. LoginsOf(C, P, I, n, u, r)!Matches(v, i) BY <3>2 DEF LoginsOf!Matches
    <3> QED BY <3>3, <1>2, <1>10
  <2> HIDE DEF k
  <2>3. /\ o \in LoginCall(P, I) /\ o.pc = "create" /\ o.user = k.user /\ o.idp = k.idp
        /\ o.who = k.who /\ o.subject = k.subject /\ o.fresh = k.fresh /\ o.knew = k.knew
        /\ o.verified = k.verified /\ o.mail = k.mail /\ o.sound = k.sound
        BY <1>1 DEF LoginCall
  <2> HIDE DEF o
  <2>4. LoginFits(P, I, o, known', Len(users)) BY <1>1, <1>3, <1>10, <2>2, <2>3 DEF LoginFits
  <2>5. /\ begun' \in 0..n /\ known \subseteq known' /\ mixed \subseteq mixed' /\ o.pc # "link"
        /\ \A j \in known' : \E w \in 1..Len(users) : j \in users[w].identities
        BY <1>1, <1>3, <1>10, <2>3
  <2> QED BY <1>3, <2>1, <2>3, <2>4, <2>5, LoginMoves
<1>11. ASSUME NEW v \in hits,
              mixed' = mixed \cup (IF LoginsOf(C, P, I, n, u, r)!Crossed(v, i) THEN {v} ELSE {}),
              IF k.idp # "oidc" THEN LoginsOf(C, P, I, n, u, r)!Set(c, [k EXCEPT !.pc = "link", !.user = v]) /\ UNCHANGED known
                                ELSE LoginsOf(C, P, I, n, u, r)!Finish(c, [k EXCEPT !.user = v])
       PROVE  LoginInv(C, P, I, n, u, r)'
  <2>1. mixed \subseteq mixed' BY <1>11
  <2> QED BY <1>8, <1>9, <1>11, <2>1
<1>12. ASSUME hits = {}, NEW v \in 0 .. Len(users),
              mixed' = IF v = 0 THEN mixed ELSE mixed \cup {v},
              IF v # 0 THEN LoginsOf(C, P, I, n, u, r)!Set(c, [k EXCEPT !.pc = "link", !.user = v])
              ELSE LoginsOf(C, P, I, n, u, r)!Set(c, [k EXCEPT !.pc = "create"])
                \/ LoginsOf(C, P, I, n, u, r)!Throw(c),
              UNCHANGED known
       PROVE  LoginInv(C, P, I, n, u, r)'
  <2>1. CASE v = 0
    <3>1. UNCHANGED <<known, mixed>> BY <1>12, <2>1
    <3> QED BY <1>6, <1>10, <1>12, <2>1, <3>1
  <2>2. CASE v # 0
    <3>1. v \in 1..Len(users) /\ mixed \subseteq mixed' /\ v \in mixed' BY <1>1, <1>12, <2>2
    <3> QED BY <1>7, <1>12, <2>2, <3>1
  <2> QED BY <2>1, <2>2
<1> HIDE DEF hits, k, i
<1> QED BY <1>5, <1>6, <1>11, <1>12

\* A user is made, with the identity or with a link under way to it.
LEMMA LoginGrows ==
  ASSUME NEW C, NEW P \in Nat, NEW I, NEW n \in Nat, NEW u \in Nat, NEW r \in Nat,
         LoginInv(C, P, I, n, u, r), NEW c \in C, NEW o \in LoginCall(P, I),
         call' = [call EXCEPT ![c] = o], NEW new \in LoginUser(P, I), users' = Append(users, new),
         LoginFits(P, I, o, known', Len(users) + 1),
           UNCHANGED <<jwks, newest, begun, unlinks, mixed>>,
         known \subseteq known', \A i \in known' \ known : i \in new.identities,
         NEW w \in 1..P, new.email \in {0, w},
         \A i \in new.identities : i[2] \in {0, SubjectOf(P, i[1], w)},
         o.pc = "link" => o.user = Len(users) + 1 /\ o.subject \in {0, SubjectOf(P, o.idp, w)},
         new.by = "oidc" => new.identities # {}
  PROVE  LoginInv(C, P, I, n, u, r)'
<1>1. /\ users \in Seq(LoginUser(P, I)) /\ Len(users) \in Nat /\ call \in [C -> LoginCall(P, I)]
      BY DEF LoginInv, LoginType
<1>2. call' \in [C -> LoginCall(P, I)] /\ call'[c] = o /\ \A d \in C \ {c} : call'[d] = call[d]
      BY <1>1
<1>3. /\ users' \in Seq(LoginUser(P, I)) /\ Len(users') = Len(users) + 1
      /\ \A v \in 1..Len(users) : users'[v] = users[v]
      /\ users'[Len(users) + 1] = new
      BY <1>1
<1>4. LoginType(C, P, I, n, u, r)' BY <1>2, <1>3 DEF LoginInv, LoginType
<1>5. LoginCalls(C, P, I)'
  <2>1. \A d \in C \ {c} : LoginFits(P, I, call[d], known', Len(users) + 1)
    <3> SUFFICES ASSUME NEW d \in C \ {c} PROVE LoginFits(P, I, call[d], known', Len(users) + 1)
        OBVIOUS
    <3>1. call[d] \in LoginCall(P, I) /\ LoginFits(P, I, call[d], known, Len(users))
          BY <1>1 DEF LoginInv, LoginCalls
    <3>2. Len(users) + 1 \in Nat /\ Len(users) <= Len(users) + 1 BY <1>1
    <3> QED BY <1>1, <3>1, <3>2, GoesOnFitting
  <2>2. \A d \in C : LoginFits(P, I, call'[d], known', Len(users) + 1) BY <1>2, <2>1
  <2> QED BY <2>2, <1>3 DEF LoginCalls
<1>6. LoginKnown'
  <2> SUFFICES ASSUME NEW i \in known'
      PROVE \E v \in 1 .. Len(users) + 1 : i \in users'[v].identities
      BY <1>3 DEF LoginKnown
  <2>1. CASE i \in known
    <3>1. PICK v \in 1..Len(users) : i \in users[v].identities BY <2>1 DEF LoginInv, LoginKnown
    <3>2. v \in 1 .. Len(users) + 1 BY <1>1
    <3> QED BY <3>1, <3>2, <1>3
  <2>2. CASE i \notin known
    <3>1. i \in users'[Len(users) + 1].identities BY <2>2, <1>3
    <3>2. Len(users) + 1 \in 1 .. Len(users) + 1 BY <1>1
    <3> QED BY <3>1, <3>2
  <2> QED BY <2>1, <2>2
<1>7. LoginOwned(C, P)'
  <2> SUFFICES ASSUME NEW v \in 1 .. Len(users) + 1, v \notin mixed
               PROVE  \E a \in 1..P : LoginOwner(C, P, v, a)'
      BY <1>3 DEF LoginOwned
  <2>1. CASE v = Len(users) + 1
    <3>1. ASSUME NEW d \in C, call'[d].pc = "link", call'[d].user = v
          PROVE  call'[d].subject \in {0, SubjectOf(P, call'[d].idp, w)}
      <4>1. CASE d = c BY <3>1, <4>1, <1>2
      <4>2. CASE d # c
        <5>1. call[d] \in LoginCall(P, I) /\ LoginFits(P, I, call[d], known, Len(users))
              BY <1>1 DEF LoginInv, LoginCalls
        <5>2. call[d].user \in Nat /\ call[d].user <= Len(users) BY <5>1 DEF LoginCall, LoginFits
        <5> QED BY <2>1, <3>1, <4>2, <5>2, <1>1, <1>2
      <4> QED BY <4>1, <4>2
    <3>2. LoginOwner(C, P, v, w)' BY <2>1, <3>1, <1>3 DEF LoginOwner
    <3> QED BY <3>2
  <2>2. CASE v # Len(users) + 1
    <3>1. v \in 1..Len(users) BY <2>2, <1>1
    <3>2. PICK a \in 1..P : LoginOwner(C, P, v, a) BY <3>1 DEF LoginInv, LoginOwned
    <3>3. ASSUME NEW d \in C, call'[d].pc = "link", call'[d].user = v
          PROVE  call'[d].subject \in {0, SubjectOf(P, call'[d].idp, a)}
      <4>1. CASE d = c BY <2>2, <3>3, <4>1, <1>2
      <4>2. CASE d # c BY <3>2, <3>3, <4>2, <1>2 DEF LoginOwner
      <4> QED BY <4>1, <4>2
    <3>4. LoginOwner(C, P, v, a)' BY <3>1, <3>2, <3>3, <1>3 DEF LoginOwner
    <3> QED BY <3>4
  <2> QED BY <2>1, <2>2
<1>8. LoginInside'
  <2> SUFFICES ASSUME NEW v \in 1 .. Len(users) + 1, users'[v].by = "oidc", unlinks = 0
               PROVE  users'[v].identities # {}
      BY <1>3 DEF LoginInside
  <2>1. CASE v = Len(users) + 1 BY <2>1, <1>3
  <2>2. CASE v # Len(users) + 1
    <3>1. v \in 1..Len(users) BY <2>2, <1>1
    <3> QED BY <3>1, <1>3 DEF LoginInv, LoginInside
  <2> QED BY <2>1, <2>2
<1> QED BY <1>4, <1>5, <1>6, <1>7, <1>8 DEF LoginInv

\* A user is made, or the call ends although the user exists.
LEMMA LoginCreates ==
  ASSUME NEW C, NEW P \in Nat, NEW I, NEW n \in Nat, NEW u \in Nat, NEW r \in Nat,
         LoginInv(C, P, I, n, u, r), NEW c \in C, LoginsOf(C, P, I, n, u, r)!Create(c)
  PROVE  LoginInv(C, P, I, n, u, r)'
<1> DEFINE k == call[c]
           i == <<k.idp, k.subject>>
           email == IF k.mail = "none" THEN 0 ELSE k.who
           ids == IF k.idp # "oidc" THEN {} ELSE {i}
           new == [by |-> k.idp, email |-> email, identities |-> ids]
           t == TRUE
           built == [k EXCEPT !.user = Len(users) + 1, !.fresh = t]
<1>1. /\ k \in LoginCall(P, I) /\ LoginFits(P, I, k, known, Len(users)) /\ Len(users) \in Nat
      BY LoginAtWork
<1>2. k.pc = "create" /\ UNCHANGED <<jwks, newest, begun, unlinks, mixed>> BY DEF LoginsOf!Create
<1>3. \/ LoginsOf(C, P, I, n, u, r)!Throw(c) /\ UNCHANGED <<users, known>>
      \/ /\ users' = Append(users, new)
         /\ \/ LoginsOf(C, P, I, n, u, r)!Throw(c) /\ UNCHANGED known
            \/ k.idp # "oidc" /\ LoginsOf(C, P, I, n, u, r)!Set(c, [built EXCEPT !.pc = "link"])
                 /\ UNCHANGED known
            \/ k.idp = "oidc" /\ LoginsOf(C, P, I, n, u, r)!Finish(c, built)
      BY DEF LoginsOf!Create, LoginsOf!Callback, LoginsOf!FirstIdentities, LoginsOf!Identity
<1>4. /\ k.who \in 1..P /\ k.idp \in I /\ k.subject \in 0..P
      /\ k.subject \in {0, SubjectOf(P, k.idp, k.who)} /\ (k.subject # 0 => ~k.knew)
      BY <1>1, <1>2 DEF LoginFits, LoginCall
<1>5. email \in 0..P /\ email \in {0, k.who} BY <1>4
<1>6. /\ ids \in SUBSET (I \X (0..P)) /\ (k.idp = "oidc" => ids = {i})
      /\ \A j \in ids : j[2] \in {0, SubjectOf(P, j[1], k.who)}
      BY <1>4
<1> HIDE DEF email, ids
<1>7. /\ new \in LoginUser(P, I) /\ new.by = k.idp /\ new.email = email /\ new.identities = ids
      BY <1>4, <1>5, <1>6 DEF LoginUser
<1>8. t \in BOOLEAN /\ t OBVIOUS
<1> HIDE DEF new, t, k
<1>9. /\ built \in LoginCall(P, I) /\ built.user = Len(users) + 1 /\ built.fresh = t
      /\ built.pc = k.pc /\ built.idp = k.idp /\ built.who = k.who /\ built.subject = k.subject
      /\ built.knew = k.knew /\ built.verified = k.verified /\ built.mail = k.mail
      /\ built.sound = k.sound
  <2> DEFINE l == Len(users) + 1
  <2>1. l \in Nat BY <1>1
  <2> HIDE DEF l
  <2>2. built = [k EXCEPT !.user = l, !.fresh = t] BY DEF l
  <2>3. built \in LoginCall(P, I) BY <1>1, <1>8, <2>1, <2>2 DEF LoginCall
  <2>4. built.user = l /\ built.fresh = t BY <1>1, <2>2 DEF LoginCall
  <2>5. /\ built.pc = k.pc /\ built.idp = k.idp /\ built.who = k.who /\ built.subject = k.subject
        /\ built.knew = k.knew /\ built.verified = k.verified /\ built.mail = k.mail
        /\ built.sound = k.sound
        BY <1>1, <2>2 DEF LoginCall
  <2> QED BY <2>3, <2>4, <2>5 DEF l
<1> HIDE DEF built
<1>10. \A j \in new.identities : j[2] \in {0, SubjectOf(P, j[1], k.who)} BY <1>6, <1>7
<1>11. new.email \in {0, k.who} /\ (new.by = "oidc" => new.identities # {}) BY <1>5, <1>6, <1>7
<1>12. CASE LoginsOf(C, P, I, n, u, r)!Throw(c) /\ UNCHANGED <<users, known>>
       BY <1>2, <1>12, LoginThrown
<1>13. CASE users' = Append(users, new) /\ LoginsOf(C, P, I, n, u, r)!Throw(c) /\ UNCHANGED known
  <2> DEFINE o == LoginsOf(C, P, I, n, u, r)!Idle
  <2>1. Len(users) + 1 \in Nat BY <1>1
  <2>2. o \in LoginCall(P, I) /\ o.pc = "idle" BY IdleLogin
  <2>3. LoginFits(P, I, o, known, Len(users) + 1) BY <2>1, IdleLogin
  <2>4. call' = [call EXCEPT ![c] = o] BY <1>13 DEF LoginsOf!Throw, LoginsOf!Set
  <2> HIDE DEF o
  <2>5. /\ LoginFits(P, I, o, known', Len(users) + 1) /\ known \subseteq known' /\ o.pc # "link"
        /\ \A j \in known' \ known : j \in new.identities
        BY <1>13, <2>2, <2>3
  <2> QED BY <1>2, <1>4, <1>7, <1>10, <1>11, <1>13, <2>2, <2>4, <2>5, LoginGrows
<1>14. ASSUME NEW o, NEW x \in {"link", "done"}, o = [built EXCEPT !.pc = x],
              known \subseteq known'
       PROVE  /\ o \in LoginCall(P, I) /\ o.pc = x /\ o.user = Len(users) + 1
              /\ o.subject = k.subject /\ o.idp = k.idp
              /\ LoginFits(P, I, o, known', Len(users) + 1)
  <2>1. /\ o \in LoginCall(P, I) /\ o.pc = x /\ o.user = built.user /\ o.fresh = built.fresh
        /\ o.idp = built.idp /\ o.who = built.who /\ o.subject = built.subject
        /\ o.knew = built.knew /\ o.verified = built.verified /\ o.mail = built.mail
        /\ o.sound = built.sound
        BY <1>9, <1>14 DEF LoginCall
  <2>2. Len(users) + 1 # 0 /\ Len(users) + 1 <= Len(users) + 1 BY <1>1
  <2>3. LoginFits(P, I, o, known', Len(users) + 1)
    <3>1. o.fresh = t /\ o.knew = k.knew /\ o.sound = k.sound /\ o.idp = k.idp /\ o.who = k.who
          BY <1>9, <2>1
    <3>2. o.verified = k.verified /\ o.mail = k.mail /\ o.subject = k.subject
          /\ o.user = Len(users) + 1
          BY <1>9, <2>1
    <3> QED BY <1>1, <1>2, <1>4, <1>14, <2>1, <2>2, <3>1, <3>2 DEF LoginFits
  <2> QED BY <1>9, <2>1, <2>3
<1>15. CASE /\ users' = Append(users, new) /\ k.idp # "oidc"
            /\ LoginsOf(C, P, I, n, u, r)!Set(c, [built EXCEPT !.pc = "link"]) /\ UNCHANGED known
  <2> DEFINE o == [built EXCEPT !.pc = "link"]
  <2>1. call' = [call EXCEPT ![c] = o] BY <1>15 DEF LoginsOf!Set, k
  <2>2. known \subseteq known' /\ \A j \in known' \ known : j \in new.identities BY <1>15
  <2>3. /\ o \in LoginCall(P, I) /\ o.pc = "link" /\ o.user = Len(users) + 1
        /\ o.subject = k.subject /\ o.idp = k.idp /\ LoginFits(P, I, o, known', Len(users) + 1)
        BY <1>14, <2>2
  <2> HIDE DEF o
  <2>4. o.subject \in {0, SubjectOf(P, o.idp, k.who)} BY <1>4, <2>3
  <2> QED BY <1>2, <1>4, <1>7, <1>10, <1>11, <1>15, <2>1, <2>2, <2>3, <2>4, LoginGrows
<1>16. CASE users' = Append(users, new) /\ k.idp = "oidc"
            /\ LoginsOf(C, P, I, n, u, r)!Finish(c, built)
  <2> DEFINE o == [built EXCEPT !.pc = "done"]
  <2>1. /\ call' = [call EXCEPT ![c] = o]
        /\ known' = known \cup (IF <<built.idp, built.subject>> \in users'[built.user].identities
                                THEN {<<built.idp, built.subject>>} ELSE {})
        BY <1>16 DEF LoginsOf!Finish, LoginsOf!Set, LoginsOf!Identity
  <2>2. users'[Len(users) + 1] = new
    <3>1. users \in Seq(LoginUser(P, I)) BY DEF LoginInv, LoginType
    <3> QED BY <3>1, <1>16
  <2>3. known \subseteq known' /\ \A j \in known' \ known : j \in new.identities
        BY <1>9, <2>1, <2>2
  <2>4. /\ o \in LoginCall(P, I) /\ o.pc = "done" /\ LoginFits(P, I, o, known', Len(users) + 1)
        BY <1>14, <2>3
  <2> HIDE DEF o
  <2>5. o.pc # "link" BY <2>4
  <2> QED BY <1>2, <1>4, <1>7, <1>10, <1>11, <1>16, <2>1, <2>3, <2>4, <2>5, LoginGrows
<1> QED BY <1>3, <1>12, <1>13, <1>15, <1>16

\* A sequence with one element replaced.
LEMMA OneReplaced ==
  ASSUME NEW S, NEW s \in Seq(S), NEW e \in S, NEW y \in 1..Len(s)
  PROVE  [s EXCEPT ![y] = e] \in Seq(S) /\ Len([s EXCEPT ![y] = e]) = Len(s)
  OBVIOUS

\* The identity is added to the user.
LEMMA LoginJoins ==
  ASSUME NEW C, NEW P \in Nat, NEW I, NEW n \in Nat, NEW u \in Nat, NEW r \in Nat,
         LoginInv(C, P, I, n, u, r), NEW c \in C, call[c].pc = "link", NEW o \in LoginCall(P, I),
         call' = [call EXCEPT ![c] = o], o.pc # "link", LoginFits(P, I, o, known', Len(users)),
         NEW i, i = <<call[c].idp, call[c].subject>>,
         users' = [users EXCEPT ![call[c].user].identities = @ \cup {i}],
         UNCHANGED <<jwks, newest, begun, unlinks, mixed>>,
         known \subseteq known', \A j \in known' \ known : j = i
  PROVE  LoginInv(C, P, I, n, u, r)'
<1> DEFINE k == call[c]
           y == k.user
           old == users[y]
           ids == old.identities \cup {i}
           new == [old EXCEPT !.identities = ids]
<1>1. /\ users \in Seq(LoginUser(P, I)) /\ Len(users) \in Nat /\ call \in [C -> LoginCall(P, I)]
      /\ DOMAIN users = 1..Len(users)
      BY DEF LoginInv, LoginType
<1>2. k \in LoginCall(P, I) /\ LoginFits(P, I, k, known, Len(users)) BY LoginAtWork
<1>3. y \in 1..Len(users) /\ k.idp \in I /\ k.subject \in 0..P
      BY <1>1, <1>2 DEF LoginFits, LoginCall
<1>4. i[1] = k.idp /\ i[2] = k.subject /\ i \in I \X (0..P) BY <1>3
<1>5. users' = [users EXCEPT ![y] = new] BY <1>1, <1>3
<1>6. old \in LoginUser(P, I) BY <1>1, <1>3
<1>7. old.identities \in SUBSET (I \X (0..P)) BY <1>6 DEF LoginUser
<1>8. ids \in SUBSET (I \X (0..P)) BY <1>4, <1>7
<1> HIDE DEF k, y, old, ids
<1>9. /\ new \in LoginUser(P, I) /\ new.by = old.by /\ new.email = old.email
      /\ new.identities = ids
      BY <1>6, <1>8 DEF LoginUser
<1> HIDE DEF new
<1>10. /\ users' \in Seq(LoginUser(P, I)) /\ Len(users') = Len(users) /\ users'[y] = new
       /\ \A v \in 1..Len(users) : v # y => users'[v] = users[v]
  <2> DEFINE S == LoginUser(P, I)
  <2>1. users \in Seq(S) /\ new \in S /\ y \in 1..Len(users) BY <1>1, <1>3, <1>9
  <2> HIDE DEF S
  <2> DEFINE q == [users EXCEPT ![y] = new]
  <2>4. q \in Seq(S) /\ Len(q) = Len(users) BY <2>1, OneReplaced
  <2>5. users' = q BY <1>5
  <2> HIDE DEF q
  <2>2. users' \in Seq(S) /\ Len(users') = Len(users) BY <2>4, <2>5
  <2>3. users'[y] = new /\ \A v \in 1..Len(users) : v # y => users'[v] = users[v] BY <1>5, <2>1
  <2> QED BY <2>2, <2>3 DEF S
<1>11. call' \in [C -> LoginCall(P, I)] /\ call'[c] = o /\ \A d \in C \ {c} : call'[d] = call[d]
       BY <1>1
<1>12. users[y] = old /\ old.identities \subseteq ids /\ i \in ids
       /\ \A j \in ids : j \in old.identities \/ j = i
       BY DEF old, ids
<1>13. LoginType(C, P, I, n, u, r)' BY <1>10, <1>11 DEF LoginInv, LoginType
<1>14. LoginCalls(C, P, I)'
  <2>1. \A d \in C \ {c} : LoginFits(P, I, call[d], known', Len(users))
    <3> SUFFICES ASSUME NEW d \in C \ {c} PROVE LoginFits(P, I, call[d], known', Len(users))
        OBVIOUS
    <3>1. call[d] \in LoginCall(P, I) /\ LoginFits(P, I, call[d], known, Len(users))
          BY <1>1 DEF LoginInv, LoginCalls
    <3> QED BY <1>1, <3>1, GoesOnFitting
  <2>2. \A d \in C : LoginFits(P, I, call'[d], known', Len(users)) BY <1>11, <2>1
  <2> QED BY <2>2, <1>10 DEF LoginCalls
<1>15. LoginKnown'
  <2> SUFFICES ASSUME NEW j \in known' PROVE \E v \in 1..Len(users) : j \in users'[v].identities
      BY <1>10 DEF LoginKnown
  <2>1. CASE j \in known
    <3>1. PICK v \in 1..Len(users) : j \in users[v].identities BY <2>1 DEF LoginInv, LoginKnown
    <3>2. j \in users'[v].identities
      <4>1. CASE v = y BY <3>1, <4>1, <1>9, <1>10, <1>12
      <4>2. CASE v # y BY <3>1, <4>2, <1>10
      <4> QED BY <4>1, <4>2
    <3> QED BY <3>2
  <2>2. CASE j \notin known
    <3>1. j \in users'[y].identities BY <2>2, <1>9, <1>10, <1>12
    <3> QED BY <3>1, <1>3
  <2> QED BY <2>1, <2>2
<1>16. LoginOwned(C, P)'
  <2> SUFFICES ASSUME NEW v \in 1..Len(users), v \notin mixed
               PROVE  \E a \in 1..P : LoginOwner(C, P, v, a)'
      BY <1>10 DEF LoginOwned
  <2>1. PICK a \in 1..P : LoginOwner(C, P, v, a) BY DEF LoginInv, LoginOwned
  <2>2. ASSUME NEW d \in C, call'[d].pc = "link", call'[d].user = v
        PROVE  call'[d].subject \in {0, SubjectOf(P, call'[d].idp, a)}
    <3>1. d # c BY <2>2, <1>11
    <3> QED BY <2>1, <2>2, <3>1, <1>11 DEF LoginOwner
  <2>3. users'[v].email \in {0, a}
    <3>1. CASE v = y BY <2>1, <3>1, <1>9, <1>10, <1>12 DEF LoginOwner
    <3>2. CASE v # y BY <2>1, <3>2, <1>10 DEF LoginOwner
    <3> QED BY <3>1, <3>2
  <2>4. ASSUME NEW j \in users'[v].identities PROVE j[2] \in {0, SubjectOf(P, j[1], a)}
    <3>1. CASE v # y BY <2>1, <2>4, <3>1, <1>10 DEF LoginOwner
    <3>2. CASE v = y /\ j \in old.identities BY <2>1, <3>2, <1>12 DEF LoginOwner
    <3>3. CASE v = y /\ j = i
      <4>1. k.pc = "link" /\ k.user = v /\ k = call[c] BY <3>3 DEF y, k
      <4>2. k.subject \in {0, SubjectOf(P, k.idp, a)} BY <2>1, <4>1 DEF LoginOwner
      <4> QED BY <3>3, <4>2, <1>4
    <3> QED BY <2>4, <3>1, <3>2, <3>3, <1>9, <1>10, <1>12
  <2>5. LoginOwner(C, P, v, a)' BY <2>2, <2>3, <2>4 DEF LoginOwner
  <2> QED BY <2>5
<1>17. LoginInside'
  <2> SUFFICES ASSUME NEW v \in 1..Len(users), users'[v].by = "oidc", unlinks = 0
               PROVE  users'[v].identities # {}
      BY <1>10 DEF LoginInside
  <2>1. CASE v = y BY <2>1, <1>9, <1>10, <1>12
  <2>2. CASE v # y BY <2>2, <1>10 DEF LoginInv, LoginInside
  <2> QED BY <2>1, <2>2
<1> QED BY <1>13, <1>14, <1>15, <1>16, <1>17 DEF LoginInv

\* The link is made, and the call hears of it or of an error.
LEMMA LoginLinks ==
  ASSUME NEW C, NEW P \in Nat, NEW I, NEW n \in Nat, NEW u \in Nat, NEW r \in Nat,
         LoginInv(C, P, I, n, u, r), NEW c \in C, LoginsOf(C, P, I, n, u, r)!Link(c)
  PROVE  LoginInv(C, P, I, n, u, r)'
<1> DEFINE k == call[c]
           i == <<k.idp, k.subject>>
<1>1. /\ k \in LoginCall(P, I) /\ LoginFits(P, I, k, known, Len(users)) /\ Len(users) \in Nat
      BY LoginAtWork
<1>2. k.pc = "link" /\ UNCHANGED <<jwks, newest, begun, unlinks, mixed>> BY DEF LoginsOf!Link
<1>3. \/ LoginsOf(C, P, I, n, u, r)!Throw(c) /\ UNCHANGED <<users, known>>
      \/ /\ users' = [users EXCEPT ![k.user].identities = @ \cup {i}]
         /\ LoginsOf(C, P, I, n, u, r)!Finish(c, k)
              \/ (LoginsOf(C, P, I, n, u, r)!Throw(c) /\ UNCHANGED known)
      BY DEF LoginsOf!Link, LoginsOf!Identity
<1>4. CASE LoginsOf(C, P, I, n, u, r)!Throw(c) /\ UNCHANGED <<users, known>>
      BY <1>2, <1>4, LoginThrown
<1>5. CASE users' = [users EXCEPT ![k.user].identities = @ \cup {i}]
           /\ LoginsOf(C, P, I, n, u, r)!Throw(c) /\ UNCHANGED known
  <2> DEFINE o == LoginsOf(C, P, I, n, u, r)!Idle
  <2>1. o \in LoginCall(P, I) /\ o.pc = "idle" BY IdleLogin
  <2>2. LoginFits(P, I, o, known, Len(users)) BY <1>1, IdleLogin
  <2>3. call' = [call EXCEPT ![c] = o] BY <1>5 DEF LoginsOf!Throw, LoginsOf!Set
  <2> HIDE DEF o
  <2>4. /\ LoginFits(P, I, o, known', Len(users)) /\ known \subseteq known' /\ o.pc # "link"
        /\ \A j \in known' \ known : j = i
        BY <1>5, <2>1, <2>2
  <2>5. i = <<call[c].idp, call[c].subject>> OBVIOUS
  <2> HIDE DEF i
  <2> QED BY <1>2, <1>5, <2>1, <2>3, <2>4, <2>5, LoginJoins
<1>6. CASE users' = [users EXCEPT ![k.user].identities = @ \cup {i}]
           /\ LoginsOf(C, P, I, n, u, r)!Finish(c, k)
  <2> DEFINE o == [k EXCEPT !.pc = "done"]
  <2>1. /\ call' = [call EXCEPT ![c] = o]
        /\ known' = known \cup (IF i \in users'[k.user].identities THEN {i} ELSE {})
        BY <1>6 DEF LoginsOf!Finish, LoginsOf!Set, LoginsOf!Identity
  <2>2. i = <<call[c].idp, call[c].subject>> OBVIOUS
  <2> HIDE DEF i
  <2>3. known \subseteq known' /\ \A j \in known' \ known : j = i BY <2>1
  <2> HIDE DEF k
  <2>4. /\ o \in LoginCall(P, I) /\ o.pc = "done" /\ o.user = k.user /\ o.fresh = k.fresh
        /\ o.idp = k.idp /\ o.who = k.who /\ o.subject = k.subject /\ o.knew = k.knew
        /\ o.verified = k.verified /\ o.mail = k.mail /\ o.sound = k.sound
        BY <1>1 DEF LoginCall
  <2> HIDE DEF o
  <2>5. LoginFits(P, I, o, known', Len(users)) /\ o.pc # "link"
        BY <1>1, <1>2, <2>3, <2>4 DEF LoginFits
  <2> QED BY <1>2, <1>6, <2>1, <2>2, <2>3, <2>4, <2>5, LoginJoins DEF k
<1> QED BY <1>3, <1>4, <1>5, <1>6

\* An identity is taken from a user; calls of that identity no longer count as known.
LEMMA LoginUnlinks ==
  ASSUME NEW C, NEW P \in Nat, NEW I, NEW n \in Nat, NEW u \in Nat, NEW r \in Nat,
         LoginInv(C, P, I, n, u, r), NEW y \in DOMAIN users, NEW i \in users[y].identities,
         LoginsOf(C, P, I, n, u, r)!Unlink(y, i)
  PROVE  LoginInv(C, P, I, n, u, r)'
<1> DEFINE old == users[y]
           ids == old.identities \ {i}
           new == [old EXCEPT !.identities = ids]
<1>1. /\ users \in Seq(LoginUser(P, I)) /\ Len(users) \in Nat /\ call \in [C -> LoginCall(P, I)]
      /\ DOMAIN users = 1..Len(users) /\ y \in 1..Len(users)
      BY DEF LoginInv, LoginType
<1>2. /\ users' = [users EXCEPT ![y] = new] /\ known' = known \ {i}
      /\ UNCHANGED <<jwks, newest, begun, mixed>> /\ unlinks < u /\ unlinks' = unlinks + 1
      /\ call' = [c \in C |-> IF <<call[c].idp, SubjectOf(P, call[c].idp, call[c].who)>> = i
                              THEN [call[c] EXCEPT !.knew = FALSE] ELSE call[c]]
      BY <1>1, SubjectIs DEF LoginsOf!Unlink
<1>3. unlinks' \in 0..u /\ unlinks' # 0 BY <1>2 DEF LoginInv, LoginType
<1>4. old \in LoginUser(P, I) BY <1>1
<1>5. ids \in SUBSET (I \X (0..P)) /\ ids \subseteq old.identities /\ i \notin ids
      /\ \A j \in old.identities : j # i => j \in ids
      BY <1>4 DEF LoginUser
<1>6. users[y] = old OBVIOUS
<1> HIDE DEF old, ids
<1>7. /\ new \in LoginUser(P, I) /\ new.email = old.email /\ new.identities = ids
      BY <1>4, <1>5 DEF LoginUser
<1> HIDE DEF new
<1>8. /\ users' \in Seq(LoginUser(P, I)) /\ Len(users') = Len(users) /\ users'[y] = new
      /\ \A v \in 1..Len(users) : v # y => users'[v] = users[v]
  <2> DEFINE S == LoginUser(P, I)
  <2>1. users \in Seq(S) /\ new \in S /\ y \in 1..Len(users) BY <1>1, <1>7
  <2> HIDE DEF S
  <2>2. users' \in Seq(S) /\ Len(users') = Len(users) BY <1>2, <2>1
  <2>3. users'[y] = new /\ \A v \in 1..Len(users) : v # y => users'[v] = users[v] BY <1>2, <2>1
  <2> QED BY <2>2, <2>3 DEF S
<1>9. ASSUME NEW c \in C
      PROVE  /\ call'[c] \in LoginCall(P, I) /\ call'[c].pc = call[c].pc
             /\ call'[c].user = call[c].user /\ call'[c].subject = call[c].subject
             /\ call'[c].idp = call[c].idp
             /\ LoginFits(P, I, call'[c], known', Len(users))
  <2> DEFINE k == call[c]
             f == FALSE
             o == [k EXCEPT !.knew = f]
  <2>1. k \in LoginCall(P, I) /\ LoginFits(P, I, k, known, Len(users)) BY LoginAtWork
  <2>2. call'[c] = IF <<k.idp, SubjectOf(P, k.idp, k.who)>> = i THEN o ELSE k BY <1>2
  <2>3. f \in BOOLEAN /\ ~f OBVIOUS
  <2> HIDE DEF k, f
  <2>4. /\ o \in LoginCall(P, I) /\ o.pc = k.pc /\ o.user = k.user /\ o.fresh = k.fresh
        /\ o.idp = k.idp /\ o.who = k.who /\ o.subject = k.subject /\ o.knew = f
        /\ o.verified = k.verified /\ o.mail = k.mail /\ o.sound = k.sound
        BY <2>1, <2>3 DEF LoginCall
  <2> HIDE DEF o
  <2>5. LoginFits(P, I, o, known', Len(users)) BY <2>1, <2>3, <2>4 DEF LoginFits
  <2>6. CASE <<k.idp, SubjectOf(P, k.idp, k.who)>> = i
    <3>1. call'[c] = o BY <2>2, <2>6
    <3> QED BY <3>1, <2>4, <2>5 DEF k
  <2>7. CASE <<k.idp, SubjectOf(P, k.idp, k.who)>> # i
    <3>1. call'[c] = k BY <2>2, <2>7
    <3>2. LoginFits(P, I, k, known', Len(users)) BY <1>2, <2>1, <2>7 DEF LoginFits
    <3> QED BY <3>1, <3>2, <2>1 DEF k
  <2> QED BY <2>6, <2>7
<1>10. call' \in [C -> LoginCall(P, I)]
  <2>1. DOMAIN call' = C /\ call' = [c \in C |-> call'[c]] BY <1>2
  <2> QED BY <2>1, <1>9
<1>11. LoginType(C, P, I, n, u, r)' BY <1>2, <1>3, <1>8, <1>10 DEF LoginInv, LoginType
<1>12. LoginCalls(C, P, I)' BY <1>8, <1>9 DEF LoginCalls
<1>13. LoginKnown'
  <2> SUFFICES ASSUME NEW j \in known' PROVE \E v \in 1..Len(users) : j \in users'[v].identities
      BY <1>8 DEF LoginKnown
  <2>1. j \in known /\ j # i BY <1>2
  <2>2. PICK v \in 1..Len(users) : j \in users[v].identities BY <2>1 DEF LoginInv, LoginKnown
  <2>3. j \in users'[v].identities
    <3>1. CASE v = y BY <2>1, <2>2, <3>1, <1>5, <1>6, <1>7, <1>8
    <3>2. CASE v # y BY <2>2, <3>2, <1>8
    <3> QED BY <3>1, <3>2
  <2> QED BY <2>3
<1>14. LoginOwned(C, P)'
  <2> SUFFICES ASSUME NEW v \in 1..Len(users), v \notin mixed
               PROVE  \E a \in 1..P : LoginOwner(C, P, v, a)'
      BY <1>2, <1>8 DEF LoginOwned
  <2>1. PICK a \in 1..P : LoginOwner(C, P, v, a) BY DEF LoginInv, LoginOwned
  <2>2. ASSUME NEW d \in C, call'[d].pc = "link", call'[d].user = v
        PROVE  call'[d].subject \in {0, SubjectOf(P, call'[d].idp, a)}
    <3>1. /\ call[d].pc = "link" /\ call[d].user = v /\ call'[d].subject = call[d].subject
          /\ call'[d].idp = call[d].idp
          BY <2>2, <1>9
    <3> QED BY <2>1, <3>1 DEF LoginOwner
  <2>3. users'[v].email \in {0, a} /\ users'[v].identities \subseteq users[v].identities
    <3>1. CASE v = y BY <2>1, <3>1, <1>5, <1>6, <1>7, <1>8 DEF LoginOwner
    <3>2. CASE v # y BY <2>1, <3>2, <1>8 DEF LoginOwner
    <3> QED BY <3>1, <3>2
  <2>4. \A j \in users'[v].identities : j[2] \in {0, SubjectOf(P, j[1], a)}
        BY <2>1, <2>3 DEF LoginOwner
  <2>5. LoginOwner(C, P, v, a)' BY <2>2, <2>3, <2>4 DEF LoginOwner
  <2> QED BY <2>5
<1>15. LoginInside' BY <1>3 DEF LoginInside
<1> QED BY <1>11, <1>12, <1>13, <1>14, <1>15 DEF LoginInv

\* Every step of a sign-in keeps the invariant.
LEMMA LoginStep ==
  ASSUME NEW C, NEW P \in Nat, NEW I, NEW n \in Nat, NEW u \in Nat, NEW r \in Nat,
         LoginInv(C, P, I, n, u, r), LoginsOf(C, P, I, n, u, r)!Next \/ UNCHANGED loginVars
  PROVE  LoginInv(C, P, I, n, u, r)'
<1>1. CASE UNCHANGED loginVars
  <2>1. UNCHANGED <<users, call, jwks, newest, begun, unlinks, known, mixed>> BY <1>1 DEF loginVars
  <2> QED BY <2>1 DEF LoginInv, LoginType, LoginCalls, LoginKnown, LoginOwned, LoginOwner,
        LoginInside
<1>2. CASE LoginsOf(C, P, I, n, u, r)!Next
  <2>1. CASE \E c \in C : \/ \E p \in I, w \in 1..P : LoginsOf(C, P, I, n, u, r)!Begin(c, p, w)
                          \/ LoginsOf(C, P, I, n, u, r)!Exchange(c)
                          \/ LoginsOf(C, P, I, n, u, r)!GetProfile(c)
                          \/ LoginsOf(C, P, I, n, u, r)!VerifyIdToken(c)
                          \/ LoginsOf(C, P, I, n, u, r)!Lookup(c)
                          \/ LoginsOf(C, P, I, n, u, r)!Create(c)
                          \/ LoginsOf(C, P, I, n, u, r)!Link(c)
                          \/ LoginsOf(C, P, I, n, u, r)!Return(c)
        BY <2>1, LoginBegins, LoginExchanges, LoginProfile, LoginVerifies, LoginLooksUp,
           LoginCreates, LoginLinks, LoginReturns
  <2>2. CASE LoginsOf(C, P, I, n, u, r)!Rotate BY <2>2, LoginRotates
  <2>3. CASE \E v \in DOMAIN users : \E i \in users[v].identities : LoginsOf(C, P, I, n, u, r)!Unlink(v, i)
        BY <2>3, LoginUnlinks
  <2> QED BY <1>2, <2>1, <2>2, <2>3 DEF LoginsOf!Next
<1> QED BY <1>1, <1>2

\* The invariant gives what sign-in promises.
LEMMA LoginPromise ==
  ASSUME NEW C, NEW P \in Nat, NEW I, NEW n \in Nat, NEW u \in Nat, NEW r \in Nat,
         LoginInv(C, P, I, n, u, r)
  PROVE  /\ LoginsOf(C, P, I, n, u, r)!TypeOK /\ LoginsOf(C, P, I, n, u, r)!NoSecondAccount
         /\ LoginsOf(C, P, I, n, u, r)!OneOwner /\ LoginsOf(C, P, I, n, u, r)!NoneOutside
         /\ LoginsOf(C, P, I, n, u, r)!OnlyVerified
         /\ LoginsOf(C, P, I, n, u, r)!ToldVerified
<1>1. /\ users \in Seq(LoginUser(P, I)) /\ Len(users) \in Nat /\ call \in [C -> LoginCall(P, I)]
      /\ DOMAIN users = 1..Len(users)
      BY DEF LoginInv, LoginType
<1>2. ASSUME NEW v \in 1..Len(users)
      PROVE  users[v].email \in 0..P /\ users[v].identities \subseteq I \X (0..P)
  <2>1. users[v] \in LoginUser(P, I) BY <1>1
  <2> QED BY <2>1 DEF LoginUser
<1>3. ASSUME NEW c \in C
      PROVE  /\ call[c].idp \in I \cup {"google"} /\ call[c].user \in 0..Len(users)
             /\ call[c].fresh /\ call[c].subject # 0 => ~call[c].knew
             /\ call[c].idp = "oidc" /\ call[c].pc \in {"lookup", "create", "link", "done"} =>
                  call[c].sound
             /\ call[c].verified /\ call[c].idp \in {"google", "github", "apple", "custom", "oidc"} =>
                  call[c].mail = "verified"
  <2>1. call[c] \in LoginCall(P, I) /\ LoginFits(P, I, call[c], known, Len(users)) BY LoginAtWork
  <2>2. call[c].user \in Nat /\ call[c].idp \in I \cup {"google"} BY <2>1 DEF LoginCall
  <2> QED BY <1>1, <2>1, <2>2 DEF LoginFits
<1>4. LoginsOf(C, P, I, n, u, r)!TypeOK BY <1>1, <1>2, <1>3 DEF LoginsOf!TypeOK, LoginInv, LoginType
<1>5. LoginsOf(C, P, I, n, u, r)!NoSecondAccount BY <1>3 DEF LoginsOf!NoSecondAccount
<1>6. LoginsOf(C, P, I, n, u, r)!OneOwner
  <2> SUFFICES ASSUME NEW v \in DOMAIN users \ mixed
               PROVE  \E w \in 1..P : /\ users[v].email \in {0, w}
                                      /\ \A i \in users[v].identities :
                                           i[2] \in {0, LoginsOf(C, P, I, n, u, r)!Subject(i[1], w)}
      BY DEF LoginsOf!OneOwner
  <2>1. PICK w \in 1..P : LoginOwner(C, P, v, w) BY <1>1 DEF LoginInv, LoginOwned
  <2>2. \A i \in users[v].identities : i[2] \in {0, SubjectOf(P, i[1], w)} BY <2>1 DEF LoginOwner
  <2>3. \A i \in users[v].identities : i[2] \in {0, LoginsOf(C, P, I, n, u, r)!Subject(i[1], w)}
        BY <2>2, SubjectIs
  <2> QED BY <2>1, <2>3 DEF LoginOwner
<1>7. LoginsOf(C, P, I, n, u, r)!NoneOutside BY <1>1 DEF LoginsOf!NoneOutside, LoginInv, LoginInside
<1>8. LoginsOf(C, P, I, n, u, r)!OnlyVerified /\ LoginsOf(C, P, I, n, u, r)!ToldVerified
      BY <1>3 DEF LoginsOf!OnlyVerified, LoginsOf!ToldVerified
<1> QED BY <1>4, <1>5, <1>6, <1>7, <1>8

-----------------------------------------------------------------------------
(* Sign-ins, clients and the directory together *)

AllLogins ==
  IF part = "overlapping" THEN LoginInv(Call, 1, TwoIdps, MaxBegun, 0, 0)
  ELSE IF part = "returning" THEN LoginInv(OneCall, People, TwoIdps, MaxBegun, MaxUnlinks, 0)
                             ELSE LoginInv(OneCall, People, Idp, 1, MaxUnlinks, 1)

BothGrants ==
  IF part = "codes" THEN GrantInv(Request, Code, {}, 1, 2)
                    ELSE GrantInv(OneRequest, {}, Scope, MaxChanges, 1)

\* The start of the sign-ins, of whichever kind.
LEMMA SignInsStart == Init => AllLogins /\ BothGrants /\ ScimInv
<1> SUFFICES ASSUME Init PROVE AllLogins /\ BothGrants /\ ScimInv OBVIOUS
<1> USE LoginsAssumption, GrantsAssumption
<1>1. ScimInv BY InitScim DEF Init
<1>2. BothGrants
  <2>1. CASE part = "codes"
    <3>1. GrantsOf(Request, Code, {}, 1, 2, {"code"})!Init BY <2>1 DEF Init
    <3>2. GrantInv(Request, Code, {}, 1, 2) BY <3>1, InitGrants
    <3> QED BY <2>1, <3>2 DEF BothGrants
  <2>2. CASE part # "codes"
    <3>1. GrantsOf(OneRequest, {}, Scope, MaxChanges, 1, ClientUses)!Init
          BY <2>2 DEF Init
    <3>2. GrantInv(OneRequest, {}, Scope, MaxChanges, 1) BY <3>1, InitGrants
    <3> QED BY <2>2, <3>2 DEF BothGrants
  <2> QED BY <2>1, <2>2
<1>3. AllLogins
  <2>1. CASE part = "overlapping"
    <3>1. LoginsOf(Call, 1, TwoIdps, MaxBegun, 0, 0)!Init BY <2>1 DEF Init
    <3>2. LoginInv(Call, 1, TwoIdps, MaxBegun, 0, 0) BY <3>1, InitLogins
    <3> QED BY <2>1, <3>2 DEF AllLogins
  <2>2. CASE part # "overlapping"
    <3>1. LoginsOf(OneCall, People, Idp, 1, MaxUnlinks, 1)!Init BY <2>2 DEF Init
    <3>2. LoginInv(OneCall, People, Idp, 1, MaxUnlinks, 1) BY <3>1, InitLogins
    <3>3. LoginsOf(OneCall, People, TwoIdps, MaxBegun, MaxUnlinks, 0)!Init
          BY <3>1 DEF LoginsOf!Init, LoginsOf!Idle
    <3>4. LoginInv(OneCall, People, TwoIdps, MaxBegun, MaxUnlinks, 0) BY <3>3, InitLogins
    <3> QED BY <2>2, <3>2, <3>4 DEF AllLogins
  <2> QED BY <2>1, <2>2
<1> QED BY <1>1, <1>2, <1>3

\* Every step keeps the three invariants.
LEMMA SignInsStep ==
  AllLogins /\ BothGrants /\ ScimInv /\ [Next]_vars => (AllLogins /\ BothGrants /\ ScimInv)'
<1> SUFFICES ASSUME AllLogins, BothGrants, ScimInv, [Next]_vars
             PROVE  AllLogins' /\ BothGrants' /\ ScimInv'
    OBVIOUS
<1> USE LoginsAssumption, GrantsAssumption
<1>1. part' = part BY DEF Next, vars
<1>2. ScimInv'
  <2>1. Scim!Next \/ UNCHANGED scimVars BY DEF Next, vars, outerVars
  <2> QED BY <2>1, ScimStep
<1>3. BothGrants'
  <2>1. \/ UNCHANGED grantVars
        \/ part = "codes" /\ GrantsOf(Request, Code, {}, 1, 2, {"code"})!Next
        \/ /\ part = "clients"
           /\ GrantsOf(OneRequest, {}, Scope, MaxChanges, 1, ClientUses)!Next
        BY DEF Next, vars, outerVars
  <2>2. CASE part = "codes"
    <3>1. GrantsOf(Request, Code, {}, 1, 2, {"code"})!Next \/ UNCHANGED grantVars BY <2>1, <2>2
    <3>2. GrantInv(Request, Code, {}, 1, 2) BY <2>2 DEF BothGrants
    <3>3. GrantInv(Request, Code, {}, 1, 2)' BY <3>1, <3>2, GrantsStep
    <3> QED BY <1>1, <2>2, <3>3 DEF BothGrants
  <2>3. CASE part # "codes"
    <3>1. \/ GrantsOf(OneRequest, {}, Scope, MaxChanges, 1, ClientUses)!Next
          \/ UNCHANGED grantVars
          BY <2>1, <2>3
    <3>2. GrantInv(OneRequest, {}, Scope, MaxChanges, 1) BY <2>3 DEF BothGrants
    <3>3. GrantInv(OneRequest, {}, Scope, MaxChanges, 1)' BY <3>1, <3>2, GrantsStep
    <3> QED BY <1>1, <2>3, <3>3 DEF BothGrants
  <2> QED BY <2>2, <2>3
<1>4. AllLogins'
  <2>1. \/ UNCHANGED loginVars
        \/ part = "providers" /\ LoginsOf(OneCall, People, Idp, 1, MaxUnlinks, 1)!Next
        \/ part = "returning" /\ LoginsOf(OneCall, People, TwoIdps, MaxBegun, MaxUnlinks, 0)!Next
        \/ part = "overlapping" /\ LoginsOf(Call, 1, TwoIdps, MaxBegun, 0, 0)!Next
        BY DEF Next, vars, outerVars
  <2>2. CASE part = "overlapping"
    <3>1. LoginsOf(Call, 1, TwoIdps, MaxBegun, 0, 0)!Next \/ UNCHANGED loginVars BY <2>1, <2>2
    <3>2. LoginInv(Call, 1, TwoIdps, MaxBegun, 0, 0) BY <2>2 DEF AllLogins
    <3>3. LoginInv(Call, 1, TwoIdps, MaxBegun, 0, 0)' BY <3>1, <3>2, LoginStep
    <3> QED BY <1>1, <2>2, <3>3 DEF AllLogins
  <2>3. CASE part = "returning"
    <3>1. LoginsOf(OneCall, People, TwoIdps, MaxBegun, MaxUnlinks, 0)!Next \/ UNCHANGED loginVars
          BY <2>1, <2>3
    <3>2. LoginInv(OneCall, People, TwoIdps, MaxBegun, MaxUnlinks, 0) BY <2>3 DEF AllLogins
    <3>3. LoginInv(OneCall, People, TwoIdps, MaxBegun, MaxUnlinks, 0)' BY <3>1, <3>2, LoginStep
    <3> QED BY <1>1, <2>3, <3>3 DEF AllLogins
  <2>4. CASE part # "overlapping" /\ part # "returning"
    <3>1. LoginsOf(OneCall, People, Idp, 1, MaxUnlinks, 1)!Next \/ UNCHANGED loginVars
          BY <2>1, <2>4
    <3>2. LoginInv(OneCall, People, Idp, 1, MaxUnlinks, 1) BY <2>4 DEF AllLogins
    <3>3. LoginInv(OneCall, People, Idp, 1, MaxUnlinks, 1)' BY <3>1, <3>2, LoginStep
    <3> QED BY <1>1, <2>4, <3>3 DEF AllLogins
  <2> QED BY <2>2, <2>3, <2>4
<1> QED BY <1>2, <1>3, <1>4

\* What sign-in with an external identity, the OAuth clients and the SCIM lists promise: one
\* account for an identity that is known, one owner for an account, no identity without
\* verification; tokens only for clients as they are registered, at most one answer for a
\* code; and walks through the SCIM lists that miss nothing.
THEOREM SignInsSafe == Spec => []SignInsHold
<1>1. AllLogins /\ BothGrants /\ ScimInv => SignInsHold
  <2> SUFFICES ASSUME AllLogins, BothGrants, ScimInv PROVE SignInsHold OBVIOUS
  <2> USE LoginsAssumption, GrantsAssumption
  <2>1. ASSUME part = "providers"
        PROVE  /\ LoginsOf(OneCall, People, Idp, 1, MaxUnlinks, 1)!TypeOK
               /\ LoginsOf(OneCall, People, Idp, 1, MaxUnlinks, 1)!OnlyVerified
               /\ LoginsOf(OneCall, People, Idp, 1, MaxUnlinks, 1)!ToldVerified
    <3>1. LoginInv(OneCall, People, Idp, 1, MaxUnlinks, 1) BY <2>1 DEF AllLogins
    <3> QED BY <3>1, LoginPromise
  <2>2. ASSUME part = "returning"
        PROVE  /\ LoginsOf(OneCall, People, TwoIdps, MaxBegun, MaxUnlinks, 0)!TypeOK
               /\ LoginsOf(OneCall, People, TwoIdps, MaxBegun, MaxUnlinks, 0)!NoSecondAccount
               /\ LoginsOf(OneCall, People, TwoIdps, MaxBegun, MaxUnlinks, 0)!OneOwner
               /\ LoginsOf(OneCall, People, TwoIdps, MaxBegun, MaxUnlinks, 0)!NoneOutside
    <3>1. LoginInv(OneCall, People, TwoIdps, MaxBegun, MaxUnlinks, 0) BY <2>2 DEF AllLogins
    <3> QED BY <3>1, LoginPromise
  <2>3. ASSUME part = "overlapping"
        PROVE  /\ LoginsOf(Call, 1, TwoIdps, MaxBegun, 0, 0)!TypeOK
               /\ LoginsOf(Call, 1, TwoIdps, MaxBegun, 0, 0)!NoSecondAccount
               /\ LoginsOf(Call, 1, TwoIdps, MaxBegun, 0, 0)!NoneOutside
    <3>1. LoginInv(Call, 1, TwoIdps, MaxBegun, 0, 0) BY <2>3 DEF AllLogins
    <3> QED BY <3>1, LoginPromise
  <2>4. ASSUME part = "clients"
        PROVE  /\ GrantsOf(OneRequest, {}, Scope, MaxChanges, 1, ClientUses)!TypeOK
               /\ GrantsOf(OneRequest, {}, Scope, MaxChanges, 1, ClientUses)!ShutOut
               /\ GrantsOf(OneRequest, {}, Scope, MaxChanges, 1, ClientUses)!ScopesWithin
    <3>1. GrantInv(OneRequest, {}, Scope, MaxChanges, 1) BY <2>4 DEF BothGrants
    <3> QED BY <3>1, GrantsPromise
  <2>5. ASSUME part = "codes"
        PROVE  /\ GrantsOf(Request, Code, {}, 1, 2, {"code"})!TypeOK
               /\ GrantsOf(Request, Code, {}, 1, 2, {"code"})!ShutOut
               /\ GrantsOf(Request, Code, {}, 1, 2, {"code"})!OncePerCode
               /\ GrantsOf(Request, Code, {}, 1, 2, {"code"})!ProvenOnly
    <3>1. GrantInv(Request, Code, {}, 1, 2) BY <2>5 DEF BothGrants
    <3> QED BY <3>1, GrantsPromise
  <2>6. Scim!TypeOK /\ Scim!WalkComplete BY ScimPromise
  <2> QED BY <2>1, <2>2, <2>3, <2>4, <2>5, <2>6 DEF SignInsHold
<1> QED BY <1>1, SignInsStart, SignInsStep, PTL DEF Spec

-----------------------------------------------------------------------------
(* The HTTP surface.  What a request has still to go through is a sequence   *)
(* of steps; the facts about it are stated for any sequence, so that they    *)
(* hold of a route's chain and of what is left of it.                        *)

HttpStep == {"json", "cors", "authenticate", "key", "auth", "own", "admin", "csrf", "limit",
             "body", "find", "write", "roles", "more", "log", "answer"}

Changing == {"write", "roles", "more"}

\* How many changes a request has made at most when it comes to a step, and after it.
ChangesBefore(s) ==
  IF s \in {"log", "answer"} THEN 3 ELSE IF s = "more" THEN 2 ELSE IF s = "roles" THEN 1 ELSE 0
ChangesAfter(s) == IF s \in Changing THEN ChangesBefore(s) + 1 ELSE ChangesBefore(s)

InOrder(q) == \A i, j \in 1..Len(q) : i < j => ChangesAfter(q[i]) <= ChangesBefore(q[j])
CountsFit(d, q) == \A m \in 1..Len(q) : d <= ChangesBefore(q[m])
Has(q, K) == \E m \in 1..Len(q) : q[m] \in K
\* Every step of K comes after one of S.
Behind(q, K, S) == \A m \in 1..Len(q) : q[m] \in K => \E j \in 1..(m - 1) : q[j] \in S
Quiet(q) == \A m \in 1..Len(q) : ChangesAfter(q[m]) = 0

\* What is left after a step.
LEMMA TailIs ==
  ASSUME NEW q \in Seq(HttpStep), q # <<>>
  PROVE  /\ Len(q) \in Nat /\ Len(q) > 0 /\ Head(q) = q[1] /\ Head(q) \in HttpStep
         /\ Tail(q) \in Seq(HttpStep) /\ Len(Tail(q)) = Len(q) - 1
         /\ \A m \in 1..(Len(q) - 1) : Tail(q)[m] = q[m + 1]
<1>1. Len(q) \in Nat /\ Len(q) > 0 OBVIOUS
<1>2. Head(q) = q[1] /\ Head(q) \in HttpStep OBVIOUS
<1>3. Tail(q) \in Seq(HttpStep) /\ Len(Tail(q)) = Len(q) - 1 OBVIOUS
<1>4. \A m \in 1..(Len(q) - 1) : Tail(q)[m] = q[m + 1] OBVIOUS
<1> QED BY <1>1, <1>2, <1>3, <1>4

\* A step that comes after others is not the first, and stays behind those that are left.
LEMMA TailBehind ==
  ASSUME NEW q \in Seq(HttpStep), q # <<>>, NEW K, NEW S, Behind(q, K, S)
  PROVE  Head(q) \notin K /\ (Head(q) \notin S => Behind(Tail(q), K, S))
<1> DEFINE p == Tail(q)
           n == Len(q)
<1>1. /\ n \in Nat /\ n > 0 /\ Head(q) = q[1] /\ Len(p) = n - 1
      /\ \A m \in 1..(n - 1) : p[m] = q[m + 1]
      BY TailIs
<1>2. \A m \in 1..n : q[m] \in K => \E j \in 1..(m - 1) : q[j] \in S BY DEF Behind
<1> HIDE DEF p, n
<1>3. Head(q) \notin K BY <1>1, <1>2
<1>4. ASSUME Head(q) \notin S, NEW m \in 1..Len(p), p[m] \in K
      PROVE  \E j \in 1..(m - 1) : p[j] \in S
  <2>1. m \in 1..(n - 1) /\ m + 1 \in 1..n /\ q[m + 1] \in K BY <1>1, <1>4
  <2>2. PICK j \in 1..m : q[j] \in S BY <1>2, <2>1
  <2>3. j # 1 BY <1>1, <1>4, <2>2
  <2>4. j - 1 \in 1..(m - 1) /\ j - 1 \in 1..(n - 1) /\ (j - 1) + 1 = j BY <1>1, <2>1, <2>3
  <2> QED BY <1>1, <2>2, <2>4
<1> QED BY <1>3, <1>4 DEF Behind, p

\* What is left has no step that was not there.
LEMMA TailHas ==
  ASSUME NEW q \in Seq(HttpStep), q # <<>>, NEW K
  PROVE  (Head(q) \in K => Has(q, K)) /\ (Has(Tail(q), K) => Has(q, K))
<1> DEFINE p == Tail(q)
           n == Len(q)
<1>1. /\ n \in Nat /\ n > 0 /\ Head(q) = q[1] /\ Len(p) = n - 1
      /\ \A m \in 1..(n - 1) : p[m] = q[m + 1]
      BY TailIs
<1> HIDE DEF p
<1>2. Head(q) \in K => Has(q, K) BY <1>1 DEF Has
<1>3. ASSUME Has(p, K) PROVE Has(q, K)
  <2>1. PICK m \in 1..Len(p) : p[m] \in K BY <1>3 DEF Has
  <2>2. m + 1 \in 1..n /\ q[m + 1] \in K BY <1>1, <2>1
  <2> QED BY <2>2 DEF Has
<1> QED BY <1>2, <1>3 DEF p

\* The number of changes fits the steps that are left.
LEMMA TailFits ==
  ASSUME NEW q \in Seq(HttpStep), q # <<>>, InOrder(q), NEW d \in Nat, CountsFit(d, q)
  PROVE  /\ InOrder(Tail(q)) /\ d <= ChangesBefore(Head(q)) /\ CountsFit(d, Tail(q))
         /\ Head(q) \in Changing => CountsFit(d + 1, Tail(q))
<1> DEFINE p == Tail(q)
           n == Len(q)
<1>1. /\ n \in Nat /\ n > 0 /\ Head(q) = q[1] /\ Len(p) = n - 1 /\ Head(q) \in HttpStep
      /\ \A m \in 1..(n - 1) : p[m] = q[m + 1]
      BY TailIs
<1>2. /\ \A i, j \in 1..n : i < j => ChangesAfter(q[i]) <= ChangesBefore(q[j])
      /\ \A m \in 1..n : d <= ChangesBefore(q[m])
      BY DEF InOrder, CountsFit
<1> HIDE DEF p, n
<1>3. InOrder(p)
  <2> SUFFICES ASSUME NEW i \in 1..Len(p), NEW j \in 1..Len(p), i < j
               PROVE  ChangesAfter(p[i]) <= ChangesBefore(p[j])
      BY DEF InOrder
  <2>1. i + 1 \in 1..n /\ j + 1 \in 1..n /\ i + 1 < j + 1 BY <1>1
  <2>2. p[i] = q[i + 1] /\ p[j] = q[j + 1] BY <1>1
  <2> QED BY <1>2, <2>1, <2>2
<1>4. d <= ChangesBefore(Head(q)) BY <1>1, <1>2
<1>5. \A m \in 1..Len(p) : m + 1 \in 1..n /\ 1 < m + 1 /\ 1 \in 1..n /\ p[m] = q[m + 1]
      BY <1>1
<1>6. CountsFit(d, p) BY <1>2, <1>5 DEF CountsFit
<1>7. ASSUME Head(q) \in Changing PROVE CountsFit(d + 1, p)
  <2>1. ChangesAfter(Head(q)) = ChangesBefore(Head(q)) + 1 /\ ChangesBefore(Head(q)) \in Nat
        BY <1>7 DEF ChangesAfter, ChangesBefore
  <2> SUFFICES ASSUME NEW m \in 1..Len(p) PROVE d + 1 <= ChangesBefore(p[m])
      BY DEF CountsFit
  <2>2. ChangesAfter(Head(q)) <= ChangesBefore(p[m]) BY <1>1, <1>2, <1>5
  <2>3. ChangesBefore(p[m]) \in Nat BY DEF ChangesBefore
  <2> QED BY <1>4, <2>1, <2>2, <2>3
<1> QED BY <1>3, <1>4, <1>6, <1>7 DEF p

\* Two sequences of steps in a row.
LEMMA JoinedSteps ==
  ASSUME NEW a \in Seq(HttpStep), NEW b \in Seq(HttpStep)
  PROVE  /\ a \o b \in Seq(HttpStep) /\ Len(a \o b) = Len(a) + Len(b)
         /\ Len(a) \in Nat /\ Len(b) \in Nat
         /\ \A m \in 1..Len(a) : (a \o b)[m] = a[m]
         /\ \A m \in 1..Len(b) : (a \o b)[Len(a) + m] = b[m]
         /\ \A m \in 1..(Len(a) + Len(b)) : m \in 1..Len(a) \/ m - Len(a) \in 1..Len(b)
<1>1. Len(a) \in Nat /\ Len(b) \in Nat OBVIOUS
<1>2. a \o b \in Seq(HttpStep) /\ Len(a \o b) = Len(a) + Len(b) OBVIOUS
<1>3. \A m \in 1..Len(a) : (a \o b)[m] = a[m] BY <1>1
<1>4. ASSUME NEW m \in 1..Len(b) PROVE (a \o b)[Len(a) + m] = b[m]
  <2>1. Len(a) + m \in 1..(Len(a) + Len(b)) /\ Len(a) + m > Len(a) /\ (Len(a) + m) - Len(a) = m
        BY <1>1
  <2> QED BY <1>1, <2>1
<1>5. \A m \in 1..(Len(a) + Len(b)) : m \in 1..Len(a) \/ m - Len(a) \in 1..Len(b) BY <1>1
<1> QED BY <1>1, <1>2, <1>3, <1>4, <1>5

\* What holds of the two holds of both in a row.
LEMMA JoinedHas ==
  ASSUME NEW a \in Seq(HttpStep), NEW b \in Seq(HttpStep), NEW K
  PROVE  Has(a \o b, K) = (Has(a, K) \/ Has(b, K))
<1> DEFINE c == a \o b
           x == Len(a)
           y == Len(b)
<1>1. /\ Len(c) = x + y /\ x \in Nat /\ y \in Nat /\ \A m \in 1..x : c[m] = a[m]
      /\ \A m \in 1..y : c[x + m] = b[m]
      /\ \A m \in 1..(x + y) : m \in 1..x \/ m - x \in 1..y
      BY JoinedSteps
<1> HIDE DEF c
<1>2. ASSUME Has(c, K) PROVE Has(a, K) \/ Has(b, K)
  <2>1. PICK m \in 1..(x + y) : c[m] \in K BY <1>1, <1>2 DEF Has
  <2>2. CASE m \in 1..x BY <1>1, <2>1, <2>2 DEF Has
  <2>3. CASE m - x \in 1..y
    <3>1. x + (m - x) = m BY <1>1
    <3>2. c[m] = b[m - x] BY <1>1, <2>3, <3>1
    <3> QED BY <2>1, <2>3, <3>2 DEF Has
  <2> QED BY <1>1, <2>2, <2>3
<1>3. ASSUME Has(a, K) PROVE Has(c, K)
  <2>1. PICK m \in 1..x : a[m] \in K BY <1>3 DEF Has
  <2>2. m \in 1..Len(c) /\ c[m] \in K BY <1>1, <2>1
  <2> QED BY <2>2 DEF Has
<1>4. ASSUME Has(b, K) PROVE Has(c, K)
  <2>1. PICK m \in 1..y : b[m] \in K BY <1>4 DEF Has
  <2>2. x + m \in 1..Len(c) /\ c[x + m] \in K BY <1>1, <2>1
  <2> QED BY <2>2 DEF Has
<1>5. Has(c, K) \in BOOLEAN /\ (Has(a, K) \/ Has(b, K)) \in BOOLEAN BY DEF Has
<1> QED BY <1>2, <1>3, <1>4, <1>5 DEF c

\* A step of the two in a row comes after one of S when it does so in its own sequence.
LEMMA JoinedBehind ==
  ASSUME NEW a \in Seq(HttpStep), NEW b \in Seq(HttpStep), NEW K, NEW S, Behind(a, K, S),
         Behind(b, K, S) \/ Has(a, S)
  PROVE  Behind(a \o b, K, S)
<1> DEFINE c == a \o b
           x == Len(a)
           y == Len(b)
<1>1. /\ Len(c) = x + y /\ x \in Nat /\ y \in Nat /\ \A m \in 1..x : c[m] = a[m]
      /\ \A m \in 1..y : c[x + m] = b[m]
      /\ \A m \in 1..(x + y) : m \in 1..x \/ m - x \in 1..y
      BY JoinedSteps
<1> HIDE DEF c
<1> SUFFICES ASSUME NEW m \in 1..(x + y), c[m] \in K PROVE \E j \in 1..(m - 1) : c[j] \in S
    BY <1>1 DEF Behind, c
<1>2. CASE m \in 1..x
  <2>1. PICK j \in 1..(m - 1) : a[j] \in S BY <1>1, <1>2 DEF Behind
  <2>2. j \in 1..x BY <1>1, <1>2
  <2> QED BY <1>1, <2>1, <2>2
<1>3. CASE m - x \in 1..y
  <2>1. x + (m - x) = m BY <1>1
  <2>2. b[m - x] \in K BY <1>1, <1>3, <2>1
  <2>3. CASE Behind(b, K, S)
    <3>1. PICK j \in 1..((m - x) - 1) : b[j] \in S BY <1>3, <2>2, <2>3 DEF Behind
    <3>2. j \in 1..y /\ x + j \in 1..(m - 1) BY <1>1, <1>3
    <3> QED BY <1>1, <3>1, <3>2
  <2>4. CASE Has(a, S)
    <3>1. PICK j \in 1..x : a[j] \in S BY <2>4 DEF Has
    <3>2. j \in 1..(m - 1) BY <1>1, <1>3
    <3> QED BY <1>1, <3>1, <3>2
  <2> QED BY <2>3, <2>4
<1> QED BY <1>1, <1>2, <1>3

\* Guards that change nothing ahead of a handler keep the order of its changes.
LEMMA JoinedOrder ==
  ASSUME NEW a \in Seq(HttpStep), NEW b \in Seq(HttpStep), Quiet(a), InOrder(b)
  PROVE  InOrder(a \o b) /\ (Quiet(b) => Quiet(a \o b))
<1> DEFINE c == a \o b
           x == Len(a)
           y == Len(b)
<1>1. /\ Len(c) = x + y /\ x \in Nat /\ y \in Nat /\ \A m \in 1..x : c[m] = a[m]
      /\ \A m \in 1..y : c[x + m] = b[m]
      /\ \A m \in 1..(x + y) : m \in 1..x \/ m - x \in 1..y
      BY JoinedSteps
<1>2. \A s : ChangesBefore(s) \in Nat BY DEF ChangesBefore
<1> HIDE DEF c
<1>3. ASSUME NEW i \in 1..Len(c), NEW j \in 1..Len(c), i < j
      PROVE  ChangesAfter(c[i]) <= ChangesBefore(c[j])
  <2>1. CASE i \in 1..x
    <3>1. ChangesAfter(c[i]) = 0 BY <1>1, <2>1 DEF Quiet
    <3> QED BY <1>2, <3>1
  <2>2. CASE i - x \in 1..y
    <3>1. j - x \in 1..y /\ i - x < j - x /\ x + (i - x) = i /\ x + (j - x) = j
          BY <1>1, <1>3, <2>2
    <3>2. c[i] = b[i - x] /\ c[j] = b[j - x] BY <1>1, <2>2, <3>1
    <3> QED BY <2>2, <3>1, <3>2 DEF InOrder
  <2> QED BY <1>1, <2>1, <2>2
<1>4. ASSUME Quiet(b), NEW m \in 1..Len(c) PROVE ChangesAfter(c[m]) = 0
  <2>1. CASE m \in 1..x BY <1>1, <2>1 DEF Quiet
  <2>2. CASE m - x \in 1..y
    <3>1. x + (m - x) = m BY <1>1
    <3>2. c[m] = b[m - x] BY <1>1, <2>2, <3>1
    <3> QED BY <1>4, <2>2, <3>2 DEF Quiet
  <2> QED BY <1>1, <2>1, <2>2
<1> QED BY <1>3, <1>4 DEF InOrder, Quiet, c

\* What the handlers do: those that change nothing, those that change something, and of
\* these the ones that ask for the caller first.
HttpReads == {<<"answer">>, <<"find", "answer">>, <<"own", "answer">>, <<"own", "find", "answer">>,
              <<"body", "find", "answer">>}
HttpWrites == {<<"write", "answer">>, <<"write", "more", "answer">>, <<"body", "write", "answer">>,
               <<"body", "write", "more", "answer">>, <<"body", "find", "write", "answer">>}
HttpOwnWrites == {<<"own", "write", "answer">>, <<"own", "write", "more", "answer">>,
                  <<"own", "find", "write", "answer">>, <<"own", "body", "write", "answer">>,
                  <<"own", "body", "find", "write", "answer">>,
                  <<"own", "body", "write", "log", "answer">>}
PatchSteps == <<"own", "find", "write", "roles", "more", "answer">>
HttpGuards == {"json", "cors", "authenticate", "key", "auth", "admin", "csrf", "limit"}

Handles(t) ==
  /\ t \in Seq(HttpStep) /\ InOrder(t) /\ Behind(t, {"log"}, {"write"})
  /\ ~Has(t, HttpGuards) /\ Len(t) > 0 /\ t[Len(t)] = "answer"

\* A handler makes its changes in order, logs after one and ends with an answer.
LEMMA HandlersAre ==
  /\ \A t \in HttpReads : Handles(t) /\ ~Has(t, Changing)
  /\ \A t \in HttpWrites : Handles(t) /\ ~Has(t, {"own", "roles"})
  /\ \A t \in HttpOwnWrites : Handles(t) /\ ~Has(t, {"roles"}) /\ Behind(t, Changing, {"own"})
  /\ Handles(PatchSteps) /\ Behind(PatchSteps, Changing, {"own"})
<1> USE DEF Handles, HttpStep, InOrder, Behind, Has, HttpGuards, Changing, ChangesAfter,
            ChangesBefore
<1>1. Handles(<<"answer">>) /\ ~Has(<<"answer">>, Changing) OBVIOUS
<1>2. Handles(<<"find", "answer">>) /\ ~Has(<<"find", "answer">>, Changing) OBVIOUS
<1>3. Handles(<<"own", "answer">>) /\ ~Has(<<"own", "answer">>, Changing) OBVIOUS
<1>4. Handles(<<"own", "find", "answer">>) /\ ~Has(<<"own", "find", "answer">>, Changing) OBVIOUS
<1>5. Handles(<<"body", "find", "answer">>) /\ ~Has(<<"body", "find", "answer">>, Changing) OBVIOUS
<1>6. Handles(<<"write", "answer">>) /\ ~Has(<<"write", "answer">>, {"own", "roles"}) OBVIOUS
<1>7. /\ Handles(<<"write", "more", "answer">>)
     /\ ~Has(<<"write", "more", "answer">>, {"own", "roles"})
     OBVIOUS
<1>8. /\ Handles(<<"body", "write", "answer">>)
     /\ ~Has(<<"body", "write", "answer">>, {"own", "roles"})
     OBVIOUS
<1>9. /\ Handles(<<"body", "write", "more", "answer">>)
     /\ ~Has(<<"body", "write", "more", "answer">>, {"own", "roles"})
     OBVIOUS
<1>10. /\ Handles(<<"body", "find", "write", "answer">>)
      /\ ~Has(<<"body", "find", "write", "answer">>, {"own", "roles"})
      OBVIOUS
<1>11. /\ Handles(<<"own", "write", "answer">>)
      /\ ~Has(<<"own", "write", "answer">>, {"roles"})
      /\ Behind(<<"own", "write", "answer">>, Changing, {"own"})
      OBVIOUS
<1>12. /\ Handles(<<"own", "write", "more", "answer">>)
      /\ ~Has(<<"own", "write", "more", "answer">>, {"roles"})
      /\ Behind(<<"own", "write", "more", "answer">>, Changing, {"own"})
      OBVIOUS
<1>13. /\ Handles(<<"own", "find", "write", "answer">>)
      /\ ~Has(<<"own", "find", "write", "answer">>, {"roles"})
      /\ Behind(<<"own", "find", "write", "answer">>, Changing, {"own"})
      OBVIOUS
<1>14. /\ Handles(<<"own", "body", "write", "answer">>)
      /\ ~Has(<<"own", "body", "write", "answer">>, {"roles"})
      /\ Behind(<<"own", "body", "write", "answer">>, Changing, {"own"})
      OBVIOUS
<1>15. /\ Handles(<<"own", "body", "find", "write", "answer">>)
      /\ ~Has(<<"own", "body", "find", "write", "answer">>, {"roles"})
      /\ Behind(<<"own", "body", "find", "write", "answer">>, Changing, {"own"})
      OBVIOUS
<1>16. /\ Handles(<<"own", "body", "write", "log", "answer">>)
      /\ ~Has(<<"own", "body", "write", "log", "answer">>, {"roles"})
      /\ Behind(<<"own", "body", "write", "log", "answer">>, Changing, {"own"})
      OBVIOUS
<1>17. Handles(PatchSteps) /\ Behind(PatchSteps, Changing, {"own"}) BY DEF PatchSteps
<1> HIDE DEF Handles, HttpStep, InOrder, Behind, Has, HttpGuards, Changing, ChangesAfter,
             ChangesBefore
<1>18. \A t \in HttpReads : Handles(t) /\ ~Has(t, Changing)
       BY <1>1, <1>2, <1>3, <1>4, <1>5 DEF HttpReads
<1>19. \A t \in HttpWrites : Handles(t) /\ ~Has(t, {"own", "roles"})
       BY <1>6, <1>7, <1>8, <1>9, <1>10 DEF HttpWrites
<1>20. \A t \in HttpOwnWrites : Handles(t) /\ ~Has(t, {"roles"}) /\ Behind(t, Changing, {"own"})
       BY <1>11, <1>12, <1>13, <1>14, <1>15, <1>16 DEF HttpOwnWrites
<1> QED BY <1>17, <1>18, <1>19, <1>20

\* What is known of a route: its guards, its handler, and how they go together.
RouteIs(R, e, rt) ==
  /\ \/ rt.mount \in {RequestsOf(R, e)!AuthMount, RequestsOf(R, e)!MfaMount, RequestsOf(R, e)!MemberMount, RequestsOf(R, e)!OauthMount, RequestsOf(R, e)!AdminMount}
     \/ rt = RequestsOf(R, e)!ping /\ rt.mount = RequestsOf(R, e)!KeyMount
     \/ rt.mount = <<>> /\ (rt.steps = <<"answer">> \/ rt = RequestsOf(R, e)!preflight)
  /\ \/ rt.steps \in HttpReads
     \/ /\ rt = RequestsOf(R, e)!preflight /\ rt.steps = <<>> /\ rt.scope = "options"
        /\ rt.mount = <<>>
        /\ rt.limit = "none"
     \/ /\ rt.scope \in {"ip", "user", "client"}
        /\ \/ rt.mount \in {RequestsOf(R, e)!AuthMount, RequestsOf(R, e)!MfaMount} /\ ~rt.safe
           \/ rt.mount \in {RequestsOf(R, e)!MemberMount, RequestsOf(R, e)!OauthMount, RequestsOf(R, e)!AdminMount}
        /\ \/ rt.needs = "anyone"
           \/ rt.mount \in {RequestsOf(R, e)!MfaMount, RequestsOf(R, e)!MemberMount, RequestsOf(R, e)!AdminMount}
           \/ rt.steps \in HttpOwnWrites
        /\ rt.steps \in HttpWrites \/ rt.steps \in HttpOwnWrites
             \/ (rt = RequestsOf(R, e)!patchUser /\ rt.steps = PatchSteps)
  /\ rt.needs = "admin" => rt.mount = RequestsOf(R, e)!AdminMount
  /\ rt.limit \in RequestsOf(R, e)!Types \cup {"none"}

\* Every route that is served is of one of these forms.
LEMMA RoutesAre == ASSUME NEW R, NEW e, NEW rt \in RequestsOf(R, e)!All PROVE RouteIs(R, e, rt)
<1>0. RequestsOf(R, e)!OauthMount \o <<"auth", "admin">> = RequestsOf(R, e)!AdminMount
  <2> DEFINE a == <<"authenticate">>
             b == <<"auth", "admin">>
             c == <<"authenticate", "auth", "admin">>
  <2>1. a \in Seq(HttpStep) /\ b \in Seq(HttpStep) /\ c \in Seq(HttpStep) BY DEF HttpStep
  <2>2. /\ Len(a) = 1 /\ a[1] = "authenticate" /\ Len(b) = 2 /\ b[1] = "auth" /\ b[2] = "admin"
        /\ Len(c) = 3 /\ c[1] = "authenticate" /\ c[2] = "auth" /\ c[3] = "admin"
        OBVIOUS
  <2> HIDE DEF a, b, c
  <2>3. /\ a \o b \in Seq(HttpStep) /\ Len(a \o b) = 3 /\ (a \o b)[1] = "authenticate"
        /\ (a \o b)[2] = "auth" /\ (a \o b)[3] = "admin"
    <3>1. /\ a \o b \in Seq(HttpStep) /\ Len(a \o b) = Len(a) + Len(b)
          /\ \A m \in 1..Len(a) : (a \o b)[m] = a[m]
          /\ \A m \in 1..Len(b) : (a \o b)[Len(a) + m] = b[m]
          BY <2>1, JoinedSteps
    <3>2. (a \o b)[1] = a[1] /\ (a \o b)[1 + 1] = b[1] /\ (a \o b)[1 + 2] = b[2]
          /\ Len(a \o b) = 1 + 2
          BY <2>2, <3>1
    <3> QED BY <2>2, <3>1, <3>2
  <2> DEFINE d == a \o b
  <2>4. d \in Seq(HttpStep) /\ Len(d) = 3 /\ d[1] = c[1] /\ d[2] = c[2] /\ d[3] = c[3]
        BY <2>2, <2>3
  <2> HIDE DEF d
  <2>5. d = c
    <3>1. \A i \in 1..3 : d[i] = c[i] BY <2>4
    <3> QED BY <2>1, <2>2, <2>4, <3>1
  <2> QED BY <2>5 DEF a, b, c, d, RequestsOf!OauthMount, RequestsOf!AdminMount
<1>1. CASE rt \in {RequestsOf(R, e)!register, RequestsOf(R, e)!login, RequestsOf(R, e)!logout, RequestsOf(R, e)!refresh,
                 RequestsOf(R, e)!otpSend, RequestsOf(R, e)!otpVerify, RequestsOf(R, e)!otpLogin,
                   RequestsOf(R, e)!passwordChange}
      BY <1>1 DEF RouteIs, HttpReads, HttpWrites, HttpOwnWrites, PatchSteps, RequestsOf!Types,
                  RequestsOf!Open, RequestsOf!Post, RequestsOf!register, RequestsOf!login,
                    RequestsOf!logout, RequestsOf!refresh, RequestsOf!otpSend, RequestsOf!otpVerify,
                      RequestsOf!otpLogin, RequestsOf!passwordChange
<1>2. CASE rt \in {RequestsOf(R, e)!passwordReset, RequestsOf(R, e)!passwordForgot, RequestsOf(R, e)!emailVerify, RequestsOf(R, e)!csrfToken,
                 RequestsOf(R, e)!listSessions, RequestsOf(R, e)!revokeAll,
                   RequestsOf(R, e)!revokeOne, RequestsOf(R, e)!mfaSetup}
      BY <1>2 DEF RouteIs, HttpReads, HttpWrites, HttpOwnWrites, PatchSteps, RequestsOf!Types,
                  RequestsOf!Get, RequestsOf!Open, RequestsOf!Post, RequestsOf!passwordReset,
                    RequestsOf!passwordForgot, RequestsOf!emailVerify, RequestsOf!csrfToken,
                      RequestsOf!listSessions, RequestsOf!revokeAll, RequestsOf!revokeOne,
                        RequestsOf!mfaSetup
<1>3. CASE rt \in {RequestsOf(R, e)!mfaEnable, RequestsOf(R, e)!mfaVerify, RequestsOf(R, e)!mfaDisable, RequestsOf(R, e)!mfaLogin,
                 RequestsOf(R, e)!verifyForgot, RequestsOf(R, e)!resetConfirm,
                   RequestsOf(R, e)!verifyToken, RequestsOf(R, e)!magicSend}
      BY <1>3 DEF RouteIs, HttpReads, HttpWrites, HttpOwnWrites, PatchSteps, RequestsOf!Types,
                  RequestsOf!Open, RequestsOf!Post, RequestsOf!mfaEnable, RequestsOf!mfaVerify,
                    RequestsOf!mfaDisable, RequestsOf!mfaLogin, RequestsOf!verifyForgot,
                      RequestsOf!resetConfirm, RequestsOf!verifyToken, RequestsOf!magicSend
<1>4. CASE rt \in {RequestsOf(R, e)!magicRedeem, RequestsOf(R, e)!authorize, RequestsOf(R, e)!tokenExchange, RequestsOf(R, e)!scimList,
                 RequestsOf(R, e)!scimGet, RequestsOf(R, e)!scimCreate, RequestsOf(R, e)!scimPatch,
                   RequestsOf(R, e)!webhookList}
      BY <1>4 DEF RouteIs, HttpReads, HttpWrites, HttpOwnWrites, PatchSteps, RequestsOf!Types,
                  RequestsOf!Get, RequestsOf!Open, RequestsOf!Post, RequestsOf!magicRedeem,
                    RequestsOf!authorize, RequestsOf!tokenExchange, RequestsOf!scimList,
                      RequestsOf!scimGet, RequestsOf!scimCreate, RequestsOf!scimPatch,
                        RequestsOf!webhookList
<1>5. CASE rt \in {RequestsOf(R, e)!webhookCreate, RequestsOf(R, e)!webhookTest, RequestsOf(R, e)!teamList, RequestsOf(R, e)!teamCreate,
                 RequestsOf(R, e)!teamMembers, RequestsOf(R, e)!subscribe,
                   RequestsOf(R, e)!entitlements, RequestsOf(R, e)!graphql}
      BY <1>5 DEF RouteIs, HttpReads, HttpWrites, HttpOwnWrites, PatchSteps, RequestsOf!Types,
                  RequestsOf!Get, RequestsOf!Post, RequestsOf!webhookCreate, RequestsOf!webhookTest,
                    RequestsOf!teamList, RequestsOf!teamCreate, RequestsOf!teamMembers,
                      RequestsOf!subscribe, RequestsOf!entitlements, RequestsOf!graphql
<1>6. CASE rt \in {RequestsOf(R, e)!usersMe, RequestsOf(R, e)!ping, RequestsOf(R, e)!wellKnown, RequestsOf(R, e)!health,
                 RequestsOf(R, e)!preflight, RequestsOf(R, e)!stats, RequestsOf(R, e)!listTenants,
                   RequestsOf(R, e)!createTenant}
      BY <1>6 DEF RouteIs, HttpReads, HttpWrites, HttpOwnWrites, PatchSteps, RequestsOf!Types,
                  RequestsOf!AdminRoute, RequestsOf!Get, RequestsOf!Post, RequestsOf!View,
                    RequestsOf!usersMe, RequestsOf!ping, RequestsOf!wellKnown, RequestsOf!health,
                      RequestsOf!preflight, RequestsOf!stats, RequestsOf!listTenants,
                        RequestsOf!createTenant
<1>7. CASE rt \in {RequestsOf(R, e)!getTenant, RequestsOf(R, e)!updateTenant, RequestsOf(R, e)!getUser, RequestsOf(R, e)!userRoles,
                 RequestsOf(R, e)!userPermissions, RequestsOf(R, e)!patchUser,
                   RequestsOf(R, e)!deleteUser, RequestsOf(R, e)!listRoles}
      BY <1>7 DEF RouteIs, HttpReads, HttpWrites, HttpOwnWrites, PatchSteps, RequestsOf!Types,
                  RequestsOf!AdminRoute, RequestsOf!Get, RequestsOf!Post, RequestsOf!View,
                    RequestsOf!getTenant, RequestsOf!updateTenant, RequestsOf!getUser,
                      RequestsOf!userRoles, RequestsOf!userPermissions, RequestsOf!patchUser,
                        RequestsOf!deleteUser, RequestsOf!listRoles
<1>8. CASE rt \in {RequestsOf(R, e)!patchRole, RequestsOf(R, e)!listPermissions, RequestsOf(R, e)!canDo, RequestsOf(R, e)!listClients,
                 RequestsOf(R, e)!createClient, RequestsOf(R, e)!disableClient,
                   RequestsOf(R, e)!patchClient, RequestsOf(R, e)!adminSessions}
      BY <1>8 DEF RouteIs, HttpReads, HttpWrites, HttpOwnWrites, PatchSteps, RequestsOf!Types,
                  RequestsOf!AdminRoute, RequestsOf!Get, RequestsOf!Post, RequestsOf!View,
                    RequestsOf!patchRole, RequestsOf!listPermissions, RequestsOf!canDo,
                      RequestsOf!listClients, RequestsOf!createClient, RequestsOf!disableClient,
                        RequestsOf!patchClient, RequestsOf!adminSessions
<1>9. CASE rt \in {RequestsOf(R, e)!revokeSession, RequestsOf(R, e)!auditTrail, RequestsOf(R, e)!listKeys, RequestsOf(R, e)!createKey,
                 RequestsOf(R, e)!revokeKey, RequestsOf(R, e)!listWebhooks,
                   RequestsOf(R, e)!addWebhook, RequestsOf(R, e)!testWebhook}
      BY <1>9 DEF RouteIs, HttpReads, HttpWrites, HttpOwnWrites, PatchSteps, RequestsOf!Types,
                  RequestsOf!AdminRoute, RequestsOf!Get, RequestsOf!Post, RequestsOf!View,
                    RequestsOf!revokeSession, RequestsOf!auditTrail, RequestsOf!listKeys,
                      RequestsOf!createKey, RequestsOf!revokeKey, RequestsOf!listWebhooks,
                        RequestsOf!addWebhook, RequestsOf!testWebhook
<1>10. CASE rt \in {RequestsOf(R, e)!breaches, RequestsOf(R, e)!getSettings, RequestsOf(R, e)!patchSettings, RequestsOf(R, e)!subscriptions}
      BY <1>10 DEF RouteIs, HttpReads, HttpWrites, HttpOwnWrites, PatchSteps, RequestsOf!Types,
                   RequestsOf!AdminRoute, RequestsOf!Get, RequestsOf!Post, RequestsOf!View,
                     RequestsOf!breaches, RequestsOf!getSettings, RequestsOf!patchSettings,
                       RequestsOf!subscriptions
<1>11. CASE rt \in {RequestsOf(R, e)!registerClient}
      BY <1>11, <1>0 DEF RouteIs, HttpReads, HttpWrites, HttpOwnWrites, PatchSteps,
                         RequestsOf!Types, RequestsOf!Post, RequestsOf!registerClient
<1> QED BY <1>1, <1>2, <1>3, <1>4, <1>5, <1>6, <1>7, <1>8, <1>9, <1>10, <1>11 DEF RequestsOf!All

\* What keeps a sequence of steps in order, or behind others, without looking further.
LEMMA PlainSteps ==
  ASSUME NEW q \in Seq(HttpStep), NEW K, NEW S
  PROVE  (Quiet(q) => InOrder(q)) /\ (~Has(q, K) => Behind(q, K, S)) /\ CountsFit(0, q)
<1>1. \A s : ChangesBefore(s) \in Nat BY DEF ChangesBefore
<1>2. Quiet(q) => InOrder(q) BY <1>1 DEF Quiet, InOrder
<1>3. ~Has(q, K) => Behind(q, K, S) BY DEF Has, Behind
<1>4. CountsFit(0, q) BY <1>1 DEF CountsFit
<1> QED BY <1>2, <1>3, <1>4

\* More kinds of steps to come after are more chances.
LEMMA BehindMore ==
  ASSUME NEW q, NEW K, NEW S, NEW T, S \subseteq T
  PROVE  (Behind(q, K, S) => Behind(q, K, T)) /\ (Has(q, S) => Has(q, T))
BY DEF Behind, Has

\* Steps of a handler.
HandlerSteps == Changing \cup {"log", "own", "body", "find", "answer"}

\* The guards of a mount: nobody is asked for before he could say who he is.
MountIs(R, e, m) ==
  /\ m \in Seq(HttpStep) /\ Quiet(m) /\ ~Has(m, HandlerSteps) /\ ~Has(m, {"limit"})
  /\ m # RequestsOf(R, e)!KeyMount => Behind(m, {"auth", "own"}, {"authenticate"})
       /\ ~Has(m, {"key"})
  /\ m = RequestsOf(R, e)!KeyMount => ~Has(m, {"authenticate"})
  /\ m # RequestsOf(R, e)!KeyMount /\ m # <<>> => Has(m, {"authenticate"})
  /\ m \in {RequestsOf(R, e)!MfaMount, RequestsOf(R, e)!MemberMount, RequestsOf(R, e)!AdminMount} =>
         Has(m, {"auth"})
  /\ m \in {RequestsOf(R, e)!AuthMount, RequestsOf(R, e)!MfaMount} => Has(m, {"csrf"})
  /\ m = RequestsOf(R, e)!AdminMount => Has(m, {"admin"})

\* Every mount is of this form.
LEMMA MountsAre ==
  ASSUME NEW R, NEW e
  PROVE  /\ MountIs(R, e, RequestsOf(R, e)!AuthMount) /\ MountIs(R, e, RequestsOf(R, e)!MfaMount)
         /\ MountIs(R, e, RequestsOf(R, e)!MemberMount)
         /\ MountIs(R, e, RequestsOf(R, e)!OauthMount) /\ MountIs(R, e, RequestsOf(R, e)!AdminMount)
         /\ MountIs(R, e, RequestsOf(R, e)!KeyMount)
         /\ MountIs(R, e, <<>>)
<1> USE DEF MountIs, HttpStep, Quiet, Behind, Has, HandlerSteps, Changing, ChangesAfter,
      ChangesBefore,
            RequestsOf!AuthMount, RequestsOf!MfaMount, RequestsOf!MemberMount,
              RequestsOf!OauthMount, RequestsOf!AdminMount, RequestsOf!KeyMount
<1>1. MountIs(R, e, RequestsOf(R, e)!AuthMount) OBVIOUS
<1>2. MountIs(R, e, RequestsOf(R, e)!MfaMount) OBVIOUS
<1>3. MountIs(R, e, RequestsOf(R, e)!MemberMount) OBVIOUS
<1>4. MountIs(R, e, RequestsOf(R, e)!OauthMount) OBVIOUS
<1>5. MountIs(R, e, RequestsOf(R, e)!AdminMount) OBVIOUS
<1>6. MountIs(R, e, RequestsOf(R, e)!KeyMount) OBVIOUS
<1>7. MountIs(R, e, <<>>) OBVIOUS
<1> HIDE DEF MountIs
<1> QED BY <1>1, <1>2, <1>3, <1>4, <1>5, <1>6, <1>7

\* The mounts differ.
LEMMA MountsDiffer ==
  ASSUME NEW R, NEW e
  PROVE  /\ RequestsOf(R, e)!KeyMount # <<>>
         /\ {RequestsOf(R, e)!AuthMount, RequestsOf(R, e)!MfaMount} \cap {RequestsOf(R, e)!MemberMount, RequestsOf(R, e)!OauthMount, RequestsOf(R, e)!AdminMount, RequestsOf(R, e)!KeyMount, <<>>} = {}
         /\ RequestsOf(R, e)!KeyMount \notin {RequestsOf(R, e)!AuthMount, RequestsOf(R, e)!MfaMount, RequestsOf(R, e)!MemberMount, RequestsOf(R, e)!OauthMount, RequestsOf(R, e)!AdminMount}
         /\ <<>> \notin {RequestsOf(R, e)!AuthMount, RequestsOf(R, e)!MfaMount, RequestsOf(R, e)!MemberMount, RequestsOf(R, e)!OauthMount, RequestsOf(R, e)!AdminMount}
BY DEF RequestsOf!AuthMount, RequestsOf!MfaMount, RequestsOf!MemberMount, RequestsOf!OauthMount,
   RequestsOf!AdminMount, RequestsOf!KeyMount

\* What the server wires ahead of the handler, in a row.
Ahead(R, e, rt) == (<<"json", "cors">> \o rt.mount) \o RequestsOf(R, e)!Limited(rt)

\* What is wired ahead of a handler is made of the mount, cors and the limiter.
LEMMA AheadIs ==
  ASSUME NEW R, NEW e, NEW rt, MountIs(R, e, rt.mount)
  PROVE  LET p == Ahead(R, e, rt)
             m == rt.mount
         IN  /\ p \in Seq(HttpStep) /\ Quiet(p) /\ ~Has(p, HandlerSteps)
             /\ Has(p, {"cors"}) /\ (Has(p, {"limit"}) => rt.limit # "none")
             /\ \A K \in {{"authenticate"}, {"key"}, {"auth"}, {"csrf"}, {"admin"}} : Has(p, K) = Has(m, K)
             /\ m # RequestsOf(R, e)!KeyMount => Behind(p, {"auth", "own"}, {"authenticate"})
<1> DEFINE j == <<"json", "cors">>
           m == rt.mount
           l == RequestsOf(R, e)!Limited(rt)
           n == j \o m
           p == n \o l
           Kinds == {{"authenticate"}, {"key"}, {"auth"}, {"csrf"}, {"admin"}}
<1>1. /\ j \in Seq(HttpStep) /\ Quiet(j) /\ ~Has(j, HandlerSteps) /\ Has(j, {"cors"})
      /\ ~Has(j, {"limit"})
      /\ \A K \in Kinds : ~Has(j, K) /\ ~Has(j, {"auth", "own"})
      BY DEF HttpStep, Quiet, Has, HandlerSteps, Changing, ChangesAfter, ChangesBefore
<1>2. /\ l \in Seq(HttpStep) /\ Quiet(l) /\ ~Has(l, HandlerSteps)
      /\ (Has(l, {"limit"}) => rt.limit # "none")
      /\ \A K \in Kinds : ~Has(l, K) /\ ~Has(l, {"auth", "own"})
  <2>1. CASE rt.limit = "none"
    <3>1. l = <<>> BY <2>1 DEF RequestsOf!Limited
    <3> QED BY <3>1 DEF HttpStep, Quiet, Has
  <2>2. CASE rt.limit # "none"
    <3>1. l = <<"limit">> BY <2>2 DEF RequestsOf!Limited
    <3> HIDE DEF l
    <3> QED BY <2>2, <3>1 DEF HttpStep, Quiet, Has, HandlerSteps, Changing, ChangesAfter,
          ChangesBefore
  <2> QED BY <2>1, <2>2
<1>3. /\ m \in Seq(HttpStep) /\ Quiet(m) /\ ~Has(m, HandlerSteps) /\ ~Has(m, {"limit"})
      /\ m # RequestsOf(R, e)!KeyMount => Behind(m, {"auth", "own"}, {"authenticate"})
      BY DEF MountIs
<1> HIDE DEF j, m, l
<1>4. InOrder(m) /\ InOrder(l) BY <1>2, <1>3, PlainSteps
<1>5. n \in Seq(HttpStep) /\ Quiet(n) BY <1>1, <1>3, <1>4, JoinedSteps, JoinedOrder
<1>6. \A K : Has(n, K) = (Has(j, K) \/ Has(m, K)) BY <1>1, <1>3, JoinedHas
<1>7. ASSUME m # RequestsOf(R, e)!KeyMount PROVE Behind(n, {"auth", "own"}, {"authenticate"})
  <2>1. Behind(j, {"auth", "own"}, {"authenticate"}) BY <1>1, PlainSteps
  <2> QED BY <1>1, <1>3, <1>7, <2>1, JoinedBehind
<1> HIDE DEF n
<1>8. p \in Seq(HttpStep) /\ Quiet(p) BY <1>2, <1>4, <1>5, JoinedSteps, JoinedOrder
<1>9. \A K : Has(p, K) = (Has(n, K) \/ Has(l, K)) BY <1>2, <1>5, JoinedHas
<1>10. ASSUME m # RequestsOf(R, e)!KeyMount PROVE Behind(p, {"auth", "own"}, {"authenticate"})
  <2>1. Behind(l, {"auth", "own"}, {"authenticate"}) BY <1>2, PlainSteps
  <2> QED BY <1>2, <1>5, <1>7, <1>10, <2>1, JoinedBehind
<1> HIDE DEF p
<1>11. ~Has(p, HandlerSteps) /\ Has(p, {"cors"}) /\ (Has(p, {"limit"}) => rt.limit # "none")
       BY <1>1, <1>2, <1>3, <1>6, <1>9
<1>12. \A K : Has(m, K) \in BOOLEAN BY DEF Has
<1>13. \A K \in Kinds : Has(p, K) = Has(m, K) BY <1>1, <1>2, <1>6, <1>9, <1>12
<1>14. p = Ahead(R, e, rt) BY DEF p, n, j, m, l, Ahead
<1> QED BY <1>8, <1>10, <1>11, <1>13, <1>14 DEF m

\* What is left of a request for its route, who it is found to be from and what it has done:
\* no change is left to be made unless a guard that has not been passed comes before it.
HttpFit(R, e, rt, b, who, sn, d, q) ==
  /\ InOrder(q) /\ CountsFit(d, q)
  /\ b.foreign => Behind(q, Changing, {"cors"})
  /\ rt.needs # "anyone" /\ who = "none" => Behind(q, Changing, {"auth", "own"})
  /\ rt.needs = "admin" /\ who # "admin" => Behind(q, Changing, {"admin"})
  /\ rt.mount \in {RequestsOf(R, e)!AuthMount, RequestsOf(R, e)!MfaMount} /\ ~b.csrf =>
         Behind(q, Changing, {"csrf"})
  /\ who = "none" /\ "refused" \notin sn /\ rt # RequestsOf(R, e)!ping =>
       Behind(q, {"auth", "own"}, {"authenticate"})
  /\ d = 0 => Behind(q, {"log"}, {"write"})
  /\ Has(q, Changing) => /\ rt.scope \notin {"public", "options"}
                         /\ rt.mount \in {RequestsOf(R, e)!AuthMount, RequestsOf(R, e)!MfaMount} =>
                                ~rt.safe
  /\ Has(q, {"roles"}) => rt = RequestsOf(R, e)!patchUser
  /\ Has(q, {"limit"}) => rt.limit \in RequestsOf(R, e)!Types
  /\ Has(q, {"authenticate"}) => rt.mount # RequestsOf(R, e)!KeyMount
  /\ Has(q, {"key"}) => rt.mount = RequestsOf(R, e)!KeyMount
  /\ q # <<>> => q[Len(q)] = "answer" \/ (q[Len(q)] = "cors" /\ rt.scope = "options")

\* The chain of the route that only answers for cors.
LEMMA PreflightEnds ==
  ASSUME NEW R, NEW e, NEW rt, rt.mount = <<>>, rt.limit = "none", rt.steps = <<>>
  PROVE  RequestsOf(R, e)!Chain(rt)[Len(RequestsOf(R, e)!Chain(rt))] = "cors"
<1> DEFINE j == <<"json", "cors">>
<1>1. j \in Seq(HttpStep) /\ <<>> \in Seq(HttpStep) /\ Len(j) = 2 /\ j[2] = "cors" /\ Len(<<>>) = 0
      BY DEF HttpStep
<1>2. RequestsOf(R, e)!Chain(rt) = ((j \o <<>>) \o <<>>) \o <<>>
      BY DEF RequestsOf!Chain, RequestsOf!Limited
<1> HIDE DEF j
<1>3. \A a \in Seq(HttpStep) :
        a \o <<>> \in Seq(HttpStep) /\ Len(a \o <<>>) = Len(a)
          /\ \A m \in 1..Len(a) : (a \o <<>>)[m] = a[m]
  <2> SUFFICES ASSUME NEW a \in Seq(HttpStep)
               PROVE  /\ a \o <<>> \in Seq(HttpStep) /\ Len(a \o <<>>) = Len(a)
                      /\ \A m \in 1..Len(a) : (a \o <<>>)[m] = a[m]
      OBVIOUS
  <2>1. /\ a \o <<>> \in Seq(HttpStep) /\ Len(a \o <<>>) = Len(a) + Len(<<>>) /\ Len(a) \in Nat
        /\ \A m \in 1..Len(a) : (a \o <<>>)[m] = a[m]
        BY <1>1, JoinedSteps
  <2> QED BY <1>1, <2>1
<1> DEFINE j1 == j \o <<>>
           j2 == j1 \o <<>>
           j3 == j2 \o <<>>
<1>4. j1 \in Seq(HttpStep) /\ Len(j1) = 2 /\ j1[2] = "cors" BY <1>1, <1>3
<1> HIDE DEF j1
<1>5. j2 \in Seq(HttpStep) /\ Len(j2) = 2 /\ j2[2] = "cors" BY <1>3, <1>4
<1> HIDE DEF j2
<1>6. j3 \in Seq(HttpStep) /\ Len(j3) = 2 /\ j3[2] = "cors" BY <1>3, <1>5
<1> HIDE DEF j3
<1>7. RequestsOf(R, e)!Chain(rt) = j3 BY <1>2 DEF j1, j2, j3
<1> QED BY <1>6, <1>7

\* What is known of the mount and of the handler of a route.
LEMMA RouteParts ==
  ASSUME NEW R, NEW e, NEW rt, RouteIs(R, e, rt)
  PROVE  /\ MountIs(R, e, rt.mount)
         /\ rt.mount = RequestsOf(R, e)!KeyMount => rt = RequestsOf(R, e)!ping
         /\ rt.steps \in Seq(HttpStep) /\ InOrder(rt.steps) /\ Behind(rt.steps, {"log"}, {"write"})
         /\ ~Has(rt.steps, HttpGuards)
         /\ Has(rt.steps, {"roles"}) => rt = RequestsOf(R, e)!patchUser
         /\ \/ Len(rt.steps) > 0 /\ rt.steps[Len(rt.steps)] = "answer"
            \/ rt.mount = <<>> /\ rt.limit = "none" /\ rt.steps = <<>> /\ rt.scope = "options"
<1>1. MountIs(R, e, rt.mount) BY MountsAre DEF RouteIs
<1>2. rt.mount = RequestsOf(R, e)!KeyMount => rt = RequestsOf(R, e)!ping BY MountsDiffer DEF RouteIs
<1>3. \/ /\ rt.steps = <<>> /\ rt.scope = "options" /\ rt.mount = <<>> /\ rt.limit = "none"
      \/ rt.steps \in HttpReads \/ rt.steps \in HttpWrites \/ rt.steps \in HttpOwnWrites
      \/ rt = RequestsOf(R, e)!patchUser /\ rt.steps = PatchSteps
      BY DEF RouteIs
<1>4. CASE rt.steps = <<>> /\ rt.scope = "options" /\ rt.mount = <<>> /\ rt.limit = "none"
  <2>1. <<>> \in Seq(HttpStep) /\ Quiet(<<>>) /\ \A K : ~Has(<<>>, K)
        BY DEF Quiet, Has
  <2> QED BY <1>1, <1>2, <1>4, <2>1, PlainSteps
<1>6. CASE rt.steps \in HttpReads
  <2>1. Handles(rt.steps) /\ ~Has(rt.steps, Changing) BY <1>6, HandlersAre
  <2>2. ~Has(rt.steps, {"roles"}) BY <2>1, BehindMore DEF Changing
  <2> QED BY <1>1, <1>2, <2>1, <2>2 DEF Handles
<1>7. CASE rt.steps \in HttpWrites
  <2>1. Handles(rt.steps) /\ ~Has(rt.steps, {"own", "roles"}) BY <1>7, HandlersAre
  <2>2. ~Has(rt.steps, {"roles"}) BY <2>1, BehindMore
  <2> QED BY <1>1, <1>2, <2>1, <2>2 DEF Handles
<1>8. CASE rt.steps \in HttpOwnWrites
  <2>1. Handles(rt.steps) /\ ~Has(rt.steps, {"roles"}) BY <1>8, HandlersAre
  <2> QED BY <1>1, <1>2, <2>1 DEF Handles
<1>9. CASE rt = RequestsOf(R, e)!patchUser /\ rt.steps = PatchSteps
  <2>1. Handles(rt.steps) BY <1>9, HandlersAre
  <2> QED BY <1>1, <1>2, <1>9, <2>1 DEF Handles
<1> QED BY <1>3, <1>4, <1>6, <1>7, <1>8, <1>9

\* The changes a route makes, and what it needs for them.
LEMMA RouteChanges ==
  ASSUME NEW R, NEW e, NEW rt, RouteIs(R, e, rt), Has(rt.steps, Changing)
  PROVE  /\ rt.scope \notin {"public", "options"}
         /\ rt.mount \in {RequestsOf(R, e)!AuthMount, RequestsOf(R, e)!MfaMount} => ~rt.safe
         /\ \/ rt.needs = "anyone" \/ rt.mount \in {RequestsOf(R, e)!MfaMount, RequestsOf(R, e)!MemberMount, RequestsOf(R, e)!AdminMount}
            \/ Behind(rt.steps, Changing, {"own"})
         /\ rt.needs = "admin" => rt.mount = RequestsOf(R, e)!AdminMount
<1>1. rt.steps \notin HttpReads BY HandlersAre
<1>2. rt.steps # <<>> BY DEF Has
<1>3. /\ rt.scope \in {"ip", "user", "client"}
      /\ \/ rt.mount \in {RequestsOf(R, e)!AuthMount, RequestsOf(R, e)!MfaMount} /\ ~rt.safe
         \/ rt.mount \in {RequestsOf(R, e)!MemberMount, RequestsOf(R, e)!OauthMount, RequestsOf(R, e)!AdminMount}
      /\ \/ rt.needs = "anyone" \/ rt.mount \in {RequestsOf(R, e)!MfaMount, RequestsOf(R, e)!MemberMount, RequestsOf(R, e)!AdminMount}
         \/ rt.steps \in HttpOwnWrites
      /\ rt.needs = "admin" => rt.mount = RequestsOf(R, e)!AdminMount
      BY <1>1, <1>2 DEF RouteIs
<1>4. rt.steps \in HttpOwnWrites => Behind(rt.steps, Changing, {"own"}) BY HandlersAre
<1> QED BY <1>3, <1>4, MountsDiffer

\* A request that comes in has its changes ahead of it, behind the guards.
LEMMA ChainFits ==
  ASSUME NEW R, NEW e, NEW rt \in RequestsOf(R, e)!All, NEW b, NEW sn
  PROVE  /\ RequestsOf(R, e)!Chain(rt) \in Seq(HttpStep) /\ RequestsOf(R, e)!Chain(rt) # <<>>
         /\ HttpFit(R, e, rt, b, "none", sn, 0, RequestsOf(R, e)!Chain(rt))
<1> DEFINE p == Ahead(R, e, rt)
           m == rt.mount
           t == rt.steps
           q == p \o t
<1>1. RouteIs(R, e, rt) BY RoutesAre
<1>2. /\ MountIs(R, e, m) /\ (m = RequestsOf(R, e)!KeyMount => rt = RequestsOf(R, e)!ping)
      /\ t \in Seq(HttpStep) /\ InOrder(t) /\ Behind(t, {"log"}, {"write"}) /\ ~Has(t, HttpGuards)
      /\ Has(t, {"roles"}) => rt = RequestsOf(R, e)!patchUser
      /\ \/ Len(t) > 0 /\ t[Len(t)] = "answer"
         \/ m = <<>> /\ rt.limit = "none" /\ t = <<>> /\ rt.scope = "options"
      BY <1>1, RouteParts
<1>3. /\ p \in Seq(HttpStep) /\ Quiet(p) /\ ~Has(p, HandlerSteps)
      /\ Has(p, {"cors"}) /\ (Has(p, {"limit"}) => rt.limit # "none")
      /\ \A K \in {{"authenticate"}, {"key"}, {"auth"}, {"csrf"}, {"admin"}} : Has(p, K) = Has(m, K)
      /\ m # RequestsOf(R, e)!KeyMount => Behind(p, {"auth", "own"}, {"authenticate"})
      BY <1>2, AheadIs
<1>4. Has(t, Changing) =>
        /\ rt.scope \notin {"public", "options"}
        /\ m \in {RequestsOf(R, e)!AuthMount, RequestsOf(R, e)!MfaMount} => ~rt.safe
        /\ \/ rt.needs = "anyone" \/ m \in {RequestsOf(R, e)!MfaMount, RequestsOf(R, e)!MemberMount, RequestsOf(R, e)!AdminMount}
           \/ Behind(t, Changing, {"own"})
        /\ rt.needs = "admin" => m = RequestsOf(R, e)!AdminMount
      BY <1>1, RouteChanges
<1>5. RequestsOf(R, e)!Chain(rt) = q BY DEF RequestsOf!Chain, Ahead
<1>6. rt.limit \in RequestsOf(R, e)!Types \cup {"none"} BY <1>1 DEF RouteIs
<1>7. m = <<>> => t = <<"answer">> \/ t = <<>>
      BY <1>1, <1>2, MountsDiffer DEF RouteIs, RequestsOf!preflight, RequestsOf!Get
<1> HIDE DEF p, m, t
<1>8. /\ q \in Seq(HttpStep) /\ Len(q) = Len(p) + Len(t) /\ Len(p) \in Nat /\ Len(t) \in Nat
      /\ \A i \in 1..Len(t) : q[Len(p) + i] = t[i]
      BY <1>2, <1>3, JoinedSteps
<1>9. \A K : Has(q, K) = (Has(p, K) \/ Has(t, K)) BY <1>2, <1>3, JoinedHas
<1>10. InOrder(q) /\ CountsFit(0, q) BY <1>2, <1>3, <1>8, JoinedOrder, PlainSteps
<1>11. \A K \in SUBSET HandlerSteps : ~Has(p, K)
       BY <1>3, BehindMore
<1>12. \A K \in SUBSET HandlerSteps : \A S : Has(p, S) \/ Behind(t, K, S) => Behind(q, K, S)
  <2> SUFFICES ASSUME NEW K \in SUBSET HandlerSteps, NEW S, Has(p, S) \/ Behind(t, K, S)
               PROVE  Behind(q, K, S)
      OBVIOUS
  <2>1. Behind(p, K, S) BY <1>3, <1>11, PlainSteps
  <2> QED BY <1>2, <1>3, <2>1, JoinedBehind
<1>13. Changing \in SUBSET HandlerSteps /\ {"log"} \in SUBSET HandlerSteps
       /\ {"roles"} \in SUBSET HandlerSteps
       BY DEF HandlerSteps, Changing
<1>14. q # <<>>
  <2>1. Len(p) # 0 BY <1>3 DEF Has
  <2> QED BY <1>8, <2>1
<1>15. Has(q, Changing) = Has(t, Changing) /\ Has(q, {"roles"}) = Has(t, {"roles"})
  <2>1. Has(t, Changing) \in BOOLEAN /\ Has(t, {"roles"}) \in BOOLEAN BY DEF Has
  <2> QED BY <1>9, <1>11, <1>13, <2>1
<1>16. \A k \in HttpGuards : ~Has(t, {k}) BY <1>2, BehindMore
<1> HIDE DEF q
<1>17. Behind(q, Changing, {"cors"}) BY <1>3, <1>12, <1>13
<1>18. ASSUME rt.needs # "anyone" PROVE Behind(q, Changing, {"auth", "own"})
  <2>1. CASE ~Has(t, Changing) BY <1>8, <1>15, <2>1, PlainSteps
  <2>2. CASE m \in {RequestsOf(R, e)!MfaMount, RequestsOf(R, e)!MemberMount, RequestsOf(R, e)!AdminMount}
    <3>1. Has(p, {"auth"}) BY <1>2, <1>3, <2>2 DEF MountIs
    <3>2. Has(p, {"auth", "own"}) BY <3>1, BehindMore
    <3> QED BY <1>12, <1>13, <3>2
  <2>3. CASE Behind(t, Changing, {"own"})
    <3>1. Behind(t, Changing, {"auth", "own"}) BY <2>3, BehindMore
    <3> QED BY <1>12, <1>13, <3>1
  <2> QED BY <1>4, <1>18, <2>1, <2>2, <2>3
<1>19. ASSUME rt.needs = "admin" PROVE Behind(q, Changing, {"admin"})
  <2>1. CASE ~Has(t, Changing) BY <1>8, <1>15, <2>1, PlainSteps
  <2>2. CASE m = RequestsOf(R, e)!AdminMount
    <3>1. Has(p, {"admin"}) BY <1>2, <1>3, <2>2 DEF MountIs
    <3> QED BY <1>12, <1>13, <3>1
  <2> QED BY <1>4, <1>19, <2>1, <2>2
<1>20. ASSUME m \in {RequestsOf(R, e)!AuthMount, RequestsOf(R, e)!MfaMount}
       PROVE Behind(q, Changing, {"csrf"})
  <2>1. Has(p, {"csrf"}) BY <1>2, <1>3, <1>20 DEF MountIs
  <2> QED BY <1>12, <1>13, <2>1
<1>21. ASSUME rt # RequestsOf(R, e)!ping PROVE Behind(q, {"auth", "own"}, {"authenticate"})
  <2>1. Behind(p, {"auth", "own"}, {"authenticate"}) BY <1>2, <1>3, <1>21
  <2>2. CASE m # <<>>
    <3>1. Has(p, {"authenticate"}) BY <1>2, <1>3, <1>21, <2>2 DEF MountIs
    <3> QED BY <1>2, <1>3, <2>1, <3>1, JoinedBehind DEF q
  <2>3. CASE m = <<>>
    <3>1. ~Has(t, {"auth", "own"}) BY <1>7, <2>3 DEF Has
    <3>2. Behind(t, {"auth", "own"}, {"authenticate"}) BY <1>2, <3>1, PlainSteps
    <3> QED BY <1>2, <1>3, <2>1, <3>2, JoinedBehind DEF q
  <2> QED BY <2>2, <2>3
<1>22. Behind(q, {"log"}, {"write"}) BY <1>2, <1>12, <1>13
<1>23. Has(q, {"limit"}) => rt.limit \in RequestsOf(R, e)!Types
  <2>1. ~Has(t, {"limit"}) BY <1>16 DEF HttpGuards
  <2> QED BY <1>3, <1>6, <1>9, <2>1
<1>24. (Has(q, {"authenticate"}) => m # RequestsOf(R, e)!KeyMount)
       /\ (Has(q, {"key"}) => m = RequestsOf(R, e)!KeyMount)
  <2>1. ~Has(t, {"authenticate"}) /\ ~Has(t, {"key"}) BY <1>16 DEF HttpGuards
  <2> QED BY <1>2, <1>3, <1>9, <2>1 DEF MountIs
<1>25. q[Len(q)] = "answer" \/ (q[Len(q)] = "cors" /\ rt.scope = "options")
  <2>1. CASE Len(t) > 0 /\ t[Len(t)] = "answer" BY <1>8, <2>1
  <2>2. CASE m = <<>> /\ rt.limit = "none" /\ t = <<>> /\ rt.scope = "options"
    BY <1>5, <2>2, PreflightEnds DEF m, t
  <2> QED BY <1>2, <2>1, <2>2
<1>26. HttpFit(R, e, rt, b, "none", sn, 0, q)
  <2>1. rt.mount = m BY DEF m
  <2> QED BY <1>2, <1>4, <1>10, <1>15, <1>17, <1>18, <1>19, <1>20, <1>21, <1>22, <1>23, <1>24,
        <1>25, <2>1 DEF HttpFit
<1> QED BY <1>5, <1>8, <1>14, <1>26

\* What a request has gone through when it comes to a step.
LEMMA FitHead ==
  ASSUME NEW R, NEW e, NEW rt, NEW b, NEW who, NEW sn, NEW d \in Nat, NEW q \in Seq(HttpStep),
         q # <<>>,
         HttpFit(R, e, rt, b, who, sn, d, q), NEW s, s = Head(q)
  PROVE  /\ s \in HttpStep /\ d <= ChangesBefore(s)
         /\ s \in Changing => /\ ~b.foreign
                              /\ rt.needs # "anyone" => who # "none"
                              /\ rt.needs = "admin" => who = "admin"
                              /\ rt.mount \in {RequestsOf(R, e)!AuthMount, RequestsOf(R, e)!MfaMount} => b.csrf
         /\ s \in {"auth", "own"} /\ who = "none" => "refused" \in sn \/ rt = RequestsOf(R, e)!ping
         /\ s = "log" => d > 0
         /\ s = "roles" => rt = RequestsOf(R, e)!patchUser
         /\ s = "limit" => rt.limit \in RequestsOf(R, e)!Types
         /\ s = "authenticate" => rt.mount # RequestsOf(R, e)!KeyMount
         /\ s = "key" => rt.mount = RequestsOf(R, e)!KeyMount
<1>1. s \in HttpStep BY TailIs
<1>2. d <= ChangesBefore(s) BY TailFits DEF HttpFit
<1>3. ASSUME s \in Changing
      PROVE  /\ ~b.foreign
             /\ rt.needs # "anyone" => who # "none"
             /\ rt.needs = "admin" => who = "admin"
             /\ rt.mount \in {RequestsOf(R, e)!AuthMount, RequestsOf(R, e)!MfaMount} => b.csrf
  <2>1. \A S : ~Behind(q, Changing, S) BY <1>3, TailBehind
  <2> QED BY <2>1 DEF HttpFit
<1>4. ASSUME s \in {"auth", "own"}, who = "none"
      PROVE "refused" \in sn \/ rt = RequestsOf(R, e)!ping
  <2>1. ~Behind(q, {"auth", "own"}, {"authenticate"}) BY <1>4, TailBehind
  <2> QED BY <1>4, <2>1 DEF HttpFit
<1>5. ASSUME s = "log" PROVE d > 0
  <2>1. ~Behind(q, {"log"}, {"write"}) BY <1>5, TailBehind
  <2> QED BY <2>1 DEF HttpFit
<1>6. \A k : s = k => Has(q, {k}) BY TailHas
<1>7. /\ s = "roles" => rt = RequestsOf(R, e)!patchUser
      /\ s = "limit" => rt.limit \in RequestsOf(R, e)!Types
      /\ s = "authenticate" => rt.mount # RequestsOf(R, e)!KeyMount
      /\ s = "key" => rt.mount = RequestsOf(R, e)!KeyMount
      BY <1>6 DEF HttpFit
<1> QED BY <1>1, <1>2, <1>3, <1>4, <1>5, <1>7

\* What lets a request pass a step, and who it is found to be from and what it has done then.
Passes(rt, b, sn, who, d, d2, s) ==
  /\ s = "cors" => rt.scope # "options" /\ (b.foreign => rt.scope = "public")
  /\ s \in {"auth", "own"} => who # "none"
  /\ s = "admin" => who = "admin"
  /\ s = "csrf" => rt.safe \/ b.csrf
  /\ s = "authenticate" => who # "none" \/ "refused" \in sn
  /\ s = "write" => d2 = d + 1
  /\ s # "answer"
Named(b, sn, who, who2) ==
  who2 = who \/ (who2 = b.token /\ "accepted" \in sn /\ b.token # "none")
Noted(s, lg, lg2) == lg2 => lg \/ s = "log"
Counted(s, d, d2) == d2 = d \/ (s \in Changing /\ d2 = d + 1)

\* A step that is passed leaves a request that fits what is left.
LEMMA FitPass ==
  ASSUME NEW R, NEW e, NEW rt, NEW b, NEW who, NEW sn, NEW d \in Nat, NEW q \in Seq(HttpStep),
         q # <<>>,
         HttpFit(R, e, rt, b, who, sn, d, q), NEW s, s = Head(q), NEW who2, NEW d2 \in Nat,
         who # "none" => who2 = who,
         Counted(s, d, d2),
         Passes(rt, b, sn, who2, d, d2, s)
  PROVE  Tail(q) # <<>> /\ HttpFit(R, e, rt, b, who2, sn, d2, Tail(q))
<1> USE DEF Passes, Counted
<1> DEFINE p == Tail(q)
<1>1. /\ Len(q) \in Nat /\ Len(q) > 0 /\ s = q[1] /\ s \in HttpStep
      /\ p \in Seq(HttpStep) /\ Len(p) = Len(q) - 1
      /\ \A m \in 1..(Len(q) - 1) : p[m] = q[m + 1]
      BY TailIs
<1>2. \A K, S : Behind(q, K, S) /\ s \notin S => Behind(p, K, S) BY TailBehind
<1>3. \A K : Has(p, K) => Has(q, K) BY TailHas
<1>4. /\ InOrder(p) /\ CountsFit(d2, p)
      BY TailFits DEF HttpFit
<1>5. \A K, S : ~Has(p, K) => Behind(p, K, S) BY <1>1, PlainSteps
<1> HIDE DEF p
<1>6. q[Len(q)] = "answer" \/ (q[Len(q)] = "cors" /\ rt.scope = "options") BY DEF HttpFit
<1>7. Len(q) > 1 BY <1>1, <1>6
<1>8. p # <<>> /\ (p[Len(p)] = "answer" \/ (p[Len(p)] = "cors" /\ rt.scope = "options"))
  <2>1. Len(p) > 0 /\ Len(p) \in 1..(Len(q) - 1) /\ Len(p) + 1 = Len(q) BY <1>1, <1>7
  <2>2. p[Len(p)] = q[Len(q)] BY <1>1, <2>1
  <2> QED BY <1>6, <2>1, <2>2
<1>9. Has(p, Changing) => /\ rt.scope \notin {"public", "options"}
                          /\ rt.mount \in {RequestsOf(R, e)!AuthMount, RequestsOf(R, e)!MfaMount} =>
                                 ~rt.safe
      BY <1>3 DEF HttpFit
<1>10. ASSUME b.foreign PROVE Behind(p, Changing, {"cors"})
  <2>1. CASE s = "cors" BY <1>5, <1>9, <1>10, <2>1
  <2>2. CASE s # "cors" BY <1>2, <1>10, <2>2 DEF HttpFit
  <2> QED BY <2>1, <2>2
<1>11. ASSUME rt.needs # "anyone", who2 = "none" PROVE Behind(p, Changing, {"auth", "own"})
  <2>1. who = "none" /\ s \notin {"auth", "own"} BY <1>11
  <2> QED BY <1>2, <1>11, <2>1 DEF HttpFit
<1>12. ASSUME rt.needs = "admin", who2 # "admin" PROVE Behind(p, Changing, {"admin"})
  <2>1. who # "admin" /\ s \notin {"admin"} BY <1>12
  <2> QED BY <1>2, <1>12, <2>1 DEF HttpFit
<1>13. ASSUME rt.mount \in {RequestsOf(R, e)!AuthMount, RequestsOf(R, e)!MfaMount}, ~b.csrf
       PROVE Behind(p, Changing, {"csrf"})
  <2>1. CASE s = "csrf" BY <1>5, <1>9, <1>13, <2>1
  <2>2. CASE s # "csrf" BY <1>2, <1>13, <2>2 DEF HttpFit
  <2> QED BY <2>1, <2>2
<1>14. ASSUME who2 = "none", "refused" \notin sn, rt # RequestsOf(R, e)!ping
       PROVE Behind(p, {"auth", "own"}, {"authenticate"})
  <2>1. who = "none" /\ s \notin {"authenticate"} BY <1>14
  <2> QED BY <1>2, <1>14, <2>1 DEF HttpFit
<1>15. ASSUME d2 = 0 PROVE Behind(p, {"log"}, {"write"})
  <2>1. d = 0 /\ s \notin {"write"} BY <1>15
  <2> QED BY <1>2, <2>1 DEF HttpFit
<1>16. /\ Has(p, {"roles"}) => rt = RequestsOf(R, e)!patchUser
       /\ Has(p, {"limit"}) => rt.limit \in RequestsOf(R, e)!Types
       /\ Has(p, {"authenticate"}) => rt.mount # RequestsOf(R, e)!KeyMount
       /\ Has(p, {"key"}) => rt.mount = RequestsOf(R, e)!KeyMount
       BY <1>3 DEF HttpFit
<1>17. HttpFit(R, e, rt, b, who2, sn, d2, p)
       BY <1>4, <1>8, <1>9, <1>10, <1>11, <1>12, <1>13, <1>14, <1>15, <1>16 DEF HttpFit
<1> QED BY <1>8, <1>17 DEF p

HttpStatus == {0, 200, 204, 400, 401, 403, 404, 429, 500, 503}

\* What holds of a request at any time, for the verdict v that its token would get now.
HttpReq(R, e, v, rt, b, q, who, st, d, lg, sn) ==
  /\ who \in {"none", b.token} /\ (who # "none" => "accepted" \in sn)
  /\ d > 0 => /\ rt.needs # "anyone" => "accepted" \in sn
              /\ rt.needs = "admin" => b.token = "admin"
              /\ ~b.foreign
              /\ rt.mount \in {RequestsOf(R, e)!AuthMount, RequestsOf(R, e)!MfaMount} => b.csrf
  /\ st = 401 => "refused" \in sn \/ rt = RequestsOf(R, e)!ping
  /\ st \in 400..499 /\ rt # RequestsOf(R, e)!patchUser => d = 0
  /\ lg => d > 0
  /\ q # <<>> => st = 0 /\ v \in sn /\ HttpFit(R, e, rt, b, who, sn, d, q)
  /\ q = <<>> /\ st = 0 => who = "none" /\ d = 0 /\ ~lg /\ sn = {}

\* A step that is passed.
LEMMA ReqPass ==
  ASSUME NEW R, NEW e, NEW v, NEW rt, NEW b, NEW q \in Seq(HttpStep), NEW who, NEW d \in 0..3,
         NEW lg, NEW sn, HttpReq(R, e, v, rt, b, q, who, 0, d, lg, sn), q # <<>>,
         NEW s, s = Head(q), NEW who2, NEW d2, NEW lg2,
         Named(b, sn, who, who2),
         Counted(s, d, d2),
         Noted(s, lg, lg2),
         Passes(rt, b, sn, who2, d, d2, s)
  PROVE  /\ HttpReq(R, e, v, rt, b, Tail(q), who2, 0, d2, lg2, sn)
         /\ d2 \in 0..3 /\ Tail(q) \in Seq(HttpStep)
<1>1. HttpFit(R, e, rt, b, who, sn, d, q) /\ v \in sn BY DEF HttpReq
<1>2. /\ s \in HttpStep /\ d <= ChangesBefore(s)
      /\ s \in Changing => /\ ~b.foreign
                           /\ rt.needs # "anyone" => who # "none"
                           /\ rt.needs = "admin" => who = "admin"
                           /\ rt.mount \in {RequestsOf(R, e)!AuthMount, RequestsOf(R, e)!MfaMount} =>
                                  b.csrf
      /\ s = "log" => d > 0
      BY <1>1, FitHead
<1>3. who \in {"none", b.token} /\ (who # "none" => "accepted" \in sn) BY DEF HttpReq
<1>4. who # "none" => who2 = who BY <1>3 DEF Named
<1>5. d2 \in 0..3
  <2>1. s \in Changing => ChangesBefore(s) \in 0..2 BY DEF Changing, ChangesBefore
  <2> QED BY <1>2, <2>1 DEF Counted
<1>6. Tail(q) # <<>> /\ HttpFit(R, e, rt, b, who2, sn, d2, Tail(q)) 
  <2>1. d \in Nat /\ d2 \in Nat BY <1>5
  <2> QED BY <1>1, <1>4, <2>1, FitPass
<1>7. Tail(q) \in Seq(HttpStep) BY TailIs
<1>8. ASSUME d2 > 0
      PROVE  /\ rt.needs # "anyone" => "accepted" \in sn
             /\ rt.needs = "admin" => b.token = "admin"
             /\ ~b.foreign
             /\ rt.mount \in {RequestsOf(R, e)!AuthMount, RequestsOf(R, e)!MfaMount} => b.csrf
  <2>1. CASE d > 0 BY <2>1 DEF HttpReq
  <2>2. CASE s \in Changing BY <1>2, <1>3, <2>2
  <2> QED BY <1>8, <2>1, <2>2 DEF Counted
<1>9. lg2 => d2 > 0
  <2>1. lg => d > 0 BY DEF HttpReq
  <2>2. lg2 => d > 0 BY <1>2, <2>1 DEF Noted
  <2>3. d2 >= d BY DEF Counted
  <2> QED BY <1>5, <2>2, <2>3
<1>10. who2 \in {"none", b.token} /\ (who2 # "none" => "accepted" \in sn) BY <1>3 DEF Named
<1> QED BY <1>1, <1>5, <1>6, <1>7, <1>8, <1>9, <1>10 DEF HttpReq

\* Which answers a step may end in.
Denied(s, st, who) == st = 401 => s \in {"auth", "own"} /\ who = "none"
Clean(s, st, d, d2) ==
  st \in {400, 401, 403, 404, 429} => d2 = d /\ s \notin {"more", "log", "answer"}

\* A step that ends in an answer.
LEMMA ReqAnswer ==
  ASSUME NEW R, NEW e, NEW v, NEW rt, NEW b, NEW q \in Seq(HttpStep), NEW who, NEW d \in 0..3,
         NEW lg, NEW sn, HttpReq(R, e, v, rt, b, q, who, 0, d, lg, sn), q # <<>>,
         NEW s, s = Head(q), NEW st \in HttpStatus, st # 0, NEW d2,
         Counted(s, d, d2),
         Denied(s, st, who),
         Clean(s, st, d, d2)
  PROVE  HttpReq(R, e, v, rt, b, <<>>, who, st, d2, lg, sn) /\ d2 \in 0..3
<1>1. HttpFit(R, e, rt, b, who, sn, d, q) BY DEF HttpReq
<1>2. /\ s \in HttpStep /\ d <= ChangesBefore(s)
      /\ s \in Changing => /\ ~b.foreign
                           /\ rt.needs # "anyone" => who # "none"
                           /\ rt.needs = "admin" => who = "admin"
                           /\ rt.mount \in {RequestsOf(R, e)!AuthMount, RequestsOf(R, e)!MfaMount} =>
                                  b.csrf
      /\ s \in {"auth", "own"} /\ who = "none" => "refused" \in sn \/ rt = RequestsOf(R, e)!ping
      /\ s = "roles" => rt = RequestsOf(R, e)!patchUser
      BY <1>1, FitHead
<1>3. who \in {"none", b.token} /\ (who # "none" => "accepted" \in sn) BY DEF HttpReq
<1>4. d2 \in 0..3
  <2>1. s \in Changing => ChangesBefore(s) \in 0..2 BY DEF Changing, ChangesBefore
  <2> QED BY <1>2, <2>1 DEF Counted
<1>5. ASSUME st \in 400..499, rt # RequestsOf(R, e)!patchUser PROVE d2 = 0
  <2>1. st \in {400, 401, 403, 404, 429} BY <1>5 DEF HttpStatus
  <2>2. s \notin {"more", "log", "answer", "roles"} BY <1>2, <1>5, <2>1 DEF Clean
  <2>3. ChangesBefore(s) = 0 BY <2>2 DEF ChangesBefore
  <2>4. d2 = d BY <2>1 DEF Clean
  <2> QED BY <1>2, <2>3, <2>4
<1>6. ASSUME d2 > 0
      PROVE  /\ rt.needs # "anyone" => "accepted" \in sn
             /\ rt.needs = "admin" => b.token = "admin"
             /\ ~b.foreign
             /\ rt.mount \in {RequestsOf(R, e)!AuthMount, RequestsOf(R, e)!MfaMount} => b.csrf
  <2>1. CASE d > 0 BY <2>1 DEF HttpReq
  <2>2. CASE s \in Changing BY <1>2, <1>3, <2>2
  <2> QED BY <1>6, <2>1, <2>2 DEF Counted
<1>7. st = 401 => "refused" \in sn \/ rt = RequestsOf(R, e)!ping BY <1>2 DEF Denied
<1>8. lg => d2 > 0
  <2>1. lg => d > 0 BY DEF HttpReq
  <2>2. d2 >= d BY DEF Counted
  <2> QED BY <1>4, <2>1, <2>2
<1> QED BY <1>3, <1>4, <1>5, <1>6, <1>7, <1>8 DEF HttpReq

HttpTypes(R, e) ==
  /\ route \in [R -> RequestsOf(R, e)!All] /\ brings \in [R -> RequestsOf(R, e)!Anything]
  /\ steps \in [R -> Seq(HttpStep)]
  /\ identity \in [R -> RequestsOf(R, e)!Tokens] /\ status \in [R -> HttpStatus]
  /\ did \in [R -> 0..3]
  /\ logged \in [R -> BOOLEAN] /\ verdicts \in [R -> SUBSET {"accepted", "refused"}]
  /\ good \in BOOLEAN

HttpOne(R, e, r) ==
  HttpReq(R, e, RequestsOf(R, e)!Verdict(route[r], brings[r].token), route[r], brings[r], steps[r], identity[r],
          status[r], did[r], logged[r], verdicts[r])

\* Each request fits what it has gone through.
HttpInv(R, e) == HttpTypes(R, e) /\ \A r \in R : HttpOne(R, e, r)

\* A function that stays as it is at a point.
LEMMA SameThere ==
  ASSUME NEW D, NEW X, NEW f \in [D -> X], NEW r
  PROVE  f = [f EXCEPT ![r] = f[r]]
OBVIOUS

\* One request moves and the others stay where they are.
LEMMA HttpMoves ==
  ASSUME NEW R, NEW e, HttpInv(R, e), NEW r \in R, NEW q2 \in Seq(HttpStep), NEW who2,
         NEW st2 \in HttpStatus, NEW d2 \in 0..3, NEW lg2,
         HttpReq(R, e, RequestsOf(R, e)!Verdict(route[r], brings[r].token), route[r], brings[r], q2, who2, st2, d2, lg2, verdicts[r]),
         steps' = [steps EXCEPT ![r] = q2], identity' = [identity EXCEPT ![r] = who2],
         status' = [status EXCEPT ![r] = st2], did' = [did EXCEPT ![r] = d2],
         logged' = [logged EXCEPT ![r] = lg2], logged' \in [R -> BOOLEAN],
           UNCHANGED RequestsOf(R, e)!requestVars
  PROVE  HttpInv(R, e)'
<1>1. /\ route \in [R -> RequestsOf(R, e)!All] /\ brings \in [R -> RequestsOf(R, e)!Anything]
      /\ steps \in [R -> Seq(HttpStep)]
      /\ identity \in [R -> RequestsOf(R, e)!Tokens] /\ status \in [R -> HttpStatus]
      /\ did \in [R -> 0..3]
      /\ logged \in [R -> BOOLEAN] /\ verdicts \in [R -> SUBSET {"accepted", "refused"}]
      /\ good \in BOOLEAN
      BY DEF HttpInv, HttpTypes
<1>2. route' = route /\ brings' = brings /\ good' = good /\ verdicts' = verdicts
      BY DEF RequestsOf!requestVars
<1>3. who2 \in RequestsOf(R, e)!Tokens
  <2>1. who2 \in {"none", brings[r].token} BY DEF HttpReq
  <2>2. brings[r].token \in RequestsOf(R, e)!Tokens /\ "none" \in RequestsOf(R, e)!Tokens
        BY <1>1 DEF RequestsOf!Anything, RequestsOf!Tokens
  <2> QED BY <2>1, <2>2
<1>4. HttpTypes(R, e)'
  <2>1. /\ steps' \in [R -> Seq(HttpStep)] /\ identity' \in [R -> RequestsOf(R, e)!Tokens]
        /\ status' \in [R -> HttpStatus]
        /\ did' \in [R -> 0..3] /\ logged' \in [R -> BOOLEAN]
        BY <1>1, <1>3
  <2> QED BY <1>1, <1>2, <2>1 DEF HttpTypes, RequestsOf!All, RequestsOf!Anything, RequestsOf!Tokens
<1>5. ASSUME NEW x \in R PROVE HttpOne(R, e, x)'
  <2>1. RequestsOf(R, e)!Verdict(route[x], brings[x].token)' = RequestsOf(R, e)!Verdict(route[x], brings[x].token)
        BY <1>2 DEF RequestsOf!Verdict, RequestsOf!Accepted
  <2>2. CASE x = r
    <3>1. steps'[x] = q2 /\ identity'[x] = who2 /\ status'[x] = st2 /\ did'[x] = d2
          /\ logged'[x] = lg2
          BY <1>1, <2>2
    <3> QED BY <1>2, <2>1, <2>2, <3>1 DEF HttpOne
  <2>3. CASE x # r
    <3>1. /\ steps'[x] = steps[x] /\ identity'[x] = identity[x] /\ status'[x] = status[x]
          /\ did'[x] = did[x] /\ logged'[x] = logged[x]
          BY <1>1, <2>3
    <3>2. HttpOne(R, e, x) BY DEF HttpInv
    <3> QED BY <1>2, <2>1, <3>1, <3>2 DEF HttpOne
  <2> QED BY <2>2, <2>3
<1> QED BY <1>4, <1>5 DEF HttpInv

\* What is known of a request that is at a step.
LEMMA HttpAt ==
  ASSUME NEW R, NEW e, HttpInv(R, e), NEW r \in R, NEW s, RequestsOf(R, e)!At(r, s)
  PROVE  /\ steps[r] \in Seq(HttpStep) /\ steps[r] # <<>> /\ Head(steps[r]) = s /\ status[r] = 0
         /\ did[r] \in 0..3 /\ logged[r] \in BOOLEAN /\ brings[r] \in RequestsOf(R, e)!Anything
         /\ identity[r] \in RequestsOf(R, e)!Tokens
         /\ RequestsOf(R, e)!Verdict(route[r], brings[r].token) \in verdicts[r]
         /\ HttpReq(R, e, RequestsOf(R, e)!Verdict(route[r], brings[r].token), route[r], brings[r], steps[r], identity[r],
                    0, did[r], logged[r], verdicts[r])
         /\ HttpFit(R, e, route[r], brings[r], identity[r], verdicts[r], did[r], steps[r])
<1>1. /\ steps[r] \in Seq(HttpStep) /\ steps[r] # <<>> /\ Head(steps[r]) = s /\ status[r] = 0
      /\ did[r] \in 0..3 /\ logged[r] \in BOOLEAN /\ brings[r] \in RequestsOf(R, e)!Anything
      /\ identity[r] \in RequestsOf(R, e)!Tokens
      BY DEF HttpInv, HttpTypes, RequestsOf!At
<1>2. HttpReq(R, e, RequestsOf(R, e)!Verdict(route[r], brings[r].token), route[r], brings[r], steps[r], identity[r],
              0, did[r], logged[r], verdicts[r])
      BY <1>1 DEF HttpInv, HttpOne
<1>3. /\ RequestsOf(R, e)!Verdict(route[r], brings[r].token) \in verdicts[r]
      /\ HttpFit(R, e, route[r], brings[r], identity[r], verdicts[r], did[r], steps[r])
      BY <1>1, <1>2 DEF HttpReq
<1> QED BY <1>1, <1>2, <1>3

\* A request that passes a step fits what it has gone through then.
LEMMA HttpPasses ==
  ASSUME NEW R, NEW e, HttpInv(R, e), NEW r \in R, NEW s, RequestsOf(R, e)!At(r, s),
         RequestsOf(R, e)!Pass(r), UNCHANGED RequestsOf(R, e)!requestVars,
         NEW who2, NEW d2, NEW lg2,
         identity' = [identity EXCEPT ![r] = who2], did' = [did EXCEPT ![r] = d2],
         logged' = [logged EXCEPT ![r] = lg2], logged' \in [R -> BOOLEAN],
         Named(brings[r], verdicts[r], identity[r], who2), Counted(s, did[r], d2),
         Noted(s, logged[r], lg2),
         Passes(route[r], brings[r], verdicts[r], who2, did[r], d2, s)
  PROVE  HttpInv(R, e)'
<1> DEFINE v == RequestsOf(R, e)!Verdict(route[r], brings[r].token)
           q == steps[r]
<1>1. /\ q \in Seq(HttpStep) /\ q # <<>> /\ s = Head(q) /\ status[r] = 0
      /\ did[r] \in 0..3 /\ logged[r] \in BOOLEAN
      /\ HttpReq(R, e, v, route[r], brings[r], q, identity[r], 0, did[r], logged[r], verdicts[r])
      BY HttpAt
<1>2. steps' = [steps EXCEPT ![r] = Tail(q)] /\ status' = status BY DEF RequestsOf!Pass
<1>3. status' = [status EXCEPT ![r] = 0]
  <2>1. status \in [R -> HttpStatus] BY DEF HttpInv, HttpTypes
  <2> QED BY <1>1, <1>2, <2>1, SameThere
<1> HIDE DEF v, q
<1>4. /\ HttpReq(R, e, v, route[r], brings[r], Tail(q), who2, 0, d2, lg2, verdicts[r])
      /\ d2 \in 0..3 /\ Tail(q) \in Seq(HttpStep)
      BY <1>1, ReqPass, ZenonT(60)
<1>5. 0 \in HttpStatus BY DEF HttpStatus
<1> QED BY <1>2, <1>3, <1>4, <1>5, HttpMoves DEF v

\* A guard that is passed leaves what the request has done as it is.
LEMMA HttpGoesOn ==
  ASSUME NEW R, NEW e, HttpInv(R, e), NEW r \in R, NEW s, RequestsOf(R, e)!At(r, s),
         RequestsOf(R, e)!Pass(r), UNCHANGED RequestsOf(R, e)!requestVars,
         UNCHANGED <<identity, did, logged>>,
         Passes(route[r], brings[r], verdicts[r], identity[r], did[r], did[r], s)
  PROVE  HttpInv(R, e)'
<1>1. identity \in [R -> RequestsOf(R, e)!Tokens] /\ did \in [R -> 0..3]
      /\ logged \in [R -> BOOLEAN]
      BY DEF HttpInv, HttpTypes
<1>2. /\ identity' = [identity EXCEPT ![r] = identity[r]] /\ did' = [did EXCEPT ![r] = did[r]]
      /\ logged' = [logged EXCEPT ![r] = logged[r]] /\ logged' \in [R -> BOOLEAN]
      BY <1>1, SameThere
<1>3. Named(brings[r], verdicts[r], identity[r], identity[r]) /\ Counted(s, did[r], did[r])
      /\ Noted(s, logged[r], logged[r]) BY DEF Named, Counted, Noted
<1> QED BY <1>2, <1>3, HttpPasses

\* A step of the request is answered.
LEMMA HttpEnds ==
  ASSUME NEW R, NEW e, HttpInv(R, e), NEW r \in R, NEW s, RequestsOf(R, e)!At(r, s),
         NEW st \in HttpStatus, st # 0,
         RequestsOf(R, e)!Answer(r, st), UNCHANGED RequestsOf(R, e)!requestVars,
           UNCHANGED <<identity, logged>>,
         NEW d2, Counted(s, did[r], d2), did' = [did EXCEPT ![r] = d2],
         Denied(s, st, identity[r]), Clean(s, st, did[r], d2)
  PROVE  HttpInv(R, e)'
<1> DEFINE v == RequestsOf(R, e)!Verdict(route[r], brings[r].token)
           q == steps[r]
<1>1. /\ q \in Seq(HttpStep) /\ q # <<>> /\ s = Head(q) /\ status[r] = 0
      /\ did[r] \in 0..3 /\ logged[r] \in BOOLEAN
      /\ HttpReq(R, e, v, route[r], brings[r], q, identity[r], 0, did[r], logged[r], verdicts[r])
      BY HttpAt
<1>2. steps' = [steps EXCEPT ![r] = <<>>] /\ status' = [status EXCEPT ![r] = st]
      BY DEF RequestsOf!Answer
<1>3. identity \in [R -> RequestsOf(R, e)!Tokens] /\ did \in [R -> 0..3]
      /\ logged \in [R -> BOOLEAN]
      BY DEF HttpInv, HttpTypes
<1>4. /\ identity' = [identity EXCEPT ![r] = identity[r]]
      /\ logged' = [logged EXCEPT ![r] = logged[r]] /\ logged' \in [R -> BOOLEAN]
      BY <1>3, SameThere
<1> HIDE DEF v, q
<1>6. HttpReq(R, e, v, route[r], brings[r], <<>>, identity[r], st, d2, logged[r], verdicts[r])
      /\ d2 \in 0..3
      BY <1>1, ReqAnswer
<1>7. <<>> \in Seq(HttpStep) OBVIOUS
<1> QED BY <1>1, <1>2, <1>4, <1>6, <1>7, HttpMoves DEF v

\* An answer that leaves what the request has done as it is, and one that may have changed it.
LEMMA HttpStops ==
  ASSUME NEW R, NEW e, HttpInv(R, e), NEW r \in R, NEW s, RequestsOf(R, e)!At(r, s),
         NEW st \in HttpStatus, st # 0,
         RequestsOf(R, e)!Answer(r, st), UNCHANGED RequestsOf(R, e)!requestVars,
           UNCHANGED <<identity, did, logged>>,
         Denied(s, st, identity[r]), Clean(s, st, did[r], did[r])
  PROVE  HttpInv(R, e)'
<1>1. did \in [R -> 0..3] BY DEF HttpInv, HttpTypes
<1>2. did' = [did EXCEPT ![r] = did[r]] BY <1>1, SameThere
<1>3. Counted(s, did[r], did[r]) BY DEF Counted
<1> QED BY <1>2, <1>3, HttpEnds

\* A change that ends in an error may have been made or not.
LEMMA HttpFails ==
  ASSUME NEW R, NEW e, HttpInv(R, e), NEW r \in R, NEW s \in Changing, RequestsOf(R, e)!At(r, s),
         RequestsOf(R, e)!Answer(r, 500), UNCHANGED RequestsOf(R, e)!requestVars,
           UNCHANGED <<identity, logged>>, RequestsOf(R, e)!Changed(r) \/ UNCHANGED did
  PROVE  HttpInv(R, e)'
<1>1. 500 \in HttpStatus /\ 500 # 0 BY DEF HttpStatus
<1>2. Denied(s, 500, identity[r]) /\ Clean(s, 500, did[r], did[r]) BY DEF Denied, Clean
<1>3. CASE RequestsOf(R, e)!Changed(r)
  <2> DEFINE d2 == did[r] + 1
  <2>1. did' = [did EXCEPT ![r] = d2] BY <1>3 DEF RequestsOf!Changed
  <2>2. Counted(s, did[r], d2) /\ Clean(s, 500, did[r], d2) BY DEF Counted, Clean
  <2> HIDE DEF d2
  <2>3. UNCHANGED RequestsOf(R, e)!requestVars /\ UNCHANGED <<identity, logged>>
        /\ RequestsOf(R, e)!Answer(r, 500) /\ RequestsOf(R, e)!At(r, s) OBVIOUS
  <2> QED BY <1>1, <1>2, <2>1, <2>2, <2>3, HttpEnds, ZenonT(60)
<1>4. CASE UNCHANGED did BY <1>1, <1>2, <1>4, HttpStops
<1> QED BY <1>3, <1>4

\* A change is made.
LEMMA HttpChanges ==
  ASSUME NEW R, NEW e, HttpInv(R, e), NEW r \in R, NEW s \in Changing, RequestsOf(R, e)!At(r, s),
         RequestsOf(R, e)!Pass(r),
         UNCHANGED RequestsOf(R, e)!requestVars, UNCHANGED <<identity, logged>>,
           RequestsOf(R, e)!Changed(r)
  PROVE  HttpInv(R, e)'
<1>1. identity \in [R -> RequestsOf(R, e)!Tokens] /\ logged \in [R -> BOOLEAN]
      BY DEF HttpInv, HttpTypes
<1>2. /\ identity' = [identity EXCEPT ![r] = identity[r]]
      /\ logged' = [logged EXCEPT ![r] = logged[r]] /\ logged' \in [R -> BOOLEAN]
      BY <1>1, SameThere
<1>3. did' = [did EXCEPT ![r] = did[r] + 1] BY DEF RequestsOf!Changed
<1>4. /\ Named(brings[r], verdicts[r], identity[r], identity[r]) /\ Counted(s, did[r], did[r] + 1)
      /\ Passes(route[r], brings[r], verdicts[r], identity[r], did[r], did[r] + 1, s)
      /\ Noted(s, logged[r], logged[r])
      BY DEF Named, Counted, Noted, Passes, Changing
<1> QED BY <1>2, <1>3, <1>4, HttpPasses

\* The guards of the application, of the mount and of the route.
LEMMA HttpGuardSteps ==
  ASSUME NEW R, NEW e, HttpInv(R, e), NEW r \in R,
         \/ RequestsOf(R, e)!Json(r) \/ RequestsOf(R, e)!Cors(r) \/ RequestsOf(R, e)!RequireAuth(r)
              \/ RequestsOf(R, e)!RequireRole(r) \/ RequestsOf(R, e)!Csrf(r)
                   \/ RequestsOf(R, e)!RateLimit(r)
  PROVE  HttpInv(R, e)'
<1>0. {400, 401, 403, 204, 429} \subseteq HttpStatus BY DEF HttpStatus
<1>1. CASE RequestsOf(R, e)!Json(r)
  <2>1. RequestsOf(R, e)!At(r, "json") /\ UNCHANGED RequestsOf(R, e)!requestVars
        /\ UNCHANGED <<identity, did, logged>> BY <1>1 DEF RequestsOf!Json
  <2>2. CASE RequestsOf(R, e)!Pass(r) BY <2>1, <2>2, HttpGoesOn DEF Passes
  <2>3. CASE RequestsOf(R, e)!Answer(r, 400) BY <1>0, <2>1, <2>3, HttpStops DEF Denied, Clean
  <2> QED BY <1>1, <2>2, <2>3 DEF RequestsOf!Json, RequestsOf!Reject
<1>2. CASE RequestsOf(R, e)!Cors(r)
  <2>1. RequestsOf(R, e)!At(r, "cors") /\ UNCHANGED RequestsOf(R, e)!requestVars
        /\ UNCHANGED <<identity, did, logged>> BY <1>2 DEF RequestsOf!Cors
  <2>2. CASE route[r].scope = "options"
    <3>1. RequestsOf(R, e)!Answer(r, 204) BY <1>2, <2>2 DEF RequestsOf!Cors
    <3> QED BY <1>0, <2>1, <3>1, HttpStops DEF Denied, Clean
  <2>3. CASE brings[r].foreign /\ route[r].scope \notin {"public", "options"}
    <3>1. RequestsOf(R, e)!Answer(r, 403) BY <1>2, <2>3 DEF RequestsOf!Cors, RequestsOf!Reject
    <3> QED BY <1>0, <2>1, <3>1, HttpStops DEF Denied, Clean
  <2>4. CASE route[r].scope # "options" /\ (brings[r].foreign => route[r].scope = "public")
    <3>1. RequestsOf(R, e)!Pass(r) BY <1>2, <2>4 DEF RequestsOf!Cors
    <3> QED BY <2>1, <2>4, <3>1, HttpGoesOn DEF Passes
  <2> QED BY <2>2, <2>3, <2>4
<1>3. CASE RequestsOf(R, e)!RequireAuth(r)
  <2>1. /\ RequestsOf(R, e)!At(r, "auth") \/ RequestsOf(R, e)!At(r, "own")
        /\ UNCHANGED RequestsOf(R, e)!requestVars /\ UNCHANGED <<identity, did, logged>>
        BY <1>3 DEF RequestsOf!RequireAuth
  <2>2. PICK s \in {"auth", "own"} : RequestsOf(R, e)!At(r, s) BY <2>1
  <2>3. CASE identity[r] = "none"
    <3>1. RequestsOf(R, e)!Answer(r, 401)
          BY <1>3, <2>3 DEF RequestsOf!RequireAuth, RequestsOf!Reject
    <3> QED BY <1>0, <2>1, <2>2, <2>3, <3>1, HttpStops DEF Denied, Clean
  <2>4. CASE identity[r] # "none"
    <3>1. RequestsOf(R, e)!Pass(r) BY <1>3, <2>4 DEF RequestsOf!RequireAuth
    <3> QED BY <2>1, <2>2, <2>4, <3>1, HttpGoesOn DEF Passes
  <2> QED BY <2>3, <2>4
<1>4. CASE RequestsOf(R, e)!RequireRole(r)
  <2>1. RequestsOf(R, e)!At(r, "admin") /\ UNCHANGED RequestsOf(R, e)!requestVars
        /\ UNCHANGED <<identity, did, logged>>
        BY <1>4 DEF RequestsOf!RequireRole
  <2>2. CASE identity[r] = "admin"
    <3>1. RequestsOf(R, e)!Pass(r) BY <1>4, <2>2 DEF RequestsOf!RequireRole
    <3> QED BY <2>1, <2>2, <3>1, HttpGoesOn DEF Passes
  <2>3. CASE identity[r] # "admin"
    <3>1. RequestsOf(R, e)!Answer(r, 403)
          BY <1>4, <2>3 DEF RequestsOf!RequireRole, RequestsOf!Reject
    <3> QED BY <1>0, <2>1, <3>1, HttpStops DEF Denied, Clean
  <2> QED BY <2>2, <2>3
<1>5. CASE RequestsOf(R, e)!Csrf(r)
  <2>1. RequestsOf(R, e)!At(r, "csrf") /\ UNCHANGED RequestsOf(R, e)!requestVars
        /\ UNCHANGED <<identity, did, logged>> BY <1>5 DEF RequestsOf!Csrf
  <2>2. CASE route[r].safe \/ brings[r].csrf
    <3>1. RequestsOf(R, e)!Pass(r) BY <1>5, <2>2 DEF RequestsOf!Csrf
    <3> QED BY <2>1, <2>2, <3>1, HttpGoesOn DEF Passes
  <2>3. CASE ~(route[r].safe \/ brings[r].csrf)
    <3>1. RequestsOf(R, e)!Answer(r, 403) BY <1>5, <2>3 DEF RequestsOf!Csrf, RequestsOf!Reject
    <3> QED BY <1>0, <2>1, <3>1, HttpStops DEF Denied, Clean
  <2> QED BY <2>2, <2>3
<1>6. CASE RequestsOf(R, e)!RateLimit(r)
  <2>1. RequestsOf(R, e)!At(r, "limit") /\ UNCHANGED RequestsOf(R, e)!requestVars
        /\ UNCHANGED <<identity, did, logged>>
        BY <1>6 DEF RequestsOf!RateLimit
  <2>2. RequestsOf(R, e)!Pass(r) \/ RequestsOf(R, e)!Answer(r, 429) BY <1>6 DEF RequestsOf!RateLimit
  <2>3. CASE RequestsOf(R, e)!Pass(r) BY <2>1, <2>3, HttpGoesOn DEF Passes
  <2>4. CASE RequestsOf(R, e)!Answer(r, 429) BY <1>0, <2>1, <2>4, HttpStops DEF Denied, Clean
  <2> QED BY <2>2, <2>3, <2>4
<1> QED BY <1>1, <1>2, <1>3, <1>4, <1>5, <1>6

\* Who the request is from: an identity stands for a token that is accepted now, and a token
\* that is not gives none.
LEMMA HttpWho ==
  ASSUME NEW R, NEW e, HttpInv(R, e), NEW r \in R,
         RequestsOf(R, e)!Authenticate(r) \/ RequestsOf(R, e)!AuthenticateApiKey(r)
  PROVE  HttpInv(R, e)'
<1>0. identity \in [R -> RequestsOf(R, e)!Tokens] /\ did \in [R -> 0..3]
      /\ logged \in [R -> BOOLEAN]
      BY DEF HttpInv, HttpTypes
<1>1. /\ identity = [identity EXCEPT ![r] = identity[r]] /\ did = [did EXCEPT ![r] = did[r]]
      /\ logged = [logged EXCEPT ![r] = logged[r]] /\ logged \in [R -> BOOLEAN]
      BY <1>0, SameThere
<1>2. CASE RequestsOf(R, e)!Authenticate(r)
  <2>1. RequestsOf(R, e)!At(r, "authenticate") /\ UNCHANGED RequestsOf(R, e)!requestVars
        /\ did' = did /\ logged' = logged
        BY <1>2 DEF RequestsOf!Authenticate
  <2>2. CASE RequestsOf(R, e)!CannotCheck(r) /\ UNCHANGED identity
    <3>1. RequestsOf(R, e)!Answer(r, 503) BY <2>2 DEF RequestsOf!CannotCheck, RequestsOf!Reject
    <3>2. 503 \in HttpStatus BY DEF HttpStatus
    <3> QED BY <2>1, <2>2, <3>1, <3>2, HttpStops DEF Denied, Clean
  <2>3. CASE /\ RequestsOf(R, e)!Pass(r)
             /\ identity' = IF brings[r].token \in RequestsOf(R, e)!Accepted
                            THEN [identity EXCEPT ![r] = brings[r].token] ELSE identity
    <3>1. route[r].mount # RequestsOf(R, e)!KeyMount
          /\ RequestsOf(R, e)!Verdict(route[r], brings[r].token) \in verdicts[r]
      <4>1. /\ steps[r] \in Seq(HttpStep) /\ steps[r] # <<>> /\ "authenticate" = Head(steps[r])
            /\ did[r] \in Nat /\ RequestsOf(R, e)!Verdict(route[r], brings[r].token) \in verdicts[r]
            /\ HttpFit(R, e, route[r], brings[r], identity[r], verdicts[r], did[r], steps[r])
            BY <2>1, HttpAt
      <4> QED BY <4>1, FitHead
    <3>0. /\ did' = [did EXCEPT ![r] = did[r]] /\ logged' = [logged EXCEPT ![r] = logged[r]]
          /\ logged' \in [R -> BOOLEAN] /\ RequestsOf(R, e)!Pass(r)
          BY <1>1, <2>1, <2>3
    <3>2. CASE brings[r].token \in RequestsOf(R, e)!Accepted
      <4>1. "accepted" \in verdicts[r] BY <3>1, <3>2 DEF RequestsOf!Verdict
      <4>2. brings[r].token # "none" BY <3>2 DEF RequestsOf!Accepted, RequestsOf!Account
      <4>3. identity' = [identity EXCEPT ![r] = brings[r].token] BY <2>3, <3>2
      <4>4. /\ Named(brings[r], verdicts[r], identity[r], brings[r].token)
            /\ Counted("authenticate", did[r], did[r])
            /\ Passes(route[r], brings[r], verdicts[r], brings[r].token, did[r], did[r], "authenticate")
            /\ Noted("authenticate", logged[r], logged[r])
            BY <4>1, <4>2 DEF Named, Counted, Noted, Passes
      <4> QED BY <2>1, <3>0, <4>3, <4>4, HttpPasses, ZenonT(60)
    <3>3. CASE brings[r].token \notin RequestsOf(R, e)!Accepted
      <4>1. "refused" \in verdicts[r] BY <3>1, <3>3 DEF RequestsOf!Verdict
      <4>2. identity' = [identity EXCEPT ![r] = identity[r]] BY <1>1, <2>3, <3>3
      <4>3. /\ Named(brings[r], verdicts[r], identity[r], identity[r])
            /\ Counted("authenticate", did[r], did[r])
            /\ Passes(route[r], brings[r], verdicts[r], identity[r], did[r], did[r], "authenticate")
            /\ Noted("authenticate", logged[r], logged[r])
            BY <4>1 DEF Named, Counted, Noted, Passes
      <4> QED BY <2>1, <3>0, <4>2, <4>3, HttpPasses, ZenonT(60)
    <3> QED BY <3>2, <3>3
  <2> QED BY <1>2, <2>2, <2>3 DEF RequestsOf!Authenticate
<1>3. CASE RequestsOf(R, e)!AuthenticateApiKey(r)
  <2>1. RequestsOf(R, e)!At(r, "key") /\ RequestsOf(R, e)!Pass(r)
        /\ UNCHANGED RequestsOf(R, e)!requestVars /\ did' = did /\ logged' = logged
        BY <1>3 DEF RequestsOf!AuthenticateApiKey
  <2>2. CASE brings[r].token = "key" /\ identity' = [identity EXCEPT ![r] = "key"]
    <3>1. route[r].mount = RequestsOf(R, e)!KeyMount
          /\ RequestsOf(R, e)!Verdict(route[r], brings[r].token) \in verdicts[r]
      <4>1. /\ steps[r] \in Seq(HttpStep) /\ steps[r] # <<>> /\ "key" = Head(steps[r])
            /\ did[r] \in Nat /\ RequestsOf(R, e)!Verdict(route[r], brings[r].token) \in verdicts[r]
            /\ HttpFit(R, e, route[r], brings[r], identity[r], verdicts[r], did[r], steps[r])
            BY <2>1, HttpAt
      <4> QED BY <4>1, FitHead
    <3>2. "accepted" \in verdicts[r] BY <2>2, <3>1 DEF RequestsOf!Verdict
    <3>3. /\ Named(brings[r], verdicts[r], identity[r], "key") /\ Counted("key", did[r], did[r])
          /\ Passes(route[r], brings[r], verdicts[r], "key", did[r], did[r], "key")
          /\ Noted("key", logged[r], logged[r])
          BY <2>2, <3>2 DEF Named, Counted, Noted, Passes
    <3> QED BY <1>1, <2>1, <2>2, <3>3, HttpPasses, ZenonT(60)
  <2>3. CASE identity' = identity
    <3>1. Passes(route[r], brings[r], verdicts[r], identity[r], did[r], did[r], "key") BY DEF Passes
    <3> QED BY <2>1, <2>3, <3>1, HttpGoesOn
  <2> QED BY <1>3, <2>2, <2>3 DEF RequestsOf!AuthenticateApiKey
<1> QED BY <1>2, <1>3

\* The steps of the handlers.
LEMMA HttpHandlerSteps ==
  ASSUME NEW R, NEW e, HttpInv(R, e), NEW r \in R,
         \/ RequestsOf(R, e)!Body(r) \/ RequestsOf(R, e)!Find(r) \/ RequestsOf(R, e)!Write(r)
              \/ RequestsOf(R, e)!More(r) \/ RequestsOf(R, e)!Roles(r) \/ RequestsOf(R, e)!Log(r)
                   \/ RequestsOf(R, e)!Done(r)
  PROVE  HttpInv(R, e)'
<1>0. {200, 400, 403, 404, 500, 503} \subseteq HttpStatus BY DEF HttpStatus
<1>1. identity \in [R -> RequestsOf(R, e)!Tokens] /\ did \in [R -> 0..3]
      /\ logged \in [R -> BOOLEAN]
      BY DEF HttpInv, HttpTypes
<1>2. /\ identity = [identity EXCEPT ![r] = identity[r]] /\ did = [did EXCEPT ![r] = did[r]]
      /\ logged = [logged EXCEPT ![r] = logged[r]] /\ logged \in [R -> BOOLEAN]
      BY <1>1, SameThere
<1>3. CASE RequestsOf(R, e)!Body(r)
  <2>1. RequestsOf(R, e)!At(r, "body") /\ UNCHANGED RequestsOf(R, e)!requestVars
        /\ UNCHANGED <<identity, did, logged>> BY <1>3 DEF RequestsOf!Body
  <2>2. CASE RequestsOf(R, e)!Pass(r) BY <2>1, <2>2, HttpGoesOn DEF Passes
  <2>3. CASE RequestsOf(R, e)!Answer(r, 400) BY <1>0, <2>1, <2>3, HttpStops DEF Denied, Clean
  <2> QED BY <1>3, <2>2, <2>3 DEF RequestsOf!Body, RequestsOf!Reject
<1>4. CASE RequestsOf(R, e)!Find(r)
  <2>1. RequestsOf(R, e)!At(r, "find") /\ UNCHANGED RequestsOf(R, e)!requestVars
        /\ UNCHANGED <<identity, did, logged>> BY <1>4 DEF RequestsOf!Find
  <2>2. CASE RequestsOf(R, e)!Pass(r) BY <2>1, <2>2, HttpGoesOn DEF Passes
  <2>3. CASE RequestsOf(R, e)!Answer(r, 404) BY <1>0, <2>1, <2>3, HttpStops DEF Denied, Clean
  <2>4. CASE RequestsOf(R, e)!Answer(r, 500) BY <1>0, <2>1, <2>4, HttpStops DEF Denied, Clean
  <2> QED BY <1>4, <2>2, <2>3, <2>4 DEF RequestsOf!Find, RequestsOf!Reject
<1>5. CASE RequestsOf(R, e)!Write(r)
  <2>1. RequestsOf(R, e)!At(r, "write") /\ UNCHANGED RequestsOf(R, e)!requestVars
        /\ UNCHANGED <<identity, logged>> BY <1>5 DEF RequestsOf!Write
  <2>2. "write" \in Changing BY DEF Changing
  <2>3. CASE RequestsOf(R, e)!Pass(r) /\ RequestsOf(R, e)!Changed(r)
        BY <2>1, <2>2, <2>3, HttpChanges
  <2>4. CASE RequestsOf(R, e)!Answer(r, 404) /\ UNCHANGED did
        BY <1>0, <2>1, <2>4, HttpStops DEF Denied, Clean
  <2>5. CASE RequestsOf(R, e)!Answer(r, 500) /\ (RequestsOf(R, e)!Changed(r) \/ UNCHANGED did)
        BY <2>1, <2>2, <2>5, HttpFails
  <2> QED BY <1>5, <2>3, <2>4, <2>5 DEF RequestsOf!Write, RequestsOf!Refused, RequestsOf!Reject
<1>6. CASE RequestsOf(R, e)!More(r)
  <2>1. RequestsOf(R, e)!At(r, "more") /\ UNCHANGED RequestsOf(R, e)!requestVars
        /\ UNCHANGED <<identity, logged>> BY <1>6 DEF RequestsOf!More
  <2>2. "more" \in Changing BY DEF Changing
  <2>3. CASE RequestsOf(R, e)!Pass(r) /\ RequestsOf(R, e)!Changed(r)
        BY <2>1, <2>2, <2>3, HttpChanges
  <2>4. CASE RequestsOf(R, e)!Answer(r, 500) /\ (RequestsOf(R, e)!Changed(r) \/ UNCHANGED did)
        BY <2>1, <2>2, <2>4, HttpFails
  <2> QED BY <1>6, <2>3, <2>4 DEF RequestsOf!More, RequestsOf!Reject
<1>7. CASE RequestsOf(R, e)!Roles(r)
  <2>1. RequestsOf(R, e)!At(r, "roles") /\ UNCHANGED RequestsOf(R, e)!requestVars
        /\ UNCHANGED <<identity, logged>> BY <1>7 DEF RequestsOf!Roles
  <2>2. "roles" \in Changing BY DEF Changing
  <2>3. CASE RequestsOf(R, e)!Pass(r) /\ RequestsOf(R, e)!Changed(r)
        BY <2>1, <2>2, <2>3, HttpChanges
  <2>4. CASE RequestsOf(R, e)!Pass(r) /\ UNCHANGED did BY <2>1, <2>4, HttpGoesOn DEF Passes
  <2>5. CASE RequestsOf(R, e)!Answer(r, 403) /\ UNCHANGED did
        BY <1>0, <2>1, <2>5, HttpStops DEF Denied, Clean
  <2>6. CASE RequestsOf(R, e)!Answer(r, 500) /\ (RequestsOf(R, e)!Changed(r) \/ UNCHANGED did)
        BY <2>1, <2>2, <2>6, HttpFails
  <2> QED BY <1>7, <2>3, <2>4, <2>5, <2>6 DEF RequestsOf!Roles, RequestsOf!Reject
<1>8. CASE RequestsOf(R, e)!Log(r)
  <2>1. RequestsOf(R, e)!At(r, "log") /\ UNCHANGED RequestsOf(R, e)!requestVars
        /\ UNCHANGED <<identity, did>> BY <1>8 DEF RequestsOf!Log
  <2>2. CASE RequestsOf(R, e)!Pass(r) /\ logged' = [logged EXCEPT ![r] = TRUE]
    <3>1. /\ Named(brings[r], verdicts[r], identity[r], identity[r])
          /\ Counted("log", did[r], did[r])
          /\ Passes(route[r], brings[r], verdicts[r], identity[r], did[r], did[r], "log")
          /\ Noted("log", logged[r], TRUE)
          BY DEF Named, Counted, Noted, Passes
    <3>2. logged' \in [R -> BOOLEAN] BY <1>1, <2>2
    <3> QED BY <1>2, <2>1, <2>2, <3>1, <3>2, HttpPasses
  <2>3. CASE RequestsOf(R, e)!Answer(r, 500) /\ UNCHANGED logged
        BY <1>0, <2>1, <2>3, HttpStops DEF Denied, Clean
  <2> QED BY <1>8, <2>2, <2>3 DEF RequestsOf!Log, RequestsOf!Reject
<1>9. CASE RequestsOf(R, e)!Done(r)
  <2>1. RequestsOf(R, e)!At(r, "answer") /\ UNCHANGED RequestsOf(R, e)!requestVars
        /\ UNCHANGED <<identity, did, logged>> BY <1>9 DEF RequestsOf!Done
  <2>2. PICK st \in {200, 500, 503} : RequestsOf(R, e)!Answer(r, st)
        BY <1>9 DEF RequestsOf!Done, RequestsOf!Reject
  <2> QED BY <1>0, <2>1, <2>2, HttpStops DEF Denied, Clean
<1> QED BY <1>3, <1>4, <1>5, <1>6, <1>7, <1>8, <1>9

\* A request comes in.
LEMMA HttpArrives ==
  ASSUME NEW R, NEW e, HttpInv(R, e), NEW r \in R, NEW rt \in RequestsOf(R, e)!All,
         NEW b \in RequestsOf(R, e)!Anything, RequestsOf(R, e)!Arrive(r, rt, b)
  PROVE  HttpInv(R, e)'
<1>1. /\ route \in [R -> RequestsOf(R, e)!All] /\ brings \in [R -> RequestsOf(R, e)!Anything]
      /\ steps \in [R -> Seq(HttpStep)]
      /\ identity \in [R -> RequestsOf(R, e)!Tokens] /\ status \in [R -> HttpStatus]
      /\ did \in [R -> 0..3]
      /\ logged \in [R -> BOOLEAN] /\ verdicts \in [R -> SUBSET {"accepted", "refused"}]
      /\ good \in BOOLEAN
      BY DEF HttpInv, HttpTypes
<1>2. /\ steps[r] = <<>> /\ status[r] = 0
      /\ route' = [route EXCEPT ![r] = rt] /\ brings' = [brings EXCEPT ![r] = b]
      /\ steps' = [steps EXCEPT ![r] = RequestsOf(R, e)!Chain(rt)]
      /\ verdicts' = [verdicts EXCEPT ![r] = {RequestsOf(R, e)!Verdict(rt, b.token)}]
      /\ identity' = identity /\ status' = status /\ did' = did /\ logged' = logged /\ good' = good
      BY DEF RequestsOf!Arrive
<1> DEFINE v == RequestsOf(R, e)!Verdict(rt, b.token)
<1>3. v \in {"accepted", "refused"} BY DEF RequestsOf!Verdict
<1>4. /\ RequestsOf(R, e)!Chain(rt) \in Seq(HttpStep) /\ RequestsOf(R, e)!Chain(rt) # <<>>
      /\ HttpFit(R, e, rt, b, "none", {v}, 0, RequestsOf(R, e)!Chain(rt))
      BY ChainFits
<1>5. identity[r] = "none" /\ did[r] = 0 /\ ~logged[r]
      BY <1>2 DEF HttpInv, HttpOne, HttpReq
<1>6. HttpTypes(R, e)'
  <2>1. {v} \in SUBSET {"accepted", "refused"} BY <1>3
  <2>2. /\ route' \in [R -> RequestsOf(R, e)!All] /\ brings' \in [R -> RequestsOf(R, e)!Anything]
        /\ steps' \in [R -> Seq(HttpStep)]
        /\ verdicts' \in [R -> SUBSET {"accepted", "refused"}]
        BY <1>1, <1>2, <1>4, <2>1
  <2> QED BY <1>1, <1>2, <2>2 DEF HttpTypes
<1>7. ASSUME NEW x \in R PROVE HttpOne(R, e, x)'
  <2>1. CASE x = r
    <3>1. /\ route'[x] = rt /\ brings'[x] = b /\ steps'[x] = RequestsOf(R, e)!Chain(rt)
          /\ verdicts'[x] = {v}
          /\ identity'[x] = "none" /\ status'[x] = 0 /\ did'[x] = 0 /\ logged'[x] = logged[r]
          BY <1>1, <1>2, <1>5, <2>1
    <3>2. RequestsOf(R, e)!Verdict(route[x], brings[x].token)' = v
          BY <1>2, <3>1 DEF RequestsOf!Verdict, RequestsOf!Accepted
    <3>3. HttpReq(R, e, v, rt, b, RequestsOf(R, e)!Chain(rt), "none", 0, 0, logged[r], {v})
          BY <1>4, <1>5 DEF HttpReq
    <3> QED BY <3>1, <3>2, <3>3 DEF HttpOne
  <2>2. CASE x # r
    <3>1. /\ route'[x] = route[x] /\ brings'[x] = brings[x] /\ steps'[x] = steps[x]
          /\ verdicts'[x] = verdicts[x]
          /\ identity'[x] = identity[x] /\ status'[x] = status[x] /\ did'[x] = did[x]
          /\ logged'[x] = logged[x]
          BY <1>1, <1>2, <2>2
    <3>2. RequestsOf(R, e)!Verdict(route[x], brings[x].token)' = RequestsOf(R, e)!Verdict(route[x], brings[x].token)
          BY <1>2, <3>1 DEF RequestsOf!Verdict, RequestsOf!Accepted
    <3>3. HttpOne(R, e, x) BY DEF HttpInv
    <3> QED BY <3>1, <3>2, <3>3 DEF HttpOne
  <2> QED BY <2>1, <2>2
<1> QED BY <1>6, <1>7 DEF HttpInv

\* More verdicts are right since the request came.
LEMMA ReqSees ==
  ASSUME NEW R, NEW e, NEW v, NEW v2, NEW rt, NEW b, NEW q, NEW who, NEW st, NEW d, NEW lg, NEW sn,
         NEW sn2,
         HttpReq(R, e, v, rt, b, q, who, st, d, lg, sn), sn \subseteq sn2,
         q # <<>> => v2 \in sn2, q = <<>> => sn2 = sn
  PROVE  HttpReq(R, e, v2, rt, b, q, who, st, d, lg, sn2)
<1>1. HttpFit(R, e, rt, b, who, sn, d, q) => HttpFit(R, e, rt, b, who, sn2, d, q) BY DEF HttpFit
<1> QED BY <1>1 DEF HttpReq

\* The account of a request changes; the token of any other gets the same verdict as before.
LEMMA HttpAccount ==
  ASSUME NEW R, NEW e, HttpInv(R, e), RequestsOf(R, e)!AccountChanges
  PROVE  HttpInv(R, e)'
<1>1. /\ verdicts \in [R -> SUBSET {"accepted", "refused"}] /\ good \in BOOLEAN
      /\ \A r \in R : brings[r] \in RequestsOf(R, e)!Anything
      BY DEF HttpInv, HttpTypes
<1>2. /\ good' = ~good
      /\ verdicts' = [r \in R |-> IF RequestsOf(R, e)!Concerned(r) THEN {"accepted", "refused"} ELSE verdicts[r]]
      /\ route' = route /\ brings' = brings /\ steps' = steps /\ identity' = identity
      /\ status' = status /\ did' = did /\ logged' = logged
      BY DEF RequestsOf!AccountChanges
<1>3. HttpTypes(R, e)'
  <2>1. verdicts' \in [R -> SUBSET {"accepted", "refused"}] /\ good' \in BOOLEAN BY <1>1, <1>2
  <2> QED BY <1>2, <2>1 DEF HttpInv, HttpTypes
<1>4. ASSUME NEW x \in R PROVE HttpOne(R, e, x)'
  <2> DEFINE v == RequestsOf(R, e)!Verdict(route[x], brings[x].token)
  <2>1. HttpOne(R, e, x) BY DEF HttpInv
  <2>2. v' \in {"accepted", "refused"} BY DEF RequestsOf!Verdict
  <2>3. verdicts[x] \subseteq verdicts'[x] /\ (steps[x] = <<>> => verdicts'[x] = verdicts[x])
        BY <1>1, <1>2 DEF RequestsOf!Concerned
  <2>4. steps[x] # <<>> => v' \in verdicts'[x]
    <3>1. CASE RequestsOf(R, e)!Concerned(x) BY <1>2, <2>2, <3>1
    <3>2. CASE ~RequestsOf(R, e)!Concerned(x) /\ steps[x] # <<>>
      <4>1. verdicts'[x] = verdicts[x] BY <1>2, <3>2
      <4>2. v \in verdicts[x] BY <2>1, <3>2 DEF HttpOne, HttpReq
      <4>3. brings[x].token \notin RequestsOf(R, e)!Account
            \/ route[x].mount = RequestsOf(R, e)!KeyMount BY <3>2 DEF RequestsOf!Concerned
      <4>4. v' = v BY <1>2, <4>3 DEF RequestsOf!Verdict, RequestsOf!Accepted
      <4> QED BY <4>1, <4>2, <4>4
    <3> QED BY <3>1, <3>2
  <2> HIDE DEF v
  <2>5. HttpReq(R, e, v, route[x], brings[x], steps[x], identity[x], status[x], did[x], logged[x], verdicts[x])
        BY <2>1 DEF HttpOne, v
  <2>6. HttpReq(R, e, v', route[x], brings[x], steps[x], identity[x], status[x], did[x], logged[x], verdicts'[x])
        BY <2>3, <2>4, <2>5, ReqSees
  <2> QED BY <1>2, <2>6 DEF HttpOne, v
<1> QED BY <1>3, <1>4 DEF HttpInv

\* The limiter: what it let through it has counted, or it failed, and it stopped at the limit.
Budget(R, e) ==
  /\ used \in [RequestsOf(R, e)!Types -> [RequestsOf(R, e)!Scopes -> Nat]]
  /\ passed \in [RequestsOf(R, e)!Types -> [RequestsOf(R, e)!Scopes -> Nat]]
  /\ open \in [RequestsOf(R, e)!Types -> [RequestsOf(R, e)!Scopes -> Nat]]
  /\ \A t \in RequestsOf(R, e)!Types,
    s \in RequestsOf(R, e)!Scopes : /\ passed[t][s] <= open[t][s] + used[t][s]
                                      /\ passed[t][s] <= open[t][s] + Limit

\* One more of a type and a scope; a scope that is not counted leaves all as it is.
MoreOf(f, t, s) == [f EXCEPT ![t][s] = f[t][s] + 1]

OneUp(R, e, f, t, s, g) ==
  /\ g \in [RequestsOf(R, e)!Types -> [RequestsOf(R, e)!Scopes -> Nat]]
  /\ \A x \in RequestsOf(R, e)!Types,
    y \in RequestsOf(R, e)!Scopes : g[x][y] = IF x = t /\ y = s THEN f[x][y] + 1 ELSE f[x][y]

\* The scope goes up by one, or nothing does.
LEMMA OneMore ==
  ASSUME NEW R, NEW e, NEW f, f \in [RequestsOf(R, e)!Types -> [RequestsOf(R, e)!Scopes -> Nat]],
         NEW t \in RequestsOf(R, e)!Types, NEW s
  PROVE  OneUp(R, e, f, t, s, MoreOf(f, t, s))
<1> DEFINE T == RequestsOf(R, e)!Types
           S == RequestsOf(R, e)!Scopes
<1> HIDE DEF T, S
<1>0. f \in [T -> [S -> Nat]] /\ t \in T BY DEF T, S
<1> DEFINE g == MoreOf(f, t, s)
           h == [f[t] EXCEPT ![s] = f[t][s] + 1]
<1>1. g = [f EXCEPT ![t] = h] BY <1>0 DEF MoreOf
<1>2. h \in [S -> Nat] /\ \A y \in S : h[y] = IF y = s THEN f[t][y] + 1 ELSE f[t][y]
  <2>1. f[t] \in [S -> Nat] BY <1>0
  <2>2. h = [y \in S |-> IF y = s THEN f[t][s] + 1 ELSE f[t][y]] BY <2>1
  <2>3. \A y \in S : (IF y = s THEN f[t][s] + 1 ELSE f[t][y]) \in Nat BY <2>1
  <2> HIDE DEF h
  <2> QED BY <2>2, <2>3
<1> HIDE DEF h, g
<1>3. g \in [T -> [S -> Nat]] /\ \A x \in T,
        y \in S : g[x][y] = IF x = t /\ y = s THEN f[x][y] + 1 ELSE f[x][y]
      BY <1>0, <1>1, <1>2
<1> QED BY <1>3 DEF g, OneUp, T, S

\* The limiter counts a request, refuses it or fails, and the budget is kept.
LEMMA BudgetKept ==
  ASSUME NEW R, NEW e, HttpInv(R, e), Budget(R, e), NEW r \in R, RequestsOf(R, e)!RateLimit(r)
  PROVE  Budget(R, e)'
<1> USE RequestsAssumption
<1> DEFINE t == route[r].limit
           s == RequestsOf(R, e)!ScopeOf(r)
<1>1. t \in RequestsOf(R, e)!Types
  <2>1. RequestsOf(R, e)!At(r, "limit") BY DEF RequestsOf!RateLimit
  <2>2. /\ steps[r] \in Seq(HttpStep) /\ steps[r] # <<>> /\ "limit" = Head(steps[r])
        /\ did[r] \in Nat
        /\ HttpFit(R, e, route[r], brings[r], identity[r], verdicts[r], did[r], steps[r])
        BY <2>1, HttpAt
  <2> QED BY <2>2, FitHead
<1>2. \/ /\ used' = MoreOf(used, t, s)
         /\ IF used[t][s] < Limit THEN passed' = MoreOf(passed, t, s) ELSE passed' = passed
         /\ open' = open
      \/ /\ passed' = MoreOf(passed, t, s)
         /\ open' = MoreOf(open, t, s) /\ used' = used
      BY DEF RequestsOf!RateLimit, RequestsOf!Allowed, MoreOf
<1>3. /\ used \in [RequestsOf(R, e)!Types -> [RequestsOf(R, e)!Scopes -> Nat]]
      /\ passed \in [RequestsOf(R, e)!Types -> [RequestsOf(R, e)!Scopes -> Nat]]
      /\ open \in [RequestsOf(R, e)!Types -> [RequestsOf(R, e)!Scopes -> Nat]]
      /\ \A x \in RequestsOf(R, e)!Types,
        y \in RequestsOf(R, e)!Scopes : /\ passed[x][y] <= open[x][y] + used[x][y]
                                          /\ passed[x][y] <= open[x][y] + Limit
      BY DEF Budget
<1> HIDE DEF t, s
<1>4. \A x \in RequestsOf(R, e)!Types,
        y \in RequestsOf(R, e)!Scopes : used[x][y] \in Nat /\ passed[x][y] \in Nat
          /\ open[x][y] \in Nat
      BY <1>3
<1>5. CASE /\ used' = MoreOf(used, t, s) /\ used[t][s] < Limit
           /\ passed' = MoreOf(passed, t, s) /\ open' = open
  <2>1. /\ used' \in [RequestsOf(R, e)!Types -> [RequestsOf(R, e)!Scopes -> Nat]]
        /\ \A x \in RequestsOf(R, e)!Types, y \in RequestsOf(R, e)!Scopes :
             used'[x][y] = IF x = t /\ y = s THEN used[x][y] + 1 ELSE used[x][y]
    <3>1. OneUp(R, e, used, t, s, MoreOf(used, t, s)) BY <1>1, <1>3, OneMore
    <3> QED BY <1>5, <3>1 DEF OneUp
  <2>2. /\ passed' \in [RequestsOf(R, e)!Types -> [RequestsOf(R, e)!Scopes -> Nat]]
        /\ \A x \in RequestsOf(R, e)!Types, y \in RequestsOf(R, e)!Scopes :
             passed'[x][y] = IF x = t /\ y = s THEN passed[x][y] + 1 ELSE passed[x][y]
    <3>1. OneUp(R, e, passed, t, s, MoreOf(passed, t, s)) BY <1>1, <1>3, OneMore
    <3> QED BY <1>5, <3>1 DEF OneUp
  <2>3. ASSUME NEW x \in RequestsOf(R, e)!Types, NEW y \in RequestsOf(R, e)!Scopes
        PROVE  /\ passed'[x][y] <= open'[x][y] + used'[x][y]
               /\ passed'[x][y] <= open'[x][y] + Limit
    <3>1. /\ passed[x][y] <= open[x][y] + used[x][y] /\ passed[x][y] <= open[x][y] + Limit
          /\ used[x][y] \in Nat /\ passed[x][y] \in Nat /\ open[x][y] \in Nat
          BY <1>3, <1>4
    <3>2. CASE x = t /\ y = s
      <4>1. passed'[x][y] = passed[x][y] + 1 /\ used'[x][y] = used[x][y] + 1
            /\ open'[x][y] = open[x][y]
            BY <1>5, <2>1, <2>2, <3>2
      <4>2. used[x][y] < Limit BY <1>5, <3>2
      <4> QED BY <3>1, <4>1, <4>2
    <3>3. CASE ~(x = t /\ y = s)
      <4>1. passed'[x][y] = passed[x][y] /\ used'[x][y] = used[x][y] /\ open'[x][y] = open[x][y]
            BY <1>5, <2>1, <2>2, <3>3
      <4> QED BY <3>1, <4>1
    <3> QED BY <3>2, <3>3
  <2> QED BY <1>3, <1>5, <2>1, <2>2, <2>3 DEF Budget, RequestsOf!Types, RequestsOf!Scopes
<1>6. CASE used' = MoreOf(used, t, s) /\ passed' = passed /\ open' = open
  <2>1. /\ used' \in [RequestsOf(R, e)!Types -> [RequestsOf(R, e)!Scopes -> Nat]]
        /\ \A x \in RequestsOf(R, e)!Types, y \in RequestsOf(R, e)!Scopes :
             used'[x][y] = IF x = t /\ y = s THEN used[x][y] + 1 ELSE used[x][y]
    <3>1. OneUp(R, e, used, t, s, MoreOf(used, t, s)) BY <1>1, <1>3, OneMore
    <3> QED BY <1>6, <3>1 DEF OneUp
  <2>2. passed' \in [RequestsOf(R, e)!Types -> [RequestsOf(R, e)!Scopes -> Nat]]
        /\ open' \in [RequestsOf(R, e)!Types -> [RequestsOf(R, e)!Scopes -> Nat]] BY <1>3, <1>6
  <2>3. \A x \in RequestsOf(R, e)!Types,
          y \in RequestsOf(R, e)!Scopes : /\ passed'[x][y] <= open'[x][y] + used'[x][y]
                                         /\ passed'[x][y] <= open'[x][y] + Limit
        BY <1>3, <1>4, <1>6, <2>1
  <2> QED BY <2>1, <2>2, <2>3 DEF Budget, RequestsOf!Types, RequestsOf!Scopes
<1>7. CASE /\ passed' = MoreOf(passed, t, s)
           /\ open' = MoreOf(open, t, s) /\ used' = used
  <2>1. /\ open' \in [RequestsOf(R, e)!Types -> [RequestsOf(R, e)!Scopes -> Nat]]
        /\ \A x \in RequestsOf(R, e)!Types, y \in RequestsOf(R, e)!Scopes :
             open'[x][y] = IF x = t /\ y = s THEN open[x][y] + 1 ELSE open[x][y]
    <3>1. OneUp(R, e, open, t, s, MoreOf(open, t, s)) BY <1>1, <1>3, OneMore
    <3> QED BY <1>7, <3>1 DEF OneUp
  <2>2. /\ passed' \in [RequestsOf(R, e)!Types -> [RequestsOf(R, e)!Scopes -> Nat]]
        /\ \A x \in RequestsOf(R, e)!Types, y \in RequestsOf(R, e)!Scopes :
             passed'[x][y] = IF x = t /\ y = s THEN passed[x][y] + 1 ELSE passed[x][y]
    <3>1. OneUp(R, e, passed, t, s, MoreOf(passed, t, s)) BY <1>1, <1>3, OneMore
    <3> QED BY <1>7, <3>1 DEF OneUp
  <2>3. \A x \in RequestsOf(R, e)!Types,
          y \in RequestsOf(R, e)!Scopes : /\ passed'[x][y] <= open'[x][y] + used'[x][y]
                                         /\ passed'[x][y] <= open'[x][y] + Limit
        BY <1>3, <1>4, <1>7, <2>1, <2>2, SMTT(30)
  <2> QED BY <1>3, <1>7, <2>1, <2>2, <2>3 DEF Budget, RequestsOf!Types, RequestsOf!Scopes
<1> QED BY <1>2, <1>5, <1>6, <1>7

\* The two together are inductive.
LEMMA HttpStarts ==
  ASSUME NEW R, NEW e, RequestsOf(R, e)!Init
  PROVE  HttpInv(R, e) /\ Budget(R, e)
<1> USE RequestsAssumption
<1> DEFINE none == [token |-> "none", csrf |-> FALSE, foreign |-> FALSE]
<1>1. RequestsOf(R, e)!health \in RequestsOf(R, e)!All BY DEF RequestsOf!All
<1>2. none \in RequestsOf(R, e)!Anything BY DEF RequestsOf!Anything, RequestsOf!Tokens
<1>3. /\ route = [r \in R |-> RequestsOf(R, e)!health] /\ brings = [r \in R |-> none]
      /\ steps = [r \in R |-> <<>>] /\ identity = [r \in R |-> "none"]
      /\ status = [r \in R |-> 0] /\ did = [r \in R |-> 0] /\ logged = [r \in R |-> FALSE]
      /\ good = TRUE /\ verdicts = [r \in R |-> {}]
      /\ used = RequestsOf(R, e)!None /\ passed = RequestsOf(R, e)!None
      /\ open = RequestsOf(R, e)!None
      BY DEF RequestsOf!Init
<1> HIDE DEF none
<1>4. HttpTypes(R, e)
  <2>1. "none" \in RequestsOf(R, e)!Tokens /\ 0 \in HttpStatus /\ <<>> \in Seq(HttpStep)
        BY DEF RequestsOf!Tokens, HttpStatus
  <2> QED BY <1>1, <1>2, <1>3, <2>1 DEF HttpTypes
<1>5. ASSUME NEW r \in R PROVE HttpOne(R, e, r)
  <2>1. /\ steps[r] = <<>> /\ identity[r] = "none" /\ status[r] = 0 /\ did[r] = 0
        /\ logged[r] = FALSE
        /\ verdicts[r] = {}
        BY <1>3
  <2> QED BY <2>1 DEF HttpOne, HttpReq
<1>6. Budget(R, e)
  <2>1. /\ RequestsOf(R, e)!None \in [RequestsOf(R, e)!Types -> [RequestsOf(R, e)!Scopes -> Nat]]
        /\ \A t \in RequestsOf(R, e)!Types,
          s \in RequestsOf(R, e)!Scopes : RequestsOf(R, e)!None[t][s] = 0
        BY DEF RequestsOf!None
  <2> QED BY <1>3, <2>1 DEF Budget
<1> QED BY <1>4, <1>5, <1>6 DEF HttpInv

\* No step of a request and no change of an account breaks it.
LEMMA HttpSteps ==
  ASSUME NEW R, NEW e, HttpInv(R, e), Budget(R, e), RequestsOf(R, e)!Next \/ UNCHANGED httpVars
  PROVE  HttpInv(R, e)' /\ Budget(R, e)'
<1>1. UNCHANGED <<used, passed, open>> => Budget(R, e)'
      BY DEF Budget, RequestsOf!Types, RequestsOf!Scopes
<1>2. ASSUME NEW r \in R, RequestsOf(R, e)!Step(r) PROVE HttpInv(R, e)' /\ Budget(R, e)'
  <2>1. CASE RequestsOf(R, e)!RateLimit(r) BY <2>1, HttpGuardSteps, BudgetKept
  <2>2. CASE RequestsOf(R, e)!Json(r) \/ RequestsOf(R, e)!Cors(r) \/ RequestsOf(R, e)!RequireAuth(r)
             \/ RequestsOf(R, e)!RequireRole(r) \/ RequestsOf(R, e)!Csrf(r)
    <3>1. UNCHANGED <<used, passed, open>>
          BY <2>2 DEF RequestsOf!Json, RequestsOf!Cors, RequestsOf!RequireAuth,
                      RequestsOf!RequireRole, RequestsOf!Csrf, RequestsOf!limitVars
    <3> QED BY <1>1, <2>2, <3>1, HttpGuardSteps
  <2>3. CASE RequestsOf(R, e)!Authenticate(r) \/ RequestsOf(R, e)!AuthenticateApiKey(r)
    <3>1. UNCHANGED <<used, passed, open>>
          BY <2>3 DEF RequestsOf!Authenticate, RequestsOf!AuthenticateApiKey, RequestsOf!limitVars
    <3> QED BY <1>1, <2>3, <3>1, HttpWho
  <2>4. CASE RequestsOf(R, e)!Body(r) \/ RequestsOf(R, e)!Find(r) \/ RequestsOf(R, e)!Write(r)
             \/ RequestsOf(R, e)!More(r) \/ RequestsOf(R, e)!Roles(r) \/ RequestsOf(R, e)!Log(r)
                  \/ RequestsOf(R, e)!Done(r)
    <3>1. UNCHANGED <<used, passed, open>>
          BY <2>4 DEF RequestsOf!Body, RequestsOf!Find, RequestsOf!Write, RequestsOf!More,
                      RequestsOf!Roles, RequestsOf!Log, RequestsOf!Done, RequestsOf!limitVars
    <3> QED BY <1>1, <2>4, <3>1, HttpHandlerSteps
  <2> QED BY <1>2, <2>1, <2>2, <2>3, <2>4 DEF RequestsOf!Step
<1>3. ASSUME NEW r \in R, NEW rt \in RequestsOf(R, e)!Served, NEW b \in RequestsOf(R, e)!Asked,
             RequestsOf(R, e)!Arrive(r, rt, b)
      PROVE  HttpInv(R, e)' /\ Budget(R, e)'
  <2>1. rt \in RequestsOf(R, e)!All BY DEF RequestsOf!Served, RequestsOf!Mixed, RequestsOf!All
  <2>2. b \in RequestsOf(R, e)!Anything
    <3>1. [token |-> "admin", csrf |-> TRUE, foreign |-> FALSE] \in RequestsOf(R, e)!Anything
          BY DEF RequestsOf!Anything, RequestsOf!Tokens, RequestsOf!Account
    <3>2. b \in RequestsOf(R, e)!Anything
          \/ b = [token |-> "admin", csrf |-> TRUE, foreign |-> FALSE]
          BY DEF RequestsOf!Asked, RequestsOf!Proper
    <3> QED BY <3>1, <3>2
  <2>3. UNCHANGED <<used, passed, open>> BY <1>3 DEF RequestsOf!Arrive, RequestsOf!limitVars
  <2> QED BY <1>1, <1>3, <2>1, <2>2, <2>3, HttpArrives
<1>4. CASE RequestsOf(R, e)!AccountChanges
  <2>1. UNCHANGED <<used, passed, open>> BY <1>4 DEF RequestsOf!AccountChanges, RequestsOf!limitVars
  <2> QED BY <1>1, <1>4, <2>1, HttpAccount
<1>5. CASE UNCHANGED httpVars
  <2>1. /\ route' = route /\ brings' = brings /\ steps' = steps /\ identity' = identity
        /\ status' = status /\ did' = did /\ logged' = logged /\ good' = good
        /\ verdicts' = verdicts
        /\ UNCHANGED <<used, passed, open>>
        BY <1>5 DEF httpVars
  <2>2. HttpTypes(R, e)' BY <2>1 DEF HttpInv, HttpTypes
  <2>3. ASSUME NEW x \in R PROVE HttpOne(R, e, x)'
    <3>1. RequestsOf(R, e)!Verdict(route[x], brings[x].token)' = RequestsOf(R, e)!Verdict(route[x], brings[x].token)
          BY <2>1 DEF RequestsOf!Verdict, RequestsOf!Accepted
    <3>2. HttpOne(R, e, x) BY DEF HttpInv
    <3> QED BY <2>1, <3>1, <3>2 DEF HttpOne
  <2> QED BY <1>1, <2>1, <2>2, <2>3 DEF HttpInv
<1> QED BY <1>2, <1>3, <1>4, <1>5 DEF RequestsOf!Next

\* What the requests promise follows.
LEMMA HttpPromise ==
  ASSUME NEW R, NEW e, HttpInv(R, e), Budget(R, e)
  PROVE  /\ RequestsOf(R, e)!TypeOK /\ RequestsOf(R, e)!ActsWithReason
         /\ RequestsOf(R, e)!OutageIsNoRefusal
         /\ RequestsOf(R, e)!SharedBudget /\ RequestsOf(R, e)!RefusalIsClean
         /\ RequestsOf(R, e)!NoneStranded
<1> USE RequestsAssumption
<1>1. HttpTypes(R, e) BY DEF HttpInv
<1>2. RequestsOf(R, e)!TypeOK
  <2> SUFFICES ASSUME NEW r \in R
               PROVE  /\ route[r] \in RequestsOf(R, e)!All
                      /\ brings[r] \in RequestsOf(R, e)!Anything
                      /\ identity[r] \in RequestsOf(R, e)!Tokens /\ did[r] \in 0..3
                      /\ logged[r] \in BOOLEAN
                      /\ status[r] \in {0, 200, 204, 400, 401, 403, 404, 429, 500, 503}
      BY <1>1 DEF RequestsOf!TypeOK, HttpTypes
  <2> QED BY <1>1 DEF HttpTypes, HttpStatus
<1>3. RequestsOf(R, e)!SharedBudget
  <2> SUFFICES ASSUME NEW t \in RequestsOf(R, e)!Types, NEW s \in RequestsOf(R, e)!Scopes
      PROVE passed[t][s] <= Limit + open[t][s]
      BY DEF RequestsOf!SharedBudget
  <2>1. passed[t][s] \in Nat /\ open[t][s] \in Nat /\ passed[t][s] <= open[t][s] + Limit
        BY DEF Budget
  <2> QED BY <2>1
<1>4. ASSUME NEW r \in R
      PROVE  /\ did[r] > 0 => /\ route[r].needs # "anyone" => "accepted" \in verdicts[r]
                              /\ route[r].needs = "admin" => brings[r].token = "admin"
                              /\ ~brings[r].foreign
                              /\ route[r].mount \in {RequestsOf(R, e)!AuthMount, RequestsOf(R, e)!MfaMount} => brings[r].csrf
             /\ status[r] = 401 => "refused" \in verdicts[r] \/ route[r] = RequestsOf(R, e)!ping
             /\ status[r] \in 400..499 /\ route[r] # RequestsOf(R, e)!patchUser => did[r] = 0
             /\ logged[r] => did[r] > 0
             /\ steps[r] = <<>> /\ status[r] = 0 => verdicts[r] = {}
  <2>1. HttpOne(R, e, r) BY DEF HttpInv
  <2> QED BY <2>1 DEF HttpOne, HttpReq
<1> QED BY <1>2, <1>3, <1>4 DEF RequestsOf!ActsWithReason, RequestsOf!OutageIsNoRefusal,
      RequestsOf!RefusalIsClean, RequestsOf!NoneStranded

\* One request of every kind, or a few at the same time.
BothRequests ==
  IF part = "together" THEN HttpInv(Req, FALSE) /\ Budget(Req, FALSE)
  ELSE HttpInv(OneReq, TRUE) /\ Budget(OneReq, TRUE)

\* What a handler has changed it did for a caller who may, a refusal has changed nothing and
\* left no entry, an outage is not taken for a refusal, no request is left without an answer,
\* and the requests of one type and scope share one budget: for any requests and any limit.
THEOREM RequestsSafe == Spec => []RequestsHold
<1>1. Init => BothRequests
  <2> SUFFICES ASSUME Init PROVE BothRequests OBVIOUS
  <2>1. CASE part = "together"
    <3>1. RequestsOf(Req, FALSE)!Init BY <2>1 DEF Init
    <3> QED BY <2>1, <3>1, HttpStarts DEF BothRequests
  <2>2. CASE part # "together"
    <3>1. RequestsOf(OneReq, TRUE)!Init BY <2>2 DEF Init
    <3> QED BY <2>2, <3>1, HttpStarts DEF BothRequests
  <2> QED BY <2>1, <2>2
<1>2. BothRequests /\ [Next]_vars => BothRequests'
  <2> SUFFICES ASSUME BothRequests, [Next]_vars PROVE BothRequests' OBVIOUS
  <2>1. part' = part BY DEF Next, vars
  <2>2. \/ UNCHANGED httpVars
        \/ part = "requests" /\ RequestsOf(OneReq, TRUE)!Next
        \/ part = "together" /\ RequestsOf(Req, FALSE)!Next
        BY DEF Next, vars, opsVars
  <2>3. CASE part = "together"
    <3>1. RequestsOf(Req, FALSE)!Next \/ UNCHANGED httpVars BY <2>2, <2>3
    <3>2. HttpInv(Req, FALSE) /\ Budget(Req, FALSE) BY <2>3 DEF BothRequests
    <3>3. HttpInv(Req, FALSE)' /\ Budget(Req, FALSE)' BY <3>1, <3>2, HttpSteps
    <3> QED BY <2>1, <2>3, <3>3 DEF BothRequests
  <2>4. CASE part # "together"
    <3>1. RequestsOf(OneReq, TRUE)!Next \/ UNCHANGED httpVars BY <2>2, <2>4
    <3>2. HttpInv(OneReq, TRUE) /\ Budget(OneReq, TRUE) BY <2>4 DEF BothRequests
    <3>3. HttpInv(OneReq, TRUE)' /\ Budget(OneReq, TRUE)' BY <3>1, <3>2, HttpSteps
    <3> QED BY <2>1, <2>4, <3>3 DEF BothRequests
  <2> QED BY <2>3, <2>4
<1>3. BothRequests => RequestsHold
  <2> SUFFICES ASSUME BothRequests PROVE RequestsHold OBVIOUS
  <2>1. ASSUME part = "together"
        PROVE  /\ RequestsOf(Req, FALSE)!TypeOK
               /\ RequestsOf(Req, FALSE)!ActsWithReason
               /\ RequestsOf(Req, FALSE)!OutageIsNoRefusal
               /\ RequestsOf(Req, FALSE)!SharedBudget
               /\ RequestsOf(Req, FALSE)!RefusalIsClean
               /\ RequestsOf(Req, FALSE)!NoneStranded
    <3>1. HttpInv(Req, FALSE) /\ Budget(Req, FALSE) BY <2>1 DEF BothRequests
    <3> QED BY <3>1, HttpPromise
  <2>2. ASSUME part = "requests"
        PROVE  /\ RequestsOf(OneReq, TRUE)!TypeOK
               /\ RequestsOf(OneReq, TRUE)!ActsWithReason
               /\ RequestsOf(OneReq, TRUE)!OutageIsNoRefusal
               /\ RequestsOf(OneReq, TRUE)!RefusalIsClean
               /\ RequestsOf(OneReq, TRUE)!NoneStranded
    <3>1. HttpInv(OneReq, TRUE) /\ Budget(OneReq, TRUE) BY <2>2 DEF BothRequests
    <3> QED BY <3>1, HttpPromise
  <2> QED BY <2>1, <2>2 DEF RequestsHold
<1> QED BY <1>1, <1>2, <1>3, PTL DEF Spec
=============================================================================

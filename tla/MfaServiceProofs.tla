-------------------------- MODULE MfaServiceProofs --------------------------
(***************************************************************************)
(* For any number of calls, secrets and attempts: a spent backup code is   *)
(* never accepted again, MFA is only on with a confirmed secret, and wrong *)
(* codes exceed the budget by at most one per other call.                  *)
(***************************************************************************)
EXTENDS MfaService, FiniteSetTheorems, TLAPS

\* The calls at one of the awaits in L.
In(L) == {r \in Req : pc[r] \in L}

-----------------------------------------------------------------------------
(* Types *)

\* There are finitely many calls, so the bound on the guesses is a number.
LEMMA Bounds == Cardinality(Req) \in Nat /\ MaxGuesses \in Nat
  BY ReqAssumption, LimitAssumption, FS_CardinalityType DEF MaxGuesses

\* The account is not locked from the start.
LEMMA Limit == MFA_MAX_ATTEMPTS \in Nat /\ 0 < MFA_MAX_ATTEMPTS
  BY LimitAssumption

\* Ending a call clears its frame.
LEMMA EndType ==
  ASSUME TypeOK, NEW r \in Req, End(r)
  PROVE  /\ pc' \in [Req -> PC] /\ op' \in [Req -> Operation \cup {"none"}]
         /\ code' \in [Req -> Presented] /\ seen' \in [Req -> Secret]
         /\ replay' \in [Req -> BOOLEAN]
<1>1. Wrong \in Presented
      BY DEF Wrong, Presented
<1>2. 0 \in Secret
      BY SecretsAssumption DEF Secret
<1>3. replay' \in [Req -> BOOLEAN]
      BY DEF End, TypeOK
<1>4. pc' \in [Req -> PC]
      BY DEF End, At, TypeOK, PC
<1> QED BY <1>1, <1>2, <1>3, <1>4 DEF End, TypeOK

\* A call that starts holds the code it was given and what it has read.
LEMMA BeginType ==
  ASSUME TypeOK, NEW r \in Req, NEW o \in Operation, NEW c \in Presented, NEW l \in PC,
         Begin(r, o, c, l)
  PROVE  /\ pc' \in [Req -> PC] /\ op' \in [Req -> Operation \cup {"none"}]
         /\ code' \in [Req -> Presented] /\ seen' \in [Req -> Secret]
         /\ replay' \in [Req -> BOOLEAN]
<1>1. 0 \in Secret
      BY SecretsAssumption DEF Secret
<1> QED BY <1>1 DEF Begin, At, TypeOK

\* A call that goes on is at an await.
LEMMA GoType ==
  ASSUME TypeOK, NEW r \in Req, NEW k, NEW l \in PC, Go(r, k, l)
  PROVE  pc' \in [Req -> PC] /\ UNCHANGED <<op, code, seen, replay>>
  BY DEF Go, At, TypeOK

\* The count of wrong codes keeps its range.
LEMMA CountedType == TypeOK => Counted \in 0..MaxGuesses
  BY Bounds DEF TypeOK, Counted

\* At the start MFA is off and nothing is stored.
LEMMA InitType == Init => TypeOK
<1> SUFFICES ASSUME Init PROVE TypeOK
    OBVIOUS
<1>1. enabled \in BOOLEAN /\ replay \in [Req -> BOOLEAN]
      BY Zenon DEF Init
<1>2. 0 \in Secret
      BY SecretsAssumption DEF Secret
<1>3. guesses \in 0..MaxGuesses
      BY Bounds DEF Init
<1>4. pc \in [Req -> PC] /\ op \in [Req -> Operation \cup {"none"}]
      BY DEF Init, PC
<1>5. code \in [Req -> Presented]
      BY DEF Init, Presented, Wrong
<1> QED BY <1>1, <1>2, <1>3, <1>4, <1>5 DEF Init, TypeOK

\* Every step keeps the types.
LEMMA StepType == TypeOK /\ [Next]_vars => TypeOK'
<1> SUFFICES ASSUME TypeOK, [Next]_vars PROVE TypeOK'
    OBVIOUS
<1> USE DEF user, codes, frame, history
<1>p. /\ "store" \in PC /\ "delete" \in PC /\ "insert" \in PC /\ "activate" \in PC
      /\ "gate" \in PC /\ "unlock" \in PC /\ "read" \in PC /\ "backup" \in PC /\ "use" \in PC
      /\ "success" \in PC /\ "failure" \in PC /\ "lock" \in PC /\ "off" \in PC /\ "drop" \in PC
      BY DEF PC
<1>o. /\ "setup" \in Operation /\ "enable" \in Operation /\ "verify" \in Operation
      /\ "disable" \in Operation
      BY DEF Operation
<1>z. 0 \in Secret
      BY SecretsAssumption DEF Secret
<1>w. Wrong \in Presented
      BY DEF Wrong, Presented
<1>c. ASSUME NEW b, NEW what \in {"setup", "count"}, Cross(b, what)
      PROVE  crossed' \subseteq {"setup", "count"}
      BY <1>c DEF Cross, TypeOK
<1>0. CASE UNCHANGED vars
      BY <1>0 DEF vars, TypeOK
<1>1. ASSUME NEW r \in Req, BeginSetup(r) PROVE TypeOK'
      BY <1>1, <1>p, <1>o, <1>w, BeginType DEF BeginSetup, TypeOK
<1>2. ASSUME NEW r \in Req, StoreSecret(r) PROVE TypeOK'
  <2>1. last' \in Secret /\ secret' \in Secret
        BY <1>2, SecretsAssumption DEF StoreSecret, TypeOK, Secret
  <2>2. pc' \in [Req -> PC] /\ seen' \in [Req -> Secret]
        BY <1>2, <1>p, <2>1 DEF StoreSecret, At, TypeOK
  <2>3. crossed' \subseteq {"setup", "count"}
        BY <1>2, <1>c DEF StoreSecret
  <2> QED BY <1>2, <2>1, <2>2, <2>3 DEF StoreSecret, TypeOK
<1>3. ASSUME NEW r \in Req, DeleteCodes(r) PROVE TypeOK'
      BY <1>3, <1>p, GoType DEF DeleteCodes, TypeOK
<1>4. ASSUME NEW r \in Req, InsertCodes(r) PROVE TypeOK'
      BY <1>4, EndType DEF InsertCodes, TypeOK
<1>5. ASSUME NEW r \in Req, NEW c \in Presented, EnableRead(r, c) PROVE TypeOK'
      BY <1>5, <1>p, <1>o, BeginType DEF EnableRead, TypeOK
<1>6. ASSUME NEW r \in Req, Activate(r) PROVE TypeOK'
  <2>1. enabled' \in BOOLEAN
        BY <1>6, Zenon DEF Activate
  <2>2. crossed' \subseteq {"setup", "count"}
        BY <1>6, <1>c DEF Activate
  <2> QED BY <1>6, <2>1, <2>2, EndType DEF Activate, TypeOK
<1>7. ASSUME NEW r \in Req, NEW o \in Operation, NEW c \in Presented, Challenge(r, o, c) PROVE TypeOK'
      BY <1>7, <1>p, BeginType DEF Challenge, TypeOK
<1>8. ASSUME NEW r \in Req, MfaLocked(r) PROVE TypeOK'
  <2>1. CASE End(r)
        BY <1>8, <2>1, EndType DEF MfaLocked, TypeOK
  <2>2. CASE Go(r, "gate", IF lock = "past" THEN "unlock" ELSE "read")
        BY <1>8, <2>2, <1>p, GoType DEF MfaLocked, TypeOK
  <2> QED BY <1>8, <2>1, <2>2 DEF MfaLocked
<1>9. ASSUME NEW r \in Req, Unlock(r) PROVE TypeOK'
  <2>1. crossed' \subseteq {"setup", "count"}
        BY <1>9, <1>c DEF Unlock
  <2>2. guesses' \in 0..MaxGuesses
        BY <1>9, Bounds DEF Unlock, TypeOK
  <2> QED BY <1>9, <2>1, <2>2, <1>p, GoType DEF Unlock, TypeOK
<1>10. ASSUME NEW r \in Req, Read(r) PROVE TypeOK'
  <2>1. CASE End(r)
        BY <1>10, <2>1, EndType DEF Read, TypeOK
  <2>2. CASE ~End(r)
    <3>1. pc' \in [Req -> PC] /\ seen' \in [Req -> Secret] /\ UNCHANGED <<op, code, replay>>
          BY <1>10, <2>2, <1>p, <1>z DEF Read, At, TypeOK
    <3> QED BY <1>10, <3>1 DEF Read, TypeOK
  <2> QED BY <2>1, <2>2
<1>11. ASSUME NEW r \in Req, FindBackup(r) PROVE TypeOK'
  <2>1. CASE Go(r, "backup", "use") /\ UNCHANGED guesses
        BY <1>11, <2>1, <1>p, GoType DEF FindBackup, TypeOK
  <2>2. CASE At(r, "failure") /\ code' = [code EXCEPT ![r] = Wrong]
             /\ replay' = [replay EXCEPT ![r] = FALSE] /\ UNCHANGED <<op, seen>>
             /\ guesses' = Counted
    <3>1. pc' \in [Req -> PC] /\ code' \in [Req -> Presented]
          BY <2>2, <1>p, <1>w DEF At, TypeOK
    <3>2. replay' \in [Req -> BOOLEAN]
          BY <2>2 DEF TypeOK
    <3> QED BY <1>11, <2>2, <3>1, <3>2, CountedType DEF FindBackup, TypeOK
  <2> QED BY <1>11, <2>1, <2>2 DEF FindBackup
<1>12. ASSUME NEW r \in Req, UseBackup(r) PROVE TypeOK'
  <2>1. code[r][2] \in Secret
        BY SecretsAssumption DEF TypeOK, Presented, Secret
  <2>2. used' \subseteq stored
        BY <1>12 DEF UseBackup, Marked, TypeOK
  <2> QED BY <1>12, <2>1, <2>2, <1>p, GoType DEF UseBackup, TypeOK
<1>13. ASSUME NEW r \in Req, ResetFailures(r) PROVE TypeOK'
  <2>1. failed' \in Nat /\ lock' \in {"none", "on", "past"} /\ guesses' \in 0..MaxGuesses
        BY <1>13, Bounds DEF ResetFailures, TypeOK
  <2>2. CASE End(r)
        BY <1>13, <2>1, <2>2, EndType DEF ResetFailures, TypeOK
  <2>3. CASE Go(r, "success", "off")
        BY <1>13, <2>1, <2>3, <1>p, GoType DEF ResetFailures, TypeOK
  <2> QED BY <1>13, <2>2, <2>3 DEF ResetFailures
<1>14. ASSUME NEW r \in Req, CountFailure(r) PROVE TypeOK'
  <2>1. CASE End(r)
        BY <1>14, <2>1, EndType DEF CountFailure, TypeOK
  <2>2. CASE Go(r, "failure", "lock")
        BY <1>14, <2>2, <1>p, GoType DEF CountFailure, TypeOK
  <2> QED BY <1>14, <2>1, <2>2 DEF CountFailure
<1>15. ASSUME NEW r \in Req, Lock(r) PROVE TypeOK'
      BY <1>15, EndType DEF Lock, TypeOK
<1>16. ASSUME NEW r \in Req, SwitchOff(r) PROVE TypeOK'
  <2>1. enabled' \in BOOLEAN
        BY <1>16, Zenon DEF SwitchOff
  <2> QED BY <1>16, <2>1, <1>p, <1>z, GoType DEF SwitchOff, TypeOK
<1>17. ASSUME NEW r \in Req, DropCodes(r) PROVE TypeOK'
      BY <1>17, EndType DEF DropCodes, TypeOK
<1>18. CASE LockEnds
      BY <1>18, Bounds DEF LockEnds, TypeOK
<1>19. ASSUME NEW r \in Req, Fail(r) PROVE TypeOK'
  <2>1. crossed' \subseteq {"setup", "count"}
        BY <1>19, <1>c DEF Fail
  <2> QED BY <1>19, <2>1, EndType DEF Fail, TypeOK
<1> QED
    BY <1>0, <1>1, <1>2, <1>3, <1>4, <1>5, <1>6, <1>7, <1>8, <1>9, <1>10, <1>11, <1>12,
       <1>13, <1>14, <1>15, <1>16, <1>17, <1>18, <1>19
    DEF Next, Continue

-----------------------------------------------------------------------------
(* FactorHolds: the backup codes *)

\* A setup between its secret and its codes: the batch it will insert is new.
Issuing == In({"delete", "insert"})

\* A batch is inserted once, by the setup that drew it, so one that was ever matched
\* is not inserted again; and a spent code that is stored is marked.
BatchInv ==
  /\ spent \cap (stored \ used) = {}
  /\ stored \cup spent \subseteq 1..last
  /\ \A r \in Issuing : seen[r] \in 1..last /\ seen[r] \notin stored \cup spent
  /\ \A r, q \in Issuing : seen[r] = seen[q] => r = q
  /\ \A r \in In({"use"}) :
       /\ code[r][1] = "backup" /\ code[r][2] \in 1..last
       /\ \A q \in Issuing : seen[q] # code[r][2]
  /\ \A r \in Req : replay[r] => code[r][1] = "backup" /\ code[r][2] \in spent
  /\ BackupCodeOnce

\* A step that leaves the batches alone, and moves one call to an await that is not of
\* a setup or a use, keeps the invariant.
LEMMA BatchKept ==
  ASSUME TypeOK, BatchInv, UNCHANGED <<stored, used, last, spent>>,
         NEW r \in Req, pc'[r] \notin {"delete", "insert", "use"},
         \A q \in Req : q # r => UNCHANGED <<pc[q], code[q], seen[q], replay[q]>>,
         replay'[r] => code'[r][1] = "backup" /\ code'[r][2] \in spent
  PROVE  BatchInv'
  BY DEF BatchInv, BackupCodeOnce, Issuing, In, TypeOK

\* What End, Begin and Go do to the frames.
LEMMA EndFrame ==
  ASSUME TypeOK, NEW r \in Req, End(r)
  PROVE  /\ pc'[r] = "idle" /\ ~replay'[r]
         /\ \A q \in Req : q # r => UNCHANGED <<pc[q], code[q], seen[q], replay[q]>>
  BY DEF End, At, TypeOK

\* A call that starts with a spent backup code is marked as a replay.
LEMMA BeginFrame ==
  ASSUME TypeOK, NEW r \in Req, NEW o, NEW c, NEW l, Begin(r, o, c, l)
  PROVE  /\ pc'[r] = l
         /\ replay'[r] => code'[r][1] = "backup" /\ code'[r][2] \in spent
         /\ \A q \in Req : q # r => UNCHANGED <<pc[q], code[q], seen[q], replay[q]>>
  BY DEF Begin, At, TypeOK

\* A call that goes on keeps its frame.
LEMMA GoFrame ==
  ASSUME TypeOK, NEW r \in Req, NEW k, NEW l, Go(r, k, l)
  PROVE  /\ pc[r] = k /\ pc'[r] = l /\ UNCHANGED <<code, seen, replay>>
         /\ \A q \in Req : q # r => UNCHANGED <<pc[q], code[q], seen[q], replay[q]>>
  BY DEF Go, At, TypeOK

\* At the start there are no batches.
LEMMA InitBatch == Init => BatchInv
  BY DEF Init, BatchInv, BackupCodeOnce, Issuing, In

\* Every step keeps the batches apart.
LEMMA StepBatch == TypeOK /\ BatchInv /\ [Next]_vars => BatchInv'
<1> SUFFICES ASSUME TypeOK, BatchInv, [Next]_vars PROVE BatchInv'
    OBVIOUS
<1> USE DEF user, codes, frame, history
<1>r. \A r \in Req : replay[r] => code[r][1] = "backup" /\ code[r][2] \in spent
      BY DEF BatchInv
<1>0. CASE UNCHANGED vars
      BY <1>0 DEF vars, BatchInv, BackupCodeOnce, Issuing, In
<1>e. ASSUME NEW r \in Req, End(r), UNCHANGED <<stored, used, last, spent>> PROVE BatchInv'
      BY <1>e, EndFrame, BatchKept
<1>g. ASSUME NEW r \in Req, NEW k, NEW l, Go(r, k, l), l \notin {"delete", "insert", "use"},
             UNCHANGED <<stored, used, last, spent>>
      PROVE  BatchInv'
      BY <1>g, <1>r, GoFrame, BatchKept
<1>1. ASSUME NEW r \in Req, BeginSetup(r) PROVE BatchInv'
      BY <1>1, BeginFrame, BatchKept DEF BeginSetup
<1>2. ASSUME NEW r \in Req, StoreSecret(r) PROVE BatchInv'
  <2>1. /\ pc' = [pc EXCEPT ![r] = "delete"] /\ seen' = [seen EXCEPT ![r] = last']
        /\ last' = last + 1 /\ UNCHANGED <<code, replay, stored, used, spent>>
        BY <1>2 DEF StoreSecret, At
  <2>2. last \in Nat
        BY SecretsAssumption DEF TypeOK, Secret
  <2>3. \A q \in Req : q # r => pc'[q] = pc[q] /\ seen'[q] = seen[q]
        BY <2>1 DEF TypeOK
  <2>4. pc'[r] = "delete" /\ seen'[r] = last'
        BY <2>1 DEF TypeOK
  <2>5. last' \in 1..last' /\ last' \notin 1..last /\ 1..last \subseteq 1..last'
        BY <2>1, <2>2
  <2>6. \A q \in Issuing' : q = r \/ q \in Issuing
        BY <2>3 DEF Issuing, In
  <2>7. In({"use"})' \subseteq In({"use"})
        BY <2>3, <2>4 DEF In
  <2>8. BackupCodeOnce'
        BY <2>1, <2>3, <2>4 DEF BatchInv, BackupCodeOnce
  <2>9. \A q \in Issuing' : seen'[q] \in 1..last' /\ seen'[q] \notin stored' \cup spent'
        BY <2>1, <2>3, <2>4, <2>5, <2>6 DEF BatchInv, Issuing, In
  <2>10. \A p, q \in Issuing' : seen'[p] = seen'[q] => p = q
        BY <2>3, <2>4, <2>5, <2>6 DEF BatchInv, Issuing, In
  <2>11. \A q \in In({"use"})' :
           /\ code'[q][1] = "backup" /\ code'[q][2] \in 1..last'
           /\ \A p \in Issuing' : seen'[p] # code'[q][2]
        BY <2>1, <2>3, <2>4, <2>5, <2>6, <2>7 DEF BatchInv, Issuing, In
  <2>12. stored' \cup spent' \subseteq 1..last' /\ spent' \cap (stored' \ used') = {}
        BY <2>1, <2>5 DEF BatchInv
  <2> QED BY <2>1, <2>8, <2>9, <2>10, <2>11, <2>12 DEF BatchInv
<1>3. ASSUME NEW r \in Req, DeleteCodes(r) PROVE BatchInv'
  <2>1. /\ pc[r] = "delete" /\ pc' = [pc EXCEPT ![r] = "insert"]
        /\ UNCHANGED <<code, seen, replay, last, spent>> /\ stored' = {}
        BY <1>3 DEF DeleteCodes, Go, At
  <2>2. Issuing' = Issuing /\ In({"use"})' = In({"use"})
        BY <2>1 DEF Issuing, In, TypeOK
  <2>3. BackupCodeOnce'
        BY <2>1 DEF BatchInv, BackupCodeOnce, TypeOK
  <2> QED BY <2>1, <2>2, <2>3 DEF BatchInv
<1>4. ASSUME NEW r \in Req, InsertCodes(r) PROVE BatchInv'
  <2>1. /\ pc[r] = "insert" /\ pc' = [pc EXCEPT ![r] = "idle"]
        /\ code' = [code EXCEPT ![r] = Wrong] /\ seen' = [seen EXCEPT ![r] = 0]
        /\ replay' = [replay EXCEPT ![r] = FALSE]
        /\ stored' = stored \cup {seen[r]} /\ UNCHANGED <<used, last, spent>>
        BY <1>4 DEF InsertCodes, End, At
  <2>2. r \in Issuing
        BY <2>1 DEF Issuing, In
  <2>3. /\ \A q \in Issuing' : q \in Issuing /\ q # r /\ seen'[q] = seen[q]
        /\ \A q \in In({"use"})' : q \in In({"use"}) /\ code'[q] = code[q]
        BY <2>1 DEF Issuing, In, TypeOK
  <2>4. \A q \in Req : replay'[q] => replay[q] /\ code'[q] = code[q]
        BY <2>1 DEF TypeOK
  <2>5. BackupCodeOnce'
        BY <2>1 DEF BatchInv, BackupCodeOnce, TypeOK
  <2> QED BY <2>1, <2>2, <2>3, <2>4, <2>5 DEF BatchInv
<1>5. ASSUME NEW r \in Req, NEW c, EnableRead(r, c) PROVE BatchInv'
      BY <1>5, BeginFrame, BatchKept DEF EnableRead
<1>6. ASSUME NEW r \in Req, Activate(r) \/ Lock(r) \/ Fail(r) PROVE BatchInv'
      BY <1>6, <1>e DEF Activate, Lock, Fail
<1>7. ASSUME NEW r \in Req, NEW o, NEW c, Challenge(r, o, c) PROVE BatchInv'
      BY <1>7, BeginFrame, BatchKept DEF Challenge
<1>8. ASSUME NEW r \in Req, MfaLocked(r) \/ CountFailure(r) \/ ResetFailures(r) PROVE BatchInv'
      BY <1>8, <1>e, <1>g DEF MfaLocked, CountFailure, ResetFailures
<1>9. ASSUME NEW r \in Req, Unlock(r) \/ SwitchOff(r) PROVE BatchInv'
      BY <1>9, <1>g DEF Unlock, SwitchOff
<1>10. ASSUME NEW r \in Req, Read(r) PROVE BatchInv'
  <2>1. CASE End(r)
        BY <1>10, <2>1, <1>e DEF Read
  <2>2. CASE ~End(r)
    <3>1. /\ pc'[r] \in {"success", "backup"} /\ UNCHANGED <<code, replay>>
          /\ \A q \in Req : q # r => UNCHANGED <<pc[q], seen[q]>>
          BY <1>10, <2>2 DEF Read, At, TypeOK
    <3> QED BY <1>10, <1>r, <3>1, BatchKept DEF Read
  <2> QED BY <2>1, <2>2
<1>11. ASSUME NEW r \in Req, FindBackup(r) PROVE BatchInv'
  <2>1. CASE UnusedBackup(r) /\ Go(r, "backup", "use")
    <3>1. PICK b \in stored \ used : code[r] = <<"backup", b>>
          BY <2>1 DEF UnusedBackup
    <3>2. /\ b \in 1..last /\ b \notin spent /\ code[r][1] = "backup" /\ code[r][2] = b
          /\ \A q \in Issuing : seen[q] # b
          BY <3>1 DEF BatchInv
    <3>3. ~replay[r]
          BY <3>2, <1>r
    <3>4. /\ Issuing' = Issuing
          /\ \A q \in In({"use"})' : q = r \/ q \in In({"use"})
          /\ UNCHANGED <<code, seen, replay, stored, used, last, spent>>
          BY <1>11, <2>1 DEF FindBackup, Go, At, Issuing, In, TypeOK
    <3>5. BackupCodeOnce'
          BY <2>1, <3>3, <3>4 DEF BatchInv, BackupCodeOnce, Go, At, TypeOK
    <3> QED BY <3>2, <3>4, <3>5 DEF BatchInv
  <2>2. CASE pc' = [pc EXCEPT ![r] = "failure"] /\ code' = [code EXCEPT ![r] = Wrong]
             /\ replay' = [replay EXCEPT ![r] = FALSE] /\ UNCHANGED seen
    <3>1. /\ pc'[r] = "failure" /\ ~replay'[r]
          /\ \A q \in Req : q # r => UNCHANGED <<pc[q], code[q], seen[q], replay[q]>>
          BY <2>2 DEF TypeOK
    <3> QED BY <1>11, <3>1, BatchKept DEF FindBackup
  <2> QED BY <1>11, <2>1, <2>2 DEF FindBackup, At
<1>12. ASSUME NEW r \in Req, UseBackup(r) PROVE BatchInv'
  <2>1. /\ pc[r] = "use" /\ pc' = [pc EXCEPT ![r] = "success"] /\ r \in In({"use"})
        /\ UNCHANGED <<code, seen, replay, stored, last>>
        /\ used' = used \cup ({code[r][2]} \cap stored) /\ spent' = spent \cup {code[r][2]}
        BY <1>12 DEF UseBackup, Go, At, Marked, In
  <2>2. Issuing' = Issuing /\ In({"use"})' \subseteq In({"use"})
        BY <2>1 DEF Issuing, In, TypeOK
  <2>3. BackupCodeOnce'
        BY <2>1 DEF BatchInv, BackupCodeOnce, TypeOK
  <2>4. \A q \in Issuing : seen[q] # code[r][2]
        BY <2>1 DEF BatchInv
  <2>5. code[r][2] \in 1..last
        BY <2>1 DEF BatchInv
  <2> QED BY <2>1, <2>2, <2>3, <2>4, <2>5 DEF BatchInv
<1>13. ASSUME NEW r \in Req, DropCodes(r) PROVE BatchInv'
  <2>1. /\ \A q \in Issuing' : q \in Issuing /\ seen'[q] = seen[q]
        /\ \A q \in In({"use"})' : q \in In({"use"}) /\ code'[q] = code[q]
        /\ \A q \in Req : replay'[q] => replay[q] /\ code'[q] = code[q]
        /\ stored' = {} /\ UNCHANGED <<last, spent>>
        BY <1>13 DEF DropCodes, End, At, Issuing, In, TypeOK
  <2>2. BackupCodeOnce'
        BY <1>13 DEF DropCodes, End, At, BatchInv, BackupCodeOnce, TypeOK
  <2> QED BY <2>1, <2>2 DEF BatchInv
<1>14. CASE LockEnds
      BY <1>14 DEF LockEnds, BatchInv, BackupCodeOnce, Issuing, In
<1> QED
    BY <1>0, <1>1, <1>2, <1>3, <1>4, <1>5, <1>6, <1>7, <1>8, <1>9, <1>10, <1>11, <1>12,
       <1>13, <1>14
    DEF Next, Continue

-----------------------------------------------------------------------------
(* FactorHolds: the secret *)

\* enable activates MFA for a secret whose TOTP it has checked.
ConfirmedInv ==
  /\ \A r \in Req : pc[r] = "activate" => seen[r] \in confirmed
  /\ EnabledIsConfirmed

\* At the start MFA is off.
LEMMA InitConfirmed == Init => ConfirmedInv
  BY DEF Init, ConfirmedInv, EnabledIsConfirmed

\* A step of a call that neither enables MFA nor writes a secret keeps the invariant.
LEMMA ConfirmedKept ==
  ASSUME TypeOK, ConfirmedInv, NEW r \in Req, pc'[r] # "activate",
         \A q \in Req : q # r => UNCHANGED <<pc[q], seen[q]>>,
         enabled' => enabled /\ secret' = secret,
         UNCHANGED confirmed, crossed \subseteq crossed'
  PROVE  ConfirmedInv'
  BY DEF ConfirmedInv, EnabledIsConfirmed, TypeOK

\* Every step keeps it: a secret written while MFA is on, or between the check of
\* enable and its update, is recorded as crossed.
LEMMA StepConfirmed == TypeOK /\ ConfirmedInv /\ [Next]_vars => ConfirmedInv'
<1> SUFFICES ASSUME TypeOK, ConfirmedInv, [Next]_vars PROVE ConfirmedInv'
    OBVIOUS
<1> USE DEF user, codes, frame, history
<1>0. CASE UNCHANGED vars
      BY <1>0 DEF vars, ConfirmedInv, EnabledIsConfirmed
<1>1. ASSUME NEW r \in Req, BeginSetup(r) PROVE ConfirmedInv'
      BY <1>1, BeginFrame, ConfirmedKept DEF BeginSetup
<1>2. ASSUME NEW r \in Req, StoreSecret(r) PROVE ConfirmedInv'
  <2>1. CASE enabled
        BY <1>2, <2>1 DEF StoreSecret, At, Cross, ConfirmedInv, EnabledIsConfirmed, TypeOK
  <2>2. CASE ~enabled
        BY <1>2, <2>2 DEF StoreSecret, At, Cross, ConfirmedInv, EnabledIsConfirmed, TypeOK
  <2> QED BY <2>1, <2>2
<1>3. ASSUME NEW r \in Req, DeleteCodes(r) \/ UseBackup(r) PROVE ConfirmedInv'
      BY <1>3, GoFrame, ConfirmedKept DEF DeleteCodes, UseBackup
<1>4. ASSUME NEW r \in Req, InsertCodes(r) \/ Lock(r) \/ DropCodes(r) PROVE ConfirmedInv'
      BY <1>4, EndFrame, ConfirmedKept DEF InsertCodes, Lock, DropCodes
<1>5. ASSUME NEW r \in Req, NEW c, EnableRead(r, c) PROVE ConfirmedInv'
      BY <1>5 DEF EnableRead, PendingTotp, Begin, At, ConfirmedInv, EnabledIsConfirmed, TypeOK
<1>6. ASSUME NEW r \in Req, Activate(r) PROVE ConfirmedInv'
  <2>1. pc[r] = "activate" /\ seen[r] \in confirmed
        BY <1>6 DEF Activate, ConfirmedInv
  <2>2. EnabledIsConfirmed'
        BY <1>6, <2>1 DEF Activate, Cross, EnabledIsConfirmed
  <2>3. \A q \in Req : pc'[q] = "activate" => pc[q] = "activate" /\ seen'[q] = seen[q]
        BY <1>6 DEF Activate, End, At, TypeOK
  <2> QED BY <1>6, <2>2, <2>3 DEF Activate, ConfirmedInv
<1>7. ASSUME NEW r \in Req, NEW o, NEW c, Challenge(r, o, c) PROVE ConfirmedInv'
      BY <1>7, BeginFrame, ConfirmedKept DEF Challenge
<1>8. ASSUME NEW r \in Req, MfaLocked(r) \/ CountFailure(r) \/ ResetFailures(r) PROVE ConfirmedInv'
      BY <1>8, EndFrame, GoFrame, ConfirmedKept DEF MfaLocked, CountFailure, ResetFailures
<1>9. ASSUME NEW r \in Req, Unlock(r) \/ SwitchOff(r) PROVE ConfirmedInv'
      BY <1>9, GoFrame, ConfirmedKept DEF Unlock, SwitchOff, Cross
<1>10. ASSUME NEW r \in Req, Read(r) PROVE ConfirmedInv'
  <2>1. CASE End(r)
        BY <1>10, <2>1, EndFrame, ConfirmedKept DEF Read
  <2>2. CASE ~End(r)
    <3>1. /\ pc'[r] \in {"success", "backup"}
          /\ \A q \in Req : q # r => UNCHANGED <<pc[q], seen[q]>>
          BY <1>10, <2>2 DEF Read, At, TypeOK
    <3> QED BY <1>10, <3>1, ConfirmedKept DEF Read
  <2> QED BY <2>1, <2>2
<1>11. ASSUME NEW r \in Req, FindBackup(r) PROVE ConfirmedInv'
  <2>1. /\ pc'[r] \in {"use", "failure"}
        /\ \A q \in Req : q # r => UNCHANGED <<pc[q], seen[q]>>
        BY <1>11 DEF FindBackup, Go, At, TypeOK
  <2> QED BY <1>11, <2>1, ConfirmedKept DEF FindBackup
<1>12. CASE LockEnds
      BY <1>12 DEF LockEnds, ConfirmedInv, EnabledIsConfirmed
<1>13. ASSUME NEW r \in Req, Fail(r) PROVE ConfirmedInv'
      BY <1>13, EndFrame, ConfirmedKept DEF Fail, Cross
<1> QED
    BY <1>0, <1>1, <1>2, <1>3, <1>4, <1>5, <1>6, <1>7, <1>8, <1>9, <1>10, <1>11, <1>12, <1>13
    DEF Next, Continue

\* With any number of overlapping setups, confirmations, challenges and removals that
\* stop at every await: a challenge never accepts a backup code that was spent when it
\* started, and MFA is on only with a secret the user has confirmed, unless a setup
\* crossed an enable.
THEOREM SecondFactorHolds == Spec => []FactorHolds
<1> DEFINE Inv == TypeOK /\ BatchInv /\ ConfirmedInv
<1>1. Init => Inv
      BY InitType, InitBatch, InitConfirmed
<1>2. Inv /\ [Next]_vars => Inv'
      BY StepType, StepBatch, StepConfirmed
<1>3. Inv => FactorHolds
      BY DEF FactorHolds, BatchInv, ConfirmedInv
<1> HIDE DEF Inv
<1> QED BY <1>1, <1>2, <1>3, PTL DEF Spec

-----------------------------------------------------------------------------
(* BoundedOvershoot *)

\* The calls about to count a failure, about to set the lock, and beyond the lock
\* check with their code still to be compared.
Failing == In({"failure"})
Locking == In({"lock"})
Comparing == In({"read", "backup"})

\* As long as no failure was lost: every wrong code since the reset is counted or about
\* to be; a counter beyond the limit has calls that are about to lock; and once the lock
\* is on or past, only calls that passed it before can still compare a code.
CountInv ==
  "count" \notin crossed =>
    /\ guesses <= failed + Cardinality(Failing)
    /\ lock = "none" => failed < MFA_MAX_ATTEMPTS + Cardinality(Locking)
    /\ lock # "none" =>
         guesses + Cardinality(Comparing) < MFA_MAX_ATTEMPTS + Cardinality(Req)

\* A step of one call adds it to a count, or takes it from one.
LEMMA NumberMoves ==
  ASSUME TypeOK, NEW r \in Req, NEW l, pc' = [pc EXCEPT ![r] = l], NEW L
  PROVE  /\ Cardinality(In(L)) \in Nat /\ Cardinality(In(L)') \in Nat
         /\ (l \in L) = (pc[r] \in L) => Cardinality(In(L)') = Cardinality(In(L))
         /\ l \in L /\ pc[r] \notin L => Cardinality(In(L)') = Cardinality(In(L)) + 1
         /\ l \notin L /\ pc[r] \in L => Cardinality(In(L)') = Cardinality(In(L)) - 1
<1>1. IsFiniteSet(In(L)) /\ IsFiniteSet(In(L)')
      BY ReqAssumption, FS_Subset DEF In
<1>2. Cardinality(In(L)) \in Nat /\ Cardinality(In(L)') \in Nat
      BY <1>1, FS_CardinalityType
<1>3. (l \in L) = (pc[r] \in L) => Cardinality(In(L)') = Cardinality(In(L))
  <2>1. (l \in L) = (pc[r] \in L) => In(L)' = In(L)
        BY DEF In, TypeOK
  <2> QED BY <2>1
<1>4. ASSUME l \in L, pc[r] \notin L PROVE Cardinality(In(L)') = Cardinality(In(L)) + 1
  <2>1. In(L)' = In(L) \cup {r} /\ r \notin In(L)
        BY <1>4 DEF In, TypeOK
  <2> QED BY <1>1, <2>1, FS_AddElement
<1>5. ASSUME l \notin L, pc[r] \in L PROVE Cardinality(In(L)') = Cardinality(In(L)) - 1
  <2>1. In(L)' = In(L) \ {r} /\ r \in In(L)
        BY <1>5 DEF In, TypeOK
  <2> QED BY <1>1, <2>1, FS_RemoveElement
<1> QED BY <1>2, <1>3, <1>4, <1>5

\* The three counts of the invariant after a step of a call.
LEMMA NumbersMove ==
  ASSUME TypeOK, NEW r \in Req, NEW l, pc' = [pc EXCEPT ![r] = l]
  PROVE  /\ Cardinality(Failing') \in Nat /\ Cardinality(Locking') \in Nat
         /\ Cardinality(Comparing') \in Nat
         /\ l # "failure" /\ pc[r] # "failure" => Cardinality(Failing') = Cardinality(Failing)
         /\ l = "failure" /\ pc[r] # "failure" => Cardinality(Failing') = Cardinality(Failing) + 1
         /\ l # "failure" /\ pc[r] = "failure" => Cardinality(Failing') = Cardinality(Failing) - 1
         /\ l # "lock" /\ pc[r] # "lock" => Cardinality(Locking') = Cardinality(Locking)
         /\ l = "lock" /\ pc[r] # "lock" => Cardinality(Locking') = Cardinality(Locking) + 1
         /\ l \notin {"read", "backup"} /\ pc[r] \notin {"read", "backup"} =>
              Cardinality(Comparing') = Cardinality(Comparing)
         /\ pc[r] \in {"read", "backup"} =>
              \/ Cardinality(Comparing') = Cardinality(Comparing) /\ l \in {"read", "backup"}
              \/ Cardinality(Comparing') = Cardinality(Comparing) - 1
<1> DEFINE F == {"failure"}
           K == {"lock"}
           C == {"read", "backup"}
<1> HIDE DEF F, K, C
<1>1. /\ Cardinality(In(F)') \in Nat
      /\ (l \in F) = (pc[r] \in F) => Cardinality(In(F)') = Cardinality(In(F))
      /\ l \in F /\ pc[r] \notin F => Cardinality(In(F)') = Cardinality(In(F)) + 1
      /\ l \notin F /\ pc[r] \in F => Cardinality(In(F)') = Cardinality(In(F)) - 1
      BY NumberMoves
<1>2. /\ Cardinality(In(K)') \in Nat
      /\ (l \in K) = (pc[r] \in K) => Cardinality(In(K)') = Cardinality(In(K))
      /\ l \in K /\ pc[r] \notin K => Cardinality(In(K)') = Cardinality(In(K)) + 1
      BY NumberMoves
<1>3. /\ Cardinality(In(C)') \in Nat
      /\ (l \in C) = (pc[r] \in C) => Cardinality(In(C)') = Cardinality(In(C))
      /\ l \notin C /\ pc[r] \in C => Cardinality(In(C)') = Cardinality(In(C)) - 1
      BY NumberMoves
<1>4. In(F) = Failing /\ In(K) = Locking /\ In(C) = Comparing
      BY DEF F, K, C, Failing, Locking, Comparing
<1>5. In(F)' = Failing' /\ In(K)' = Locking' /\ In(C)' = Comparing'
      BY DEF F, K, C, Failing, Locking, Comparing
<1>6. /\ \A x : x \in F <=> x = "failure"
      /\ \A x : x \in K <=> x = "lock"
      /\ \A x : x \in C <=> x \in {"read", "backup"}
      BY DEF F, K, C
<1> QED BY <1>1, <1>2, <1>3, <1>4, <1>5, <1>6

\* Calls at different awaits are different calls.
LEMMA NumbersApart ==
  /\ Cardinality(Failing) \in Nat /\ Cardinality(Locking) \in Nat /\ Cardinality(Comparing) \in Nat
  /\ Cardinality(Failing) + Cardinality(Locking) + Cardinality(Comparing) <= Cardinality(Req)
<1> DEFINE F == In({"failure"})
           K == In({"lock"})
           C == In({"read", "backup"})
<1>1. IsFiniteSet(F) /\ IsFiniteSet(K) /\ IsFiniteSet(C)
      BY ReqAssumption, FS_Subset DEF In
<1>2. F \cap K = {} /\ (F \cup K) \cap C = {} /\ (F \cup K) \cup C \subseteq Req
      BY DEF In
<1>3. Cardinality(F) \in Nat /\ Cardinality(K) \in Nat /\ Cardinality(C) \in Nat
      BY <1>1, FS_CardinalityType
<1> HIDE DEF F, K, C
<1>4. IsFiniteSet(F \cup K) /\ Cardinality(F \cup K) = Cardinality(F) + Cardinality(K)
  <2>1. Cardinality(F \cap K) = 0
        BY <1>2, FS_EmptySet
  <2>2. IsFiniteSet(F \cup K)
        BY <1>1, FS_Union
  <2>3. Cardinality(F \cup K) = Cardinality(F) + Cardinality(K) - Cardinality(F \cap K)
        BY <1>1, FS_Union
  <2> QED BY <1>3, <2>1, <2>2, <2>3
<1>5. Cardinality((F \cup K) \cup C) = Cardinality(F \cup K) + Cardinality(C)
  <2>1. Cardinality((F \cup K) \cap C) = 0
        BY <1>2, FS_EmptySet
  <2>2. Cardinality((F \cup K) \cup C) =
          Cardinality(F \cup K) + Cardinality(C) - Cardinality((F \cup K) \cap C)
        BY <1>1, <1>4, FS_Union
  <2>3. Cardinality(F \cup K) \in Nat
        BY <1>3, <1>4
  <2> QED BY <1>3, <2>1, <2>2, <2>3
<1>6. Cardinality((F \cup K) \cup C) <= Cardinality(Req)
      BY <1>2, ReqAssumption, FS_Subset
<1> QED BY <1>3, <1>4, <1>5, <1>6 DEF F, K, C, Failing, Locking, Comparing

\* At the start nobody has guessed.
LEMMA InitCount == Init => CountInv
<1> SUFFICES ASSUME Init PROVE CountInv
    OBVIOUS
<1>1. Cardinality(Failing) \in Nat /\ Cardinality(Locking) \in Nat
      BY NumbersApart
<1> QED BY <1>1, Limit DEF Init, CountInv

\* A step that counts, guesses and locks nothing keeps the invariant if its call does
\* not become one that may compare, or does so while there is no lock.
LEMMA CountKept ==
  ASSUME TypeOK, CountInv, UNCHANGED <<failed, lock, guesses>>, crossed \subseteq crossed',
         NEW r \in Req, NEW l, pc' = [pc EXCEPT ![r] = l],
         l \notin {"failure", "lock"},
         pc[r] \in {"failure", "lock"} => "count" \in crossed',
         l \in {"read", "backup"} => pc[r] \in {"read", "backup"} \/ lock = "none"
  PROVE  CountInv'
<1> SUFFICES ASSUME "count" \notin crossed'
             PROVE  /\ guesses' <= failed' + Cardinality(Failing')
                    /\ lock' = "none" => failed' < MFA_MAX_ATTEMPTS + Cardinality(Locking')
                    /\ lock' # "none" =>
                         guesses' + Cardinality(Comparing') < MFA_MAX_ATTEMPTS + Cardinality(Req)
    BY DEF CountInv
<1>1. "count" \notin crossed /\ pc[r] \notin {"failure", "lock"}
      OBVIOUS
<1>2. /\ Cardinality(Failing) \in Nat /\ Cardinality(Failing') = Cardinality(Failing)
      /\ Cardinality(Locking) \in Nat /\ Cardinality(Locking') = Cardinality(Locking)
      BY <1>1, NumbersApart, NumbersMove
<1>3. /\ Cardinality(Comparing) \in Nat /\ Cardinality(Comparing') \in Nat
      /\ lock # "none" => Cardinality(Comparing') <= Cardinality(Comparing)
  <2>1. Cardinality(Comparing) \in Nat /\ Cardinality(Comparing') \in Nat
        BY NumbersApart, NumbersMove
  <2>2. CASE l \notin {"read", "backup"} /\ pc[r] \notin {"read", "backup"}
    <3>1. Cardinality(Comparing') = Cardinality(Comparing)
          BY <2>2, NumbersMove
    <3> QED BY <2>1, <3>1
  <2>3. CASE pc[r] \in {"read", "backup"}
    <3>1. \/ Cardinality(Comparing') = Cardinality(Comparing)
          \/ Cardinality(Comparing') = Cardinality(Comparing) - 1
          BY <2>3, NumbersMove
    <3> QED BY <2>1, <3>1
  <2>4. CASE lock = "none"
        BY <2>1, <2>4
  <2> QED BY <2>2, <2>3, <2>4
<1>4. guesses \in Nat /\ failed \in Nat /\ Cardinality(Req) \in Nat
      BY Bounds DEF TypeOK
<1> QED BY <1>1, <1>2, <1>3, <1>4, Limit DEF CountInv

\* Every step keeps it.
LEMMA StepCount == TypeOK /\ CountInv /\ [Next]_vars => CountInv'
<1> SUFFICES ASSUME TypeOK, CountInv, [Next]_vars PROVE CountInv'
    OBVIOUS
<1> USE DEF user, codes, frame, history
<1>t. guesses \in Nat /\ failed \in Nat /\ Cardinality(Req) \in Nat /\ MaxGuesses \in Nat
      BY Bounds DEF TypeOK
<1>0. CASE UNCHANGED vars
      BY <1>0 DEF vars, CountInv, Failing, Locking, Comparing, In
<1>e. ASSUME NEW r \in Req, End(r), pc[r] \notin {"failure", "lock"},
             UNCHANGED <<failed, lock, guesses, crossed>>
      PROVE  CountInv'
      BY <1>e, CountKept DEF End, At
<1>1. ASSUME NEW r \in Req, NEW o, NEW c, NEW l, Begin(r, o, c, l), l \in {"store", "activate", "gate"},
             UNCHANGED <<failed, lock, guesses, crossed>>
      PROVE  CountInv'
      BY <1>1, CountKept DEF Begin, At
<1>2. ASSUME NEW r \in Req, StoreSecret(r) PROVE CountInv'
      BY <1>2, CountKept DEF StoreSecret, At, Cross
<1>3. ASSUME NEW r \in Req, DeleteCodes(r) \/ UseBackup(r) \/ SwitchOff(r) PROVE CountInv'
      BY <1>3, CountKept DEF DeleteCodes, UseBackup, SwitchOff, Go, At
<1>4. ASSUME NEW r \in Req, InsertCodes(r) \/ DropCodes(r) \/ Activate(r) PROVE CountInv'
      BY <1>4, CountKept DEF InsertCodes, DropCodes, Activate, Cross, End, At
<1>5. ASSUME NEW r \in Req, MfaLocked(r) PROVE CountInv'
  <2>1. CASE End(r)
        BY <1>5, <2>1, CountKept DEF MfaLocked, End, At
  <2>2. CASE lock # "on" /\ Go(r, "gate", IF lock = "past" THEN "unlock" ELSE "read")
    <3>1. lock \in {"none", "past"}
          BY <2>2 DEF TypeOK
    <3> QED BY <1>5, <2>2, <3>1, CountKept, ZenonT(30) DEF MfaLocked, Go, At
  <2> QED BY <1>5, <2>1, <2>2 DEF MfaLocked
<1>6. ASSUME NEW r \in Req, Unlock(r) PROVE CountInv'
  <2> SUFFICES ASSUME "count" \notin crossed'
               PROVE  guesses' <= failed' + Cardinality(Failing')
                      /\ failed' < MFA_MAX_ATTEMPTS + Cardinality(Locking')
      BY <1>6 DEF Unlock, CountInv
  <2>1. guesses' = 0 /\ failed' = 0
        BY <1>6 DEF Unlock, Cross
  <2>2. Cardinality(Failing') \in Nat /\ Cardinality(Locking') \in Nat
        BY <1>6, NumbersMove DEF Unlock, Go, At
  <2>3. guesses' <= failed' + Cardinality(Failing')
        BY <2>1, <2>2
  <2>4. failed' < MFA_MAX_ATTEMPTS + Cardinality(Locking')
        BY <2>1, <2>2, Limit
  <2> QED BY <2>3, <2>4
<1>7. ASSUME NEW r \in Req, Read(r) PROVE CountInv'
  <2>1. CASE End(r)
        BY <1>7, <2>1, <1>e DEF Read
  <2>2. CASE ~End(r)
    <3>1. PICK l \in {"success", "backup"} : pc' = [pc EXCEPT ![r] = l]
          BY <1>7, <2>2 DEF Read, At
    <3> QED BY <1>7, <3>1, CountKept DEF Read
  <2> QED BY <2>1, <2>2
<1>8. ASSUME NEW r \in Req, FindBackup(r) PROVE CountInv'
  <2>1. CASE Go(r, "backup", "use") /\ UNCHANGED guesses
        BY <1>8, <2>1, CountKept, ZenonT(30) DEF FindBackup, Go, At
  <2>2. CASE pc[r] = "backup" /\ At(r, "failure") /\ guesses' = Counted
    <3> SUFFICES ASSUME "count" \notin crossed
                 PROVE  /\ guesses' <= failed + Cardinality(Failing')
                        /\ lock = "none" => failed < MFA_MAX_ATTEMPTS + Cardinality(Locking')
                        /\ lock # "none" => guesses' + Cardinality(Comparing')
                                              < MFA_MAX_ATTEMPTS + Cardinality(Req)
        BY <1>8 DEF FindBackup, CountInv
    <3>1. /\ Cardinality(Failing) \in Nat /\ Cardinality(Failing') = Cardinality(Failing) + 1
          /\ Cardinality(Locking) \in Nat /\ Cardinality(Locking') = Cardinality(Locking)
          /\ Cardinality(Comparing) \in Nat
          /\ Cardinality(Comparing') = Cardinality(Comparing) - 1
      <4>1. PICK l \in {"failure"} : pc' = [pc EXCEPT ![r] = l] /\ pc[r] = "backup"
            BY <2>2 DEF At
      <4>2. Cardinality(Failing') = Cardinality(Failing) + 1
            BY <4>1, NumbersMove
      <4>3. Cardinality(Locking') = Cardinality(Locking)
            BY <4>1, NumbersMove
      <4>4. Cardinality(Comparing') = Cardinality(Comparing) - 1
            BY <4>1, NumbersMove
      <4> QED BY <4>2, <4>3, <4>4, NumbersApart
    <3>2. guesses' \in Nat /\ guesses' <= guesses + 1
          BY <2>2, <1>t DEF Counted
    <3> QED BY <1>t, <3>1, <3>2, Limit DEF CountInv
  <2> QED BY <1>8, <2>1, <2>2 DEF FindBackup
<1>9. ASSUME NEW r \in Req, ResetFailures(r) PROVE CountInv'
  <2>1. PICK l \in {"idle", "off"} : pc' = [pc EXCEPT ![r] = l]
        BY <1>9 DEF ResetFailures, End, Go, At
  <2>2. CASE UNCHANGED <<failed, lock, guesses>>
        BY <1>9, <2>1, <2>2, CountKept DEF ResetFailures
  <2>3. CASE failed' = 0 /\ lock' = "none" /\ guesses' = 0
    <3>1. Cardinality(Failing') \in Nat /\ Cardinality(Locking') \in Nat
          BY <2>1, NumbersMove
    <3> QED BY <2>3, <3>1, Limit DEF CountInv
  <2> QED BY <1>9, <2>2, <2>3 DEF ResetFailures
<1>10. ASSUME NEW r \in Req, CountFailure(r) PROVE CountInv'
  <2> SUFFICES ASSUME "count" \notin crossed
               PROVE  /\ guesses <= failed' + Cardinality(Failing')
                      /\ lock = "none" => failed' < MFA_MAX_ATTEMPTS + Cardinality(Locking')
                      /\ lock # "none" => guesses + Cardinality(Comparing')
                                            < MFA_MAX_ATTEMPTS + Cardinality(Req)
      BY <1>10 DEF CountFailure, CountInv
  <2>1. failed' = failed + 1 /\ pc[r] = "failure"
        BY <1>10 DEF CountFailure
  <2>2. PICK l \in {"idle", "lock"} : pc' = [pc EXCEPT ![r] = l] /\ (l = "idle" => ~AtLimit(failed'))
        BY <1>10 DEF CountFailure, End, Go, At
  <2>3. /\ Cardinality(Failing) \in Nat /\ Cardinality(Failing') = Cardinality(Failing) - 1
        /\ Cardinality(Locking) \in Nat
        /\ Cardinality(Locking') = Cardinality(Locking) + (IF l = "lock" THEN 1 ELSE 0)
        /\ Cardinality(Comparing') = Cardinality(Comparing)
        /\ Cardinality(Comparing) \in Nat
    <3>1. Cardinality(Failing') = Cardinality(Failing) - 1
          BY <2>1, <2>2, NumbersMove
    <3>2. Cardinality(Comparing') = Cardinality(Comparing)
          BY <2>1, <2>2, NumbersMove
    <3>3. CASE l = "lock"
      <4>1. Cardinality(Locking') = Cardinality(Locking) + 1
            BY <2>1, <2>2, <3>3, NumbersMove
      <4> QED BY <3>1, <3>2, <3>3, <4>1, NumbersApart
    <3>4. CASE l = "idle"
      <4>1. Cardinality(Locking') = Cardinality(Locking)
            BY <2>1, <2>2, <3>4, NumbersMove
      <4> QED BY <3>1, <3>2, <3>4, <4>1, NumbersApart
    <3> QED BY <3>3, <3>4
  <2>4. l = "idle" => failed' < MFA_MAX_ATTEMPTS
        BY <1>t, <2>1, <2>2, Limit DEF AtLimit
  <2> QED BY <1>t, <2>1, <2>2, <2>3, <2>4, Limit DEF CountInv
<1>11. ASSUME NEW r \in Req, Lock(r) PROVE CountInv'
  <2> SUFFICES ASSUME "count" \notin crossed
               PROVE  /\ guesses <= failed + Cardinality(Failing')
                      /\ guesses + Cardinality(Comparing')
                           < MFA_MAX_ATTEMPTS + Cardinality(Req)
      BY <1>11 DEF Lock, CountInv
  <2>1. /\ Cardinality(Failing') = Cardinality(Failing)
        /\ Cardinality(Comparing') = Cardinality(Comparing)
    <3>1. PICK l \in {"idle"} : pc' = [pc EXCEPT ![r] = l] /\ pc[r] = "lock"
          BY <1>11 DEF Lock, End, At
    <3>2. Cardinality(Failing') = Cardinality(Failing)
          BY <3>1, NumbersMove
    <3>3. Cardinality(Comparing') = Cardinality(Comparing)
          BY <3>1, NumbersMove
    <3> QED BY <3>2, <3>3
  <2> QED BY <1>t, <2>1, NumbersApart, Limit DEF CountInv
<1>12. CASE LockEnds
  <2>1. /\ guesses' = 0 /\ lock' = "past" /\ UNCHANGED <<failed, pc, crossed>>
        BY <1>12 DEF LockEnds
  <2>2. /\ Cardinality(Failing') = Cardinality(Failing)
        /\ Cardinality(Comparing') = Cardinality(Comparing)
        BY <2>1 DEF Failing, Comparing, In
  <2> QED BY <1>t, <2>1, <2>2, NumbersApart, Limit DEF CountInv
<1>13. ASSUME NEW r \in Req, Fail(r) PROVE CountInv'
      BY <1>13, CountKept DEF Fail, Cross, End, At
<1>14. ASSUME NEW r \in Req, BeginSetup(r) PROVE CountInv'
      BY <1>14, <1>1 DEF BeginSetup
<1>15. ASSUME NEW r \in Req, NEW c \in Presented, EnableRead(r, c) PROVE CountInv'
      BY <1>15, <1>1 DEF EnableRead
<1>16. ASSUME NEW r \in Req, NEW c \in Presented, NEW o \in Operation, Challenge(r, o, c) PROVE CountInv'
      BY <1>16, <1>1 DEF Challenge
<1> QED
    BY <1>0, <1>2, <1>3, <1>4, <1>5, <1>6, <1>7, <1>8, <1>9, <1>10, <1>11, <1>12, <1>13,
       <1>14, <1>15, <1>16
    DEF Next, Continue

\* As long as no call stopped before its failure was written, and none removed a lock that
\* was no longer there, a user's second factor meets at most MFA_MAX_ATTEMPTS wrong codes
\* before it is locked, and one more for each other call in flight.
THEOREM GuessesBounded == Spec => []BoundedOvershoot
<1>1. Init => TypeOK /\ CountInv
      BY InitType, InitCount
<1>2. TypeOK /\ CountInv /\ [Next]_vars => TypeOK' /\ CountInv'
      BY StepType, StepCount
<1>3. TypeOK /\ CountInv => BoundedOvershoot
  <2> SUFFICES ASSUME TypeOK, CountInv, "count" \notin crossed
               PROVE  guesses <= MFA_MAX_ATTEMPTS + Cardinality(Req) - 1
      BY DEF BoundedOvershoot
  <2>1. guesses \in Nat /\ failed \in Nat /\ Cardinality(Req) \in Nat
        BY Bounds DEF TypeOK
  <2> QED BY <2>1, NumbersApart, Limit DEF CountInv
<1> QED BY <1>1, <1>2, <1>3, PTL DEF Spec
=============================================================================

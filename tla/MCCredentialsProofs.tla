------------------------ MODULE MCCredentialsProofs -------------------------
(***************************************************************************)
(* The login lockout, the one-time codes, the flows of the auth engine and *)
(* the passkeys, for any number of calls, attempts, codes and passwords:   *)
(* the guesses a lock lets through are bounded, a code that was spent is   *)
(* not accepted again, the second factor and a disabled account hold, a    *)
(* password reset ends the sessions of the passwords before it, and a      *)
(* passkey challenge is good for one ceremony.                             *)
(***************************************************************************)
EXTENDS MCCredentials, Sequences, FiniteSetTheorems, TLAPS

-----------------------------------------------------------------------------
(* The lockout *)

Recording == {r \in Caller : loginPc[r] = "record"}
Comparing == {r \in Caller : loginPc[r] = "compare"}

\* Without a failure written over another one, every wrong password is counted or about
\* to be.  Below the limit that bounds the guesses; after a lock has ended each guess is
\* still to be recorded, because the first record locks again; under a lock nobody else
\* starts, and those that may still compare have a place each.
Accounted ==
  /\ lock = "none" => loginGuesses <= failed + Cardinality(Recording)
  /\ lock = "past" => loginGuesses <= Cardinality(Recording)
  /\ lock = "on" => loginGuesses + Cardinality(Comparing) <= Lockout!MaxGuesses

LockoutInv ==
  /\ Lockout!TypeOK
  /\ lock = "none" <=> failed < MaxFailures
  /\ ~loginCrossed => Accounted

\* The number of callers, and of those that compare or record.
LEMMA CallerCount ==
  ASSUME NEW S, S \subseteq Caller
  PROVE  IsFiniteSet(S) /\ Cardinality(S) \in Nat /\ Cardinality(S) <= Cardinality(Caller)
  BY LockoutAssumption, FS_Subset, FS_CardinalityType

\* There is room for a guess.
LEMMA GuessRoom ==
  /\ Cardinality(Caller) \in Nat /\ MaxFailures \in Nat \ {0}
  /\ Lockout!MaxGuesses \in Nat /\ Lockout!MaxGuesses + 1 = MaxFailures + Cardinality(Caller)
<1>1. Cardinality(Caller) \in Nat /\ MaxFailures \in Nat \ {0}
      BY LockoutAssumption, FS_CardinalityType
<1>2. \A m \in Nat \ {0}, n \in Nat : m + n - 1 \in Nat /\ (m + n - 1) + 1 = m + n
      OBVIOUS
<1>3. Lockout!Cardinality(Caller) = Cardinality(Caller)
      BY DEF Lockout!Cardinality, Cardinality
<1> QED BY <1>1, <1>2, <1>3 DEF Lockout!MaxGuesses

\* Whoever compares does not record.
LEMMA Disjoint ==
  Cardinality(Recording) + Cardinality(Comparing) <= Cardinality(Caller)
<1>1. Recording \cap Comparing = {} /\ Recording \cup Comparing \subseteq Caller
      BY DEF Recording, Comparing
<1>2. IsFiniteSet(Recording) /\ IsFiniteSet(Comparing)
      BY CallerCount DEF Recording, Comparing
<1>3. Cardinality(Recording \cup Comparing) =
        Cardinality(Recording) + Cardinality(Comparing) - Cardinality(Recording \cap Comparing)
      BY <1>2, FS_Union
<1>4. Cardinality(Recording \cap Comparing) = 0
      BY <1>1, FS_EmptySet
<1>5. Cardinality(Recording \cup Comparing) <= Cardinality(Caller)
      BY <1>1, CallerCount
<1>6. Cardinality(Recording) \in Nat /\ Cardinality(Comparing) \in Nat
      BY CallerCount DEF Recording, Comparing
<1> QED BY <1>3, <1>4, <1>5, <1>6

\* At the start nothing is counted.
LEMMA InitLockout == Lockout!Init => LockoutInv
<1> SUFFICES ASSUME Lockout!Init PROVE LockoutInv
    OBVIOUS
<1>1. good \in [Caller -> BOOLEAN] /\ loginCrossed \in BOOLEAN
      BY Zenon DEF Lockout!Init
<1>2. Lockout!TypeOK
      BY <1>1, GuessRoom DEF Lockout!Init, Lockout!TypeOK
<1>3. Cardinality(Recording) \in Nat
      BY CallerCount DEF Recording
<1> QED BY <1>2, <1>3, GuessRoom DEF Lockout!Init, LockoutInv, Accounted

\* A call that moves changes the two sets by itself.
LEMMA CallerMoves ==
  ASSUME Lockout!TypeOK, NEW r \in Caller, NEW l, loginPc' = [loginPc EXCEPT ![r] = l]
  PROVE  /\ Recording' = IF l = "record" THEN Recording \cup {r} ELSE Recording \ {r}
         /\ Comparing' = IF l = "compare" THEN Comparing \cup {r} ELSE Comparing \ {r}
<1> USE DEF Lockout!TypeOK, Recording, Comparing
<1>1. CASE l = "record"
      BY <1>1
<1>2. CASE l = "compare"
      BY <1>2
<1>3. CASE l # "record" /\ l # "compare"
      BY <1>3
<1> QED BY <1>1, <1>2, <1>3

\* How many there are then.
LEMMA CallerCounts ==
  ASSUME Lockout!TypeOK, NEW r \in Caller, NEW l, loginPc' = [loginPc EXCEPT ![r] = l]
  PROVE  /\ Cardinality(Recording') \in Nat /\ Cardinality(Comparing') \in Nat
         /\ Cardinality(Recording) \in Nat /\ Cardinality(Comparing) \in Nat
         /\ loginPc[r] # "record" /\ l = "record" => Cardinality(Recording') = Cardinality(Recording) + 1
         /\ loginPc[r] # "record" /\ l # "record" => Cardinality(Recording') = Cardinality(Recording)
         /\ loginPc[r] = "record" /\ l # "record" => Cardinality(Recording') + 1 = Cardinality(Recording)
         /\ loginPc[r] = "compare" /\ l # "compare" => Cardinality(Comparing') + 1 = Cardinality(Comparing)
         /\ l # "compare" => Cardinality(Comparing') <= Cardinality(Comparing)
<1>1. /\ Recording' = IF l = "record" THEN Recording \cup {r} ELSE Recording \ {r}
      /\ Comparing' = IF l = "compare" THEN Comparing \cup {r} ELSE Comparing \ {r}
      BY CallerMoves
<1>2. /\ IsFiniteSet(Recording) /\ IsFiniteSet(Comparing)
      /\ Cardinality(Recording) \in Nat /\ Cardinality(Comparing) \in Nat
      BY CallerCount DEF Recording, Comparing
<1>3. /\ loginPc[r] = "record" <=> r \in Recording
      /\ loginPc[r] = "compare" <=> r \in Comparing
      BY DEF Recording, Comparing
<1>4. Recording' \subseteq Caller /\ Comparing' \subseteq Caller
      BY DEF Recording, Comparing
<1>5. Cardinality(Recording') \in Nat /\ Cardinality(Comparing') \in Nat
      BY <1>4, CallerCount
<1>6. ASSUME loginPc[r] # "record", l = "record" PROVE Cardinality(Recording') = Cardinality(Recording) + 1
      BY <1>1, <1>2, <1>3, <1>6, FS_AddElement
<1>7. ASSUME loginPc[r] # "record", l # "record" PROVE Cardinality(Recording') = Cardinality(Recording)
  <2>1. Recording' = Recording
        BY <1>1, <1>3, <1>7
  <2> QED BY <2>1
<1>8. ASSUME loginPc[r] = "record", l # "record" PROVE Cardinality(Recording') + 1 = Cardinality(Recording)
  <2>1. Cardinality(Recording') = Cardinality(Recording) - 1
        BY <1>1, <1>2, <1>3, <1>8, FS_RemoveElement
  <2> QED BY <2>1, <1>2, <1>5
<1>9. ASSUME loginPc[r] = "compare", l # "compare" PROVE Cardinality(Comparing') + 1 = Cardinality(Comparing)
  <2>1. Cardinality(Comparing') = Cardinality(Comparing) - 1
        BY <1>1, <1>2, <1>3, <1>9, FS_RemoveElement
  <2> QED BY <2>1, <1>2, <1>5
<1>10. ASSUME l # "compare" PROVE Cardinality(Comparing') <= Cardinality(Comparing)
  <2>1. Comparing' \subseteq Comparing
        BY <1>1, <1>10
  <2> QED BY <2>1, <1>2, FS_Subset
<1> QED BY <1>2, <1>5, <1>6, <1>7, <1>8, <1>9, <1>10

\* The types of a call that ends or goes on.
LEMMA CallerTypes ==
  ASSUME Lockout!TypeOK, NEW r \in Caller
  PROVE  /\ Lockout!End(r) => /\ loginPc' = [loginPc EXCEPT ![r] = "idle"]
                              /\ loginPc' \in [Caller -> {"idle", "compare", "record", "clear"}]
                              /\ good' \in [Caller -> BOOLEAN] /\ loginSeen' \in [Caller -> Nat]
<1> SUFFICES ASSUME Lockout!End(r)
             PROVE  /\ loginPc' = [loginPc EXCEPT ![r] = "idle"]
                    /\ loginPc' \in [Caller -> {"idle", "compare", "record", "clear"}]
                    /\ good' \in [Caller -> BOOLEAN] /\ loginSeen' \in [Caller -> Nat]
    OBVIOUS
<1>1. good' \in [Caller -> BOOLEAN]
      BY Zenon DEF Lockout!End, Lockout!TypeOK
<1> QED BY <1>1 DEF Lockout!End, Lockout!TypeOK

\* Every step keeps the account of the guesses.
LEMMA LockoutStep == LockoutInv /\ [Lockout!Next]_(Lockout!vars) => LockoutInv'
<1> SUFFICES ASSUME LockoutInv, [Lockout!Next]_(Lockout!vars) PROVE LockoutInv'
    OBVIOUS
<1>t. /\ Lockout!TypeOK /\ (lock = "none" <=> failed < MaxFailures) /\ (~loginCrossed => Accounted)
      BY DEF LockoutInv
<1>n. /\ failed \in Nat /\ lock \in {"none", "on", "past"} /\ loginGuesses \in 0..(Lockout!MaxGuesses + 1)
      /\ loginCrossed \in BOOLEAN
      BY <1>t DEF Lockout!TypeOK
<1>1. CASE UNCHANGED Lockout!vars
  <2>1. Recording' = Recording /\ Comparing' = Comparing
        BY <1>1 DEF Lockout!vars, Lockout!frame, Recording, Comparing
  <2> QED BY <1>1, <1>t, <2>1 DEF Lockout!vars, Lockout!frame, LockoutInv, Accounted, Lockout!TypeOK
<1>2. ASSUME NEW r \in Caller, NEW b \in BOOLEAN, Lockout!Login(r, b) PROVE LockoutInv'
  <2>1. Lockout!TypeOK'
        BY <1>2, <1>t DEF Lockout!Login, Lockout!TypeOK
  <2>2. loginPc' = [loginPc EXCEPT ![r] = "compare"] /\ loginPc[r] = "idle" /\ lock # "on"
        BY <1>2 DEF Lockout!Login
  <2>3. Recording' = Recording
        BY <2>2, <1>t DEF Recording, Lockout!TypeOK
  <2> QED BY <1>2, <1>t, <2>1, <2>2, <2>3 DEF Lockout!Login, LockoutInv, Accounted
<1>3. ASSUME NEW r \in Caller, Lockout!Compare(r) PROVE LockoutInv'
  <2>1. PICK l \in {"clear", "record"} :
          loginPc' = [loginPc EXCEPT ![r] = l] /\ (l = "clear" <=> good[r])
        BY <1>3 DEF Lockout!Compare
  <2>2. /\ loginPc[r] = "compare" /\ UNCHANGED <<failed, lock, good, loginSeen, loginCrossed>>
        /\ loginGuesses' = IF good[r] \/ loginGuesses > Lockout!MaxGuesses THEN loginGuesses ELSE loginGuesses + 1
        BY <1>3 DEF Lockout!Compare
  <2>3. loginGuesses' \in 0..(Lockout!MaxGuesses + 1) /\ loginGuesses' <= loginGuesses + 1
        /\ (l = "clear" => loginGuesses' = loginGuesses)
        BY <2>1, <2>2, <1>n, GuessRoom
  <2>4. Lockout!TypeOK'
        BY <2>1, <2>2, <2>3, <1>t DEF Lockout!TypeOK
  <2>5. /\ Cardinality(Recording') \in Nat /\ Cardinality(Comparing') \in Nat
        /\ Cardinality(Recording) \in Nat /\ Cardinality(Comparing) \in Nat
        /\ l = "record" => Cardinality(Recording') = Cardinality(Recording) + 1
        /\ l = "clear" => Cardinality(Recording') = Cardinality(Recording)
        /\ Cardinality(Comparing') + 1 = Cardinality(Comparing)
        BY <2>1, <2>2, <1>t, CallerCounts
  <2>6. ASSUME ~loginCrossed' PROVE Accounted'
    <3>1. Accounted
          BY <2>2, <2>6, <1>t
    <3>2. lock = "none" => loginGuesses' <= failed + Cardinality(Recording')
          BY <3>1, <2>1, <2>3, <2>5, <1>n DEF Accounted
    <3>3. lock = "past" => loginGuesses' <= Cardinality(Recording')
          BY <3>1, <2>1, <2>3, <2>5, <1>n DEF Accounted
    <3>4. lock = "on" => loginGuesses' + Cardinality(Comparing') <= Lockout!MaxGuesses
          BY <3>1, <2>3, <2>5, <1>n, GuessRoom DEF Accounted
    <3> QED BY <2>2, <3>2, <3>3, <3>4 DEF Accounted, Lockout!MaxGuesses
  <2> QED BY <2>2, <2>4, <2>6, <1>t DEF LockoutInv
<1>4. ASSUME NEW r \in Caller, Lockout!RecordFailedLogin(r) PROVE LockoutInv'
  <2>1. /\ loginPc[r] = "record" /\ failed' = loginSeen[r] + 1 /\ UNCHANGED loginGuesses
        /\ lock' = (IF loginSeen[r] + 1 >= MaxFailures THEN "on" ELSE "none")
        /\ loginCrossed' = (loginCrossed \/ failed # loginSeen[r]) /\ Lockout!End(r)
        BY <1>4 DEF Lockout!RecordFailedLogin, Lockout!Failures, Lockout!LockFor
  <2>2. loginSeen[r] \in Nat
        BY <1>t DEF Lockout!TypeOK
  <2>3. loginCrossed' \in BOOLEAN
        BY <2>1, Zenon
  <2>4. Lockout!TypeOK'
        BY <2>1, <2>2, <2>3, <1>t, CallerTypes DEF Lockout!TypeOK
  <2>5. lock' = "none" <=> failed' < MaxFailures
        BY <2>1, <2>2, GuessRoom
  <2>6. /\ Cardinality(Recording') \in Nat /\ Cardinality(Comparing') \in Nat
        /\ Cardinality(Recording) \in Nat /\ Cardinality(Comparing) \in Nat
        /\ Cardinality(Recording') + 1 = Cardinality(Recording)
        /\ Cardinality(Comparing') <= Cardinality(Comparing)
    <3>1. PICK l \in {"idle"} : loginPc' = [loginPc EXCEPT ![r] = l]
          BY <2>1, CallerTypes, <1>t
    <3> QED BY <2>1, <3>1, <1>t, CallerCounts
  <2>7. ASSUME ~loginCrossed' PROVE Accounted'
    <3>1. Accounted /\ failed' = failed + 1
          BY <2>1, <2>7, <1>t
    <3>2. CASE lock' = "none"
      <4>1. lock = "none"
            BY <3>1, <3>2, <2>5, <1>t, <1>n, GuessRoom
      <4>2. loginGuesses' <= failed' + Cardinality(Recording')
            BY <3>1, <4>1, <2>1, <2>6, <1>n DEF Accounted
      <4> QED BY <3>2, <4>2 DEF Accounted
    <3>3. CASE lock' = "on"
      <4>1. loginGuesses' + Cardinality(Comparing') <= Lockout!MaxGuesses
        <5>1. CASE lock = "on"
              BY <3>1, <5>1, <2>1, <2>6, <1>n, GuessRoom DEF Accounted
        <5>2. CASE lock = "past"
              BY <3>1, <5>2, <2>1, <2>6, <1>n, GuessRoom, Disjoint DEF Accounted
        <5>3. CASE lock = "none"
              BY <3>1, <5>3, <2>1, <2>6, <1>n, <1>t, GuessRoom, Disjoint DEF Accounted
        <5> QED BY <5>1, <5>2, <5>3, <1>n
      <4> QED BY <3>3, <4>1 DEF Accounted, Lockout!MaxGuesses
    <3> QED BY <2>1, <3>2, <3>3
  <2> QED BY <2>4, <2>5, <2>7 DEF LockoutInv
<1> DEFINE Cleared == failed' = 0 /\ lock' = "none" /\ loginGuesses' = 0
<1>5. ASSUME NEW r \in Caller, Lockout!ClearFailedLogin(r) \/ Lockout!Fail(r) PROVE LockoutInv'
  <2>0. Cleared \/ UNCHANGED <<failed, lock, loginGuesses>>
        BY <1>5 DEF Lockout!ClearFailedLogin, Lockout!Fail
  <2>c. \/ loginPc[r] = "clear" /\ loginCrossed' = loginCrossed
        \/ loginCrossed' = (loginCrossed \/ loginPc[r] = "record")
        BY <1>5 DEF Lockout!ClearFailedLogin, Lockout!Fail
  <2>d. ASSUME loginCrossed' = (loginCrossed \/ loginPc[r] = "record")
        PROVE  (loginPc[r] = "record" => loginCrossed') /\ (~loginCrossed' => ~loginCrossed)
        BY <2>d, Zenon
  <2>e. ASSUME loginPc[r] = "clear", loginCrossed' = loginCrossed
        PROVE  (loginPc[r] = "record" => loginCrossed') /\ (~loginCrossed' => ~loginCrossed)
        BY <2>e
  <2>1. /\ Cleared \/ UNCHANGED <<failed, lock, loginGuesses>>
        /\ loginPc[r] = "record" => loginCrossed'
        /\ ~loginCrossed' => ~loginCrossed
        BY <2>0, <2>c, <2>d, <2>e
  <2>2. Lockout!End(r)
        BY <1>5 DEF Lockout!ClearFailedLogin, Lockout!Fail
  <2>3. loginCrossed' \in BOOLEAN
        BY <1>5, <1>n, Zenon DEF Lockout!ClearFailedLogin, Lockout!Fail
  <2>4. Lockout!TypeOK'
        BY <2>1, <2>2, <2>3, <1>t, CallerTypes, GuessRoom DEF Lockout!TypeOK
  <2>5. lock' = "none" <=> failed' < MaxFailures
        BY <2>1, <1>t, GuessRoom
  <2>6. ASSUME ~loginCrossed' PROVE Accounted'
    <3>1. Accounted /\ loginPc[r] # "record"
          BY <2>1, <2>6, <1>t
    <3>2. PICK l \in {"idle"} : loginPc' = [loginPc EXCEPT ![r] = l]
          BY <2>2, CallerTypes, <1>t
    <3>3. /\ Cardinality(Recording') \in Nat /\ Cardinality(Comparing') \in Nat
          /\ Cardinality(Recording) \in Nat /\ Cardinality(Comparing) \in Nat
          /\ Cardinality(Recording') = Cardinality(Recording)
          /\ Cardinality(Comparing') <= Cardinality(Comparing)
          BY <3>1, <3>2, <1>t, CallerCounts
    <3>4. CASE Cleared
          BY <3>3, <3>4 DEF Accounted
    <3>5. CASE UNCHANGED <<failed, lock, loginGuesses>>
      <4>1. lock = "on" => loginGuesses + Cardinality(Comparing') <= Lockout!MaxGuesses
            BY <3>1, <3>3, <1>n, GuessRoom DEF Accounted
      <4> QED BY <3>1, <3>3, <3>5, <4>1 DEF Accounted, Lockout!MaxGuesses
    <3> QED BY <2>1, <3>4, <3>5
  <2> QED BY <2>4, <2>5, <2>6 DEF LockoutInv
<1>6. CASE Lockout!ResetPassword
  <2>1. Recording' = Recording /\ Cardinality(Recording) \in Nat
        BY <1>6, CallerCount DEF Lockout!ResetPassword, Lockout!frame, Recording
  <2>2. Lockout!TypeOK'
        BY <1>6, <1>t, GuessRoom DEF Lockout!ResetPassword, Lockout!frame, Lockout!TypeOK
  <2> QED BY <1>6, <2>1, <2>2, GuessRoom DEF Lockout!ResetPassword, LockoutInv, Accounted
<1>7. CASE Lockout!LockEnds
  <2>1. Recording' = Recording /\ Cardinality(Recording) \in Nat
        BY <1>7, CallerCount DEF Lockout!LockEnds, Lockout!frame, Recording
  <2>2. Lockout!TypeOK'
        BY <1>7, <1>t, GuessRoom DEF Lockout!LockEnds, Lockout!frame, Lockout!TypeOK
  <2> QED BY <1>7, <1>t, <2>1, <2>2, GuessRoom DEF Lockout!LockEnds, LockoutInv, Accounted
<1> QED BY <1>1, <1>2, <1>3, <1>4, <1>5, <1>6, <1>7 DEF Lockout!Next

\* The invariant bounds the guesses.
LEMMA LockoutBound == LockoutInv => Lockout!TypeOK /\ Lockout!GuessBudget
<1> SUFFICES ASSUME LockoutInv, ~loginCrossed PROVE loginGuesses <= Lockout!MaxGuesses
    BY DEF Lockout!GuessBudget, LockoutInv
<1>1. /\ Accounted /\ failed \in Nat /\ lock \in {"none", "on", "past"} /\ loginGuesses \in Nat
      /\ (lock = "none" => failed < MaxFailures)
      BY GuessRoom DEF LockoutInv, Lockout!TypeOK
<1>2. /\ Cardinality(Recording) \in Nat /\ Cardinality(Recording) <= Cardinality(Caller)
      /\ Cardinality(Comparing) \in Nat
      BY CallerCount DEF Recording, Comparing
<1>3. CASE lock = "none"
      BY <1>1, <1>2, <1>3, GuessRoom DEF Accounted
<1>4. CASE lock = "past"
      BY <1>1, <1>2, <1>4, GuessRoom DEF Accounted
<1>5. CASE lock = "on"
      BY <1>1, <1>2, <1>5, GuessRoom DEF Accounted
<1> QED BY <1>1, <1>3, <1>4, <1>5

\* A failure that raises the counter beyond the limit locks.
LEMMA FailureStep ==
  ASSUME Lockout!TypeOK, Lockout!Next, failed >= MaxFailures, failed' > failed
  PROVE  lock' = "on"
<1>1. ASSUME NEW r \in Caller, Lockout!RecordFailedLogin(r) PROVE lock' = "on"
  <2>1. loginSeen[r] \in Nat /\ failed \in Nat
        BY DEF Lockout!TypeOK
  <2> QED BY <1>1, <2>1, GuessRoom DEF Lockout!RecordFailedLogin, Lockout!Failures, Lockout!LockFor
<1>2. failed \in Nat /\ failed' # 0 /\ failed' # failed
      BY DEF Lockout!TypeOK
<1> QED
    BY <1>1, <1>2
    DEF Lockout!Next, Lockout!Login, Lockout!Compare, Lockout!ClearFailedLogin, Lockout!Fail,
        Lockout!ResetPassword, Lockout!LockEnds

\* Between a success, a reset or the end of a lock no more wrong passwords are compared
\* than MaxFailures and one by each other call in flight, unless a failure was written
\* over another write or lost; and a failure counted at or beyond the limit locks.
THEOREM GuessesLocked == AnySpec => GuessBudget
<1> DEFINE Locks == [failed >= MaxFailures /\ failed' > failed => lock' = "on"]_(Lockout!vars)
<1>1. AnyInit => LockoutInv
      BY InitLockout DEF AnyInit
<1>2. LockoutInv /\ [AnyNext]_<<part, vars, loginVars, flowVars, keyVars>> => [Lockout!Next]_(Lockout!vars)
      BY DEF AnyNext, loginVars, Lockout!vars, Lockout!frame
<1>3. LockoutInv /\ [Lockout!Next]_(Lockout!vars) => LockoutInv' /\ Locks
      BY LockoutStep, FailureStep DEF LockoutInv
<1>4. LockoutInv /\ [AnyNext]_<<part, vars, loginVars, flowVars, keyVars>> => LockoutInv' /\ Locks
      BY <1>2, <1>3
<1> QED BY <1>1, <1>4, LockoutBound, PTL DEF AnySpec, GuessBudget, Lockout!FailureLocks

-----------------------------------------------------------------------------
(* One-time codes: types *)

\* A verification starts within the budget.
OtpType == TypeOK /\ \A r \in Req : pc[r] \in {"lookup", "fail"} => count[r] < maxAttempts

\* What the writes make of a document.
LEMMA Documents ==
  /\ NoDoc \in Doc /\ NoDoc.id = 0 /\ ~NoDoc.consumed /\ NoDoc.code = 0
  /\ \A d \in Doc, c \in Code :
       /\ Reissued(d, c) \in Doc /\ Reissued(d, c).code = c /\ ~Reissued(d, c).consumed
       /\ Reissued(d, c).id = IF d = NoDoc THEN c ELSE d.id
  /\ \A d \in Doc : /\ Consumed(d) \in Doc /\ Consumed(d).consumed /\ Consumed(d).code = d.code
                    /\ Consumed(d).id = d.id
                    /\ [d EXCEPT !.expired = TRUE] \in Doc /\ [d EXCEPT !.expired = TRUE].id = d.id
                    /\ [d EXCEPT !.expired = TRUE].code = d.code
                    /\ [d EXCEPT !.expired = TRUE].consumed = d.consumed
                    /\ [d EXCEPT !.expired = TRUE].expired
<1>1. 0 \in Code
      BY CodesAssumption DEF Code
<1>2. NoDoc \in Doc /\ NoDoc.id = 0 /\ ~NoDoc.consumed /\ NoDoc.code = 0
      BY <1>1 DEF NoDoc, Doc, NoCode
<1>3. ASSUME NEW d \in Doc, NEW c \in Code
      PROVE  /\ Reissued(d, c) \in Doc /\ Reissued(d, c).code = c /\ ~Reissued(d, c).consumed
             /\ Reissued(d, c).id = IF d = NoDoc THEN c ELSE d.id
  <2>1. Id(d, c) \in Code /\ Id(d, c) = IF d = NoDoc THEN c ELSE d.id
        BY DEF Id, Doc
  <2>2. Reissued(d, c) = [id |-> Id(d, c), code |-> c, consumed |-> FALSE, expired |-> FALSE]
        BY DEF Reissued
  <2> QED BY <2>1, <2>2 DEF Doc
<1>4. ASSUME NEW d \in Doc
      PROVE  /\ Consumed(d) \in Doc /\ Consumed(d).consumed /\ Consumed(d).code = d.code
             /\ Consumed(d).id = d.id
      BY DEF Consumed, Doc
<1>5. ASSUME NEW d \in Doc
      PROVE  /\ [d EXCEPT !.expired = TRUE] \in Doc /\ [d EXCEPT !.expired = TRUE].id = d.id
             /\ [d EXCEPT !.expired = TRUE].code = d.code
             /\ [d EXCEPT !.expired = TRUE].consumed = d.consumed
             /\ [d EXCEPT !.expired = TRUE].expired
      BY DEF Doc
<1> QED BY <1>2, <1>3, <1>4, <1>5

\* A call that moves.
LEMMA CallAt ==
  ASSUME TypeOK, NEW r \in Req, NEW l \in PC, At(r, l)
  PROVE  pc' \in [Req -> PC] /\ pc'[r] = l /\ \A q \in Req : q # r => pc'[q] = pc[q]
  BY DEF TypeOK, At

\* A call that ends.
LEMMA CallDone ==
  ASSUME TypeOK, NEW r \in Req, Done(r)
  PROVE  /\ pc' \in [Req -> PC] /\ purpose' = purpose
         /\ count' \in [Req -> 0..maxAttempts] /\ code' \in [Req -> Code] /\ found' \in [Req -> Code]
         /\ replay' \in [Req -> BOOLEAN]
         /\ pc' = [pc EXCEPT ![r] = "idle"]
         /\ pc'[r] = "idle" /\ code'[r] = 0
         /\ \A q \in Req : q # r => /\ pc'[q] = pc[q] /\ count'[q] = count[q] /\ code'[q] = code[q]
                                   /\ found'[q] = found[q] /\ replay'[q] = replay[q]
<1>1. 0 \in Code /\ 0 \in 0..maxAttempts
      BY CodesAssumption, AttemptsAssumption DEF Code
<1>2. replay' \in [Req -> BOOLEAN] /\ \A q \in Req : q # r => replay'[q] = replay[q]
      BY DEF TypeOK, Done
<1> QED BY <1>1, <1>2 DEF TypeOK, Done, At, PC, NoCode

\* At the start.
LEMMA InitOtpType == Init => OtpType
<1> SUFFICES ASSUME Init PROVE OtpType
    OBVIOUS
<1>1. 0 \in Code /\ 0 \in 0..maxAttempts /\ 0 \in 0..GuessLimit
  <2>1. Cardinality(Req) \in Nat
        BY ReqAssumption, FS_CardinalityType
  <2> QED BY <2>1, CodesAssumption, AttemptsAssumption DEF Code, GuessLimit
<1>2. cooldown \in BOOLEAN /\ replay \in [Req -> BOOLEAN]
      BY Zenon DEF Init
<1>3. doc \in [Purpose -> Doc]
      BY Documents DEF Init
<1> QED BY <1>1, <1>2, <1>3 DEF Init, OtpType, TypeOK, PC, NoCode

\* Every step keeps the types.
LEMMA StepOtpType == OtpType /\ [Next]_vars => OtpType'
<1> SUFFICES ASSUME OtpType, [Next]_vars PROVE OtpType'
    OBVIOUS
<1>t. TypeOK /\ \A r \in Req : pc[r] \in {"lookup", "fail"} => count[r] < maxAttempts
      BY DEF OtpType
<1>g. GuessLimit \in Nat /\ 0 \in 0..GuessLimit /\ 0 \in 0..maxAttempts
  <2>1. Cardinality(Req) \in Nat
        BY ReqAssumption, FS_CardinalityType
  <2> QED BY <2>1, AttemptsAssumption DEF GuessLimit
<1> USE DEF OtpType, cache, given, frame, history
<1>1. CASE UNCHANGED vars
      BY <1>1, <1>t DEF vars, TypeOK
<1>2. ASSUME NEW r \in Req, NEW p \in Purpose, Request(r, p) PROVE OtpType'
  <2>1. PICK l \in {"budget"} : At(r, l)
        BY <1>2 DEF Request
  <2> QED BY <1>2, <2>1, <1>t, CallAt DEF Request, TypeOK, PC
<1>3. ASSUME NEW r \in Req, RequestBudget(r) PROVE OtpType'
  <2>1. PICK l \in {"idle", "upsert"} : At(r, l)
        BY <1>3 DEF RequestBudget
  <2> QED BY <1>3, <2>1, <1>t, CallAt DEF RequestBudget, TypeOK, PC
<1>4. ASSUME NEW r \in Req, Upsert(r) PROVE OtpType'
  <2>1. PICK l \in {"cool"} : At(r, l)
        BY <1>4 DEF Upsert
  <2>2. last + 1 \in Code /\ last' = last + 1
        BY <1>4, <1>t, CodesAssumption DEF Upsert, TypeOK, Code
  <2>3. doc' \in [Purpose -> Doc]
    <3>1. doc' = [doc EXCEPT ![purpose[r]] = Reissued(doc[purpose[r]], last + 1)]
          BY <1>4, <2>2 DEF Upsert
    <3> QED BY <3>1, <2>2, <1>t, Documents DEF TypeOK
  <2> QED BY <1>4, <2>1, <2>2, <2>3, <1>t, CallAt DEF Upsert, TypeOK, PC
<1>5. ASSUME NEW r \in Req, StartCooldown(r) PROVE OtpType'
  <2>1. PICK l \in {"send"} : At(r, l)
        BY <1>5 DEF StartCooldown
  <2>2. cooldown' \in BOOLEAN
        BY <1>5, Zenon DEF StartCooldown
  <2> QED BY <1>5, <2>1, <2>2, <1>t, CallAt DEF StartCooldown, TypeOK, PC
<1>6. ASSUME NEW r \in Req, Send(r) PROVE OtpType'
      BY <1>6, <1>t, CallDone DEF Send, TypeOK
<1>7. ASSUME NEW r \in Req, NEW p \in Purpose, NEW c \in 0..last, Verify(r, p, c) PROVE OtpType'
  <2>1. PICK l \in {"lookup"} : At(r, l)
        BY <1>7 DEF Verify
  <2>2. replay' \in [Req -> BOOLEAN]
    <3>1. (c \in spent) \in BOOLEAN
          OBVIOUS
    <3> QED BY <1>7, <1>t, <3>1 DEF Verify, TypeOK
  <2>3. c \in Code /\ attempts < maxAttempts
        BY <1>7, <1>t, CodesAssumption, AttemptsAssumption DEF TypeOK, Code, Verify, Exhausted
  <2>4. count' \in [Req -> 0..maxAttempts] /\ code' \in [Req -> Code] /\ purpose' \in [Req -> Purpose]
        BY <1>7, <1>t, <2>3 DEF Verify, TypeOK
  <2>5. \A q \in Req : count'[q] = IF q = r THEN attempts ELSE count[q]
        BY <1>7, <1>t DEF Verify, TypeOK
  <2>6. TypeOK'
        BY <1>7, <2>1, <2>2, <2>4, <1>t, CallAt DEF Verify, TypeOK, PC
  <2> QED BY <2>1, <2>3, <2>5, <2>6, <1>t, CallAt DEF PC
<1>8. ASSUME NEW r \in Req, Lookup(r) PROVE OtpType'
  <2>1. CASE Done(r) /\ UNCHANGED history
        BY <1>8, <2>1, <1>t, CallDone DEF Lookup, TypeOK
  <2>2. CASE /\ At(r, "fail")
             /\ guesses' = IF Lost \/ guesses = GuessLimit THEN guesses ELSE guesses + 1
             /\ UNCHANGED <<given, accepted, spent, crossed>>
    <3>1. PICK l \in {"fail"} : At(r, l)
          BY <2>2
    <3>2. guesses' \in 0..GuessLimit
          BY <2>2, <1>t, <1>g DEF TypeOK
    <3>3. pc[r] = "lookup"
          BY <1>8 DEF Lookup
    <3>4. TypeOK'
          BY <1>8, <2>2, <3>1, <3>2, <1>t, CallAt DEF Lookup, TypeOK, PC
    <3> QED BY <2>2, <3>1, <3>3, <3>4, <1>t, CallAt DEF PC
  <2>3. CASE /\ At(r, "consume") /\ found' = [found EXCEPT ![r] = doc[purpose[r]].id]
             /\ accepted' = accepted \cup {code[r]}
             /\ UNCHANGED <<purpose, count, code, replay, guesses, spent, crossed>>
    <3>1. PICK l \in {"consume"} : At(r, l)
          BY <2>3
    <3>2. doc[purpose[r]].id \in Code /\ code[r] \in Code
          BY <1>t DEF TypeOK, Doc
    <3>3. TypeOK'
          BY <1>8, <2>3, <3>1, <3>2, <1>t, CallAt DEF Lookup, TypeOK, PC
    <3> QED BY <2>3, <3>1, <3>3, <1>t, CallAt DEF PC
  <2> QED BY <1>8, <2>1, <2>2, <2>3 DEF Lookup
<1>9. ASSUME NEW r \in Req, RecordFailure(r) PROVE OtpType'
  <2>1. attempts' \in 0..maxAttempts
        BY <1>9, <1>t, AttemptsAssumption DEF RecordFailure, NextFailure, TypeOK
  <2>2. crossed' \subseteq {"failure", "resend"}
        BY <1>9, <1>t DEF RecordFailure, Cross, TypeOK
  <2>3. guesses' \in 0..GuessLimit
        BY <1>9, <1>t, <1>g DEF RecordFailure, TypeOK
  <2> QED BY <1>9, <2>1, <2>2, <2>3, <1>t, CallDone DEF RecordFailure, TypeOK
<1>10. ASSUME NEW r \in Req, Consume(r) PROVE OtpType'
  <2>1. PICK l \in {"clear"} : At(r, l)
        BY <1>10 DEF Consume
  <2>2. crossed' \subseteq {"failure", "resend"}
        BY <1>10, <1>t DEF Consume, Cross, TypeOK
  <2>3. doc' \in [Purpose -> Doc]
    <3>1. purpose[r] \in Purpose /\ doc[purpose[r]] \in Doc
          BY <1>t DEF TypeOK
    <3>2. PICK d \in Doc : doc' = [doc EXCEPT ![purpose[r]] = d]
          BY <1>10, <3>1, Documents DEF Consume
    <3> QED BY <3>1, <3>2, <1>t DEF TypeOK
  <2>4. spent' \subseteq Code
        BY <1>10, <1>t DEF Consume, TypeOK
  <2> QED BY <1>10, <2>1, <2>2, <2>3, <2>4, <1>t, CallAt DEF Consume, TypeOK, PC
<1>11. ASSUME NEW r \in Req, ClearAttempts(r) PROVE OtpType'
  <2>1. PICK l \in {"clearCooldown"} : At(r, l)
        BY <1>11 DEF ClearAttempts
  <2> QED BY <1>11, <2>1, <1>t, <1>g, CallAt DEF ClearAttempts, TypeOK, PC
<1>12. ASSUME NEW r \in Req, ClearCooldown(r) PROVE OtpType'
  <2>1. cooldown' \in BOOLEAN
        BY <1>12, Zenon DEF ClearCooldown
  <2> QED BY <1>12, <2>1, <1>t, CallDone DEF ClearCooldown, TypeOK
<1>13. ASSUME NEW r \in Req, Fail(r) PROVE OtpType'
  <2>1. crossed' \subseteq {"failure", "resend"}
        BY <1>13, <1>t DEF Fail, Cross, TypeOK
  <2>2. guesses' \in 0..GuessLimit
        BY <1>13, <1>t, <1>g DEF Fail, TypeOK
  <2> QED BY <1>13, <2>1, <2>2, <1>t, CallDone DEF Fail, TypeOK
<1>14. CASE CooldownEnds
  <2>1. cooldown' \in BOOLEAN
        BY <1>14, Zenon DEF CooldownEnds
  <2> QED BY <1>14, <2>1, <1>t DEF CooldownEnds, TypeOK
<1>15. CASE WindowEnds
      BY <1>15, <1>t, <1>g DEF WindowEnds, TypeOK
<1>16. ASSUME NEW p \in Purpose, CodeExpires(p) \/ TtlDelete(p) PROVE OtpType'
  <2>1. doc[p] \in Doc
        BY <1>t DEF TypeOK
  <2>2. PICK d \in Doc : doc' = [doc EXCEPT ![p] = d]
        BY <1>16, <2>1, Documents DEF CodeExpires, TtlDelete
  <2>3. doc' \in [Purpose -> Doc]
        BY <2>2, <1>t DEF TypeOK
  <2> QED BY <1>16, <2>3, <1>t DEF CodeExpires, TtlDelete, TypeOK
<1> QED
    BY <1>1, <1>2, <1>3, <1>4, <1>5, <1>6, <1>7, <1>8, <1>9, <1>10, <1>11, <1>12, <1>13, <1>14,
       <1>15, <1>16
    DEF Next, Continue

-----------------------------------------------------------------------------
(* One-time codes: the budget *)

Failing == {r \in Req : pc[r] = "fail"}

\* A call that moves changes the failures under way by itself.
LEMMA FailingCounts ==
  ASSUME TypeOK, NEW r \in Req, NEW l, pc' = [pc EXCEPT ![r] = l]
  PROVE  /\ Cardinality(Failing') \in Nat /\ Cardinality(Failing) \in Nat
         /\ pc[r] # "fail" /\ l = "fail" => Cardinality(Failing') = Cardinality(Failing) + 1
         /\ pc[r] # "fail" /\ l # "fail" => Cardinality(Failing') = Cardinality(Failing)
         /\ pc[r] = "fail" /\ l # "fail" => Cardinality(Failing') + 1 = Cardinality(Failing)
<1>1. Failing' = IF l = "fail" THEN Failing \cup {r} ELSE Failing \ {r}
  <2>1. CASE l = "fail"
        BY <2>1 DEF TypeOK, Failing
  <2>2. CASE l # "fail"
        BY <2>2 DEF TypeOK, Failing
  <2> QED BY <2>1, <2>2
<1>2. Failing \subseteq Req /\ Failing' \subseteq Req
      BY DEF Failing
<1>3. /\ IsFiniteSet(Failing) /\ IsFiniteSet(Failing')
      /\ Cardinality(Failing') \in Nat /\ Cardinality(Failing) \in Nat
      BY <1>2, ReqAssumption, FS_Subset, FS_CardinalityType
<1>4. pc[r] = "fail" <=> r \in Failing
      BY DEF Failing
<1>5. ASSUME pc[r] # "fail", l = "fail" PROVE Cardinality(Failing') = Cardinality(Failing) + 1
      BY <1>1, <1>3, <1>4, <1>5, FS_AddElement
<1>6. ASSUME pc[r] # "fail", l # "fail" PROVE Cardinality(Failing') = Cardinality(Failing)
  <2>1. Failing' = Failing
        BY <1>1, <1>4, <1>6
  <2> QED BY <2>1
<1>7. ASSUME pc[r] = "fail", l # "fail" PROVE Cardinality(Failing') + 1 = Cardinality(Failing)
  <2>1. Cardinality(Failing') = Cardinality(Failing) - 1
        BY <1>1, <1>3, <1>4, <1>7, FS_RemoveElement
  <2> QED BY <2>1, <1>3
<1> QED BY <1>3, <1>5, <1>6, <1>7

\* A step of a call that neither counts nor compares.
LEMMA BudgetKept ==
  ASSUME TypeOK, AttemptBudget, NEW r \in Req, NEW l, l # "fail", pc[r] # "fail" \/ "failure" \in crossed',
         pc' = [pc EXCEPT ![r] = l], UNCHANGED <<attempts, guesses>>, crossed \subseteq crossed'
  PROVE  AttemptBudget'
<1> SUFFICES ASSUME "failure" \notin crossed' PROVE guesses' <= attempts' + Cardinality(Failing')
    BY DEF AttemptBudget, Failing, Lost
<1>1. guesses <= attempts + Cardinality(Failing)
      BY DEF AttemptBudget, Failing, Lost
<1>2. Cardinality(Failing') = Cardinality(Failing)
      BY FailingCounts
<1> QED BY <1>1, <1>2

\* Every step keeps the budget.
LEMMA StepBudget == OtpType /\ AttemptBudget /\ [Next]_vars => AttemptBudget'
<1> SUFFICES ASSUME OtpType, AttemptBudget, [Next]_vars PROVE AttemptBudget'
    OBVIOUS
<1>t. TypeOK
      BY DEF OtpType
<1>n. attempts \in Nat /\ guesses \in Nat /\ Cardinality(Failing) \in Nat
  <2>1. Failing \subseteq Req
        BY DEF Failing
  <2> QED BY <2>1, <1>t, ReqAssumption, AttemptsAssumption, FS_Subset, FS_CardinalityType DEF TypeOK
<1>e. ASSUME UNCHANGED <<pc, attempts, guesses, crossed>> PROVE AttemptBudget'
      BY <1>e DEF AttemptBudget, Lost
<1>c. ASSUME NEW r \in Req, attempts' = 0, guesses' = 0,
             UNCHANGED pc \/ \E l \in PC : pc' = [pc EXCEPT ![r] = l]
      PROVE  AttemptBudget'
  <2>1. Failing' \subseteq Req
        BY DEF Failing
  <2>2. Cardinality(Failing') \in Nat
        BY <2>1, ReqAssumption, FS_Subset, FS_CardinalityType
  <2> QED BY <1>c, <2>2 DEF AttemptBudget, Failing
<1> USE DEF cache, given, frame, history, At
<1>1. CASE UNCHANGED vars
      BY <1>1, <1>e DEF vars
<1>2. ASSUME NEW r \in Req, NEW p \in Purpose, Request(r, p) PROVE AttemptBudget'
      BY <1>2, <1>t, BudgetKept DEF Request
<1>3. ASSUME NEW r \in Req, RequestBudget(r) PROVE AttemptBudget'
  <2>1. PICK l \in {"idle", "upsert"} : pc' = [pc EXCEPT ![r] = l]
        BY <1>3 DEF RequestBudget
  <2> QED BY <1>3, <2>1, <1>t, BudgetKept DEF RequestBudget
<1>4. ASSUME NEW r \in Req, Upsert(r) \/ StartCooldown(r) PROVE AttemptBudget'
  <2>1. PICK l \in {"cool", "send"} : pc' = [pc EXCEPT ![r] = l]
        BY <1>4 DEF Upsert, StartCooldown
  <2>2. pc[r] # "fail" /\ UNCHANGED <<attempts, guesses, crossed>>
        BY <1>4 DEF Upsert, StartCooldown
  <2> QED BY <2>1, <2>2, <1>t, BudgetKept
<1>5. ASSUME NEW r \in Req, Send(r) \/ ClearCooldown(r) PROVE AttemptBudget'
  <2>1. PICK l \in {"idle"} : pc' = [pc EXCEPT ![r] = l]
        BY <1>5 DEF Send, ClearCooldown, Done
  <2>2. pc[r] # "fail" /\ UNCHANGED <<attempts, guesses, crossed>>
        BY <1>5 DEF Send, ClearCooldown
  <2> QED BY <2>1, <2>2, <1>t, BudgetKept
<1>6. ASSUME NEW r \in Req, NEW p \in Purpose, NEW c \in 0..last, Verify(r, p, c) PROVE AttemptBudget'
      BY <1>6, <1>t, BudgetKept DEF Verify
<1>7. ASSUME NEW r \in Req, Lookup(r) PROVE AttemptBudget'
  <2>1. pc[r] = "lookup" /\ UNCHANGED <<attempts>>
        BY <1>7 DEF Lookup
  <2>2. CASE pc' = [pc EXCEPT ![r] = "fail"] /\ UNCHANGED crossed
             /\ guesses' = IF Lost \/ guesses = GuessLimit THEN guesses ELSE guesses + 1
    <3> SUFFICES ASSUME "failure" \notin crossed' PROVE guesses' <= attempts' + Cardinality(Failing')
        BY DEF AttemptBudget, Failing, Lost
    <3>1. guesses <= attempts + Cardinality(Failing)
          BY <2>2 DEF AttemptBudget, Failing, Lost
    <3>2. Cardinality(Failing') = Cardinality(Failing) + 1
          BY <2>1, <2>2, <1>t, FailingCounts
    <3>3. guesses' <= guesses + 1 /\ guesses' \in Nat
      <4>1. GuessLimit \in Nat
            BY ReqAssumption, AttemptsAssumption, FS_CardinalityType DEF GuessLimit
      <4> QED BY <2>2, <4>1, <1>n
    <3> QED BY <3>1, <3>2, <3>3, <2>1, <1>n
  <2>3. CASE (\E l \in {"idle", "consume"} : pc' = [pc EXCEPT ![r] = l]) /\ UNCHANGED <<guesses, crossed>>
        BY <2>1, <2>3, <1>t, BudgetKept
  <2> QED BY <1>7, <2>2, <2>3 DEF Lookup, Done
<1>8. ASSUME NEW r \in Req, RecordFailure(r) PROVE AttemptBudget'
  <2> SUFFICES ASSUME "failure" \notin crossed' PROVE guesses' <= attempts' + Cardinality(Failing')
      BY DEF AttemptBudget, Failing, Lost
  <2>1. pc[r] = "fail" /\ pc' = [pc EXCEPT ![r] = "idle"] /\ UNCHANGED guesses /\ attempts' = attempts + 1
        /\ "failure" \notin crossed
        BY <1>8 DEF RecordFailure, Cross, Done, NextFailure, Lost
  <2>2. guesses <= attempts + Cardinality(Failing)
        BY <2>1 DEF AttemptBudget, Failing, Lost
  <2>3. Cardinality(Failing') + 1 = Cardinality(Failing) /\ Cardinality(Failing') \in Nat
    <3>1. PICK l \in {"idle"} : pc' = [pc EXCEPT ![r] = l]
          BY <2>1
    <3> QED BY <2>1, <3>1, <1>t, FailingCounts
  <2> QED BY <2>1, <2>2, <2>3, <1>n
<1>9. ASSUME NEW r \in Req, Consume(r) PROVE AttemptBudget'
  <2>1. crossed \subseteq crossed' /\ pc[r] # "fail" /\ pc' = [pc EXCEPT ![r] = "clear"]
        /\ UNCHANGED <<attempts, guesses>>
        BY <1>9 DEF Consume, Cross
  <2> QED BY <2>1, <1>t, BudgetKept
<1>10. ASSUME NEW r \in Req, ClearAttempts(r) PROVE AttemptBudget'
      BY <1>10, <1>c DEF ClearAttempts, PC
<1>11. ASSUME NEW r \in Req, Fail(r) PROVE AttemptBudget'
  <2>1. /\ crossed \subseteq crossed' /\ (pc[r] # "fail" \/ Lost')
        /\ pc' = [pc EXCEPT ![r] = "idle"] /\ UNCHANGED attempts
        /\ ~Lost' => UNCHANGED guesses
        BY <1>11 DEF Fail, Cross, Done, Lost
  <2>2. CASE Lost'
        BY <2>2 DEF AttemptBudget
  <2>3. CASE ~Lost'
        BY <2>1, <2>3, <1>t, BudgetKept
  <2> QED BY <2>2, <2>3
<1>12. CASE CooldownEnds
      BY <1>12, <1>e DEF CooldownEnds
<1>13. CASE WindowEnds
      BY <1>13, <1>n DEF WindowEnds, AttemptBudget, Failing
<1>14. ASSUME NEW p \in Purpose, CodeExpires(p) \/ TtlDelete(p) PROVE AttemptBudget'
      BY <1>14, <1>e DEF CodeExpires, TtlDelete
<1> QED
    BY <1>1, <1>2, <1>3, <1>4, <1>5, <1>6, <1>7, <1>8, <1>9, <1>10, <1>11, <1>12, <1>13, <1>14
    DEF Next, Continue

-----------------------------------------------------------------------------
(* One-time codes: the documents *)

\* Codes are drawn in order, so that two documents never share one.
Drawn ==
  /\ \A p \in Purpose : doc[p].id # 0 => doc[p].code \in 1..last
  /\ \A p, q \in Purpose : doc[p].id # 0 /\ doc[q].id # 0 /\ doc[p].code = doc[q].code => p = q
  /\ \A r \in Req : code[r] <= last
  /\ \A c \in spent : c <= last

\* No live document holds a spent code, and a call that started after its code was spent
\* knows it.
SpentIsDead ==
  /\ \A p \in Purpose : Live(doc[p]) => doc[p].code \notin spent
  /\ \A r \in Req : pc[r] = "lookup" /\ replay[r] => code[r] \in spent

\* A call that is to consume has accepted a code that was not spent when it started; the
\* code is in the document it found, or in none any more.
Accepting ==
  \A r \in Req : pc[r] = "consume" =>
    /\ code[r] \in accepted /\ ~replay[r]
    /\ \A p \in Purpose : doc[p].id # 0 /\ doc[p].code = code[r] => p = purpose[r] /\ doc[p].id = found[r]

DocInv == Drawn /\ SpentIsDead /\ Accepting /\ ConsumedWasAccepted

\* At the start there is no document.
LEMMA InitDocs == Init => DocInv
<1> SUFFICES ASSUME Init PROVE DocInv
    OBVIOUS
<1>1. \A p \in Purpose : doc[p] = NoDoc
      BY DEF Init
<1>2. \A p \in Purpose : doc[p].id = 0 /\ ~doc[p].consumed
      BY <1>1, Documents
<1>3. \A r \in Req : pc[r] = "idle" /\ code[r] = 0
      BY DEF Init, NoCode
<1>4. last = 0 /\ spent = {}
      BY DEF Init
<1> QED BY <1>2, <1>3, <1>4 DEF DocInv, Drawn, SpentIsDead, Accepting, ConsumedWasAccepted, Live

\* A step that leaves the documents and what was accepted and spent keeps all this, when
\* the calls it moves are neither looking a code up nor about to consume one.
LEMMA DocsKept ==
  ASSUME OtpType, DocInv, UNCHANGED <<doc, last, spent, accepted>>, crossed \subseteq crossed', OtpType',
         \A q \in Req : \/ pc'[q] \notin {"lookup", "consume"} /\ (code'[q] = code[q] \/ code'[q] = 0)
                       \/ /\ pc'[q] = pc[q] /\ code'[q] = code[q] /\ replay'[q] = replay[q]
                          /\ purpose'[q] = purpose[q] /\ found'[q] = found[q]
  PROVE  DocInv'
<1>1. last \in Nat
      BY CodesAssumption DEF OtpType, TypeOK, Code
<1>2. Drawn'
      BY <1>1 DEF DocInv, Drawn
<1>3. SpentIsDead'
      BY DEF DocInv, SpentIsDead, Live
<1>4. Accepting'
      BY DEF DocInv, Accepting
<1>5. ConsumedWasAccepted'
      BY DEF DocInv, ConsumedWasAccepted
<1> QED BY <1>2, <1>3, <1>4, <1>5 DEF DocInv

\* A document that expires or is removed takes nothing with it.
LEMMA DocGoes ==
  ASSUME OtpType, DocInv, NEW p \in Purpose, CodeExpires(p) \/ TtlDelete(p)
  PROVE  DocInv'
<1>1. doc[p] \in Doc /\ doc \in [Purpose -> Doc] /\ 0 \notin 1..last
      BY DEF OtpType, TypeOK
<1>2. UNCHANGED <<last, pc, purpose, code, found, accepted, spent, replay, crossed>>
      BY DEF CodeExpires, TtlDelete, given, frame, history
<1>3. PICK d \in Doc : /\ doc' = [doc EXCEPT ![p] = d] /\ ~Live(d)
                       /\ \/ d.id = 0 /\ ~d.consumed
                          \/ d.id = doc[p].id /\ d.code = doc[p].code /\ d.consumed = doc[p].consumed
      BY <1>1, Documents, ZenonT(30) DEF CodeExpires, TtlDelete, Live
<1>4. doc'[p] = d /\ \A q \in Purpose : q # p => doc'[q] = doc[q]
      BY <1>1, <1>3
<1>5. \A q \in Purpose : doc'[q].id # 0 => doc'[q].id = doc[q].id /\ doc'[q].code = doc[q].code
      BY <1>3, <1>4
<1>6. Drawn'
      BY <1>2, <1>5 DEF DocInv, Drawn
<1>7. \A q \in Purpose : Live(doc'[q]) => Live(doc[q]) /\ doc'[q].code = doc[q].code
      BY <1>3, <1>4 DEF Live
<1>8. SpentIsDead'
      BY <1>2, <1>7 DEF DocInv, SpentIsDead
<1>9. Accepting'
      BY <1>2, <1>5 DEF DocInv, Accepting
<1>10. ConsumedWasAccepted'
      BY <1>2, <1>3, <1>4 DEF DocInv, ConsumedWasAccepted
<1> QED BY <1>6, <1>8, <1>9, <1>10 DEF DocInv

\* A new code is in no frame, not spent, and no other document has it.
LEMMA DocReissued ==
  ASSUME OtpType, DocInv, NEW r \in Req, Upsert(r)
  PROVE  DocInv'
<1> DEFINE p == purpose[r]
           d == Reissued(doc[p], last + 1)
<1>1. /\ p \in Purpose /\ doc[p] \in Doc /\ doc \in [Purpose -> Doc] /\ last \in Nat
      /\ last + 1 \in Code /\ code \in [Req -> Code] /\ spent \subseteq Nat
      BY CodesAssumption DEF OtpType, TypeOK, Code, Upsert
<1>2. /\ doc' = [doc EXCEPT ![p] = d] /\ last' = last + 1
      /\ UNCHANGED <<purpose, code, found, accepted, spent, replay, crossed>>
      BY DEF Upsert, given, history
<1>3. d.code = last + 1 /\ ~d.consumed
      BY <1>1, Documents
<1>4. pc'[r] = "cool" /\ \A q \in Req : q # r => pc'[q] = pc[q]
      BY DEF Upsert, At, OtpType, TypeOK
<1>5. doc'[p] = d /\ \A q \in Purpose : q # p => doc'[q] = doc[q]
      BY <1>1, <1>2
<1> HIDE DEF p, d
<1>6. \A q \in Purpose : q # p /\ doc[q].id # 0 => doc[q].code \in 1..last
      BY DEF DocInv, Drawn
<1>7. \A q \in Req : code[q] \in Nat /\ code[q] <= last
      BY <1>1, CodesAssumption DEF DocInv, Drawn, Code
<1>8. Drawn'
  <2>1. \A q \in Purpose : doc'[q].id # 0 => doc'[q].code \in 1..last'
        BY <1>1, <1>2, <1>3, <1>5, <1>6
  <2>2. \A q, o \in Purpose : doc'[q].id # 0 /\ doc'[o].id # 0 /\ doc'[q].code = doc'[o].code => q = o
    <3> SUFFICES ASSUME NEW q \in Purpose, NEW o \in Purpose, doc'[q].id # 0, doc'[o].id # 0,
                        doc'[q].code = doc'[o].code, q # o
                 PROVE  FALSE
        OBVIOUS
    <3>1. CASE q # p /\ o # p
          BY <3>1, <1>5 DEF DocInv, Drawn
    <3>2. CASE q = p
          BY <3>2, <1>1, <1>3, <1>5, <1>6
    <3>3. CASE o = p
          BY <3>3, <1>1, <1>3, <1>5, <1>6
    <3> QED BY <3>1, <3>2, <3>3
  <2>3. (\A q \in Req : code'[q] <= last') /\ (\A c \in spent' : c <= last')
        BY <1>1, <1>2, <1>7 DEF DocInv, Drawn
  <2> QED BY <2>1, <2>2, <2>3 DEF Drawn
<1>9. SpentIsDead'
  <2>1. last + 1 \notin spent
        BY <1>1 DEF DocInv, Drawn
  <2> QED BY <1>2, <1>3, <1>4, <1>5, <2>1 DEF DocInv, SpentIsDead
<1>10. Accepting'
  <2>1. \A q \in Req : code[q] # last + 1
        BY <1>1, <1>7
  <2> QED BY <1>2, <1>3, <1>4, <1>5, <2>1 DEF DocInv, Accepting
<1>11. ConsumedWasAccepted'
      BY <1>2, <1>3, <1>5 DEF DocInv, ConsumedWasAccepted
<1> QED BY <1>8, <1>9, <1>10, <1>11 DEF DocInv

\* A verification remembers whether its code was spent.
LEMMA DocVerify ==
  ASSUME OtpType, DocInv, NEW r \in Req, NEW p \in Purpose, NEW c \in 0..last, Verify(r, p, c)
  PROVE  DocInv'
<1>1. /\ UNCHANGED <<doc, last, found, accepted, spent, crossed>>
      /\ pc'[r] = "lookup" /\ code'[r] = c
      /\ \A q \in Req : q # r => /\ pc'[q] = pc[q] /\ code'[q] = code[q] /\ replay'[q] = replay[q]
                                /\ purpose'[q] = purpose[q]
      BY DEF Verify, At, OtpType, TypeOK, history
<1>2. replay'[r] = (c \in spent)
      BY DEF Verify, OtpType, TypeOK
<1>3. Drawn'
      BY <1>1 DEF DocInv, Drawn
<1>4. SpentIsDead'
      BY <1>1, <1>2 DEF DocInv, SpentIsDead, Live
<1>5. Accepting'
  <2> SUFFICES ASSUME NEW q \in Req, pc'[q] = "consume"
               PROVE  /\ code'[q] \in accepted' /\ ~replay'[q]
                      /\ \A o \in Purpose : doc'[o].id # 0 /\ doc'[o].code = code'[q]
                                            => o = purpose'[q] /\ doc'[o].id = found'[q]
      BY DEF Accepting
  <2>1. q # r
        BY <1>1
  <2> QED BY <1>1, <2>1 DEF DocInv, Accepting
<1>6. ConsumedWasAccepted'
      BY <1>1 DEF DocInv, ConsumedWasAccepted
<1> QED BY <1>3, <1>4, <1>5, <1>6 DEF DocInv

\* The code of a live document is accepted, and no spent code is in one.
LEMMA DocLookup ==
  ASSUME OtpType, OtpType', DocInv, NEW r \in Req, Lookup(r)
  PROVE  DocInv'
<1>1. pc[r] = "lookup" /\ UNCHANGED <<doc, last>>
      BY DEF Lookup
<1>2. CASE Done(r) /\ UNCHANGED history
  <2>1. TypeOK
        BY DEF OtpType
  <2>2. /\ pc'[r] = "idle" /\ code'[r] = 0 /\ purpose' = purpose
        /\ \A q \in Req : q # r => /\ pc'[q] = pc[q] /\ code'[q] = code[q] /\ found'[q] = found[q]
                                  /\ replay'[q] = replay[q]
        BY <1>2, <2>1, CallDone
  <2> QED BY <1>1, <1>2, <2>2, DocsKept DEF history
<1>3. CASE At(r, "fail") /\ UNCHANGED <<given, accepted, spent, crossed>>
  <2>1. pc'[r] = "fail" /\ \A q \in Req : q # r => pc'[q] = pc[q]
        BY <1>3 DEF At, OtpType, TypeOK
  <2> QED BY <1>1, <1>3, <2>1, DocsKept DEF given
<1>4. CASE /\ Live(doc[purpose[r]]) /\ doc[purpose[r]].code = code[r] /\ At(r, "consume")
           /\ found' = [found EXCEPT ![r] = doc[purpose[r]].id] /\ accepted' = accepted \cup {code[r]}
           /\ UNCHANGED <<purpose, count, code, replay, guesses, spent, crossed>>
  <2>1. /\ pc'[r] = "consume" /\ \A q \in Req : q # r => pc'[q] = pc[q] /\ found'[q] = found[q]
        /\ found'[r] = doc[purpose[r]].id /\ purpose[r] \in Purpose
        BY <1>4 DEF At, OtpType, TypeOK
  <2>2. ~replay[r]
        BY <1>1, <1>4, <2>1 DEF DocInv, SpentIsDead
  <2>3. Drawn'
        BY <1>1, <1>4 DEF DocInv, Drawn
  <2>4. SpentIsDead'
        BY <1>1, <1>4, <2>1 DEF DocInv, SpentIsDead
  <2>5. \A p \in Purpose : doc[p].id # 0 /\ doc[p].code = code[r] => p = purpose[r]
        BY <1>4, <2>1 DEF DocInv, Drawn, Live
  <2>6. Accepting'
    <3> SUFFICES ASSUME NEW q \in Req, pc'[q] = "consume"
                 PROVE  /\ code'[q] \in accepted' /\ ~replay'[q]
                        /\ \A o \in Purpose : doc'[o].id # 0 /\ doc'[o].code = code'[q]
                                              => o = purpose'[q] /\ doc'[o].id = found'[q]
        BY DEF Accepting
    <3>1. CASE q = r
          BY <3>1, <1>1, <1>4, <2>1, <2>2, <2>5
    <3>2. CASE q # r
          BY <3>2, <1>1, <1>4, <2>1 DEF DocInv, Accepting
    <3> QED BY <3>1, <3>2
  <2>7. ConsumedWasAccepted'
        BY <1>1, <1>4 DEF DocInv, ConsumedWasAccepted
  <2> QED BY <2>3, <2>4, <2>6, <2>7 DEF DocInv
<1> QED BY <1>2, <1>3, <1>4 DEF Lookup, history

\* The update by _id marks the document that holds the code, if one still does.
LEMMA DocConsume ==
  ASSUME OtpType, DocInv, NEW r \in Req, Consume(r)
  PROVE  DocInv'
<1> DEFINE p == purpose[r]
<1>1. /\ p \in Purpose /\ doc[p] \in Doc /\ doc \in [Purpose -> Doc]
      BY DEF OtpType, TypeOK
<1>2. /\ doc' = [doc EXCEPT ![p] = IF doc[p].id = found[r] THEN Consumed(doc[p]) ELSE doc[p]]
      /\ spent' = spent \cup {code[r]} /\ pc[r] = "consume"
      /\ UNCHANGED <<last, purpose, code, found, accepted, replay>>
      BY DEF Consume, given
<1>3. pc'[r] = "clear" /\ \A q \in Req : q # r => pc'[q] = pc[q]
      BY DEF Consume, At, OtpType, TypeOK
<1>4. "resend" \notin crossed' => "resend" \notin crossed /\ doc[p].code = code[r]
      BY DEF Consume, Cross
<1> HIDE DEF p
<1>5. /\ \A q \in Purpose : q # p => doc'[q] = doc[q]
      /\ doc'[p].id = doc[p].id /\ doc'[p].code = doc[p].code
      /\ doc[p].id = found[r] => doc'[p].consumed
      /\ doc[p].id # found[r] => doc'[p] = doc[p]
      BY <1>1, <1>2, Documents
<1>6. \A q \in Purpose : doc'[q].id = doc[q].id /\ doc'[q].code = doc[q].code
      BY <1>5
<1>7. Drawn'
      BY <1>2, <1>6 DEF DocInv, Drawn
<1>8. SpentIsDead'
  <2>1. ASSUME NEW q \in Purpose, Live(doc'[q]) PROVE doc'[q].code \notin spent'
    <3>1. Live(doc[q]) /\ (q = p => doc[p].id # found[r])
          BY <2>1, <1>5 DEF Live
    <3>2. doc[q].code \notin spent
          BY <3>1 DEF DocInv, SpentIsDead
    <3>3. doc[q].code # code[r]
          BY <3>1, <1>2 DEF DocInv, Accepting, Live, p
    <3> QED BY <3>2, <3>3, <1>2, <1>6
  <2>2. \A q \in Req : pc'[q] = "lookup" /\ replay'[q] => code'[q] \in spent'
        BY <1>2, <1>3 DEF DocInv, SpentIsDead
  <2> QED BY <2>1, <2>2 DEF SpentIsDead
<1>9. Accepting'
      BY <1>2, <1>3, <1>6 DEF DocInv, Accepting
<1>10. ConsumedWasAccepted'
  <2> SUFFICES ASSUME "resend" \notin crossed', NEW q \in Purpose, doc'[q].consumed
               PROVE  doc'[q].code \in accepted'
      BY DEF ConsumedWasAccepted
  <2>1. CASE q = p
        BY <2>1, <1>2, <1>4, <1>6 DEF DocInv, Accepting
  <2>2. CASE q # p
        BY <2>2, <1>2, <1>4, <1>5 DEF DocInv, ConsumedWasAccepted
  <2> QED BY <2>1, <2>2
<1> QED BY <1>7, <1>8, <1>9, <1>10 DEF DocInv

\* Every step keeps what is known of the documents.
LEMMA StepDocs == OtpType /\ DocInv /\ [Next]_vars => DocInv'
<1> SUFFICES ASSUME OtpType, DocInv, [Next]_vars PROVE DocInv'
    OBVIOUS
<1>t. TypeOK /\ OtpType'
      BY StepOtpType DEF OtpType
<1>k. ASSUME NEW r \in Req, NEW l \in PC \ {"lookup", "consume"}, At(r, l), crossed \subseteq crossed',
             UNCHANGED <<doc, last, code, replay, found, spent, accepted>>,
             \A q \in Req : q # r => purpose'[q] = purpose[q]
      PROVE  DocInv'
  <2>1. pc'[r] = l /\ \A q \in Req : q # r => pc'[q] = pc[q]
        BY <1>k, <1>t, CallAt
  <2> QED BY <1>k, <1>t, <2>1, DocsKept
<1>d. ASSUME NEW r \in Req, Done(r), crossed \subseteq crossed', UNCHANGED <<doc, last, spent, accepted>>
      PROVE  DocInv'
  <2>1. /\ pc'[r] = "idle" /\ code'[r] = 0 /\ purpose' = purpose
        /\ \A q \in Req : q # r => /\ pc'[q] = pc[q] /\ code'[q] = code[q] /\ found'[q] = found[q]
                                  /\ replay'[q] = replay[q]
        BY <1>d, <1>t, CallDone
  <2> QED BY <1>d, <1>t, <2>1, DocsKept
<1>e. ASSUME UNCHANGED <<doc, last, frame, accepted, spent, crossed>> PROVE DocInv'
      BY <1>e, <1>t, DocsKept DEF given, frame
<1> USE DEF cache, given, frame, history
<1>1. CASE UNCHANGED vars
      BY <1>1, <1>e DEF vars
<1>2. ASSUME NEW r \in Req, NEW p \in Purpose, Request(r, p) PROVE DocInv'
  <2>1. PICK l \in {"budget"} : At(r, l)
        BY <1>2 DEF Request
  <2>2. \A q \in Req : q # r => purpose'[q] = purpose[q]
        BY <1>2, <1>t DEF Request, TypeOK
  <2> QED BY <1>2, <2>1, <2>2, <1>k DEF Request, PC
<1>3. ASSUME NEW r \in Req, RequestBudget(r) PROVE DocInv'
  <2>1. PICK l \in {"idle", "upsert"} : At(r, l)
        BY <1>3 DEF RequestBudget
  <2> QED BY <1>3, <2>1, <1>k DEF RequestBudget, PC
<1>4. ASSUME NEW r \in Req, StartCooldown(r) PROVE DocInv'
  <2>1. PICK l \in {"send"} : At(r, l)
        BY <1>4 DEF StartCooldown
  <2> QED BY <1>4, <2>1, <1>k DEF StartCooldown, PC
<1>5. ASSUME NEW r \in Req, ClearAttempts(r) PROVE DocInv'
  <2>1. PICK l \in {"clearCooldown"} : At(r, l)
        BY <1>5 DEF ClearAttempts
  <2> QED BY <1>5, <2>1, <1>k DEF ClearAttempts, PC
<1>6. ASSUME NEW r \in Req, Send(r) \/ ClearCooldown(r) \/ RecordFailure(r) \/ Fail(r) PROVE DocInv'
      BY <1>6, <1>d DEF Send, ClearCooldown, RecordFailure, Fail, Cross
<1>7. ASSUME NEW r \in Req, Upsert(r) PROVE DocInv'
      BY <1>7, DocReissued
<1>8. ASSUME NEW r \in Req, Lookup(r) PROVE DocInv'
      BY <1>8, <1>t, DocLookup
<1>9. ASSUME NEW r \in Req, Consume(r) PROVE DocInv'
      BY <1>9, DocConsume
<1>10. ASSUME NEW r \in Req, NEW p \in Purpose, NEW c \in 0..last, Verify(r, p, c) PROVE DocInv'
      BY <1>10, DocVerify
<1>11. ASSUME NEW p \in Purpose, CodeExpires(p) \/ TtlDelete(p) PROVE DocInv'
      BY <1>11, DocGoes
<1>12. CASE CooldownEnds \/ WindowEnds
      BY <1>12, <1>e DEF CooldownEnds, WindowEnds
<1> QED
    BY <1>1, <1>2, <1>3, <1>4, <1>5, <1>6, <1>7, <1>8, <1>9, <1>10, <1>11, <1>12 DEF Next, Continue

OtpInv == OtpType /\ AttemptBudget /\ DocInv

\* At the start nothing was guessed.
LEMMA InitOtp == Init => OtpInv
<1> SUFFICES ASSUME Init PROVE AttemptBudget
    BY InitOtpType, InitDocs DEF OtpInv
<1>1. Failing \subseteq Req
      BY DEF Failing
<1>2. Cardinality(Failing) \in Nat
      BY <1>1, ReqAssumption, FS_Subset, FS_CardinalityType
<1> QED BY <1>2 DEF Init, AttemptBudget, Failing

\* Every step of the OTP service keeps its invariant, which says what FactorsHold asks of it.
LEMMA StepOtp ==
  /\ OtpInv /\ [Next]_vars => OtpInv'
  /\ OtpInv => TypeOK /\ AttemptBudget /\ ConsumedWasAccepted /\ NoReplay
<1>1. OtpInv /\ [Next]_vars => OtpInv'
      BY StepOtpType, StepBudget, StepDocs DEF OtpInv
<1>2. OtpInv => TypeOK /\ AttemptBudget /\ ConsumedWasAccepted /\ NoReplay
      BY DEF OtpInv, OtpType, DocInv, Accepting, NoReplay
<1> QED BY <1>1, <1>2

-----------------------------------------------------------------------------
(* Logins *)

Flows == {"register", "password", "otp", "mfa", "magic", "reset", "change"}
Step == {"create", "user", "factor", "compare", "active", "gate", "code", "write", "revoke", "session"}
Seen == [active : BOOLEAN, mfa : BOOLEAN, password : Nat]
CallRecord ==
  [flow : Flows \cup {"none"}, todo : Seq(Step), seen : Seen, proven : BOOLEAN, open : BOOLEAN,
   alive : BOOLEAN, crossed : BOOLEAN]

\* How far a login is, and what it has shown by then: the first factor before the gate,
\* an enabled account behind the check of isActive, and no second factor behind the gate.
LoginStage(r) ==
  \/ r.flow = "none" /\ r.todo = <<>>
  \/ r.flow = "register" /\ r.todo \in {<<"create", "session">>, <<"session">>}
  \/ /\ r.flow = "password"
     /\ \/ r.todo \in {<<"user", "compare", "active", "gate", "session">>,
                       <<"compare", "active", "gate", "session">>}
        \/ r.todo = <<"active", "gate", "session">> /\ r.proven
        \/ r.todo = <<"gate", "session">> /\ r.proven /\ r.alive
        \/ r.todo = <<"session">> /\ r.open /\ r.alive
  \/ /\ r.flow = "otp"
     /\ \/ r.todo = <<"factor", "user", "active", "gate", "session">>
        \/ r.todo \in {<<"user", "active", "gate", "session">>, <<"active", "gate", "session">>} /\ r.proven
        \/ r.todo = <<"gate", "session">> /\ r.proven /\ r.alive
        \/ r.todo = <<"session">> /\ r.open /\ r.alive
  \/ /\ r.flow = "mfa"
     /\ \/ r.todo \in {<<"user", "active", "code", "session">>, <<"active", "code", "session">>}
        \/ r.todo \in {<<"code", "session">>, <<"session">>} /\ r.alive
  \/ /\ r.flow = "magic"
     /\ \/ r.todo \in {<<"factor", "user", "active", "session">>, <<"user", "active", "session">>,
                       <<"active", "session">>}
        \/ r.todo = <<"session">> /\ r.alive

\* What the call knows of the account: an enabled one seen was enabled during the call,
\* and a second factor that is off was off since the first one.
Informed(r) ==
  /\ r.flow = "none" => r = Logins!Idle
  /\ r.flow # "none" /\ active => r.alive
  /\ r.seen.active => r.alive
  /\ r.proven /\ ~mfa => r.open

LoginInv ==
  /\ exists \in BOOLEAN /\ active \in BOOLEAN /\ mfa \in BOOLEAN
  /\ password \in 0..1 /\ resetTo = 0 /\ switches \in 0..MaxSwitches
  /\ call \in [OneCall -> CallRecord]
  /\ \A c \in OneCall : LoginStage(call[c]) /\ Informed(call[c])
  /\ Logins!SecondFactorAsked /\ Logins!DisabledStaysOut

\* The rests of the flows.
LEMMA Tails ==
  /\ Tail(<<"create", "session">>) = <<"session">>
  /\ Tail(<<"user", "compare", "active", "gate", "session">>) = <<"compare", "active", "gate", "session">>
  /\ Tail(<<"compare", "active", "gate", "session">>) = <<"active", "gate", "session">>
  /\ Tail(<<"active", "gate", "session">>) = <<"gate", "session">>
  /\ Tail(<<"gate", "session">>) = <<"session">>
  /\ Tail(<<"factor", "user", "active", "gate", "session">>) = <<"user", "active", "gate", "session">>
  /\ Tail(<<"user", "active", "gate", "session">>) = <<"active", "gate", "session">>
  /\ Tail(<<"user", "active", "code", "session">>) = <<"active", "code", "session">>
  /\ Tail(<<"active", "code", "session">>) = <<"code", "session">>
  /\ Tail(<<"code", "session">>) = <<"session">>
  /\ Tail(<<"factor", "user", "active", "session">>) = <<"user", "active", "session">>
  /\ Tail(<<"user", "active", "session">>) = <<"active", "session">>
  /\ Tail(<<"active", "session">>) = <<"session">>
  /\ Len(<<"create", "session">>) # 1
  /\ Len(<<"user", "compare", "active", "gate", "session">>) # 1
  /\ Len(<<"compare", "active", "gate", "session">>) # 1
  /\ Len(<<"active", "gate", "session">>) # 1
  /\ Len(<<"gate", "session">>) # 1
  /\ Len(<<"factor", "user", "active", "gate", "session">>) # 1
  /\ Len(<<"user", "active", "gate", "session">>) # 1
  /\ Len(<<"user", "active", "code", "session">>) # 1
  /\ Len(<<"active", "code", "session">>) # 1
  /\ Len(<<"code", "session">>) # 1
  /\ Len(<<"factor", "user", "active", "session">>) # 1
  /\ Len(<<"user", "active", "session">>) # 1
  /\ Len(<<"active", "session">>) # 1
  OBVIOUS

\* A call that has ended.
LEMMA IdleIs ==
  /\ Logins!Idle \in CallRecord /\ LoginStage(Logins!Idle) /\ Informed(Logins!Idle)
  /\ Logins!Idle.flow = "none" /\ Logins!Idle.todo = <<>>
  BY DEF Logins!Idle, CallRecord, Seen, Flows, LoginStage, Informed

\* Nothing to note leaves it so.
LEMMA IdleKept ==
  /\ [Logins!Idle EXCEPT !.alive = FALSE] = Logins!Idle
  /\ [Logins!Idle EXCEPT !.open = FALSE] = Logins!Idle
  /\ [Logins!Idle EXCEPT !.crossed = FALSE] = Logins!Idle
<1> DEFINE i == Logins!Idle
<1>1. i \in CallRecord /\ i.alive = FALSE /\ i.open = FALSE /\ i.crossed = FALSE
      BY IdleIs DEF Logins!Idle
<1> HIDE DEF i
<1>2. ASSUME NEW r \in CallRecord
      PROVE  [r EXCEPT !.alive = r.alive] = r /\ [r EXCEPT !.open = r.open] = r /\ [r EXCEPT !.crossed = r.crossed] = r
      BY DEF CallRecord
<1>3. [i EXCEPT !.alive = FALSE] = i /\ [i EXCEPT !.open = FALSE] = i /\ [i EXCEPT !.crossed = FALSE] = i
      BY <1>1, <1>2
<1> QED BY <1>3 DEF i

\* A call with its current step done.
LEMMA DoneIs ==
  ASSUME NEW r \in CallRecord, r.todo # <<>>
  PROVE  /\ Len(r.todo) = 1 => Logins!Done(r) = Logins!Idle
         /\ Len(r.todo) # 1 =>
              /\ Logins!Done(r) \in CallRecord /\ Logins!Done(r).todo = Tail(r.todo)
              /\ Logins!Done(r).flow = r.flow /\ Logins!Done(r).seen = r.seen
              /\ Logins!Done(r).proven = r.proven /\ Logins!Done(r).open = r.open
              /\ Logins!Done(r).alive = r.alive /\ Logins!Done(r).crossed = r.crossed
<1>1. r.todo \in Seq(Step) /\ Tail(r.todo) \in Seq(Step)
      BY DEF CallRecord
<1> QED BY <1>1 DEF Logins!Done, CallRecord

\* Where a call may be, by its next step.
LEMMA LoginHead ==
  ASSUME NEW r \in CallRecord, LoginStage(r), r.todo # <<>>
  PROVE  /\ r.flow # "none" /\ r.flow \notin {"reset", "change"} /\ Head(r.todo) \notin {"write", "revoke"}
         /\ Head(r.todo) = "create" => r.flow = "register" /\ r.todo = <<"create", "session">>
         /\ Head(r.todo) = "user" =>
              \/ r.flow = "password" /\ r.todo = <<"user", "compare", "active", "gate", "session">>
              \/ r.flow = "otp" /\ r.todo = <<"user", "active", "gate", "session">> /\ r.proven
              \/ r.flow = "mfa" /\ r.todo = <<"user", "active", "code", "session">>
              \/ r.flow = "magic" /\ r.todo = <<"user", "active", "session">>
         /\ Head(r.todo) = "compare" => r.flow = "password" /\ r.todo = <<"compare", "active", "gate", "session">>
         /\ Head(r.todo) = "factor" =>
              \/ r.flow = "otp" /\ r.todo = <<"factor", "user", "active", "gate", "session">>
              \/ r.flow = "magic" /\ r.todo = <<"factor", "user", "active", "session">>
         /\ Head(r.todo) = "active" =>
              \/ r.flow \in {"password", "otp"} /\ r.todo = <<"active", "gate", "session">> /\ r.proven
              \/ r.flow = "mfa" /\ r.todo = <<"active", "code", "session">>
              \/ r.flow = "magic" /\ r.todo = <<"active", "session">>
         /\ Head(r.todo) = "gate" =>
              r.flow \in {"password", "otp"} /\ r.todo = <<"gate", "session">> /\ r.proven /\ r.alive
         /\ Head(r.todo) = "code" => r.flow = "mfa" /\ r.todo = <<"code", "session">> /\ r.alive
         /\ Head(r.todo) = "session" =>
              /\ r.todo = <<"session">>
              /\ r.flow \in {"password", "otp"} => r.open
              /\ r.flow \in {"password", "otp", "mfa", "magic"} => r.alive
  BY DEF LoginStage

\* A step of one call that leaves the account alone.
LEMMA LoginMoves ==
  ASSUME LoginInv, NEW c \in OneCall, NEW n \in CallRecord, LoginStage(n), Informed(n),
         call' = [call EXCEPT ![c] = n], Logins!Kept
  PROVE  LoginInv'
<1>1. call' \in [OneCall -> CallRecord] /\ \A k \in OneCall : call'[k] = IF k = c THEN n ELSE call[k]
      BY DEF LoginInv
<1>2. UNCHANGED <<exists, active, mfa, password, sessions, resetTo, switches>>
      BY DEF Logins!Kept
<1>3. \A k \in OneCall : LoginStage(call'[k]) /\ Informed(call'[k])
      BY <1>1 DEF LoginInv
<1>4. \A k \in OneCall : Informed(call[k])'
      BY <1>2, <1>3 DEF Informed
<1>5. \A k \in OneCall : LoginStage(call[k])'
      BY <1>3 DEF LoginStage
<1> QED BY <1>1, <1>2, <1>4, <1>5 DEF LoginInv, Logins!SecondFactorAsked, Logins!DisabledStaysOut

\* A call that ends.
LEMMA LoginEnds ==
  ASSUME LoginInv, NEW c \in OneCall, Logins!Ends(c), Logins!Kept
  PROVE  LoginInv'
  BY IdleIs, LoginMoves DEF Logins!Ends

\* A call begins with the first step of its flow.
LEMMA LoginBegins ==
  ASSUME LoginInv, NEW c \in OneCall, NEW m \in {"register", "password", "otp", "mfa", "magic"},
         Logins!Begin(c, m)
  PROVE  LoginInv'
<1> DEFINE n == [Logins!Idle EXCEPT !.flow = m, !.todo = Logins!Steps[m], !.alive = active]
<1>1. call' = [call EXCEPT ![c] = n] /\ Logins!Kept
      BY DEF Logins!Begin, Logins!Kept
<1>2. /\ m = "register" => Logins!Steps[m] = <<"create", "session">>
      /\ m = "password" => Logins!Steps[m] = <<"user", "compare", "active", "gate", "session">>
      /\ m = "otp" => Logins!Steps[m] = <<"factor", "user", "active", "gate", "session">>
      /\ m = "mfa" => Logins!Steps[m] = <<"user", "active", "code", "session">>
      /\ m = "magic" => Logins!Steps[m] = <<"factor", "user", "active", "session">>
      BY DEF Logins!Steps, Logins!register, Logins!loginPassword, Logins!loginOtp, Logins!verifyMfaLogin,
             Logins!redeemMagicLink
<1>3. Logins!Steps[m] \in Seq(Step)
  <2>1. /\ <<"create", "session">> \in Seq(Step)
        /\ <<"user", "compare", "active", "gate", "session">> \in Seq(Step)
        /\ <<"factor", "user", "active", "gate", "session">> \in Seq(Step)
        /\ <<"user", "active", "code", "session">> \in Seq(Step)
        /\ <<"factor", "user", "active", "session">> \in Seq(Step)
        BY DEF Step
  <2> QED BY <1>2, <2>1
<1>4. /\ Logins!Idle.seen \in Seen /\ ~Logins!Idle.seen.active /\ ~Logins!Idle.proven
      BY DEF Logins!Idle, Seen
<1>5. /\ n \in CallRecord /\ n.flow = m /\ n.todo = Logins!Steps[m] /\ n.alive = active
      /\ n.seen = Logins!Idle.seen /\ n.proven = Logins!Idle.proven
      BY <1>3, IdleIs DEF CallRecord, Flows, LoginInv
<1> HIDE DEF n
<1>6. LoginStage(n)
      BY <1>2, <1>5 DEF LoginStage
<1>7. Informed(n)
      BY <1>4, <1>5 DEF Informed
<1> QED BY <1>1, <1>5, <1>6, <1>7, LoginMoves

\* findUser: the document read shows an enabled account only while there is one.
LEMMA LoginReads ==
  ASSUME LoginInv, NEW c \in OneCall, Logins!ReadUser(c)
  PROVE  LoginInv'
<1> DEFINE r == call[c]
           n == [r EXCEPT !.seen = Logins!Document]
<1>1. r \in CallRecord /\ LoginStage(r) /\ Informed(r) /\ r.todo # <<>> /\ Head(r.todo) = "user"
      BY DEF LoginInv, Logins!ReadUser, Logins!At
<1>2. CASE Logins!Ends(c)
      BY <1>2, LoginEnds DEF Logins!ReadUser
<1>3. CASE Logins!Goes(c, n)
  <2>1. Logins!Document \in Seen /\ Logins!Document.active = active
        BY DEF Logins!Document, Seen, LoginInv
  <2>2. /\ n \in CallRecord /\ n.todo = r.todo /\ n.flow = r.flow /\ n.seen.active = active
        /\ n.proven = r.proven /\ n.open = r.open /\ n.alive = r.alive
        BY <1>1, <2>1 DEF CallRecord
  <2> HIDE DEF n, r
  <2>3. \/ r.flow = "password" /\ r.todo = <<"user", "compare", "active", "gate", "session">>
        \/ r.flow = "otp" /\ r.todo = <<"user", "active", "gate", "session">> /\ r.proven
        \/ r.flow = "mfa" /\ r.todo = <<"user", "active", "code", "session">>
        \/ r.flow = "magic" /\ r.todo = <<"user", "active", "session">>
        BY <1>1, LoginHead
  <2>4. /\ r.flow = "password" => Tail(r.todo) = <<"compare", "active", "gate", "session">>
        /\ r.flow = "otp" => Tail(r.todo) = <<"active", "gate", "session">>
        /\ r.flow = "mfa" => Tail(r.todo) = <<"active", "code", "session">>
        /\ r.flow = "magic" => Tail(r.todo) = <<"active", "session">>
        BY <2>3, Tails
  <2>n. Len(r.todo) # 1
        BY <2>3, Tails
  <2>5. /\ Logins!Done(n) \in CallRecord /\ Logins!Done(n).todo = Tail(r.todo)
        /\ Logins!Done(n).flow = n.flow /\ Logins!Done(n).seen = n.seen
        /\ Logins!Done(n).proven = n.proven /\ Logins!Done(n).open = n.open
        /\ Logins!Done(n).alive = n.alive
        BY <1>1, <2>2, <2>n, DoneIs
  <2>6. LoginStage(Logins!Done(n))
        BY <2>2, <2>3, <2>4, <2>5 DEF LoginStage
  <2>7. Informed(Logins!Done(n))
        BY <1>1, <2>2, <2>3, <2>5 DEF Informed
  <2> QED BY <1>3, <2>5, <2>6, <2>7, LoginMoves DEF Logins!ReadUser, Logins!Goes
<1> QED BY <1>2, <1>3 DEF Logins!ReadUser

\* The first factor: from here on it counts whether the second one is off.
LEMMA LoginProves ==
  ASSUME LoginInv, NEW c \in OneCall, Logins!Factor(c) \/ Logins!Compare(c) \/ Logins!VerifyCode(c)
  PROVE  LoginInv'
<1> DEFINE r == call[c]
           n == Logins!Proven(r)
<1>1. /\ r \in CallRecord /\ LoginStage(r) /\ Informed(r) /\ r.todo # <<>>
      /\ Head(r.todo) \in {"factor", "compare", "code"} /\ Logins!Kept
      BY DEF LoginInv, Logins!Factor, Logins!Compare, Logins!VerifyCode, Logins!At
<1>2. CASE Logins!Ends(c)
      BY <1>1, <1>2, LoginEnds
<1>3. CASE Logins!Goes(c, n)
  <2>0. mfa \in BOOLEAN
        BY DEF LoginInv
  <2>1. (~mfa) \in BOOLEAN
        BY <2>0
  <2>2. /\ n \in CallRecord /\ n.todo = r.todo /\ n.flow = r.flow /\ n.seen = r.seen
        /\ n.proven /\ n.open = ~mfa /\ n.alive = r.alive
        BY <1>1, <2>1 DEF CallRecord, Logins!Proven
  <2> HIDE DEF n, r
  <2>3. \/ r.flow = "password" /\ r.todo = <<"compare", "active", "gate", "session">>
        \/ r.flow = "otp" /\ r.todo = <<"factor", "user", "active", "gate", "session">>
        \/ r.flow = "magic" /\ r.todo = <<"factor", "user", "active", "session">>
        \/ r.flow = "mfa" /\ r.todo = <<"code", "session">> /\ r.alive
        BY <1>1, LoginHead
  <2>4. /\ r.flow = "password" => Tail(r.todo) = <<"active", "gate", "session">>
        /\ r.flow = "otp" => Tail(r.todo) = <<"user", "active", "gate", "session">>
        /\ r.flow = "magic" => Tail(r.todo) = <<"user", "active", "session">>
        /\ r.flow = "mfa" => Tail(r.todo) = <<"session">>
        BY <2>3, Tails
  <2>5. Len(r.todo) # 1
        BY <2>3, Tails
  <2>6. /\ Logins!Done(n) \in CallRecord /\ Logins!Done(n).todo = Tail(r.todo)
        /\ Logins!Done(n).flow = n.flow /\ Logins!Done(n).seen = n.seen
        /\ Logins!Done(n).proven = n.proven /\ Logins!Done(n).open = n.open
        /\ Logins!Done(n).alive = n.alive
        BY <1>1, <2>2, <2>5, DoneIs, ZenonT(30)
  <2>7. LoginStage(Logins!Done(n))
        BY <2>2, <2>3, <2>4, <2>6 DEF LoginStage
  <2>8. Informed(Logins!Done(n))
        BY <1>1, <2>2, <2>3, <2>6 DEF Informed
  <2> QED BY <1>1, <1>3, <2>6, <2>7, <2>8, LoginMoves DEF Logins!Goes
<1> QED BY <1>2, <1>3 DEF Logins!Factor, Logins!Compare, Logins!VerifyCode

\* The checks of isActive and of the gate: who passes saw an enabled account, or no second
\* factor.
LEMMA LoginPasses ==
  ASSUME LoginInv, NEW c \in OneCall, Logins!CheckActive(c) \/ Logins!PassGate(c)
  PROVE  LoginInv'
<1> DEFINE r == call[c]
<1>1. /\ r \in CallRecord /\ LoginStage(r) /\ Informed(r) /\ r.todo # <<>>
      /\ Head(r.todo) \in {"active", "gate"} /\ Logins!Kept
      BY DEF LoginInv, Logins!CheckActive, Logins!PassGate, Logins!At
<1>2. CASE Logins!Ends(c)
      BY <1>1, <1>2, LoginEnds
<1>3. CASE /\ Logins!Goes(c, r) /\ (Head(r.todo) = "active" => r.seen.active)
           /\ (Head(r.todo) = "gate" => ~mfa)
  <2> HIDE DEF r
  <2>1. /\ Head(r.todo) = "active" => r.alive
        /\ Head(r.todo) = "gate" => r.open
        BY <1>1, <1>3, LoginHead DEF Informed
  <2>2. \/ r.flow \in {"password", "otp"} /\ r.todo = <<"active", "gate", "session">> /\ r.proven /\ r.alive
        \/ r.flow = "mfa" /\ r.todo = <<"active", "code", "session">> /\ r.alive
        \/ r.flow = "magic" /\ r.todo = <<"active", "session">> /\ r.alive
        \/ r.flow \in {"password", "otp"} /\ r.todo = <<"gate", "session">> /\ r.open /\ r.alive
        BY <1>1, <2>1, LoginHead
  <2>3. \/ r.flow \in {"password", "otp"} /\ Tail(r.todo) = <<"gate", "session">> /\ r.proven /\ r.alive
        \/ r.flow = "mfa" /\ Tail(r.todo) = <<"code", "session">> /\ r.alive
        \/ r.flow = "magic" /\ Tail(r.todo) = <<"session">> /\ r.alive
        \/ r.flow \in {"password", "otp"} /\ Tail(r.todo) = <<"session">> /\ r.open /\ r.alive
        BY <2>2, Tails
  <2>4. Len(r.todo) # 1
        BY <2>2, Tails
  <2>5. /\ Logins!Done(r) \in CallRecord /\ Logins!Done(r).todo = Tail(r.todo)
        /\ Logins!Done(r).flow = r.flow /\ Logins!Done(r).seen = r.seen
        /\ Logins!Done(r).proven = r.proven /\ Logins!Done(r).open = r.open
        /\ Logins!Done(r).alive = r.alive
        BY <1>1, <2>4, DoneIs
  <2>6. LoginStage(Logins!Done(r))
        BY <2>3, <2>5 DEF LoginStage
  <2>7. Informed(Logins!Done(r))
        BY <1>1, <2>2, <2>5 DEF Informed
  <2> QED BY <1>1, <1>3, <2>5, <2>6, <2>7, LoginMoves DEF Logins!Goes
<1> QED
    BY <1>1, <1>2, <1>3
    DEF Logins!CheckActive, Logins!PassGate, Logins!At, Logins!Enabled, Logins!Gate

\* A session carries what its call has shown.
LEMMA LoginOpens ==
  ASSUME LoginInv, NEW c \in OneCall, Logins!OpenSession(c)
  PROVE  LoginInv'
<1> DEFINE r == call[c]
           s == [by |-> r.flow, password |-> r.seen.password, open |-> r.open, alive |-> r.alive,
                 crossed |-> r.crossed]
<1>1. /\ r \in CallRecord /\ LoginStage(r) /\ Informed(r) /\ r.todo # <<>> /\ Head(r.todo) = "session"
      BY DEF LoginInv, Logins!OpenSession, Logins!At
<1>2. /\ r.todo = <<"session">> /\ r.flow # "reset"
      /\ r.flow \in {"password", "otp"} => r.open
      /\ r.flow \in {"password", "otp", "mfa", "magic"} => r.alive
      BY <1>1, LoginHead
<1>3. /\ sessions' = sessions \cup {s} /\ resetTo' = resetTo /\ call' = [call EXCEPT ![c] = Logins!Done(r)]
      /\ UNCHANGED <<exists, active, mfa, password, switches>>
      BY <1>2 DEF Logins!OpenSession, Logins!Goes
<1>4. Logins!Done(r) = Logins!Idle
  <2>1. Len(r.todo) = 1
        BY <1>2
  <2> QED BY <1>1, <2>1, DoneIs
<1>5. s.by = r.flow /\ s.open = r.open /\ s.alive = r.alive
      OBVIOUS
<1> HIDE DEF r, s
<1>6. /\ call' \in [OneCall -> CallRecord]
      /\ \A k \in OneCall : call'[k] = IF k = c THEN Logins!Idle ELSE call[k]
      BY <1>3, <1>4, IdleIs DEF LoginInv
<1>7. \A k \in OneCall : LoginStage(call'[k]) /\ Informed(call'[k])
      BY <1>6, IdleIs DEF LoginInv
<1>8. \A k \in OneCall : LoginStage(call[k])' /\ Informed(call[k])'
      BY <1>3, <1>7 DEF LoginStage, Informed
<1>9. Logins!SecondFactorAsked' /\ Logins!DisabledStaysOut'
      BY <1>2, <1>3, <1>5 DEF LoginInv, Logins!SecondFactorAsked, Logins!DisabledStaysOut
<1> QED BY <1>3, <1>6, <1>8, <1>9 DEF LoginInv

\* A call learns of the account what helps it: it is still where it was.
LEMMA StageRaised ==
  ASSUME NEW r \in CallRecord, NEW n \in CallRecord, LoginStage(r), n.flow = r.flow, n.todo = r.todo,
         r.proven => n.proven, r.open => n.open, r.alive => n.alive
  PROVE  LoginStage(n)
  BY DEF LoginStage

\* register creates the account, enabled.
LEMMA LoginCreates ==
  ASSUME LoginInv, NEW c \in OneCall, Logins!Create(c)
  PROVE  LoginInv'
<1> DEFINE r == call[c]
           n == [r EXCEPT !.alive = TRUE]
<1>1. /\ r \in CallRecord /\ LoginStage(r) /\ Informed(r) /\ r.todo # <<>> /\ Head(r.todo) = "create"
      BY DEF LoginInv, Logins!Create, Logins!At
<1>2. CASE exists
      BY <1>2, LoginEnds DEF Logins!Create, Logins!Kept
<1>3. CASE ~exists
  <2>1. /\ active' = TRUE /\ exists' = TRUE /\ password' = 1 /\ UNCHANGED <<mfa, sessions, resetTo, switches>>
        /\ call' = [k \in OneCall |->
                       IF k = c THEN Logins!Done(n)
                       ELSE IF call[k] # Logins!Idle THEN [call[k] EXCEPT !.alive = TRUE] ELSE Logins!Idle]
        BY <1>3 DEF Logins!Create
  <2>2. active' \in BOOLEAN /\ exists' \in BOOLEAN
        BY <2>1, Zenon
  <2>3. /\ n \in CallRecord /\ n.flow = r.flow /\ n.todo = r.todo /\ n.alive /\ n.proven = r.proven
        /\ n.open = r.open
        BY <1>1 DEF CallRecord
  <2>4. r.flow = "register" /\ r.todo = <<"create", "session">>
        BY <1>1, LoginHead
  <2> HIDE DEF r, n
  <2>5. /\ Logins!Done(n) \in CallRecord /\ Logins!Done(n).todo = <<"session">> /\ Logins!Done(n).flow = "register"
        /\ Logins!Done(n).alive /\ Logins!Done(n).proven = r.proven /\ Logins!Done(n).open = r.open
    <3>1. n.todo # <<>> /\ Len(n.todo) # 1 /\ Tail(n.todo) = <<"session">>
          BY <1>1, <2>3, <2>4, Tails
    <3> QED BY <2>3, <2>4, <3>1, DoneIs
  <2>6. LoginStage(Logins!Done(n))
        BY <2>5 DEF LoginStage
  <2>7. ASSUME NEW k \in OneCall
        PROVE  /\ call'[k] \in CallRecord /\ LoginStage(call'[k])
               /\ call'[k].flow = "none" => call'[k] = Logins!Idle
               /\ call'[k].flow # "none" => call'[k].alive
               /\ call'[k].seen.active => call'[k].alive
               /\ call'[k].proven /\ ~mfa => call'[k].open
    <3>1. call[k] \in CallRecord /\ LoginStage(call[k]) /\ Informed(call[k])
          BY DEF LoginInv
    <3>2. CASE k = c
          BY <1>1, <2>1, <2>5, <2>6, <3>2 DEF Informed
    <3>3. CASE k # c /\ call[k] # Logins!Idle
      <4> DEFINE m == [call[k] EXCEPT !.alive = TRUE]
      <4>1. /\ m \in CallRecord /\ m.flow = call[k].flow /\ m.todo = call[k].todo /\ m.alive
            /\ m.proven = call[k].proven /\ m.open = call[k].open
            BY <3>1 DEF CallRecord
      <4>2. call'[k] = m
            BY <2>1, <3>3
      <4>3. call[k].flow # "none"
            BY <3>1, <3>3 DEF Informed
      <4> HIDE DEF m
      <4> QED BY <3>1, <4>1, <4>2, <4>3, StageRaised DEF Informed
    <3>4. CASE k # c /\ call[k] = Logins!Idle
      <4>1. call'[k] = Logins!Idle
            BY <2>1, <3>4
      <4> QED BY <4>1, IdleIs DEF Logins!Idle
    <3> QED BY <3>2, <3>3, <3>4
  <2>8. call' \in [OneCall -> CallRecord]
        BY <2>1, <2>7
  <2>9. \A k \in OneCall : LoginStage(call[k])' /\ Informed(call[k])'
        BY <2>1, <2>7 DEF LoginStage, Informed
  <2>10. Logins!SecondFactorAsked' /\ Logins!DisabledStaysOut'
        BY <2>1 DEF LoginInv, Logins!SecondFactorAsked, Logins!DisabledStaysOut
  <2> QED BY <2>1, <2>2, <2>8, <2>9, <2>10 DEF LoginInv
<1> QED BY <1>2, <1>3 DEF LoginInv

\* An administrator changes isActive: the calls under way know of an enabled account.
LEMMA LoginSetActive ==
  ASSUME LoginInv, NEW b \in BOOLEAN, Logins!SetActive(b)
  PROVE  LoginInv'
<1>1. /\ active' = b /\ UNCHANGED <<exists, mfa, password, sessions, resetTo>> /\ switches' \in 0..MaxSwitches
      /\ call' = [c \in OneCall |-> [call[c] EXCEPT !.alive = call[c].alive \/ (b /\ call[c] # Logins!Idle)]]
      BY FlowsAssumption DEF LoginInv, Logins!SetActive, Logins!Switch
<1>2. ASSUME NEW k \in OneCall
      PROVE  /\ call'[k] \in CallRecord /\ LoginStage(call'[k])
             /\ call'[k].flow = "none" => call'[k] = Logins!Idle
             /\ call'[k].flow # "none" /\ b => call'[k].alive
             /\ call'[k].seen.active => call'[k].alive
             /\ call'[k].proven /\ ~mfa => call'[k].open
  <2> DEFINE v == call[k].alive \/ (b /\ call[k] # Logins!Idle)
             m == [call[k] EXCEPT !.alive = v]
  <2>1. call[k] \in CallRecord /\ LoginStage(call[k]) /\ Informed(call[k])
        BY DEF LoginInv
  <2>2. call'[k] = m
        BY <1>1
  <2>3. v \in BOOLEAN
        BY Zenon
  <2>4. /\ m \in CallRecord /\ m.flow = call[k].flow /\ m.todo = call[k].todo /\ m.alive = v
        /\ m.proven = call[k].proven /\ m.open = call[k].open /\ m.seen = call[k].seen
        /\ m.crossed = call[k].crossed
        BY <2>1, <2>3 DEF CallRecord
  <2>5. (call[k].alive => v) /\ (b /\ call[k] # Logins!Idle => v) /\ (v => call[k].alive \/ call[k] # Logins!Idle)
        OBVIOUS
  <2>6. ASSUME call[k] = Logins!Idle PROVE m = Logins!Idle
    <3>1. v = FALSE
          BY <2>6 DEF Logins!Idle
    <3> QED BY <2>6, <3>1, IdleKept
  <2> HIDE DEF m, v
  <2> QED BY <2>1, <2>2, <2>4, <2>5, <2>6, StageRaised, IdleIs DEF Informed
<1>3. call' \in [OneCall -> CallRecord]
      BY <1>1, <1>2
<1>4. \A k \in OneCall : LoginStage(call[k])' /\ Informed(call[k])'
      BY <1>1, <1>2 DEF LoginStage, Informed
<1>5. Logins!SecondFactorAsked' /\ Logins!DisabledStaysOut'
      BY <1>1 DEF LoginInv, Logins!SecondFactorAsked, Logins!DisabledStaysOut
<1> QED BY <1>1, <1>3, <1>4, <1>5 DEF LoginInv

\* The second factor is switched: a call behind its first factor knows when it is off.
LEMMA LoginSetMfa ==
  ASSUME LoginInv, NEW b \in BOOLEAN, Logins!SetMfa(b)
  PROVE  LoginInv'
<1>1. /\ mfa' = b /\ UNCHANGED <<exists, active, password, sessions, resetTo>> /\ switches' \in 0..MaxSwitches
      /\ call' = [c \in OneCall |-> [call[c] EXCEPT !.open = call[c].open \/ (~b /\ call[c].proven)]]
      BY FlowsAssumption DEF LoginInv, Logins!SetMfa, Logins!Switch
<1>2. ASSUME NEW k \in OneCall
      PROVE  /\ call'[k] \in CallRecord /\ LoginStage(call'[k])
             /\ call'[k].flow = "none" => call'[k] = Logins!Idle
             /\ call'[k].flow # "none" /\ active => call'[k].alive
             /\ call'[k].seen.active => call'[k].alive
             /\ call'[k].proven /\ ~b => call'[k].open
  <2> DEFINE v == call[k].open \/ (~b /\ call[k].proven)
             m == [call[k] EXCEPT !.open = v]
  <2>1. call[k] \in CallRecord /\ LoginStage(call[k]) /\ Informed(call[k])
        BY DEF LoginInv
  <2>2. call'[k] = m
        BY <1>1
  <2>3. v \in BOOLEAN
        BY Zenon
  <2>4. /\ m \in CallRecord /\ m.flow = call[k].flow /\ m.todo = call[k].todo /\ m.open = v
        /\ m.proven = call[k].proven /\ m.alive = call[k].alive /\ m.seen = call[k].seen
        BY <2>1, <2>3 DEF CallRecord
  <2>5. (call[k].open => v) /\ (~b /\ call[k].proven => v)
        OBVIOUS
  <2>6. ASSUME call[k] = Logins!Idle PROVE m = Logins!Idle
    <3>1. v = FALSE
          BY <2>6 DEF Logins!Idle
    <3> QED BY <2>6, <3>1, IdleKept
  <2> HIDE DEF m, v
  <2> QED BY <2>1, <2>2, <2>4, <2>5, <2>6, StageRaised, IdleIs DEF Informed
<1>3. call' \in [OneCall -> CallRecord]
      BY <1>1, <1>2
<1>4. \A k \in OneCall : LoginStage(call[k])' /\ Informed(call[k])'
      BY <1>1, <1>2 DEF LoginStage, Informed
<1>5. Logins!SecondFactorAsked' /\ Logins!DisabledStaysOut'
      BY <1>1 DEF LoginInv, Logins!SecondFactorAsked, Logins!DisabledStaysOut
<1> QED BY <1>1, <1>3, <1>4, <1>5 DEF LoginInv

\* Every step of the logins keeps the invariant.
LEMMA LoginStep == LoginInv /\ [Logins!Next]_(Logins!vars) => LoginInv'
<1> SUFFICES ASSUME LoginInv, [Logins!Next]_(Logins!vars) PROVE LoginInv'
    OBVIOUS
<1>1. CASE UNCHANGED Logins!vars
      BY <1>1 DEF Logins!vars, LoginInv, LoginStage, Informed, Logins!SecondFactorAsked, Logins!DisabledStaysOut
<1>2. ASSUME NEW c \in OneCall, Logins!WritePassword(c) \/ Logins!RevokeAll(c) PROVE FALSE
  <2>1. /\ call[c] \in CallRecord /\ LoginStage(call[c]) /\ call[c].todo # <<>>
        /\ Head(call[c].todo) \in {"write", "revoke"}
        BY <1>2 DEF LoginInv, Logins!WritePassword, Logins!RevokeAll, Logins!At
  <2> QED BY <2>1, LoginHead
<1>3. ASSUME NEW c \in OneCall, Logins!Fail(c) PROVE LoginInv'
      BY <1>3, LoginEnds DEF Logins!Fail
<1> QED
    BY <1>1, <1>2, <1>3, LoginBegins, LoginCreates, LoginReads, LoginProves, LoginPasses, LoginOpens,
       LoginSetActive, LoginSetMfa
    DEF Logins!Next

\* At the start nobody is signed in.
LEMMA InitLogin == Logins!Init => LoginInv
<1> SUFFICES ASSUME Logins!Init PROVE LoginInv
    OBVIOUS
<1>1. exists \in BOOLEAN /\ active \in BOOLEAN /\ mfa \in BOOLEAN
      BY Zenon DEF Logins!Init
<1>2. password \in 0..1 /\ resetTo = 0 /\ switches \in 0..MaxSwitches
      BY FlowsAssumption DEF Logins!Init
<1>3. call \in [OneCall -> CallRecord] /\ \A c \in OneCall : call[c] = Logins!Idle
      BY IdleIs DEF Logins!Init
<1>4. sessions = {}
      BY DEF Logins!Init
<1> QED BY <1>1, <1>2, <1>3, <1>4, IdleIs DEF LoginInv, Logins!SecondFactorAsked, Logins!DisabledStaysOut

-----------------------------------------------------------------------------
(* Password changes *)

ResetStage(r) ==
  \/ r.flow = "none" /\ r.todo = <<>>
  \/ /\ r.flow = "password"
     /\ r.todo \in {<<"user", "compare", "active", "gate", "session">>, <<"compare", "active", "gate", "session">>,
                    <<"active", "gate", "session">>, <<"gate", "session">>, <<"session">>}
  \/ /\ r.flow = "reset"
     /\ r.todo \in {<<"factor", "user", "write", "revoke", "session">>, <<"user", "write", "revoke", "session">>,
                    <<"write", "revoke", "session">>, <<"revoke", "session">>, <<"session">>}
  \/ /\ r.flow = "change"
     /\ r.todo \in {<<"user", "compare", "write">>, <<"compare", "write">>, <<"write">>}

\* A login that has read the account; a reset that has written the password; one that
\* has revoked the sessions.
Reader(r) == r.flow = "password" /\ r.todo # <<"user", "compare", "active", "gate", "session">>
Writer(r) == r.flow = "reset" /\ r.todo \in {<<"revoke", "session">>, <<"session">>}
Revoker(r) == r.flow = "reset" /\ r.todo = <<"session">>

\* The logins under way that have read a password before w overlapped a reset, and so did
\* those that opened a session.
Overlapped(w) ==
  \A k \in TwoCalls : Reader(call[k]) /\ call[k].seen.password < w => call[k].crossed
Ended(w) == \A s \in sessions : s.by = "password" /\ s.password < w => s.crossed

ResetInv ==
  /\ exists \in BOOLEAN /\ active \in BOOLEAN /\ mfa \in BOOLEAN
  /\ password \in 0..MaxPasswords /\ resetTo \in Nat /\ resetTo <= password /\ switches = 0
  /\ call \in [TwoCalls -> CallRecord]
  /\ \A c \in TwoCalls : /\ ResetStage(call[c])
                         /\ call[c].flow = "none" => call[c] = Logins!Idle
                         /\ call[c].seen.password <= password
  /\ \A c \in TwoCalls : /\ Writer(call[c]) => Overlapped(call[c].seen.password)
                         /\ Revoker(call[c]) => Ended(call[c].seen.password)
  /\ Overlapped(resetTo) /\ Ended(resetTo)

\* The two instances share their calls.
LEMMA SameCalls ==
  Resets!Idle = Logins!Idle /\ \A r : Resets!Done(r) = Logins!Done(r) /\ Resets!Proven(r) = Logins!Proven(r)
  BY DEF Resets!Idle, Logins!Idle, Resets!Done, Logins!Done, Resets!Proven, Logins!Proven

\* The rests of the flows that change a password.
LEMMA ResetTails ==
  /\ Tail(<<"factor", "user", "write", "revoke", "session">>) = <<"user", "write", "revoke", "session">>
  /\ Tail(<<"user", "write", "revoke", "session">>) = <<"write", "revoke", "session">>
  /\ Tail(<<"write", "revoke", "session">>) = <<"revoke", "session">>
  /\ Tail(<<"revoke", "session">>) = <<"session">>
  /\ Tail(<<"user", "compare", "write">>) = <<"compare", "write">>
  /\ Tail(<<"compare", "write">>) = <<"write">>
  /\ Len(<<"factor", "user", "write", "revoke", "session">>) # 1
  /\ Len(<<"user", "write", "revoke", "session">>) # 1
  /\ Len(<<"write", "revoke", "session">>) # 1
  /\ Len(<<"revoke", "session">>) # 1
  /\ Len(<<"user", "compare", "write">>) # 1
  /\ Len(<<"compare", "write">>) # 1
  /\ Len(<<"write">>) = 1 /\ Len(<<"session">>) = 1
  OBVIOUS

\* Where a call may be, by its next step.
LEMMA ResetHead ==
  ASSUME NEW r \in CallRecord, ResetStage(r), r.todo # <<>>
  PROVE  /\ r.flow # "none" /\ Head(r.todo) \notin {"create", "code"}
         /\ Head(r.todo) = "user" =>
              \/ r.flow = "password" /\ r.todo = <<"user", "compare", "active", "gate", "session">>
              \/ r.flow = "reset" /\ r.todo = <<"user", "write", "revoke", "session">>
              \/ r.flow = "change" /\ r.todo = <<"user", "compare", "write">>
         /\ Head(r.todo) = "compare" =>
              \/ r.flow = "password" /\ r.todo = <<"compare", "active", "gate", "session">>
              \/ r.flow = "change" /\ r.todo = <<"compare", "write">>
         /\ Head(r.todo) = "factor" => r.flow = "reset" /\ r.todo = <<"factor", "user", "write", "revoke", "session">>
         /\ Head(r.todo) = "active" => r.flow = "password" /\ r.todo = <<"active", "gate", "session">>
         /\ Head(r.todo) = "gate" => r.flow = "password" /\ r.todo = <<"gate", "session">>
         /\ Head(r.todo) = "write" =>
              \/ r.flow = "reset" /\ r.todo = <<"write", "revoke", "session">>
              \/ r.flow = "change" /\ r.todo = <<"write">>
         /\ Head(r.todo) = "revoke" => r.flow = "reset" /\ r.todo = <<"revoke", "session">>
         /\ Head(r.todo) = "session" => r.flow \in {"password", "reset"} /\ r.todo = <<"session">>
  BY DEF ResetStage

\* A step of one call that leaves the account and the sessions alone: what it has read is
\* the password of now, or what it had read before.
LEMMA ResetMoves ==
  ASSUME ResetInv, NEW c \in TwoCalls, NEW n \in CallRecord, ResetStage(n), ~Writer(n),
         n.flow = "none" => n = Logins!Idle, n.seen.password <= password,
         Reader(n) => \/ n.seen.password = password
                      \/ Reader(call[c]) /\ n.seen = call[c].seen /\ n.crossed = call[c].crossed,
         call' = [call EXCEPT ![c] = n], Resets!Kept
  PROVE  ResetInv'
<1>1. call' \in [TwoCalls -> CallRecord] /\ \A k \in TwoCalls : call'[k] = IF k = c THEN n ELSE call[k]
      BY DEF ResetInv
<1>2. UNCHANGED <<exists, active, mfa, password, sessions, resetTo, switches>>
      BY DEF Resets!Kept
<1>3. ASSUME NEW w \in Nat, w <= password, Overlapped(w)
      PROVE  \A k \in TwoCalls : Reader(call'[k]) /\ call'[k].seen.password < w => call'[k].crossed
  <2>1. password \in Nat /\ n.seen.password \in Nat
        BY FlowsAssumption DEF ResetInv, CallRecord, Seen
  <2> QED BY <1>1, <1>3, <2>1 DEF Overlapped
<1>4. \A k \in TwoCalls : /\ ResetStage(call'[k]) /\ (call'[k].flow = "none" => call'[k] = Logins!Idle)
                          /\ call'[k].seen.password <= password
      BY <1>1 DEF ResetInv
<1>5. \A k \in TwoCalls : ResetStage(call[k])'
      BY <1>4 DEF ResetStage
<1>6. Overlapped(resetTo)' /\ Ended(resetTo)'
      BY <1>2, <1>3 DEF ResetInv, Overlapped, Ended, Reader
<1>7. ASSUME NEW k \in TwoCalls
      PROVE  /\ Writer(call[k])' => Overlapped(call[k].seen.password)'
             /\ Revoker(call[k])' => Ended(call[k].seen.password)'
  <2>1. CASE k = c
        BY <1>1, <2>1 DEF Writer, Revoker
  <2>2. CASE k # c
    <3>1. call'[k] = call[k] /\ call[k].seen.password \in Nat /\ call[k].seen.password <= password
          BY <1>1, <2>2 DEF ResetInv, CallRecord, Seen
    <3>2. /\ Writer(call[k]) => Overlapped(call[k].seen.password)
          /\ Revoker(call[k]) => Ended(call[k].seen.password)
          BY DEF ResetInv
    <3>3. Writer(call[k])' => Overlapped(call[k].seen.password)'
          BY <1>3, <3>1, <3>2 DEF Writer, Overlapped, Reader
    <3>4. Revoker(call[k])' => Ended(call[k].seen.password)'
          BY <1>2, <3>1, <3>2 DEF Revoker, Ended
    <3> QED BY <3>3, <3>4
  <2> QED BY <2>1, <2>2
<1> QED BY <1>1, <1>2, <1>4, <1>5, <1>6, <1>7 DEF ResetInv

\* A call that ends.
LEMMA ResetEnds ==
  ASSUME ResetInv, NEW c \in TwoCalls, Resets!Ends(c), Resets!Kept
  PROVE  ResetInv'
<1> DEFINE n == Logins!Idle
<1>1. n \in CallRecord /\ n.flow = "none" /\ n.todo = <<>> /\ n.seen.password = 0
      BY IdleIs DEF Logins!Idle
<1>2. password \in Nat
      BY FlowsAssumption DEF ResetInv
<1>3. call' = [call EXCEPT ![c] = n]
      BY SameCalls DEF Resets!Ends
<1>4. ResetStage(n) /\ ~Writer(n) /\ ~Reader(n)
      BY <1>1 DEF ResetStage, Writer, Reader
<1> HIDE DEF n
<1>5. n.flow = "none" => n = Logins!Idle
      BY DEF n
<1>6. n.seen.password <= password
      BY <1>1, <1>2
<1> QED BY <1>1, <1>3, <1>4, <1>5, <1>6, ResetMoves

\* A call begins with the first step of its flow.
LEMMA ResetBegins ==
  ASSUME ResetInv, NEW c \in TwoCalls, NEW m \in {"password", "reset", "change"}, Resets!Begin(c, m)
  PROVE  ResetInv'
<1> DEFINE n == [Logins!Idle EXCEPT !.flow = m, !.todo = Resets!Steps[m], !.alive = active]
<1>1. call' = [call EXCEPT ![c] = n] /\ Resets!Kept
      BY SameCalls DEF Resets!Begin, Resets!Kept
<1>2. /\ m = "password" => Resets!Steps[m] = <<"user", "compare", "active", "gate", "session">>
      /\ m = "reset" => Resets!Steps[m] = <<"factor", "user", "write", "revoke", "session">>
      /\ m = "change" => Resets!Steps[m] = <<"user", "compare", "write">>
      BY DEF Resets!Steps, Resets!loginPassword, Resets!resetPassword, Resets!changePassword
<1>3. Resets!Steps[m] \in Seq(Step)
  <2>1. /\ <<"user", "compare", "active", "gate", "session">> \in Seq(Step)
        /\ <<"factor", "user", "write", "revoke", "session">> \in Seq(Step)
        /\ <<"user", "compare", "write">> \in Seq(Step)
        BY DEF Step
  <2> QED BY <1>2, <2>1
<1>4. Logins!Idle.seen.password = 0 /\ password \in Nat
      BY FlowsAssumption DEF Logins!Idle, ResetInv
<1>5. /\ n \in CallRecord /\ n.flow = m /\ n.todo = Resets!Steps[m] /\ n.seen = Logins!Idle.seen
      BY <1>3, IdleIs DEF CallRecord, Flows, ResetInv
<1> HIDE DEF n
<1>6. ResetStage(n)
      BY <1>2, <1>5 DEF ResetStage
<1>7. ~Writer(n) /\ ~Reader(n)
  <2>1. /\ <<"factor", "user", "write", "revoke", "session">> # <<"revoke", "session">>
        /\ <<"factor", "user", "write", "revoke", "session">> # <<"session">>
        OBVIOUS
  <2> QED BY <1>2, <1>5, <2>1 DEF Writer, Reader
<1>8. n.flow # "none" /\ n.seen.password <= password
      BY <1>4, <1>5
<1> QED BY <1>1, <1>5, <1>6, <1>7, <1>8, ResetMoves

\* A call goes on: nothing it has read is older than before.
LEMMA ResetProceeds ==
  ASSUME ResetInv, NEW c \in TwoCalls, NEW n \in CallRecord, call[c].todo # <<>>,
         n.flow = call[c].flow, n.todo = call[c].todo, n.crossed = call[c].crossed,
         \/ n.seen.password = password /\ Head(n.todo) = "user"
         \/ n.seen = call[c].seen /\ Head(n.todo) \in {"factor", "compare", "active", "gate"},
         Resets!Goes(c, n), Resets!Kept
  PROVE  ResetInv'
<1> DEFINE r == call[c]
           d == Logins!Done(n)
<1>1. /\ r \in CallRecord /\ ResetStage(r) /\ r.seen.password <= password /\ password \in Nat
      BY FlowsAssumption DEF ResetInv
<1>2. call' = [call EXCEPT ![c] = d]
      BY SameCalls DEF Resets!Goes
<1>3. \/ r.flow = "password" /\ r.todo = <<"user", "compare", "active", "gate", "session">>
      \/ r.flow = "reset" /\ r.todo = <<"user", "write", "revoke", "session">>
      \/ r.flow = "change" /\ r.todo = <<"user", "compare", "write">>
      \/ r.flow = "password" /\ r.todo = <<"compare", "active", "gate", "session">>
      \/ r.flow = "change" /\ r.todo = <<"compare", "write">>
      \/ r.flow = "reset" /\ r.todo = <<"factor", "user", "write", "revoke", "session">>
      \/ r.flow = "password" /\ r.todo = <<"active", "gate", "session">>
      \/ r.flow = "password" /\ r.todo = <<"gate", "session">>
      BY <1>1, ResetHead
<1> HIDE DEF r
<1>4. Len(r.todo) # 1
      BY <1>3, Tails, ResetTails
<1>5. /\ d \in CallRecord /\ d.todo = Tail(r.todo) /\ d.flow = r.flow /\ d.seen = n.seen
      /\ d.crossed = r.crossed
      BY <1>1, <1>4, DoneIs DEF r
<1> HIDE DEF d
<1>6. \/ r.flow = "password" /\ d.todo = <<"compare", "active", "gate", "session">>
      \/ r.flow = "reset" /\ d.todo = <<"write", "revoke", "session">>
      \/ r.flow = "change" /\ d.todo = <<"compare", "write">>
      \/ r.flow = "password" /\ d.todo = <<"active", "gate", "session">>
      \/ r.flow = "change" /\ d.todo = <<"write">>
      \/ r.flow = "reset" /\ d.todo = <<"user", "write", "revoke", "session">>
      \/ r.flow = "password" /\ d.todo = <<"gate", "session">>
      \/ r.flow = "password" /\ d.todo = <<"session">>
      BY <1>3, <1>5, Tails, ResetTails, ZenonT(60)
<1>7. ResetStage(d) /\ ~Writer(d) /\ d.flow # "none"
  <2>1. /\ <<"write", "revoke", "session">> # <<"revoke", "session">>
        /\ <<"write", "revoke", "session">> # <<"session">>
        /\ <<"user", "write", "revoke", "session">> # <<"revoke", "session">>
        /\ <<"user", "write", "revoke", "session">> # <<"session">>
        OBVIOUS
  <2> QED BY <1>5, <1>6, <2>1 DEF ResetStage, Writer
<1>8. d.seen.password <= password
      BY <1>1, <1>5 DEF r
<1>9. Reader(d) => \/ d.seen.password = password
                   \/ Reader(r) /\ d.seen = r.seen /\ d.crossed = r.crossed
  <2>1. Head(<<"user", "compare", "active", "gate", "session">>) = "user"
        OBVIOUS
  <2> QED BY <1>3, <1>5, <2>1 DEF Reader, r
<1> QED BY <1>2, <1>5, <1>7, <1>8, <1>9, ResetMoves DEF r

\* The steps that read, compare and check.
LEMMA ResetChecks ==
  ASSUME ResetInv, NEW c \in TwoCalls,
         \/ Resets!ReadUser(c) \/ Resets!Factor(c) \/ Resets!Compare(c) \/ Resets!CheckActive(c)
         \/ Resets!PassGate(c)
  PROVE  ResetInv'
<1> DEFINE r == call[c]
<1>1. r \in CallRecord /\ r.todo # <<>> /\ Resets!Kept
      BY DEF ResetInv, Resets!ReadUser, Resets!Factor, Resets!Compare, Resets!CheckActive, Resets!PassGate,
             Resets!At
<1>2. CASE Resets!Ends(c)
      BY <1>1, <1>2, ResetEnds
<1>3. CASE Head(r.todo) = "user" /\ Resets!Goes(c, [r EXCEPT !.seen = Resets!Document])
  <2> DEFINE n == [r EXCEPT !.seen = Resets!Document]
  <2>1. Resets!Document \in Seen /\ Resets!Document.password = password
        BY FlowsAssumption DEF Resets!Document, Seen, ResetInv
  <2>2. /\ n \in CallRecord /\ n.flow = r.flow /\ n.todo = r.todo /\ n.crossed = r.crossed
        /\ n.seen.password = password
        BY <1>1, <2>1 DEF CallRecord
  <2>3. Resets!Goes(c, n) /\ Head(n.todo) = "user"
        BY <1>3, <2>2
  <2> HIDE DEF n
  <2> QED BY <1>1, <2>2, <2>3, ResetProceeds
<1>4. CASE Head(r.todo) \in {"factor", "compare"} /\ Resets!Goes(c, Resets!Proven(r))
  <2> DEFINE n == Resets!Proven(r)
  <2>1. mfa \in BOOLEAN
        BY DEF ResetInv
  <2>2. (~mfa) \in BOOLEAN
        BY <2>1
  <2>3. /\ n \in CallRecord /\ n.flow = r.flow /\ n.todo = r.todo /\ n.crossed = r.crossed
        /\ n.seen = r.seen
        BY <1>1, <2>2 DEF CallRecord, Resets!Proven
  <2>4. Resets!Goes(c, n) /\ Head(n.todo) \in {"factor", "compare"}
        BY <1>4, <2>3
  <2> HIDE DEF n
  <2> QED BY <1>1, <2>3, <2>4, ResetProceeds
<1>5. CASE Head(r.todo) \in {"active", "gate"} /\ Resets!Goes(c, r)
      BY <1>1, <1>5, ResetProceeds
<1> QED
    BY <1>2, <1>3, <1>4, <1>5
    DEF Resets!ReadUser, Resets!Factor, Resets!Compare, Resets!CheckActive, Resets!PassGate, Resets!At

\* What a write does to the other calls: a reset is known to those under way.
LEMMA ResetNotes ==
  ASSUME ResetInv, NEW c \in TwoCalls, Resets!WritePassword(c), NEW k \in TwoCalls, k # c
  PROVE  /\ call'[k] \in CallRecord /\ call'[k].flow = call[k].flow /\ call'[k].todo = call[k].todo
         /\ call'[k].seen = call[k].seen
         /\ call[k].crossed => call'[k].crossed
         /\ call[c].flow = "reset" /\ call[k].flow # "none" => call'[k].crossed
         /\ call[k].flow = "none" => call'[k] = Logins!Idle
<1> DEFINE b == call[k].crossed \/ (call[k] # Logins!Idle /\ call[c].flow = "reset")
           q == call[k]
<1>1. q \in CallRecord /\ (q.flow = "none" => q = Logins!Idle)
      BY DEF ResetInv
<1>2. call'[k] = [q EXCEPT !.crossed = b]
      BY SameCalls DEF Resets!WritePassword
<1>3. b \in BOOLEAN /\ (q.crossed => b) /\ (call[c].flow = "reset" /\ q.flow # "none" => b)
  <2>1. q.crossed \in BOOLEAN
        BY <1>1 DEF CallRecord
  <2>2. q.flow # "none" => q # Logins!Idle
        BY IdleIs
  <2> QED BY <2>1, <2>2
<1>4. q = Logins!Idle => (b = FALSE)
      BY DEF Logins!Idle
<1> HIDE DEF b, q
<1>5. q = Logins!Idle => call'[k] = Logins!Idle
      BY <1>2, <1>4, IdleKept
<1>6. /\ call'[k] \in CallRecord /\ call'[k].flow = q.flow /\ call'[k].todo = q.todo
      /\ call'[k].seen = q.seen /\ call'[k].crossed = b
      BY <1>1, <1>2, <1>3 DEF CallRecord
<1>7. q.crossed => call'[k].crossed
      BY <1>3, <1>6
<1>8. call[c].flow = "reset" /\ q.flow # "none" => call'[k].crossed
      BY <1>3, <1>6
<1>9. q.flow = "none" => call'[k] = Logins!Idle
      BY <1>1, <1>5
<1> QED BY <1>6, <1>7, <1>8, <1>9 DEF q

\* The call that writes: a reset goes on with the password it wrote, a change has ended.
LEMMA ResetWrote ==
  ASSUME ResetInv, NEW c \in TwoCalls, Resets!WritePassword(c)
  PROVE  /\ call'[c] \in CallRecord
         /\ \/ /\ call[c].flow = "reset" /\ call'[c].flow = "reset" /\ call'[c].todo = <<"revoke", "session">>
               /\ call'[c].seen.password = password + 1
            \/ call[c].flow = "change" /\ call'[c] = Logins!Idle
<1> DEFINE r == call[c]
           n == [r EXCEPT !.seen.password = password + 1]
           d == Logins!Done(n)
<1>1. r \in CallRecord /\ r.todo # <<>> /\ ResetStage(r) /\ Head(r.todo) = "write" /\ password \in Nat
      BY FlowsAssumption DEF ResetInv, Resets!WritePassword, Resets!At
<1>2. call'[c] = d
      BY SameCalls DEF Resets!WritePassword
<1>3. \/ r.flow = "reset" /\ r.todo = <<"write", "revoke", "session">>
      \/ r.flow = "change" /\ r.todo = <<"write">>
      BY <1>1, ResetHead
<1>4. n \in CallRecord /\ n.flow = r.flow /\ n.todo = r.todo /\ n.seen.password = password + 1
  <2>1. r.seen \in Seen /\ password + 1 \in Nat
        BY <1>1 DEF CallRecord
  <2> DEFINE e == [r.seen EXCEPT !.password = password + 1]
  <2>2. e \in Seen /\ e.password = password + 1
        BY <2>1 DEF Seen
  <2>3. n = [r EXCEPT !.seen = e]
        OBVIOUS
  <2> HIDE DEF e, n, r
  <2> QED BY <1>1, <2>2, <2>3 DEF CallRecord
<1> HIDE DEF n, r
<1>5. CASE r.flow = "reset" /\ r.todo = <<"write", "revoke", "session">>
  <2>1. n.todo # <<>> /\ Len(n.todo) # 1
        BY <1>1, <1>4, <1>5, ResetTails
  <2>2. d \in CallRecord /\ d.todo = Tail(n.todo) /\ d.flow = n.flow /\ d.seen = n.seen
        BY <1>4, <2>1, DoneIs
  <2> HIDE DEF d
  <2> QED BY <1>2, <1>4, <1>5, <2>2, ResetTails DEF r
<1>6. CASE r.flow = "change" /\ r.todo = <<"write">>
  <2>1. d = Logins!Idle
        BY <1>1, <1>4, <1>6, ResetTails, DoneIs
  <2> HIDE DEF d
  <2> QED BY <1>2, <1>6, <2>1, IdleIs DEF r
<1> QED BY <1>3, <1>5, <1>6

\* A new password: whoever has read an older one is under way, and so has met the reset.
LEMMA ResetWrites ==
  ASSUME ResetInv, NEW c \in TwoCalls, Resets!WritePassword(c)
  PROVE  ResetInv'
<1>1. /\ password \in Nat /\ password' = password + 1 /\ password' \in 0..MaxPasswords
      /\ UNCHANGED <<exists, active, mfa, sessions, resetTo, switches>>
      BY FlowsAssumption DEF ResetInv, Resets!WritePassword
<1>2. call' \in [TwoCalls -> CallRecord]
  <2>1. \A k \in TwoCalls : call'[k] \in CallRecord
        BY ResetNotes, ResetWrote
  <2>2. call' = [k \in TwoCalls |-> call'[k]]
        BY DEF Resets!WritePassword
  <2> QED BY <2>1, <2>2
<1>3. Logins!Idle.seen.password = 0 /\ Logins!Idle.flow = "none" /\ Logins!Idle.todo = <<>>
      BY IdleIs DEF Logins!Idle
<1>4. ASSUME NEW k \in TwoCalls
      PROVE  /\ ResetStage(call[k])' /\ (call[k].flow = "none" => call[k] = Logins!Idle)'
             /\ (call[k].seen.password <= password)'
  <2>1. CASE k = c
    <3>1. Logins!Idle' = Logins!Idle
          BY DEF Logins!Idle
    <3>2. call'[c].seen.password <= password'
          BY <1>1, <1>3, ResetWrote
    <3>3. /\ ResetStage(call[c])' /\ (call'[c].flow = "none" => call'[c] = Logins!Idle)
          BY <1>3, ResetWrote DEF ResetStage
    <3> QED BY <2>1, <3>1, <3>2, <3>3
  <2>2. CASE k # c
    <3>1. /\ call'[k].flow = call[k].flow /\ call'[k].todo = call[k].todo
          /\ call'[k].seen = call[k].seen /\ (call[k].flow = "none" => call'[k] = Logins!Idle)
          BY <2>2, ResetNotes
    <3>2. ResetStage(call[k]) /\ call[k].seen.password \in Nat /\ call[k].seen.password <= password
          BY DEF ResetInv, CallRecord, Seen
    <3>3. ResetStage(call[k])'
          BY <3>1, <3>2 DEF ResetStage
    <3>4. Logins!Idle' = Logins!Idle
          BY DEF Logins!Idle
    <3>5. call'[k].seen.password <= password'
          BY <1>1, <3>1, <3>2
    <3> QED BY <3>1, <3>3, <3>4, <3>5
  <2> QED BY <2>1, <2>2
<1>5. ~Reader(call[c])'
      BY <1>3, ResetWrote DEF Reader
<1>6. ASSUME NEW w, Overlapped(w)
      PROVE  \A k \in TwoCalls : Reader(call'[k]) /\ call'[k].seen.password < w => call'[k].crossed
      BY <1>5, <1>6, ResetNotes DEF Overlapped, Reader
<1>7. call[c].flow = "reset" => \A k \in TwoCalls : Reader(call'[k]) => call'[k].crossed
      BY <1>5, ResetNotes DEF Reader
<1>8. Overlapped(resetTo)' /\ Ended(resetTo)'
      BY <1>1, <1>6 DEF ResetInv, Overlapped, Ended, Reader
<1>9. ASSUME NEW k \in TwoCalls
      PROVE  /\ Writer(call[k])' => Overlapped(call[k].seen.password)'
             /\ Revoker(call[k])' => Ended(call[k].seen.password)'
  <2>1. CASE k = c
    <3>1. <<"revoke", "session">> # <<"session">>
          OBVIOUS
    <3>2. Writer(call[c])' => call[c].flow = "reset"
          BY <1>3, ResetWrote DEF Writer
    <3>3. ~Revoker(call[c])'
          BY <1>3, <3>1, ResetWrote DEF Revoker
    <3> QED BY <1>7, <2>1, <3>2, <3>3 DEF Overlapped, Reader
  <2>2. CASE k # c
    <3>1. /\ call'[k].flow = call[k].flow /\ call'[k].todo = call[k].todo /\ call'[k].seen = call[k].seen
          BY <2>2, ResetNotes
    <3>2. /\ Writer(call[k]) => Overlapped(call[k].seen.password)
          /\ Revoker(call[k]) => Ended(call[k].seen.password)
          BY DEF ResetInv
    <3>3. Writer(call[k])' => Overlapped(call[k].seen.password)'
          BY <1>6, <3>1, <3>2 DEF Writer, Overlapped, Reader
    <3>4. Revoker(call[k])' => Ended(call[k].seen.password)'
          BY <1>1, <3>1, <3>2 DEF Revoker, Ended
    <3> QED BY <3>3, <3>4
  <2> QED BY <2>1, <2>2
<1>10. (exists \in BOOLEAN /\ active \in BOOLEAN /\ mfa \in BOOLEAN)'
       BY <1>1 DEF ResetInv
<1>11. (resetTo \in Nat /\ resetTo <= password /\ switches = 0)'
       BY <1>1 DEF ResetInv
<1> QED BY <1>1, <1>2, <1>4, <1>8, <1>9, <1>10, <1>11 DEF ResetInv

\* The sessions end: no login is left that an older password opened.
LEMMA ResetRevokes ==
  ASSUME ResetInv, NEW c \in TwoCalls, Resets!RevokeAll(c)
  PROVE  ResetInv'
<1> DEFINE r == call[c]
           d == Logins!Done(r)
<1>1. r \in CallRecord /\ r.todo # <<>> /\ ResetStage(r) /\ Head(r.todo) = "revoke"
      BY DEF ResetInv, Resets!RevokeAll, Resets!At
<1>2. r.flow = "reset" /\ r.todo = <<"revoke", "session">>
      BY <1>1, ResetHead
<1>3. call' = [call EXCEPT ![c] = d] /\ sessions' = {}
      BY SameCalls DEF Resets!RevokeAll, Resets!Goes
<1>4. d \in CallRecord /\ d.todo = <<"session">> /\ d.flow = "reset" /\ d.seen = r.seen
  <2>1. Len(r.todo) # 1
        BY <1>2, ResetTails
  <2>2. d \in CallRecord /\ d.todo = Tail(r.todo) /\ d.flow = r.flow /\ d.seen = r.seen
        BY <1>1, <2>1, DoneIs
  <2> HIDE DEF d
  <2> QED BY <1>2, <2>2, ResetTails
<1>5. UNCHANGED <<exists, active, mfa, password, resetTo, switches>>
      BY DEF Resets!RevokeAll
<1> HIDE DEF d
<1>6. call' \in [TwoCalls -> CallRecord] /\ \A k \in TwoCalls : call'[k] = IF k = c THEN d ELSE call[k]
      BY <1>3, <1>4 DEF ResetInv
<1>7. ASSUME NEW k \in TwoCalls
      PROVE  /\ ResetStage(call[k])' /\ (call[k].flow = "none" => call[k] = Logins!Idle)'
             /\ (call[k].seen.password <= password)'
  <2>1. ResetStage(call[k])'
    <3>1. ResetStage(call[k])
          BY DEF ResetInv
    <3> QED BY <1>4, <1>6, <3>1 DEF ResetStage
  <2>2. Logins!Idle' = Logins!Idle
        BY DEF Logins!Idle
  <2>3. (call[k].flow = "none" => call[k] = Logins!Idle)'
        BY <1>4, <1>6, <2>2 DEF ResetInv
  <2>4. (call[k].seen.password <= password)'
        BY <1>4, <1>5, <1>6 DEF ResetInv
  <2> QED BY <2>1, <2>3, <2>4
<1>8. ASSUME NEW w, Overlapped(w)
      PROVE  \A k \in TwoCalls : Reader(call'[k]) /\ call'[k].seen.password < w => call'[k].crossed
      BY <1>4, <1>6, <1>8 DEF Overlapped, Reader
<1>9. ASSUME NEW k \in TwoCalls
      PROVE  /\ Writer(call[k])' => Overlapped(call[k].seen.password)'
             /\ Revoker(call[k])' => Ended(call[k].seen.password)'
  <2>1. Writer(call[c])
        BY <1>2 DEF Writer
  <2>2. Writer(call[k])' => Overlapped(call[k].seen.password) /\ call'[k].seen = call[k].seen
        BY <1>2, <1>4, <1>6, <2>1 DEF ResetInv, Writer
  <2>3. Writer(call[k])' => Overlapped(call[k].seen.password)'
        BY <1>8, <2>2 DEF Overlapped, Reader
  <2>4. Ended(call[k].seen.password)'
        BY <1>3 DEF Ended
  <2> QED BY <2>3, <2>4
<1>10. Overlapped(resetTo)' /\ Ended(resetTo)'
       BY <1>3, <1>5, <1>8 DEF ResetInv, Overlapped, Ended, Reader
<1>11. /\ (exists \in BOOLEAN /\ active \in BOOLEAN /\ mfa \in BOOLEAN)'
       /\ (password \in 0..MaxPasswords /\ resetTo \in Nat /\ resetTo <= password /\ switches = 0)'
       BY <1>5 DEF ResetInv
<1> QED BY <1>6, <1>7, <1>9, <1>10, <1>11 DEF ResetInv

\* A session: a login that opens one with an old password has overlapped the reset, and
\* the reset that is through left no other.
LEMMA ResetOpens ==
  ASSUME ResetInv, NEW c \in TwoCalls, Resets!OpenSession(c)
  PROVE  ResetInv'
<1> DEFINE r == call[c]
           n == Logins!Idle
           t == [by |-> r.flow, password |-> r.seen.password, open |-> r.open, alive |-> r.alive,
                 crossed |-> r.crossed]
<1>1. /\ r \in CallRecord /\ r.todo # <<>> /\ ResetStage(r) /\ Head(r.todo) = "session"
      /\ r.seen.password <= password /\ r.seen.password \in Nat /\ password \in Nat
      BY FlowsAssumption DEF ResetInv, Resets!OpenSession, Resets!At, CallRecord, Seen
<1>2. r.flow \in {"password", "reset"} /\ r.todo = <<"session">>
      BY <1>1, ResetHead
<1>3. call' = [call EXCEPT ![c] = n]
  <2>1. Len(r.todo) = 1
        BY <1>2, ResetTails
  <2>2. Logins!Done(r) = n
        BY <1>1, <2>1, DoneIs
  <2>3. call' = [call EXCEPT ![c] = Logins!Done(r)]
        BY SameCalls DEF Resets!OpenSession, Resets!Goes
  <2> QED BY <2>2, <2>3
<1>4. /\ UNCHANGED <<exists, active, mfa, password, switches>>
      /\ sessions' = sessions \cup {t}
      BY DEF Resets!OpenSession
<1>5. resetTo' = IF r.flow = "reset" /\ r.seen.password > resetTo THEN r.seen.password ELSE resetTo
      BY DEF Resets!OpenSession
<1>6. n \in CallRecord /\ n.flow = "none" /\ n.todo = <<>> /\ n.seen.password = 0
      BY IdleIs DEF Logins!Idle
<1>7. ResetStage(n) /\ ~Writer(n) /\ ~Revoker(n) /\ ~Reader(n)
      BY <1>6 DEF ResetStage, Writer, Revoker, Reader
<1>8. t.by = r.flow /\ t.password = r.seen.password /\ t.crossed = r.crossed
      OBVIOUS
<1>9. n' = n
      BY DEF Logins!Idle
<1> HIDE DEF n, t
<1>10. call' \in [TwoCalls -> CallRecord] /\ \A k \in TwoCalls : call'[k] = IF k = c THEN n ELSE call[k]
       BY <1>3, <1>6 DEF ResetInv
<1>11. ASSUME NEW k \in TwoCalls
       PROVE  /\ ResetStage(call[k])' /\ (call'[k].flow = "none" => call'[k] = n)
              /\ (call[k].seen.password <= password)'
  <2>1. /\ ResetStage(call[k]) /\ (call[k].flow = "none" => call[k] = n)
        /\ call[k].seen.password <= password
        BY DEF ResetInv, n
  <2>2. ResetStage(call[k])'
        BY <1>7, <1>10, <2>1 DEF ResetStage
  <2> QED BY <1>1, <1>4, <1>6, <1>10, <2>1, <2>2
<1>12. ASSUME NEW w, Overlapped(w)
       PROVE  \A k \in TwoCalls : Reader(call'[k]) /\ call'[k].seen.password < w => call'[k].crossed
       BY <1>7, <1>10, <1>12 DEF Overlapped
<1>13. ASSUME NEW w, Overlapped(w), Ended(w)
       PROVE  \A s \in sessions' : s.by = "password" /\ s.password < w => s.crossed
  <2>1. <<"user", "compare", "active", "gate", "session">> # <<"session">>
        OBVIOUS
  <2>2. r.flow = "password" => Reader(r)
        BY <1>2, <2>1 DEF Reader
  <2>3. t.by = "password" /\ t.password < w => t.crossed
        BY <1>8, <1>13, <2>2 DEF Overlapped
  <2> QED BY <1>4, <1>13, <2>3 DEF Ended
<1>14. Overlapped(resetTo) /\ Ended(resetTo)
       BY DEF ResetInv
<1>15. \A k \in TwoCalls : Revoker(call[k]) => Writer(call[k])
       BY DEF Revoker, Writer
<1>16. r.flow = "reset" => Overlapped(r.seen.password) /\ Ended(r.seen.password)
  <2>1. r.flow = "reset" => Revoker(r)
        BY <1>2 DEF Revoker
  <2> QED BY <1>15, <2>1 DEF ResetInv
<1>17. PICK w \in {resetTo, r.seen.password} : resetTo' = w /\ Overlapped(w) /\ Ended(w)
       BY <1>5, <1>14, <1>16
<1>18. Overlapped(resetTo)' /\ Ended(resetTo)'
       BY <1>12, <1>13, <1>17 DEF Overlapped, Ended, Reader
<1>19. ASSUME NEW k \in TwoCalls
       PROVE  /\ Writer(call[k])' => Overlapped(call[k].seen.password)'
              /\ Revoker(call[k])' => Ended(call[k].seen.password)'
  <2>1. CASE k = c
        BY <1>7, <1>10, <2>1 DEF Writer, Revoker
  <2>2. CASE k # c
    <3>1. call'[k] = call[k]
          BY <1>10, <2>2
    <3>2. /\ Writer(call[k]) => Overlapped(call[k].seen.password)
          /\ Revoker(call[k]) => Overlapped(call[k].seen.password) /\ Ended(call[k].seen.password)
          BY <1>15 DEF ResetInv
    <3>3. Writer(call[k])' => Overlapped(call[k].seen.password)'
          BY <1>12, <3>1, <3>2 DEF Writer, Overlapped, Reader
    <3>4. Revoker(call[k])' => Ended(call[k].seen.password)'
          BY <1>13, <3>1, <3>2 DEF Revoker, Ended
    <3> QED BY <3>3, <3>4
  <2> QED BY <2>1, <2>2
<1>20. (resetTo \in Nat /\ resetTo <= password)'
       BY <1>1, <1>4, <1>17 DEF ResetInv
<1>21. (exists \in BOOLEAN /\ active \in BOOLEAN /\ mfa \in BOOLEAN /\ password \in 0..MaxPasswords /\ switches = 0)'
       BY <1>4 DEF ResetInv
<1>22. \A k \in TwoCalls : (call[k].flow = "none" => call[k] = Logins!Idle)'
       BY <1>9, <1>11 DEF n
<1> QED BY <1>10, <1>11, <1>18, <1>19, <1>20, <1>21, <1>22 DEF ResetInv

\* Every step of the password changes keeps the invariant.
LEMMA ResetStep == ResetInv /\ [Resets!Next]_(Resets!vars) => ResetInv'
<1> SUFFICES ASSUME ResetInv, [Resets!Next]_(Resets!vars) PROVE ResetInv'
    OBVIOUS
<1>1. CASE UNCHANGED Resets!vars
  <2>1. /\ UNCHANGED <<exists, active, mfa, password, sessions, resetTo, switches, call>>
        /\ Logins!Idle' = Logins!Idle
        BY <1>1 DEF Resets!vars, Logins!Idle
  <2> QED BY <2>1 DEF ResetInv, ResetStage, Writer, Revoker, Reader, Overlapped, Ended
<1>2. ASSUME NEW c \in TwoCalls, Resets!Create(c) \/ Resets!VerifyCode(c) PROVE FALSE
  <2>1. /\ call[c] \in CallRecord /\ ResetStage(call[c]) /\ call[c].todo # <<>>
        /\ Head(call[c].todo) \in {"create", "code"}
        BY <1>2 DEF ResetInv, Resets!Create, Resets!VerifyCode, Resets!At
  <2> QED BY <2>1, ResetHead
<1>3. ASSUME NEW b \in BOOLEAN, Resets!SetActive(b) \/ Resets!SetMfa(b) PROVE FALSE
      BY <1>3 DEF ResetInv, Resets!SetActive, Resets!SetMfa, Resets!Switch
<1>4. ASSUME NEW c \in TwoCalls, Resets!Fail(c) PROVE ResetInv'
      BY <1>4, ResetEnds DEF Resets!Fail
<1> QED
    BY <1>1, <1>2, <1>3, <1>4, ResetBegins, ResetChecks, ResetWrites, ResetRevokes, ResetOpens
    DEF Resets!Next

\* At the start no password is reset.
LEMMA InitReset == Resets!Init => ResetInv
<1> SUFFICES ASSUME Resets!Init PROVE ResetInv
    OBVIOUS
<1>1. exists \in BOOLEAN /\ active \in BOOLEAN /\ mfa \in BOOLEAN
      BY Zenon DEF Resets!Init
<1>2. password \in 0..MaxPasswords /\ resetTo = 0 /\ switches = 0
      BY FlowsAssumption DEF Resets!Init
<1>3. call \in [TwoCalls -> CallRecord] /\ \A c \in TwoCalls : call[c] = Logins!Idle
      BY IdleIs, SameCalls DEF Resets!Init
<1>4. sessions = {}
      BY DEF Resets!Init
<1>5. Logins!Idle.flow = "none" /\ Logins!Idle.todo = <<>> /\ Logins!Idle.seen.password = 0
      BY DEF Logins!Idle
<1>6. \A c \in TwoCalls : /\ ResetStage(call[c]) /\ ~Writer(call[c]) /\ ~Revoker(call[c]) /\ ~Reader(call[c])
                          /\ call[c].seen.password <= password
      BY <1>2, <1>3, <1>5 DEF ResetStage, Writer, Revoker, Reader
<1>7. Overlapped(resetTo) /\ Ended(resetTo)
      BY <1>4, <1>6 DEF Overlapped, Ended
<1> QED BY <1>1, <1>2, <1>3, <1>6, <1>7 DEF ResetInv

-----------------------------------------------------------------------------
(* Passkeys *)

KeyDoc == [id : 0..MaxDocs, counter : 0..MaxCount, revoked : BOOLEAN]

\* A completion under way has taken its challenge, alone.
Ceremonies ==
  /\ Passkeys!OneCeremony
  /\ \A c \in Challenge : used[c] > 0 => challenges[c] = "gone"
  /\ \A r \in TwoCalls : keyPc[r] # "idle" =>
       /\ challenges[held[r]] = "gone" /\ used[held[r]] = 0
       /\ \A q \in TwoCalls : keyPc[q] # "idle" /\ held[q] = held[r] => q = r

\* A completion whose credential can be used has noticed it.
Noticed ==
  /\ \A r \in TwoCalls : keyPc[r] # "idle" /\ Passkeys!Usable(key[r]) => usable[r]
  /\ Passkeys!RevokedStaysOut

\* A completion about to update the credential it has read.
Current(r) == keyPc[r] = "update" /\ keySeen[r] = keys[key[r]].id

\* Without an overlap the stored counter is the highest one accepted, and the only
\* completion that is to raise it has a counter that is no lower.
Counters ==
  /\ \A k \in Key : keys[k].id <= lastKey /\ (~overlap[k] => top[k] <= keys[k].counter)
  /\ \A r \in TwoCalls : keyPc[r] = "update" => keySeen[r] # 0 /\ keySeen[r] <= lastKey
  /\ \A r \in TwoCalls : keyPc[r] # "idle" /\ keys[key[r]].id # 0 => floor[r] <= top[key[r]]
  /\ \A r \in TwoCalls : Current(r) /\ ~overlap[key[r]] =>
       /\ keys[key[r]].counter <= keyCount[r]
       /\ \A q \in TwoCalls : Current(q) /\ key[q] = key[r] => q = r
  /\ Passkeys!OldCounterRefused

PasskeyInv == Passkeys!TypeOK /\ Ceremonies /\ Noticed /\ Counters

\* What the writes make of a credential.
LEMMA KeyDocs ==
  /\ Passkeys!NoDoc \in KeyDoc /\ Passkeys!NoDoc.id = 0 /\ Passkeys!NoDoc.counter = 0
  /\ \A i \in 0..MaxDocs, n \in 0..MaxCount :
       LET d == [id |-> i, counter |-> n, revoked |-> FALSE]
       IN  d \in KeyDoc /\ d.id = i /\ d.counter = n /\ ~d.revoked
  /\ \A d \in KeyDoc, n \in 0..MaxCount :
       LET e == [d EXCEPT !.counter = n]
       IN  e \in KeyDoc /\ e.id = d.id /\ e.counter = n /\ e.revoked = d.revoked
  /\ \A d \in KeyDoc :
       LET e == [d EXCEPT !.revoked = TRUE]
       IN  e \in KeyDoc /\ e.id = d.id /\ e.counter = d.counter /\ e.revoked
<1>1. 0 \in 0..MaxDocs /\ 0 \in 0..MaxCount
      BY PasskeysAssumption
<1> QED BY <1>1 DEF KeyDoc, Passkeys!NoDoc

\* Types, by name.
LEMMA KeyTypes ==
  Passkeys!TypeOK =>
    /\ challenges \in [Challenge -> {"none", "pending", "stale", "gone"}]
    /\ keys \in [Key -> KeyDoc] /\ lastKey \in 0..MaxDocs
    /\ keyPc \in [TwoCalls -> {"idle", "count", "create", "find", "update"}]
    /\ held \in [TwoCalls -> Challenge] /\ key \in [TwoCalls -> Key] /\ keyCount \in [TwoCalls -> 0..MaxCount]
    /\ keySeen \in [TwoCalls -> 0..MaxDocs] /\ used \in [Challenge -> Nat] /\ usable \in [TwoCalls -> BOOLEAN]
    /\ top \in [Key -> 0..MaxCount] /\ floor \in [TwoCalls -> 0..MaxCount] /\ overlap \in [Key -> BOOLEAN]
    /\ MaxCount \in Nat /\ MaxDocs \in Nat /\ \A k \in Key : keys[k].id \in Nat /\ keys[k].counter \in Nat
  BY PasskeysAssumption DEF Passkeys!TypeOK, KeyDoc

\* At the start no credential is stored.
LEMMA InitPasskeys == Passkeys!Init => PasskeyInv
<1> SUFFICES ASSUME Passkeys!Init PROVE PasskeyInv
    OBVIOUS
<1>1. /\ (CHOOSE c \in Challenge : TRUE) \in Challenge /\ (CHOOSE k \in Key : TRUE) \in Key
      /\ 0 \in 0..MaxDocs /\ 0 \in 0..MaxCount
      BY PasskeysAssumption
<1>2. usable \in [TwoCalls -> BOOLEAN] /\ overlap \in [Key -> BOOLEAN]
      BY DEF Passkeys!Init
<1>3. keys \in [Key -> KeyDoc] /\ \A k \in Key : keys[k].id = 0 /\ keys[k].counter = 0
      BY KeyDocs DEF Passkeys!Init
<1>4. Passkeys!TypeOK
      BY <1>1, <1>2, <1>3 DEF Passkeys!Init, Passkeys!TypeOK, KeyDoc
<1>5. /\ \A r \in TwoCalls : keyPc[r] = "idle"
      /\ \A c \in Challenge : used[c] = 0
      /\ \A k \in Key : top[k] = 0
      /\ lastKey = 0
      BY DEF Passkeys!Init
<1>6. Ceremonies
      BY <1>5 DEF Ceremonies, Passkeys!OneCeremony
<1>7. Noticed
      BY <1>5 DEF Noticed, Passkeys!RevokedStaysOut
<1>8. Counters
      BY <1>3, <1>5 DEF Counters, Current, Passkeys!OldCounterRefused
<1> QED BY <1>4, <1>6, <1>7, <1>8 DEF PasskeyInv

\* A completion that starts: it has taken a pending challenge, or there was none to take.
LEMMA KeyStarts ==
  ASSUME PasskeyInv, NEW r \in TwoCalls, NEW c \in Challenge, NEW k \in Key, NEW n \in 0..MaxCount,
         NEW l \in {"count", "find"}, Passkeys!Start(r, c, k, n, l)
  PROVE  PasskeyInv'
<1> USE KeyTypes
<1>1. /\ Passkeys!TypeOK /\ keyPc[r] = "idle"
      /\ UNCHANGED <<used, keys, lastKey, top, overlap, keySeen>>
      BY DEF PasskeyInv, Passkeys!Start, Passkeys!Stored, Passkeys!Frame
<1>2. /\ challenges' \in [Challenge -> {"none", "pending", "stale", "gone"}]
      /\ \A b \in Challenge : challenges'[b] = IF b = c /\ challenges[c] # "none" THEN "gone" ELSE challenges[b]
      BY <1>1 DEF Passkeys!Start, Passkeys!takeChallenge
<1>3. CASE challenges[c] # "pending"
  <2>1. UNCHANGED <<keyPc, held, key, keyCount, usable, floor>>
        BY <1>3 DEF Passkeys!Start, Passkeys!Frame
  <2>2. Passkeys!TypeOK'
        BY <1>1, <1>2, <2>1 DEF Passkeys!TypeOK
  <2>3. Ceremonies'
        BY <1>1, <1>2, <2>1 DEF PasskeyInv, Ceremonies, Passkeys!OneCeremony
  <2>4. Noticed' /\ Counters'
        BY <1>1, <2>1 DEF PasskeyInv, Noticed, Counters, Current, Passkeys!Usable, Passkeys!RevokedStaysOut,
                          Passkeys!OldCounterRefused
  <2> QED BY <2>2, <2>3, <2>4 DEF PasskeyInv
<1>4. CASE challenges[c] = "pending"
  <2>1. /\ keyPc' = [keyPc EXCEPT ![r] = l] /\ held' = [held EXCEPT ![r] = c] /\ key' = [key EXCEPT ![r] = k]
        /\ keyCount' = [keyCount EXCEPT ![r] = n] /\ usable' = [usable EXCEPT ![r] = Passkeys!Usable(k)]
        /\ floor' = [floor EXCEPT ![r] = top[k]]
        BY <1>4 DEF Passkeys!Start, Passkeys!At
  <2>2. Passkeys!Usable(k) \in BOOLEAN
        BY DEF Passkeys!Usable
  <2>3. usable' \in [TwoCalls -> BOOLEAN]
        BY <1>1, <2>1, <2>2
  <2>4. Passkeys!TypeOK'
        BY <1>1, <1>2, <2>1, <2>3 DEF Passkeys!TypeOK
  <2>5. /\ keyPc'[r] = l /\ held'[r] = c /\ key'[r] = k /\ floor'[r] = top[k]
        /\ \A q \in TwoCalls : q # r => /\ keyPc'[q] = keyPc[q] /\ held'[q] = held[q] /\ key'[q] = key[q]
                                       /\ keyCount'[q] = keyCount[q] /\ floor'[q] = floor[q]
        BY <1>1, <2>1
  <2>6. usable'[r] = Passkeys!Usable(k) /\ \A q \in TwoCalls : q # r => usable'[q] = usable[q]
        BY <1>1, <2>1
  <2>7. used[c] = 0
        BY <1>1, <1>4 DEF PasskeyInv, Ceremonies
  <2>8. Ceremonies'
        BY <1>1, <1>2, <1>4, <2>5, <2>7 DEF PasskeyInv, Ceremonies, Passkeys!OneCeremony
  <2>9. Noticed'
    <3>1. ASSUME NEW q \in TwoCalls
          PROVE  (keyPc'[q] # "idle" /\ Passkeys!Usable(key[q])' => usable'[q]) /\ (keyPc'[q] = "update" => usable'[q])
      <4>1. CASE q = r
        <5>1. Passkeys!Usable(key[r])' => Passkeys!Usable(k)
              BY <1>1, <2>5 DEF Passkeys!Usable
        <5>2. keyPc'[r] # "update"
              BY <2>5
        <5> QED BY <2>6, <4>1, <5>1, <5>2, Zenon
      <4>2. CASE q # r
        <5>1. Passkeys!Usable(key[q])' => Passkeys!Usable(key[q])
              BY <1>1, <2>5, <4>2 DEF Passkeys!Usable
        <5> QED BY <2>5, <2>6, <4>2, <5>1 DEF PasskeyInv, Noticed, Passkeys!RevokedStaysOut
      <4> QED BY <4>1, <4>2
    <3> QED BY <3>1 DEF Noticed, Passkeys!RevokedStaysOut
  <2>10. \A q \in TwoCalls : q # r => (Current(q)' <=> Current(q))
         BY <1>1, <2>5 DEF Current
  <2>11. ~Current(r)' /\ keyPc'[r] # "update"
         BY <2>5 DEF Current
  <2>12. Counters'
    <3>1. (\A j \in Key : keys[j].id <= lastKey /\ (~overlap[j] => top[j] <= keys[j].counter))'
          BY <1>1 DEF PasskeyInv, Counters
    <3>2. ASSUME NEW q \in TwoCalls
          PROVE  (keyPc'[q] = "update" => keySeen'[q] # 0 /\ keySeen'[q] <= lastKey')
                 /\ (keyPc[q] = "update" /\ ~overlap[key[q]] => floor[q] = 0 \/ floor[q] < keyCount[q])'
          BY <1>1, <2>5, <2>11 DEF PasskeyInv, Counters, Passkeys!OldCounterRefused
    <3>3. ASSUME NEW q \in TwoCalls
          PROVE  (keyPc[q] # "idle" /\ keys[key[q]].id # 0 => floor[q] <= top[key[q]])'
          BY <1>1, <2>5 DEF PasskeyInv, Counters
    <3>4. ASSUME NEW q \in TwoCalls, Current(q)', ~overlap'[key'[q]]
          PROVE  /\ keys'[key'[q]].counter <= keyCount'[q]
                 /\ \A s \in TwoCalls : Current(s)' /\ key'[s] = key'[q] => s = q
          BY <1>1, <2>5, <2>10, <2>11, <3>4 DEF PasskeyInv, Counters
    <3> QED BY <3>1, <3>2, <3>3, <3>4 DEF Counters, Passkeys!OldCounterRefused
  <2> QED BY <2>4, <2>8, <2>9, <2>12 DEF PasskeyInv
<1> QED BY <1>3, <1>4

\* Steps that leave the credentials and what the completions know: challenges drawn and
\* run out, a completion that goes on to create or ends, and a restart.
LEMMA KeyMoves ==
  ASSUME PasskeyInv, UNCHANGED <<keys, lastKey, top, overlap, held, key, keyCount, keySeen, usable, floor>>,
         challenges' \in [Challenge -> {"none", "pending", "stale", "gone"}],
         \A c \in Challenge : challenges[c] = "gone" => challenges'[c] = "gone",
         keyPc' \in [TwoCalls -> {"idle", "count", "create", "find", "update"}],
         \A q \in TwoCalls : keyPc'[q] # keyPc[q] => keyPc[q] # "idle" /\ keyPc'[q] \in {"idle", "create"},
         used' = used \/ \E r \in TwoCalls : /\ keyPc[r] # "idle" /\ keyPc'[r] = "idle"
                                            /\ used' = [used EXCEPT ![held[r]] = 1]
  PROVE  PasskeyInv'
<1> USE KeyTypes
<1>1. Passkeys!TypeOK
      BY DEF PasskeyInv
<1>2. used' \in [Challenge -> Nat]
      BY <1>1
<1>3. Passkeys!TypeOK'
      BY <1>1, <1>2 DEF Passkeys!TypeOK
<1>4. Ceremonies'
  <2>1. CASE used' = used
        BY <2>1 DEF PasskeyInv, Ceremonies, Passkeys!OneCeremony
  <2>2. CASE \E r \in TwoCalls : /\ keyPc[r] # "idle" /\ keyPc'[r] = "idle"
                                 /\ used' = [used EXCEPT ![held[r]] = 1]
    <3>1. PICK r \in TwoCalls : keyPc[r] # "idle" /\ keyPc'[r] = "idle" /\ used' = [used EXCEPT ![held[r]] = 1]
          BY <2>2
    <3>2. \A c \in Challenge : used'[c] = IF c = held[r] THEN 1 ELSE used[c]
          BY <1>1, <3>1
    <3> QED BY <1>1, <3>1, <3>2 DEF PasskeyInv, Ceremonies, Passkeys!OneCeremony
  <2> QED BY <2>1, <2>2
<1>5. \A q \in TwoCalls : (keyPc'[q] # "idle" => keyPc[q] # "idle") /\ (keyPc'[q] = "update" => keyPc[q] = "update")
      OBVIOUS
<1>6. Noticed'
      BY <1>5 DEF PasskeyInv, Noticed, Passkeys!Usable, Passkeys!RevokedStaysOut
<1>7. Counters'
      BY <1>5 DEF PasskeyInv, Counters, Current, Passkeys!OldCounterRefused
<1> QED BY <1>3, <1>4, <1>6, <1>7 DEF PasskeyInv

\* A credential created: nobody holds its id yet, and its counter is the highest accepted.
LEMMA KeyCreates ==
  ASSUME PasskeyInv, NEW r \in TwoCalls, Passkeys!CreateCredential(r)
  PROVE  PasskeyInv'
<1> USE KeyTypes
<1>1. /\ Passkeys!TypeOK /\ keyPc[r] = "create" /\ lastKey < MaxDocs
      /\ UNCHANGED <<challenges, held, key, keyCount, keySeen>>
      BY DEF PasskeyInv, Passkeys!CreateCredential
<1>2. keyPc' = [keyPc EXCEPT ![r] = "idle"]
      BY DEF Passkeys!CreateCredential, Passkeys!Succeeds, Passkeys!Unheard, Passkeys!At
<1>3. CASE keys[key[r]].id # 0
  <2>1. UNCHANGED <<used, usable, floor, keys, lastKey, top, overlap>>
        BY <1>3 DEF Passkeys!CreateCredential, Passkeys!Stored
  <2> QED BY <1>1, <1>2, <2>1, KeyMoves
<1>4. CASE keys[key[r]].id = 0
  <2>1. PICK k \in Key : key[r] = k
        BY <1>1
  <2>2. PICK d \in KeyDoc : /\ keys' = [keys EXCEPT ![k] = d] /\ d.id = lastKey + 1 /\ d.counter = keyCount[r]
                            /\ ~d.revoked
    <3> DEFINE e == [id |-> lastKey + 1, counter |-> keyCount[r], revoked |-> FALSE]
    <3>1. lastKey + 1 \in 0..MaxDocs /\ keyCount[r] \in 0..MaxCount
          BY <1>1
    <3>2. e \in KeyDoc /\ e.id = lastKey + 1 /\ e.counter = keyCount[r] /\ ~e.revoked
          BY <3>1, KeyDocs
    <3>3. keys' = [keys EXCEPT ![k] = e]
          BY <1>4, <2>1 DEF Passkeys!CreateCredential
    <3> HIDE DEF e
    <3> QED BY <3>2, <3>3
  <2>3. /\ lastKey' = lastKey + 1 /\ top' = [top EXCEPT ![k] = keyCount[r]]
        /\ overlap' = [overlap EXCEPT ![k] = FALSE]
        /\ usable' = [q \in TwoCalls |-> usable[q] \/ (keyPc[q] # "idle" /\ key[q] = k)]
        /\ floor' = [q \in TwoCalls |-> IF key[q] = k THEN 0 ELSE floor[q]]
        BY <1>4, <2>1 DEF Passkeys!CreateCredential
  <2>4. used' = used \/ used' = [used EXCEPT ![held[r]] = 1]
    <3>1. used[held[r]] = 0
          BY <1>1 DEF PasskeyInv, Ceremonies
    <3> QED BY <1>1, <1>4, <3>1 DEF Passkeys!CreateCredential, Passkeys!Succeeds, Passkeys!Unheard
  <2>5. usable' \in [TwoCalls -> BOOLEAN] /\ overlap' \in [Key -> BOOLEAN]
        BY <1>1, <2>3
  <2>6. Passkeys!TypeOK'
        BY <1>1, <1>2, <2>2, <2>3, <2>4, <2>5 DEF Passkeys!TypeOK, KeyDoc
  <2>7. \A q \in TwoCalls : keyPc'[q] = IF q = r THEN "idle" ELSE keyPc[q]
        BY <1>1, <1>2
  <2>8. Ceremonies'
    <3>1. \A c \in Challenge : used'[c] = used[c] \/ (c = held[r] /\ used'[c] = 1)
          BY <1>1, <2>4
    <3> QED BY <1>1, <2>7, <3>1 DEF PasskeyInv, Ceremonies, Passkeys!OneCeremony
  <2>9. \A j \in Key : IF j = k THEN keys'[j] = d ELSE keys'[j] = keys[j]
        BY <1>1, <2>2
  <2>10. Noticed'
    <3>1. ASSUME NEW q \in TwoCalls, keyPc'[q] # "idle"
          PROVE  (Passkeys!Usable(key[q])' => usable'[q]) /\ (keyPc'[q] = "update" => usable'[q])
      <4>1. keyPc[q] # "idle" /\ keyPc'[q] = keyPc[q]
            BY <2>7, <3>1
      <4>2. CASE key[q] = k
            BY <2>3, <4>1, <4>2
      <4>3. CASE key[q] # k
        <5>1. Passkeys!Usable(key[q])' => Passkeys!Usable(key[q])
              BY <1>1, <2>9, <4>3 DEF Passkeys!Usable
        <5>2. (Passkeys!Usable(key[q]) => usable[q]) /\ (keyPc[q] = "update" => usable[q])
              BY <4>1 DEF PasskeyInv, Noticed, Passkeys!RevokedStaysOut
        <5>3. usable'[q] = (usable[q] \/ (keyPc[q] # "idle" /\ key[q] = k))
              BY <2>3, Zenon
        <5> QED BY <4>1, <5>1, <5>2, <5>3
      <4> QED BY <4>2, <4>3
    <3> QED BY <3>1 DEF Noticed, Passkeys!RevokedStaysOut
  <2>11. Counters'
    <3>1. ASSUME NEW j \in Key
          PROVE  (keys[j].id <= lastKey /\ (~overlap[j] => top[j] <= keys[j].counter))'
          BY <1>1, <2>2, <2>3, <2>9 DEF PasskeyInv, Counters
    <3>2. ASSUME NEW q \in TwoCalls, keyPc'[q] = "update"
          PROVE  /\ keySeen'[q] # 0 /\ keySeen'[q] <= lastKey' /\ keySeen[q] <= lastKey
                 /\ keyPc[q] = "update"
          BY <1>1, <2>3, <2>7, <3>2 DEF PasskeyInv, Counters
    <3>3. ASSUME NEW q \in TwoCalls
          PROVE  (keyPc[q] # "idle" /\ keys[key[q]].id # 0 => floor[q] <= top[key[q]])'
          BY <1>1, <2>3, <2>7, <2>9 DEF PasskeyInv, Counters
    <3>4. \A q \in TwoCalls : Current(q)' => Current(q) /\ key[q] # k
          BY <1>1, <2>2, <2>7, <2>9, <3>2 DEF Current
    <3>5. ASSUME NEW q \in TwoCalls, Current(q)', ~overlap'[key'[q]]
          PROVE  /\ keys'[key'[q]].counter <= keyCount'[q]
                 /\ \A s \in TwoCalls : Current(s)' /\ key'[s] = key'[q] => s = q
          BY <1>1, <2>3, <2>9, <3>4, <3>5 DEF PasskeyInv, Counters
    <3>6. ASSUME NEW q \in TwoCalls, keyPc'[q] = "update", ~overlap'[key'[q]]
          PROVE  floor'[q] = 0 \/ floor'[q] < keyCount'[q]
          BY <1>1, <2>3, <3>2, <3>6 DEF PasskeyInv, Counters, Passkeys!OldCounterRefused
    <3> QED BY <3>1, <3>2, <3>3, <3>5, <3>6 DEF Counters, Passkeys!OldCounterRefused
  <2> QED BY <2>6, <2>8, <2>10, <2>11 DEF PasskeyInv
<1> QED BY <1>3, <1>4

\* A credential found: it can be used, and its counter is below the answer's.
LEMMA KeyFinds ==
  ASSUME PasskeyInv, NEW r \in TwoCalls, Passkeys!FindCredential(r)
  PROVE  PasskeyInv'
<1> USE KeyTypes
<1>1. /\ Passkeys!TypeOK /\ keyPc[r] = "find"
      /\ UNCHANGED <<challenges, used, keys, lastKey, top, held, key, keyCount, usable, floor>>
      BY DEF PasskeyInv, Passkeys!FindCredential
<1>2. CASE keyPc' = [keyPc EXCEPT ![r] = "idle"] /\ UNCHANGED <<keySeen, overlap>>
      BY <1>1, <1>2, KeyMoves
<1>3. CASE /\ Passkeys!Found(key[r]) /\ Passkeys!CounterRises(keys[key[r]].counter, keyCount[r])
           /\ keySeen' = [keySeen EXCEPT ![r] = keys[key[r]].id]
           /\ overlap' = [overlap EXCEPT ![key[r]] =
                            @ \/ \E q \in TwoCalls : /\ keyPc[q] = "update" /\ key[q] = key[r]
                                                    /\ keySeen[q] = keys[key[r]].id]
           /\ Passkeys!At(r, "update")
  <2>1. PICK k \in Key : key[r] = k
        BY <1>1
  <2>2. keyPc' = [keyPc EXCEPT ![r] = "update"] /\ keySeen' = [keySeen EXCEPT ![r] = keys[k].id]
        BY <1>3, <2>1 DEF Passkeys!At
  <2>3. PICK b \in BOOLEAN : /\ overlap' = [overlap EXCEPT ![k] = b]
                             /\ ~b => ~overlap[k] /\ \A q \in TwoCalls : ~(Current(q) /\ key[q] = k)
    <3> DEFINE b == overlap[k] \/ \E q \in TwoCalls : /\ keyPc[q] = "update" /\ key[q] = k
                                                     /\ keySeen[q] = keys[k].id
    <3>1. overlap' = [overlap EXCEPT ![k] = b]
          BY <1>1, <1>3, <2>1
    <3>2. ~b => ~overlap[k] /\ \A q \in TwoCalls : ~(Current(q) /\ key[q] = k)
          BY DEF Current
    <3>3. b \in BOOLEAN
          OBVIOUS
    <3> QED BY <3>1, <3>2, <3>3, Zenon
  <2>4. /\ Passkeys!Usable(key[r]) /\ keys[k].id # 0 /\ (keys[k].counter = 0 \/ keyCount[r] > keys[k].counter)
        BY <1>3, <2>1 DEF Passkeys!Found, Passkeys!Usable, Passkeys!CounterRises
  <2>5. keys[k].id \in 0..MaxDocs
        BY <1>1 DEF KeyDoc
  <2>6. Passkeys!TypeOK'
        BY <1>1, <2>2, <2>3, <2>5 DEF Passkeys!TypeOK
  <2>7. \A q \in TwoCalls : /\ keyPc'[q] = IF q = r THEN "update" ELSE keyPc[q]
                            /\ keySeen'[q] = IF q = r THEN keys[k].id ELSE keySeen[q]
        BY <1>1, <2>2
  <2>8. Ceremonies'
        BY <1>1, <2>7 DEF PasskeyInv, Ceremonies, Passkeys!OneCeremony
  <2>9. \A q \in TwoCalls : keyPc'[q] # "idle" => keyPc[q] # "idle"
        BY <1>1, <2>7
  <2>10. Noticed'
    <3>1. usable[r]
          BY <1>1, <2>4 DEF PasskeyInv, Noticed
    <3> QED BY <1>1, <2>7, <2>9, <3>1 DEF PasskeyInv, Noticed, Passkeys!Usable, Passkeys!RevokedStaysOut
  <2>11. \A j \in Key : ~overlap'[j] => ~overlap[j] /\ (j = k => ~b)
         BY <1>1, <2>3
  <2>12. Counters'
    <3>1. ASSUME NEW j \in Key
          PROVE  (keys[j].id <= lastKey /\ (~overlap[j] => top[j] <= keys[j].counter))'
          BY <1>1, <2>11 DEF PasskeyInv, Counters
    <3>2. ASSUME NEW q \in TwoCalls, keyPc'[q] = "update"
          PROVE  keySeen'[q] # 0 /\ keySeen'[q] <= lastKey'
          BY <1>1, <2>4, <2>7, <3>1, <3>2 DEF PasskeyInv, Counters
    <3>3. ASSUME NEW q \in TwoCalls
          PROVE  (keyPc[q] # "idle" /\ keys[key[q]].id # 0 => floor[q] <= top[key[q]])'
          BY <1>1, <2>9 DEF PasskeyInv, Counters
    <3>4. \A q \in TwoCalls : q # r => (Current(q)' <=> Current(q))
          BY <1>1, <2>7 DEF Current
    <3>5. ASSUME NEW q \in TwoCalls, Current(q)', ~overlap'[key'[q]]
          PROVE  /\ keys'[key'[q]].counter <= keyCount'[q]
                 /\ \A s \in TwoCalls : Current(s)' /\ key'[s] = key'[q] => s = q
      <4>1. ~overlap[key[q]] /\ (key[q] = k => ~b)
            BY <1>1, <2>11, <3>5
      <4>2. CASE q = r
        <5>1. keys[k].counter <= keyCount[r]
              BY <1>1, <2>4
        <5> QED BY <1>1, <2>1, <2>3, <3>4, <4>1, <4>2, <5>1
      <4>3. CASE q # r
        <5>1. Current(q) /\ key[q] # k
              BY <2>3, <3>4, <3>5, <4>1, <4>3
        <5> QED BY <1>1, <2>1, <3>4, <4>1, <5>1 DEF PasskeyInv, Counters
      <4> QED BY <4>2, <4>3
    <3>6. ASSUME NEW q \in TwoCalls, keyPc'[q] = "update", ~overlap'[key'[q]]
          PROVE  floor'[q] = 0 \/ floor'[q] < keyCount'[q]
      <4>1. ~overlap[key[q]]
            BY <1>1, <2>11, <3>6
      <4>2. CASE q = r
        <5>1. floor[r] <= top[k] /\ top[k] <= keys[k].counter
              BY <1>1, <2>1, <2>4, <4>1, <4>2 DEF PasskeyInv, Counters
        <5> QED BY <1>1, <2>4, <4>2, <5>1
      <4>3. CASE q # r
            BY <1>1, <2>7, <3>6, <4>1, <4>3 DEF PasskeyInv, Counters, Passkeys!OldCounterRefused
      <4> QED BY <4>2, <4>3
    <3> QED BY <3>1, <3>2, <3>3, <3>5, <3>6 DEF Counters, Passkeys!OldCounterRefused
  <2> QED BY <2>6, <2>8, <2>10, <2>12 DEF PasskeyInv
<1> QED BY <1>2, <1>3 DEF Passkeys!FindCredential, Passkeys!At

\* A counter written into the credential its completion has read.
LEMMA KeyWrites ==
  ASSUME PasskeyInv, NEW r \in TwoCalls, Current(r),
         keys' = [keys EXCEPT ![key[r]].counter = keyCount[r]],
         keyPc' = [keyPc EXCEPT ![r] = "idle"],
         \/ used' = used /\ top' = top
         \/ /\ used' = [used EXCEPT ![held[r]] = 1]
            /\ top' = [top EXCEPT ![key[r]] = IF keyCount[r] > @ THEN keyCount[r] ELSE @],
         UNCHANGED <<challenges, lastKey, overlap, held, key, keyCount, keySeen, usable, floor>>
  PROVE  PasskeyInv'
<1> USE KeyTypes
<1>1. Passkeys!TypeOK /\ keyPc[r] = "update" /\ keySeen[r] = keys[key[r]].id
      BY DEF PasskeyInv, Current
<1>2. PICK k \in Key : key[r] = k
      BY <1>1
<1>3. PICK d \in KeyDoc : /\ keys' = [keys EXCEPT ![k] = d] /\ d.id = keys[k].id /\ d.counter = keyCount[r]
                          /\ d.revoked = keys[k].revoked
  <2>1. keys[k] \in KeyDoc /\ keyCount[r] \in 0..MaxCount
        BY <1>1
  <2> DEFINE e == [keys[k] EXCEPT !.counter = keyCount[r]]
  <2>2. keys' = [keys EXCEPT ![k] = e]
        BY <1>1, <1>2
  <2>3. e \in KeyDoc /\ e.id = keys[k].id /\ e.counter = keyCount[r] /\ e.revoked = keys[k].revoked
        BY <2>1, KeyDocs
  <2> HIDE DEF e
  <2> QED BY <2>2, <2>3
<1>4. /\ top' \in [Key -> 0..MaxCount]
      /\ \A j \in Key : top[j] <= top'[j] /\ (j # k => top'[j] = top[j]) /\ (top'[j] = top[j] \/ top'[j] = keyCount[r])
      BY <1>1, <1>2
<1>5. used' \in [Challenge -> Nat]
      BY <1>1
<1>6. Passkeys!TypeOK'
  <2>1. /\ keys' \in [Key -> KeyDoc]
        /\ keyPc' \in [TwoCalls -> {"idle", "count", "create", "find", "update"}]
        BY <1>1, <1>3
  <2> QED BY <1>1, <1>4, <1>5, <2>1 DEF Passkeys!TypeOK, KeyDoc
<1>7. \A q \in TwoCalls : keyPc'[q] = IF q = r THEN "idle" ELSE keyPc[q]
      BY <1>1
<1>8. Ceremonies'
  <2>1. \A c \in Challenge : used'[c] = used[c] \/ (c = held[r] /\ used'[c] = 1)
        BY <1>1
  <2> QED BY <1>1, <1>7, <2>1, SMTT(30) DEF PasskeyInv, Ceremonies, Passkeys!OneCeremony
<1>9. \A j \in Key : IF j = k THEN keys'[j] = d ELSE keys'[j] = keys[j]
      BY <1>1, <1>3
<1>10. \A j \in Key : keys'[j].id = keys[j].id /\ keys'[j].revoked = keys[j].revoked
       BY <1>3, <1>9
<1>11. Noticed'
       BY <1>1, <1>7, <1>10 DEF PasskeyInv, Noticed, Passkeys!Usable, Passkeys!RevokedStaysOut
<1>12. \A q \in TwoCalls : Current(q)' <=> Current(q) /\ q # r
       BY <1>1, <1>7, <1>10 DEF Current
<1>13. ~overlap[k] => /\ keys[k].counter <= keyCount[r] /\ top[k] <= keys[k].counter
                      /\ \A q \in TwoCalls : Current(q) /\ key[q] = k => q = r
       BY <1>1, <1>2 DEF PasskeyInv, Counters
<1>14. Counters'
  <2>1. ASSUME NEW j \in Key
        PROVE  (keys[j].id <= lastKey /\ (~overlap[j] => top[j] <= keys[j].counter))'
    <3>1. keys[j].id <= lastKey /\ (~overlap[j] => top[j] <= keys[j].counter)
          BY DEF PasskeyInv, Counters
    <3>2. CASE j = k
      <4>1. ~overlap[k] => top'[k] <= keyCount[r]
            BY <1>1, <1>4, <1>13
      <4> QED BY <1>3, <1>9, <1>10, <3>1, <3>2, <4>1
    <3>3. CASE j # k
          BY <1>4, <1>9, <3>1, <3>3
    <3> QED BY <3>2, <3>3
  <2>2. ASSUME NEW q \in TwoCalls, keyPc'[q] = "update"
        PROVE  /\ keySeen'[q] # 0 /\ keySeen'[q] <= lastKey'
               /\ ~overlap'[key'[q]] => floor'[q] = 0 \/ floor'[q] < keyCount'[q]
        BY <1>7, <2>2 DEF PasskeyInv, Counters, Passkeys!OldCounterRefused
  <2>3. ASSUME NEW q \in TwoCalls
        PROVE  (keyPc[q] # "idle" /\ keys[key[q]].id # 0 => floor[q] <= top[key[q]])'
    <3>1. keyPc[q] # "idle" /\ keys[key[q]].id # 0 => floor[q] <= top[key[q]]
          BY DEF PasskeyInv, Counters
    <3> QED BY <1>1, <1>4, <1>7, <1>10, <3>1
  <2>4. ASSUME NEW q \in TwoCalls, Current(q)', ~overlap'[key'[q]]
        PROVE  /\ keys'[key'[q]].counter <= keyCount'[q]
               /\ \A s \in TwoCalls : Current(s)' /\ key'[s] = key'[q] => s = q
    <3>1. Current(q) /\ q # r /\ key[q] # k
          BY <1>12, <1>13, <2>4
    <3> QED BY <1>1, <1>9, <1>12, <2>4, <3>1 DEF PasskeyInv, Counters
  <2> QED BY <2>1, <2>2, <2>3, <2>4 DEF Counters, Passkeys!OldCounterRefused
<1> QED BY <1>6, <1>8, <1>11, <1>14 DEF PasskeyInv

\* The last write of an authentication, heard or not.
LEMMA KeyUpdates ==
  ASSUME PasskeyInv, NEW r \in TwoCalls, Passkeys!UpdateCounter(r) \/ Passkeys!UpdateUnheard(r)
  PROVE  PasskeyInv'
<1> USE KeyTypes
<1>1. /\ Passkeys!TypeOK /\ keyPc[r] = "update" /\ used[held[r]] = 0
      /\ UNCHANGED <<challenges, lastKey, overlap, held, key, keyCount, keySeen, usable, floor>>
      BY DEF PasskeyInv, Ceremonies, Passkeys!UpdateCounter, Passkeys!UpdateUnheard, Passkeys!Frame
<1>2. keyPc' = [keyPc EXCEPT ![r] = "idle"]
      BY DEF Passkeys!UpdateCounter, Passkeys!UpdateUnheard, Passkeys!Succeeds, Passkeys!Unheard, Passkeys!At
<1>3. CASE Passkeys!UpdateUnheard(r)
      BY <1>1, <1>2, <1>3, KeyWrites DEF Passkeys!UpdateUnheard, Passkeys!Unheard, Current
<1>4. CASE Passkeys!UpdateCounter(r)
  <2>1. used' = [used EXCEPT ![held[r]] = 1]
        BY <1>1, <1>4 DEF Passkeys!UpdateCounter, Passkeys!Succeeds
  <2>2. CASE Current(r)
        BY <1>1, <1>2, <1>4, <2>1, <2>2, KeyWrites DEF Passkeys!UpdateCounter, Current
  <2>3. CASE ~Current(r)
    <3>1. UNCHANGED <<keys, top>>
          BY <1>1, <1>4, <2>3 DEF Passkeys!UpdateCounter, Current
    <3>2. \A q \in TwoCalls : keyPc'[q] = IF q = r THEN "idle" ELSE keyPc[q]
          BY <1>1, <1>2
    <3>3. keyPc' \in [TwoCalls -> {"idle", "count", "create", "find", "update"}]
          BY <1>1, <1>2
    <3> QED BY <1>1, <2>1, <3>1, <3>2, <3>3, KeyMoves
  <2> QED BY <2>2, <2>3
<1> QED BY <1>3, <1>4

\* A credential revoked or deleted is out of use; a completion that has read it cannot be
\* the one that updates its successor.
LEMMA KeyRevokes ==
  ASSUME PasskeyInv, NEW k \in Key, Passkeys!revokeCredential(k) \/ Passkeys!deleteCredential(k)
  PROVE  PasskeyInv'
<1> USE KeyTypes
<1>1. /\ Passkeys!TypeOK
      /\ UNCHANGED <<challenges, keyPc, lastKey, overlap, used, held, key, keyCount, keySeen, usable, floor>>
      BY DEF PasskeyInv, Passkeys!revokeCredential, Passkeys!deleteCredential, Passkeys!Frame
<1>2. PICK d \in KeyDoc : /\ keys' = [keys EXCEPT ![k] = d] /\ (d.id = 0 \/ d.revoked)
                          /\ \/ d.id = keys[k].id /\ d.counter = keys[k].counter /\ top' = top
                             \/ d.id = 0 /\ d.counter = 0 /\ top' = [top EXCEPT ![k] = 0]
  <2>1. CASE Passkeys!revokeCredential(k)
    <3>1. keys' = [keys EXCEPT ![k] = [keys[k] EXCEPT !.revoked = TRUE]] /\ top' = top
          BY <1>1, <2>1 DEF Passkeys!revokeCredential
    <3>2. keys[k] \in KeyDoc
          BY <1>1
    <3> QED BY <3>1, <3>2, KeyDocs
  <2>2. CASE Passkeys!deleteCredential(k)
        BY <2>2, KeyDocs DEF Passkeys!deleteCredential
  <2> QED BY <2>1, <2>2
<1>3. \A j \in Key : IF j = k THEN keys'[j] = d ELSE keys'[j] = keys[j]
      BY <1>1, <1>2
<1>4. /\ top' \in [Key -> 0..MaxCount] /\ \A j \in Key : j # k => top'[j] = top[j]
      /\ \/ d.id = 0 /\ d.counter = 0 /\ top'[k] = 0
         \/ d.id = keys[k].id /\ d.counter = keys[k].counter /\ top'[k] = top[k]
  <2>1. 0 \in 0..MaxCount
        BY PasskeysAssumption
  <2> QED BY <1>1, <1>2, <2>1
<1>5. Passkeys!TypeOK'
      BY <1>1, <1>2, <1>4 DEF Passkeys!TypeOK, KeyDoc
<1>6. Ceremonies'
      BY <1>1 DEF PasskeyInv, Ceremonies, Passkeys!OneCeremony
<1>8. Noticed'
  <2>1. \A q \in TwoCalls : Passkeys!Usable(key[q])' => Passkeys!Usable(key[q])
        BY <1>1, <1>2, <1>3 DEF Passkeys!Usable
  <2> QED BY <1>1, <2>1 DEF PasskeyInv, Noticed, Passkeys!RevokedStaysOut
<1>9. \A q \in TwoCalls : Current(q)' => Current(q) /\ keys'[key[q]].counter = keys[key[q]].counter
      BY <1>1, <1>3, <1>4 DEF PasskeyInv, Counters, Current
<1>10. Counters'
  <2>1. ASSUME NEW j \in Key
        PROVE  (keys[j].id <= lastKey /\ (~overlap[j] => top[j] <= keys[j].counter))'
        BY <1>1, <1>3, <1>4 DEF PasskeyInv, Counters
  <2>2. ASSUME NEW q \in TwoCalls
        PROVE  (keyPc[q] # "idle" /\ keys[key[q]].id # 0 => floor[q] <= top[key[q]])'
        BY <1>1, <1>3, <1>4 DEF PasskeyInv, Counters
  <2>3. ASSUME NEW q \in TwoCalls, Current(q)', ~overlap'[key'[q]]
        PROVE  /\ keys'[key'[q]].counter <= keyCount'[q]
               /\ \A s \in TwoCalls : Current(s)' /\ key'[s] = key'[q] => s = q
        BY <1>1, <1>9, <2>3 DEF PasskeyInv, Counters
  <2> QED BY <1>1, <2>1, <2>2, <2>3 DEF PasskeyInv, Counters, Passkeys!OldCounterRefused
<1> QED BY <1>5, <1>6, <1>8, <1>10 DEF PasskeyInv

\* Every step of the passkeys keeps the invariant.
LEMMA KeyStep == PasskeyInv /\ [Passkeys!Next]_(Passkeys!vars) => PasskeyInv'
<1> SUFFICES ASSUME PasskeyInv, [Passkeys!Next]_(Passkeys!vars) PROVE PasskeyInv'
    OBVIOUS
<1> USE KeyTypes
<1>1. Passkeys!TypeOK
      BY DEF PasskeyInv
<1>2. CASE UNCHANGED Passkeys!vars
  <2>1. UNCHANGED keyVars
        BY <1>2 DEF Passkeys!vars, keyVars
  <2> QED BY <1>1, <2>1, KeyMoves DEF keyVars
<1>3. ASSUME NEW c \in Challenge, Passkeys!Begin(c) \/ Passkeys!ChallengeExpires(c)
      PROVE  PasskeyInv'
  <2>1. UNCHANGED <<keyPc, used, keys, lastKey, top, overlap, held, key, keyCount, keySeen, usable, floor>>
        BY <1>3 DEF Passkeys!Begin, Passkeys!ChallengeExpires, Passkeys!Stored, Passkeys!Frame
  <2>2. /\ challenges' \in [Challenge -> {"none", "pending", "stale", "gone"}]
        /\ \A b \in Challenge : challenges[b] = "gone" => challenges'[b] = "gone"
        BY <1>1, <1>3 DEF Passkeys!Begin, Passkeys!ChallengeExpires
  <2> QED BY <1>1, <2>1, <2>2, KeyMoves
<1>4. ASSUME NEW r \in TwoCalls, NEW c \in Challenge, NEW k \in Key, NEW n \in 0..MaxCount,
             Passkeys!completeRegistration(r, c, k, n) \/ Passkeys!completeAuthentication(r, c, k, n)
      PROVE  PasskeyInv'
  <2>1. PICK l \in {"count", "find"} : Passkeys!Start(r, c, k, n, l)
        BY <1>4 DEF Passkeys!completeRegistration, Passkeys!completeAuthentication
  <2> QED BY <2>1, KeyStarts
<1>5. ASSUME NEW r \in TwoCalls, Passkeys!CountDocuments(r) \/ Passkeys!Fail(r)
      PROVE  PasskeyInv'
  <2>1. /\ keyPc[r] # "idle"
        /\ UNCHANGED <<challenges, used, keys, lastKey, top, overlap, held, key, keyCount, keySeen, usable, floor>>
        BY <1>5 DEF Passkeys!CountDocuments, Passkeys!Fail, Passkeys!Stored, Passkeys!Frame
  <2>2. PICK l \in {"idle", "create"} : keyPc' = [keyPc EXCEPT ![r] = l]
        BY <1>5 DEF Passkeys!CountDocuments, Passkeys!Fail, Passkeys!At
  <2>3. /\ keyPc' \in [TwoCalls -> {"idle", "count", "create", "find", "update"}]
        /\ \A q \in TwoCalls : keyPc'[q] # keyPc[q] => keyPc[q] # "idle" /\ keyPc'[q] \in {"idle", "create"}
        BY <1>1, <2>1, <2>2
  <2> QED BY <1>1, <2>1, <2>3, KeyMoves
<1>6. CASE Passkeys!Restart
  <2>1. UNCHANGED <<used, keys, lastKey, top, overlap, held, key, keyCount, keySeen, usable, floor>>
        BY <1>6 DEF Passkeys!Restart, Passkeys!Stored, Passkeys!Frame
  <2>2. /\ challenges' \in [Challenge -> {"none", "pending", "stale", "gone"}]
        /\ \A b \in Challenge : challenges[b] = "gone" => challenges'[b] = "gone"
        /\ keyPc' \in [TwoCalls -> {"idle", "count", "create", "find", "update"}]
        /\ \A q \in TwoCalls : keyPc'[q] = "idle"
        BY <1>1, <1>6 DEF Passkeys!Restart
  <2> QED BY <1>1, <2>1, <2>2, KeyMoves
<1> QED
    BY <1>2, <1>3, <1>4, <1>5, <1>6, KeyCreates, KeyFinds, KeyUpdates, KeyRevokes
    DEF Passkeys!Next, Passkeys!beginRegistration, Passkeys!beginAuthentication

-----------------------------------------------------------------------------
(* All the credentials *)

\* The flows that a behaviour moves; the others stay as they started.
FactorInv ==
  /\ OtpInv /\ PasskeyInv
  /\ part = "resets" => ResetInv
  /\ part # "resets" => LoginInv

\* What the invariants say of the account and of its calls.
LEMMA FlowTypes ==
  /\ LoginInv => Logins!TypeOK
  /\ ResetInv => Resets!TypeOK /\ Resets!ResetEndsOld
<1>1. ASSUME LoginInv PROVE Logins!TypeOK
  <2>1. {exists, active, mfa} \subseteq BOOLEAN
        BY <1>1 DEF LoginInv
  <2>2. password \in 0..1 /\ resetTo \in 0..1 /\ switches \in 0..MaxSwitches
        BY <1>1 DEF LoginInv
  <2>3. \A c \in OneCall : call[c].flow \in {"register", "password", "otp", "mfa", "magic"} \union {"none"}
        BY <1>1 DEF LoginInv, LoginStage
  <2> QED BY <2>1, <2>2, <2>3 DEF Logins!TypeOK
<1>2. ASSUME ResetInv PROVE Resets!TypeOK /\ Resets!ResetEndsOld
  <2>1. {exists, active, mfa} \subseteq BOOLEAN
        BY <1>2 DEF ResetInv
  <2>2. password \in 0..MaxPasswords /\ resetTo \in 0..MaxPasswords /\ switches \in 0..0
        BY <1>2, FlowsAssumption DEF ResetInv
  <2>3. \A c \in TwoCalls : call[c].flow \in {"password", "reset", "change"} \union {"none"}
        BY <1>2 DEF ResetInv, ResetStage
  <2>4. Resets!ResetEndsOld
        BY <1>2 DEF ResetInv, Ended, Resets!ResetEndsOld
  <2> QED BY <2>1, <2>2, <2>3, <2>4 DEF Resets!TypeOK
<1> QED BY <1>1, <1>2

\* A wrong code that was compared is counted, a consumed one was accepted and is never
\* accepted again (otp.service.ts); a login asks for the second factor while it is on, a
\* disabled account lets nobody in, and a reset ends the sessions of the password it
\* replaces (auth.engine.ts); a challenge completes one ceremony, a revoked passkey none, and
\* an old counter passes only where ceremonies overlapped (webauthn.service.ts): for any
\* number of calls, codes, passwords, switches, challenges and passkeys.
THEOREM CredentialsHold == AnySpec => []FactorsHold
<1>1. AnyInit => FactorInv
  <2> SUFFICES ASSUME AnyInit PROVE FactorInv
      OBVIOUS
  <2>1. OtpInv
        BY InitOtp DEF AnyInit
  <2>2. part = "resets" => ResetInv
        BY InitReset DEF AnyInit
  <2>3. part # "resets" => LoginInv
        BY InitLogin DEF AnyInit
  <2>4. PasskeyInv
        BY InitPasskeys DEF AnyInit
  <2> QED BY <2>1, <2>2, <2>3, <2>4 DEF FactorInv
<1>2. FactorInv /\ [AnyNext]_<<part, vars, loginVars, flowVars, keyVars>> => FactorInv'
  <2> SUFFICES ASSUME FactorInv, [AnyNext]_<<part, vars, loginVars, flowVars, keyVars>> PROVE FactorInv'
      OBVIOUS
  <2>1. part' = part
        BY DEF AnyNext
  <2>2. [Next]_vars
        BY DEF AnyNext
  <2>3. part = "resets" => [Resets!Next]_(Resets!vars)
        BY DEF AnyNext, flowVars, Resets!vars
  <2>4. part # "resets" => [Logins!Next]_(Logins!vars)
        BY DEF AnyNext, flowVars, Logins!vars
  <2>5. OtpInv'
        BY <2>2, StepOtp DEF FactorInv
  <2>6. part = "resets" => ResetInv'
        BY <2>3, ResetStep DEF FactorInv
  <2>7. part # "resets" => LoginInv'
        BY <2>4, LoginStep DEF FactorInv
  <2>8. [Passkeys!Next]_(Passkeys!vars)
        BY DEF AnyNext, keyVars, Passkeys!vars
  <2>9. PasskeyInv'
        BY <2>8, KeyStep DEF FactorInv
  <2> QED BY <2>1, <2>5, <2>6, <2>7, <2>9 DEF FactorInv
<1>3. FactorInv => FactorsHold
  <2> SUFFICES ASSUME FactorInv PROVE FactorsHold
      OBVIOUS
  <2>1. TypeOK /\ AttemptBudget /\ ConsumedWasAccepted /\ NoReplay
        BY StepOtp DEF FactorInv
  <2>2. part = "logins" => Logins!TypeOK /\ Logins!SecondFactorAsked /\ Logins!DisabledStaysOut
        BY FlowTypes DEF FactorInv, LoginInv
  <2>3. part = "resets" => Resets!TypeOK /\ Resets!ResetEndsOld
        BY FlowTypes DEF FactorInv
  <2>4. /\ Passkeys!TypeOK /\ Passkeys!OneCeremony /\ Passkeys!RevokedStaysOut
        /\ Passkeys!OldCounterRefused
        BY DEF FactorInv, PasskeyInv, Ceremonies, Noticed, Counters
  <2> QED BY <2>1, <2>2, <2>3, <2>4 DEF FactorsHold
<1> QED BY <1>1, <1>2, <1>3, PTL DEF AnySpec
=============================================================================

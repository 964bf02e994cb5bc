------------------------- MODULE AccountTokensProofs -------------------------
(***************************************************************************)
(* For any number of calls and versions: a password change outdates every  *)
(* token minted before it unless it wrote over another bump; and, without  *)
(* refreshes, password changes and failures, a token that counts never     *)
(* carries a role the account has lost once the bump is made.              *)
(***************************************************************************)
EXTENDS MCAccountTokens, TLAPS

\* Every version a call has read, or that a token carries, was the account's.
Behind ==
  /\ \A t \in issued : t.version <= version
  /\ \A r \in Req : seen[r] <= version

\* The versions a password change outdated are behind for good.
RetiredBehind == \A v \in retired : v < version

PasswordInv == TypeOK /\ (~lost => Behind /\ RetiredBehind)

-----------------------------------------------------------------------------
(* Types *)

\* The account starts at version 0, with no token.
LEMMA InitType == Init => TypeOK
<1> SUFFICES ASSUME Init PROVE TypeOK
    OBVIOUS
<1>1. /\ enabled \in BOOLEAN /\ lost \in BOOLEAN
      /\ flag \in [Req -> BOOLEAN]
      BY Zenon DEF Init
<1>2. /\ pc \in [Req -> PC] /\ op \in [Req -> Operation \cup {"none"}]
      /\ verdict \in Verdict
      BY DEF Init, PC, Verdict
<1>3. version \in Nat /\ seen \in [Req -> Nat]
      BY DEF Init
<1> QED BY <1>1, <1>2, <1>3 DEF Init, TypeOK

\* Ending a call keeps the types.
LEMMA EndType ==
  ASSUME TypeOK, NEW r \in Req, End(r)
  PROVE  /\ pc' \in [Req -> PC] /\ op' \in [Req -> Operation \cup {"none"}]
         /\ seen' \in [Req -> Nat] /\ flag' \in [Req -> BOOLEAN]
  BY DEF End, TypeOK, PC

\* Minting a token keeps the type of the tokens.
LEMMA MintType ==
  ASSUME TypeOK, NEW v \in Nat, NEW b \in BOOLEAN, Mint(v, b)
  PROVE  issued' \subseteq Token
  BY DEF Mint, TypeOK, Token

\* A call that starts is at its first await, as one of the operations.
LEMMA BeginType ==
  ASSUME TypeOK, NEW r \in Req, NEW o \in Operation, NEW l \in PC, Begin(r, o, l)
  PROVE  pc' \in [Req -> PC] /\ op' \in [Req -> Operation \cup {"none"}]
  BY DEF Begin, TypeOK

\* A call that goes on is at an await.
LEMMA MoveType ==
  ASSUME TypeOK, NEW r \in Req, NEW k, NEW l \in PC, Move(r, k, l)
  PROVE  pc' \in [Req -> PC] /\ op' \in [Req -> Operation \cup {"none"}]
  BY DEF Move, TypeOK

\* Every step keeps the types.
LEMMA StepType == TypeOK /\ [Next]_vars => TypeOK'
<1> SUFFICES ASSUME TypeOK, [Next]_vars PROVE TypeOK'
    OBVIOUS
<1> USE DEF account, frame, history
<1>p. /\ "mint" \in PC /\ "rolesRead" \in PC /\ "bump" \in PC /\ "drop" \in PC
      /\ "write" \in PC /\ "read" \in PC /\ "store" \in PC /\ "roles" \in PC
      /\ "patchBump" \in PC
      BY DEF PC
<1>o. /\ "login" \in Operation /\ "refresh" \in Operation /\ "assignRole" \in Operation
      /\ "removeRole" \in Operation /\ "adminPatch" \in Operation /\ "validate" \in Operation
      BY DEF Operation
<1>0. CASE UNCHANGED vars
      BY <1>0 DEF vars, TypeOK
<1>1. ASSUME NEW r \in Req, LoginRead(r) \/ RefreshRoles(r) PROVE TypeOK'
      BY <1>1, <1>p, <1>o, BeginType DEF LoginRead, RefreshRoles, TypeOK
<1>2. ASSUME NEW r \in Req, MintTokens(r) \/ RefreshMint(r) PROVE TypeOK'
      BY <1>2, EndType, MintType DEF MintTokens, RefreshMint, MintVersion, TypeOK
<1>3. ASSUME NEW r \in Req, OAuthMint(r) PROVE TypeOK'
      BY <1>3, MintType DEF OAuthMint, TypeOK
<1>4. ASSUME NEW r \in Req, NEW b \in BOOLEAN, RoleWrite(r, b) PROVE TypeOK'
      BY <1>4, <1>p, <1>o, BeginType DEF RoleWrite, TypeOK
<1>5. ASSUME NEW r \in Req, RoleBump(r) PROVE TypeOK'
      BY <1>5, <1>p, MoveType DEF RoleBump, Bumped, TypeOK
<1>6. ASSUME NEW r \in Req, NEW o \in Operation, PasswordRead(r, o) PROVE TypeOK'
      BY <1>6, <1>p, BeginType DEF PasswordRead, TypeOK
<1>7. ASSUME NEW r \in Req, PasswordWrite(r) PROVE TypeOK'
  <2>1. {t.version : t \in issued} \subseteq Nat
        BY DEF TypeOK, Token
  <2>2. lost' \in BOOLEAN
        BY <1>7 DEF PasswordWrite, TypeOK
  <2>3. retired' \subseteq Nat
        BY <1>7, <2>1 DEF PasswordWrite, TypeOK
  <2>4. pc' \in [Req -> PC] /\ op' \in [Req -> Operation \cup {"none"}]
        BY <1>7, <1>p, MoveType DEF PasswordWrite
  <2> QED BY <1>7, <2>2, <2>3, <2>4 DEF PasswordWrite, NextVersion, TypeOK
<1>8. ASSUME NEW r \in Req, Invalidate(r) PROVE TypeOK'
  <2>1. pc' \in [Req -> PC] /\ op' \in [Req -> Operation \cup {"none"}]
        BY <1>8, <1>p, MoveType, EndType DEF Invalidate
  <2>2. seen' \in [Req -> Nat] /\ flag' \in [Req -> BOOLEAN]
        BY <1>8, EndType DEF Invalidate, TypeOK
  <2> QED BY <1>8, <2>1, <2>2 DEF Invalidate, TypeOK, Verdict
<1>9. ASSUME NEW r \in Req, NEW f, PatchFields(r, f) PROVE TypeOK'
      BY <1>9, <1>p, <1>o, BeginType DEF PatchFields, TypeOK
<1>10. ASSUME NEW r \in Req, NEW b \in BOOLEAN, PatchRole(r, b) PROVE TypeOK'
      BY <1>10, <1>p, MoveType DEF PatchRole, TypeOK
<1>11. ASSUME NEW r \in Req, PatchNoRole(r) PROVE TypeOK'
  <2>1. pc' \in [Req -> PC] /\ op' \in [Req -> Operation \cup {"none"}]
        BY <1>11, <1>p, MoveType, EndType DEF PatchNoRole
  <2>2. seen' \in [Req -> Nat] /\ flag' \in [Req -> BOOLEAN]
        BY <1>11, EndType DEF PatchNoRole, TypeOK
  <2> QED BY <1>11, <2>1, <2>2 DEF PatchNoRole, TypeOK
<1>12. ASSUME NEW r \in Req, PatchBump(r) PROVE TypeOK'
      BY <1>12, EndType DEF PatchBump, Bumped, TypeOK
<1>13. ASSUME NEW r \in Req, AdminDelete(r) PROVE TypeOK'
  <2>1. enabled' \in BOOLEAN
        BY <1>13, Zenon DEF AdminDelete
  <2> QED BY <1>13, <2>1 DEF AdminDelete, Bumped, TypeOK
<1>14. ASSUME NEW r \in Req, NEW t \in issued, ValidateMiss(r, t) PROVE TypeOK'
      BY <1>14, <1>p, <1>o, BeginType DEF ValidateMiss, TypeOK, Token
<1>15. ASSUME NEW r \in Req, ValidateRead(r) PROVE TypeOK'
      BY <1>15, <1>p, MoveType DEF ValidateRead, State, TypeOK
<1>16. ASSUME NEW r \in Req, ValidateStore(r) PROVE TypeOK'
      BY <1>16, EndType DEF ValidateStore, TypeOK, Verdict
<1>17. ASSUME NEW r \in Req, Fail(r) PROVE TypeOK'
      BY <1>17, EndType DEF Fail, TypeOK
<1>18. CASE VerdictExpire
      BY <1>18 DEF VerdictExpire, TypeOK, Verdict
<1> QED
    BY <1>0, <1>1, <1>2, <1>3, <1>4, <1>5, <1>6, <1>7, <1>8, <1>9, <1>10, <1>11, <1>12,
       <1>13, <1>14, <1>15, <1>16, <1>17, <1>18
    DEF Next, Start, Continue

-----------------------------------------------------------------------------
(* PasswordRetires *)

\* The account's version only grows, as long as no password change writes over
\* another bump, so what was read or signed stays behind it.
LEMMA StepPassword == PasswordInv /\ [Next]_vars => PasswordInv'
<1> SUFFICES ASSUME PasswordInv, [Next]_vars PROVE PasswordInv'
    OBVIOUS
<1>t. TypeOK /\ TypeOK'
      BY StepType DEF PasswordInv
<1> SUFFICES ASSUME ~lost' PROVE Behind' /\ RetiredBehind'
    BY <1>t DEF PasswordInv
<1>l. ~lost
      BY <1>t DEF TypeOK, Next, vars, Start, Continue, history, LoginRead, RefreshRoles, OAuthMint,
         AdminDelete, RoleWrite, PatchRole, PatchFields, PasswordRead, ValidateMiss, MintTokens,
         RefreshMint, RoleBump, PasswordWrite, Invalidate, PatchNoRole, PatchBump, ValidateRead,
         ValidateStore, Fail, VerdictExpire
<1>b. Behind /\ RetiredBehind
      BY <1>l DEF PasswordInv
<1> USE <1>t, <1>b DEF TypeOK, Token, Behind, RetiredBehind, account, frame, history
<1>0. CASE UNCHANGED vars
      BY <1>0 DEF vars
<1>1. ASSUME NEW r \in Req, LoginRead(r) \/ RefreshRoles(r) PROVE Behind' /\ RetiredBehind'
      BY <1>1 DEF LoginRead, RefreshRoles, Begin
<1>2. ASSUME NEW r \in Req, MintTokens(r) \/ RefreshMint(r) PROVE Behind' /\ RetiredBehind'
      BY <1>2 DEF MintTokens, RefreshMint, MintVersion, Mint, End
<1>3. ASSUME NEW r \in Req, OAuthMint(r) PROVE Behind' /\ RetiredBehind'
      BY <1>3 DEF OAuthMint, Mint
<1>4. ASSUME NEW r \in Req, NEW b \in BOOLEAN, RoleWrite(r, b) \/ PatchRole(r, b)
      PROVE  Behind' /\ RetiredBehind'
      BY <1>4 DEF RoleWrite, PatchRole
<1>5. ASSUME NEW r \in Req, RoleBump(r) PROVE Behind' /\ RetiredBehind'
      BY <1>5 DEF RoleBump, Bumped
<1>6. ASSUME NEW r \in Req, NEW o, PasswordRead(r, o) PROVE Behind' /\ RetiredBehind'
      BY <1>6 DEF PasswordRead
<1>7. ASSUME NEW r \in Req, PasswordWrite(r) PROVE Behind' /\ RetiredBehind'
  <2>1. version = seen[r] /\ version' = version + 1
        BY <1>7, <1>l DEF PasswordWrite, NextVersion
  <2>2. \A v \in retired' : v \in retired \/ \E t \in issued : v = t.version
        BY <1>7 DEF PasswordWrite
  <2> QED BY <1>7, <2>1, <2>2 DEF PasswordWrite
<1>8. ASSUME NEW r \in Req, Invalidate(r) \/ PatchNoRole(r) PROVE Behind' /\ RetiredBehind'
      BY <1>8 DEF Invalidate, PatchNoRole, End
<1>9. ASSUME NEW r \in Req, NEW f, PatchFields(r, f) PROVE Behind' /\ RetiredBehind'
      BY <1>9 DEF PatchFields
<1>10. ASSUME NEW r \in Req, PatchBump(r) \/ AdminDelete(r) PROVE Behind' /\ RetiredBehind'
      BY <1>10 DEF PatchBump, AdminDelete, Bumped, End
<1>11. ASSUME NEW r \in Req, NEW t \in issued, ValidateMiss(r, t) PROVE Behind' /\ RetiredBehind'
      BY <1>11 DEF ValidateMiss
<1>12. ASSUME NEW r \in Req, ValidateRead(r) \/ ValidateStore(r) \/ Fail(r)
       PROVE  Behind' /\ RetiredBehind'
      BY <1>12 DEF ValidateRead, ValidateStore, Fail, End
<1>13. CASE VerdictExpire
      BY <1>13 DEF VerdictExpire
<1> QED
    BY <1>0, <1>1, <1>2, <1>3, <1>4, <1>5, <1>6, <1>7, <1>8, <1>9, <1>10, <1>11, <1>12, <1>13
    DEF Next, Start, Continue

\* After changePassword, resetPassword or resetPasswordWithToken the account never
\* again has the version of a token minted before, unless the write lost a bump.
THEOREM PasswordOutdates == Spec => []PasswordRetires
<1>1. Init => PasswordInv
  <2> SUFFICES ASSUME Init PROVE Behind /\ RetiredBehind
      BY InitType DEF PasswordInv
  <2> QED BY DEF Init, Behind, RetiredBehind
<1>2. PasswordInv => PasswordRetires
  <2> SUFFICES ASSUME PasswordInv, ~lost PROVE version \notin retired
      BY DEF PasswordRetires
  <2> QED BY DEF PasswordInv, TypeOK, RetiredBehind
<1> QED BY <1>1, <1>2, StepPassword, PTL DEF Spec

-----------------------------------------------------------------------------
(* CurrentTokenRole *)

\* The calls whose reads and writes of versions and roles do not cross.
Unmixed == RoleOps \cap {"refresh", "changePassword", "resetPassword"} = {}

\* Without those calls no frame holds a role, or a version to be written.
NoneMixed ==
  /\ \A r \in Req : pc[r] \notin {"rolesRead", "write"}
  /\ \A r \in Req : op[r] \notin {"refresh", "changePassword", "resetPassword"}

RoleInv == TypeOK /\ NoneMixed /\ Behind /\ CurrentTokenCurrentRole

\* A step that leaves the account and the tokens alone keeps the account's part of
\* the invariant when no call leaves its bump behind and no read is ahead.
LEMMA RolesKept ==
  ASSUME RoleInv, UNCHANGED <<version, role, issued>>,
         \A r \in Req : seen'[r] <= version,
         \A r \in Req : pc[r] = "bump" => pc'[r] = "bump"
  PROVE  Behind' /\ CurrentTokenCurrentRole'
  BY DEF RoleInv, Behind, CurrentTokenCurrentRole, TypeOK, Token

\* After a bump no token counts.
LEMMA BumpOutdates ==
  ASSUME RoleInv, version' = version + 1, UNCHANGED issued, seen' \in [Req -> Nat],
         \A r \in Req : seen'[r] <= version
  PROVE  Behind' /\ CurrentTokenCurrentRole'
  BY DEF RoleInv, Behind, CurrentTokenCurrentRole, TypeOK, Token

\* A role that is written is followed by a bump.
LEMMA RoleWritten ==
  ASSUME RoleInv, UNCHANGED <<version, issued, seen>>, NEW r \in Req, pc'[r] = "bump"
  PROVE  Behind' /\ CurrentTokenCurrentRole'
<1>1. Behind'
      BY DEF RoleInv, Behind
<1>2. CurrentTokenCurrentRole'
      BY DEF CurrentTokenCurrentRole
<1> QED BY <1>1, <1>2

\* A token that is minted has the account's role, or none.
LEMMA RoleSigned ==
  ASSUME RoleInv, UNCHANGED <<version, role>>, NEW v \in Nat, v <= version,
         NEW b \in BOOLEAN, b => role, Mint(v, b),
         \A r \in Req : seen'[r] <= version,
         \A r \in Req : pc[r] = "bump" => pc'[r] = "bump"
  PROVE  Behind' /\ CurrentTokenCurrentRole'
<1>1. \A t \in issued' : t \in issued \/ (t.version = v /\ t.role = b)
      BY DEF Mint
<1> QED BY <1>1 DEF RoleInv, Behind, CurrentTokenCurrentRole, TypeOK, Token

\* The helpers of the instance are those of the module, but for the calls that may start.
LEMMA SameHelpers ==
  /\ \A r \in Req : RoleCalls!End(r) => End(r)
  /\ \A v, b : RoleCalls!Mint(v, b) => Mint(v, b)
  /\ \A r \in Req : \A k, l : RoleCalls!Move(r, k, l) => Move(r, k, l)
  BY DEF RoleCalls!End, End, RoleCalls!Mint, Mint, RoleCalls!Move, Move

\* Where a call is after it starts, and which call it is.
LEMMA RoleBegin ==
  ASSUME TypeOK, Unmixed, NoneMixed, NEW r \in Req, NEW o \in Operation,
         NEW l \in PC \ {"rolesRead", "write"}, RoleCalls!Begin(r, o, l)
  PROVE  /\ pc' \in [Req -> PC] /\ op' \in [Req -> Operation \cup {"none"}]
         /\ NoneMixed' /\ o \in RoleOps
         /\ \A q \in Req : pc[q] = "bump" => pc'[q] = "bump"
  BY DEF RoleCalls!Begin, TypeOK, NoneMixed, Unmixed

\* Where a call is after it moved on.
LEMMA RoleMove ==
  ASSUME TypeOK, NoneMixed, NEW r \in Req, NEW k, NEW l \in PC \ {"rolesRead", "write"},
         RoleCalls!Move(r, k, l)
  PROVE  /\ pc' \in [Req -> PC] /\ op' \in [Req -> Operation \cup {"none"}]
         /\ NoneMixed' /\ pc'[r] = l
         /\ k # "bump" => \A q \in Req : pc[q] = "bump" => pc'[q] = "bump"
  BY DEF RoleCalls!Move, TypeOK, NoneMixed

\* A call that ended is nowhere, and what it read is dropped.
LEMMA RoleEnd ==
  ASSUME TypeOK, NoneMixed, NEW r \in Req, RoleCalls!End(r)
  PROVE  /\ pc' \in [Req -> PC] /\ op' \in [Req -> Operation \cup {"none"}]
         /\ seen' \in [Req -> Nat] /\ flag' \in [Req -> BOOLEAN]
         /\ NoneMixed'
         /\ Behind => \A q \in Req : seen'[q] <= version
         /\ pc[r] # "bump" => \A q \in Req : pc[q] = "bump" => pc'[q] = "bump"
<1>1. NoneMixed'
      BY DEF RoleCalls!End, TypeOK, NoneMixed
<1>2. Behind => \A q \in Req : seen'[q] <= version
      BY DEF RoleCalls!End, TypeOK, Behind
<1>3. pc[r] # "bump" => \A q \in Req : pc[q] = "bump" => pc'[q] = "bump"
      BY DEF RoleCalls!End, TypeOK
<1> QED BY <1>1, <1>2, <1>3, SameHelpers, EndType

\* Every step of these calls keeps the invariant.
LEMMA StepRoles ==
  ASSUME Unmixed PROVE RoleInv /\ RoleCalls!Next => RoleInv'
<1> SUFFICES ASSUME RoleInv, RoleCalls!Next PROVE RoleInv'
    OBVIOUS
<1>i. TypeOK /\ NoneMixed /\ Behind
      BY DEF RoleInv
<1> DEFINE Kept == TypeOK' /\ NoneMixed' /\ Behind' /\ CurrentTokenCurrentRole'
<1> USE <1>i DEF account, frame, history, RoleCalls!account, RoleCalls!frame, RoleCalls!history
<1>s. \A q \in Req : seen[q] <= version
      BY DEF Behind
<1>p. /\ "mint" \in PC /\ "bump" \in PC /\ "drop" \in PC /\ "read" \in PC
      /\ "store" \in PC /\ "roles" \in PC /\ "patchBump" \in PC
      BY DEF PC
<1>o. /\ "login" \in Operation /\ "assignRole" \in Operation /\ "removeRole" \in Operation
      /\ "adminPatch" \in Operation /\ "validate" \in Operation
      BY DEF Operation
<1>1. ASSUME NEW r \in Req, RoleCalls!LoginRead(r) PROVE Kept
  <2>1. /\ pc' \in [Req -> PC] /\ op' \in [Req -> Operation \cup {"none"}] /\ NoneMixed'
        /\ \A q \in Req : pc[q] = "bump" => pc'[q] = "bump"
        BY <1>1, <1>p, <1>o, RoleBegin DEF RoleCalls!LoginRead
  <2>2. TypeOK'
        BY <1>1, <2>1 DEF RoleCalls!LoginRead, TypeOK
  <2>3. \A q \in Req : seen'[q] <= version
        BY <1>1, <1>s DEF RoleCalls!LoginRead, TypeOK
  <2> QED BY <1>1, <2>1, <2>2, <2>3, RolesKept DEF RoleCalls!LoginRead
<1>2. ASSUME NEW r \in Req, RoleCalls!MintTokens(r) PROVE Kept
  <2>1. pc[r] # "bump" /\ RoleCalls!End(r) /\ Mint(seen[r], role)
        BY <1>2, SameHelpers DEF RoleCalls!MintTokens, RoleCalls!MintVersion
  <2>2. seen[r] \in Nat /\ role \in BOOLEAN /\ seen[r] <= version
        BY <1>s DEF TypeOK
  <2>3. TypeOK'
        BY <1>2, <2>1, <2>2, RoleEnd, MintType DEF RoleCalls!MintTokens, TypeOK
  <2> QED BY <1>2, <2>1, <2>2, <2>3, RoleEnd, RoleSigned DEF RoleCalls!MintTokens
<1>3. ASSUME NEW r \in Req, RoleCalls!OAuthMint(r) PROVE Kept
  <2>1. Mint(0, FALSE)
        BY <1>3, SameHelpers DEF RoleCalls!OAuthMint
  <2>2. TypeOK'
        BY <1>3, <2>1, MintType DEF RoleCalls!OAuthMint, TypeOK
  <2>3. 0 <= version
        BY DEF TypeOK
  <2> QED BY <1>3, <1>s, <2>1, <2>2, <2>3, RoleSigned DEF RoleCalls!OAuthMint, NoneMixed
<1>4. ASSUME NEW r \in Req, NEW b \in BOOLEAN, RoleCalls!RoleWrite(r, b) PROVE Kept
  <2>1. /\ pc' \in [Req -> PC] /\ op' \in [Req -> Operation \cup {"none"}] /\ NoneMixed'
        BY <1>4, <1>p, <1>o, RoleBegin DEF RoleCalls!RoleWrite
  <2>2. TypeOK'
        BY <1>4, <2>1 DEF RoleCalls!RoleWrite, TypeOK
  <2>3. pc'[r] = "bump"
        BY <1>4 DEF RoleCalls!RoleWrite, RoleCalls!Begin, TypeOK
  <2> QED BY <1>4, <2>1, <2>2, <2>3, RoleWritten DEF RoleCalls!RoleWrite
<1>5. ASSUME NEW r \in Req, RoleCalls!RoleBump(r) PROVE Kept
  <2>1. /\ pc' \in [Req -> PC] /\ op' \in [Req -> Operation \cup {"none"}] /\ NoneMixed'
        BY <1>5, <1>p, RoleMove DEF RoleCalls!RoleBump
  <2>2. TypeOK'
        BY <1>5, <2>1 DEF RoleCalls!RoleBump, RoleCalls!Bumped, TypeOK
  <2> QED BY <1>5, <1>s, <2>1, <2>2, BumpOutdates DEF RoleCalls!RoleBump, RoleCalls!Bumped, TypeOK
<1>6. ASSUME NEW r \in Req, RoleCalls!Invalidate(r) PROVE Kept
  <2>1. CASE RoleCalls!Move(r, "drop", "patchBump") /\ UNCHANGED <<seen, flag>>
    <3>1. TypeOK'
          BY <1>6, <2>1, <1>p, RoleMove DEF RoleCalls!Invalidate, TypeOK, Verdict
    <3> QED BY <1>6, <1>s, <2>1, <3>1, <1>p, RoleMove, RolesKept DEF RoleCalls!Invalidate
  <2>2. CASE RoleCalls!End(r)
    <3>1. TypeOK'
          BY <1>6, <2>2, RoleEnd DEF RoleCalls!Invalidate, TypeOK, Verdict
    <3> QED BY <1>6, <2>2, <3>1, RoleEnd, RolesKept DEF RoleCalls!Invalidate
  <2> QED BY <1>6, <2>1, <2>2 DEF RoleCalls!Invalidate, NoneMixed
<1>7. ASSUME NEW r \in Req, NEW f, RoleCalls!PatchFields(r, f) PROVE Kept
  <2>1. /\ pc' \in [Req -> PC] /\ op' \in [Req -> Operation \cup {"none"}] /\ NoneMixed'
        /\ \A q \in Req : pc[q] = "bump" => pc'[q] = "bump"
        BY <1>7, <1>p, <1>o, RoleBegin DEF RoleCalls!PatchFields
  <2>2. TypeOK'
        BY <1>7, <2>1 DEF RoleCalls!PatchFields, TypeOK
  <2> QED BY <1>7, <1>s, <2>1, <2>2, RolesKept DEF RoleCalls!PatchFields
<1>8. ASSUME NEW r \in Req, NEW b \in BOOLEAN, RoleCalls!PatchRole(r, b) PROVE Kept
  <2>1. /\ pc' \in [Req -> PC] /\ op' \in [Req -> Operation \cup {"none"}] /\ NoneMixed'
        /\ pc'[r] = "bump"
        BY <1>8, <1>p, RoleMove DEF RoleCalls!PatchRole
  <2>2. TypeOK'
        BY <1>8, <2>1 DEF RoleCalls!PatchRole, TypeOK
  <2> QED BY <1>8, <2>1, <2>2, RoleWritten DEF RoleCalls!PatchRole
<1>9. ASSUME NEW r \in Req, RoleCalls!PatchNoRole(r) PROVE Kept
  <2>1. CASE RoleCalls!Move(r, "roles", "patchBump") /\ UNCHANGED <<seen, flag>>
    <3>1. TypeOK'
          BY <1>9, <2>1, <1>p, RoleMove DEF RoleCalls!PatchNoRole, TypeOK
    <3> QED BY <1>9, <1>s, <2>1, <3>1, <1>p, RoleMove, RolesKept DEF RoleCalls!PatchNoRole
  <2>2. CASE RoleCalls!End(r)
    <3>1. TypeOK'
          BY <1>9, <2>2, RoleEnd DEF RoleCalls!PatchNoRole, TypeOK
    <3> QED BY <1>9, <2>2, <3>1, RoleEnd, RolesKept DEF RoleCalls!PatchNoRole
  <2> QED BY <1>9, <2>1, <2>2 DEF RoleCalls!PatchNoRole
<1>10. ASSUME NEW r \in Req, RoleCalls!PatchBump(r) PROVE Kept
  <2>1. TypeOK'
        BY <1>10, RoleEnd DEF RoleCalls!PatchBump, RoleCalls!Bumped, TypeOK
  <2> QED BY <1>10, <2>1, RoleEnd, BumpOutdates DEF RoleCalls!PatchBump, RoleCalls!Bumped
<1>11. ASSUME NEW r \in Req, RoleCalls!AdminDelete(r) PROVE Kept
  <2>1. enabled' \in BOOLEAN
        BY <1>11, Zenon DEF RoleCalls!AdminDelete
  <2>2. TypeOK'
        BY <1>11, <2>1 DEF RoleCalls!AdminDelete, RoleCalls!Bumped, TypeOK
  <2> QED BY <1>11, <1>s, <2>2, BumpOutdates
      DEF RoleCalls!AdminDelete, RoleCalls!Bumped, NoneMixed, TypeOK
<1>12. ASSUME NEW r \in Req, NEW t \in issued, RoleCalls!ValidateMiss(r, t) PROVE Kept
  <2>1. /\ pc' \in [Req -> PC] /\ op' \in [Req -> Operation \cup {"none"}] /\ NoneMixed'
        /\ \A q \in Req : pc[q] = "bump" => pc'[q] = "bump"
        BY <1>12, <1>p, <1>o, RoleBegin DEF RoleCalls!ValidateMiss
  <2>2. TypeOK'
        BY <1>12, <2>1 DEF RoleCalls!ValidateMiss, TypeOK, Token
  <2>3. \A q \in Req : seen'[q] <= version
        BY <1>12, <1>s DEF RoleCalls!ValidateMiss, TypeOK, Behind
  <2> QED BY <1>12, <2>1, <2>2, <2>3, RolesKept DEF RoleCalls!ValidateMiss
<1>13. ASSUME NEW r \in Req, RoleCalls!ValidateRead(r) PROVE Kept
  <2>1. TypeOK'
        BY <1>13, <1>p, RoleMove DEF RoleCalls!ValidateRead, RoleCalls!State, TypeOK
  <2> QED BY <1>13, <1>s, <1>p, <2>1, RoleMove, RolesKept DEF RoleCalls!ValidateRead
<1>14. ASSUME NEW r \in Req, RoleCalls!ValidateStore(r) PROVE Kept
  <2>1. TypeOK'
        BY <1>14, RoleEnd DEF RoleCalls!ValidateStore, TypeOK, Verdict
  <2> QED BY <1>14, <2>1, RoleEnd, RolesKept DEF RoleCalls!ValidateStore
<1>15. ASSUME RoleCalls!VerdictExpire PROVE Kept
  <2>1. TypeOK'
        BY <1>15 DEF RoleCalls!VerdictExpire, TypeOK, Verdict
  <2>2. NoneMixed'
        BY <1>15 DEF RoleCalls!VerdictExpire, NoneMixed
  <2>3. UNCHANGED <<version, role, issued, seen, pc>>
        BY <1>15 DEF RoleCalls!VerdictExpire
  <2>4. Behind' /\ CurrentTokenCurrentRole'
        BY <1>s, <2>3, RolesKept
  <2> QED BY <2>1, <2>2, <2>4
<1>16. ASSUME NEW r \in Req, NEW o,
              \/ RoleCalls!RefreshRoles(r) \/ RoleCalls!RefreshMint(r) \/ RoleCalls!Fail(r)
              \/ RoleCalls!PasswordRead(r, o) \/ RoleCalls!PasswordWrite(r)
       PROVE  FALSE
  BY <1>16
  DEF RoleCalls!RefreshRoles, RoleCalls!RefreshMint, RoleCalls!Fail, RoleCalls!PasswordRead,
      RoleCalls!PasswordWrite, RoleCalls!Begin, RoleCalls!Move, NoneMixed, Unmixed
<1>17. ASSUME NEW r \in Req, RoleCalls!Start(r) PROVE Kept
       BY <1>17, <1>1, <1>3, <1>4, <1>7, <1>8, <1>11, <1>12, <1>16 DEF RoleCalls!Start
<1>18. ASSUME NEW r \in Req, RoleCalls!Continue(r) PROVE Kept
       BY <1>18, <1>2, <1>5, <1>6, <1>9, <1>10, <1>13, <1>14, <1>16 DEF RoleCalls!Continue
<1>19. Kept
  <2>1. ASSUME NEW r \in Req, RoleCalls!Fail(r) PROVE Kept
        BY <2>1, <1>16
  <2> QED BY <1>15, <2>1, <1>17, <1>18 DEF RoleCalls!Next
<1> QED BY <1>19 DEF RoleInv

\* With any number of overlapping logins, OAuth grants, role changes, admin updates
\* and validations, a token of the current version carries the role only if the
\* account has it or the bump that outdates the token is still to come.
THEOREM RevokedRoleEnds == ASSUME Unmixed PROVE AnySpec => []CurrentTokenRole
<1> DEFINE Inv == part = "roles" => RoleInv
<1>1. AnyInit => Inv
  <2> SUFFICES ASSUME Init PROVE NoneMixed /\ Behind /\ CurrentTokenCurrentRole
      BY InitType DEF AnyInit, RoleInv
  <2> QED BY DEF Init, NoneMixed, Behind, CurrentTokenCurrentRole
<1>2. Inv /\ [AnyNext]_anyVars => Inv'
  <2> SUFFICES ASSUME Inv, [AnyNext]_anyVars, part' = "roles" PROVE RoleInv'
      OBVIOUS
  <2>1. CASE UNCHANGED anyVars
        BY <2>1 DEF anyVars, vars, account, frame, history, RoleInv, TypeOK, NoneMixed, Behind,
           CurrentTokenCurrentRole
  <2>2. CASE AnyNext
        BY <2>2, StepRoles DEF AnyNext
  <2> QED BY <2>1, <2>2
<1>3. Inv => CurrentTokenRole
      BY DEF RoleInv, CurrentTokenRole
<1> HIDE DEF Inv
<1> QED BY <1>1, <1>2, <1>3, PTL DEF AnySpec
=============================================================================

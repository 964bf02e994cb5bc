---------------------------- MODULE AccountTokens ----------------------------
(***************************************************************************)
(* Access-token revocation through tokenVersion: the calls that mint a     *)
(* token or bump the version (auth.engine.ts, authorization.service.ts,    *)
(* the admin routes) and accountState.service.ts, which every request asks *)
(* whether a token still counts.                                           *)
(*                                                                         *)
(* One account; one role stands for what its tokens may do.  Calls overlap *)
(* and a step of a call ends at an `await`.  Access tokens do not expire   *)
(* within the modelled time (15 minutes against a 30-second verdict).      *)
(***************************************************************************)
EXTENDS Integers

CONSTANTS
  Req,         \* concurrent calls
  Ops,         \* the entry points used in this model
  MayFail,     \* database errors and crashes happen
  MaxVersion   \* bound on the tokenVersion at which bumping calls start

Operation == {"login", "refresh", "oauth", "assignRole", "removeRole", "changePassword",
              "resetPassword", "validate", "adminPatch", "adminDelete"}

ASSUME OpsAssumption == Ops \subseteq Operation
ASSUME FailAssumption == MayFail \in BOOLEAN
ASSUME MaxVersionAssumption == MaxVersion \in Nat

VARIABLES
  enabled,   \* user.isActive
  version,   \* user.tokenVersion
  role,      \* a UserRoleAssignment exists
  verdict,   \* the cached account state accountState:<userId>
  issued,    \* access tokens that were minted: their version and role claims
  pc, op,    \* where a call is, and which call it is
  seen,      \* the version a call has read (or was presented with)
  flag,      \* the role it has read, or the verdict it has computed
  retired,   \* history: versions of the tokens a password change outdated
  lost       \* history: a password change has overwritten another bump

account == <<enabled, version, role>>
frame == <<pc, op, seen, flag>>
history == <<retired, lost>>
vars == <<account, verdict, issued, frame, history>>

Token == [version : Nat, role : BOOLEAN]
Verdict == {"none", "yes", "no"}

PC == {"idle", "mint", "rolesRead", "bump", "drop", "write", "read", "store",
       "roles", "patchBump"}

TypeOK ==
  /\ enabled \in BOOLEAN /\ version \in Nat /\ role \in BOOLEAN
  /\ verdict \in Verdict
  /\ issued \subseteq Token
  /\ pc \in [Req -> PC]
  /\ op \in [Req -> Operation \cup {"none"}]
  /\ seen \in [Req -> Nat]
  /\ flag \in [Req -> BOOLEAN]
  /\ retired \subseteq Nat /\ lost \in BOOLEAN

Init ==
  /\ enabled = TRUE /\ version = 0 /\ role \in BOOLEAN
  /\ verdict = "none"
  /\ issued = {}
  /\ pc = [r \in Req |-> "idle"]
  /\ op = [r \in Req |-> "none"]
  /\ seen = [r \in Req |-> 0]
  /\ flag = [r \in Req |-> FALSE]
  /\ retired = {} /\ lost = FALSE

-----------------------------------------------------------------------------
Begin(r, o, l) ==
  /\ pc[r] = "idle" /\ o \in Ops
  /\ pc' = [pc EXCEPT ![r] = l]
  /\ op' = [op EXCEPT ![r] = o]

Move(r, from, to) ==
  /\ pc[r] = from
  /\ pc' = [pc EXCEPT ![r] = to]
  /\ UNCHANGED op

End(r) ==
  /\ pc' = [pc EXCEPT ![r] = "idle"]
  /\ op' = [op EXCEPT ![r] = "none"]
  /\ seen' = [seen EXCEPT ![r] = 0]
  /\ flag' = [flag EXCEPT ![r] = FALSE]

Mint(v, b) == issued' = issued \cup {[version |-> v, role |-> b]}

\* Bound: no call that bumps the version starts at or beyond MaxVersion.
Room == version < MaxVersion

\* $inc of tokenVersion; the mutant forgets it.
NoBump == version
Bumped == version + 1

\* What a password change stores; the mutant stores the version it read.
SameVersion(r) == seen[r]
NextVersion(r) == seen[r] + 1

\* The account state computed for a presented version; the mutant leaves
\* isActive out.
StateOfVersion(v) == v = version
State(v) == enabled /\ v = version

\* mintTokens signs the version of the user document its caller read; the
\* mutant is off by one.
MintVersionBefore(r) == seen[r] - 1
MintVersion(r) == seen[r]

-----------------------------------------------------------------------------
(* Minting *)

\* loginPassword, loginOtp, verifyMfaLogin, redeemMagicLink: read the user,
\* refuse a disabled one, create the session.
LoginRead(r) ==
  /\ Begin(r, "login", "mint")
  /\ enabled
  /\ seen' = [seen EXCEPT ![r] = version]
  /\ UNCHANGED <<account, verdict, issued, flag, history>>

\* mintTokens: the roles are read now, the version was read with the user.
MintTokens(r) ==
  /\ pc[r] = "mint"
  /\ Mint(MintVersion(r), role)
  /\ End(r)
  /\ UNCHANGED <<account, verdict, history>>

\* refreshSession reads the roles first and the user's version afterwards.
RefreshRoles(r) ==
  /\ Begin(r, "refresh", "rolesRead")
  /\ flag' = [flag EXCEPT ![r] = role]
  /\ UNCHANGED <<account, verdict, issued, seen, history>>

RefreshMint(r) ==
  /\ pc[r] = "rolesRead"
  /\ Mint(version, flag[r])
  /\ End(r)
  /\ UNCHANGED <<account, verdict, history>>

\* The OAuth token endpoint signs no tokenVersion and no roles; the middleware
\* reads a missing version as 0.
OAuthMint(r) ==
  /\ pc[r] = "idle" /\ "oauth" \in Ops
  /\ Mint(0, FALSE)
  /\ UNCHANGED <<account, verdict, frame, history>>

-----------------------------------------------------------------------------
(* Role changes *)

\* assignRole, removeRole: the assignment first, then invalidateUserTokens.
RoleWrite(r, b) ==
  /\ Begin(r, IF b THEN "assignRole" ELSE "removeRole", "bump")
  /\ Room
  /\ role' = b
  /\ UNCHANGED <<enabled, version, verdict, issued, seen, flag, history>>

RoleBump(r) ==
  /\ Move(r, "bump", "drop")
  /\ version' = Bumped
  /\ UNCHANGED <<enabled, role, verdict, issued, seen, flag, history>>

-----------------------------------------------------------------------------
(* Password changes *)

\* changePassword, resetPassword, resetPasswordWithToken read the user ...
PasswordRead(r, o) ==
  /\ o \in {"changePassword", "resetPassword"}
  /\ Begin(r, o, "write")
  /\ Room
  /\ seen' = [seen EXCEPT ![r] = version]
  /\ UNCHANGED <<account, verdict, issued, flag, history>>

\* ... and store the version they read plus one.
PasswordWrite(r) ==
  /\ Move(r, "write", "drop")
  /\ version' = NextVersion(r)
  /\ retired' = retired \cup {t.version : t \in issued}
  /\ lost' = (lost \/ version # seen[r])
  /\ UNCHANGED <<enabled, role, verdict, issued, seen, flag>>

\* accountState.invalidate.  A reset then revokes the sessions, creates one and
\* mints tokens from the user document it read at the start; a role change made
\* by the admin route goes on there.
Invalidate(r) ==
  /\ pc[r] = "drop"
  /\ verdict' = "none"
  /\ \/ op[r] = "resetPassword" /\ Move(r, "drop", "mint") /\ UNCHANGED <<seen, flag>>
     \/ op[r] = "adminPatch" /\ Move(r, "drop", "patchBump") /\ UNCHANGED <<seen, flag>>
     \/ op[r] \notin {"resetPassword", "adminPatch"} /\ End(r)
  /\ UNCHANGED <<account, issued, history>>

-----------------------------------------------------------------------------
(* The admin routes: they bump the version without dropping the verdict *)

\* PATCH /users/:id writes the fields of the body ...
PatchFields(r, fields) ==
  /\ Room
  /\ fields \in SUBSET {"enable", "password"} \cup SUBSET {"disable", "password"}
  /\ Begin(r, "adminPatch", "roles")
  /\ enabled' = (("enable" \in fields) \/ (enabled /\ "disable" \notin fields))
  /\ flag' = [flag EXCEPT ![r] = fields \cap {"disable", "password"} # {}]
  /\ UNCHANGED <<version, role, verdict, issued, seen, history>>

\* ... then the difference of the roles, each through assignRole or removeRole,
\* or none ...
PatchRole(r, b) ==
  /\ Move(r, "roles", "bump")
  /\ role' = b
  /\ flag' = [flag EXCEPT ![r] = TRUE]
  /\ UNCHANGED <<enabled, version, verdict, issued, seen, history>>

PatchNoRole(r) ==
  /\ pc[r] = "roles"
  /\ \/ flag[r] /\ Move(r, "roles", "patchBump") /\ UNCHANGED <<seen, flag>>
     \/ ~flag[r] /\ End(r)
  /\ UNCHANGED <<account, verdict, issued, history>>

\* ... and bumps the version at the end.
PatchBump(r) ==
  /\ pc[r] = "patchBump"
  /\ version' = Bumped
  /\ End(r)
  /\ UNCHANGED <<enabled, role, verdict, issued, history>>

\* DELETE /users/:id (its effect on the sessions is in SessionService).
AdminDelete(r) ==
  /\ pc[r] = "idle" /\ "adminDelete" \in Ops
  /\ Room
  /\ enabled' = FALSE
  /\ version' = Bumped
  /\ UNCHANGED <<role, verdict, issued, frame, history>>

-----------------------------------------------------------------------------
(* accountState.validate *)

\* A cached verdict answers for whatever token is presented and changes
\* nothing; otherwise the user is read.
ValidateMiss(r, t) ==
  /\ Begin(r, "validate", "read")
  /\ verdict = "none"
  /\ seen' = [seen EXCEPT ![r] = t.version]
  /\ UNCHANGED <<account, verdict, issued, flag, history>>

ValidateRead(r) ==
  /\ Move(r, "read", "store")
  /\ flag' = [flag EXCEPT ![r] = State(seen[r])]
  /\ UNCHANGED <<account, verdict, issued, seen, history>>

\* The verdict is cached and returned.
ValidateStore(r) ==
  /\ pc[r] = "store"
  /\ verdict' = IF flag[r] THEN "yes" ELSE "no"
  /\ End(r)
  /\ UNCHANGED <<account, issued, history>>

-----------------------------------------------------------------------------
\* CACHE_TTL_SECONDS have passed.
VerdictExpire ==
  /\ verdict # "none"
  /\ verdict' = "none"
  /\ UNCHANGED <<account, issued, frame, history>>

\* An await rejects (validate then throws SecurityDependencyError and grants
\* nothing) or the process crashes.
Fail(r) ==
  /\ MayFail
  /\ pc[r] # "idle"
  /\ End(r)
  /\ UNCHANGED <<account, verdict, issued, history>>

Continue(r) ==
  \/ MintTokens(r) \/ RefreshMint(r)
  \/ RoleBump(r) \/ PasswordWrite(r) \/ Invalidate(r)
  \/ PatchNoRole(r) \/ PatchBump(r)
  \/ ValidateRead(r) \/ ValidateStore(r)

Start(r) ==
  \/ LoginRead(r) \/ RefreshRoles(r) \/ OAuthMint(r)
  \/ AdminDelete(r)
  \/ \E b \in BOOLEAN : RoleWrite(r, b) \/ PatchRole(r, b)
  \/ \E fields \in SUBSET {"enable", "disable", "password"} : PatchFields(r, fields)
  \/ \E o \in Operation : PasswordRead(r, o)
  \/ \E t \in issued : ValidateMiss(r, t)

Next ==
  \/ \E r \in Req : Start(r) \/ Continue(r) \/ Fail(r)
  \/ VerdictExpire

Spec == Init /\ [][Next]_vars

\* Promises settle and the cache honours its TTL.
FairSpec == /\ Spec
            /\ \A r \in Req : WF_vars(Continue(r))
            /\ WF_vars(VerdictExpire)

-----------------------------------------------------------------------------
(* Properties *)

\* No privilege outlives its revocation in a token that still counts: a token of
\* the current version carries the role only if the account still has it, or a
\* role change has not reached its bump yet.
CurrentTokenCurrentRole ==
  \A t \in issued :
    t.version = version /\ t.role /\ ~role =>
      \E r \in Req : pc[r] = "bump"

\* A password change outdates every token minted before it: unless one password
\* change wrote over a bump made since it read the user, the account never again
\* has the version of such a token, whatever else overlaps or fails.
PasswordRetires == ~lost => version \notin retired

\* A disabled account is refused in the end, although the admin routes leave a
\* cached verdict behind and reads in flight may still store one.
DisabledRefused == <>[](~enabled) => <>[](verdict # "yes")
=============================================================================

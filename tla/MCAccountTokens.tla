--------------------------- MODULE MCAccountTokens ---------------------------
(***************************************************************************)
(* Access tokens of an account in two settings: every call, with failures; *)
(* and the calls that keep tokens and roles together, without failures and *)
(* with more versions.  part names the setting.                            *)
(***************************************************************************)
EXTENDS AccountTokens

CONSTANTS RoleOps, RoleVersions

VARIABLE part

RoleCalls == INSTANCE AccountTokens WITH Ops <- RoleOps, MayFail <- FALSE, MaxVersion <- RoleVersions

AnyInit == part \in {"all", "roles"} /\ Init

AnyNext ==
  /\ (part = "all" /\ Next) \/ (part = "roles" /\ RoleCalls!Next)
  /\ UNCHANGED part

anyVars == <<part, vars>>

\* The fairness of FairSpec.
AnySpec ==
  /\ AnyInit /\ [][AnyNext]_anyVars
  /\ \A r \in Req : WF_anyVars(Continue(r) /\ UNCHANGED part)
  /\ WF_anyVars(VerdictExpire /\ UNCHANGED part)

-----------------------------------------------------------------------------
(* Properties *)

\* A token that still counts never carries a role the account has lost, except while
\* the bump is on its way, where logins, role changes and validations overlap.
CurrentTokenRole == part = "roles" => TypeOK /\ CurrentTokenCurrentRole
=============================================================================

SPECIFICATION AnySpec
CONSTANTS
  Req = {r1, r2}
  Ops = {"login", "refresh", "oauth", "assignRole", "removeRole", "changePassword", "resetPassword", "validate", "adminPatch", "adminDelete"}
  MayFail = TRUE
  MaxVersion = 1
  RoleOps = {"login", "oauth", "assignRole", "removeRole", "validate", "adminPatch", "adminDelete"}
  RoleVersions = 2
INVARIANTS PasswordRetires CurrentTokenRole
PROPERTIES DisabledRefused
CHECK_DEADLOCK FALSE

SPECIFICATION Spec
CONSTANTS
  Req = {r1, r2}
  Ops = {"refresh", "assignRole", "removeRole"}
  MayFail = FALSE
  MaxVersion = 3
INVARIANTS CurrentTokenCurrentRole
CHECK_DEADLOCK FALSE

SPECIFICATION FairSpec
CONSTANTS
  Sess = {s1, s2}
  Req = {r1, r2}
  None = None
  Ops = {"create", "refresh", "revoke", "revokeAll", "check", "touch", "admin"}
  Transactional = TRUE
  MayFail = FALSE
  MaxActive = 1
INVARIANTS RotationWhole KilledFamilyDead
PROPERTIES LifecycleDiagram RotationSettles
CHECK_DEADLOCK FALSE

SPECIFICATION Spec
CONSTANTS
  Sess = {s1, s2}
  Req = {r1, r2}
  None = None
  Ops = {"create", "refresh", "revokeAll"}
  Transactional = TRUE
  MayFail = FALSE
  MaxActive = 2
INVARIANTS RevokeAllComplete
CHECK_DEADLOCK FALSE

SPECIFICATION Spec
CONSTANTS
  Sess = {s1, s2, s3}
  Req = {r1, r2}
  None = None
  Ops = {"create", "refresh"}
  Transactional = TRUE
  MayFail = TRUE
  MaxActive = 2
SYMMETRY Symmetry
INVARIANTS TypeOK OneActivePerFamily KilledFamilyUnusable
PROPERTIES ImplementsRefreshFamily
CHECK_DEADLOCK FALSE

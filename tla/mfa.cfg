SPECIFICATION Spec
CONSTANTS
  Req = {r1, r2}
  MFA_MAX_ATTEMPTS = 2
  MaxSecrets = 2
SYMMETRY Symmetry
INVARIANTS FactorHolds BoundedOvershoot
CHECK_DEADLOCK FALSE

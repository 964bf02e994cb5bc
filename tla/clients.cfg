SPECIFICATION AnySpec
CONSTANTS
  Code = {c1, c2}
  Req = {r1, r2, r3}
  Call = {k1, k2}
  Providers = 2
  attempts = 2
  failureThreshold = 2
  successThreshold = 2
INVARIANTS OneGrantPerCode OnlyProofConsumes
PROPERTIES ProvenIsGranted OtpDelivers
CHECK_DEADLOCK FALSE

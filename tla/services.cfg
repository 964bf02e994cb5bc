SPECIFICATION AnySpec
CONSTANTS
  Token = {t1, t2, t3}
  Kind = {reset, magic}
  Req = {r1, r2}
  Inst = {i1, i2}
  limit = 2
  durableFallback = TRUE
  Holder = {h1, h2, h3}
  None = None
  retries = 1
  Call = {c1, c2}
  MaxLogins = 1
  Query = {q1, q2}
  MaxChanges = 3
  MaxCalls = 4
SYMMETRY Symmetry
INVARIANTS RedeemedOnce OneLiveToken  
PROPERTIES ReplacedIsDead LeaseExclusive
CHECK_DEADLOCK FALSE

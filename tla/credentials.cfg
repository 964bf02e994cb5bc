SPECIFICATION AnySpec
CONSTANTS
  Req = {r1, r2}
  Purpose = {login, reset}
  maxAttempts = 2
  MaxCodes = 2
  Caller = {k1, k2, k3}
  MaxFailures = 3
  MaxCounter = 5
  OneCall = {k1}
  TwoCalls = {k1, k2}
  MaxPasswords = 3
  MaxSwitches = 3
  Challenge = {c1, c2, c3}
  Key = {p1}
  MaxCount = 2
  MaxDocs = 2
SYMMETRY Symmetry
 
PROPERTIES GuessBudget
CHECK_DEADLOCK FALSE

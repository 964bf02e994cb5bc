SPECIFICATION FairSpec
CONSTANTS
  Job = {j1, j2}
  maxAttempts = 2
  MaxTries = 3
  Delivery = {d1, d2}
  maxRetries = 2
  Call = {c1, c2}
  Event = {e1}
  Region = {g1, g2}
  MaxSubs = 2
  Server = {s1, s2}
  Seeded = TRUE
  MaxRequests = 1
  MaxCrashes = 2
PROPERTIES JobsSettle DeliveriesSettle RegionsAgree 
CHECK_DEADLOCK FALSE

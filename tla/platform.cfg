SPECIFICATION Spec
CONSTANTS
  Operator = {o1, o2}
  Docs = 3
  BATCH_SIZE = 2
  Imported = 2
  User = {u1, u2}
  Tool = {"script", "004"}
  Secrets = 2
  Inst = {i1, i2}
  Single = {i1}
  MaxKeys = 3
  FewKeys = 2
  Admin = {a1, a2}
  Member = {u1}
  Name = {"ADMIN", "r"}
  MaxRoles = 3
  PageSize = 1
  Algorithms = {"EdDSA", "hybrid-ES256-MLDSA65"}
  ttl = 1
  keyLife = 2
  MaxClock = 2
  MaxTokens = 2
  maxPayload = 3
  MaxFrames = 2
  MaxWrites = 1
  FieldValue = {v1, v2}
  MaxObjects = 3
  MaxEdits = 2
  Run = {r1, r2}
  OneRun = {r1}
  Coll = {c1, c2}
  OneColl = {c1}
  Key = {k1, NoKey}
  NoKey = NoKey
  Req = {q1, q2}
  OneReq = {q1}
  Limit = 1
  Call = {c1, c2}
  OneCall = {c1}
  People = 2
  Idp = {"google", "github", "microsoft", "apple", "facebook", "custom", "oidc"}
  TwoIdps = {"google", "oidc"}
  MaxBegun = 3
  MaxUnlinks = 1
  Request = {t1, t2}
  OneRequest = {t1}
  Code = {1}
  Scope = {s1}
  Uri = {w1, w2}
  MaxChanges = 3
  MaxIds = 3
  Cap = 2
INVARIANTS  ExactlyTheGood Framing   
   
CHECK_DEADLOCK FALSE

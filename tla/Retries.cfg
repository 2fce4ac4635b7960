SPECIFICATION Spec
CONSTANTS
  c1 = c1
  c2 = c2
  c3 = c3
  k1 = k1
  None = None
  Sessions = {s1}
  Customers = {c1, c2, c3}
  Sanctioned = {c2}
  Addressed = {c1}
  Claims <- BasicClaims
  Keys <- ToolKeys
  KeysFor <- OwnKeys
  Handlers = {p1, p2}
  MaxIdentityAttempts = 2
  MaxVerifyAttempts = 2
  MaxResends = 1
  MaxPerWindow = 3
  CodeTtl = 1
  RateWindow = 2
  Overlap = "retries"
  MaxRows = 4
  MaxIssues = 3
  MaxTime = 0
SYMMETRY HandlerSymmetry
INVARIANTS
  AuditAgrees
  ArtefactsAudited
  OneLiveCode
  AnswerDurable
  GuessBudget
PROPERTIES
  ClosedIsFrozen
  RefinesLifecycle

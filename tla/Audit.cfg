SPECIFICATION AuditSpec
CONSTANTS
  c1 = c1
  c2 = c2
  None = None
  Sessions = {s1}
  Customers = {c1, c2}
  Sanctioned = {c2}
  Addressed = {c1}
  Claims <- EvalClaims
  Keys <- Tools
  KeysFor <- EvalKeys
  Handlers = {p1}
  MaxIdentityAttempts = 2
  MaxVerifyAttempts = 1
  MaxResends = 1
  MaxPerWindow = 2
  CodeTtl = 1
  RateWindow = 1
  Overlap = "never"
  MaxRows = 5
  MaxIssues = 2
  MaxTime = 0
  MaxReplies = 5
INVARIANTS
  TrailCoversRecord
  StateBackedInRecord
  EvaluationAgrees

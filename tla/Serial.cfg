SPECIFICATION Spec
CONSTANTS
  c1 = c1
  c2 = c2
  c3 = c3
  k1 = k1
  None = None
  Sessions = {s1}
  Customers = {c1, c2, c3}
  Sanctioned = {c2}
  Addressed = {c1}
  Claims <- AllClaims
  Keys = {k1}
  KeysFor <- ReusedKey
  Handlers = {p1}
  MaxIdentityAttempts = 2
  MaxVerifyAttempts = 2
  MaxResends = 1
  MaxPerWindow = 2
  CodeTtl = 1
  RateWindow = 2
  Overlap = "never"
  MaxRows = 5
  MaxIssues = 3
  MaxTime = 2
INVARIANTS
  TypeOK
  EndingBacked
  ProspectsApart
  AttemptBudget
  ResendBudget
PROPERTIES
  MovesAllowed
  NewestCodeOnly
  CodesExpire

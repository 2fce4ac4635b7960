SPECIFICATION FairSpec
CONSTANTS
  c1 = c1
  c2 = c2
  c3 = c3
  k1 = k1
  None = None
  Sessions = {s1}
  Customers = {c1, c2, c3}
  Sanctioned = {c2}
  Addressed = {c1}
  Claims <- GoodClaims
  Keys = {k1}
  KeysFor <- HandoffCalls
  Handlers = {p1, p2}
  MaxIdentityAttempts = 2
  MaxVerifyAttempts = 2
  MaxResends = 1
  MaxPerWindow = 2
  CodeTtl = 1
  RateWindow = 2
  Overlap = "always"
  MaxRows = 3
  MaxIssues = 2
  MaxTime = 0
PROPERTIES
  EveryCallEnds
  EscalationLands

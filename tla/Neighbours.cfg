SPECIFICATION Spec
CONSTANTS
  c1 = c1
  c2 = c2
  c3 = c3
  k1 = k1
  None = None
  Sessions = {s1, s2}
  Customers = {c1, c2, c3}
  Sanctioned = {c2}
  Addressed = {c1}
  Claims <- NeighbourClaims
  Keys = {k1}
  KeysFor <- PasscodeCalls
  Handlers = {p1, p2}
  MaxIdentityAttempts = 2
  MaxVerifyAttempts = 2
  MaxResends = 1
  MaxPerWindow = 2
  CodeTtl = 1
  RateWindow = 1
  Overlap = "one_issuer"
  MaxRows = 2
  MaxIssues = 3
  MaxTime = 2
SYMMETRY BothSymmetries
INVARIANTS
  VerifiedOwner
  RateLimit

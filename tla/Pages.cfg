SPECIFICATION JourneySpec
CONSTANTS
  Links = {l1}
  Unknown = unknown
  Handlers = {w1, w2, w3}
  None = None
  LinkTtl = 1
  MaxTime = 3
  MaxRetries = 1
  Timeout = 12
  Durations = {12}
  SlowWaits = 1
  Budget = 26
SYMMETRY Symmetry
INVARIANTS
  TypeOK
  SpentWhenSubmitted
  RefusedStaysDead
  ThanksForRecorded
  SendTypeOK
  VerdictJustified
  SendWithinBudget

SPECIFICATION SendSpec
CONSTANTS
  MaxRetries = 1
  Timeout = 12
  Durations = {1, 12}
  SlowWaits = 2
  Budget = 26
INVARIANTS
  SendWithinBudget

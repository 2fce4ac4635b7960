SPECIFICATION Spec
CONSTANTS
  Links = {l1}
  Unknown = unknown
  Handlers = {w1, w2}
  None = None
  LinkTtl = 1
  MaxTime = 1
INVARIANTS
  SubmittedOnce

\* As Sync, but an answer to a page request may arrive in part.
SPECIFICATION Spec
CONSTANTS
  Threads = {t1}
  Old = 1
  MaxPhone = 4
  PageSize = 2
  MaxGen = 2
  MaxFaults = 1
  Cut = TRUE
  None = None
CHECK_DEADLOCK FALSE
INVARIANTS
  NoGap

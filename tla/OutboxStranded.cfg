\* A pass dies between the claim of a scheduled message and its INSERT.
SPECIFICATION Spec
CONSTANTS
  Ids = {m1}
  TuiPasses = {t1}
  DaemonPasses = {}
  MaxAttempts = 2
  Limit = 1
  MaxTries = 0
  None = None
  Allowed <- Restarted
INVARIANT
  ReleasedIsQueued

\* A command writes back a row that was sent meanwhile.
SPECIFICATION Spec
CONSTANTS
  Ids = {m1}
  TuiPasses = {t1}
  DaemonPasses = {d}
  MaxAttempts = 2
  Limit = 1
  MaxTries = 0
  None = None
  Allowed <- Commanded
PROPERTY
  SentNotRequeued

\* The daemon alone drains two messages.
SPECIFICATION FairSpec
CONSTANTS
  Ids = {m1, m2}
  TuiPasses = {}
  DaemonPasses = {d}
  MaxAttempts = 2
  Limit = 1
  MaxTries = 3
  None = None
  Allowed <- Steady
INVARIANTS
  AttemptBudget
  MirrorAgrees
  ScheduleAgrees
PROPERTIES
  OldestFirst
  EveryMessageEnds

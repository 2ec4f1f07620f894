\* Two TUI passes list one row before either claims it.
SPECIFICATION Spec
CONSTANTS
  Ids = {m1}
  TuiPasses = {t1, t2}
  DaemonPasses = {}
  MaxAttempts = 2
  Limit = 1
  MaxTries = 3
  None = None
  Allowed <- Calm
INVARIANT
  AttemptBudget

\* Overlapping TUI passes beside the daemon, with failures and restarts.
SPECIFICATION Spec
CONSTANTS
  Ids = {m1}
  TuiPasses = {t1, t2}
  DaemonPasses = {d}
  MaxAttempts = 2
  Limit = 1
  MaxTries = 0
  None = None
  Allowed <- Unattended
SYMMETRY Symmetry
INVARIANTS
  OneOwner
PROPERTIES
  RulesKept
  TerminalIsFinal

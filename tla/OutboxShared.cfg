\* One TUI pass, the daemon and the user on one message.
SPECIFICATION Spec
CONSTANTS
  Ids = {m1}
  TuiPasses = {t1}
  DaemonPasses = {d}
  MaxAttempts = 2
  Limit = 1
  MaxTries = 0
  None = None
  Allowed <- Disturbed
INVARIANTS
  TypeOK
  HandedWithinGrant
  NeverEarly
PROPERTY
  ImplementsDelivery

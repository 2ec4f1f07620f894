\* A conversation, a page smaller than what can arrive between two sessions, a
\* session that replaces another, and two failed calls, dropped streams or refused
\* merges. With the phone silent and the user away the client only waits.
SPECIFICATION FairSpec
CONSTANTS
  Threads = {t1}
  Old = 1
  MaxPhone = 3
  PageSize = 1
  MaxGen = 2
  MaxFaults = 2
  Cut = FALSE
  None = None
CHECK_DEADLOCK FALSE
INVARIANTS
  TypeOK
  NoGap
PROPERTIES
  AnchorForward
  CaughtUp

\* Writing to one person and to one other, with the undo window.
SPECIFICATION Spec
SYMMETRY Symmetry
CONSTANTS
  Others = {bob}
  Texts = {a, b}
  Empty = Empty
  None = None
  UndoWindow = TRUE
  OpenAtStart = FALSE
  Presses = 2
  Allowed <- Writing
INVARIANTS
  TypeOK
  OncePerPress
  TakenBackStays
  LockedForSend
  EditorIsDraft
  LeavesATrace
PROPERTIES
  OnlyToldFailed
  TextKept

\* Another text is sent after a retry was prepared.
SPECIFICATION Spec
SYMMETRY Symmetry
CONSTANTS
  Others = {}
  Texts = {a, b}
  Empty = Empty
  None = None
  UndoWindow = FALSE
  OpenAtStart = FALSE
  Presses = 2
  Allowed <- Retrying
INVARIANTS
  ShownAsSent

\* Started with --open on a conversation that has a draft.
SPECIFICATION Spec
SYMMETRY Symmetry
CONSTANTS
  Others = {bob}
  Texts = {a, b}
  Empty = Empty
  None = None
  UndoWindow = TRUE
  OpenAtStart = TRUE
  Presses = 2
  Allowed <- Reopening
INVARIANTS
  EditorIsDraft

SPECIFICATION DialSpec
CONSTANT MaxLen = 2
INVARIANTS
  SelectionInText
  DeleteUndoesEnter
PROPERTY HeardUnlessEight
CHECK_DEADLOCK FALSE

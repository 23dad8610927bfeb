CONSTANTS
  Chars = {a}
  NL = nl
  MaxLines = 2
  ErrorLines = 2
  MaxChunk = 3
  MaxText = 8
SPECIFICATION LogSpec
INVARIANTS ShowsTail ErrorIsTail CutOffShowsNoTail
CHECK_DEADLOCK FALSE

SPECIFICATION Spec
CONSTANTS
  Piece = 2
  Spaces = {2, 3}
  Lengths = {0, 3}
  Fragments = FALSE
  ServerFirst = FALSE
  MaxFrames = 2
  MaxWrites = 1
INVARIANT LongMessagesRead
\* A connection may end.
CHECK_DEADLOCK FALSE

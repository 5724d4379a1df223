SPECIFICATION FairSpec
CONSTANTS
  Piece = 2
  Spaces = {2, 3}
  Lengths = {0, 2}
  Fragments = FALSE
  ServerFirst = FALSE
  MaxFrames = 3
  MaxWrites = 1
INVARIANTS PongsEchoPings
PROPERTIES ImplementsByteStream AllBytesArrive
\* A connection may end.
CHECK_DEADLOCK FALSE

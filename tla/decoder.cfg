SPECIFICATION Spec
CONSTANTS
  CRC16 <- CRC16IBM
  Pieces <- MCPieces
  MaxPieces = 3
  MaxRead = 5
INVARIANTS CutsDoNotMatter OthersSurvive NothingInvented
\* A stream ends.
CHECK_DEADLOCK FALSE

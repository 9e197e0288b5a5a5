CONSTANTS
  Size = 4
  NoByte = NoByte
  Bytes <- AllBytes
  Strokes <- AllStrokes
  MaxStrokes <- Limits
SPECIFICATION KbSpec
INVARIANTS StrokesAreReported Resynchronises
PROPERTY CatchesUp
CHECK_DEADLOCK FALSE

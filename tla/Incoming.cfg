SPECIFICATION Spec
CONSTANTS
  Items <- MCItems
  PieceSize = 6
  MaxItems = 4
INVARIANTS
  HeardIsPlain
  ShownIsReceived
CHECK_DEADLOCK FALSE

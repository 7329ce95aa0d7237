CONSTANTS
  Asks = {a1, a2}
  MaxPieces = 1
  NoReply = NoReply
SPECIFICATION FairSpec
PROPERTY DroppedTurnIsFinished
CHECK_DEADLOCK FALSE

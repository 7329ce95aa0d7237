CONSTANTS
  Asks = {a1, a2}
  MaxPieces = 1
  NoReply = NoReply
SPECIFICATION Spec
INVARIANT EveryAskIsSpokenTo
CHECK_DEADLOCK FALSE

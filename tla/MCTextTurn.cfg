CONSTANTS
  Asks = {a1, a2}
  MaxPieces = 1
  NoReply = NoReply
SPECIFICATION FairSpec
INVARIANTS
  ToldTheWholeReply
  RefusalLeaksNothing
  StatusIsEarned
  FramesInOrder
PROPERTIES
  KeepsContract
  EventuallyTold
CHECK_DEADLOCK FALSE

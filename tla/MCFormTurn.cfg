CONSTANTS
  Attempts = 2
  Delays = {later}
  NoDelay = NoDelay
SPECIFICATION FairSpec
INVARIANTS
  SentOnlyWhenFit
  ToldHowTheCallEnded
PROPERTIES
  KeepsContract
  NothingSentAfterTheEnd
  EventuallyTold
CHECK_DEADLOCK FALSE

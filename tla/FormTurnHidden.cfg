CONSTANTS
  Attempts = 2
  Delays = {later}
  NoDelay = NoDelay
SPECIFICATION Spec
INVARIANT FilingIsNotHidden
CHECK_DEADLOCK FALSE

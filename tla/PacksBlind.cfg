CONSTANTS
  mandi = mandi  grievance = grievance
  Order <- MCOrder
  ApiPacks = {grievance}
  NoEntry = {}
  NoContext = {}
  NoFilters = {}
  Breaks = {}
  Workers = {w1, w2}
  MaxBoots = 2
  Gone = Gone
SPECIFICATION Spec
INVARIANT
  NeverBootsBlind
CHECK_DEADLOCK FALSE

CONSTANTS
  india = india  bihar = bihar  champaran = champaran  madhubani = madhubani
  up = up  barabanki = barabanki  fatehpur = fatehpur  fatehgarh = fatehgarh
  kanha = kanha  kanhachatti = kanhachatti  biharsharif = biharsharif  chandigarh = chandigarh
  kenya = kenya  tanzania = tanzania  nairobi = nairobi  city = city
  nakuru = nakuru  rongai = rongai  bahati = bahati  tanga = tanga
  IN_BR = IN_BR  IN_UP = IN_UP  KE = KE  TZ = TZ
  east = east  west = west  north = north  far = far
  None = None
  Names <- MCNames
  Regions = {IN_BR, IN_UP, KE, TZ}
  Points <- MCPoints
  Km <- MCKm
  NearestMaxKm = 50
  MaxChoices = 2
  Rows <- MCRows
  Keys <- MCKeys
  Starts <- MCStarts
  Features <- MCFeatures
  Said <- MCSaid
  Locations <- MCLocations
  MaxTurns = 4
SPECIFICATION Spec
INVARIANTS
  AsksAgainOfAGroup
CHECK_DEADLOCK FALSE

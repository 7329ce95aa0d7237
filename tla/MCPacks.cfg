CONSTANTS
  mandi = mandi  grievance = grievance
  Order <- MCOrder
  ApiPacks = {grievance}
  NoEntry = {}
  NoContext = {grievance}
  NoFilters = {}
  Breaks = {}
  Workers = {w1, w2}
  MaxBoots = 3
  Gone = Gone
  blank = blank  short = short  long = long  crop = crop  water = water  pm = pm
  desk1 = desk1  named1 = named1  desk2 = desk2  named2 = named2
  yes = yes  yesText = yesText
  Folders <- MCFolders
  Submissions <- MCSubmissions
  Desks <- MCDesks
  Replies <- MCReplies
  Values <- MCValues
  Length <- MCLength
  TextOf <- MCTextOf
  Blank = {blank}
  Unlimited = 9
  None = None
  onion = onion  rice = rice  c23 = c23  c24 = c24  c99 = c99  pune = pune  m1806 = m1806
  solapur = solapur  p5d = p5d  pt12h = pt12h  forecast = forecast  observed = observed
  rain = rain  lab = lab  store = store  ctx = ctx  here1 = here1  there = there  today = today
  sowing = sowing
  Schemas <- MCSchemas
  Offers <- MCOffers
  Written <- MCWritten
  Json <- MCJson
  ReadsAs <- MCReadsAs
  MaxDepth = 4
  Structural <- MCStructural
  Point <- MCPoint
  Today <- MCToday
  Null = Null
SYMMETRY Interchangeable
SPECIFICATION PacksSpec
INVARIANTS
  IndexesAgree
  AloneServesAll
  ServesWhatItCanFinish
  FiledAsThePackAsks
  TypedValuesAreNotKept
  ModelRewritesNothing
PROPERTIES
  AppearsWhole
CHECK_DEADLOCK FALSE

CONSTANTS
  weather = weather  price = price  scheme = scheme  grievance = grievance
  forecast = forecast  mandi = mandi  store = store  complaint = complaint
  here = here  there = there
  A = A  B = B  C = C
  Categories = {weather, price, scheme, grievance}
  Scheme = scheme
  Grievance = grievance
  Complaint = complaint
  Types = {forecast, mandi, store, complaint}
  Index <- MCIndex
  PlaceBound = {forecast, store}
  Points = {here, there}
  Providers = {A, B, C}
  Questions <- MCQuestions
  Networks <- MCNetworks
  Registries <- MCRegistries
  a1 = a1  a2 = a2
  c1 = c1  c2 = c2  c3 = c3
  p1 = p1  p2 = p2
  t1 = t1  t2 = t2
  Asks = {a1, a2}
  Candidates = {c1, c2, c3}
  TypeOf <- MCTypeOf
  ProviderOf <- MCProviderOf
  PlaceFree = {t2}
  Turns <- MCTurns
  MaxCalls = 3
  NoPick = NoPick
  Attempts = 3
  Delays = {soon, later}
  NoDelay = NoDelay
SPECIFICATION FairCalls
INVARIANTS
  ServedFromWhereAsked
  NothingIsLost
  EmptyIsExplained
  RankedServeRanked
  OneFailureCostsNothing
  AnswersAreSaid
  OneMessagePerFiling
  RetriedOnlyWhenWelcome
  ReportsTheLastAttempt
PROPERTIES
  GathersAsPromised
  EveryCallReturns
CHECK_DEADLOCK FALSE

CONSTANTS
  phone = phone  card = card  nine = nine  five = five
  one = one  two = two  phone1 = phone1  card1 = card1  w = w  mobile = mobile
  Entities = {phone, card}
  Values = {nine, five}
  Keeps = {phone}
  MaxLength = 4
  Texts = 2
  Reports <- MCReports
  Digits = {one, two}
  Numeral <- MCNumeral
  Known <- MCKnown
  TagNames = {phone1, card1}
  Value <- MCValue
  Drafts <- MCDrafts
  Question <- MCQuestion
  Word = w
  MaxPiece = 3
  india = india  bihar = bihar  champaran = champaran  madhubani = madhubani
  up = up  barabanki = barabanki  fatehpur = fatehpur  fatehgarh = fatehgarh
  kanha = kanha  kanhachatti = kanhachatti  biharsharif = biharsharif  chandigarh = chandigarh
  kenya = kenya  tanzania = tanzania  nairobi = nairobi  city = city
  nakuru = nakuru  rongai = rongai  bahati = bahati  tanga = tanga
  IN_BR = IN_BR  IN_UP = IN_UP  KE = KE  TZ = TZ
  east = east  west = west  north = north  far = far
  None = None
  Names <- MCNames
  Regions = {IN_BR, IN_UP, KE, TZ}
  Points <- MCPoints
  Km <- MCKm
  NearestMaxKm = 50
  MaxChoices = 2
  Rows <- MCRows
  Keys <- MCKeys
  Starts <- MCStarts
  Features <- MCFeatures
  Said <- MCSaid
  Locations <- MCLocations
  MaxTurns = 4
  Cap = 4
  Requests <- MCRequests
  Absent = Absent
  damn = damn  heck = heck  rain = rain
  profanity = profanity  insults = insults  delete = delete  scope = scope
  Vocabulary <- MCVocabulary
  Questions <- MCQuestions
  PolicyIds = {profanity, insults, delete, scope}
  DssPolicies = {delete}
  Stranger = Stranger
  PolicyPacks <- MCPolicyPacks
  Unset = Unset
  ask = ask  said = said  fact = fact  note = note  blank = blank  empty = empty
  gu = gu  en = en  hi = hi  mr = mr  Gujr = Gujr  ind = ind  u = u
  Words = {ask, said, fact, note}
  Spaces = {blank, empty}
  Empty = empty
  Tongues <- MCTongues
  Singletons = {u}
  English <- MCEnglish
  Routes <- MCRoutes
  Prompts <- MCPrompts
  Broken <- MCBroken
  TurnTexts <- MCTurnTexts
  Answers <- MCAnswers
  Lost = Lost
SPECIFICATION WordsSpec
INVARIANTS
  AdmittedWithinTheCap
  ActsOnTheLastWord
  RedactedByRank
  OneTagPerValue
  FailsTheWayThePolicySays
  NeverAnotherPlace
  PickSettlesItsLine
  HereIsTheFarmer
  ReadsAsWritten
  EachTextInItsPlace
  RenderedInTheirLanguage
CHECK_DEADLOCK FALSE

CONSTANTS
  a1 = a1  a2 = a2
  c1 = c1  c2 = c2  c3 = c3
  p1 = p1  p2 = p2
  t1 = t1  t2 = t2
  Asks = {a1, a2}
  Candidates = {c1, c2, c3}
  TypeOf <- MCTypeOf
  ProviderOf <- MCProviderOf
  PlaceFree = {t2}
  Turns <- MCTurns
  MaxCalls = 2
  NoPick = NoPick
SPECIFICATION Spec
INVARIANT OneProviderPerAsk
CHECK_DEADLOCK FALSE

SPECIFICATION WebhookSpec
CONSTANTS
  m1 = m1
  m2 = m2
  a1 = a1
  Member = {m1, m2}
  JoinTime <- Times
  InTime = {m1}
  Balance = {2}
  Amount <- Losses
  Day = {d1, d2}
  Call = {c1, c2}
  Event = {e1}
  Ranking = {r1, r2}
  KeyRow = {k1, k2}
  ApiKey <- OneApi
  Send = {p1, p2}
  NoEntry = NoEntry
  MaxStart = 4
CHECK_DEADLOCK FALSE
SYMMETRY Symmetry
INVARIANTS
  WebhookTypeOK
  ProfitsAddUp
  NoProfitTwice
  RanksFollowRates
  CacheFollowsKeys
  NoMessageLost

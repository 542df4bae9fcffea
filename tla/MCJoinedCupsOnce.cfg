SPECIFICATION Spec
CONSTANTS
  User = {u1}
  ExchangeKey = {k1}
  Cup = {c1, c2}
  Handler = {h1, h2}
  Job = {}
  Limit = 3
  MaxTime = 1
INVARIANT JoinedOnce

SPECIFICATION Spec
CONSTANTS
  User = {u1}
  ExchangeKey = {k1}
  Cup = {c1, c2}
  Handler = {h1, h2}
  Job = {j1}
  Limit = 1
  MaxTime = 2
SYMMETRY Symmetry
INVARIANTS
  TypeOK
  LimitPassedOnlyByOverlap
  CopiesOnlyByOverlap

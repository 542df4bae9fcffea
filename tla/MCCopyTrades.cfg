SPECIFICATION Spec
CONSTANTS
  l1 = l1
  l2 = l2
  l3 = l3
  f1 = f1
  f2 = f2
  o1 = o1
  NoId = NoId
  Order = {o1}
  Request = {r1, r2}
  Key <- OneLeaderKeys
  Follow <- OneLeader
  Body <- PlaceAndCancel
  Exchange <- AllBinance
  MaxRetry = 1
  MaxEdits = 1
CHECK_DEADLOCK FALSE
SYMMETRY Symmetry
INVARIANTS
  TypeOK
  EveryKeyAccountedFor
  CancelHandlesWhatItRead
  NoAttemptAfterSuccess
PROPERTY LedgerSpec

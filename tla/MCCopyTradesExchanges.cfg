SPECIFICATION FairSpec
CONSTANTS
  l1 = l1
  l2 = l2
  l3 = l3
  f1 = f1
  f2 = f2
  o1 = o1
  NoId = NoId
  Order = {o1}
  Request = {r1, r2}
  Key <- ThreeLeaderKeys
  Follow <- ThreeLeaders
  Body <- AllBodies
  Exchange <- Mixed
  MaxRetry = 2
  MaxEdits = 0
CHECK_DEADLOCK FALSE
INVARIANTS
  EveryKeyAccountedFor
  CancelsOnlyItsCopies
PROPERTIES
  CallsEnd
  StepsRunOut

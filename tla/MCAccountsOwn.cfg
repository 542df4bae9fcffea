SPECIFICATION Spec
CONSTANTS
  m1 = m1
  m2 = m2
  p1 = p1
  p2 = p2
  n1 = n1
  n2 = n2
  None = None
  Null = Null
  Id = {i1}
  Mailbox = {m1, m2}
  Phone = {p1, p2}
  Nick = {n1, n2}
  Code = {k1}
  Call = {c1, c2}
  Request <- OwnAccount
  TimeDelete = 1
  MaxTime = 0
CHECK_DEADLOCK FALSE
SYMMETRY Symmetry
INVARIANTS
  TypeOK
PROPERTY LifeSpec

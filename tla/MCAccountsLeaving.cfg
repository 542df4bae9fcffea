SPECIFICATION Spec
CONSTANTS
  m1 = m1
  m2 = m2
  p1 = p1
  p2 = p2
  n1 = n1
  n2 = n2
  None = None
  Null = Null
  Id = {i1}
  Mailbox = {m1, m2}
  Phone = {p1}
  Nick = {n1, n2}
  Code = {k1}
  Call = {c1, c2}
  Request <- Leavings
  TimeDelete = 2
  MaxTime = 3
CHECK_DEADLOCK FALSE
SYMMETRY Symmetry
INVARIANTS
  GraceUnlessReplaced
  LeavingInOrder
PROPERTY LifeSpec

SPECIFICATION Spec
CONSTANTS
  k1 = k1
  k2 = k2
  Owner = {k1, k2}
  Name = {"kept", "moving", "total"}
  Asset <- Assets
  Steady <- Kept
  Table = {"positions", "orders", "profits"}
  Serves <- OneTable
  Job = {j1, j2}
  MaxFetch = 2
  LongLoops = FALSE
  FirstTimes <- Stamps
CHECK_DEADLOCK FALSE
SYMMETRY Symmetry
INVARIANTS
  TypeOK
  RowsUnlessLost
  CleanTableIsLastAnswer
  FirstSeenKept
  DuplicatesBounded

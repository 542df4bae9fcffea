SPECIFICATION Spec
CONSTANTS
  k1 = k1
  Key = {k1}
  Price <- Prices
  Job = {j1, j2}
  Hours = 2
  Window = 2
  Change <- Changes
  MaxTime = 4
  MaxMove = 1
  MaxRefresh = 3
  MaxOverlap = 2
  MaxFailure = 1
  MinRows = 2
CHECK_DEADLOCK FALSE
SYMMETRY Symmetry
INVARIANTS
  TypeOK
  ProfitIsGain
  OneRowPerDay
  ProfitTelescopes

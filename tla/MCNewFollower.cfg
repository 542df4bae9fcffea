SPECIFICATION FollowSpec
CONSTANTS
  k1 = k1
  k2 = k2
  Owner = {k1, k2}
  Name = {"kept", "moving", "total"}
  Asset <- Assets
  Steady <- Kept
  Table = {"positions", "orders"}
  Job = {j1}
  Serves <- OneTable
  FirstTimes <- Stamps
  Leader = k1
  MaxDeliver = 2
  MaxFetch = 1
  LongLoops = FALSE
CHECK_DEADLOCK FALSE
INVARIANTS
  FollowTypeOK
  SteadyCopiedOnce
  TwiceOnlyIfItMoved

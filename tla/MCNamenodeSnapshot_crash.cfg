SPECIFICATION SFairSpec
CONSTANTS
  Root = Root  a = a  f = f  b1 = b1  b2 = b2  n1 = n1  n2 = n2
  NotFound = NotFound  NoAgg = NoAgg  NoLeader = NoLeader
  Paths <- MCPaths
  Parent <- MCParent
  AggIds <- MCAggIds
  Blocks = {b1, b2}
  LOCK_REFRESH_INTERVAL = 1
  Nodes = {n1, n2}
  Handlers = {h1}
  Requests <- TreeRequests
  MaxCalls = 2
  MaxFaults = 2
  MaxTime = 1
  MaxSnapshots = 2
INVARIANT SnapshotTypeOK
INVARIANT CrashRecoverable
PROPERTY EveryRequestAnswered
PROPERTY ReplicasConverge
CHECK_DEADLOCK FALSE

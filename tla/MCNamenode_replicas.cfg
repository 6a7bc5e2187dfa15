SPECIFICATION Spec
CONSTANTS
  Root = Root  a = a  f = f  b1 = b1  b2 = b2  n1 = n1  n2 = n2
  NotFound = NotFound  NoAgg = NoAgg  NoLeader = NoLeader
  Paths <- MCPaths
  Parent <- MCParent
  AggIds <- MCAggIds
  Blocks = {b1, b2}
  LOCK_REFRESH_INTERVAL = 1
  Nodes = {n1, n2}
  Handlers = {h1}
  Requests <- AllRequests
  MaxCalls = 3
  MaxFaults = 2
  MaxTime = 1
INVARIANT TypeOK
INVARIANT CaughtUpReplicasAgree
INVARIANT NoDuplicateDentry
INVARIANT DentryHasRecord
INVARIANT MkdirNeverTrips
SYMMETRY NodeSymmetry
CHECK_DEADLOCK FALSE

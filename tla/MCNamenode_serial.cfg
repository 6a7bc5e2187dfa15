SPECIFICATION Spec
CONSTANTS
  Root = Root  a = a  f = f  b1 = b1  b2 = b2  n1 = n1  n2 = n2
  NotFound = NotFound  NoAgg = NoAgg  NoLeader = NoLeader
  Paths <- MCPaths
  Parent <- MCParent
  AggIds <- MCAggIds
  Blocks = {b1, b2}
  LOCK_REFRESH_INTERVAL = 1
  Nodes = {n1}
  Handlers = {h1}
  Requests <- SingleResponseRequests
  MaxCalls = 4
  MaxFaults = 0
  MaxTime = 3
INVARIANT ListedChildMatches
INVARIANT LockOpsKeepContent
PROPERTY GrantRespectsLock
CHECK_DEADLOCK FALSE

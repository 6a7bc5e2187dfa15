SPECIFICATION FairSpec
CONSTANTS
  m1 = m1  m2 = m2  m3 = m3
  NoLeader = NoLeader  NoNamenode = NoNamenode
  datanode_list <- Three
  expected_nn = 2
  MaxFaults = 1
  MaxSnapshots = 1
  MaxLog = 6
  MaxTimers = 2
  MaxHasty = 1
INVARIANT TypeOK
INVARIANT ListsAreSized
INVARIANT NamenodeMatchesList
PROPERTY NamenodesRecover
CHECK_DEADLOCK FALSE

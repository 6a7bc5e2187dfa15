SPECIFICATION TruncateSpec
CONSTANTS
  Threads = {t1, t2, t3}
  Nobody = Nobody
  NoInode = NoInode
  Gone = Gone
  Size = 2
  Modes = {"read", "write", "O_TRUNC", "truncate"}
  WithOthers = FALSE
  MaxOpens = 3
  MaxWrites = 0
  MaxRefreshes = 0
CHECK_DEADLOCK FALSE
PROPERTY ReadUnlockNoEffect

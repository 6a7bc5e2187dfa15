SPECIFICATION FairSpec
CONSTANTS
  Threads = {t1, t2}
  Nobody = Nobody
  NoInode = NoInode
  Gone = Gone
  Size = 2
  Modes = {"read", "write"}
  WithOthers = TRUE
  MaxOpens = 2
  MaxWrites = 2
  MaxRefreshes = 1
CHECK_DEADLOCK FALSE
INVARIANT TypeOK
INVARIANT SessionsExclude
INVARIANT WritersAreRefreshed
INVARIANT FirstSaveIsComplete
INVARIANT CachedBlocksCurrent
INVARIANT ClosedFileIsFree
PROPERTY OpensReturn

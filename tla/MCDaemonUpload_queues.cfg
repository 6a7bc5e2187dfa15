SPECIFICATION FairSpec
CONSTANTS
  s1 = s1  s2 = s2  s3 = s3  b1 = b1  p1 = p1  p2 = p2  p3 = p3
  NoTask = NoTask
  Tasks = {s1, s2}
  Remote <- OwnRemote
  Size <- MCSize
  FilesizeBoundary = 1
  AggSizeBoundary = 2
  Removed = {p1}
  Fetched = {p1}
  MayStop = TRUE
  MaxFailed = 1
INVARIANT TypeOK
INVARIANT TaskInOnePlace
INVARIANT RemovedStaysRemoved
INVARIANT UploadsDoNotClash
INVARIANT DownloadsFindUploads
PROPERTY ImplementsPool
PROPERTY UploadsComplete
CHECK_DEADLOCK FALSE

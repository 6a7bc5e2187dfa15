SPECIFICATION FairSpec
CONSTANTS
  d1 = d1  d2 = d2  d3 = d3
  Datanodes <- ThreeNodes
  StorageType <- RS21
  FileBlocks = 2
  PerBlock = TRUE
  MaxFaults = 2
INVARIANT TypeOK
INVARIANT ToleratesFaults
INVARIANT GivesUpWhenAllFail
INVARIANT CompleteUnlessGivenUp
PROPERTY UploadEnds
CHECK_DEADLOCK FALSE

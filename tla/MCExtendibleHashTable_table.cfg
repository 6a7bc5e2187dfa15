SPECIFICATION FairSpec
CONSTANTS
  Absent = Absent
  Keys <- IntKeys
  Values = {a, b}
  BucketSize = 2
  Width = 3
  Hash <- LowestBits
INVARIANT TypeOK
INVARIANT EntriesShareByDepth
INVARIANT PairsWhereLookedFor
PROPERTY ImplementsMap
PROPERTY CallsReturn

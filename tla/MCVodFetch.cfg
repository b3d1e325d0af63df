SPECIFICATION FairSpec
CONSTANTS
  Total = 5
  Contents = {3, 5}
  Frames = 1
  InitialGops = 2
  MinGops = 1
  Batch = 1
  MaxConcurrent = 2
  MaxLosses = 3
  MaxSeeks = 1
INVARIANTS
  TypeOK FetchedOnce NothingMissed
PROPERTIES
  BufferingEnds
CHECK_DEADLOCK FALSE

SPECIFICATION Spec
CONSTANTS
  Total = 6
  Contents = {6}
  Frames = 1
  InitialGops = 1
  MinGops = 1
  Batch = 1
  MaxConcurrent = 2
  MaxLosses = 3
  MaxSeeks = 0
INVARIANT
  NothingAbandoned
CHECK_DEADLOCK FALSE

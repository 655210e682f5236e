SPECIFICATION AllocatorSpec
CONSTANTS
  SegmentHeader = 1
  BlockHeader = 2
  InitialSize = 6
  Requests = {1, 2, 5}
  MaxBytes = 24
INVARIANTS BlocksWellFormed FreeNeighboursOnlyAtSeams
PROPERTIES IsHeap
CHECK_DEADLOCK FALSE

SPECIFICATION Spec
CONSTANTS
  MaxTime = 8
  MaxThreads = 5
  NULL = NULL
INVARIANTS RangesInOrder EveryEventOnce

SPECIFICATION ProgramSpec
CONSTANTS
  Pool = {1, 2, 3}
  MaxWorkers = 4
  ThreadCounts = {0, 1, 3}
  Events <- EventsPerRange
  IntBits = 4
INVARIANTS SameCount
PROPERTIES Ends

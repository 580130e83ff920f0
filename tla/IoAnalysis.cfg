SPECIFICATION BothSpec
CONSTANTS
  t1 = t1
  t2 = t2
  a = a
  b = b
  Tids = {t1, t2}
  Comms = {a, b}
  Rets <- TwoRets
  NoComm = NoComm
  None = None
  TraceBegin = 1
  TraceEnd = 3
  Threads = 3
  MaxPrinted = 1
SYMMETRY Symmetry
INVARIANTS TypeOK HeaviestListed CallsMeet SameReport
PROPERTIES SerialImplementsUsage ParallelImplementsUsage

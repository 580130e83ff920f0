SPECIFICATION BothSpec
CONSTANTS
  c1 = c1
  c2 = c2
  t1 = t1
  a = a
  Cpus = {c1, c2}
  Tids = {t1}
  ThreadComms = {a}
  Comms <- AllComms
  Swapper <- SwapperOfCpu
  Idle = Idle
  None = None
  NoComm = NoComm
  UnknownTid = UnknownTid
  TraceBegin = 1
  TraceEnd = 3
  Threads = 2
  MaxPrinted = 1
  Lossy = TRUE
SYMMETRY Symmetry
INVARIANT CpusAtMostFull

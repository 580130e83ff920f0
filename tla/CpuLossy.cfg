SPECIFICATION BothSpec
CONSTANTS
  c1 = c1
  t1 = t1
  t2 = t2
  a = a
  b = b
  Cpus = {c1}
  Tids = {t1, t2}
  ThreadComms = {a, b}
  Comms <- AllComms
  Swapper <- SwapperOfCpu
  Idle = Idle
  None = None
  NoComm = NoComm
  UnknownTid = UnknownTid
  TraceBegin = 1
  TraceEnd = 3
  Threads = 3
  MaxPrinted = 1
  Lossy = TRUE
SYMMETRY Symmetry
INVARIANTS ThreadsWithinCpus SerialAtMostFull SameNames

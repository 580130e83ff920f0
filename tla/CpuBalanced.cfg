SPECIFICATION Spec
CONSTANTS
  c1 = c1
  c2 = c2
  t1 = t1
  a = a
  b = b
  Cpus = {c1, c2}
  Tids = {t1}
  ThreadComms = {a, b}
  Comms <- AllComms
  Swapper <- SwapperOfCpu
  Idle = Idle
  None = None
  NoComm = NoComm
  UnknownTid = UnknownTid
  TraceBegin = 1
  TraceEnd = 2
  MaxCuts = 2
SYMMETRY Symmetry
INVARIANTS SameTimes SameSpan PinnedSameNames

SPECIFICATION Spec
CONSTANTS
  s1 = s1
  s2 = s2
  Streams = {s1, s2}
  Free = Free
  MaxFaults = 1
  RootMayFail = TRUE
  Stranger = Stranger
  PacketSizes = {1}
  MaxPackets = 1
  MaxTime = 1
  NULL = NULL
INVARIANTS SystemTempKept

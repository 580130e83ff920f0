SPECIFICATION Spec
CONSTANTS
  s1 = s1
  s2 = s2
  Streams = {s1, s2}
  Free = Free
  MaxFaults = 2
  RootMayFail = FALSE
  Stranger = Stranger
  PacketSizes = {0, 1, 4}
  MaxPackets = 3
  MaxTime = 3
  NULL = NULL
INVARIANTS HealthyStreamsIsolated EveryEventOnce StreamsInOrder ChunksBalanced PointersOwn CrashesOnlyFor NothingLeft
SYMMETRY Symmetry

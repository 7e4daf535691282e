SPECIFICATION MCSpec
CONSTANTS
  SyncPackets = 2
  MaxTries = 3
  MaxPackets = 6
  Junk = junk
  Pipe = {"in", "out"}
  InitialUrbs = 1
  UrbCounts = {2}
  InitialFrames = 1280
  FrameCounts = {640, 2560}
  MaxTime = 5120
  MaxChanges = 1
  MaxIO = 2
  MayFail = TRUE
INVARIANTS ValidatedPairIsOnePublication TransfersKept PacketAtItsTime
PROPERTIES EveryCallReturns ZeroTimestampsConsecutive EveryChangeEnds
CHECK_DEADLOCK FALSE

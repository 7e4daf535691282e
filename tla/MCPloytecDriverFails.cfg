\* All of these fail, and TLC stops at the first that it meets: leave one of
\* the last lines to see that one.
CONSTANTS
  Pipe = {"in", "out"}
  InitialUrbs = 1
  UrbCounts = {2}
  InitialFrames = 1280
  FrameCounts = {640, 2560}
  MaxTime = 5120
  MaxChanges = 1
  MaxIO = 2
  MayFail = TRUE
SPECIFICATION DriverSpec
CHECK_DEADLOCK FALSE
INVARIANT NoMoreThanAsked
INVARIANT PacketAlwaysAtItsTime
INVARIANT AbortedAreCounted

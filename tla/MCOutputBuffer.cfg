SPECIFICATION Spec
CONSTANTS
  NumPackets = 6
  Stride = 13
  SubPackets = 2
  FramesBefore = 1
  FrameBytes = 2
  IOFrames = 4
  Ahead = 5
  Skew = 2
  Early = FALSE
  MaxPackets = 8
  Silent = Silent
  Sync = Sync
  Note = Note
  Nowhen = Nowhen
INVARIANTS
  PlayedAtItsTime
  MidiBytesKept
  InputSettled
CHECK_DEADLOCK FALSE

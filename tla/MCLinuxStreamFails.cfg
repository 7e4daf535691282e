\* All of these fail, and TLC stops at the first that it meets: leave one of
\* the last lines to see that one.
CONSTANTS
  playback = playback
  capture = capture
  out1 = out1
  out2 = out2
  Sub = {playback}
  Urb = {out1, out2}
  SubOf <- PlaybackOnly
  Rate = {r48, r96}
  Unsupported = unsupported
  Asked = {r48, r96, unsupported}
  InitialRate = r96
  Nobody = nobody
  Hub = hub
  MayUnplug = TRUE
  ResetMayFail = TRUE
  RebindMayFail = FALSE
SPECIFICATION Spec
CHECK_DEADLOCK FALSE
PROPERTY PanicMeansNoPcm
INVARIANT HandlersUseOpenSubstreams
INVARIANT DisconnectedTakesNoCalls
INVARIANT RunsAtAskedRate

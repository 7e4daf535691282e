CONSTANTS
  playback = playback
  capture = capture
  out1 = out1
  out2 = out2
  Sub = {playback}
  Urb = {out1, out2}
  SubOf <- PlaybackOnly
  Rate = {r48, r96}
  Unsupported = unsupported
  Asked = {r48, r96, unsupported}
  InitialRate = r96
  Nobody = nobody
  Hub = hub
  MayUnplug = TRUE
  ResetMayFail = TRUE
  RebindMayFail = TRUE
SPECIFICATION Spec
INVARIANTS StartedAtAskedRate UrbsRemadeOnlyIdle FreedCardIsQuiet
CHECK_DEADLOCK FALSE

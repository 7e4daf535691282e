CONSTANTS
  playback = playback
  capture = capture
  out1 = out1
  out2 = out2
  Sub = {playback, capture}
  Urb = {out1}
  SubOf <- OneOut
  Rate = {r48, r96}
  Unsupported = unsupported
  Asked = {r48, r96}
  InitialRate = r96
  Nobody = nobody
  Hub = hub
  MayUnplug = FALSE
  ResetMayFail = TRUE
  RebindMayFail = TRUE
SPECIFICATION FairSpec
INVARIANT StartHoldsMutexUntilProbeFails
PROPERTY EveryCallReturns
CHECK_DEADLOCK FALSE

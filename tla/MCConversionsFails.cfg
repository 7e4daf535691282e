\* All of these fail, and TLC stops at the first that it meets: leave one of
\* the last lines to see that one.
CONSTANTS
  Floats <- EdgeFloats
  Devices <- BitFrames
  Kinds = {"capture", "bulk", "int"}
  Configs <- HwChoices
  Silent = silent
  Stale = stale
  Sending = {"plain", "running", "lossy"}
  Statuses = {144, 192, 241, 242, 246}
  Data = {1, 2}
  Realtime = {248, 253}
SPECIFICATION MCSpec
CHECK_DEADLOCK FALSE
PROPERTY ReportedMeansElapsed
INVARIANT OzzyDeliversWithRunningStatus
INVARIANT PloytecDeliversAll
INVARIANT OzzyDeliversOnlySent

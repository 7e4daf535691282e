CONSTANTS
  Floats <- EdgeFloats
  Devices <- BitFrames
  Kinds = {"capture", "bulk", "int"}
  Configs <- HwChoices
  Silent = silent
  Stale = stale
  Sending = {"plain", "running", "lossy"}
  Statuses = {144, 192, 241, 242, 246}
  Data = {1, 2}
  Realtime = {248, 253}
SPECIFICATION MCSpec
INVARIANTS OrderKept WireAsOnMac RingTypeOK
PROPERTY InactiveIsSilent
CHECK_DEADLOCK FALSE

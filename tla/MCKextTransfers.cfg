CONSTANTS
  Pipes <- AllPipes
  Openable = {"pcmOut", "midiIn"}
  NumPackets = 4
  NoPipe = nopipe
  OnlyUnplug = TRUE
SPECIFICATION FairSpec
INVARIANTS PacketsInFlightDiffer SafeToReleasePipes TransfersMoveUp
PROPERTY UnplugIsSignalled
CHECK_DEADLOCK FALSE

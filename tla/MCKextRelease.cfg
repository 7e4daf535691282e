CONSTANTS
  Pipes <- AllPipes
  Openable = {"pcmOut", "pcmIn", "midiIn"}
  NumPackets = 4
  NoPipe = nopipe
  OnlyUnplug = FALSE
SPECIFICATION Spec
INVARIANT SafeToReleasePipes
CHECK_DEADLOCK FALSE

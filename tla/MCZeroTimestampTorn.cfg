SPECIFICATION Spec
CONSTANTS
  SyncPackets = 2
  MaxTries = 100
  MaxPackets = 4
  Junk = junk
INVARIANT NeverTorn

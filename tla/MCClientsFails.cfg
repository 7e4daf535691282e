\* All of these fail, and TLC stops at the first that it meets: leave one of
\* the last lines to see that one.
CONSTANTS
  MaxSessions = 2
  MaxIO = 1
  MaxSends = 1
SPECIFICATION MCSafety
CHECK_DEADLOCK FALSE
INVARIANT NeverUsesUnmapped
INVARIANT NoIOWhenDown
PROPERTY SeedTellsSessionsApart
INVARIANT MidiNeverUsesUnmapped
INVARIANT ConnectedIsOnline
INVARIANT LostIsOffline
INVARIANT OneDevice
INVARIANT NoMappingLost

\* All of these fail, and TLC stops at the first that it meets: leave one of
\* the last lines to see that one.
SPECIFICATION Spec
CONSTANTS
  Device = {d1}
  Card = {1, 2}
  PcmUrb = {p1}
  MidiUrb = {m1, m2}
  Nobody = Nobody
CHECK_DEADLOCK FALSE
INVARIANT FailedProbeStopsTransfers
INVARIANT RuntimeFreedOnce
INVARIANT CardFoundAfterReset

\* One device, pulled out and plugged in again, and reset: two cards.
SPECIFICATION FairSpec
CONSTANTS
  Device = {d1}
  Card = {1, 2}
  PcmUrb = {p1}
  MidiUrb = {m1, m2}
  Nobody = Nobody
INVARIANTS TransfersFindTheirCard CardKeepsItsDevice
PROPERTY EveryProbeReturns
CHECK_DEADLOCK FALSE

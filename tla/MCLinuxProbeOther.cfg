\* Two devices: a reset takes up the card of the other device.
SPECIFICATION Spec
CONSTANTS
  Device = {d1, d2}
  Card = {1, 2}
  PcmUrb = {p1}
  MidiUrb = {m1}
  Nobody = Nobody
INVARIANT OwnCardTakenUp
CHECK_DEADLOCK FALSE

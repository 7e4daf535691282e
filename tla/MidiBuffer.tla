------------------------------ MODULE MidiBuffer ------------------------------
(***************************************************************************)
(* OzzyMidiBuffer, the ring that the shared memory has twice, for MIDI to  *)
(* and from the device (OzzySharedData.h).  The reader owns the read       *)
(* index, the writer the write index; one slot always stays free, so equal *)
(* indices mean an empty ring.                                             *)
(***************************************************************************)
EXTENDS Integers, Sequences

CONSTANTS RingSize,  \* kOzzyMidiRingSize, a power of two in the program
          Byte,      \* the bytes that are sent
          Zero       \* what a fresh mapping holds

ASSUME RingSizeAssumption == RingSize \in Nat /\ RingSize >= 2
ASSUME ZeroAssumption == Zero \in Byte

Slot == 0 .. RingSize - 1

Succ(i) == (i + 1) % RingSize

(* The number of bytes from slot r up to slot w, the k-th slot, and what   *)
(* a ring's buffer holds there.                                            *)
Distance(r, w) == IF w >= r THEN w - r ELSE w - r + RingSize
At(r, k) == IF r + k < RingSize THEN r + k ELSE r + k - RingSize
Contents(buf, r, w) == [k \in 1 .. Distance(r, w) |-> buf[At(r, k - 1)]]
=============================================================================

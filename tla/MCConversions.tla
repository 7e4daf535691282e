---------------------------- MODULE MCConversions ----------------------------
(***************************************************************************)
(* The pure conversions, checked side by side: the codec of a frame        *)
(* (FrameCodec), the copy between transfers and ALSA's ring (PcmDmaRing)   *)
(* and the MIDI parsers (MidiParser).  A behaviour is one of the three.    *)
(*                                                                         *)
(* Frames: each pair of floats near the edges of the range and of a byte,  *)
(* and each single bit of a frame from the device, alone and missing.      *)
(* Rings: the packet sizes of the driver and three choices of buffer and   *)
(* period, the smallest; one where packets straddle the end of the ring at *)
(* many places; and one whose period is more frames than a packet has      *)
(* bytes.                                                                  *)
(***************************************************************************)
EXTENDS FrameCodec, PcmDmaRing, MidiParser

Edge == {-One - 3, -One - 1, -One, -One + 1, -One + 2, -513, -512, -3, -2, -1,
         0, 1, 2, 3, 255, 256, 510, 511, 512, 65535, 131072, 11184810,
         One \div 2, One - 2, One - 1, One + 1, One + 3}

\* Every pair of them, one on three channels and one on the rest.
EdgeFloats ==
  {[i \in Channel |-> IF i % 4 = 0 \/ i = 7 THEN x ELSE y] : x, y \in Edge}

OneBit == {[d \in 0 .. 63 |-> IF d = e THEN {k} ELSE {}] : e \in 0 .. 63, k \in 0 .. 3}
OneMissing ==
  {[d \in 0 .. 63 |-> IF d = e THEN Bit \ {k} ELSE Bit] : e \in 0 .. 63, k \in 0 .. 3}
BitFrames == OneBit \cup OneMissing

VARIABLE which  \* the conversion that this behaviour is about

HwChoices == {[buffer |-> 160, period |-> 80], [buffer |-> 190, period |-> 90],
              [buffer |-> 2000, period |-> 1000]}

MCInit ==
  /\ which \in {"codec", "ring", "parser"}
  /\ CodecInit /\ RingInit /\ ParserInit
  /\ which = "codec" \/ (floats = Zeros /\ device = Silence)
  /\ which = "ring" \/ (kind = "capture" /\ config = [buffer |-> 160, period |-> 80])
  /\ which = "parser" \/ sending = "plain"

MCNext ==
  \/ which = "codec" /\ CodecNext /\ UNCHANGED <<which, ringVars, parserVars>>
  \/ which = "ring" /\ RingNext /\ UNCHANGED <<which, codecVars, parserVars>>
  \/ which = "parser" /\ ParserNext /\ UNCHANGED <<which, codecVars, ringVars>>

MCSpec == MCInit /\ [][MCNext]_<<which, codecVars, ringVars, parserVars>>
=============================================================================

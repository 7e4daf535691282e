------------------------------ MODULE FrameCodec ------------------------------
(***************************************************************************)
(* One audio frame of the Ploytec protocol: eight samples of 24 bits, the  *)
(* bits of four channels side by side in each byte.  A frame to the device *)
(* has 48 bytes, one from the device 64.  Three drivers convert frames:    *)
(* PloytecCodec.mm from and to floats for the macOS HAL, and, each with a  *)
(* matrix of its own, ploytec.c for Linux and PloytecDevice.cpp of the     *)
(* earlier DriverKit driver from and to samples of three bytes.            *)
(*                                                                         *)
(* A byte is the set of its bits that are one.  A float is counted in      *)
(* units of 2^-24, which is half of a 24-bit step and the spacing of       *)
(* floats just below 1.                                                    *)
(***************************************************************************)
EXTENDS Integers, FiniteSets

CONSTANTS Floats,  \* float frames to play, [Channel -> Int]
          Devices  \* frames from the device, [0 .. 63 -> SUBSET Bit]

Channel == 0 .. 7
Bit == 0 .. 7
One == 2 ^ 24  \* 1.0f

ASSUME FloatsAssumption == Floats \subseteq [Channel -> Int]
ASSUME DevicesAssumption == Devices \subseteq [0 .. 63 -> SUBSET Bit]

VARIABLES floats, device,  \* what there is to convert
          out,             \* frames to the device, by each driver
          in               \* samples each driver makes of the device's frame

codecVars == <<floats, device, out, in>>
None == [mac |-> <<>>, linux |-> <<>>, driverkit |-> <<>>]

-----------------------------------------------------------------------------
(* PloytecEncodePCM.                                                       *)

Truncate(x) == IF x >= 0 THEN x \div 2 ELSE -((-x) \div 2)

\* The test is for more than 1, so 1 itself is not clipped.
ToInt(x) ==
  IF x > One THEN 2 ^ 23 - 1 ELSE IF x < -One THEN -(2 ^ 23) ELSE Truncate(x)

\* Byte j of a sample in two's complement, the lowest first.
ByteOf(s, j) == {b \in Bit : (s \div 2 ^ (8 * j + b)) % 2 = 1}

\* c[i][j]
Bytes(f) == [i \in Channel |-> [j \in 0 .. 2 |-> ByteOf(ToInt(f[i]), j)]]

MutLowByteFirst(f) ==
  LET c == Bytes(f)
  IN  [d \in 0 .. 47 |->
         {k \in 0 .. 3 : 7 - (d % 8) \in c[2 * k + d \div 24][(d % 24) \div 8]}]

\* Channels 1, 3, 5 and 7 in the first half, the others in the second; the
\* highest bits in the first byte.
PloytecEncodePCM(f) ==
  LET c == Bytes(f)
  IN  [d \in 0 .. 47 |->
         {k \in 0 .. 3 :
            7 - (d % 8) \in c[2 * k + d \div 24][2 - (d % 24) \div 8]}]

(* ploytec_convert_from_s24_3le; a frame of ALSA's is 24 bytes.            *)

S24(f) == LET c == Bytes(f) IN [n \in 0 .. 23 |-> c[n \div 3][n % 3]]

FromS24(src) ==
  [d \in 0 .. 47 |->
     {k \in 0 .. 3 :
        7 - (d % 8) \in src[3 * (2 * k + d \div 24) + 2 - (d % 24) \div 8]}]

\* PloytecDevice::EncodePloytecPCM, one channel's bits of one byte of dst at
\* a time; odd and even channels have their own rows.
EncodeRow(src, byte, row) ==
  {k \in 0 .. 3 : 7 - row \in src[byte + 6 * k]}
EncodePloytecPCM(src) ==
  [d \in 0 .. 47 |->
     IF d < 24 THEN EncodeRow(src, 2 - d \div 8, d % 8)
               ELSE EncodeRow(src, 8 - d \div 8, d % 8)]

-----------------------------------------------------------------------------
(* PloytecDecodePCM.  Bit b of byte j of channel i is bit i \div 2 of a    *)
(* byte in the half of its channel.                                        *)

Sample(c, i) ==
  LET Weight(j, b) == IF b \in c[3 * i + j] THEN 2 ^ (8 * j + b) ELSE 0
      Value(j) == Weight(j, 0) + Weight(j, 1) + Weight(j, 2) + Weight(j, 3)
                  + Weight(j, 4) + Weight(j, 5) + Weight(j, 6) + Weight(j, 7)
      s == Value(0) + Value(1) + Value(2)
  IN  IF s >= 2 ^ 23 THEN s - 2 ^ 24 ELSE s

Gather(src, half) ==
  [n \in 0 .. 23 |->
     LET i == n \div 3
         j == n % 3
     IN  {b \in Bit : i \div 2 \in src[half * (i % 2) + 8 * (2 - j) + 7 - b]}]

Samples(c) == [i \in Channel |-> Sample(c, i)]

MutMirrored(src) ==
  LET c == Gather(src, 24)
  IN  Samples([n \in 0 .. 23 |-> {b \in Bit : 7 - b \in c[n]}])

\* The second half begins at byte 0x18.
PloytecDecodePCM(src) == LET c == Gather(src, 24) IN Samples(c)

\* ploytec_convert_to_s24_3le: the second half begins at byte 0x20.
ToS24(src) == LET c == Gather(src, 32) IN Samples(c)

\* PloytecDevice::DecodePloytecPCM: dst[i] for the bytes 0x10 .. 0x17 down to
\* 0x00 .. 0x07 of the odd channels, 0x30 .. 0x37 down to 0x20 of the even.
DecodePloytecPCM(src) ==
  LET Byte(i, top) == {b \in Bit : i \in src[top - b]}
  IN  Samples([n \in 0 .. 23 |->
        LET i == n \div 6
        IN  IF n % 6 < 3 THEN Byte(i, 23 - 8 * (n % 6))
                         ELSE Byte(i, 55 - 8 * ((n % 6) - 3))])

-----------------------------------------------------------------------------
Silence == [d \in 0 .. 63 |-> {}]
Zeros == [i \in Channel |-> 0]

CodecInit ==
  /\ \/ floats \in Floats /\ device = Silence
     \/ floats = Zeros /\ device \in Devices
  /\ out = None /\ in = None

Play ==
  /\ out = None
  /\ out' = [mac |-> PloytecEncodePCM(floats), linux |-> FromS24(S24(floats)),
             driverkit |-> EncodePloytecPCM(S24(floats))]
  /\ UNCHANGED <<floats, device, in>>

Record ==
  /\ in = None
  /\ in' = [mac |-> PloytecDecodePCM(device), linux |-> ToS24(device),
            driverkit |-> DecodePloytecPCM(device)]
  /\ UNCHANGED <<floats, device, out>>

CodecNext == Play \/ Record
CodecSpec == CodecInit /\ [][CodecNext]_codecVars

-----------------------------------------------------------------------------
(* All drivers send the same bytes for the same samples, although one      *)
(* spells out 48 bytes from shifted floats and two, each for itself, 48    *)
(* from three-byte samples.                                                *)
EncodersAgree == out # None => out.mac = out.linux /\ out.mac = out.driverkit

(* A louder sample never becomes a quieter one: truncation, clipping and   *)
(* two's complement keep the order of the floats, 1.0 itself aside (it is  *)
(* not clipped and becomes the lowest sample).                             *)
OrderKept ==
  out # None =>
    LET sent == Samples(S24(floats))
    IN  \A i, j \in {k \in Channel : floats[k] # One} :
          floats[i] <= floats[j] => sent[i] <= sent[j]

(* A frame from the device has 64 bytes, and no driver can try its decoder *)
(* on what it encodes, which has 48.  But the decoders of the Linux and of *)
(* the DriverKit driver, each spelled out bit by bit for itself, hear the  *)
(* same on every channel of every frame, and that of OzzyHAL hears the     *)
(* same on channels 1, 3, 5 and 7, which have the frame's first half.      *)
InputsAgree ==
  in # None => /\ in.driverkit = in.linux
               /\ \A i \in {0, 2, 4, 6} : in.mac[i] = in.linux[i]

(* README.md:197, "Linux and macOS implementations share the USB protocol  *)
(* code": both drivers hear the same on every channel.                     *)
DecodersAgree == in # None => in.mac = in.linux
=============================================================================

--------------------------- MODULE ConversionProofs ---------------------------
(***************************************************************************)
(* Proofs about the conversions of audio and MIDI, for every frame of      *)
(* floats and every transfer from the device, for every buffer and period  *)
(* that hw_params may choose, and for every stream of MIDI bytes:          *)
(*   the three drivers' codecs (FrameCodec) send the same bytes for the    *)
(*   same samples, in the order of the floats, and hear the same in the    *)
(*   first half of a frame, the Linux and the DriverKit driver in all of   *)
(*   it;                                                                   *)
(*   the completion handlers of the Linux driver (PcmDmaRing) move the     *)
(*   frames of ALSA's ring in order and miss no period;                    *)
(*   the MIDI parsers (MidiParser) deliver every message that is sent.     *)
(***************************************************************************)
EXTENDS FrameCodec, PcmDmaRing, MidiParser, SequenceTheorems, TLAPS

-----------------------------------------------------------------------------
(* THE CODECS                                                              *)

(* A sample of three bytes begins every third byte of an ALSA frame.       *)
LEMMA S24At ==
  ASSUME NEW f, NEW i \in Channel, NEW j \in 0 .. 2
  PROVE  S24(f)[3 * i + j] = Bytes(f)[i][j]
<1>1. 3 * i + j \in 0 .. 23 /\ (3 * i + j) \div 3 = i /\ (3 * i + j) % 3 = j
  BY DEF Channel
<1> QED
  BY <1>1 DEF S24

LEMMA LinuxEncodes == ASSUME NEW f PROVE FromS24(S24(f)) = PloytecEncodePCM(f)
<1>1. ASSUME NEW d \in 0 .. 47, NEW k \in 0 .. 3
      PROVE  S24(f)[3 * (2 * k + d \div 24) + 2 - (d % 24) \div 8]
               = Bytes(f)[2 * k + d \div 24][2 - (d % 24) \div 8]
  <2> DEFINE i == 2 * k + d \div 24
             j == 2 - (d % 24) \div 8
  <2>1. i \in Channel /\ j \in 0 .. 2
    BY DEF Channel
  <2>2. 3 * (2 * k + d \div 24) + 2 - (d % 24) \div 8 = 3 * i + j
    OBVIOUS
  <2>3. S24(f)[3 * i + j] = Bytes(f)[i][j]
    BY <2>1, S24At
  <2> QED
    BY <2>2, <2>3
<1> QED
  BY <1>1 DEF FromS24, PloytecEncodePCM

LEMMA DriverKitEncodes ==
  ASSUME NEW f PROVE EncodePloytecPCM(S24(f)) = PloytecEncodePCM(f)
<1>1. ASSUME NEW d \in 0 .. 47, NEW k \in 0 .. 3
      PROVE  S24(f)[(IF d < 24 THEN 2 - d \div 8 ELSE 8 - d \div 8) + 6 * k]
               = Bytes(f)[2 * k + d \div 24][2 - (d % 24) \div 8]
  <2> DEFINE i == 2 * k + d \div 24
             j == 2 - (d % 24) \div 8
  <2>1. i \in Channel /\ j \in 0 .. 2
    BY DEF Channel
  <2>2. (IF d < 24 THEN 2 - d \div 8 ELSE 8 - d \div 8) + 6 * k = 3 * i + j
    OBVIOUS
  <2>3. S24(f)[3 * i + j] = Bytes(f)[i][j]
    BY <2>1, S24At
  <2> QED
    BY <2>2, <2>3
<1>2. ASSUME NEW d \in 0 .. 47
      PROVE  (IF d < 24 THEN EncodeRow(S24(f), 2 - d \div 8, d % 8)
                        ELSE EncodeRow(S24(f), 8 - d \div 8, d % 8))
               = {k \in 0 .. 3 : 7 - (d % 8) \in Bytes(f)[2 * k + d \div 24][2 - (d % 24) \div 8]}
  BY <1>1 DEF EncodeRow
<1> QED
  BY <1>2 DEF EncodePloytecPCM, PloytecEncodePCM

(* The bits of an integer that three bytes hold.                           *)
Bit24(s, j, b) == IF (s \div 2 ^ (8 * j + b)) % 2 = 1 THEN 2 ^ (8 * j + b) ELSE 0
Value24(s, j) ==
  Bit24(s, j, 0) + Bit24(s, j, 1) + Bit24(s, j, 2) + Bit24(s, j, 3)
  + Bit24(s, j, 4) + Bit24(s, j, 5) + Bit24(s, j, 6) + Bit24(s, j, 7)

\* The part of s from one power of two to another.
Part(s, p, q) == p * (s \div p) - q * (s \div q)

LEMMA Byte0 ==
  ASSUME NEW s \in Int
  PROVE  Value24(s, 0) = Part(s, 1, 2 ^ 8)
<1>1. Bit24(s, 0, 0) = Part(s, 1, 2)
  BY DEF Bit24, Part
<1>2. Bit24(s, 0, 1) = Part(s, 2, 4)
  BY DEF Bit24, Part
<1>3. Bit24(s, 0, 2) = Part(s, 4, 8)
  BY DEF Bit24, Part
<1>4. Bit24(s, 0, 3) = Part(s, 8, 16)
  BY DEF Bit24, Part
<1>5. Bit24(s, 0, 4) = Part(s, 16, 2 ^ 5)
  BY DEF Bit24, Part
<1>6. Bit24(s, 0, 5) = Part(s, 2 ^ 5, 2 ^ 6)
  BY DEF Bit24, Part
<1>7. Bit24(s, 0, 6) = Part(s, 2 ^ 6, 2 ^ 7)
  BY DEF Bit24, Part
<1>8. Bit24(s, 0, 7) = Part(s, 2 ^ 7, 2 ^ 8)
  BY DEF Bit24, Part
<1> QED
  BY <1>1, <1>2, <1>3, <1>4, <1>5, <1>6, <1>7, <1>8 DEF Value24, Part

LEMMA Byte1 ==
  ASSUME NEW s \in Int
  PROVE  Value24(s, 1) = Part(s, 2 ^ 8, 2 ^ 16)
<1>1. Bit24(s, 1, 0) = Part(s, 2 ^ 8, 2 ^ 9)
  BY DEF Bit24, Part
<1>2. Bit24(s, 1, 1) = Part(s, 2 ^ 9, 2 ^ 10)
  BY DEF Bit24, Part
<1>3. Bit24(s, 1, 2) = Part(s, 2 ^ 10, 2 ^ 11)
  BY DEF Bit24, Part
<1>4. Bit24(s, 1, 3) = Part(s, 2 ^ 11, 2 ^ 12)
  BY DEF Bit24, Part
<1>5. Bit24(s, 1, 4) = Part(s, 2 ^ 12, 2 ^ 13)
  BY DEF Bit24, Part
<1>6. Bit24(s, 1, 5) = Part(s, 2 ^ 13, 2 ^ 14)
  BY DEF Bit24, Part
<1>7. Bit24(s, 1, 6) = Part(s, 2 ^ 14, 2 ^ 15)
  BY DEF Bit24, Part
<1>8. Bit24(s, 1, 7) = Part(s, 2 ^ 15, 2 ^ 16)
  BY DEF Bit24, Part
<1> QED
  BY <1>1, <1>2, <1>3, <1>4, <1>5, <1>6, <1>7, <1>8 DEF Value24, Part

LEMMA Byte2 ==
  ASSUME NEW s \in Int
  PROVE  Value24(s, 2) = Part(s, 2 ^ 16, 2 ^ 24)
<1>1. Bit24(s, 2, 0) = Part(s, 2 ^ 16, 2 ^ 17)
  BY DEF Bit24, Part
<1>2. Bit24(s, 2, 1) = Part(s, 2 ^ 17, 2 ^ 18)
  BY DEF Bit24, Part
<1>3. Bit24(s, 2, 2) = Part(s, 2 ^ 18, 2 ^ 19)
  BY DEF Bit24, Part
<1>4. Bit24(s, 2, 3) = Part(s, 2 ^ 19, 2 ^ 20)
  BY DEF Bit24, Part
<1>5. Bit24(s, 2, 4) = Part(s, 2 ^ 20, 2 ^ 21)
  BY DEF Bit24, Part
<1>6. Bit24(s, 2, 5) = Part(s, 2 ^ 21, 2 ^ 22)
  BY DEF Bit24, Part
<1>7. Bit24(s, 2, 6) = Part(s, 2 ^ 22, 2 ^ 23)
  BY DEF Bit24, Part
<1>8. Bit24(s, 2, 7) = Part(s, 2 ^ 23, 2 ^ 24)
  BY DEF Bit24, Part
<1> QED
  BY <1>1, <1>2, <1>3, <1>4, <1>5, <1>6, <1>7, <1>8 DEF Value24, Part

LEMMA ThreeBytes ==
  ASSUME NEW s \in Int
  PROVE  Value24(s, 0) + Value24(s, 1) + Value24(s, 2) = s - 2 ^ 24 * (s \div 2 ^ 24)
<1>1. s \div 1 = s
  OBVIOUS
<1>2. /\ Value24(s, 0) = 1 * (s \div 1) - 2 ^ 8 * (s \div 2 ^ 8)
      /\ Value24(s, 1) = 2 ^ 8 * (s \div 2 ^ 8) - 2 ^ 16 * (s \div 2 ^ 16)
      /\ Value24(s, 2) = 2 ^ 16 * (s \div 2 ^ 16) - 2 ^ 24 * (s \div 2 ^ 24)
  BY Byte0, Byte1, Byte2 DEF Part
<1> QED
  BY <1>1, <1>2

(* Three bytes hold every sample that has 24 bits.                         *)
LEMMA SampleIs ==
  ASSUME NEW f \in [Channel -> Int], NEW i \in Channel,
         ToInt(f[i]) \in -(2 ^ 23) .. 2 ^ 23 - 1
  PROVE  Sample(S24(f), i) = ToInt(f[i])
<1> DEFINE s == ToInt(f[i])
<1>1. ASSUME NEW j \in 0 .. 2 PROVE S24(f)[3 * i + j] = ByteOf(s, j)
  BY <1>1, S24At DEF Bytes
<1>2. s \in -(2 ^ 23) .. 2 ^ 23 - 1
  OBVIOUS
<1> HIDE DEF s
<1>3. \A j \in 0 .. 2 : \A b \in Bit : b \in S24(f)[3 * i + j] <=> (s \div 2 ^ (8 * j + b)) % 2 = 1
  BY <1>1 DEF ByteOf
<1> DEFINE Weight(j, b) == IF b \in S24(f)[3 * i + j] THEN 2 ^ (8 * j + b) ELSE 0
<1>4. \A j \in 0 .. 2 : \A b \in Bit : Weight(j, b) = Bit24(s, j, b)
  BY <1>3 DEF Bit24
<1> DEFINE Value(j) == Weight(j, 0) + Weight(j, 1) + Weight(j, 2) + Weight(j, 3)
                       + Weight(j, 4) + Weight(j, 5) + Weight(j, 6) + Weight(j, 7)
<1> HIDE DEF Weight
<1>5. \A j \in 0 .. 2 : Value(j) = Value24(s, j)
  BY <1>4 DEF Value24, Bit
<1>6. Sample(S24(f), i) =
        LET v == Value(0) + Value(1) + Value(2)
        IN  IF v >= 2 ^ 23 THEN v - 2 ^ 24 ELSE v
  BY DEF Sample, Weight
<1> HIDE DEF Value
<1>7. Value(0) + Value(1) + Value(2) = s - 2 ^ 24 * (s \div 2 ^ 24)
  BY <1>2, <1>5, ThreeBytes
<1>8. Sample(S24(f), i) = s
  BY <1>2, <1>6, <1>7
<1> QED
  BY <1>8 DEF s

(* Clipping keeps the order, and all but 1.0 has 24 bits.                  *)
LEMMA TruncateOrder == \A x, y \in Int : x <= y => Truncate(x) <= Truncate(y)
BY DEF Truncate

LEMMA TruncateRange ==
  \A x \in Int : /\ Truncate(x) \in Int
                 /\ x <= One => Truncate(x) <= 2 ^ 23
                 /\ x < One => Truncate(x) <= 2 ^ 23 - 1
                 /\ x >= -One => Truncate(x) >= -(2 ^ 23)
BY DEF Truncate, One

LEMMA Clipped ==
  ASSUME NEW x \in Int, x # One
  PROVE  ToInt(x) \in -(2 ^ 23) .. 2 ^ 23 - 1
<1>1. x > One \/ x < -One \/ (x <= One /\ x < One /\ x >= -One)
  BY DEF One
<1> QED
  BY <1>1, TruncateRange DEF ToInt, One

LEMMA ClippedOrder ==
  ASSUME NEW x \in Int, NEW y \in Int, x <= y, x # One, y # One
  PROVE  ToInt(x) <= ToInt(y)
<1>1. x > One \/ x < -One \/ (x <= One /\ x >= -One)
  BY DEF One
<1>2. y > One \/ y < -One \/ (y <= One /\ y >= -One)
  BY DEF One
<1>3. ToInt(x) \in -(2 ^ 23) .. 2 ^ 23 - 1 /\ ToInt(y) \in -(2 ^ 23) .. 2 ^ 23 - 1
  BY Clipped
<1>4. One > 0 /\ One \in Int
  BY DEF One
<1>5. CASE x <= One /\ x >= -One /\ y <= One /\ y >= -One
  BY <1>4, <1>5, TruncateOrder DEF ToInt
<1>6. CASE x < -One
  BY <1>3, <1>4, <1>6 DEF ToInt
<1>7. CASE y > One
  BY <1>3, <1>4, <1>7 DEF ToInt
<1> QED
  BY <1>1, <1>2, <1>4, <1>5, <1>6, <1>7

-----------------------------------------------------------------------------
CodecInv ==
  /\ floats \in [Channel -> Int]
  /\ out # None => out = [mac |-> PloytecEncodePCM(floats), linux |-> FromS24(S24(floats)),
                         driverkit |-> EncodePloytecPCM(S24(floats))]

LEMMA CodecInvInit == CodecInit => CodecInv
<1>1. Zeros \in [Channel -> Int]
  BY DEF Zeros
<1> QED
  BY <1>1, FloatsAssumption DEF CodecInit, CodecInv

LEMMA CodecInvNext == CodecInv /\ [CodecNext]_codecVars => CodecInv'
BY DEF CodecInv, CodecNext, Play, Record, codecVars

LEMMA CodecCorrect == CodecSpec => []CodecInv
BY CodecInvInit, CodecInvNext, PTL DEF CodecSpec

(* All three drivers send the same bytes for the same samples.             *)
THEOREM AllEncodersAgree == CodecSpec => []EncodersAgree
<1>1. CodecInv => EncodersAgree
  BY LinuxEncodes, DriverKitEncodes DEF CodecInv, EncodersAgree
<1> QED
  BY CodecCorrect, <1>1, PTL

(* A louder float is never sent as a quieter sample.                       *)
THEOREM LouderStaysLouder == CodecSpec => []OrderKept
<1>1. CodecInv => OrderKept
  <2> SUFFICES ASSUME floats \in [Channel -> Int], NEW i \in Channel, NEW j \in Channel,
                      floats[i] # One, floats[j] # One, floats[i] <= floats[j]
      PROVE  Samples(S24(floats))[i] <= Samples(S24(floats))[j]
    BY DEF CodecInv, OrderKept
  <2>1. floats[i] \in Int /\ floats[j] \in Int
    OBVIOUS
  <2>2. Sample(S24(floats), i) = ToInt(floats[i])
    BY <2>1, Clipped, SampleIs
  <2>3. Sample(S24(floats), j) = ToInt(floats[j])
    BY <2>1, Clipped, SampleIs
  <2>4. ToInt(floats[i]) <= ToInt(floats[j])
    BY <2>1, ClippedOrder
  <2> QED
    BY <2>2, <2>3, <2>4 DEF Samples
<1> QED
  BY CodecCorrect, <1>1, PTL

(* The drivers' decoders.  The two halves of a frame begin 24 bytes apart  *)
(* in one and 32 in the others.                                            *)
LEMMA DriverKitDecodes == ASSUME NEW src PROVE DecodePloytecPCM(src) = ToS24(src)
<1> DEFINE Byte(i, top) == {b \in Bit : i \in src[top - b]}
           Dst(n) == IF n % 6 < 3 THEN Byte(n \div 6, 23 - 8 * (n % 6))
                     ELSE Byte(n \div 6, 55 - 8 * ((n % 6) - 3))
<1>1. ASSUME NEW n \in 0 .. 23 PROVE Dst(n) = Gather(src, 32)[n]
  <2> DEFINE i == n \div 3
             j == n % 3
  <2>1. Gather(src, 32)[n] =
          {b \in Bit : i \div 2 \in src[32 * (i % 2) + 8 * (2 - j) + 7 - b]}
    BY DEF Gather
  <2>2. ASSUME NEW b \in Bit, n % 6 < 3
        PROVE  i \div 2 = n \div 6 /\ 32 * (i % 2) + 8 * (2 - j) + 7 - b = 23 - 8 * (n % 6) - b
    BY <2>2 DEF Bit
  <2>3. ASSUME NEW b \in Bit, ~(n % 6 < 3)
        PROVE  i \div 2 = n \div 6 /\ 32 * (i % 2) + 8 * (2 - j) + 7 - b = 55 - 8 * ((n % 6) - 3) - b
    BY <2>3 DEF Bit
  <2> HIDE DEF i, j
  <2> QED
    BY <2>1, <2>2, <2>3
<1>2. [n \in 0 .. 23 |-> Dst(n)] = Gather(src, 32)
  BY <1>1 DEF Gather
<1>3. DecodePloytecPCM(src) = Samples([n \in 0 .. 23 |-> Dst(n)])
  BY DEF DecodePloytecPCM
<1> QED
  BY <1>2, <1>3 DEF ToS24

LEMMA FirstHalf ==
  ASSUME NEW src, NEW i \in {0, 2, 4, 6}
  PROVE  Sample(Gather(src, 24), i) = Sample(Gather(src, 32), i)
<1>1. ASSUME NEW j \in 0 .. 2
      PROVE  Gather(src, 24)[3 * i + j] = Gather(src, 32)[3 * i + j]
  <2> DEFINE n == 3 * i + j
  <2>1. n \in 0 .. 23 /\ n \div 3 = i /\ n % 3 = j
    OBVIOUS
  <2>2. ASSUME NEW b \in Bit
        PROVE  24 * (i % 2) + 8 * (2 - j) + 7 - b = 32 * (i % 2) + 8 * (2 - j) + 7 - b
    <3>1. i % 2 = 0
      OBVIOUS
    <3> QED
      BY <3>1 DEF Bit
  <2> HIDE DEF n
  <2>3. Gather(src, 24)[n] =
          {b \in Bit : i \div 2 \in src[24 * (i % 2) + 8 * (2 - j) + 7 - b]}
    BY <2>1 DEF Gather
  <2>4. Gather(src, 32)[n] =
          {b \in Bit : i \div 2 \in src[32 * (i % 2) + 8 * (2 - j) + 7 - b]}
    BY <2>1 DEF Gather
  <2>5. Gather(src, 24)[n] = Gather(src, 32)[n]
    BY <2>2, <2>3, <2>4
  <2> QED
    BY <2>5 DEF n
<1> DEFINE Weight(h, j, b) == IF b \in Gather(src, h)[3 * i + j] THEN 2 ^ (8 * j + b) ELSE 0
<1>2. \A j \in 0 .. 2 : \A b \in Bit : Weight(24, j, b) = Weight(32, j, b)
  BY <1>1
<1> DEFINE Value(h, j) == Weight(h, j, 0) + Weight(h, j, 1) + Weight(h, j, 2) + Weight(h, j, 3)
                          + Weight(h, j, 4) + Weight(h, j, 5) + Weight(h, j, 6) + Weight(h, j, 7)
<1> HIDE DEF Weight
<1>3. \A j \in 0 .. 2 : Value(24, j) = Value(32, j)
  BY <1>2 DEF Bit
<1>4. ASSUME NEW h
      PROVE  Sample(Gather(src, h), i) =
               LET v == Value(h, 0) + Value(h, 1) + Value(h, 2)
               IN  IF v >= 2 ^ 23 THEN v - 2 ^ 24 ELSE v
  BY DEF Sample, Weight
<1> HIDE DEF Value
<1> QED
  BY <1>3, <1>4

HeardInv ==
  in # None => in = [mac |-> PloytecDecodePCM(device), linux |-> ToS24(device),
                     driverkit |-> DecodePloytecPCM(device)]

(* Where the drivers take the frame apart alike, they hear the same.       *)
THEOREM DecodersHearAlike == CodecSpec => []InputsAgree
<1>1. CodecInit => HeardInv
  BY DEF CodecInit, HeardInv
<1>2. HeardInv /\ [CodecNext]_codecVars => HeardInv'
  BY DEF HeardInv, CodecNext, Play, Record, codecVars
<1>3. HeardInv => InputsAgree
  <2> SUFFICES ASSUME HeardInv, in # None PROVE InputsAgree
    BY DEF InputsAgree
  <2>1. /\ in.mac = PloytecDecodePCM(device) /\ in.linux = ToS24(device)
        /\ in.driverkit = DecodePloytecPCM(device)
    BY DEF HeardInv
  <2>2. \A i \in {0, 2, 4, 6} : PloytecDecodePCM(device)[i] = ToS24(device)[i]
    <3>1. {0, 2, 4, 6} \subseteq Channel
      BY DEF Channel
    <3> QED
      BY <3>1, FirstHalf DEF PloytecDecodePCM, ToS24, Samples
  <2> QED
    BY <2>1, <2>2, DriverKitDecodes DEF InputsAgree
<1> QED
  BY <1>1, <1>2, <1>3, PTL DEF CodecSpec

-----------------------------------------------------------------------------
(* THE PACKETS OF THE LINUX DRIVER                                         *)

(* The bytes moved in the period, and what the code's wrapping leaves of   *)
(* them in period_off, differ by whole periods' counts of frames.          *)
Wraps(k) == FrameBytes * periodPos = k * config.period + periodOff
PeriodInv == \E k \in 0 .. FrameBytes - 1 : Wraps(k)

(* The handlers move frames only for a stream that runs, and dma_off is    *)
(* the frames moved round the ring.                                        *)
RingInv ==
  /\ RingTypeOK
  /\ active => alsa = "running"
  /\ PointerCountsFrames
  /\ alsa # "setup" => PeriodInv

-----------------------------------------------------------------------------
(* hw_params leaves room for two periods, and for a packet in a period.    *)
LEMMA ConfigType ==
  ASSUME config \in Configs, kind \in Kinds
  PROVE  /\ config.buffer \in Nat /\ config.period \in Nat
         /\ config.period >= 80 /\ config.buffer >= 2 * config.period
         /\ Frames \in {32, 40}
BY KindsAssumption, ConfigsAssumption DEF Frames, OutFrames, InFrames

(* What a modulus takes away.                                              *)
LEMMA ModWraps ==
  ASSUME NEW p \in Nat, p > 0, NEW a \in Nat
  PROVE  /\ a % p \in 0 .. p - 1
         /\ \E k \in Nat : a = k * p + (a % p)
         /\ a < p => a % p = a
         /\ p <= a /\ a < 2 * p => a % p = a - p
<1>1. a = p * (a \div p) + (a % p) /\ a \div p \in Nat /\ a % p \in 0 .. p - 1
  OBVIOUS
<1>2. \E k \in Nat : a = k * p + (a % p)
  <2>1. WITNESS (a \div p) \in Nat
  <2> QED
    BY <1>1
<1> QED
  BY <1>1, <1>2

(* Different frames have different places in the transfer's buffer.        *)
LEMMA OffsetInjective ==
  ASSUME kind \in Kinds, NEW f \in Slot, NEW g \in Slot,
         Offset(f) = Offset(g)
  PROVE  f = g
<1> USE KindsAssumption DEF Slot, Frames, OutFrames, InFrames
<1>1. CASE kind = "capture"
  BY <1>1 DEF Offset
<1>2. CASE kind = "bulk"
  BY <1>2 DEF Offset, BulkOffset
<1>3. CASE kind = "int"
  BY <1>3 DEF Offset, IntOffset
<1> QED
  BY <1>1, <1>2, <1>3

-----------------------------------------------------------------------------
(* The effect of a packet on the offsets.                                  *)

(* dma_off keeps to the frames moved, round the ring.                      *)
LEMMA DmaAdvances ==
  ASSUME RingInv, PacketActive
  PROVE  /\ dmaOff' \in Nat /\ dmaOff' < config.buffer * FrameBytes
         /\ ringPos' \in Nat /\ ringPos' < config.buffer
         /\ dmaOff' = ringPos' * FrameBytes
<1> USE DEF RingInv, RingTypeOK, PointerCountsFrames, FrameBytes
<1>1. /\ config.buffer \in Nat /\ Frames \in {32, 40} /\ Frames < config.buffer
      /\ ringPos \in Nat /\ ringPos < config.buffer
  BY ConfigType DEF PacketActive
<1>2. ringPos' = IF ringPos + Frames < config.buffer THEN ringPos + Frames
                 ELSE ringPos + Frames - config.buffer
  BY <1>1, ModWraps DEF PacketActive
<1> QED
  BY <1>1, <1>2 DEF PacketActive, AdvanceDma, PacketBytes, BufferBytes

(* period_off keeps to the frames moved, up to whole wraps.                *)
LEMMA PeriodAdvances ==
  ASSUME RingInv, PacketActive
  PROVE  /\ periodOff' \in Nat /\ periodOff' < config.period
         /\ periodPos' \in Nat /\ periodPos' < config.period
         /\ PeriodInv'
<1> DEFINE p == config.period
           n == periodOff + PacketBytes
<1>1. /\ p \in Nat /\ p >= 80 /\ Frames \in {32, 40}
      /\ periodPos \in Nat /\ periodPos < p /\ periodOff \in Nat /\ periodOff < p
      /\ PeriodInv /\ config' = config
  BY ConfigType DEF RingInv, RingTypeOK, PacketActive
<1>2. PacketBytes = 24 * Frames
  BY <1>1 DEF PacketBytes, FrameBytes
<1>3. /\ periodOff' \in 0 .. p - 1
      /\ \E m \in Nat : n = m * p + periodOff'
  <2>1. n \in Nat
    BY <1>1, <1>2
  <2>2. CASE n >= p
    <3>1. periodOff' = n % p
      BY <2>2 DEF PacketActive, AdvancePeriod
    <3>2. n % p \in 0 .. p - 1 /\ \E m \in Nat : n = m * p + (n % p)
      <4>1. p \in Nat /\ p > 0
        BY <1>1
      <4> HIDE DEF n, p
      <4> QED
        BY <2>1, <4>1, ModWraps
    <3> QED
      BY <3>1, <3>2
  <2>3. CASE n < p
    <3>1. periodOff' = n
      BY <1>1, <2>1, <2>3 DEF PacketActive, AdvancePeriod
    <3>2. n = 0 * p + periodOff'
      BY <1>1, <2>1, <3>1
    <3> QED
      BY <2>1, <2>3, <1>1, <3>1, <3>2
  <2> QED
    BY <1>1, <2>1, <2>2, <2>3
<1>4. \/ periodPos' = periodPos + Frames /\ periodPos + Frames < p
      \/ periodPos' = periodPos + Frames - p /\ p <= periodPos + Frames
  BY <1>1, ModWraps DEF PacketActive
<1>5. periodPos' \in 0 .. p - 1
  BY <1>1, <1>4
<1>6. PICK m \in Nat : n = m * p + periodOff'
  BY <1>3
<1>7. PICK k \in 0 .. 23 : 24 * periodPos = k * p + periodOff
  BY <1>1 DEF PeriodInv, Wraps, FrameBytes
<1>8. 24 * (periodPos + Frames) = (k + m) * p + periodOff'
  BY <1>1, <1>2, <1>3, <1>6, <1>7
<1>9. \E j \in Int : 24 * periodPos' = j * p + periodOff'
  <2>1. CASE periodPos' = periodPos + Frames
    BY <1>8, <2>1
  <2>2. CASE periodPos' = periodPos + Frames - p
    <3>1. (k + m - 24) * p = (k + m) * p - 24 * p
      BY <1>1
    <3>2. 24 * periodPos' = (k + m - 24) * p + periodOff'
      BY <1>1, <1>3, <1>8, <2>2, <3>1
    <3> QED
      BY <3>2
  <2> QED
    BY <1>4, <2>1, <2>2
<1>10. PICK j \in Int : 24 * periodPos' = j * p + periodOff'
  BY <1>9
<1> HIDE DEF p
<1>11. j \in 0 .. 23
  <2>1. j >= 0
    <3> SUFFICES ASSUME j <= -1 PROVE FALSE
      OBVIOUS
    <3>1. j * p <= -p
      BY <1>1
    <3> QED
      BY <1>1, <1>3, <1>5, <1>10, <3>1
  <2>2. j <= 23
    <3> SUFFICES ASSUME j >= 24 PROVE FALSE
      OBVIOUS
    <3>1. j * p >= 24 * p
      BY <1>1
    <3> QED
      BY <1>1, <1>3, <1>5, <1>10, <3>1
  <2> QED
    BY <2>1, <2>2
<1>12. PeriodInv'
  <2>1. FrameBytes * periodPos' = j * config'.period + periodOff'
    BY <1>1, <1>10 DEF FrameBytes, p
  <2> QED
    BY <1>11, <2>1 DEF PeriodInv, Wraps, FrameBytes
<1> QED
  BY <1>1, <1>3, <1>5, <1>12 DEF p

-----------------------------------------------------------------------------
(* Every step preserves the invariant.                                     *)

LEMMA RingInvInit == RingInit => RingInv
<1> SUFFICES ASSUME RingInit PROVE RingInv
  OBVIOUS
<1>1. RingTypeOK
  BY DEF RingInit, RingTypeOK
<1> QED
  BY <1>1 DEF RingInit, RingInv, PointerCountsFrames, FrameBytes

LEMMA RingInvNext == RingInv /\ [RingNext]_ringVars => RingInv'
<1> SUFFICES ASSUME RingInv, [RingNext]_ringVars PROVE RingInv'
  OBVIOUS
<1> USE DEF RingInv, RingTypeOK, PointerCountsFrames, PeriodInv, Wraps, Slot, Frames, Offset
<1>1. CASE HwParams
  BY <1>1 DEF HwParams
<1>2. CASE Prepare
  <2>1. /\ 0 < config.buffer * FrameBytes /\ 0 < config.period
        /\ 0 < config.buffer
        /\ FrameBytes * 0 = 0 * config.period + 0 /\ 0 = 0 * FrameBytes
    BY ConfigType DEF FrameBytes
  <2>2. PeriodInv'
    BY <1>2, <2>1 DEF Prepare, FrameBytes
  <2> QED
    BY <1>2, <2>1, <2>2 DEF Prepare
<1>3. CASE TriggerStart \/ TriggerStop \/ TriggerPause
  BY <1>3 DEF TriggerStart, TriggerStop, TriggerPause
<1>4. CASE PacketActive
  <2>1. DOMAIN urb' = DOMAIN urb
    BY <1>4 DEF PacketActive
  <2>2. elapsed' \in BOOLEAN
    BY <1>4 DEF PacketActive, AdvancePeriod
  <2>3. UNCHANGED <<kind, config, alsa, active>>
    BY <1>4 DEF PacketActive
  <2>4. PeriodInv'
    BY <1>4, PeriodAdvances
  <2> QED
    BY <1>4, <2>1, <2>2, <2>3, <2>4, DmaAdvances, PeriodAdvances
<1>5. CASE PacketInactive
  BY <1>5 DEF PacketInactive
<1>6. CASE UNCHANGED ringVars
  BY <1>6 DEF ringVars
<1> QED
  BY <1>1, <1>2, <1>3, <1>4, <1>5, <1>6 DEF RingNext

(* The offsets stay inside ALSA's ring and period.                         *)
THEOREM RingTypeCorrect == RingSpec => []RingTypeOK
<1>1. RingInv => RingTypeOK
  BY DEF RingInv
<1> QED
  BY <1>1, RingInvInit, RingInvNext, PTL DEF RingSpec

(* The position reported to ALSA is the number of frames moved, round the  *)
(* ring, for every size of the ring.                                       *)
THEOREM PointerIsRight == RingSpec => []PointerCountsFrames
<1>1. RingInv => PointerCountsFrames
  BY DEF RingInv
<1> QED
  BY <1>1, RingInvInit, RingInvNext, PTL DEF RingSpec

(* The two pieces of a packet are consecutive frames of the ring, also     *)
(* where the ring ends inside the packet, though their counts are uint8_t  *)
(* and the second is computed from the size of an OUT packet.              *)
LEMMA PacketInOrder ==
  ASSUME RingInv, PacketActive, NEW f \in Slot
  PROVE  urb'[Offset(f)] = ((ringPos + f) % config.buffer) * FrameBytes
<1>1. /\ config.buffer \in Nat /\ config.buffer >= 160 /\ Frames \in {32, 40}
      /\ ringPos \in Nat /\ ringPos < config.buffer
      /\ dmaOff = ringPos * 24
      /\ f \in Nat /\ f < Frames
  BY ConfigType DEF RingInv, RingTypeOK, PacketActive, PointerCountsFrames, FrameBytes,
                    Slot
<1>2. urb'[Offset(f)] = RingOffset(f)
  <2>1. Offset(f) \in DOMAIN urb
    BY DEF RingInv, RingTypeOK
  <2>2. (CHOOSE g \in Slot : Offset(g) = Offset(f)) = f
    BY OffsetInjective DEF RingInv, RingTypeOK
  <2> QED
    BY <2>1, <2>2 DEF PacketActive
<1>3. (ringPos + f) % config.buffer =
        IF ringPos + f < config.buffer THEN ringPos + f
        ELSE ringPos + f - config.buffer
  BY <1>1, ModWraps
<1>4. Fits <=> ringPos + Frames <= config.buffer
  BY <1>1 DEF Fits, PacketBytes, BufferBytes, FrameBytes
<1>5. CASE Fits
  BY <1>1, <1>2, <1>3, <1>4, <1>5 DEF RingOffset, FrameBytes
<1>6. CASE ~Fits
  <2>1. First = config.buffer - ringPos
    BY <1>1, <1>4, <1>6 DEF First, BufferBytes, FrameBytes
  <2>2. Second = 40 - First
    BY <1>1, <1>4, <1>6, <2>1 DEF Second, OutFrames
  <2>3. f < First \/ f \in First .. First + Second - 1
    BY <1>1, <1>4, <1>6, <2>1, <2>2
  <2>4. CASE f < First
    BY <1>1, <1>2, <1>3, <2>1, <2>4 DEF RingOffset, FrameBytes
  <2>5. CASE ~(f < First)
    BY <1>1, <1>2, <1>3, <1>6, <2>1, <2>2, <2>3, <2>5 DEF RingOffset, FrameBytes
  <2> QED
    BY <2>4, <2>5
<1> QED
  BY <1>5, <1>6

(* Every packet takes or fills the next frames of the ring, in order, for  *)
(* every size of the ring.                                                 *)
THEOREM FramesMoveInOrder == RingSpec => FramesInOrder
<1>1. RingInv /\ [RingNext]_ringVars =>
        [PacketActive => \A f \in Slot : urb'[Offset(f)] =
           ((ringPos + f) % config.buffer) * FrameBytes]_ringVars
  BY PacketInOrder
<1> QED
  BY <1>1, RingInvInit, RingInvNext, PTL DEF RingSpec, FramesInOrder

(* Although the driver adds bytes to an offset that it compares with       *)
(* frames, it reports with every packet that completes a period, for every *)
(* period.                                                                 *)
THEOREM EveryPeriodReported == RingSpec => NoPeriodMissed
<1>1. ASSUME RingInv, PacketActive, periodPos + Frames >= config.period
      PROVE  elapsed'
  <2>1. /\ config.period \in Nat /\ Frames \in {32, 40}
        /\ periodPos \in Nat /\ periodOff \in Nat /\ PeriodInv
    BY <1>1, ConfigType DEF RingInv, RingTypeOK, PacketActive
  <2>2. PICK k \in 0 .. 23 : 24 * periodPos = k * config.period + periodOff
    BY <2>1 DEF PeriodInv, Wraps, FrameBytes
  <2>3. k * config.period <= 23 * config.period
    BY <2>1
  <2>4. PacketBytes = 24 * Frames
    BY <2>1 DEF PacketBytes, FrameBytes
  <2>5. periodOff + PacketBytes >= config.period
    BY <1>1, <2>1, <2>2, <2>3, <2>4
  <2> QED
    BY <1>1, <2>5 DEF PacketActive, AdvancePeriod
<1>2. RingInv /\ [RingNext]_ringVars =>
        [PacketActive /\ periodPos + Frames >= config.period => elapsed']_ringVars
  BY <1>1
<1> QED
  BY <1>2, RingInvInit, RingInvNext, PTL DEF RingSpec, NoPeriodMissed

(* Nothing of an earlier packet goes out once a substream is inactive: the *)
(* ranges that the handler clears hold every frame of the transfer.        *)
THEOREM SilenceIsComplete == RingSpec => InactiveIsSilent
<1>1. ASSUME kind \in Kinds, NEW f \in Slot PROVE Cleared(Offset(f))
  <2> USE <1>1, KindsAssumption DEF Slot, Frames, OutFrames, InFrames,
                  Cleared, Offset
  <2>1. CASE kind = "capture"
    BY <2>1
  <2>2. CASE kind = "bulk"
    <3>1. f \in 0 .. 39
      BY <2>2
    <3>2. PICK r \in {[from |-> 0, to |-> 479], [from |-> 512, to |-> 991],
                   [from |-> 1024, to |-> 1503], [from |-> 1536, to |-> 2015]} :
            r.from <= BulkOffset(f) /\ BulkOffset(f) + 47 <= r.to
      BY <3>1 DEF BulkOffset
    <3>3. r \in ClearedRanges[1]
      BY <3>2 DEF ClearedRanges
    <3> QED
      BY <2>2, <3>2, <3>3
  <2>3. CASE kind = "int"
    <3>1. f \in 0 .. 39
      BY <2>3
    <3>2. PICK r \in {[from |-> 0, to |-> 431], [from |-> 434, to |-> 913],
                   [from |-> 916, to |-> 1395], [from |-> 1398, to |-> 1877],
                   [from |-> 1880, to |-> 1927]} :
            r.from <= IntOffset(f) /\ IntOffset(f) + 47 <= r.to
      BY <3>1 DEF IntOffset
    <3>3. r \in ClearedRanges[2]
      BY <3>2 DEF ClearedRanges
    <3> QED
      BY <2>3, <3>2, <3>3
  <2> QED
    BY <2>1, <2>2, <2>3
<1>2. ASSUME RingInv, PacketInactive, NEW f \in Slot PROVE urb'[Offset(f)] = Silent
  BY <1>1, <1>2 DEF RingInv, RingTypeOK, PacketInactive
<1>3. RingInv /\ [RingNext]_ringVars =>
        [PacketInactive => \A f \in Slot : urb'[Offset(f)] = Silent]_ringVars
  BY <1>2
<1> QED
  BY <1>3, RingInvInit, RingInvNext, PTL DEF RingSpec, InactiveIsSilent

(* An interrupt transfer is laid out as by the macOS driver.               *)
THEOREM LayoutsAgree == RingSpec => []WireAsOnMac
<1>1. ASSUME NEW f \in 0 .. 39
      PROVE  IntOffset(f) = 482 * (f \div 10) + (IF f % 10 < 9 THEN 48 * (f % 10) ELSE 434)
  BY DEF IntOffset
<1>2. RingInv => WireAsOnMac
  <2> SUFFICES ASSUME RingInv, kind = "int" PROVE WireAsOnMac
    BY DEF WireAsOnMac
  <2>1. Slot = 0 .. 39 /\ \A f \in Slot : Offset(f) = IntOffset(f)
    BY DEF Slot, Frames, OutFrames, Offset
  <2>2. DOMAIN urb = {Offset(f) : f \in Slot}
    BY DEF RingInv, RingTypeOK
  <2> QED
    BY <1>1, <2>1, <2>2 DEF WireAsOnMac
<1> QED
  BY RingInvInit, RingInvNext, <1>2, PTL DEF RingSpec

-----------------------------------------------------------------------------
(* THE MIDI PARSERS                                                        *)

(* What both parsers count on: the sender's message begins with a status   *)
(* byte and is no longer than that says.                                   *)
WellFormed(m) ==
  /\ m \in Seq(0 .. 247)
  /\ m # <<>> => m[1] \in 128 .. 247 /\ Len(m) <= 1 + GetExpectedDataLength(m[1])

(* OzzyMIDI's buffer is the message as long as it is not complete.         *)
Buffered(m, buf, length) ==
  IF m = <<>> \/ Complete(m) THEN buf = <<>>
  ELSE buf = m /\ length = 1 + GetExpectedDataLength(m[1])

OzzyInv ==
  sending = "plain" => Buffered(message, buffer, expected) /\ ozzy = sent

(* What the DriverKit driver's parser keeps, and that it leaves room for    *)
(* the byte to come.                                                       *)
ParserType(kept, last, status) ==
  /\ kept \in [1 .. 3 -> 0 .. 255]
  /\ status \in 0 .. 255 /\ last \in 0 .. 2
  /\ status \in 192 .. 223 => last # 2

(* Its bytes are those of the message, if it is one of a channel; of a     *)
(* complete one it keeps the status for the next.                          *)
Follows(m, kept, last, status) ==
  m # <<>> /\ m[1] \in ChannelStatus =>
    /\ status = m[1] /\ kept[1] = m[1]
    /\ IF Complete(m) THEN last = 1
         ELSE last = Len(m) /\ \A k \in 1 .. Len(m) : kept[k] = m[k]

Delivers(m, n) ==
  m # <<>> /\ m[1] \notin (240 .. 247) \cup {253, 255} => n = m

PloytecInv ==
  sending # "lossy" =>
    /\ ParserType(bytes, index, runningStatus)
    /\ Follows(message, bytes, index, runningStatus)
    /\ Delivers(sent, ploytec)

ParserInv == WellFormed(message) /\ OzzyInv /\ PloytecInv

-----------------------------------------------------------------------------
(* How many data bytes a message has.                                      *)
LEMMA ExpectedType ==
  \A s \in 128 .. 247 : GetExpectedDataLength(s) \in 0 .. 2
BY DEF GetExpectedDataLength

LEMMA ChannelLength ==
  \A s \in ChannelStatus :
    GetExpectedDataLength(s) = IF s \in 192 .. 223 THEN 1 ELSE 2
BY DEF GetExpectedDataLength, ChannelStatus

(* A message of one status byte.                                           *)
LEMMA MessageBegins ==
  ASSUME NEW b \in Statuses
  PROVE  /\ b \in 128 .. 247 /\ <<b>> # <<>> /\ <<b>>[1] = b /\ Len(<<b>>) = 1
         /\ WellFormed(<<b>>)
         /\ Complete(<<b>>) <=> GetExpectedDataLength(b) = 0
<1>1. b \in 128 .. 247 /\ GetExpectedDataLength(b) \in 0 .. 2
  BY ParserAssumption, ExpectedType
<1>2. <<b>> \in Seq(0 .. 247) /\ Len(<<b>>) = 1 /\ <<b>>[1] = b /\ <<b>> # <<>>
  BY <1>1
<1> QED
  BY <1>1, <1>2 DEF WellFormed, Complete

(* A message with running status: the status of the last one, and a byte.  *)
LEMMA MessageRuns ==
  ASSUME NEW s \in ChannelStatus, NEW b \in Data
  PROVE  /\ <<s, b>> # <<>> /\ <<s, b>>[1] = s /\ <<s, b>>[2] = b /\ Len(<<s, b>>) = 2
         /\ WellFormed(<<s, b>>)
         /\ Complete(<<s, b>>) <=> s \in 192 .. 223
<1>1. s \in 128 .. 239 /\ b \in 0 .. 127
  BY ParserAssumption DEF ChannelStatus
<1>2. GetExpectedDataLength(s) = IF s \in 192 .. 223 THEN 1 ELSE 2
  BY ChannelLength
<1>3. /\ <<s, b>> \in Seq(0 .. 247) /\ Len(<<s, b>>) = 2 /\ <<s, b>>[1] = s
      /\ <<s, b>>[2] = b /\ <<s, b>> # <<>>
  BY <1>1
<1> QED
  BY <1>1, <1>2, <1>3 DEF WellFormed, Complete

(* An incomplete message with its next data byte.                          *)
LEMMA MessageGrows ==
  ASSUME NEW m, WellFormed(m), m # <<>>, ~Complete(m), NEW b \in Data
  PROVE  /\ m[1] \in 128 .. 247 /\ Append(m, b) # <<>> /\ Append(m, b)[1] = m[1]
         /\ Len(m) \in 1 .. GetExpectedDataLength(m[1])
         /\ Len(Append(m, b)) = Len(m) + 1
         /\ \A k \in 1 .. Len(m) : Append(m, b)[k] = m[k]
         /\ Append(m, b)[Len(m) + 1] = b
         /\ WellFormed(Append(m, b))
         /\ Complete(Append(m, b)) <=> Len(m) = GetExpectedDataLength(m[1])
<1>1. m \in Seq(0 .. 247) /\ b \in 0 .. 127 /\ Len(m) \in Nat \ {0} /\ m[1] \in 128 .. 247
  BY EmptySeq, ParserAssumption DEF WellFormed
<1>2. /\ Append(m, b) \in Seq(0 .. 247)
      /\ Len(Append(m, b)) = Len(m) + 1
      /\ \A k \in 1 .. Len(m) : Append(m, b)[k] = m[k]
      /\ Append(m, b)[Len(m) + 1] = b
  BY <1>1, AppendProperties
<1>3. Append(m, b)[1] = m[1] /\ Append(m, b) # <<>>
  BY <1>1, <1>2
<1>4. GetExpectedDataLength(m[1]) \in 0 .. 2
  BY <1>1, ExpectedType
<1>5. Len(m) # 1 + GetExpectedDataLength(m[1]) /\ Len(m) <= 1 + GetExpectedDataLength(m[1])
  BY DEF Complete, WellFormed
<1>6. WellFormed(Append(m, b))
  <2>1. \A n : /\ n \in Seq(0 .. 247) /\ n[1] \in 128 .. 247
               /\ Len(n) <= 1 + GetExpectedDataLength(n[1])
               => WellFormed(n)
    BY DEF WellFormed
  <2>2. Len(m) + 1 <= 1 + GetExpectedDataLength(m[1])
    BY <1>1, <1>4, <1>5
  <2> QED
    BY <1>1, <1>2, <1>3, <2>1, <2>2
<1>7. Complete(Append(m, b)) <=> Len(m) = GetExpectedDataLength(m[1])
  BY <1>1, <1>2, <1>3, <1>4, <1>5 DEF Complete
<1> QED
  BY <1>1, <1>2, <1>3, <1>4, <1>5, <1>6, <1>7

LEMMA MessageNext ==
  WellFormed(message) /\ [ParserNext]_parserVars => WellFormed(message')
<1> SUFFICES ASSUME WellFormed(message), [ParserNext]_parserVars PROVE WellFormed(message')
  OBVIOUS
<1>1. ASSUME NEW b \in Statuses, message' = <<b>> PROVE WellFormed(message')
  BY <1>1, MessageBegins
<1>2. ASSUME NEW b \in Data, message # <<>>, ~Complete(message), message' = Append(message, b)
      PROVE  WellFormed(message')
  BY <1>2, MessageGrows
<1>3. ASSUME NEW b \in Data, SendRunning, message' = <<message[1], b>>
      PROVE  WellFormed(message')
  BY <1>3, MessageRuns DEF SendRunning
<1>4. CASE UNCHANGED message
  BY <1>4
<1> QED
  BY <1>1, <1>2, <1>3, <1>4
     DEF ParserNext, SendStatus, SendData, SendRunning, SendRealtime, LoseByte, Lose, Sends,
         parserVars

(* OzzyMIDI delivers a message with its last byte, and keeps its bytes     *)
(* until then.                                                             *)
LEMMA OzzyNext == ParserInv /\ [ParserNext]_parserVars => OzzyInv'
<1> SUFFICES ASSUME ParserInv, [ParserNext]_parserVars, sending' = "plain"
    PROVE  Buffered(message', buffer', expected') /\ ozzy' = sent'
  BY DEF OzzyInv
<1>0. sending = "plain" /\ sending' = sending
  BY DEF ParserNext, SendStatus, SendData, SendRunning, SendRealtime, LoseByte,
         Lose, Sends, parserVars
<1>a. WellFormed(message) /\ Buffered(message, buffer, expected) /\ ozzy = sent
  BY <1>0 DEF ParserInv, OzzyInv
<1>1. CASE SendStatus
  <2>1. PICK b \in Statuses : Sends(<<b>>, b)
    BY <1>1 DEF SendStatus
  <2>2. b \in 128 .. 247 /\ <<b>> # <<>> /\ <<b>>[1] = b
    BY MessageBegins
  <2>3. Complete(<<b>>) <=> GetExpectedDataLength(b) = 0
    BY MessageBegins
  <2>4. /\ message' = <<b>> /\ sent' = IF Complete(<<b>>) THEN <<b>> ELSE <<>>
        /\ OzzyReceives(b)
    BY <2>1 DEF Sends, Receive
  <2>5. ~(b >= 248) /\ ~(b < 128)
    BY <2>2
  <2>6. IF GetExpectedDataLength(b) = 0 THEN ozzy' = <<b>> /\ buffer' = <<>>
        ELSE buffer' = <<b>> /\ expected' = 1 + GetExpectedDataLength(b) /\ ozzy' = <<>>
    BY <2>4, <2>5 DEF OzzyReceives, Deliver, Keep
  <2>7. CASE Complete(<<b>>)
    <3>1. sent' = <<b>> /\ ozzy' = <<b>> /\ buffer' = <<>>
      BY <2>3, <2>4, <2>6, <2>7
    <3> QED
      BY <2>4, <2>7, <3>1 DEF Buffered
  <2>8. CASE ~Complete(<<b>>)
    <3>1. sent' = <<>> /\ ozzy' = <<>>
      BY <2>3, <2>4, <2>6, <2>8
    <3>2. buffer' = <<b>> /\ expected' = 1 + GetExpectedDataLength(<<b>>[1])
      BY <2>2, <2>3, <2>6, <2>8
    <3> QED
      BY <2>2, <2>4, <2>8, <3>1, <3>2 DEF Buffered
  <2> QED
    BY <2>7, <2>8
<1>2. CASE SendData
  <2>1. PICK b \in Data : Sends(Append(message, b), b)
    BY <1>2 DEF SendData
  <2>2. message # <<>> /\ ~Complete(message)
    BY <1>2 DEF SendData
  <2>3. buffer = message /\ expected = 1 + GetExpectedDataLength(message[1])
    BY <1>a, <2>2 DEF Buffered
  <2>4. b < 128 /\ b \notin 128 .. 247 /\ ~(b >= 248)
    BY ParserAssumption
  <2> DEFINE longer == Append(message, b)
  <2>5. longer # <<>> /\ longer[1] = message[1]
    BY <1>a, <2>2, MessageGrows
  <2>6. Complete(longer) <=> Len(message) = GetExpectedDataLength(message[1])
    BY <1>a, <2>2, MessageGrows
  <2>7. Len(message) \in Nat /\ GetExpectedDataLength(message[1]) \in Nat
    <3>1. message[1] \in 128 .. 247
      BY <1>a, <2>2, MessageGrows
    <3>2. Len(message) \in 1 .. GetExpectedDataLength(message[1])
      BY <1>a, <2>2, MessageGrows
    <3>3. GetExpectedDataLength(message[1]) \in 0 .. 2
      BY <3>1, ExpectedType
    <3> QED
      BY <3>2, <3>3
  <2>8. /\ message' = longer /\ sent' = IF Complete(longer) THEN longer ELSE <<>>
        /\ OzzyReceives(b)
    BY <2>1 DEF Sends, Receive
  <2>9. Len(message) + 1 = expected <=> Complete(longer)
    BY <2>3, <2>6, <2>7
  <2>10. IF Len(message) + 1 = expected THEN Deliver(longer) ELSE Keep(longer, expected)
    BY <2>2, <2>3, <2>4, <2>8 DEF OzzyReceives
  <2> HIDE DEF longer
  <2>11. CASE Complete(longer)
    <3>1. sent' = longer /\ ozzy' = longer /\ buffer' = <<>>
      BY <2>8, <2>9, <2>10, <2>11 DEF Deliver
    <3> QED
      BY <2>8, <2>11, <3>1 DEF Buffered
  <2>12. CASE ~Complete(longer)
    <3>1. sent' = <<>> /\ ozzy' = <<>> /\ buffer' = longer /\ expected' = expected
      BY <2>8, <2>9, <2>10, <2>12 DEF Keep
    <3> QED
      BY <2>3, <2>5, <2>8, <2>12, <3>1 DEF Buffered
  <2> QED
    BY <2>11, <2>12
<1>3. CASE SendRealtime
  <2>1. PICK b \in Realtime : sent' = <<b>> /\ UNCHANGED message /\ Receive(b)
    BY <1>3 DEF SendRealtime
  <2>2. b >= 248 /\ b \notin 128 .. 247 /\ ~(b < 128)
    BY ParserAssumption
  <2>3. ozzy' = <<b>> /\ UNCHANGED <<buffer, expected>>
    BY <2>1, <2>2 DEF Receive, OzzyReceives, PassOn
  <2> QED
    BY <1>a, <2>1, <2>3
<1>4. CASE UNCHANGED parserVars
  BY <1>a, <1>4 DEF parserVars
<1> QED
  BY <1>0, <1>1, <1>2, <1>3, <1>4 DEF ParserNext, SendRunning, LoseByte

LEMMA PloytecStatus ==
  ASSUME NEW b \in 128 .. 247, ParserType(bytes, index, runningStatus), PloytecReceives(b)
  PROVE  /\ bytes' = [bytes EXCEPT ![1] = b] /\ runningStatus' = b
         /\ index' = 1 /\ ploytec' = <<>>
         /\ ParserType(bytes', index', runningStatus')
<1>1. b >= 128 /\ b \notin {253, 255} /\ ~(b >= 248) /\ b \in 0 .. 255
  OBVIOUS
<1>2. bytes' = [bytes EXCEPT ![1] = b] /\ runningStatus' = b
  BY <1>1 DEF PloytecReceives
<1>3. LET length == IF b \in 192 .. 223 THEN 2 ELSE 3
      IN  /\ index' = AfterByte(1, length)
          /\ ploytec' = IF 1 = length THEN SubSeq(bytes', 1, length) ELSE <<>>
  BY <1>1 DEF PloytecReceives
<1>4. index' = 1 /\ ploytec' = <<>>
  BY <1>3 DEF AfterByte
<1>5. bytes' \in [1 .. 3 -> 0 .. 255]
  BY <1>1, <1>2 DEF ParserType
<1> QED
  BY <1>1, <1>2, <1>4, <1>5 DEF ParserType

LEMMA PloytecData ==
  ASSUME NEW b \in 0 .. 127, ParserType(bytes, index, runningStatus), PloytecReceives(b),
         runningStatus # 0
  PROVE  /\ bytes' = [bytes EXCEPT ![index + 1] = b] /\ runningStatus' = runningStatus
         /\ LET length == IF runningStatus \in 192 .. 223 THEN 2 ELSE 3
            IN  IF index + 1 = length
                  THEN index' = 1 /\ ploytec' = SubSeq(bytes', 1, length)
                  ELSE index' = index + 1 /\ ploytec' = <<>>
         /\ ParserType(bytes', index', runningStatus')
<1>1. index \in 0 .. 2 /\ runningStatus \in 0 .. 255 /\ bytes \in [1 .. 3 -> 0 .. 255]
      /\ (runningStatus \in 192 .. 223 => index # 2)
  BY DEF ParserType
<1>2. ~(b >= 128) /\ b \notin {253, 255} /\ ~(b >= 248) /\ index < 3
  BY <1>1
<1>3. bytes' = [bytes EXCEPT ![index + 1] = b] /\ runningStatus' = runningStatus
  BY <1>2 DEF PloytecReceives
<1>4. LET length == IF runningStatus \in 192 .. 223 THEN 2 ELSE 3
      IN  /\ index' = AfterByte(index + 1, length)
          /\ ploytec' = IF index + 1 = length THEN SubSeq(bytes', 1, length) ELSE <<>>
  BY <1>2 DEF PloytecReceives
<1>5. LET length == IF runningStatus \in 192 .. 223 THEN 2 ELSE 3
      IN  IF index + 1 = length
            THEN index' = 1 /\ ploytec' = SubSeq(bytes', 1, length)
            ELSE index' = index + 1 /\ ploytec' = <<>>
  BY <1>4 DEF AfterByte
<1>6. index' \in 0 .. 2 /\ (runningStatus \in 192 .. 223 => index' # 2)
  BY <1>1, <1>5
<1>7. bytes' \in [1 .. 3 -> 0 .. 255]
  BY <1>1, <1>3
<1> QED
  BY <1>1, <1>3, <1>5, <1>6, <1>7 DEF ParserType

LEMMA PloytecNothing ==
  ASSUME NEW b \in 0 .. 127, ParserType(bytes, index, runningStatus), PloytecReceives(b),
         runningStatus = 0
  PROVE  ParserType(bytes', index', runningStatus')
<1>1. ~(b >= 128) /\ b \notin {253, 255} /\ ~(b >= 248)
  OBVIOUS
<1>2. UNCHANGED <<bytes, runningStatus>>
  BY <1>1 DEF PloytecReceives
<1>3. index' = AfterByte(index, 3)
  BY <1>1 DEF PloytecReceives
<1> QED
  BY <1>2, <1>3 DEF ParserType, AfterByte

LEMMA FirstBytes ==
  ASSUME NEW m \in Seq(0 .. 247), NEW kept, Len(m) >= 1, \A k \in 1 .. Len(m) : kept[k] = m[k]
  PROVE  SubSeq(kept, 1, Len(m)) = m
<1>1. Len(m) \in Nat /\ \A k \in 1 .. Len(m) : m[k] \in 0 .. 247
  <2>1. Len(m) \in Nat
    OBVIOUS
  <2>2. \A k \in 1 .. Len(m) : m[k] \in 0 .. 247
    BY ElementOfSeq
  <2> QED
    BY <2>1, <2>2
<1>a. \A k \in 1 .. Len(m) : kept[k] \in 0 .. 247
  BY <1>1
<1>b. 1 \in Int /\ Len(m) \in Int
  BY <1>1
<1>2. /\ SubSeq(kept, 1, Len(m)) \in Seq(0 .. 247)
      /\ Len(SubSeq(kept, 1, Len(m))) = IF 1 <= Len(m) THEN Len(m) - 1 + 1 ELSE 0
      /\ \A k \in 1 .. Len(m) - 1 + 1 : SubSeq(kept, 1, Len(m))[k] = kept[1 + k - 1]
  BY <1>a, <1>b, SubSeqProperties
<1>3. Len(SubSeq(kept, 1, Len(m))) = Len(m)
  BY <1>1, <1>2
<1>4. \A k \in 1 .. Len(m) : SubSeq(kept, 1, Len(m))[k] = m[k]
  BY <1>1, <1>2
<1> QED
  BY <1>2, <1>3, <1>4, SeqEqual

\* A channel message that the parser's bytes follow, with its last byte.
LEMMA Follow ==
  ASSUME NEW m, WellFormed(m), m # <<>>, m[1] \in ChannelStatus, Len(m) >= 2,
         ParserType(bytes', index', runningStatus'),
         runningStatus' = m[1], \A k \in 1 .. Len(m) : bytes'[k] = m[k],
         LET length == IF m[1] \in 192 .. 223 THEN 2 ELSE 3
         IN  IF Len(m) = length
               THEN index' = 1 /\ ploytec' = SubSeq(bytes', 1, length)
               ELSE index' = Len(m) /\ ploytec' = <<>>
  PROVE  /\ Follows(m, bytes', index', runningStatus')
         /\ Delivers(IF Complete(m) THEN m ELSE <<>>, ploytec')
<1>1. m \in Seq(0 .. 247) /\ Len(m) \in Nat
  BY DEF WellFormed
<1>2. Complete(m) <=> Len(m) = IF m[1] \in 192 .. 223 THEN 2 ELSE 3
  <2>1. GetExpectedDataLength(m[1]) = IF m[1] \in 192 .. 223 THEN 1 ELSE 2
    BY ChannelLength
  <2>2. Complete(m) <=> Len(m) = 1 + GetExpectedDataLength(m[1])
    BY DEF Complete
  <2> QED
    BY <1>1, <2>1, <2>2
<1>3. SubSeq(bytes', 1, Len(m)) = m
  BY <1>1, FirstBytes
<1>4. bytes'[1] = m[1]
  BY <1>1
<1>5. Follows(m, bytes', index', runningStatus')
  BY <1>2, <1>4 DEF Follows
<1>6. CASE Complete(m)
  <2>1. ploytec' = m
    BY <1>2, <1>3, <1>6
  <2> QED
    BY <1>5, <1>6, <2>1 DEF Delivers
<1>7. CASE ~Complete(m)
  BY <1>5, <1>7 DEF Delivers
<1> QED
  BY <1>6, <1>7

LEMMA PloytecNext == ParserInv /\ [ParserNext]_parserVars => PloytecInv'
<1> SUFFICES ASSUME ParserInv, [ParserNext]_parserVars, sending' # "lossy"
    PROVE  /\ ParserType(bytes', index', runningStatus')
           /\ Follows(message', bytes', index', runningStatus')
           /\ Delivers(sent', ploytec')
  BY DEF PloytecInv
<1>0. sending # "lossy"
  BY DEF ParserNext, SendStatus, SendData, SendRunning, SendRealtime, LoseByte,
         Lose, Sends, parserVars
<1>a. /\ WellFormed(message) /\ ParserType(bytes, index, runningStatus)
      /\ Follows(message, bytes, index, runningStatus) /\ Delivers(sent, ploytec)
  BY <1>0 DEF ParserInv, PloytecInv
<1>1. CASE SendStatus
  <2>1. PICK b \in Statuses : Sends(<<b>>, b)
    BY <1>1 DEF SendStatus
  <2>2. b \in 128 .. 247 /\ <<b>> # <<>> /\ <<b>>[1] = b /\ Len(<<b>>) = 1
    BY MessageBegins
  <2>3. Complete(<<b>>) <=> GetExpectedDataLength(b) = 0
    BY MessageBegins
  <2>4. /\ message' = <<b>> /\ sent' = IF Complete(<<b>>) THEN <<b>> ELSE <<>>
        /\ PloytecReceives(b)
    BY <2>1 DEF Sends, Receive
  <2>5. /\ bytes' = [bytes EXCEPT ![1] = b] /\ runningStatus' = b
        /\ index' = 1 /\ ploytec' = <<>>
        /\ ParserType(bytes', index', runningStatus')
    BY <1>a, <2>2, <2>4, PloytecStatus
  <2>6. bytes'[1] = b
    BY <1>a, <2>5 DEF ParserType
  <2>7. b \in ChannelStatus => ~Complete(<<b>>)
    BY <2>3, ChannelLength
  <2>8. Follows(message', bytes', index', runningStatus')
    BY <2>2, <2>4, <2>5, <2>6, <2>7 DEF Follows
  <2>9. Delivers(sent', ploytec')
    BY <2>2, <2>4, <2>5, <2>7 DEF Delivers, ChannelStatus
  <2> QED
    BY <2>5, <2>8, <2>9
<1>2. CASE SendData
  <2>1. PICK b \in Data : Sends(Append(message, b), b)
    BY <1>2 DEF SendData
  <2>2. message # <<>> /\ ~Complete(message) /\ b \in 0 .. 127
    BY <1>2, ParserAssumption DEF SendData
  <2> DEFINE longer == Append(message, b)
  <2>3. /\ message[1] \in 128 .. 247 /\ longer # <<>> /\ longer[1] = message[1]
        /\ Len(longer) = Len(message) + 1
        /\ \A k \in 1 .. Len(message) : longer[k] = message[k]
        /\ longer[Len(message) + 1] = b
        /\ WellFormed(longer)
    BY <1>a, <2>2, MessageGrows
  <2>4. /\ Len(message) \in 1 .. GetExpectedDataLength(message[1])
        /\ Complete(longer) <=> Len(message) = GetExpectedDataLength(message[1])
    BY <1>a, <2>2, MessageGrows
  <2>5. /\ message' = longer /\ sent' = IF Complete(longer) THEN longer ELSE <<>>
        /\ PloytecReceives(b)
    BY <2>1 DEF Sends, Receive
  <2> HIDE DEF longer
  <2>6. CASE message[1] \in ChannelStatus
    <3>1. /\ runningStatus = message[1] /\ index = Len(message)
          /\ \A k \in 1 .. Len(message) : bytes[k] = message[k]
      BY <1>a, <2>2, <2>6 DEF Follows
    <3>2. runningStatus # 0
      <4>1. message[1] # 0
        BY <2>6 DEF ChannelStatus
      <4>2. runningStatus = message[1]
        BY <3>1
      <4> QED
        BY <4>1, <4>2
    <3>3. bytes' = [bytes EXCEPT ![index + 1] = b] /\ runningStatus' = runningStatus
      BY <1>a, <2>2, <2>5, <3>2, PloytecData
    <3>4. LET length == IF runningStatus \in 192 .. 223 THEN 2 ELSE 3
          IN  IF index + 1 = length
                THEN index' = 1 /\ ploytec' = SubSeq(bytes', 1, length)
                ELSE index' = index + 1 /\ ploytec' = <<>>
      BY <1>a, <2>2, <2>5, <3>2, PloytecData
    <3>5. ParserType(bytes', index', runningStatus')
      BY <1>a, <2>2, <2>5, <3>2, PloytecData
    <3>6. \A k \in 1 .. Len(longer) : bytes'[k] = longer[k]
      <4>1. index \in 0 .. 2 /\ bytes \in [1 .. 3 -> 0 .. 255]
        BY <1>a DEF ParserType
      <4>2. ASSUME NEW k \in 1 .. Len(message) PROVE bytes'[k] = longer[k]
        <5>1. longer[k] = message[k] /\ bytes[k] = message[k]
          BY <2>3, <3>1
        <5>2. k \in 1 .. 3 /\ k # index + 1
          BY <3>1, <4>1
        <5> QED
          BY <3>3, <4>1, <5>1, <5>2
      <4>3. bytes'[index + 1] = b
        BY <3>3, <4>1
      <4>4. longer[index + 1] = b
        BY <2>3, <3>1
      <4>5. Len(longer) = index + 1 /\ Len(message) = index
        BY <2>3, <3>1
      <4> QED
        BY <4>1, <4>2, <4>3, <4>4, <4>5
    <3>7. Len(longer) >= 2 /\ index + 1 = Len(longer)
      <4>1. Len(longer) = Len(message) + 1
        BY <2>3
      <4>2. Len(message) \in 1 .. 2
        <5>1. GetExpectedDataLength(message[1]) \in 0 .. 2
          BY <2>3, ExpectedType
        <5>2. Len(message) \in 1 .. GetExpectedDataLength(message[1])
          BY <2>4
        <5> QED
          BY <5>1, <5>2
      <4>3. index = Len(message)
        BY <3>1
      <4> QED
        BY <4>1, <4>2, <4>3
    <3>8. LET length == IF longer[1] \in 192 .. 223 THEN 2 ELSE 3
          IN  IF Len(longer) = length
                THEN index' = 1 /\ ploytec' = SubSeq(bytes', 1, length)
                ELSE index' = Len(longer) /\ ploytec' = <<>>
      BY <2>3, <3>1, <3>4, <3>7
    <3>9. /\ WellFormed(longer) /\ longer # <<>> /\ longer[1] \in ChannelStatus
          /\ runningStatus' = longer[1]
      BY <2>3, <2>6, <3>1, <3>3
    <3>10. /\ Follows(longer, bytes', index', runningStatus')
           /\ Delivers(IF Complete(longer) THEN longer ELSE <<>>, ploytec')
      BY <3>5, <3>6, <3>7, <3>8, <3>9, Follow
    <3> QED
      BY <2>5, <3>5, <3>10
  <2>7. CASE message[1] \notin ChannelStatus
    <3>1. Follows(message', bytes', index', runningStatus')
      BY <2>3, <2>5, <2>7 DEF Follows
    <3>2. message[1] \in 240 .. 247
      BY <2>3, <2>7 DEF ChannelStatus
    <3>3. Delivers(sent', ploytec')
      BY <2>3, <2>5, <3>2 DEF Delivers
    <3>4. ParserType(bytes', index', runningStatus')
      BY <1>a, <2>2, <2>5, PloytecData, PloytecNothing
    <3> QED
      BY <3>1, <3>3, <3>4
  <2> QED
    BY <2>6, <2>7
<1>3. CASE SendRunning
  <2>1. PICK b \in Data : Sends(<<message[1], b>>, b)
    BY <1>3 DEF SendRunning
  <2> DEFINE next == <<message[1], b>>
  <2>2. Complete(message) /\ message # <<>> /\ message[1] \in ChannelStatus /\ b \in 0 .. 127
    BY <1>3, ParserAssumption DEF SendRunning, Complete
  <2>3. /\ next # <<>> /\ next[1] = message[1] /\ next[2] = b /\ Len(next) = 2
        /\ WellFormed(next)
    BY <2>2, MessageRuns
  <2>4. /\ message' = next /\ sent' = IF Complete(next) THEN next ELSE <<>>
        /\ PloytecReceives(b)
    BY <2>1 DEF Sends, Receive
  <2> HIDE DEF next
  <2>5. runningStatus = message[1] /\ bytes[1] = message[1] /\ index = 1
    BY <1>a, <2>2 DEF Follows
  <2>6. runningStatus # 0
    <3>1. message[1] # 0
      <4>1. message[1] \in ChannelStatus
        BY <2>2
      <4> QED
        BY <4>1 DEF ChannelStatus
    <3>2. runningStatus = message[1]
      BY <2>5
    <3> QED
      BY <3>1, <3>2
  <2>7. bytes' = [bytes EXCEPT ![2] = b] /\ runningStatus' = runningStatus
    <3>1. bytes' = [bytes EXCEPT ![index + 1] = b] /\ runningStatus' = runningStatus
      BY <1>a, <2>2, <2>4, <2>6, PloytecData
    <3> QED
      BY <2>5, <3>1
  <2>8. LET length == IF runningStatus \in 192 .. 223 THEN 2 ELSE 3
        IN  IF index + 1 = length
              THEN index' = 1 /\ ploytec' = SubSeq(bytes', 1, length)
              ELSE index' = index + 1 /\ ploytec' = <<>>
    BY <1>a, <2>2, <2>4, <2>6, PloytecData
  <2>9. ParserType(bytes', index', runningStatus')
    BY <1>a, <2>2, <2>4, <2>6, PloytecData
  <2>10. \A k \in 1 .. Len(next) : bytes'[k] = next[k]
    <3>1. bytes'[1] = message[1] /\ bytes'[2] = b
      BY <1>a, <2>5, <2>7 DEF ParserType
    <3> QED
      BY <2>3, <3>1
  <2>11. LET length == IF next[1] \in 192 .. 223 THEN 2 ELSE 3
         IN  IF Len(next) = length
               THEN index' = 1 /\ ploytec' = SubSeq(bytes', 1, length)
               ELSE index' = Len(next) /\ ploytec' = <<>>
    BY <2>3, <2>5, <2>8
  <2>12. next[1] \in ChannelStatus /\ runningStatus' = next[1] /\ Len(next) >= 2
    BY <2>2, <2>3, <2>5, <2>7
  <2>13. /\ Follows(next, bytes', index', runningStatus')
         /\ Delivers(IF Complete(next) THEN next ELSE <<>>, ploytec')
    BY <2>3, <2>9, <2>10, <2>11, <2>12, Follow
  <2> QED
    BY <2>4, <2>9, <2>13
<1>4. CASE SendRealtime
  <2>1. PICK b \in Realtime : sent' = <<b>> /\ UNCHANGED message /\ Receive(b)
    BY <1>4 DEF SendRealtime
  <2>2. b \in 248 .. 255
    BY ParserAssumption
  <2>3. PloytecReceives(b)
    BY <2>1 DEF Receive
  <2>4. UNCHANGED <<bytes, index, runningStatus>>
    <3>1. b >= 248
      BY <2>2
    <3> QED
      BY <2>3, <3>1 DEF PloytecReceives
  <2>5. b \notin {253, 255} => ploytec' = <<b>>
    BY <2>2, <2>3 DEF PloytecReceives
  <2>6. <<b>>[1] = b
    OBVIOUS
  <2>7. Delivers(<<b>>, ploytec')
    BY <2>5, <2>6 DEF Delivers
  <2> QED
    BY <1>a, <2>1, <2>4, <2>7
<1>5. CASE UNCHANGED parserVars
  BY <1>a, <1>5 DEF parserVars
<1> QED
  BY <1>0, <1>1, <1>2, <1>3, <1>4, <1>5 DEF ParserNext, LoseByte

LEMMA ParserInvInit == ParserInit => ParserInv
<1> SUFFICES ASSUME ParserInit PROVE ParserInv
  OBVIOUS
<1>1. message = <<>> /\ sent = <<>> /\ buffer = <<>> /\ ozzy = <<>> /\ ploytec = <<>>
  BY DEF ParserInit
<1>2. WellFormed(<<>>)
  BY DEF WellFormed
<1>3. OzzyInv
  BY <1>1 DEF OzzyInv, Buffered
<1>4. ParserType(bytes, index, runningStatus)
  BY DEF ParserInit, ParserType
<1>5. Follows(<<>>, bytes, index, runningStatus) /\ Delivers(<<>>, ploytec)
  BY DEF Follows, Delivers
<1> QED
  BY <1>1, <1>2, <1>3, <1>4, <1>5 DEF ParserInv, PloytecInv

LEMMA ParserInvNext == ParserInv /\ [ParserNext]_parserVars => ParserInv'
BY MessageNext, OzzyNext, PloytecNext DEF ParserInv

(* The MIDI driver's poll thread delivers every message, whole and with    *)
(* its last byte.                                                          *)
THEOREM OzzyDelivers == ParserSpec => []OzzyDeliversMessages
<1>1. ParserInv => OzzyDeliversMessages
  BY DEF ParserInv, OzzyInv, OzzyDeliversMessages
<1> QED
  BY ParserInvInit, ParserInvNext, <1>1, PTL DEF ParserSpec

(* The DriverKit driver's handler delivers every channel message, with     *)
(* running status too.                                                     *)
THEOREM PloytecDelivers == ParserSpec => []PloytecDeliversChannelMessages
<1>1. ParserInv => PloytecDeliversChannelMessages
  BY DEF ParserInv, PloytecInv, Delivers, PloytecDeliversChannelMessages
<1> QED
  BY ParserInvInit, ParserInvNext, <1>1, PTL DEF ParserSpec
===============================================================================

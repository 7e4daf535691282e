------------------------- MODULE OutputBufferProofs -------------------------
(***************************************************************************)
(* The output ring of the shared memory for every layout of a packet,      *)
(* every number of packets and every size of CoreAudio's buffers: what is  *)
(* in flight is of its time, keeps its MIDI bytes and is not written to.   *)
(*                                                                         *)
(* A byte of the ring has a place: its packet, its part and the offset in  *)
(* the part.  The first lemmas show that the engine's MIDI bytes, the      *)
(* frames that the codec writes and the bytes that it clears, each         *)
(* computed in its own way, meet in no place they should not.              *)
(***************************************************************************)
EXTENDS OutputBuffer, TLAPS

-----------------------------------------------------------------------------
(* ARITHMETIC                                                              *)

LEMMA DivMod ==
  ASSUME NEW d \in Nat, d > 0, NEW a \in Nat
  PROVE  /\ a = d * (a \div d) + (a % d)
         /\ a \div d \in Nat /\ a % d \in 0 .. d - 1
OBVIOUS

LEMMA MulStep ==
  ASSUME NEW d \in Nat, NEW a \in Nat, NEW b \in Nat, a < b
  PROVE  a * d + d <= b * d
<1>1. PICK k \in Nat : b = a + 1 + k
  <2>1. b - a - 1 \in Nat /\ b = a + 1 + (b - a - 1)
    OBVIOUS
  <2> QED
    BY <2>1
<1>2. b * d = a * d + d + k * d
  BY <1>1
<1>3. k * d \in Nat /\ a * d \in Nat
  OBVIOUS
<1> QED
  BY <1>2, <1>3

(* Division with remainder has one result.                                 *)
LEMMA Euclid ==
  ASSUME NEW d \in Nat, d > 0, NEW a \in Nat, NEW b \in Nat,
         NEW x \in 0 .. d - 1, NEW y \in 0 .. d - 1, a * d + x = b * d + y
  PROVE  a = b /\ x = y
<1>0. a * d \in Nat /\ b * d \in Nat
  OBVIOUS
<1>1. ~ a < b
  BY <1>0, MulStep
<1>2. ~ b < a
  BY <1>0, MulStep
<1>3. a = b
  BY <1>1, <1>2
<1> QED
  BY <1>0, <1>3

LEMMA Quotient ==
  ASSUME NEW d \in Nat, d > 0, NEW a \in Nat, NEW q \in Nat, NEW x \in 0 .. d - 1,
         a = q * d + x
  PROVE  a \div d = q /\ a % d = x
<1>1. /\ a = (a \div d) * d + (a % d) /\ a \div d \in Nat /\ a % d \in 0 .. d - 1
  BY DivMod
<1> QED
  BY <1>1, Euclid

(* Two numbers that agree modulo d are equal or at least d apart.          *)
LEMMA SameSlot ==
  ASSUME NEW d \in Nat, d > 0, NEW a \in Nat, NEW b \in Nat, a % d = b % d, a < b
  PROVE  a + d <= b
<1>1. /\ a = (a \div d) * d + (a % d) /\ a \div d \in Nat
      /\ b = (b \div d) * d + (b % d) /\ b \div d \in Nat
      /\ a % d \in Nat
  BY DivMod
<1> DEFINE p == a \div d
           q == b \div d
<1>2. p * d \in Nat /\ q * d \in Nat
  BY <1>1
<1> HIDE DEF p, q
<1>3. p * d < q * d
  BY <1>1, <1>2 DEF p, q
<1>4. p < q
  <2>1. ~ q < p
    BY <1>1, <1>2, <1>3, MulStep DEF p, q
  <2>2. q # p
    BY <1>2, <1>3
  <2> QED
    BY <1>1, <2>1, <2>2 DEF p, q
<1>5. p * d + d <= q * d
  BY <1>1, <1>4, MulStep DEF p, q
<1> QED
  BY <1>1, <1>2, <1>5 DEF p, q

-----------------------------------------------------------------------------
(* THE LAYOUT                                                              *)

(* The constants, and how the sizes that are derived from them relate.     *)
LEMMA Sizes ==
  /\ NumPackets \in Nat /\ NumPackets > 0 /\ Stride \in Nat /\ Stride > 0
  /\ SubPackets \in Nat /\ SubPackets > 0
  /\ FramesBefore \in Nat /\ FrameBytes \in Nat /\ FrameBytes > 0
  /\ IOFrames \in Nat /\ IOFrames > 0
  /\ PartFrames \in Nat /\ PartFrames = FramesBefore + 1
  /\ MidiOffset \in Nat /\ PartSize \in Nat
  /\ PartSize = MidiOffset + MidiBytes + FrameBytes
  /\ Frames \in Nat /\ Frames > 0 /\ Frames = SubPackets * PartFrames
  /\ RingSize \in Nat /\ RingSize > 0 /\ RingSize = NumPackets * Frames
  /\ SubPackets * PartSize <= Stride
<1>1. /\ NumPackets \in Nat /\ NumPackets > 0 /\ Stride \in Nat /\ Stride > 0
      /\ SubPackets \in Nat /\ SubPackets > 0
      /\ FramesBefore \in Nat /\ FrameBytes \in Nat /\ FrameBytes > 0
      /\ IOFrames \in Nat /\ IOFrames > 0
      /\ SubPackets * PartSize <= Stride
  BY LayoutAssumption
<1>2. PartFrames \in Nat /\ PartFrames = FramesBefore + 1 /\ PartFrames > 0
  BY <1>1 DEF PartFrames
<1>3. \A x, y \in Nat : x * y \in Nat /\ (x > 0 /\ y > 0 => x * y > 0)
  OBVIOUS
<1>4. MidiOffset \in Nat /\ PartSize = MidiOffset + MidiBytes + FrameBytes
  BY <1>1, <1>3 DEF MidiOffset, PartSize, PartFrames, MidiBytes
<1>5. PartSize \in Nat
  BY <1>1, <1>4 DEF MidiBytes
<1>6. Frames \in Nat /\ Frames > 0 /\ Frames = SubPackets * PartFrames
  BY <1>1, <1>2, <1>3 DEF Frames
<1>7. RingSize \in Nat /\ RingSize > 0 /\ RingSize = NumPackets * Frames
  BY <1>1, <1>3, <1>6 DEF RingSize
<1> QED
  BY <1>1, <1>2, <1>4, <1>5, <1>6, <1>7

(* A byte's place in the ring.                                             *)
Place(p, i, j) == Base(p) + i * PartSize + j
InPart == 0 .. PartSize - 1

(* A part's offset in its packet lies before the next packet's.            *)
LEMMA PartInPacket ==
  ASSUME NEW i \in Part, NEW j \in InPart
  PROVE  i * PartSize + j \in 0 .. Stride - 1 /\ i * PartSize \in Nat
<1>1. i \in Nat /\ i < SubPackets
  BY Sizes DEF Part
<1>2. i * PartSize \in Nat /\ i * PartSize + PartSize <= SubPackets * PartSize
  BY <1>1, Sizes, MulStep
<1> DEFINE before == i * PartSize
           all == SubPackets * PartSize
<1>3. /\ before \in Nat /\ before + PartSize <= all /\ all <= Stride
      /\ all \in Nat /\ Stride \in Nat /\ PartSize \in Nat
  BY <1>2, Sizes
<1> HIDE DEF before, all
<1>4. before + j \in 0 .. Stride - 1
  BY <1>3 DEF InPart
<1> QED
  BY <1>3, <1>4 DEF before

LEMMA PlaceUnique ==
  ASSUME NEW p \in Nat, NEW q \in Nat, NEW i \in Part, NEW k \in Part,
         NEW j \in InPart, NEW l \in InPart, Place(p, i, j) = Place(q, k, l)
  PROVE  p = q /\ i = k /\ j = l
<1>1. /\ i * PartSize + j \in 0 .. Stride - 1 /\ i * PartSize \in Nat
      /\ k * PartSize + l \in 0 .. Stride - 1 /\ k * PartSize \in Nat
  BY PartInPacket
<1>2. p * Stride \in Nat /\ q * Stride \in Nat
  BY Sizes
<1> DEFINE x == i * PartSize + j
           y == k * PartSize + l
<1>3. p * Stride + x = q * Stride + y /\ x \in 0 .. Stride - 1 /\ y \in 0 .. Stride - 1
  BY <1>1, <1>2 DEF Place, Base, InPart
<1>4. p = q /\ x = y
  <2> HIDE DEF x, y
  <2> QED
    BY <1>3, Sizes, Euclid
<1>5. i \in Nat /\ k \in Nat /\ PartSize > 0
  BY Sizes DEF Part, MidiBytes
<1>6. i = k /\ j = l
  BY <1>4, <1>5, Sizes, Euclid DEF InPart
<1> QED
  BY <1>4, <1>6

(* The places of a packet are addresses of it, and of no other.            *)
LEMMA PlaceInPacket ==
  ASSUME NEW p \in Packet, NEW i \in Part, NEW j \in InPart
  PROVE  /\ Place(p, i, j) \in Address
         /\ \A n \in Nat : Place(p, i, j) \in PacketAddress(n) => p = n % NumPackets
<1>1. i * PartSize + j \in 0 .. Stride - 1 /\ i * PartSize \in Nat
  BY PartInPacket
<1>2. p \in Nat /\ p < NumPackets /\ p * Stride \in Nat
  BY Sizes DEF Packet
<1>3. p * Stride + Stride <= NumPackets * Stride /\ NumPackets * Stride \in Nat
  BY <1>2, Sizes, MulStep
<1>4. Place(p, i, j) = p * Stride + (i * PartSize + j)
  BY <1>1, <1>2 DEF Place, Base, InPart
<1>5. Place(p, i, j) \in Address
  BY <1>1, <1>2, <1>3, <1>4, Sizes DEF Address
<1>6. ASSUME NEW n \in Nat, Place(p, i, j) \in PacketAddress(n)
      PROVE  p = n % NumPackets
  <2>1. PICK x \in 0 .. Stride - 1 : Place(p, i, j) = (n % NumPackets) * Stride + x
    BY <1>6 DEF PacketAddress, Base
  <2>2. n % NumPackets \in Nat
    BY Sizes, DivMod
  <2> QED
    BY <1>1, <1>2, <1>4, <2>1, <2>2, Sizes, Euclid
<1> QED
  BY <1>5, <1>6

-----------------------------------------------------------------------------
(* FRAMES, MIDI BYTES AND WHAT IS CLEARED                                  *)

(* Where the codec puts the frame of sample time t, and its byte b.        *)
PacketOf(t) == (t % RingSize) \div Frames
PartOf(t) == ((t % RingSize) % Frames) \div PartFrames
SampleOf(t) == ((t % RingSize) % Frames) % PartFrames
FrameByte == 0 .. FrameBytes - 1
Within(s, b) ==
  b + IF s < FramesBefore THEN s * FrameBytes ELSE MidiOffset + MidiBytes

LEMMA Coordinates ==
  ASSUME NEW t \in Nat
  PROVE  /\ PacketOf(t) \in Packet /\ PartOf(t) \in Part
         /\ SampleOf(t) \in 0 .. PartFrames - 1
         /\ t % RingSize \in 0 .. RingSize - 1
         /\ t % RingSize = PacketOf(t) * Frames + (PartOf(t) * PartFrames + SampleOf(t))
<1> DEFINE o == t % RingSize
           f == o % Frames
<1>0. /\ RingSize \in Nat /\ RingSize > 0 /\ Frames \in Nat /\ Frames > 0
      /\ PartFrames \in Nat /\ PartFrames > 0
  BY Sizes
<1>1. o \in Nat /\ o < RingSize
  BY <1>0, DivMod
<1> HIDE DEF o
<1>2. /\ o = (o \div Frames) * Frames + f /\ o \div Frames \in Nat
      /\ f \in Nat /\ f < Frames
  BY <1>0, <1>1, DivMod
<1> HIDE DEF f
<1>3. /\ f = (f \div PartFrames) * PartFrames + (f % PartFrames)
      /\ f \div PartFrames \in Nat
      /\ f % PartFrames \in Nat /\ f % PartFrames < PartFrames
  BY <1>0, <1>2, DivMod
<1>4. \A x, y, d \in Nat : x * d < y * d => x < y
  <2> SUFFICES ASSUME NEW x \in Nat, NEW y \in Nat, NEW d \in Nat, x * d < y * d
               PROVE  x < y
    OBVIOUS
  <2>1. x * d \in Nat /\ y * d \in Nat
    OBVIOUS
  <2>2. x # y
    BY <2>1
  <2>3. ~ y < x
    BY <2>1, MulStep
  <2> QED
    BY <2>2, <2>3
<1>5. (o \div Frames) * Frames < NumPackets * Frames
  <2>1. (o \div Frames) * Frames \in Nat
    BY <1>2, <1>0
  <2>2. NumPackets * Frames = RingSize
    BY Sizes
  <2> QED
    BY <1>0, <1>1, <1>2, <2>1, <2>2
<1>6. (f \div PartFrames) * PartFrames < SubPackets * PartFrames
  <2>1. (f \div PartFrames) * PartFrames \in Nat
    BY <1>3, <1>0
  <2>2. SubPackets * PartFrames = Frames
    BY Sizes
  <2> QED
    BY <1>0, <1>2, <1>3, <2>1, <2>2
<1>7. o \div Frames \in Packet
  BY <1>0, <1>2, <1>4, <1>5, Sizes DEF Packet
<1>8. f \div PartFrames \in Part
  BY <1>0, <1>3, <1>4, <1>6, Sizes DEF Part
<1> QED
  BY <1>0, <1>1, <1>2, <1>3, <1>7, <1>8 DEF o, f, PacketOf, PartOf, SampleOf

LEMMA WithinPart ==
  ASSUME NEW s \in 0 .. PartFrames - 1, NEW b \in FrameByte
  PROVE  /\ Within(s, b) \in InPart
         /\ Within(s, b) \in (0 .. MidiOffset - 1)
              \cup (MidiOffset + MidiBytes .. MidiOffset + MidiBytes + FrameBytes - 1)
<1>0. /\ s \in Nat /\ MidiOffset \in Nat /\ FrameBytes \in Nat
      /\ PartSize = MidiOffset + MidiBytes + FrameBytes /\ FramesBefore \in Nat
  BY Sizes
<1>1. CASE s < FramesBefore
  <2> DEFINE at == s * FrameBytes
  <2>1. at + FrameBytes <= MidiOffset /\ at \in Nat
    BY <1>0, <1>1, MulStep DEF MidiOffset
  <2> HIDE DEF at
  <2>2. at + b \in 0 .. MidiOffset - 1
    BY <1>0, <2>1 DEF FrameByte
  <2> QED
    BY <1>0, <1>1, <2>1, <2>2 DEF Within, InPart, MidiBytes, FrameByte, at
<1>2. CASE ~ s < FramesBefore
  BY <1>0, <1>2 DEF Within, InPart, MidiBytes, FrameByte
<1> QED
  BY <1>1, <1>2

LEMMA WithinUnique ==
  ASSUME NEW s \in 0 .. PartFrames - 1, NEW u \in 0 .. PartFrames - 1,
         NEW b \in FrameByte, NEW c \in FrameByte, Within(s, b) = Within(u, c)
  PROVE  s = u /\ b = c
<1>0. /\ s \in Nat /\ u \in Nat /\ MidiOffset \in Nat /\ FrameBytes \in Nat
      /\ FrameBytes > 0 /\ FramesBefore \in Nat /\ PartFrames = FramesBefore + 1
  BY Sizes
<1>1. \A x \in Nat : \A y \in FrameByte :
        x < FramesBefore => x * FrameBytes \in Nat /\ x * FrameBytes + y < MidiOffset
  <2> SUFFICES ASSUME NEW x \in Nat, NEW y \in FrameByte, x < FramesBefore
               PROVE  x * FrameBytes \in Nat /\ x * FrameBytes + y < MidiOffset
    OBVIOUS
  <2>1. x * FrameBytes + FrameBytes <= MidiOffset /\ x * FrameBytes \in Nat
    BY <1>0, MulStep DEF MidiOffset
  <2> QED
    BY <1>0, <2>1 DEF FrameByte
<1>2. CASE s < FramesBefore /\ u < FramesBefore
  <2>1. s * FrameBytes + b = u * FrameBytes + c
    BY <1>0, <1>1, <1>2 DEF Within, FrameByte
  <2> QED
    BY <1>0, <2>1, Euclid DEF FrameByte
<1>3. CASE s < FramesBefore /\ ~ u < FramesBefore
  <2>1. Within(s, b) < MidiOffset
    <3> DEFINE at == s * FrameBytes
    <3>1. at \in Nat /\ at + b < MidiOffset
      BY <1>0, <1>1, <1>3
    <3>2. Within(s, b) = b + at
      BY <1>3 DEF Within
    <3> HIDE DEF at
    <3> QED
      BY <1>0, <3>1, <3>2 DEF FrameByte
  <2>2. Within(u, c) >= MidiOffset
    BY <1>0, <1>3 DEF Within, FrameByte, MidiBytes
  <2>3. Within(u, c) \in Nat
    BY <1>0, <1>3 DEF Within, FrameByte, MidiBytes
  <2> QED
    BY <1>0, <2>1, <2>2, <2>3
<1>4. CASE ~ s < FramesBefore /\ u < FramesBefore
  <2>1. Within(u, c) < MidiOffset
    <3> DEFINE at == u * FrameBytes
    <3>1. at \in Nat /\ at + c < MidiOffset
      BY <1>0, <1>1, <1>4
    <3>2. Within(u, c) = c + at
      BY <1>4 DEF Within
    <3> HIDE DEF at
    <3> QED
      BY <1>0, <3>1, <3>2 DEF FrameByte
  <2>2. Within(s, b) >= MidiOffset /\ Within(s, b) \in Nat
    BY <1>0, <1>4 DEF Within, FrameByte, MidiBytes
  <2> QED
    BY <1>0, <2>1, <2>2
<1>5. CASE ~ s < FramesBefore /\ ~ u < FramesBefore
  BY <1>0, <1>5 DEF Within, FrameByte, MidiBytes
<1> QED
  BY <1>2, <1>3, <1>4, <1>5

LEMMA FramePlace ==
  ASSUME NEW t \in Nat, NEW b \in FrameByte
  PROVE  FrameAddress(t) + b = Place(PacketOf(t), PartOf(t), Within(SampleOf(t), b))
<1> DEFINE s == SampleOf(t)
           i == PartOf(t) * PartSize
           in == IF s < FramesBefore THEN s * FrameBytes ELSE MidiOffset + MidiBytes
<1>1. s \in Nat /\ PartOf(t) \in Nat /\ PacketOf(t) \in Nat /\ b \in Nat
  <2>1. /\ NumPackets \in Nat /\ SubPackets \in Nat /\ PartFrames \in Nat
        /\ FrameBytes \in Nat
    BY Sizes
  <2>2. /\ PacketOf(t) \in Packet /\ PartOf(t) \in Part
        /\ s \in 0 .. PartFrames - 1
    BY Coordinates
  <2> QED
    BY <2>1, <2>2 DEF FrameByte, Packet, Part
<1>2. i \in Nat /\ Base(PacketOf(t)) \in Nat /\ in \in Nat
  BY <1>1, Sizes DEF Base, MidiBytes
<1>3. FrameAddress(t) = Base(PacketOf(t)) + i + in
  BY DEF FrameAddress, PacketOf, PartOf, SampleOf
<1>4. Place(PacketOf(t), PartOf(t), Within(SampleOf(t), b))
        = Base(PacketOf(t)) + i + (b + in)
  BY DEF Place, Within
<1> HIDE DEF i, in
<1> QED
  BY <1>1, <1>2, <1>3, <1>4

-----------------------------------------------------------------------------
(* The codec clears what it writes, and writes within the ring.            *)
LEMMA FrameIsCleared ==
  ASSUME NEW t \in Nat, NEW b \in FrameByte
  PROVE  /\ FrameAddress(t) + b \in Address
         /\ FrameAddress(t) + b \in ClearedAddresses
         /\ \A n \in Nat : FrameAddress(t) + b \in PacketAddress(n) =>
                             PacketOf(t) = n % NumPackets
<1> DEFINE p == PacketOf(t)
           i == PartOf(t)
           j == Within(SampleOf(t), b)
<1>1. p \in Packet /\ i \in Part /\ j \in InPart
  BY Coordinates, WithinPart
<1>2. j \in (0 .. MidiOffset - 1)
              \cup (MidiOffset + MidiBytes .. MidiOffset + MidiBytes + FrameBytes - 1)
  BY Coordinates, WithinPart
<1>3. FrameAddress(t) + b = Place(p, i, j)
  BY FramePlace
<1> HIDE DEF p, i, j
<1>4. Place(p, i, j) \in ClearedAddresses
  BY <1>1, <1>2 DEF ClearedAddresses, Place
<1> QED
  BY <1>1, <1>3, <1>4, PlaceInPacket DEF p

(* Two frames share a byte only a lap apart.                               *)
LEMMA FramesMeet ==
  ASSUME NEW t \in Nat, NEW u \in Nat, NEW b \in FrameByte, NEW c \in FrameByte,
         FrameAddress(t) + b = FrameAddress(u) + c
  PROVE  t % RingSize = u % RingSize /\ b = c
<1>1. /\ PacketOf(t) \in Packet /\ PartOf(t) \in Part
      /\ SampleOf(t) \in 0 .. PartFrames - 1
      /\ PacketOf(u) \in Packet /\ PartOf(u) \in Part
      /\ SampleOf(u) \in 0 .. PartFrames - 1
  BY Coordinates
<1>2. PacketOf(t) \in Nat /\ PacketOf(u) \in Nat
  BY <1>1, Sizes DEF Packet
<1>3. Within(SampleOf(t), b) \in InPart /\ Within(SampleOf(u), c) \in InPart
  BY <1>1, WithinPart
<1>4. /\ PacketOf(t) = PacketOf(u) /\ PartOf(t) = PartOf(u)
      /\ Within(SampleOf(t), b) = Within(SampleOf(u), c)
  <2>1. Place(PacketOf(t), PartOf(t), Within(SampleOf(t), b))
          = Place(PacketOf(u), PartOf(u), Within(SampleOf(u), c))
    BY FramePlace
  <2> QED
    BY <1>1, <1>2, <1>3, <2>1, PlaceUnique
<1>5. SampleOf(t) = SampleOf(u) /\ b = c
  BY <1>1, <1>4, WithinUnique
<1>6. /\ t % RingSize = PacketOf(t) * Frames + (PartOf(t) * PartFrames + SampleOf(t))
      /\ u % RingSize = PacketOf(u) * Frames + (PartOf(u) * PartFrames + SampleOf(u))
  BY Coordinates
<1> QED
  BY <1>4, <1>5, <1>6

(* The engine's MIDI bytes are in the ring and not cleared, and the one    *)
(* that ProcessMIDIOutput writes is the first of its packet.               *)
LEMMA MidiApart ==
  ASSUME NEW p \in Packet, NEW i \in Part, NEW a \in MidiAddress(p, i)
  PROVE  /\ a \in Address /\ a \notin ClearedAddresses
         /\ a \in MidiAddresses
         /\ \A q \in Packet : a = Base(q) + MidiOffset => q = p
         /\ \A n \in Nat : a \in PacketAddress(n) => p = n % NumPackets
<1>0. MidiOffset \in Nat /\ PartSize = MidiOffset + MidiBytes + FrameBytes
      /\ FrameBytes \in Nat /\ FrameBytes > 0 /\ PartSize \in Nat
  BY Sizes
<1>1. PICK m \in 0 .. MidiBytes - 1 : a = Base(p) + i * PartSize + MidiOffset + m
  BY DEF MidiAddress
<1> DEFINE j == MidiOffset + m
<1>2. j \in InPart /\ j \in MidiOffset .. MidiOffset + MidiBytes - 1 /\ j \in Nat
  BY <1>0, <1>1 DEF MidiBytes, InPart
<1>3. p \in Nat /\ i \in Nat
  BY Sizes DEF Packet, Part
<1>4. a = Place(p, i, j)
  <2>1. Base(p) \in Nat /\ i * PartSize \in Nat
    BY <1>0, <1>3, Sizes DEF Base
  <2> DEFINE x == Base(p)
             y == i * PartSize
  <2>2. a = x + y + MidiOffset + m
    BY <1>1
  <2>3. x \in Nat /\ y \in Nat
    BY <2>1
  <2> HIDE DEF x, y
  <2>4. a = x + y + j
    BY <1>0, <2>2, <2>3
  <2> QED
    BY <2>4 DEF x, y, Place
<1> HIDE DEF j
<1>5. a \notin ClearedAddresses
  <2> SUFFICES ASSUME NEW q \in Packet, NEW k \in Part,
                      NEW l \in (0 .. MidiOffset - 1)
                        \cup (MidiOffset + MidiBytes
                                .. MidiOffset + MidiBytes + FrameBytes - 1),
                      a = Place(q, k, l)
               PROVE  FALSE
    BY DEF ClearedAddresses, Place
  <2>1. l \in InPart /\ q \in Nat
    BY <1>0, Sizes DEF InPart, MidiBytes, Packet
  <2>2. Place(p, i, j) = Place(q, k, l)
    BY <1>4
  <2>3. l = j
    <3> HIDE DEF Place
    <3> QED
      BY <1>2, <1>3, <2>1, <2>2, PlaceUnique
  <2> QED
    BY <1>0, <1>2, <2>3 DEF MidiBytes
<1>6. \A q \in Packet : a = Base(q) + MidiOffset => q = p
  <2> SUFFICES ASSUME NEW q \in Packet, a = Base(q) + MidiOffset PROVE q = p
    OBVIOUS
  <2>1. 0 \in Part /\ MidiOffset \in InPart /\ q \in Nat
    BY <1>0, Sizes DEF Part, InPart, Packet, MidiBytes
  <2>2. Base(q) + MidiOffset = Place(q, 0, MidiOffset)
    BY <1>0, <2>1, Sizes DEF Place, Base
  <2> QED
    BY <1>2, <1>3, <1>4, <2>1, <2>2, PlaceUnique
<1>7. a \in MidiAddresses
  BY DEF MidiAddresses
<1> QED
  BY <1>2, <1>4, <1>5, <1>6, <1>7, PlaceInPacket

LEMMA FrameAddressType == ASSUME NEW t \in Nat PROVE FrameAddress(t) \in Nat
<1>1. /\ NumPackets \in Nat /\ SubPackets \in Nat /\ PartFrames \in Nat
      /\ FrameBytes \in Nat /\ Stride \in Nat /\ PartSize \in Nat
      /\ MidiOffset \in Nat
  BY Sizes
<1>2. /\ PacketOf(t) \in Nat /\ PartOf(t) \in Nat /\ SampleOf(t) \in Nat
  BY <1>1, Coordinates DEF Packet, Part
<1>3. /\ PacketOf(t) * Stride \in Nat /\ PartOf(t) * PartSize \in Nat
      /\ SampleOf(t) * FrameBytes \in Nat
  BY <1>1, <1>2
<1> DEFINE x == PacketOf(t) * Stride
           y == PartOf(t) * PartSize
           z == SampleOf(t) * FrameBytes
<1>4. FrameAddress(t) = x + y + IF SampleOf(t) < FramesBefore THEN z
                                  ELSE MidiOffset + MidiBytes
  BY DEF FrameAddress, Base, PacketOf, PartOf, SampleOf
<1>5. x \in Nat /\ y \in Nat /\ z \in Nat
  BY <1>3
<1> HIDE DEF x, y, z
<1> QED
  BY <1>1, <1>4, <1>5 DEF MidiBytes

(* A sample time's packet in the ring is its packet of the stream, round   *)
(* the ring.                                                               *)
LEMMA PacketOfStream ==
  ASSUME NEW t \in Nat
  PROVE  /\ PacketOf(t) = (t \div Frames) % NumPackets
         /\ t = Frames * (t \div Frames) + (t % Frames)
         /\ t \div Frames \in Nat /\ t % Frames \in 0 .. Frames - 1
<1>0. /\ RingSize \in Nat /\ RingSize > 0 /\ Frames \in Nat /\ Frames > 0
      /\ NumPackets \in Nat /\ NumPackets > 0 /\ RingSize = NumPackets * Frames
  BY Sizes
<1> DEFINE k == t \div RingSize
           o == t % RingSize
           p == o \div Frames
           f == o % Frames
<1>1. /\ t = RingSize * k + o /\ k \in Nat /\ o \in Nat
  BY <1>0, DivMod
<1> HIDE DEF k, o
<1>2. o = Frames * p + f /\ p \in Nat /\ f \in 0 .. Frames - 1
  BY <1>0, <1>1, DivMod
<1>3. p \in 0 .. NumPackets - 1
  BY Coordinates DEF PacketOf, Packet, o
<1> HIDE DEF p, f
<1>4. t = (k * NumPackets + p) * Frames + f
  <2>1. RingSize * k = (k * NumPackets) * Frames
    BY <1>0, <1>1
  <2>2. (k * NumPackets + p) * Frames = (k * NumPackets) * Frames + p * Frames
    BY <1>0, <1>1, <1>2
  <2>3. (k * NumPackets) * Frames \in Nat /\ p * Frames \in Nat
    BY <1>0, <1>1, <1>2
  <2> QED
    BY <1>0, <1>1, <1>2, <2>1, <2>2, <2>3
<1>5. k * NumPackets + p \in Nat
  BY <1>0, <1>1, <1>2
<1>6. t \div Frames = k * NumPackets + p
  BY <1>0, <1>2, <1>4, <1>5, Quotient
<1>7. (k * NumPackets + p) % NumPackets = p
  BY <1>0, <1>1, <1>3, <1>5, Quotient
<1>8. /\ t = Frames * (t \div Frames) + (t % Frames)
      /\ t \div Frames \in Nat /\ t % Frames \in 0 .. Frames - 1
  BY <1>0, DivMod
<1> QED
  BY <1>6, <1>7, <1>8 DEF p, o, PacketOf

-----------------------------------------------------------------------------
(* THE INVARIANT                                                           *)

(* The clock never counts a packet that has not completed, and a buffer    *)
(* ends no further from it than CoreAudio may go.                          *)
ClockInv ==
  /\ TypeOK
  /\ mHwPackets <= done
  /\ mixAt = Nowhen => mixFrom = Nowhen /\ mixLeft = 0 /\ written = {}
  /\ mixAt # Nowhen =>
       /\ mIOStarted /\ mixFrom # Nowhen
       /\ written \subseteq mixFrom .. mixAt - 1
       /\ mixFrom <= mixAt
       /\ mixAt + mixLeft <= mHwPackets * Frames + SafetyOffset + Ahead

(* Every frame that has been written is still there until the ring has     *)
(* come round to it, and what lies before the first one is silent.         *)
FramesInv ==
  \A t \in Nat : \A b \in FrameByte :
    /\ t \in written /\ mixAt <= t + RingSize =>
         outputBuffer[FrameAddress(t) + b] = <<t, b>>
    /\ (mixFrom # Nowhen => t < mixFrom /\ mixAt <= t + RingSize) =>
         outputBuffer[FrameAddress(t) + b] = Silent

(* MidiBytesKept of every packet of the ring, not only of those in flight. *)
MidiInv ==
  /\ engine = "off" => given = [p \in Packet |-> Sync]
  /\ engine # "off" =>
       \A p \in Packet : \A i \in Part : \A a \in MidiAddress(p, i) :
         outputBuffer[a] = IF a = Base(p) + MidiOffset THEN given[p] ELSE Sync

RingInv == ClockInv /\ FramesInv /\ MidiInv

-----------------------------------------------------------------------------
(* THE CLOCK                                                               *)

LEMMA ClockSizes ==
  /\ Frames \in Nat /\ Frames > 0 /\ SafetyOffset = Frames + Frames
  /\ IOFrames \in Nat /\ IOFrames > 0 /\ Ahead \in Nat
  /\ FrameBytes \in Nat /\ FrameBytes > 0
  /\ RingSize \in Nat /\ RingSize > 0 /\ SafetyOffset + Ahead <= RingSize
<1>1. /\ Frames \in Nat /\ Frames > 0 /\ IOFrames \in Nat /\ IOFrames > 0
      /\ FrameBytes \in Nat /\ FrameBytes > 0 /\ RingSize \in Nat /\ RingSize > 0
  BY Sizes
<1>2. Ahead \in Nat /\ SafetyOffset + Ahead <= RingSize
  BY ClockAssumption
<1>3. SafetyOffset = Frames + Frames
  BY <1>1 DEF SafetyOffset
<1> QED
  BY <1>1, <1>2, <1>3

(* The frames of a number of packets.                                      *)
LEMMA FrameCounts ==
  ASSUME NEW m \in Nat
  PROVE  m * Frames \in Nat /\ (m + 1) * Frames = m * Frames + Frames
BY ClockSizes

LEMMA ClockInit == Init => ClockInv
<1> SUFFICES ASSUME Init PROVE ClockInv
  OBVIOUS
<1>1. /\ outputBuffer \in
           [Address -> {Silent, Sync, Note} \cup (Nat \X (0 .. FrameBytes - 1))]
      /\ given \in [Packet -> {Sync, Note}]
  BY DEF Init
<1>2. /\ mixLeft \in 0 .. IOFrames /\ written \subseteq Nat
      /\ {done, mHwPackets, inDone} \subseteq Nat
  BY ClockSizes DEF Init
<1>3. TypeOK
  BY <1>1, <1>2 DEF Init, TypeOK
<1> QED
  BY <1>3 DEF Init, ClockInv

LEMMA ClockStep == ClockInv /\ [Next]_vars => ClockInv'
<1> SUFFICES ASSUME ClockInv, [Next]_vars PROVE ClockInv'
  OBVIOUS
<1> DEFINE Content == {Silent, Sync, Note} \cup (Nat \X (0 .. FrameBytes - 1))
<1>0. /\ outputBuffer \in [Address -> Content] /\ given \in [Packet -> {Sync, Note}]
      /\ mHwPackets \in Nat /\ done \in Nat /\ inDone \in Nat
      /\ mixLeft \in 0 .. IOFrames
  BY DEF ClockInv, TypeOK
<1>1. CASE Start
  <2>1. outputBuffer' \in [Address -> Content]
    BY <1>0, <1>1 DEF Start
  <2> QED
    BY <1>0, <1>1, <2>1 DEF Start, ClockInv, TypeOK, mix
<1>2. CASE Ready
  BY <1>2 DEF Ready, ClockInv, TypeOK, mix
<1>3. CASE CompleteOut
  <2>1. PICK byte \in Available :
          /\ ProcessMIDIOutput((done + 2) % NumPackets, byte)
          /\ given' = [given EXCEPT ![(done + 2) % NumPackets] = byte]
    BY <1>3 DEF CompleteOut
  <2>2. byte \in {Sync, Note}
    BY DEF Available
  <2>3. outputBuffer' \in [Address -> Content] /\ given' \in [Packet -> {Sync, Note}]
    BY <1>0, <2>1, <2>2 DEF ProcessMIDIOutput
  <2>4. /\ done' = done + 1 /\ mHwPackets' \in {mHwPackets, mHwPackets + 1}
        /\ UNCHANGED <<driverReady, engine, inDone, mix>>
    BY <1>3 DEF CompleteOut
  <2>5. TypeOK'
    BY <1>0, <2>3, <2>4 DEF TypeOK, ClockInv, mix
  <2>6. mHwPackets' * Frames >= mHwPackets * Frames /\ mHwPackets' * Frames \in Nat
        /\ mHwPackets * Frames \in Nat
    <3>1. CASE mHwPackets' = mHwPackets
      BY <1>0, <3>1, FrameCounts
    <3>2. CASE mHwPackets' = mHwPackets + 1
      <4> DEFINE old == mHwPackets * Frames
      <4>1. old \in Nat /\ mHwPackets' * Frames = old + Frames
        BY <1>0, <3>2, FrameCounts
      <4> HIDE DEF old
      <4>2. old + Frames >= old /\ old + Frames \in Nat
        BY <4>1, ClockSizes
      <4> QED
        BY <4>1, <4>2 DEF old
    <3> QED
      BY <2>4, <3>1, <3>2
  <2>7. mixAt # Nowhen =>
          mixAt' + mixLeft' <= mHwPackets' * Frames + SafetyOffset + Ahead
    <3> SUFFICES ASSUME mixAt # Nowhen
                 PROVE  mixAt + mixLeft <= mHwPackets' * Frames + SafetyOffset + Ahead
      BY <2>4 DEF mix
    <3>1. /\ mixAt + mixLeft <= mHwPackets * Frames + SafetyOffset + Ahead
          /\ mixAt \in Nat
      BY DEF ClockInv, TypeOK
    <3> DEFINE old == mHwPackets * Frames
               new == mHwPackets' * Frames
    <3>2. old \in Nat /\ new \in Nat /\ old <= new
      BY <2>6
    <3>3. mixAt + mixLeft <= old + SafetyOffset + Ahead
      BY <3>1
    <3> HIDE DEF old, new
    <3>4. mixAt + mixLeft <= new + SafetyOffset + Ahead
      BY <1>0, <3>1, <3>2, <3>3, ClockSizes
    <3> QED
      BY <3>4 DEF new
  <2> QED
    BY <1>0, <2>4, <2>5, <2>7 DEF ClockInv, mix
<1>4. CASE CompleteIn
  BY <1>0, <1>4 DEF CompleteIn, ClockInv, TypeOK, mix
<1>5. CASE StartIO
  BY <1>5 DEF StartIO, ClockInv, TypeOK, kext
<1>6. CASE StopIO
  <2>1. outputBuffer' \in [Address -> Content]
    BY <1>0, <1>6 DEF StopIO
  <2> QED
    BY <1>0, <1>6, <2>1 DEF StopIO, ClockInv, TypeOK, kext
<1>7. CASE WriteMix
  <2> DEFINE clock == mHwPackets * Frames
  <2>1. PICK ahead \in 0 .. Ahead - IOFrames :
          /\ mixAt # Nowhen => mixAt <= clock + SafetyOffset + ahead
          /\ mixAt' = clock + SafetyOffset + ahead
          /\ mixFrom' = IF mixFrom = Nowhen THEN mixAt' ELSE mixFrom
    BY <1>7 DEF WriteMix
  <2>2. clock \in Nat
    BY <1>0, FrameCounts
  <2>3. /\ mixLeft' = IOFrames
        /\ UNCHANGED <<outputBuffer, kext, mIOStarted, written>>
        /\ mIOStarted /\ mixLeft = 0
    BY <1>7 DEF WriteMix
  <2> HIDE DEF clock
  <2>4. mixAt' \in Nat /\ mixAt' + mixLeft' <= clock + SafetyOffset + Ahead
    BY <2>1, <2>2, <2>3, ClockSizes
  <2>5. mixAt' # Nowhen
    BY <2>4, BytesAssumption
  <2>6. mixAt # Nowhen => /\ mixAt \in Nat /\ mixFrom \in Nat /\ mixFrom <= mixAt
                          /\ mixFrom # Nowhen /\ written \subseteq mixFrom .. mixAt - 1
    BY BytesAssumption DEF ClockInv, TypeOK
  <2>7. mixAt = Nowhen => mixFrom = Nowhen /\ written = {}
    BY DEF ClockInv
  <2>8. mixFrom' \in Nat /\ mixFrom' <= mixAt' /\ mixFrom' # Nowhen
    BY <2>1, <2>4, <2>5, <2>6, <2>7
  <2>9. written' \subseteq mixFrom' .. mixAt' - 1
    <3>1. CASE mixAt = Nowhen
      BY <2>3, <2>7, <3>1
    <3>2. CASE mixAt # Nowhen
      BY <2>1, <2>3, <2>4, <2>6, <3>2
    <3> QED
      BY <3>1, <3>2
  <2>10. TypeOK'
    BY <2>3, <2>4, <2>8, ClockSizes DEF ClockInv, TypeOK, kext
  <2> QED
    BY <2>3, <2>4, <2>5, <2>8, <2>9, <2>10 DEF ClockInv, kext, clock
<1>8. CASE WriteFrame
  <2>1. /\ mixLeft > 0 /\ written' = written \cup {mixAt}
        /\ mixAt' = mixAt + 1 /\ mixLeft' = mixLeft - 1
        /\ UNCHANGED <<kext, mIOStarted, mixFrom>>
    BY <1>8 DEF WriteFrame
  <2>2. /\ mixAt # Nowhen /\ mixAt \in Nat /\ mixFrom \in Nat /\ mixFrom # Nowhen
        /\ mixFrom <= mixAt /\ written \subseteq mixFrom .. mixAt - 1
        /\ mixAt + mixLeft <= mHwPackets * Frames + SafetyOffset + Ahead
        /\ mIOStarted
    BY <2>1 DEF ClockInv, TypeOK
  <2>3. outputBuffer' \in [Address -> Content]
    <3> DEFINE frame == FrameAddress(mixAt)
    <3>1. outputBuffer' = [a \in Address |-> IF a - frame \in 0 .. FrameBytes - 1
                                              THEN <<mixAt, a - frame>>
                                              ELSE outputBuffer[a]]
      BY <1>8 DEF WriteFrame
    <3> HIDE DEF frame
    <3> QED
      BY <1>0, <2>2, <3>1
  <2>4. TypeOK'
    BY <1>0, <2>1, <2>2, <2>3, ClockSizes DEF ClockInv, TypeOK, kext
  <2>5. written' \subseteq mixFrom' .. mixAt' - 1 /\ mixFrom' <= mixAt'
    BY <2>1, <2>2
  <2>6. mixAt' # Nowhen
    BY <2>1, <2>2, BytesAssumption
  <2>7. mixAt' + mixLeft' = mixAt + mixLeft
    BY <1>0, <2>1, <2>2
  <2> QED
    BY <2>1, <2>2, <2>4, <2>5, <2>6, <2>7 DEF ClockInv, kext
<1>9. CASE UNCHANGED vars
  BY <1>9 DEF ClockInv, TypeOK, vars, kext, mix
<1> QED
  BY <1>1, <1>2, <1>3, <1>4, <1>5, <1>6, <1>7, <1>8, <1>9 DEF Next

-----------------------------------------------------------------------------
(* FRAMES AND MIDI BYTES                                                   *)

(* The completion of a packet writes one byte, the first MIDI byte of      *)
(* another packet.                                                         *)
LEMMA PacketFilled ==
  ASSUME NEW p \in Packet, NEW byte, ProcessMIDIOutput(p, byte), TypeOK
  PROVE  /\ Base(p) + MidiOffset \in MidiAddress(p, 0) /\ 0 \in Part
         /\ outputBuffer'[Base(p) + MidiOffset] = byte
         /\ \A a \in Address : a # Base(p) + MidiOffset =>
              outputBuffer'[a] = outputBuffer[a]
<1> DEFINE at == Base(p) + MidiOffset
<1>0. /\ MidiOffset \in Nat /\ PartSize \in Nat /\ SubPackets \in Nat
      /\ SubPackets > 0 /\ Stride \in Nat /\ NumPackets \in Nat
  BY Sizes
<1>1. 0 \in Part
  BY <1>0 DEF Part
<1>2. Base(p) \in Nat
  <2>1. p \in Nat
    BY <1>0 DEF Packet
  <2> QED
    BY <1>0, <2>1 DEF Base
<1>3. at = Base(p) + 0 * PartSize + MidiOffset + 0
  BY <1>0, <1>2
<1>4. at \in MidiAddress(p, 0)
  BY <1>3 DEF MidiAddress, MidiBytes
<1>5. at \in Address
  BY <1>1, <1>4, MidiApart
<1>6. DOMAIN outputBuffer = Address
  BY DEF TypeOK
<1>7. outputBuffer' = [outputBuffer EXCEPT ![at] = byte]
  BY DEF ProcessMIDIOutput
<1> HIDE DEF at
<1>8. /\ outputBuffer'[at] = byte
      /\ \A a \in Address : a # at => outputBuffer'[a] = outputBuffer[a]
  BY <1>5, <1>6, <1>7
<1> QED
  BY <1>1, <1>4, <1>8 DEF at

(* A turn of the codec's loop writes the bytes of one frame.               *)
LEMMA FrameWritten ==
  ASSUME WriteFrame, mixAt \in Nat
  PROVE  /\ \A b \in FrameByte : outputBuffer'[FrameAddress(mixAt) + b] = <<mixAt, b>>
         /\ \A a \in Address :
              \/ \E b \in FrameByte : a = FrameAddress(mixAt) + b
              \/ outputBuffer'[a] = outputBuffer[a]
<1> DEFINE frame == FrameAddress(mixAt)
<1>1. frame \in Nat /\ FrameBytes \in Nat
  BY FrameAddressType, Sizes
<1>2. outputBuffer' = [a \in Address |-> IF a - frame \in 0 .. FrameBytes - 1
                                          THEN <<mixAt, a - frame>>
                                          ELSE outputBuffer[a]]
  BY DEF WriteFrame
<1>3. \A b \in FrameByte : frame + b \in Address
  BY FrameIsCleared
<1>4. Address \subseteq Int
  BY Sizes DEF Address
<1> HIDE DEF frame
<1>5. ASSUME NEW b \in FrameByte PROVE outputBuffer'[frame + b] = <<mixAt, b>>
  <2>1. frame + b \in Address /\ (frame + b) - frame = b /\ b \in 0 .. FrameBytes - 1
    BY <1>1, <1>3 DEF FrameByte
  <2> QED
    BY <1>2, <2>1
<1>6. ASSUME NEW a \in Address, ~ \E b \in FrameByte : a = frame + b
      PROVE  outputBuffer'[a] = outputBuffer[a]
  <2>1. a - frame \notin 0 .. FrameBytes - 1
    <3> SUFFICES ASSUME a - frame \in 0 .. FrameBytes - 1 PROVE FALSE
      OBVIOUS
    <3>1. a = frame + (a - frame)
      BY <1>1, <1>4
    <3> QED
      BY <1>6, <3>1 DEF FrameByte
  <2> QED
    BY <1>2, <2>1
<1> QED
  BY <1>5, <1>6 DEF frame

LEMMA FramesInit == Init => FramesInv
<1> SUFFICES ASSUME Init PROVE FramesInv
  OBVIOUS
<1>1. written = {} /\ \A a \in Address : outputBuffer[a] = Silent
  BY DEF Init
<1> QED
  BY <1>1, FrameIsCleared DEF FramesInv

LEMMA FramesStep == ClockInv /\ FramesInv /\ [Next]_vars => FramesInv'
<1> SUFFICES ASSUME ClockInv, FramesInv, [Next]_vars,
                    NEW t \in Nat, NEW b \in FrameByte
             PROVE  /\ t \in written' /\ mixAt' <= t + RingSize =>
                         outputBuffer'[FrameAddress(t) + b] = <<t, b>>
                    /\ (mixFrom' # Nowhen =>
                          t < mixFrom' /\ mixAt' <= t + RingSize) =>
                         outputBuffer'[FrameAddress(t) + b] = Silent
  BY DEF FramesInv
<1> DEFINE at == FrameAddress(t) + b
<1>0. /\ t \in written /\ mixAt <= t + RingSize => outputBuffer[at] = <<t, b>>
      /\ (mixFrom # Nowhen => t < mixFrom /\ mixAt <= t + RingSize) =>
           outputBuffer[at] = Silent
  BY DEF FramesInv
<1>1. at \in Address /\ at \in ClearedAddresses
  BY FrameIsCleared
<1> HIDE DEF at
<1>2. CASE UNCHANGED mix /\ outputBuffer'[at] = outputBuffer[at]
  BY <1>0, <1>2 DEF mix, at
<1>3. CASE Start
  <2>1. at \notin MidiAddresses
    BY <1>1, MidiApart DEF MidiAddresses
  <2> QED
    BY <1>1, <1>2, <1>3, <2>1 DEF Start
<1>4. CASE Ready \/ CompleteIn \/ UNCHANGED vars
  BY <1>2, <1>4 DEF Ready, CompleteIn, vars
<1>5. CASE CompleteOut
  <2> DEFINE p == (done + 2) % NumPackets
  <2>1. PICK byte \in Available : ProcessMIDIOutput(p, byte)
    BY <1>5 DEF CompleteOut
  <2>2. p \in Packet
    <3>1. done + 2 \in Nat /\ NumPackets \in Nat /\ NumPackets > 0
      BY Sizes DEF ClockInv, TypeOK
    <3> QED
      BY <3>1, DivMod DEF Packet
  <2> HIDE DEF p
  <2>3. at # Base(p) + MidiOffset
    BY <1>1, <2>1, <2>2, PacketFilled, MidiApart DEF ClockInv
  <2>4. outputBuffer'[at] = outputBuffer[at]
    BY <1>1, <2>1, <2>2, <2>3, PacketFilled DEF ClockInv
  <2> QED
    BY <1>2, <1>5, <2>4 DEF CompleteOut
<1>6. CASE StartIO
  BY <1>0, <1>6 DEF StartIO, at
<1>7. CASE StopIO
  <2>1. outputBuffer'[at] = Silent /\ written' = {}
    BY <1>1, <1>7 DEF StopIO
  <2> QED
    BY <2>1 DEF at
<1>8. CASE WriteMix
  <2>1. /\ outputBuffer' = outputBuffer /\ written' = written
        /\ mixFrom # Nowhen => mixFrom' = mixFrom
        /\ mixAt # Nowhen => mixAt <= mixAt'
    BY <1>8 DEF WriteMix
  <2>2. mixAt' \in Nat
    <3>1. ClockInv'
      BY ClockStep
    <3>2. mixAt' \in Nat \cup {Nowhen} /\ mixLeft' = IOFrames /\ IOFrames > 0
      BY <1>8, <3>1, Sizes DEF ClockInv, TypeOK, WriteMix
    <3>3. (mixAt = Nowhen => mixLeft = 0)'
      BY <3>1 DEF ClockInv
    <3> QED
      BY <3>2, <3>3
  <2>3. CASE mixAt = Nowhen
    <3>1. mixFrom = Nowhen /\ written = {}
      BY <2>3 DEF ClockInv
    <3> QED
      BY <1>0, <2>1, <3>1 DEF at
  <2>4. CASE mixAt # Nowhen
    <3>1. mixFrom # Nowhen /\ mixAt \in Nat /\ RingSize \in Nat
      BY <2>4, Sizes DEF ClockInv, TypeOK
    <3>2. mixAt' <= t + RingSize => mixAt <= t + RingSize
      BY <2>1, <2>2, <2>4, <3>1
    <3> QED
      BY <1>0, <2>1, <3>1, <3>2 DEF at
  <2> QED
    BY <2>3, <2>4
<1>9. CASE WriteFrame
  <2>1. /\ mixLeft > 0 /\ written' = written \cup {mixAt}
        /\ mixAt' = mixAt + 1 /\ mixFrom' = mixFrom
    BY <1>9 DEF WriteFrame
  <2>2. /\ mixAt \in Nat /\ mixFrom \in Nat /\ mixFrom # Nowhen /\ mixFrom <= mixAt
        /\ written \subseteq mixFrom .. mixAt - 1
    BY <2>1 DEF ClockInv, TypeOK
  <2>3. RingSize \in Nat /\ RingSize > 0
    BY Sizes
  <2>4. CASE \E c \in FrameByte : at = FrameAddress(mixAt) + c
    <3>1. PICK c \in FrameByte : at = FrameAddress(mixAt) + c
      BY <2>4
    <3>2. t % RingSize = mixAt % RingSize /\ b = c
      BY <2>2, <3>1, FramesMeet DEF at
    <3>3. CASE t = mixAt
      <4>1. outputBuffer'[at] = <<t, b>>
        BY <1>9, <2>2, <3>3, FrameWritten DEF at
      <4> QED
        BY <2>1, <2>2, <3>3, <4>1 DEF at
    <3>4. CASE t < mixAt
      <4>1. t + RingSize <= mixAt
        BY <2>2, <2>3, <3>2, <3>4, SameSlot
      <4> QED
        BY <2>1, <2>2, <2>3, <4>1
    <3>5. CASE mixAt < t
      BY <2>1, <2>2, <3>5
    <3> QED
      BY <2>2, <3>3, <3>4, <3>5
  <2>5. CASE ~ \E c \in FrameByte : at = FrameAddress(mixAt) + c
    <3>1. outputBuffer'[at] = outputBuffer[at]
      BY <1>1, <1>9, <2>2, <2>5, FrameWritten
    <3>2. t # mixAt
      BY <2>5 DEF at
    <3> QED
      BY <1>0, <2>1, <2>2, <2>3, <3>1, <3>2 DEF at
  <2> QED
    BY <2>4, <2>5
<1> QED
  BY <1>3, <1>4, <1>5, <1>6, <1>7, <1>8, <1>9 DEF Next

LEMMA MidiInit == Init => MidiInv
BY DEF Init, MidiInv

LEMMA MidiStep == ClockInv /\ MidiInv /\ [Next]_vars => MidiInv'
<1> SUFFICES ASSUME ClockInv, MidiInv, [Next]_vars PROVE MidiInv'
  OBVIOUS
<1>1. CASE Start
  <2>1. given' = given /\ given = [p \in Packet |-> Sync] /\ engine' # "off"
    BY <1>1 DEF Start, MidiInv
  <2>2. ASSUME NEW p \in Packet, NEW i \in Part, NEW a \in MidiAddress(p, i)
        PROVE  outputBuffer'[a] = Sync
    <3>1. a \in Address /\ a \in MidiAddresses
      BY <2>2, MidiApart
    <3> QED
      BY <1>1, <3>1 DEF Start
  <2> QED
    BY <2>1, <2>2 DEF MidiInv
<1>2. CASE Ready
  BY <1>2 DEF Ready, MidiInv
<1>3. CASE CompleteOut
  <2> DEFINE q == (done + 2) % NumPackets
  <2>1. PICK byte \in Available : /\ ProcessMIDIOutput(q, byte)
                                  /\ given' = [given EXCEPT ![q] = byte]
    BY <1>3 DEF CompleteOut
  <2>2. q \in Packet
    <3>1. done + 2 \in Nat /\ NumPackets \in Nat /\ NumPackets > 0
      BY Sizes DEF ClockInv, TypeOK
    <3> QED
      BY <3>1, DivMod DEF Packet
  <2> HIDE DEF q
  <2>3. engine # "off" /\ engine' = engine
    BY <1>3 DEF CompleteOut
  <2>4. given \in [Packet -> {Sync, Note}]
    BY DEF ClockInv, TypeOK
  <2>5. ASSUME NEW p \in Packet, NEW i \in Part, NEW a \in MidiAddress(p, i)
        PROVE  outputBuffer'[a] = IF a = Base(p) + MidiOffset THEN given'[p] ELSE Sync
    <3>1. outputBuffer[a] = IF a = Base(p) + MidiOffset THEN given[p] ELSE Sync
      BY <2>3 DEF MidiInv
    <3>2. CASE a = Base(q) + MidiOffset
      <4>1. q = p
        BY <2>2, <3>2, MidiApart
      <4>2. outputBuffer'[a] = byte
        BY <2>1, <2>2, <3>2, PacketFilled DEF ClockInv
      <4>3. given'[p] = byte
        BY <2>1, <2>4, <4>1
      <4> QED
        BY <3>2, <4>1, <4>2, <4>3
    <3>3. CASE a # Base(q) + MidiOffset
      <4>1. outputBuffer'[a] = outputBuffer[a]
        BY <2>1, <2>2, <3>3, MidiApart, PacketFilled DEF ClockInv
      <4>2. a = Base(p) + MidiOffset => given'[p] = given[p]
        BY <2>1, <2>4, <3>3
      <4> QED
        BY <3>1, <4>1, <4>2
    <3> QED
      BY <3>2, <3>3
  <2> QED
    BY <2>3, <2>5 DEF MidiInv
<1>4. CASE CompleteIn \/ StartIO \/ WriteMix \/ UNCHANGED vars
  BY <1>4 DEF CompleteIn, StartIO, WriteMix, vars, kext, MidiInv
<1>5. CASE StopIO
  <2>1. engine' = engine /\ given' = given
    BY <1>5 DEF StopIO, kext
  <2>2. ASSUME NEW p \in Packet, NEW i \in Part, NEW a \in MidiAddress(p, i)
        PROVE  outputBuffer'[a] = outputBuffer[a]
    <3>1. a \in Address /\ a \notin ClearedAddresses
      BY <2>2, MidiApart
    <3> QED
      BY <1>5, <3>1 DEF StopIO
  <2> QED
    BY <2>1, <2>2 DEF MidiInv
<1>6. CASE WriteFrame
  <2>1. engine' = engine /\ given' = given /\ mixLeft > 0
    BY <1>6 DEF WriteFrame, kext
  <2>2. mixAt \in Nat
    BY <2>1 DEF ClockInv, TypeOK
  <2>3. ASSUME NEW p \in Packet, NEW i \in Part, NEW a \in MidiAddress(p, i)
        PROVE  outputBuffer'[a] = outputBuffer[a]
    <3>1. a \in Address /\ a \notin ClearedAddresses
      BY <2>3, MidiApart
    <3> QED
      BY <1>6, <2>2, <3>1, FrameWritten, FrameIsCleared
  <2> QED
    BY <2>1, <2>3 DEF MidiInv
<1> QED
  BY <1>1, <1>2, <1>3, <1>4, <1>5, <1>6 DEF Next

-----------------------------------------------------------------------------
(* WHAT THE DEVICE IS GIVEN                                                *)

LEMMA RingInvariant == Spec => []RingInv
<1>1. Init => RingInv
  BY ClockInit, FramesInit, MidiInit DEF RingInv
<1>2. RingInv /\ [Next]_vars => RingInv'
  BY ClockStep, FramesStep, MidiStep DEF RingInv
<1> QED
  BY <1>1, <1>2, PTL DEF Spec

(* Every variable keeps its type: a byte of the ring is silence, a MIDI    *)
(* byte or a byte of a frame.                                              *)
THEOREM TypeCorrect == Spec => []TypeOK
<1>1. RingInv => TypeOK
  BY DEF RingInv, ClockInv
<1> QED
  BY <1>1, RingInvariant, PTL

(* The kext gives the device each frame at its time, however CoreAudio and *)
(* the completions interleave, whatever the layout, also when packets      *)
(* complete before driverReady and the clock lags behind them.             *)
THEOREM FramesAtTheirTime == Spec => []PlayedAtItsTime
<1>1. RingInv => PlayedAtItsTime
  <2> SUFFICES ASSUME RingInv, NEW n \in InFlight,
                      NEW t \in n * Frames .. (n + 1) * Frames - 1,
                      NEW b \in 0 .. FrameBytes - 1
               PROVE  /\ t \in written => outputBuffer[FrameAddress(t) + b] = <<t, b>>
                      /\ (mixFrom # Nowhen => t < mixFrom) =>
                           outputBuffer[FrameAddress(t) + b] = Silent
    BY DEF PlayedAtItsTime
  <2>1. /\ done \in Nat /\ mHwPackets \in Nat /\ mHwPackets <= done
        /\ n \in {done, done + 1}
    BY DEF RingInv, ClockInv, TypeOK, InFlight
  <2>2. /\ n * Frames \in Nat /\ mHwPackets * Frames \in Nat
        /\ mHwPackets * Frames <= n * Frames
    <3>1. n \in Nat /\ mHwPackets <= n
      BY <2>1
    <3>2. n * Frames \in Nat /\ mHwPackets * Frames \in Nat
      BY <2>1, <3>1, FrameCounts
    <3>3. CASE mHwPackets = n
      BY <3>2, <3>3
    <3>4. CASE mHwPackets < n
      <4>1. mHwPackets * Frames + Frames <= n * Frames /\ Frames \in Nat
        BY <2>1, <3>1, <3>4, MulStep, ClockSizes
      <4> QED
        BY <3>2, <4>1
    <3> QED
      BY <2>1, <3>1, <3>3, <3>4
  <2>3. t \in Nat /\ mHwPackets * Frames <= t
    <3> DEFINE from == n * Frames
               clock == mHwPackets * Frames
    <3>1. t \in from .. (n + 1) * Frames - 1 /\ (n + 1) * Frames \in Int
      <4>1. n \in Nat
        BY <2>1
      <4> QED
        BY <4>1, ClockSizes
    <3>2. from \in Nat /\ clock \in Nat /\ clock <= from
      BY <2>2
    <3> HIDE DEF from, clock
    <3>3. t \in Nat /\ clock <= t
      BY <3>1, <3>2
    <3> QED
      BY <3>3 DEF clock
  <2>4. mixAt # Nowhen => mixAt <= t + RingSize
    <3> SUFFICES ASSUME mixAt # Nowhen PROVE mixAt <= t + RingSize
      OBVIOUS
    <3> DEFINE clock == mHwPackets * Frames
    <3>1. /\ mixAt + mixLeft <= clock + SafetyOffset + Ahead
          /\ mixAt \in Nat /\ mixLeft \in Nat
      BY ClockSizes DEF RingInv, ClockInv, TypeOK
    <3>2. clock \in Nat /\ clock <= t
      BY <2>2, <2>3
    <3> HIDE DEF clock
    <3> QED
      BY <2>3, <3>1, <3>2, ClockSizes
  <2>5. mixAt = Nowhen => mixFrom = Nowhen /\ written = {}
    BY DEF RingInv, ClockInv
  <2>6. /\ t \in written /\ mixAt <= t + RingSize =>
             outputBuffer[FrameAddress(t) + b] = <<t, b>>
        /\ (mixFrom # Nowhen => t < mixFrom /\ mixAt <= t + RingSize) =>
             outputBuffer[FrameAddress(t) + b] = Silent
    BY <2>3 DEF RingInv, FramesInv, FrameByte
  <2> QED
    BY <2>4, <2>5, <2>6
<1> QED
  BY <1>1, RingInvariant, PTL

(* ProcessMIDIOutput's byte and the filler of Start stay in the packet     *)
(* until the device has it: the codec writes and clears round them.        *)
THEOREM MidiBytesStay == Spec => []MidiBytesKept
<1>1. RingInv => MidiBytesKept
  <2> SUFFICES ASSUME RingInv, NEW n \in InFlight, NEW i \in Part,
                      NEW a \in MidiAddress(n % NumPackets, i)
               PROVE  outputBuffer[a] =
                        IF a = Base(n % NumPackets) + MidiOffset
                          THEN given[n % NumPackets] ELSE Sync
    BY DEF MidiBytesKept
  <2>1. engine # "off" /\ n \in Nat
    BY DEF RingInv, ClockInv, TypeOK, InFlight
  <2>2. n % NumPackets \in Packet
    BY <2>1, DivMod, Sizes DEF Packet
  <2> QED
    BY <2>1, <2>2 DEF RingInv, MidiInv
<1> QED
  BY <1>1, RingInvariant, PTL

-----------------------------------------------------------------------------
(* A CLOCK THAT COUNTS EVERY PACKET                                        *)

(* When no packet completes before driverReady the clock is exact, so that *)
(* the safety offset is two whole packets, in both directions.             *)
ExactInv ==
  /\ mHwPackets = done
  /\ inDone <= done + 1 /\ done <= inDone + Skew
  /\ mixLeft > 0 => mHwPackets * Frames + SafetyOffset <= mixAt

LEMMA ExactStep ==
  ASSUME Early = FALSE
  PROVE  ClockInv /\ ExactInv /\ [Next]_vars => ExactInv'
<1> SUFFICES ASSUME ClockInv, ExactInv, [Next]_vars PROVE ExactInv'
  OBVIOUS
<1>0. /\ mHwPackets \in Nat /\ done \in Nat /\ inDone \in Nat /\ Skew \in Nat
      /\ mixLeft \in Nat /\ mixAt \in Nat \cup {Nowhen}
  BY ClockAssumption, ClockSizes DEF ClockInv, TypeOK
<1>1. CASE CompleteOut
  <2>1. /\ driverReady /\ WriterInTime /\ done < inDone + Skew
        /\ done' = done + 1 /\ mHwPackets' = mHwPackets + 1
        /\ inDone' = inDone /\ mixAt' = mixAt /\ mixLeft' = mixLeft
    BY <1>1 DEF CompleteOut, mix
  <2>2. mHwPackets' = done' /\ inDone' <= done' + 1 /\ done' <= inDone' + Skew
    BY <1>0, <2>1 DEF ExactInv
  <2>3. mixLeft' > 0 => mHwPackets' * Frames + SafetyOffset <= mixAt'
    BY <2>1 DEF WriterInTime
  <2> QED
    BY <2>2, <2>3 DEF ExactInv
<1>2. CASE CompleteIn
  <2>1. /\ inDone < done + 1 /\ inDone' = inDone + 1
        /\ done' = done /\ mHwPackets' = mHwPackets /\ UNCHANGED mix
    BY <1>2 DEF CompleteIn
  <2> QED
    BY <1>0, <2>1 DEF ExactInv, mix
<1>3. CASE WriteMix
  <2> DEFINE clock == mHwPackets * Frames
  <2>1. PICK ahead \in 0 .. Ahead - IOFrames : mixAt' = clock + SafetyOffset + ahead
    BY <1>3 DEF WriteMix
  <2>2. clock \in Nat
    BY <1>0, FrameCounts
  <2>3. UNCHANGED kext
    BY <1>3 DEF WriteMix
  <2> HIDE DEF clock
  <2>4. clock + SafetyOffset <= mixAt'
    BY <2>1, <2>2, ClockSizes
  <2> QED
    BY <2>3, <2>4 DEF ExactInv, kext, clock
<1>4. CASE WriteFrame
  <2> DEFINE clock == mHwPackets * Frames
  <2>1. mixLeft > 0 /\ mixAt' = mixAt + 1 /\ UNCHANGED kext
    BY <1>4 DEF WriteFrame
  <2>2. clock \in Nat /\ mixAt \in Nat /\ clock + SafetyOffset <= mixAt
    BY <1>0, <2>1, FrameCounts DEF ExactInv, ClockInv
  <2> HIDE DEF clock
  <2>3. clock + SafetyOffset <= mixAt'
    BY <2>1, <2>2, ClockSizes
  <2> QED
    BY <2>1, <2>3 DEF ExactInv, kext, clock
<1>5. CASE Start \/ Ready \/ StartIO \/ UNCHANGED vars
  BY <1>5 DEF Start, Ready, StartIO, vars, kext, mix, ExactInv
<1>6. CASE StopIO
  BY <1>6 DEF StopIO, kext, ExactInv
<1> QED
  BY <1>1, <1>2, <1>3, <1>4, <1>5, <1>6 DEF Next

LEMMA ExactInvariant ==
  ASSUME Early = FALSE PROVE Spec => [](RingInv /\ ExactInv)
<1>1. Init => RingInv /\ ExactInv
  <2>1. Init => ExactInv
    BY ClockAssumption DEF Init, ExactInv
  <2> QED
    BY <2>1, ClockInit, FramesInit, MidiInit DEF RingInv
<1>2. RingInv /\ ExactInv /\ [Next]_vars => (RingInv /\ ExactInv)'
  BY ClockStep, FramesStep, MidiStep, ExactStep DEF RingInv
<1> QED
  BY <1>1, <1>2, PTL DEF Spec

(* Two packets less than a lap apart are different packets of the ring.    *)
LEMMA PacketsDiffer ==
  ASSUME NEW m \in Nat, NEW n \in Nat, m < n, n < m + NumPackets
  PROVE  m % NumPackets # n % NumPackets
<1>1. NumPackets \in Nat /\ NumPackets > 0
  BY Sizes
<1>2. m % NumPackets = n % NumPackets => m + NumPackets <= n
  BY <1>1, SameSlot
<1> QED
  BY <1>1, <1>2

(* A product is larger only with a larger factor.                          *)
LEMMA FactorLess ==
  ASSUME NEW d \in Nat, NEW x \in Nat, NEW y \in Nat, x * d < y * d
  PROVE  x < y
<1>1. x * d \in Nat /\ y * d \in Nat
  OBVIOUS
<1>2. x # y
  BY <1>1
<1>3. ~ y < x
  BY <1>1, MulStep
<1> QED
  BY <1>2, <1>3

(* What CoreAudio may read has arrived and is not being filled again, when *)
(* the ring has room for the offsets of both directions, the lag of the    *)
(* input and the buffer itself.                                            *)
THEOREM InputIsSettled ==
  ASSUME Early = FALSE, 5 * Frames + IOFrames <= RingSize
  PROVE  Spec => []InputSettled
<1>1. ClockInv /\ ExactInv => InputSettled
  <2> DEFINE clock == mHwPackets * Frames
  <2> SUFFICES ASSUME ClockInv, ExactInv,
                      NEW t \in clock - SafetyOffset - IOFrames
                                  .. clock - SafetyOffset - 1,
                      t >= 0,
                      NEW m \in {inDone, inDone + 1}
               PROVE  /\ t \div Frames < inDone
                      /\ m % NumPackets # (t \div Frames) % NumPackets
    BY DEF InputSettled
  <2>0. /\ mHwPackets \in Nat /\ inDone \in Nat /\ m \in Nat
        /\ mHwPackets <= inDone + 2 /\ inDone <= mHwPackets + 1
        /\ m <= mHwPackets + 2 /\ inDone <= m
    <3>1. /\ Skew \in Nat /\ Skew <= 2 /\ done \in Nat /\ inDone \in Nat
          /\ mHwPackets \in Nat
      BY ClockAssumption DEF ClockInv, TypeOK
    <3>2. /\ mHwPackets = done /\ inDone <= done + 1 /\ done <= inDone + Skew
      BY DEF ExactInv
    <3> QED
      BY <3>1, <3>2
  <2> DEFINE n == t \div Frames
  <2>1. clock \in Nat /\ clock - SafetyOffset - IOFrames \in Int
    BY <2>0, FrameCounts, ClockSizes
  <2>2. t \in Nat
    BY <2>1, ClockSizes
  <2>3. /\ t = Frames * n + (t % Frames) /\ n \in Nat /\ t % Frames \in 0 .. Frames - 1
    BY <2>2, DivMod, ClockSizes
  <2> DEFINE at == n * Frames
  <2>4. at \in Nat /\ at <= t /\ t < at + Frames
    <3>1. at = Frames * n /\ at \in Nat
      BY <2>3, ClockSizes
    <3> HIDE DEF at
    <3> QED
      BY <2>2, <2>3, <3>1, ClockSizes
  <2> HIDE DEF n
  <2>5. /\ at + SafetyOffset < clock
        /\ clock < at + SafetyOffset + Frames + IOFrames + 1
    <3>1. /\ t <= clock - SafetyOffset - 1 /\ clock - SafetyOffset - IOFrames <= t
      BY <2>1, ClockSizes
    <3> HIDE DEF at, clock
    <3> QED
      BY <2>1, <2>2, <2>4, <3>1, ClockSizes
  <2>6. (n + 2) * Frames = at + SafetyOffset
    BY <2>3, ClockSizes
  <2>7. n + 2 < mHwPackets
    BY <2>0, <2>3, <2>5, <2>6, FactorLess, ClockSizes
  <2>8. (mHwPackets + 2) * Frames < (n + NumPackets) * Frames
    <3>1. (mHwPackets + 2) * Frames = clock + SafetyOffset
      BY <2>0, ClockSizes
    <3>2. (n + NumPackets) * Frames = at + RingSize
      BY <2>3, Sizes
    <3> HIDE DEF at, clock
    <3>3. clock + SafetyOffset < at + RingSize
      BY <2>1, <2>4, <2>5, ClockSizes
    <3> QED
      BY <3>1, <3>2, <3>3
  <2>9. mHwPackets + 2 < n + NumPackets
    <3>1. n + NumPackets \in Nat /\ mHwPackets + 2 \in Nat /\ Frames \in Nat
      BY <2>0, <2>3, Sizes
    <3> QED
      BY <2>8, <3>1, FactorLess
  <2>10. n < inDone /\ n < m /\ m < n + NumPackets
    BY <2>0, <2>3, <2>7, <2>9, Sizes
  <2> QED
    BY <2>0, <2>3, <2>10, PacketsDiffer DEF n
<1>2. RingInv /\ ExactInv => InputSettled
  BY <1>1 DEF RingInv
<1> QED
  BY <1>2, ExactInvariant, PTL

(* A packet in flight is only ever silenced: the frame that CoreAudio      *)
(* writes is at least two packets ahead of the clock and less than a lap,  *)
(* and the MIDI byte goes into the packet that is submitted next.          *)
THEOREM InFlightIsLeftAlone == ASSUME Early = FALSE PROVE Spec => InFlightOnlySilenced
<1> DEFINE Kept == \A n \in InFlight \cap InFlight' : \A a \in PacketAddress(n) :
                     outputBuffer'[a] \in {outputBuffer[a], Silent}
<1>1. ClockInv /\ ExactInv /\ [Next]_vars => Kept
  <2> SUFFICES ASSUME ClockInv, ExactInv, [Next]_vars,
                      NEW n \in InFlight \cap InFlight',
                      NEW a \in PacketAddress(n)
               PROVE  outputBuffer'[a] \in {outputBuffer[a], Silent}
    OBVIOUS
  <2>0. /\ done \in Nat /\ mHwPackets = done /\ n \in {done, done + 1} /\ n \in Nat
        /\ engine # "off"
    BY DEF ClockInv, ExactInv, TypeOK, InFlight
  <2>1. a \in Address
    <3>1. n % NumPackets \in 0 .. NumPackets - 1 /\ NumPackets \in Nat /\ Stride \in Nat
      BY <2>0, Sizes, DivMod
    <3> DEFINE r == n % NumPackets
    <3>2. r \in Nat /\ r < NumPackets
      BY <3>1
    <3> HIDE DEF r
    <3> DEFINE x == r * Stride
               all == NumPackets * Stride
    <3>3. x + Stride <= all /\ x \in Nat /\ all \in Nat
      BY <3>1, <3>2, MulStep
    <3>4. PICK j \in 0 .. Stride - 1 : a = x + j
      BY DEF PacketAddress, Base, r
    <3> HIDE DEF x
    <3>5. a \in 0 .. all - 1
      <4> HIDE DEF all
      <4> QED
        BY <3>1, <3>3, <3>4
    <3> QED
      BY <3>5 DEF Address
  <2>2. NumPackets >= 2 /\ NumPackets \in Nat
    <3>1. 2 * Frames <= NumPackets * Frames
      BY ClockSizes, Sizes
    <3>2. ~ NumPackets < 2
      <4> SUFFICES ASSUME NumPackets < 2 PROVE FALSE
        OBVIOUS
      <4>1. NumPackets = 1
        BY Sizes
      <4> QED
        BY <3>1, <4>1, ClockSizes
    <3> QED
      BY <3>2, Sizes
  <2>3. CASE CompleteOut
    <3> DEFINE q == (done + 2) % NumPackets
    <3>1. PICK byte \in Available : ProcessMIDIOutput(q, byte)
      BY <2>3 DEF CompleteOut
    <3>2. q \in Packet
      BY <2>0, <2>2, DivMod DEF Packet
    <3>3. done' = done + 1
      BY <2>3 DEF CompleteOut
    <3>4. n = done + 1
      BY <2>0, <3>3 DEF InFlight
    <3>5. n % NumPackets # q
      <4>1. /\ n \in Nat /\ done + 2 \in Nat /\ n < done + 2
            /\ done + 2 < n + NumPackets
        BY <2>0, <2>2, <3>4
      <4> QED
        BY <4>1, PacketsDiffer
    <3> HIDE DEF q
    <3>6. a # Base(q) + MidiOffset
      BY <2>0, <3>1, <3>2, <3>5, PacketFilled, MidiApart DEF ClockInv
    <3> QED
      BY <2>1, <3>1, <3>2, <3>6, PacketFilled DEF ClockInv
  <2>4. CASE StopIO
    BY <2>1, <2>4 DEF StopIO
  <2>5. CASE WriteFrame
    <3>1. mixLeft > 0
      BY <2>5 DEF WriteFrame
    <3> DEFINE clock == done * Frames
               k == mixAt \div Frames
    <3>2. /\ mixAt \in Nat /\ mixLeft \in Nat
          /\ clock + SafetyOffset <= mixAt
          /\ mixAt + mixLeft <= clock + SafetyOffset + Ahead
      BY <2>0, <3>1, ClockSizes DEF ClockInv, ExactInv, TypeOK
    <3>3. /\ PacketOf(mixAt) = k % NumPackets
          /\ mixAt = Frames * k + (mixAt % Frames)
          /\ k \in Nat /\ mixAt % Frames \in 0 .. Frames - 1
      BY <3>2, PacketOfStream
    <3> HIDE DEF k
    <3> DEFINE at == k * Frames
    <3>4. at = Frames * k /\ at \in Nat /\ clock \in Nat
      BY <2>0, <3>3, ClockSizes, FrameCounts
    <3>5. clock + SafetyOffset < at + Frames /\ at < clock + RingSize
      <4> HIDE DEF at, clock
      <4> QED
        BY <3>1, <3>2, <3>3, <3>4, ClockSizes
    <3>6. /\ (done + 1) * Frames < k * Frames
          /\ k * Frames < (done + NumPackets) * Frames
      <4>1. (done + 1) * Frames = clock + Frames
        BY <2>0, ClockSizes
      <4>2. (done + NumPackets) * Frames = clock + RingSize
        BY <2>0, Sizes
      <4> HIDE DEF clock
      <4>3. clock + Frames < at
        <5> HIDE DEF at
        <5> QED
          BY <3>4, <3>5, ClockSizes
      <4> QED
        BY <3>5, <4>1, <4>2, <4>3
    <3>7. done + 1 < k /\ k < done + NumPackets
      <4>1. done + 1 \in Nat /\ done + NumPackets \in Nat /\ Frames \in Nat
        BY <2>0, Sizes
      <4> QED
        BY <3>3, <3>6, <4>1, FactorLess
    <3>8. n % NumPackets # k % NumPackets
      BY <2>0, <2>2, <3>3, <3>7, PacketsDiffer
    <3>9. \A b \in FrameByte : a # FrameAddress(mixAt) + b
      BY <2>0, <3>2, <3>3, <3>8, FrameIsCleared
    <3> QED
      BY <2>1, <2>5, <3>2, <3>9, FrameWritten
  <2>6. CASE Start
    BY <2>0, <2>6 DEF Start
  <2>7. CASE Ready \/ CompleteIn \/ StartIO \/ WriteMix \/ UNCHANGED vars
    BY <2>7 DEF Ready, CompleteIn, StartIO, WriteMix, vars
  <2> QED
    BY <2>3, <2>4, <2>5, <2>6, <2>7 DEF Next
<1>2. RingInv /\ ExactInv /\ [Next]_vars => [Kept]_vars
  BY <1>1 DEF RingInv
<1>3. Spec => [][Kept]_vars
  BY <1>2, ExactInvariant, PTL DEF Spec
<1> QED
  BY <1>3 DEF InFlightOnlySilenced
=============================================================================

---------------------------- MODULE OutputBuffer ----------------------------
(***************************************************************************)
(* The audio rings of the shared memory.  CoreAudio's I/O thread writes    *)
(* frames into the output ring at their sample times                       *)
(* (OzzyHAL::ioOperation, PloytecWriteOutputInterrupt); the kext sends the *)
(* ring's packets to the device in turn, two in flight, and puts a MIDI    *)
(* byte into each before it goes out.  Nothing is locked: the two keep out *)
(* of each other's way by the clock alone, the packets the kext has        *)
(* counted, and by a layout spelled out three times, once in the engine    *)
(* and twice in the codec.                                                 *)
(*                                                                         *)
(* A packet has SubPackets parts; a part has some frames, two MIDI bytes   *)
(* and one more frame.  A byte of the ring is byte b of the frame of       *)
(* sample time t, <<t, b>>, or silence, or a MIDI byte.  Of the input ring *)
(* only which packets are in flight matters, and inDone says that.         *)
(*                                                                         *)
(* CoreAudio is modelled from what the HAL declares to it: it writes no    *)
(* earlier than the safety offset after the clock, normally each buffer    *)
(* where the last one ended, and reads no later than as much before it.    *)
(* It may skip frames; it is not late in the middle of a buffer.           *)
(***************************************************************************)
EXTENDS Integers

CONSTANTS NumPackets,    \* kOzzyNumPackets
          Stride,        \* kOzzyMaxPacketSize
          SubPackets,    \* parts of a packet, 8
          FramesBefore,  \* frames before the MIDI bytes of a part, 9
          FrameBytes,    \* outputBytesPerFrame, 48
          IOFrames,      \* frames of one of CoreAudio's buffers
          Ahead,         \* how far past the safety offset a buffer may end
          Skew,          \* packets the input lags behind the output at most
          Early,         \* BOOLEAN: a packet may complete before driverReady
          MaxPackets,    \* bound: packets completed
          Silent, Sync, Note, \* a zero byte, 0xFD, a byte of a MIDI message
          Nowhen         \* no sample time

MidiBytes == 2
PartFrames == FramesBefore + 1
PartSize == PartFrames * FrameBytes + MidiBytes  \* 482
Frames == SubPackets * PartFrames                \* kPloytecFramesPerPacket
MidiOffset == FramesBefore * FrameBytes          \* 432
RingSize == NumPackets * Frames                  \* mRingSize

MutOnePacketOffset == Frames

\* OzzyHAL::GetSafetyOffset
SafetyOffset == 2 * Frames

ASSUME LayoutAssumption ==
  /\ {NumPackets, Stride, SubPackets, FramesBefore, FrameBytes, IOFrames}
       \subseteq Nat \ {0}
  /\ SubPackets * PartSize <= Stride
ASSUME ClockAssumption ==
  /\ {Ahead, Skew, MaxPackets} \subseteq Nat
  /\ SafetyOffset + Ahead <= RingSize
  /\ Skew <= 2
  /\ Early \in BOOLEAN
ASSUME BytesAssumption == Nowhen \notin Nat

VARIABLES
  outputBuffer,        \* shared memory
  driverReady, engine, \* the flag, and where PloytecEngine::Start is
  done,                \* OUT packets completed since Start
  mHwPackets,          \* mHwSampleTime, in packets
  inDone,              \* IN packets completed since Start
  given,               \* per packet of the ring, the MIDI byte it is to carry
  mIOStarted,          \* the HAL's
  mixFrom, mixAt,      \* sample times: first frame since StartIO, next frame
  mixLeft,             \* frames left to write of this buffer
  written              \* sample times written since StartIO

kext == <<driverReady, engine, done, mHwPackets, inDone, given>>
mix == <<mIOStarted, mixFrom, mixAt, mixLeft, written>>
vars == <<outputBuffer, kext, mix>>

Address == 0 .. NumPackets * Stride - 1
Packet == 0 .. NumPackets - 1
Part == 0 .. SubPackets - 1
Base(p) == p * Stride

TypeOK ==
  /\ outputBuffer \in
       [Address -> {Silent, Sync, Note} \cup (Nat \X (0 .. FrameBytes - 1))]
  /\ driverReady \in BOOLEAN
  /\ engine \in {"off", "starting", "started"}
  /\ {done, mHwPackets, inDone} \subseteq Nat
  /\ given \in [Packet -> {Sync, Note}]
  /\ mIOStarted \in BOOLEAN
  /\ {mixFrom, mixAt} \subseteq Nat \cup {Nowhen}
  /\ mixLeft \in 0 .. IOFrames
  /\ written \subseteq Nat

Init ==
  /\ outputBuffer = [a \in Address |-> Silent]
  /\ driverReady = FALSE /\ engine = "off"
  /\ done = 0 /\ mHwPackets = 0 /\ inDone = 0
  /\ given = [p \in Packet |-> Sync]
  /\ mIOStarted = FALSE
  /\ mixFrom = Nowhen /\ mixAt = Nowhen /\ mixLeft = 0 /\ written = {}

-----------------------------------------------------------------------------
(* The engine: Start and the completion of PCM packets.                    *)

\* The packets of the ring with the device: two, from the kickstart on.
InFlight == IF engine = "off" THEN {} ELSE {done, done + 1}

\* The MIDI bytes of part i of packet p, as PloytecEngine has them.
MidiAddress(p, i) ==
  {Base(p) + i * PartSize + MidiOffset + j : j \in 0 .. MidiBytes - 1}
MidiAddresses == UNION {MidiAddress(p, i) : p \in Packet, i \in Part}

\* Fills the MIDI bytes and submits two packets each way.  A packet lasts
\* longer than the submissions: none completes between them.
Start ==
  /\ engine = "off"
  /\ engine' = "starting"
  /\ outputBuffer' = [a \in Address |->
                        IF a \in MidiAddresses THEN Sync ELSE outputBuffer[a]]
  /\ UNCHANGED <<driverReady, done, mHwPackets, inDone, given, mix>>

Ready ==
  /\ engine = "starting"
  /\ engine' = "started" /\ driverReady' = TRUE
  /\ UNCHANGED <<outputBuffer, done, mHwPackets, inDone, given, mix>>

MutKeepOldByte(p, byte) ==
  outputBuffer' = IF byte = Sync THEN outputBuffer
                  ELSE [outputBuffer EXCEPT ![Base(p) + MidiOffset] = byte]

\* PloytecEngine::ProcessMIDIOutput: one byte of the MIDI ring if it has one.
ProcessMIDIOutput(p, byte) ==
  outputBuffer' = [outputBuffer EXCEPT ![Base(p) + MidiOffset] = byte]

\* What the MIDI ring may hold for the packet; bound: one Note in the ring.
Available == IF \E p \in Packet : given[p] = Note THEN {Sync} ELSE {Sync, Note}

\* CoreAudio finishes a buffer before the clock has come so near its frames.
WriterInTime == mixLeft > 0 => (mHwPackets + 1) * Frames + SafetyOffset <= mixAt

\* OnPacketComplete of an OUT packet: the clock, the MIDI byte of the packet
\* two on, and its submission.
CompleteOut ==
  /\ engine # "off" /\ done < MaxPackets /\ done < inDone + Skew
  /\ driverReady \/ Early
  /\ driverReady => WriterInTime
  /\ \E byte \in Available :
       /\ ProcessMIDIOutput((done + 2) % NumPackets, byte)
       /\ given' = [given EXCEPT ![(done + 2) % NumPackets] = byte]
  /\ done' = done + 1
  /\ mHwPackets' = IF driverReady THEN mHwPackets + 1 ELSE mHwPackets
  /\ UNCHANGED <<driverReady, engine, inDone, mix>>

\* OnPacketComplete of an IN packet; the device sends no faster than it plays.
CompleteIn ==
  /\ engine # "off"
  /\ driverReady \/ Early
  /\ inDone < done + 1
  /\ inDone' = inDone + 1
  /\ UNCHANGED <<outputBuffer, driverReady, engine, done, mHwPackets, given,
                 mix>>

-----------------------------------------------------------------------------
(* The HAL, on CoreAudio's threads, and its codec.                         *)

\* PloytecWriteOutputInterrupt: the address of the frame of sample time t.
FrameAddress(t) ==
  LET offset == t % RingSize
      frame == offset % Frames
      sample == frame % PartFrames
  IN  Base(offset \div Frames) + (frame \div PartFrames) * PartSize
        + IF sample < FramesBefore THEN sample * FrameBytes
                                   ELSE MidiOffset + MidiBytes

\* What PloytecClearOutputInterrupt clears.
ClearedAddresses ==
  LET part(p, i) == Base(p) + i * PartSize
      before == 0 .. MidiOffset - 1
      after == MidiOffset + MidiBytes .. MidiOffset + MidiBytes + FrameBytes - 1
  IN  {part(p, i) + j : p \in Packet, i \in Part, j \in before \cup after}

\* The monitor has seen driverReady: the HAL is connected.  halWritePosition
\* is left out, nothing reads it.
StartIO ==
  /\ driverReady /\ ~mIOStarted
  /\ mIOStarted' = TRUE
  /\ UNCHANGED <<outputBuffer, kext, mixFrom, mixAt, mixLeft, written>>

MutStopLeavesRing ==
  /\ mIOStarted /\ mixLeft = 0
  /\ mIOStarted' = FALSE
  /\ mixFrom' = Nowhen /\ mixAt' = Nowhen /\ written' = {}
  /\ UNCHANGED <<outputBuffer, kext, mixLeft>>

\* Stops the I/O and silences the ring, the packets in flight with it.
StopIO ==
  /\ mIOStarted /\ mixLeft = 0
  /\ mIOStarted' = FALSE
  /\ outputBuffer' = [a \in Address |->
                        IF a \in ClearedAddresses THEN Silent ELSE outputBuffer[a]]
  /\ mixFrom' = Nowhen /\ mixAt' = Nowhen /\ written' = {}
  /\ UNCHANGED <<kext, mixLeft>>

\* WriteMix comes with a sample time: where the last buffer ended, or past it
\* if CoreAudio has skipped.
WriteMix ==
  /\ mIOStarted /\ mixLeft = 0
  /\ \E ahead \in 0 .. Ahead - IOFrames :
       LET time == mHwPackets * Frames + SafetyOffset + ahead
       IN  /\ mixAt # Nowhen => mixAt <= time
           /\ mixAt' = time
           /\ mixFrom' = IF mixFrom = Nowhen THEN time ELSE mixFrom
  /\ mixLeft' = IOFrames
  /\ UNCHANGED <<outputBuffer, kext, mIOStarted, written>>

\* One turn of the codec's loop.
WriteFrame ==
  /\ mixLeft > 0
  /\ LET frame == FrameAddress(mixAt)
     IN  outputBuffer' = [a \in Address |-> IF a - frame \in 0 .. FrameBytes - 1
                                              THEN <<mixAt, a - frame>>
                                              ELSE outputBuffer[a]]
  /\ written' = written \cup {mixAt}
  /\ mixAt' = mixAt + 1 /\ mixLeft' = mixLeft - 1
  /\ UNCHANGED <<kext, mIOStarted, mixFrom>>

Next ==
  \/ Start \/ Ready \/ CompleteOut \/ CompleteIn
  \/ StartIO \/ StopIO \/ WriteMix \/ WriteFrame

Spec == Init /\ [][Next]_vars

-----------------------------------------------------------------------------
\* Where packet n of the stream lies in the ring.
PacketAddress(n) == {Base(n % NumPackets) + j : j \in 0 .. Stride - 1}

(***************************************************************************)
(* The bytes of a packet that stays in flight change only to silence: no   *)
(* write of CoreAudio's, across both laps of the ring, and no MIDI byte    *)
(* reaches a packet that the device may be reading.  The HAL's safety      *)
(* offset of two packets is for this (OzzyHAL.h:59).                       *)
(***************************************************************************)
InFlightOnlySilenced ==
  [][\A n \in InFlight \cap InFlight' : \A a \in PacketAddress(n) :
       outputBuffer'[a] \in {outputBuffer[a], Silent}]_vars

(***************************************************************************)
(* What the device is given is of its time: the frame of sample time t in  *)
(* a packet in flight is the one CoreAudio wrote for t, and if CoreAudio   *)
(* has not yet begun, or has stopped, silence, never what an earlier lap   *)
(* of the ring left there.  Only frames that CoreAudio skips may be old.   *)
(***************************************************************************)
PlayedAtItsTime ==
  \A n \in InFlight : \A t \in n * Frames .. (n + 1) * Frames - 1 :
    LET frame == FrameAddress(t)
    IN  \A b \in 0 .. FrameBytes - 1 :
          /\ t \in written => outputBuffer[frame + b] = <<t, b>>
          /\ (mixFrom # Nowhen => t < mixFrom) => outputBuffer[frame + b] = Silent

(***************************************************************************)
(* A packet in flight carries in its first MIDI byte what                  *)
(* ProcessMIDIOutput took for it, and in every other one the filler of     *)
(* Start: neither the frames nor the clearing of StopIO touch them, and no *)
(* byte of a MIDI message is sent again a lap later.                       *)
(***************************************************************************)
MidiBytesKept ==
  \A n \in InFlight : \A i \in Part :
    LET p == n % NumPackets
    IN  \A a \in MidiAddress(p, i) :
          outputBuffer[a] = IF a = Base(p) + MidiOffset THEN given[p] ELSE Sync

(***************************************************************************)
(* The frames CoreAudio may read, those of a buffer that ends the safety   *)
(* offset before the clock or earlier, have arrived and are not in a       *)
(* packet the device is filling again, though the clock counts only OUT    *)
(* packets and the input may lag behind them.                              *)
(***************************************************************************)
InputSettled ==
  \A t \in mHwPackets * Frames - SafetyOffset - IOFrames
            .. mHwPackets * Frames - SafetyOffset - 1 :
    mIOStarted /\ t >= 0 =>
      LET n == t \div Frames
      IN  n < inDone /\ \A m \in {inDone, inDone + 1} :
                           m % NumPackets # n % NumPackets
=============================================================================

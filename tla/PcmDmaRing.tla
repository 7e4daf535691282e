------------------------------ MODULE PcmDmaRing ------------------------------
(***************************************************************************)
(* The samples of one substream of the Linux driver: the completion        *)
(* handler of a PCM transfer moves a packet of frames between the          *)
(* transfer's buffer and ALSA's ring (dma_area), splits the packet where   *)
(* the ring ends, and tells ALSA when a period has gone by.                *)
(*                                                                         *)
(* Offsets are in bytes as in the code; ALSA counts buffer and period in   *)
(* frames.  The offsets wrap within ALSA_MAX_BUFSIZE, far from 2^32.       *)
(***************************************************************************)
EXTENDS Integers

CONSTANTS Kinds,    \* the conversions to model: "capture", "bulk", "int"
          Configs,  \* what hw_params may choose: [buffer, period] in frames
          Silent, Stale  \* a slot of zeros, and one nothing was written to

FrameBytes == 24          \* ALSA_BYTES_PER_FRAME
OutFrames == 40           \* XDB4_PCM_OUT_FRAMES_PER_PACKET
InFrames == 32            \* XDB4_PCM_IN_FRAMES_PER_PACKET

ASSUME KindsAssumption == Kinds \subseteq {"capture", "bulk", "int"}

\* period_bytes_min, periods_min; the packet fits the ring.
ASSUME ConfigsAssumption ==
  /\ Configs \subseteq [buffer : Nat, period : Nat]
  /\ \A c \in Configs : c.period >= 2 * OutFrames /\ c.buffer >= 2 * c.period
ASSUME SlotsAssumption == Silent \notin Int /\ Stale \notin Int

VARIABLES
  kind, config,         \* the substream and its hw_params
  alsa, active,         \* what ALSA has asked for, sub->active
  dmaOff, periodOff,    \* sub->dma_off, sub->period_off
  elapsed,              \* the last packet reported a period
  urb,                  \* byte offset in the transfer -> offset in the ring
  ringPos, periodPos    \* frames moved since prepare, as ALSA would count

ringVars == <<kind, config, alsa, active, dmaOff, periodOff, elapsed, urb, ringPos,
          periodPos>>

Frames == IF kind = "capture" THEN InFrames ELSE OutFrames
Slot == 0 .. Frames - 1

-----------------------------------------------------------------------------
(* Where the conversions find frame f in the transfer's buffer: ten frames *)
(* and 32 other bytes in bulk mode, MIDI bytes before each tenth frame in  *)
(* interrupt mode.                                                         *)

BulkOffset(f) == 48 * f + CASE f < 10 -> 0 [] f \in 10 .. 19 -> 32
                            [] f \in 20 .. 29 -> 64 [] f >= 30 -> 96

IntOffset(f) == 48 * f + CASE f < 9 -> 0 [] f \in 9 .. 18 -> 2
                           [] f \in 19 .. 28 -> 4 [] f \in 29 .. 38 -> 6
                           [] f >= 39 -> 8

Offset(f) == CASE kind = "bulk" -> BulkOffset(f)
               [] kind = "int" -> IntOffset(f)
               [] kind = "capture" -> 64 * f

\* What an inactive substream's handler clears.
ClearedRanges ==
  << {[from |-> 0, to |-> 479], [from |-> 512, to |-> 991],
      [from |-> 1024, to |-> 1503], [from |-> 1536, to |-> 2015]},
     {[from |-> 0, to |-> 431], [from |-> 434, to |-> 913],
      [from |-> 916, to |-> 1395], [from |-> 1398, to |-> 1877],
      [from |-> 1880, to |-> 1927]} >>

Cleared(o) ==
  \/ kind = "capture"
  \/ \E r \in ClearedRanges[IF kind = "bulk" THEN 1 ELSE 2] : r.from <= o /\ o + 47 <= r.to

-----------------------------------------------------------------------------
RingTypeOK ==
  /\ kind \in Kinds /\ config \in Configs
  /\ alsa \in {"setup", "prepared", "running"} /\ active \in BOOLEAN
  /\ dmaOff \in Nat /\ periodOff \in Nat /\ ringPos \in Nat /\ periodPos \in Nat
  /\ alsa # "setup" => /\ dmaOff < config.buffer * FrameBytes
                       /\ periodOff < config.period
                       /\ ringPos < config.buffer /\ periodPos < config.period
  /\ elapsed \in BOOLEAN
  /\ DOMAIN urb = {Offset(f) : f \in Slot}

RingInit ==
  /\ kind \in Kinds /\ config \in Configs
  /\ alsa = "setup" /\ active = FALSE
  /\ dmaOff = 0 /\ periodOff = 0 /\ elapsed = FALSE
  /\ urb = [o \in {Offset(f) : f \in Slot} |-> Stale]
  /\ ringPos = 0 /\ periodPos = 0

\* hw_params is ALSA's own; the offsets keep their values until prepare.
HwParams ==
  /\ alsa = "setup"
  /\ config' \in Configs
  /\ UNCHANGED <<kind, alsa, active, dmaOff, periodOff, elapsed, urb, ringPos,
                 periodPos>>

MutNoReset ==
  /\ alsa # "running"
  /\ ringPos' = 0 /\ periodPos' = 0
  /\ alsa' = "prepared"
  /\ UNCHANGED <<kind, config, active, dmaOff, periodOff, elapsed, urb>>

Prepare ==
  /\ alsa # "running"
  /\ dmaOff' = 0 /\ periodOff' = 0
  /\ ringPos' = 0 /\ periodPos' = 0
  /\ alsa' = "prepared"
  /\ UNCHANGED <<kind, config, active, elapsed, urb>>

TriggerStart ==
  /\ alsa = "prepared"
  /\ alsa' = "running" /\ active' = TRUE
  /\ UNCHANGED <<kind, config, dmaOff, periodOff, elapsed, urb, ringPos, periodPos>>

TriggerStop ==
  /\ alsa = "running"
  /\ alsa' = "setup" /\ active' = FALSE
  /\ UNCHANGED <<kind, config, dmaOff, periodOff, elapsed, urb, ringPos, periodPos>>

\* SNDRV_PCM_TRIGGER_PAUSE_PUSH and PAUSE_RELEASE
TriggerPause ==
  /\ alsa = "running"
  /\ active' = ~active
  /\ UNCHANGED <<kind, config, alsa, dmaOff, periodOff, elapsed, urb, ringPos,
                 periodPos>>

-----------------------------------------------------------------------------
(* The handler's body for an active substream: the packet in one piece or  *)
(* in two.  The counts of frames are uint8_t; the second is computed from  *)
(* the size of an OUT packet for capture too.                              *)

BufferBytes == config.buffer * FrameBytes
PacketBytes == Frames * FrameBytes
Fits == dmaOff + PacketBytes <= BufferBytes
First == ((BufferBytes - dmaOff) \div FrameBytes) % 256
Second == (OutFrames - First) % 256

MutWholePacket(f) == dmaOff + f * FrameBytes

RingOffset(f) ==
  CASE Fits \/ f < First -> dmaOff + f * FrameBytes
    [] ~Fits /\ f \in First .. First + Second - 1 -> (f - First) * FrameBytes
    [] OTHER -> Stale

\* pcm_capture, pcm_bulk_playback, pcm_int_playback
AdvanceDma ==
  dmaOff' = IF dmaOff + PacketBytes >= BufferBytes
              THEN dmaOff + PacketBytes - BufferBytes ELSE dmaOff + PacketBytes

MutPeriodFromZero ==
  /\ periodOff' = IF periodOff + PacketBytes >= config.period
                    THEN 0 ELSE periodOff + PacketBytes
  /\ elapsed' = (periodOff + PacketBytes >= config.period)

\* Bytes are added to period_off, and it is compared with frames.
AdvancePeriod ==
  /\ periodOff' = IF periodOff + PacketBytes >= config.period
                    THEN (periodOff + PacketBytes) % config.period
                    ELSE periodOff + PacketBytes
  /\ elapsed' = (periodOff + PacketBytes >= config.period)

PacketActive ==
  /\ active
  /\ urb' = [o \in DOMAIN urb |-> RingOffset(CHOOSE f \in Slot : Offset(f) = o)]
  /\ AdvanceDma /\ AdvancePeriod
  /\ ringPos' = (ringPos + Frames) % config.buffer
  /\ periodPos' = (periodPos + Frames) % config.period
  /\ UNCHANGED <<kind, config, alsa, active>>

PacketInactive ==
  /\ ~active
  /\ urb' = [o \in DOMAIN urb |-> IF Cleared(o) THEN Silent ELSE urb[o]]
  /\ elapsed' = FALSE
  /\ UNCHANGED <<kind, config, alsa, active, dmaOff, periodOff, ringPos, periodPos>>

RingNext == HwParams \/ Prepare \/ TriggerStart \/ TriggerStop \/ TriggerPause
        \/ PacketActive \/ PacketInactive

RingSpec == RingInit /\ [][RingNext]_ringVars

-----------------------------------------------------------------------------
(* What pointer reports is the number of frames moved since prepare, round *)
(* the ring.                                                               *)
PointerCountsFrames == dmaOff = ringPos * FrameBytes

(* A packet holds consecutive frames of the ring, none skipped, repeated   *)
(* or outside dma_area, wherever the ring ends within it.                  *)
FramesInOrder ==
  [][PacketActive =>
       \A f \in Slot :
         urb'[Offset(f)] = ((ringPos + f) % config.buffer) * FrameBytes]_ringVars

(* No period goes by without a report: the report comes with the packet    *)
(* that completes the period.                                              *)
NoPeriodMissed ==
  [][PacketActive /\ periodPos + Frames >= config.period => elapsed']_ringVars

(* What an inactive substream sends is silence: no frame of an earlier     *)
(* packet is left in the transfer's buffer.                                *)
InactiveIsSilent ==
  [][PacketInactive => \A f \in Slot : urb'[Offset(f)] = Silent]_ringVars

(* The frames of an interrupt transfer are where the macOS driver puts     *)
(* them (PloytecWriteOutputInterrupt): ten frames and two MIDI bytes in    *)
(* 482, the MIDI bytes before the last frame.                              *)
WireAsOnMac ==
  kind = "int" =>
    DOMAIN urb = {482 * (f \div 10) + (IF f % 10 < 9 THEN 48 * (f % 10) ELSE 434)
                  : f \in Slot}

(* pcm.c:243, "returns true if a period elapsed": a report means that the  *)
(* packet completed a period.                                              *)
ReportedMeansElapsed ==
  [][PacketActive /\ elapsed' => periodPos + Frames >= config.period]_ringVars
=============================================================================

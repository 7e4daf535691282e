----------------------------- MODULE MidiOutRing -----------------------------
(***************************************************************************)
(* The midiOut ring of the shared memory.  The producer is OzzyMIDI's Send *)
(* on CoreMIDI's thread; the consumer is the kext, which takes one byte    *)
(* for every finished PCM OUT packet (PloytecEngine::ProcessMIDIOutput).   *)
(*                                                                         *)
(* Every load and store of the two indices and of a slot is a step of its  *)
(* own, so the two ends interleave as they do in the program.  Memory is   *)
(* sequentially consistent here.                                           *)
(***************************************************************************)
EXTENDS MidiBuffer

CONSTANT Sync  \* 0xFD, the filler the device ignores

ASSUME SyncAssumption == Sync \notin Byte

VARIABLES
  buffer, writeIndex, readIndex,  \* OzzyMidiBuffer midiOut, shared
  sendPc, sendByte, sendW,        \* Send: where it is, data[j] and w
  packPc, packR,                  \* ProcessMIDIOutput: where it is and r
  midiByte                        \* the MIDI byte of the packet in hand

sendVars == <<sendPc, sendByte, sendW>>
packVars == <<packPc, packR, midiByte>>
vars == <<buffer, writeIndex, readIndex, sendVars, packVars>>

TypeOK ==
  /\ buffer \in [Slot -> Byte]
  /\ writeIndex \in Slot
  /\ readIndex \in Slot
  /\ sendPc \in {"idle", "load", "store", "publish"}
  /\ sendByte \in Byte
  /\ sendW \in Slot
  /\ packPc \in {"idle", "load", "fill", "pad", "release"}
  /\ packR \in Slot
  /\ midiByte \in Byte \cup {Sync}

Init ==
  /\ buffer = [i \in Slot |-> Zero]
  /\ writeIndex = 0
  /\ readIndex = 0
  /\ sendPc = "idle" /\ sendByte = Zero /\ sendW = 0
  /\ packPc = "idle" /\ packR = 0
  /\ midiByte = Sync

-----------------------------------------------------------------------------
(* Send, once for every byte of every packet of the list.                  *)

SendLoadWrite(b) ==
  /\ sendPc = "idle"
  /\ sendByte' = b
  /\ sendW' = writeIndex
  /\ sendPc' = "load"
  /\ UNCHANGED <<buffer, writeIndex, readIndex, packVars>>

\* A byte is dropped when the slot after it is the one to be read next.
MutNoFullCheck ==
  /\ sendPc = "load"
  /\ sendPc' = "store"
  /\ UNCHANGED <<buffer, writeIndex, readIndex, sendByte, sendW, packVars>>

MutFullTooEarly ==
  /\ sendPc = "load"
  /\ sendPc' = IF Succ(Succ(sendW)) # readIndex THEN "store" ELSE "idle"
  /\ UNCHANGED <<buffer, writeIndex, readIndex, sendByte, sendW, packVars>>

SendLoadRead ==
  /\ sendPc = "load"
  /\ sendPc' = IF Succ(sendW) # readIndex THEN "store" ELSE "idle"
  /\ UNCHANGED <<buffer, writeIndex, readIndex, sendByte, sendW, packVars>>

SendStore ==
  /\ sendPc = "store"
  /\ buffer' = [buffer EXCEPT ![sendW] = sendByte]
  /\ sendPc' = "publish"
  /\ UNCHANGED <<writeIndex, readIndex, sendByte, sendW, packVars>>

SendPublish ==
  /\ sendPc = "publish"
  /\ writeIndex' = Succ(sendW)
  /\ sendPc' = "idle"
  /\ UNCHANGED <<buffer, readIndex, sendByte, sendW, packVars>>

Send == \/ \E b \in Byte : SendLoadWrite(b)
        \/ SendLoadRead \/ SendStore \/ SendPublish

-----------------------------------------------------------------------------
(* ProcessMIDIOutput, once for every PCM OUT packet that completes.        *)

PackLoadRead ==
  /\ packPc = "idle"
  /\ packR' = readIndex
  /\ packPc' = "load"
  /\ UNCHANGED <<buffer, writeIndex, readIndex, sendVars, midiByte>>

MutLastByteStays ==
  /\ packPc = "load"
  /\ packPc' = IF Succ(packR) # writeIndex THEN "fill" ELSE "pad"
  /\ UNCHANGED <<buffer, writeIndex, readIndex, sendVars, packR, midiByte>>

PackLoadWrite ==
  /\ packPc = "load"
  /\ packPc' = IF packR # writeIndex THEN "fill" ELSE "pad"
  /\ UNCHANGED <<buffer, writeIndex, readIndex, sendVars, packR, midiByte>>

PackFill ==
  /\ packPc = "fill"
  /\ midiByte' = buffer[packR]
  /\ packPc' = "release"
  /\ UNCHANGED <<buffer, writeIndex, readIndex, sendVars, packR>>

PackPad ==
  /\ packPc = "pad"
  /\ midiByte' = Sync
  /\ packPc' = "idle"
  /\ UNCHANGED <<buffer, writeIndex, readIndex, sendVars, packR>>

PackRelease ==
  /\ packPc = "release"
  /\ readIndex' = Succ(packR)
  /\ packPc' = "idle"
  /\ UNCHANGED <<buffer, writeIndex, sendVars, packR, midiByte>>

ProcessMIDIOutput ==
  PackLoadRead \/ PackLoadWrite \/ PackFill \/ PackPad \/ PackRelease

-----------------------------------------------------------------------------
Next == Send \/ ProcessMIDIOutput

(* The kext runs the completion of one packet after another for as long as *)
(* the device streams, and CoreMIDI's thread finishes a byte it has begun. *)
Fairness ==
  /\ WF_vars(ProcessMIDIOutput)
  /\ WF_vars(SendLoadRead \/ SendStore \/ SendPublish)

Spec == Init /\ [][Next]_vars
FairSpec == Spec /\ Fairness

-----------------------------------------------------------------------------
\* The first byte not yet put into a packet.
Front == IF packPc = "release" THEN Succ(readIndex) ELSE readIndex

Queue == INSTANCE MidiQueue WITH
  Capacity <- RingSize - 1,
  None     <- Sync,
  pending  <- IF sendPc = "idle" THEN Sync ELSE sendByte,
  queue    <- Contents(buffer, Front, writeIndex),
  held     <- IF packPc = "release" THEN 1 ELSE 0,
  sink     <- midiByte

(* The ring is a bounded first-in first-out queue: a byte Send accepted    *)
(* goes into exactly one packet, in the order of the calls, and Send drops *)
(* a byte only while the ring is full.                                     *)
ImplementsQueue == Queue!Spec

(* While packets complete, every byte Send accepted goes into a packet and *)
(* every call of Send returns.                                             *)
QueueProgress == Queue!Fairness

(* Send never writes the slot the kext is copying into a packet or has not *)
(* yet given back: the unlocked accesses to a slot never meet.             *)
NoSlotRace ==
  ~ (sendPc = "store" /\ packPc \in {"fill", "release"} /\ sendW = packR)
=============================================================================

------------------------------ MODULE MidiInRing ------------------------------
(***************************************************************************)
(* The midiIn ring of the shared memory.  The producer is the kext, which  *)
(* stores the bytes of a finished MIDI IN transfer one by one              *)
(* (PloytecEngine::ProcessMIDIInput); the consumer is OzzyMIDI's poll      *)
(* thread, which takes all bytes it sees in one go, moving a copy of the   *)
(* read index, and stores the index once at the end (MidiInputPollThread). *)
(* Until then the producer counts those slots as occupied.                 *)
(*                                                                         *)
(* Every load and store is a step of its own; memory is sequentially       *)
(* consistent.                                                             *)
(***************************************************************************)
EXTENDS MidiBuffer

CONSTANT None  \* no byte handed to the parser yet

ASSUME NoneAssumption == None \notin Byte

VARIABLES
  inBuffer, inWriteIndex, inReadIndex,  \* OzzyMidiBuffer midiIn, shared
  inPc, inByte, inW,              \* ProcessMIDIInput: where it is, byte, w
  pollPc, pollR, pollW,           \* the poll thread: where it is, r and w
  parsed                          \* the byte given to the parser last

inVars == <<inPc, inByte, inW>>
pollVars == <<pollPc, pollR, pollW, parsed>>
midiInVars == <<inBuffer, inWriteIndex, inReadIndex, inVars, pollVars>>

InTypeOK ==
  /\ inBuffer \in [Slot -> Byte]
  /\ inWriteIndex \in Slot
  /\ inReadIndex \in Slot
  /\ inPc \in {"idle", "load", "store", "publish"}
  /\ inByte \in Byte
  /\ inW \in Slot
  /\ pollPc \in {"idle", "load", "drain", "publish"}
  /\ pollR \in Slot
  /\ pollW \in Slot
  /\ parsed \in Byte \cup {None}

InInit ==
  /\ inBuffer = [i \in Slot |-> Zero]
  /\ inWriteIndex = 0
  /\ inReadIndex = 0
  /\ inPc = "idle" /\ inByte = Zero /\ inW = 0
  /\ pollPc = "idle" /\ pollR = 0 /\ pollW = 0
  /\ parsed = None

-----------------------------------------------------------------------------
(* ProcessMIDIInput, once for every byte the transfer brought.             *)

InLoadWrite(b) ==
  /\ inPc = "idle"
  /\ inByte' = b
  /\ inW' = inWriteIndex
  /\ inPc' = "load"
  /\ UNCHANGED <<inBuffer, inWriteIndex, inReadIndex, pollVars>>

\* A byte is dropped when the slot after it is the one to be read next.
InLoadRead ==
  /\ inPc = "load"
  /\ inPc' = IF Succ(inW) # inReadIndex THEN "store" ELSE "idle"
  /\ UNCHANGED <<inBuffer, inWriteIndex, inReadIndex, inByte, inW, pollVars>>

InStore ==
  /\ inPc = "store"
  /\ inBuffer' = [inBuffer EXCEPT ![inW] = inByte]
  /\ inPc' = "publish"
  /\ UNCHANGED <<inWriteIndex, inReadIndex, inByte, inW, pollVars>>

InPublish ==
  /\ inPc = "publish"
  /\ inWriteIndex' = Succ(inW)
  /\ inPc' = "idle"
  /\ UNCHANGED <<inBuffer, inReadIndex, inByte, inW, pollVars>>

ProcessMIDIInput == \/ \E b \in Byte : InLoadWrite(b)
                    \/ InLoadRead \/ InStore \/ InPublish

-----------------------------------------------------------------------------
(* MidiInputPollThread, one round of its loop.                             *)

PollLoadRead ==
  /\ pollPc = "idle"
  /\ pollR' = inReadIndex
  /\ pollPc' = "load"
  /\ UNCHANGED <<inBuffer, inWriteIndex, inReadIndex, inVars, pollW, parsed>>

MutInLastByteStays ==
  /\ pollPc = "load"
  /\ pollW' = inWriteIndex
  /\ pollPc' = IF inWriteIndex \notin {pollR, Succ(pollR)} THEN "drain" ELSE "idle"
  /\ UNCHANGED <<inBuffer, inWriteIndex, inReadIndex, inVars, pollR, parsed>>

PollLoadWrite ==
  /\ pollPc = "load"
  /\ pollW' = inWriteIndex
  /\ pollPc' = IF pollR # inWriteIndex THEN "drain" ELSE "idle"
  /\ UNCHANGED <<inBuffer, inWriteIndex, inReadIndex, inVars, pollR, parsed>>

\* The loop compares r with the w it loaded, not with the shared index.
MutDrainOneTooMany ==
  /\ pollPc = "drain"
  /\ parsed' = inBuffer[pollR]
  /\ pollR' = Succ(pollR)
  /\ pollPc' = IF pollR = pollW THEN "publish" ELSE "drain"
  /\ UNCHANGED <<inBuffer, inWriteIndex, inReadIndex, inVars, pollW>>

PollDrain ==
  /\ pollPc = "drain"
  /\ parsed' = inBuffer[pollR]
  /\ pollR' = Succ(pollR)
  /\ pollPc' = IF Succ(pollR) = pollW THEN "publish" ELSE "drain"
  /\ UNCHANGED <<inBuffer, inWriteIndex, inReadIndex, inVars, pollW>>

PollPublish ==
  /\ pollPc = "publish"
  /\ inReadIndex' = pollR
  /\ pollPc' = "idle"
  /\ UNCHANGED <<inBuffer, inWriteIndex, inVars, pollR, pollW, parsed>>

MidiInputPollThread ==
  PollLoadRead \/ PollLoadWrite \/ PollDrain \/ PollPublish

-----------------------------------------------------------------------------
InNext == ProcessMIDIInput \/ MidiInputPollThread

(* The poll thread never blocks, and a completion routine that has begun   *)
(* runs to its end.                                                        *)
InFairness ==
  /\ WF_midiInVars(MidiInputPollThread)
  /\ WF_midiInVars(InLoadRead \/ InStore \/ InPublish)

InSpec == InInit /\ [][InNext]_midiInVars
InFairSpec == InSpec /\ InFairness

-----------------------------------------------------------------------------
\* The first byte not yet given to the parser.
InFront == IF pollPc \in {"drain", "publish"} THEN pollR ELSE inReadIndex

InQueue == INSTANCE MidiQueue WITH
  Capacity <- RingSize - 1,
  None     <- None,
  pending  <- IF inPc = "idle" THEN None ELSE inByte,
  queue    <- Contents(inBuffer, InFront, inWriteIndex),
  held     <- Distance(inReadIndex, InFront),
  sink     <- parsed

(* A byte the kext accepted reaches the parser exactly once and in order,  *)
(* although the poll thread gives back the slots of a batch only at its    *)
(* end, and the kext drops a byte only while the ring is full.             *)
InImplementsQueue == InQueue!Spec

(* Every accepted byte reaches the parser, and the slots of every batch    *)
(* are given back.                                                         *)
InQueueProgress == InQueue!Fairness

(* The kext never writes a slot of the batch the poll thread is reading or *)
(* has read and not yet given back.                                        *)
InNoSlotRace ==
  inPc = "store" /\ pollPc \in {"drain", "publish"} =>
    Distance(inReadIndex, inW) >= Distance(inReadIndex, pollW)
=============================================================================

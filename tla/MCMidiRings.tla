----------------------------- MODULE MCMidiRings -----------------------------
(***************************************************************************)
(* The three buffers through which MIDI bytes pass between a program and   *)
(* the completion handlers of the transfers: the two rings of the macOS    *)
(* shared memory and the send buffer of the Linux driver.  They have       *)
(* nothing in common, so a behaviour exercises one of them, chosen at the  *)
(* start, while the other two rest: letting two of them move would add     *)
(* only interleavings of independent steps.                                *)
(***************************************************************************)
EXTENDS MidiOutRing, MidiInRing, LinuxUart

VARIABLE chosen  \* the buffer that is exercised

all == <<vars, midiInVars, uartVars, chosen>>

MCInit ==
  /\ Init /\ InInit /\ UartInit
  /\ chosen \in {"midiOut", "midiIn", "uart"}

OutAlone(A) == chosen = "midiOut" /\ A /\ UNCHANGED <<midiInVars, uartVars, chosen>>
InAlone(A) == chosen = "midiIn" /\ A /\ UNCHANGED <<vars, uartVars, chosen>>
UartAlone(A) == chosen = "uart" /\ A /\ UNCHANGED <<vars, midiInVars, chosen>>

MCNext == OutAlone(Next) \/ InAlone(InNext) \/ UartAlone(UartNext)

\* The fairness of each module, for its own steps.
MCSpec ==
  /\ MCInit /\ [][MCNext]_all
  /\ WF_all(OutAlone(ProcessMIDIOutput))
  /\ WF_all(OutAlone(SendLoadRead \/ SendStore \/ SendPublish))
  /\ WF_all(InAlone(MidiInputPollThread))
  /\ WF_all(InAlone(InLoadRead \/ InStore \/ InPublish))
  /\ WF_all(UartAlone(GetMidiOutput))
  /\ WF_all(UartAlone(OutCopy \/ OutLoad \/ OutStore))
=============================================================================

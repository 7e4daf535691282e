------------------------------ MODULE LinuxUart ------------------------------
(***************************************************************************)
(* MIDI output of the Linux driver.  The rawmidi trigger callback copies   *)
(* what the application has written to uart_send_buffer, and the           *)
(* completion handler of a PCM OUT transfer takes it from there byte by    *)
(* byte (xonedb4_get_midi_output).  The two share the buffer and two       *)
(* uint8_t counters without a lock: out_lock is taken by the callback      *)
(* alone.                                                                  *)
(*                                                                         *)
(* A byte is the number of its turn: 1 is the first one written, 0 a byte  *)
(* that was never written.                                                 *)
(***************************************************************************)
EXTENDS Integers

CONSTANTS BufferSize,  \* XDB4_MIDI_SEND_BUFFER_SIZE
          CounterSize, \* values of the counters, 256 for a uint8_t
          MaxChunk,    \* the most one snd_rawmidi_transmit returns, 64
          MaxBytes     \* bound: bytes written in all

ASSUME SizeAssumption ==
  /\ {BufferSize, CounterSize, MaxChunk, MaxBytes} \subseteq Nat \ {0}
  /\ MaxChunk < CounterSize /\ CounterSize <= BufferSize

VARIABLES
  uartSendBuffer, uartSendCount, uartToSent,  \* the globals of midi.c
  outPc, chunk, outTmp,  \* the trigger callback: where, ret, its last load
  getPc, getTmp,         \* get_midi_output: where, the load of --
  written,               \* bytes the driver has taken from ALSA
  sent, latest,          \* bytes given to the device, and the last of them
  apart                  \* history: neither side has spoilt the other's work

uart == <<uartSendBuffer, uartSendCount, uartToSent>>
trigger == <<outPc, chunk, outTmp, written>>
get == <<getPc, getTmp, sent, latest>>
uartVars == <<uart, trigger, get, apart>>

Place == 0 .. BufferSize - 1
Count == 0 .. CounterSize - 1

UartTypeOK ==
  /\ uartSendBuffer \in [Place -> 0 .. MaxBytes]
  /\ uartSendCount \in Count /\ uartToSent \in Count
  /\ outPc \in {"idle", "copy", "load", "store"}
  /\ chunk \in 0 .. MaxChunk /\ outTmp \in Count
  /\ getPc \in {"idle", "take", "load", "store", "reset"} /\ getTmp \in Count
  /\ written \in 0 .. MaxBytes
  /\ sent \in 0 .. MaxBytes /\ latest \in 0 .. MaxBytes
  /\ apart \in BOOLEAN

UartInit ==
  /\ uartSendBuffer = [i \in Place |-> 0]
  /\ uartSendCount = 0 /\ uartToSent = 0
  /\ outPc = "idle" /\ chunk = 0 /\ outTmp = 0 /\ written = 0
  /\ getPc = "idle" /\ getTmp = 0 /\ sent = 0 /\ latest = 0
  /\ apart = TRUE

(* The bytes that wait: those counted, but for the one that the handler    *)
(* has taken and not yet counted off.                                      *)
Sending == getPc \in {"load", "store"}
Remaining == uartToSent - IF Sending THEN 1 ELSE 0
Behind == uartSendCount + Remaining  \* the place behind them

Apart(c) == apart' = (apart /\ c)

-----------------------------------------------------------------------------
(* xonedb4_midi_out_trigger with up set: ALSA calls it whenever the        *)
(* application has written.  rt->out is never set, so the test for a       *)
(* transfer under way never holds; and the test for room compares a        *)
(* counter that ends at CounterSize with more than that.                   *)

OutTrigger ==
  /\ outPc = "idle"
  /\ \E ret \in 1 .. MaxChunk :
       /\ written + ret <= MaxBytes
       /\ chunk' = ret
       /\ outPc' = IF uartToSent > BufferSize - ret THEN "idle" ELSE "copy"
  /\ outTmp' = uartToSent
  /\ UNCHANGED <<uart, written, get, apart>>

\* The place is uart_to_sent, loaded again or kept from the test: nothing
\* orders the loads.  It is apart if the bytes come to lie behind those that
\* wait, and the counters can count as far.
OutCopy ==
  /\ outPc = "copy"
  /\ \E at \in {outTmp, uartToSent} :
       /\ uartSendBuffer' =
            [i \in Place |-> IF i \in at .. at + chunk - 1
               THEN written + 1 + i - at ELSE uartSendBuffer[i]]
       /\ Apart(at = Behind /\ at + chunk < CounterSize)
  /\ written' = written + chunk
  /\ outPc' = "load"
  /\ UNCHANGED <<uartSendCount, uartToSent, chunk, outTmp, get>>

OutLoad ==
  /\ outPc = "load"
  /\ outTmp' = uartToSent
  /\ outPc' = "store"
  /\ UNCHANGED <<uart, chunk, written, get, apart>>

MutAddLost ==
  /\ outPc = "store"
  /\ uartToSent' = outTmp
  /\ outPc' = "idle"
  /\ Apart(uartToSent = outTmp)
  /\ UNCHANGED <<uartSendBuffer, uartSendCount, chunk, outTmp, written, get>>

\* Whatever the handler has counted off since the load is counted again.
OutStore ==
  /\ outPc = "store"
  /\ uartToSent' = (outTmp + chunk) % CounterSize
  /\ outPc' = "idle"
  /\ Apart(uartToSent = outTmp)
  /\ UNCHANGED <<uartSendBuffer, uartSendCount, chunk, outTmp, written, get>>

-----------------------------------------------------------------------------
(* xonedb4_get_midi_output, once for each byte of the packet.  Handlers of *)
(* one endpoint do not run at the same time.                               *)

GetTest ==
  /\ getPc = "idle"
  /\ getPc' = IF uartToSent > 0 THEN "take" ELSE "reset"
  /\ UNCHANGED <<uart, trigger, getTmp, sent, latest, apart>>

GetTake ==
  /\ getPc = "take"
  /\ latest' = uartSendBuffer[uartSendCount]
  /\ uartSendCount' = (uartSendCount + 1) % CounterSize
  /\ sent' = IF sent < MaxBytes THEN sent + 1 ELSE sent
  /\ getPc' = "load"
  /\ UNCHANGED <<uartSendBuffer, uartToSent, trigger, getTmp, apart>>

GetLoad ==
  /\ getPc = "load"
  /\ getTmp' = uartToSent
  /\ getPc' = "store"
  /\ UNCHANGED <<uart, trigger, sent, latest, apart>>

MutNotCounted ==
  /\ getPc = "store"
  /\ getPc' = "idle"
  /\ UNCHANGED <<uart, trigger, getTmp, sent, latest, apart>>

\* Whatever the callback has added since the load is lost.
GetStore ==
  /\ getPc = "store"
  /\ Apart(uartToSent = getTmp)
  /\ uartToSent' = (getTmp - 1) % CounterSize
  /\ getPc' = "idle"
  /\ UNCHANGED <<uartSendBuffer, uartSendCount, trigger, getTmp, sent, latest>>

\* Nothing to send: the next byte is taken from the front of the buffer, but
\* the bytes that have come since the test may lie further on.
GetReset ==
  /\ getPc = "reset"
  /\ Apart(uartSendCount = 0 \/ (uartToSent = 0 /\ outPc \notin {"load", "store"}))
  /\ uartSendCount' = 0
  /\ getPc' = "idle"
  /\ UNCHANGED <<uartSendBuffer, uartToSent, trigger, getTmp, sent, latest>>

-----------------------------------------------------------------------------
MidiOutTrigger == OutTrigger \/ OutCopy \/ OutLoad \/ OutStore
GetMidiOutput == GetTest \/ GetTake \/ GetLoad \/ GetStore \/ GetReset

UartNext == MidiOutTrigger \/ GetMidiOutput

UartSpec == UartInit /\ [][UartNext]_uartVars

(* PCM OUT transfers keep completing, and a callback that began ends.      *)
UartFairness == WF_uartVars(GetMidiOutput) /\ WF_uartVars(OutCopy \/ OutLoad \/ OutStore)
UartFairSpec == UartSpec /\ UartFairness

-----------------------------------------------------------------------------
(* Nothing keeps the handler and the callback out of each other's way, and *)
(* these are all the ways in which that can harm: a write that comes when  *)
(* earlier bytes are on their way out, or too late for the counters, an    *)
(* update of uart_to_sent lost to the other side's, and a reset that comes *)
(* after a write.  Until one has happened the device is given the bytes in *)
(* the order they were written, each once, wherever else the two overlap.  *)
SentInOrder == apart => latest = sent

(* Until then, too, everything the driver took from ALSA is given to the   *)
(* device: whenever bytes are waiting, there comes a time when none is.    *)
EverythingIsSent == sent < written ~> sent = written \/ ~apart

(* midi.c:112, "we are already transmitting so just return": a write that  *)
(* comes while bytes are waiting does not touch the buffer they wait in.   *)
TransmittingIsLeftAlone ==
  [][uartToSent > 0 => UNCHANGED uartSendBuffer]_uartVars

(* midi.c:119-120, which reports "MIDI SEND BUFFER OVERFLOW" and copies    *)
(* nothing when there is no room: what is copied is counted in full.       *)
CopiedIsCounted ==
  [][outPc = "store" /\ outPc' = "idle" => uartToSent' = outTmp + chunk]_uartVars
=============================================================================

------------------------------ MODULE MCClients ------------------------------
(***************************************************************************)
(* The kext with one of its clients, the HAL plug-in or the MIDI driver.   *)
(* The two only read the shared memory here, and know nothing of each      *)
(* other, so a behaviour has one of them, chosen at the start.             *)
(***************************************************************************)
EXTENDS HalMonitor

CONSTANT MaxSends

VARIABLES at, found, sends, maps, gSharedMem, gKextMapAddress, gIsKextMapping,
          gLastSessionID, gMidiDeviceRef, devices, online, failed,
          chosen   \* the client

Midi == INSTANCE MidiConnection

midi == <<at, found, sends, maps, gSharedMem, gKextMapAddress, gIsKextMapping,
          gLastSessionID, gMidiDeviceRef, devices, online, failed>>
all == <<kernel, hal, midi, chosen>>

MCInit == KextInit /\ HalInit /\ Midi!MidiInit /\ chosen \in {"hal", "midi"}

Kext(A) == A /\ UNCHANGED <<hal, midi, chosen>>
Hal(A) == chosen = "hal" /\ A /\ UNCHANGED <<kernel, midi, chosen>>
MidiAlone(A) == chosen = "midi" /\ A /\ UNCHANGED <<kernel, hal, chosen>>

MCNext == Kext(KextNext) \/ Hal(HalNext) \/ MidiAlone(Midi!MidiNext)

MCSafety == MCInit /\ [][MCNext]_all

\* The threads of the client go on, and a stop that has begun is finished.
MCSpec ==
  /\ MCSafety
  /\ WF_all(Kext(\E s \in Session : StopGoesOn(s)))
  /\ WF_all(Hal(MonitorLoop))
  /\ WF_all(MidiAlone(Midi!PollThread)) /\ WF_all(MidiAlone(Midi!SendCall))

\* The HAL shows a device that stays to CoreAudio: HalMonitor's DeviceIsShown.
DeviceIsShownAlone == chosen = "hal" => DeviceIsShown

\* The MIDI driver connects to a device that stays: MidiConnection's
\* StaysConnected.
StaysConnectedAlone == chosen = "midi" => Midi!StaysConnected

\* Where Send and the poll thread meet, each of these fails: memory is used
\* that is not mapped,
MidiNeverUsesUnmapped == Midi!NeverUsesUnmapped

\* a connected device stays offline,
ConnectedIsOnline == Midi!ConnectedIsOnline

\* a lost device stays online,
LostIsOffline == Midi!LostIsOffline

\* the device is created twice,
OneDevice == Midi!OneDevice

\* and a mapping is never given back.
NoMappingLost == Midi!NoMappingLost
=============================================================================

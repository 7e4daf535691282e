---------------------------- MODULE MidiConnection ----------------------------
(***************************************************************************)
(* How the MIDI driver (OzzyMIDI.mm) connects to the kext.  The poll       *)
(* thread connects when there is no memory and disconnects when the memory *)
(* says that the device has gone.  Send, on CoreMIDI's thread, connects    *)
(* too when it finds no memory.  Both work on the same global variables    *)
(* without a lock, each line a step of its own.                            *)
(*                                                                         *)
(* A mapping is named by its session and the thread that made it.  A use   *)
(* of memory that is not mapped ends the process (failed).  The daemon's   *)
(* memory is not modelled: no program creates it.  Start and Stop are not  *)
(* modelled either: the driver runs from the first to the last step.       *)
(***************************************************************************)
EXTENDS KextService

CONSTANT MaxSends    \* bound on the calls of Send

Thread == {"poll", "send"}
Null == <<None, "poll">>

VARIABLES
  at, found,               \* each thread: where it is, the service found
  sends,                   \* calls of Send so far
  maps,                    \* the mappings of the process
  gSharedMem, gKextMapAddress, gIsKextMapping, gLastSessionID,
  gMidiDeviceRef, devices, \* the device is known; how many were created
  online,                  \* the device's Offline property, negated
  failed                   \* the process has crashed

globals == <<maps, gSharedMem, gKextMapAddress, gIsKextMapping, gLastSessionID>>
device == <<gMidiDeviceRef, devices, online>>
midi == <<at, found, sends, globals, device, failed>>

Mapping == Session \X Thread

MidiTypeOK ==
  /\ KextTypeOK
  /\ at \in [Thread -> {"idle", "top", "check", "update", "validate", "find", "open",
                        "attach", "session", "ensure", "create", "return", "false",
                        "disconnect", "unmap", "clear", "offline", "use"}]
  /\ found \in [Thread -> Session \cup {None}]
  /\ sends \in 0 .. MaxSends
  /\ maps \subseteq Mapping
  /\ {gSharedMem, gKextMapAddress} \subseteq Mapping \cup {Null}
  /\ gLastSessionID \in Session \cup {None}
  /\ {gIsKextMapping, gMidiDeviceRef, online, failed} \subseteq BOOLEAN
  /\ devices \in 0 .. 2

MidiInit ==
  /\ at = [t \in Thread |-> IF t = "poll" THEN "top" ELSE "idle"]
  /\ found = [t \in Thread |-> None] /\ sends = 0
  /\ maps = {} /\ gSharedMem = Null /\ gKextMapAddress = Null
  /\ gIsKextMapping = FALSE /\ gLastSessionID = None
  /\ gMidiDeviceRef = FALSE /\ devices = 0 /\ online = FALSE
  /\ failed = FALSE

Goes(t, from, to) == at[t] = from /\ ~failed /\ at' = [at EXCEPT ![t] = to]
Mapped == gSharedMem \in maps
Shared == memory[gSharedMem[1]]
SameSession == gSharedMem[1] = gLastSessionID

\* What is read through the pointer exists, or the process ends.
Reads(t, from, to) ==
  IF Mapped THEN Goes(t, from, to) /\ UNCHANGED failed
  ELSE at[t] = from /\ ~failed /\ failed' = TRUE /\ UNCHANGED at

-----------------------------------------------------------------------------
(* UpdateConnectionState                                                   *)

Update(t) ==
  /\ Goes(t, "update", IF gSharedMem = Null THEN "find" ELSE "validate")
  /\ UNCHANGED <<found, sends, globals, device, failed>>

Validate(t) ==
  /\ Reads(t, "validate",
           IF Mapped /\ Shared.magic /\ SameSession THEN "return" ELSE "disconnect")
  /\ UNCHANGED <<found, sends, globals, device>>

Find(t) ==
  /\ UNCHANGED <<sends, maps, gSharedMem, gKextMapAddress, gLastSessionID, device,
                 failed>>
  /\ \/ Goes(t, "find", "open") /\ UNCHANGED gIsKextMapping
        /\ \E s \in Matching : found' = [found EXCEPT ![t] = s]
     \/ Goes(t, "find", "false") /\ Matching = {}
        /\ gIsKextMapping' = FALSE /\ UNCHANGED found

Open(t) ==
  /\ UNCHANGED <<found, sends, gSharedMem, gLastSessionID, device, failed>>
  /\ \/ /\ Goes(t, "open", "attach") /\ GivesMemory(found[t])
        /\ maps' = maps \cup {<<found[t], t>>}
        /\ gKextMapAddress' = <<found[t], t>>
        /\ UNCHANGED gIsKextMapping
     \/ /\ Goes(t, "open", "false") /\ Refuses(found[t])
        /\ gIsKextMapping' = FALSE
        /\ UNCHANGED <<maps, gKextMapAddress>>

Attach(t) ==
  /\ Goes(t, "attach", "session")
  /\ gSharedMem' = gKextMapAddress /\ gIsKextMapping' = TRUE
  /\ UNCHANGED <<found, sends, maps, gKextMapAddress, gLastSessionID, device, failed>>

TakeSession(t) ==
  /\ Reads(t, "session", "ensure")
  /\ gLastSessionID' = IF Mapped THEN gSharedMem[1] ELSE gLastSessionID
  /\ UNCHANGED <<found, sends, maps, gSharedMem, gKextMapAddress, gIsKextMapping,
                 device>>

\* EnsureMIDIDeviceCreated and SetDeviceOnline(true)
EnsureDevice(t) ==
  /\ Goes(t, "ensure", IF gMidiDeviceRef THEN "return" ELSE "create")
  /\ online' = (online \/ gMidiDeviceRef)
  /\ UNCHANGED <<found, sends, globals, gMidiDeviceRef, devices, failed>>

CreateDevice(t) ==
  /\ Goes(t, "create", "return")
  /\ gMidiDeviceRef' = TRUE /\ devices' = devices + 1 /\ online' = TRUE
  /\ UNCHANGED <<found, sends, globals, failed>>

-----------------------------------------------------------------------------
(* DisconnectSharedMemory                                                  *)

Disconnect(t) ==
  /\ Goes(t, "disconnect", IF gSharedMem = Null THEN "false" ELSE "unmap")
  /\ UNCHANGED <<found, sends, globals, device, failed>>

\* A mapping that is not of the kext is taken for the daemon's.
Unmap(t) ==
  /\ Goes(t, "unmap", "clear")
  /\ IF gIsKextMapping
       THEN maps' = maps \ {gKextMapAddress} /\ gKextMapAddress' = Null
       ELSE maps' = maps \ {gSharedMem} /\ UNCHANGED gKextMapAddress
  /\ gIsKextMapping' = FALSE
  /\ UNCHANGED <<found, sends, gSharedMem, gLastSessionID, device, failed>>

ClearPointer(t) ==
  /\ Goes(t, "clear", "offline")
  /\ gSharedMem' = Null
  /\ UNCHANGED <<found, sends, maps, gKextMapAddress, gIsKextMapping,
                 gLastSessionID, device, failed>>

\* SetDeviceOnline(false)
SetOffline(t) ==
  /\ Goes(t, "offline", "false")
  /\ online' = FALSE
  /\ UNCHANGED <<found, sends, globals, gMidiDeviceRef, devices, failed>>

Connection(t) ==
  \/ Update(t) \/ Validate(t) \/ Find(t) \/ Open(t) \/ Attach(t) \/ TakeSession(t)
  \/ EnsureDevice(t) \/ CreateDevice(t)
  \/ Disconnect(t) \/ Unmap(t) \/ ClearPointer(t) \/ SetOffline(t)

-----------------------------------------------------------------------------
(* The loop of the poll thread, and Send                                   *)

PollTop ==
  /\ Goes("poll", "top", IF gSharedMem = Null THEN "update" ELSE "check")
  /\ UNCHANGED <<found, sends, globals, device, failed>>

MutNeverCheck ==
  /\ Reads("poll", "check", "use")
  /\ UNCHANGED <<found, sends, globals, device>>

\* hardwarePresent is looked at in every round, magic and the session in
\* every thousandth.
PollCheck ==
  /\ \E thousandth \in BOOLEAN :
       Reads("poll", "check",
             IF Mapped /\ (~Shared.hardwarePresent
                           \/ (thousandth /\ ~(Shared.magic /\ SameSession)))
             THEN "disconnect" ELSE "use")
  /\ UNCHANGED <<found, sends, globals, device>>

\* UpdateConnectionState has returned true, or false: then, and after the
\* loop's own disconnect, the loop starts again.
PollReturn ==
  /\ \/ Goes("poll", "return", IF gSharedMem = Null THEN "top" ELSE "use")
     \/ Goes("poll", "false", "top")
  /\ UNCHANGED <<found, sends, globals, device, failed>>

\* The bytes are passed on from the ring.
PollUse ==
  /\ Reads("poll", "use", "top")
  /\ UNCHANGED <<found, sends, globals, device>>

Send ==
  /\ sends < MaxSends
  /\ Goes("send", "idle", IF gSharedMem = Null THEN "update" ELSE "return")
  /\ sends' = sends + 1
  /\ UNCHANGED <<found, globals, device, failed>>

\* Send looks at the pointer again, not at what was returned.
SendReturn ==
  /\ \E answer \in {"return", "false"} :
       Goes("send", answer, IF gSharedMem = Null THEN "idle" ELSE "use")
  /\ UNCHANGED <<found, sends, globals, device, failed>>

SendUse ==
  /\ Reads("send", "use", "idle")
  /\ UNCHANGED <<found, sends, globals, device>>

PollThread == PollTop \/ PollCheck \/ PollReturn \/ PollUse \/ Connection("poll")
SendCall == SendReturn \/ SendUse \/ Connection("send")

MidiNext == PollThread \/ Send \/ SendCall

MidiSpec ==
  /\ KextInit /\ MidiInit
  /\ [][(KextNext /\ UNCHANGED midi) \/ (MidiNext /\ UNCHANGED kernel)]_<<kernel, midi>>

-----------------------------------------------------------------------------
(* Properties                                                              *)

\* The driver ends up with the memory of a device that stays, whatever the
\* two threads did to each other while one device followed another.
StaysConnected ==
  Matching # {} ~>
    (Mapped /\ gSharedMem[1] \in Matching) \/ Matching = {} \/ failed

\* What fails when Send connects at the same time as the poll thread: memory
\* is used that is not mapped, a connected device stays offline or a lost one
\* online, two devices appear, a mapping is never given back.
NeverUsesUnmapped == ~failed
Settled == at["poll"] \in {"top", "check"} /\ at["send"] = "idle"
ConnectedIsOnline == Settled /\ gSharedMem # Null => online
LostIsOffline == Settled /\ gSharedMem = Null => ~online
OneDevice == devices <= 1
NoMappingLost == Settled => maps \subseteq {gSharedMem}
=============================================================================

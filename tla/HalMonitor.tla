------------------------------ MODULE HalMonitor ------------------------------
(***************************************************************************)
(* How the HAL plug-in (OzzyHAL.mm) follows the kext.  The monitor thread  *)
(* maps the memory of the service it finds, looks at the memory every      *)
(* 250 ms, and tells CoreAudio when the device comes and goes.  CoreAudio  *)
(* starts and stops I/O from another thread, and a third asks for zero     *)
(* timestamps meanwhile; nothing locks mSHM or the flags between them.     *)
(*                                                                         *)
(* A use of memory that is no longer mapped ends the process (crashed).    *)
(* The daemon's memory is not modelled: no program creates it.  Two        *)
(* flags that are read one after the other are read in one step, as they   *)
(* only ever go down in a memory that has been registered.                 *)
(***************************************************************************)
EXTENDS KextService

CONSTANT MaxIO   \* bound on the calls of StartIO

ASSUME IOAssumption == MaxIO \in Nat

VARIABLES
  monitor,                 \* where Init and then MonitorLoop are
  initializing,            \* Init has not yet created the thread
  service,                 \* the service found
  mSHM, mapping,           \* the pointer, and what is mapped
  mLastConnectedState,
  announced,               \* the memory the device's names were copied from
  told,                    \* the device CoreAudio was last told of
  mIOStarted, mTimestampSeed,
  host, running, ios,      \* CoreAudio: in StartIO, its I/O runs, calls
  io, ts,                  \* GetZeroTimeStamp: where it is, what it reads
  used,                    \* history: the memory last read, and the seed then
  crashed

names == <<announced, told>>
flags == <<mIOStarted, mTimestampSeed>>
pointers == <<mSHM, mapping>>
coreAudio == <<host, running, ios>>
reader == <<io, ts, used, crashed>>
hal == <<monitor, initializing, service, pointers, mLastConnectedState, names,
         flags, coreAudio, reader>>

Memory == Session \cup {None}

HalTypeOK ==
  /\ KextTypeOK
  /\ monitor \in {"find", "map", "magic", "unmap", "clear", "first", "top", "read",
                  "stop", "tell"}
  /\ service \in Memory /\ mSHM \in Memory /\ mapping \in Memory
  /\ announced \in Memory /\ told \in Memory /\ ts \in Memory
  /\ initializing \in BOOLEAN /\ mLastConnectedState \in BOOLEAN
  /\ mIOStarted \in BOOLEAN /\ running \in BOOLEAN /\ crashed \in BOOLEAN
  /\ mTimestampSeed \in Nat /\ ios \in 0 .. MaxIO
  /\ host \in {"idle", "start"} /\ io \in {"idle", "use", "load"}
  /\ used \in [session : Memory, seed : Nat]

HalInit ==
  /\ monitor = "find" /\ initializing = TRUE /\ service = None
  /\ mSHM = None /\ mapping = None
  /\ mLastConnectedState = FALSE /\ announced = None /\ told = None
  /\ mIOStarted = FALSE /\ mTimestampSeed = 1
  /\ host = "idle" /\ running = FALSE /\ ios = 0
  /\ io = "idle" /\ ts = None /\ used = [session |-> None, seed |-> 0]
  /\ crashed = FALSE

-----------------------------------------------------------------------------
(* MapSharedMemory and UnmapSharedMemory, called by Init and by the thread. *)

Monitor(from, to) == monitor = from /\ ~crashed /\ monitor' = to

\* Without a memory the loop sleeps and starts again.
NotMapped == IF initializing THEN "first" ELSE "top"

FindService ==
  /\ UNCHANGED <<initializing, pointers, mLastConnectedState, names, flags,
                 coreAudio, reader>>
  /\ \/ Monitor("find", "map") /\ service' \in Matching
     \/ Monitor("find", NotMapped) /\ Matching = {} /\ UNCHANGED service

MapMemory ==
  /\ UNCHANGED <<initializing, service, mLastConnectedState, names, flags,
                 coreAudio, reader>>
  /\ \/ /\ Monitor("map", "magic") /\ GivesMemory(service)
        /\ mSHM' = service /\ mapping' = service
     \/ Monitor("map", NotMapped) /\ Refuses(service) /\ UNCHANGED pointers

CheckMagic ==
  /\ Monitor("magic", IF ~memory[mSHM].magic THEN "unmap"
                      ELSE IF initializing THEN "first" ELSE "read")
  /\ UNCHANGED <<initializing, service, pointers, mLastConnectedState, names,
                 flags, coreAudio, reader>>

\* The memory is unmapped first, and only then is the pointer cleared.
Unmap ==
  /\ Monitor("unmap", "clear")
  /\ mapping' = None
  /\ UNCHANGED <<initializing, service, mSHM, mLastConnectedState, names, flags,
                 coreAudio, reader>>

MutContinue ==
  /\ Monitor("clear", NotMapped)
  /\ mSHM' = None
  /\ UNCHANGED <<initializing, service, mapping, mLastConnectedState, names,
                 flags, coreAudio, reader>>

\* After a lost device the state is updated; after a wrong magic the loop
\* sleeps, but there the state is down already and an update changes nothing.
ClearPointer ==
  /\ Monitor("clear", IF initializing THEN "first" ELSE "read")
  /\ mSHM' = None
  /\ UNCHANGED <<initializing, service, mapping, mLastConnectedState, names,
                 flags, coreAudio, reader>>

-----------------------------------------------------------------------------
(* MonitorLoop                                                             *)

\* A device that was there from the start.
FirstLook ==
  /\ Monitor("first", "top")
  /\ initializing' = FALSE
  /\ IF mSHM # None /\ Connected(mSHM)
       THEN mLastConnectedState' = TRUE /\ announced' = mSHM /\ told' = mSHM
       ELSE UNCHANGED <<mLastConnectedState, names>>
  /\ UNCHANGED <<service, pointers, flags, coreAudio, reader>>

MutNoHealthCheck ==
  /\ Monitor("top", IF mSHM = None THEN "find" ELSE "read")
  /\ UNCHANGED <<initializing, service, pointers, mLastConnectedState, names,
                 flags, coreAudio, reader>>

CheckHealth ==
  /\ Monitor("top", IF mSHM = None THEN "find"
                    ELSE IF Present(mSHM) THEN "read" ELSE "unmap")
  /\ UNCHANGED <<initializing, service, pointers, mLastConnectedState, names,
                 flags, coreAudio, reader>>

UpdateState ==
  LET currentlyConnected == mSHM # None /\ Connected(mSHM)
  IN /\ Monitor("read", IF currentlyConnected = mLastConnectedState THEN "top"
                        ELSE IF currentlyConnected THEN "tell" ELSE "stop")
     /\ mLastConnectedState' = currentlyConnected
     /\ announced' = IF currentlyConnected /\ ~mLastConnectedState THEN mSHM
                     ELSE announced
     /\ UNCHANGED <<initializing, service, pointers, told, flags, coreAudio, reader>>

\* The device has gone: I/O is stopped.
AutoStop ==
  /\ Monitor("stop", "tell")
  /\ mIOStarted' = FALSE
  /\ mTimestampSeed' = mTimestampSeed + IF mIOStarted THEN 1 ELSE 0
  /\ UNCHANGED <<initializing, service, pointers, mLastConnectedState, names,
                 coreAudio, reader>>

MutTellNothing ==
  /\ Monitor("tell", "top")
  /\ told' = IF mLastConnectedState THEN announced ELSE told
  /\ UNCHANGED <<initializing, service, pointers, mLastConnectedState, announced,
                 flags, coreAudio, reader>>

PropertiesChanged ==
  /\ Monitor("tell", "top")
  /\ told' = IF mLastConnectedState THEN announced ELSE None
  /\ UNCHANGED <<initializing, service, pointers, mLastConnectedState, announced,
                 flags, coreAudio, reader>>

MonitorLoop ==
  \/ FindService \/ MapMemory \/ CheckMagic \/ Unmap \/ ClearPointer
  \/ FirstLook \/ CheckHealth \/ UpdateState \/ AutoStop \/ PropertiesChanged

-----------------------------------------------------------------------------
(* CoreAudio's threads                                                     *)

halThread == <<monitor, initializing, service, pointers, mLastConnectedState, names>>

\* StartIO tests IsConnected, and starts a step later.
StartIOTest ==
  /\ ~crashed /\ host = "idle" /\ ~running /\ ios < MaxIO
  /\ mLastConnectedState
  /\ host' = "start" /\ ios' = ios + 1
  /\ UNCHANGED <<halThread, flags, running, reader>>

StartIO ==
  /\ ~crashed /\ host = "start"
  /\ mIOStarted' = TRUE /\ mTimestampSeed' = mTimestampSeed + 1
  /\ host' = "idle" /\ running' = TRUE
  /\ UNCHANGED <<halThread, ios, reader>>

StopIO ==
  /\ ~crashed /\ running /\ io = "idle"
  /\ mIOStarted' = FALSE /\ mTimestampSeed' = mTimestampSeed + 1
  /\ running' = FALSE
  /\ UNCHANGED <<halThread, host, ios, reader>>

\* GetZeroTimeStamp tests the pointer, takes it again, and then loads.
TestPointer ==
  /\ ~crashed /\ running /\ io = "idle" /\ mSHM # None
  /\ io' = "use"
  /\ UNCHANGED <<halThread, flags, coreAudio, ts, used, crashed>>

TakePointer ==
  /\ ~crashed /\ io = "use"
  /\ ts' = mSHM /\ io' = "load"
  /\ UNCHANGED <<halThread, flags, coreAudio, used, crashed>>

LoadTimestamp ==
  /\ ~crashed /\ io = "load"
  /\ io' = "idle" /\ ts' = None
  /\ crashed' = (ts = None \/ mapping # ts)
  /\ used' = [session |-> ts, seed |-> mTimestampSeed]
  /\ UNCHANGED <<halThread, flags, coreAudio>>

CoreAudio ==
  StartIOTest \/ StartIO \/ StopIO \/ TestPointer \/ TakePointer \/ LoadTimestamp

HalNext == MonitorLoop \/ CoreAudio

HalSpec ==
  /\ KextInit /\ HalInit
  /\ [][(KextNext /\ UNCHANGED hal) \/ (HalNext /\ UNCHANGED kernel)]_<<kernel, hal>>

-----------------------------------------------------------------------------
(* Properties                                                              *)

\* While the device is shown as connected, its names are those of the memory
\* in use, however quickly one device follows another: a change of session
\* never goes unannounced.
AnnouncedIsMapped ==
  mLastConnectedState /\ mSHM # None => announced = mSHM

\* A device that stays is shown to CoreAudio, whatever the plug-in held of an
\* earlier one.
DeviceIsShown ==
  Matching # {} ~>
    (told \in Matching /\ mSHM = told) \/ Matching = {} \/ crashed

\* CoreAudio is told of a device that has gone, before it hears of the next.
LossIsTold ==
  told # None /\ ~memory[told].hardwarePresent ~> told = None \/ crashed

\* What fails: the I/O thread uses memory the monitor has just unmapped; I/O
\* is started after the device has gone; two sessions have one seed.
NeverUsesUnmapped == ~crashed
NoIOWhenDown == monitor = "top" /\ mIOStarted => mLastConnectedState
SeedTellsSessionsApart ==
  [][used.session # None /\ used'.session \notin {None, used.session} =>
       used'.seed # used.seed]_hal
=============================================================================

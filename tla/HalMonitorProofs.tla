--------------------------- MODULE HalMonitorProofs ---------------------------
(***************************************************************************)
(* Proof, for any number of devices and calls of StartIO, that the HAL     *)
(* plug-in shows a device under the names of the memory it has mapped.     *)
(***************************************************************************)
EXTENDS HalMonitor, TLAPS

(* The monitor thread looks for a device only while nothing is mapped and  *)
(* no device is shown; while it makes up its mind about a memory it has    *)
(* one; and a device that is shown at the top of its loop, or while        *)
(* CoreAudio is told, has its memory.  A lost device that is still shown   *)
(* goes from "clear" to "read" and not back to "find": that is why the     *)
(* next device is always announced.                                        *)
MonitorInv ==
  /\ monitor \in {"find", "map"} => mSHM = None
  /\ monitor = "map" => service # None
  /\ monitor \in {"magic", "unmap"} => mSHM # None
  /\ monitor \in {"find", "map", "magic", "first"} => ~mLastConnectedState
  /\ initializing => /\ ~mLastConnectedState
                     /\ monitor \in {"find", "map", "magic", "unmap", "clear", "first"}
  /\ monitor \in {"top", "stop", "tell"} /\ mLastConnectedState => mSHM # None

IInv == HalTypeOK /\ MonitorInv /\ AnnouncedIsMapped

HalStep == (KextNext /\ UNCHANGED hal) \/ (HalNext /\ UNCHANGED kernel)

USE IOAssumption
-----------------------------------------------------------------------------
(* Types.                                                                  *)

LEMMA KextTypeNext == KextTypeOK /\ KextNext => KextTypeOK'
<1> USE DEF KextTypeOK, Becomes, FlagsDown
<1> SUFFICES ASSUME KextTypeOK, NEW s \in Session,
                    \/ Start(s) \/ RegisterService(s)
                    \/ Message(s) \/ StopMagic(s) \/ StopGoesOn(s)
             PROVE  KextTypeOK'
  BY DEF KextNext
<1>1. CASE Start(s)
  <2>1. kext' \in [Session -> {"none", "started", "registered", "failed",
                               "terminated", "invalid", "stopped", "gone"}]
    BY <1>1 DEF Start
  <2>2. CASE UNCHANGED memory
    BY <2>1, <2>2
  <2>3. CASE memory' = [memory EXCEPT ![s] =
               [magic |-> TRUE, hardwarePresent |-> TRUE, driverReady |-> TRUE]]
    BY <2>1, <2>3
  <2> QED
    BY <1>1, <2>2, <2>3 DEF Start
<1>2. CASE RegisterService(s)
  BY <1>2 DEF RegisterService
<1>3. CASE Message(s)
  BY <1>3 DEF Message
<1>4. CASE StopMagic(s)
  BY <1>4 DEF StopMagic
<1>5. CASE StopEngine(s)
  BY <1>5 DEF StopEngine
<1>6. CASE UnmapSharedMemory(s)
  BY <1>6 DEF UnmapSharedMemory
<1> QED
  BY <1>1, <1>2, <1>3, <1>4, <1>5, <1>6 DEF StopGoesOn

LEMMA TypeInit == KextInit /\ HalInit => HalTypeOK
<1> SUFFICES ASSUME KextInit, HalInit PROVE HalTypeOK
  OBVIOUS
<1>1. KextTypeOK
  BY DEF KextInit, KextTypeOK
<1>2. used \in [session : Memory, seed : Nat]
  BY DEF HalInit, Memory
<1>3. ios \in 0 .. MaxIO
  BY DEF HalInit
<1> QED
  BY <1>1, <1>2, <1>3 DEF HalInit, HalTypeOK, Memory

LEMMA TypeNext == HalTypeOK /\ [HalStep]_<<kernel, hal>> => HalTypeOK'
<1> SUFFICES ASSUME HalTypeOK, [HalStep]_<<kernel, hal>> PROVE HalTypeOK'
  OBVIOUS
<1> USE DEF HalTypeOK
<1>1. CASE UNCHANGED hal
  <2>1. KextTypeOK'
    BY <1>1, KextTypeNext DEF HalStep, HalNext, KextTypeOK, kernel
  <2> QED
    BY <1>1, <2>1 DEF hal, pointers, names, flags, coreAudio, reader
<1>2. CASE HalNext /\ UNCHANGED kernel
  <2> USE <1>2 DEF kernel, pointers, names, flags, coreAudio, reader, halThread,
                  Monitor, NotMapped
  <2>1. KextTypeOK'
    BY DEF KextTypeOK
  <2>2. CASE FindService
    BY <2>1, <2>2 DEF FindService, Matching, Memory
  <2>3. CASE MapMemory \/ CheckMagic \/ Unmap \/ ClearPointer
    BY <2>1, <2>3 DEF MapMemory, CheckMagic, Unmap, ClearPointer, Memory
  <2>4. CASE FirstLook \/ CheckHealth
    BY <2>1, <2>4 DEF FirstLook, CheckHealth
  <2>5. CASE UpdateState
    BY <2>1, <2>5 DEF UpdateState
  <2>6. CASE AutoStop
    <3>1. mTimestampSeed' \in Nat
      <4>1. mTimestampSeed' = mTimestampSeed \/ mTimestampSeed' = mTimestampSeed + 1
        BY <2>6 DEF AutoStop
      <4> QED
        BY <4>1
    <3>2. mIOStarted' = FALSE
      BY <2>6 DEF AutoStop
    <3> QED
      BY <2>1, <2>6, <3>1, <3>2 DEF AutoStop
  <2>7. CASE PropertiesChanged
    BY <2>1, <2>7 DEF PropertiesChanged, Memory
  <2>8. CASE StartIOTest
    BY <2>1, <2>8 DEF StartIOTest
  <2>9. CASE StartIO \/ StopIO
    <3>1. mTimestampSeed' \in Nat
      BY <2>9 DEF StartIO, StopIO
    <3>2. mIOStarted' \in BOOLEAN /\ running' \in BOOLEAN
      BY <2>9 DEF StartIO, StopIO
    <3>3. host' \in {"idle", "start"}
      BY <2>9 DEF StartIO, StopIO
    <3> QED
      BY <2>1, <2>9, <3>1, <3>2, <3>3 DEF StartIO, StopIO
  <2>10. CASE TestPointer \/ TakePointer
    BY <2>1, <2>10 DEF TestPointer, TakePointer
  <2>11. CASE LoadTimestamp
    BY <2>1, <2>11 DEF LoadTimestamp, Memory
  <2> QED
    BY <2>2, <2>3, <2>4, <2>5, <2>6, <2>7, <2>8, <2>9, <2>10, <2>11
       DEF HalNext, MonitorLoop, CoreAudio
<1> QED
  BY <1>1, <1>2 DEF HalStep

-----------------------------------------------------------------------------
LEMMA IInvInit == KextInit /\ HalInit => IInv
BY TypeInit DEF HalInit, IInv, MonitorInv, AnnouncedIsMapped

(* CoreAudio's threads, and the kext's, touch nothing of the monitor's.    *)
LEMMA Footprint ==
  ASSUME CoreAudio \/ UNCHANGED hal
  PROVE  UNCHANGED halThread
<1>1. CASE CoreAudio
  BY <1>1 DEF CoreAudio, StartIOTest, StartIO, StopIO, TestPointer, TakePointer,
              LoadTimestamp
<1>2. CASE UNCHANGED hal
  BY <1>2 DEF hal, halThread
<1> QED
  BY <1>1, <1>2

LEMMA IInvNext == IInv /\ [HalStep]_<<kernel, hal>> => IInv'
<1> SUFFICES ASSUME IInv, [HalStep]_<<kernel, hal>>
             PROVE  MonitorInv' /\ AnnouncedIsMapped'
  BY TypeNext DEF IInv
<1> USE DEF IInv, HalTypeOK, MonitorInv, AnnouncedIsMapped, Monitor, NotMapped,
            pointers, names
<1>1. CASE UNCHANGED halThread
  BY <1>1 DEF halThread
<1>2. CASE FindService
  BY <1>2 DEF FindService, Matching, Session, None
<1>3. CASE MapMemory
  BY <1>3 DEF MapMemory
<1>4. CASE CheckMagic
  BY <1>4 DEF CheckMagic
<1>5. CASE Unmap
  BY <1>5 DEF Unmap
<1>6. CASE ClearPointer
  BY <1>6 DEF ClearPointer
<1>7. CASE FirstLook
  BY <1>7 DEF FirstLook
<1>8. CASE CheckHealth
  BY <1>8 DEF CheckHealth
<1>9. CASE UpdateState
  BY <1>9 DEF UpdateState
<1>10. CASE AutoStop
  BY <1>10 DEF AutoStop
<1>11. CASE PropertiesChanged
  BY <1>11 DEF PropertiesChanged
<1> QED
  BY Footprint, <1>1, <1>2, <1>3, <1>4, <1>5, <1>6, <1>7, <1>8, <1>9, <1>10, <1>11
     DEF HalStep, HalNext, MonitorLoop

(* The variables of the kext and of the plug-in keep their types.          *)
THEOREM TypeCorrect == HalSpec => []HalTypeOK
<1>1. IInv => HalTypeOK
  BY DEF IInv
<1> QED
  BY <1>1, IInvInit, IInvNext, PTL DEF HalSpec, HalStep

(* A device is shown under the names of the memory in use, however many    *)
(* devices come and go between two looks of the monitor thread.            *)
THEOREM ShownIsAnnounced == HalSpec => []AnnouncedIsMapped
<1>1. IInv => AnnouncedIsMapped
  BY DEF IInv
<1> QED
  BY <1>1, IInvInit, IInvNext, PTL DEF HalSpec, HalStep
=============================================================================

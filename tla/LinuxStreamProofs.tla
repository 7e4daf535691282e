-------------------------- MODULE LinuxStreamProofs --------------------------
(***************************************************************************)
(* Proofs, for every set of substreams, transfers and rates and whatever   *)
(* may be pulled out or fail, of the safety invariants of the Linux PCM    *)
(* stream: who holds stream_mutex, when the URBs are idle, what a freed    *)
(* card leaves behind and at which rate the stream starts.                 *)
(***************************************************************************)
EXTENDS LinuxStream, TLAPS

USE ConstantsAssumption
USE DEF stream, subs, rates, chip, cards, usb, cores, app, others, rest, Goto,
        AlsaState, Forget, Lock, Unlock, Fate, At

-----------------------------------------------------------------------------
(* The invariant.                                                          *)

Quiet == \A u \in Urb : urb[u] = "idle"

Label == {"closed", "opening", "open", "prepare", "rate", "reset", "ask",
          "resetting", "relock", "start", "run", "unlock", "fail", "closing",
          "stop", "stopped", "leave"}

\* Where a callback has stream_mutex, and where probe has pinned the card.
Holding ==
  {"rate", "start", "run", "unlock", "fail", "stop", "stopped", "leave"}
Restoring == {"control", "rated", "told", "init", "submit", "free"}

(* A callback between lock and unlock has the mutex, until the error path  *)
(* of a failed probe has unlocked it for nobody in particular.             *)
MutexInv ==
  corePc # "free" => \A s \in Sub : pc[s] \in Holding => streamMutex = s

(* Whoever is in probe or disconnect is either a prepare waiting for its   *)
(* reset, with the device in place, or the hub; and the hub's disconnect   *)
(* finds the device gone, its probe finds it back.                         *)
CoreInv ==
  /\ core = Nobody <=> corePc = "idle"
  /\ core \in Sub => attached /\ pc[core] = "resetting"
  /\ core = Hub => (attached <=> corePc \in Restoring \cup {"probe"})
  /\ corePc = "reset" => core \in Sub

(* From the end of disconnect until probe submits them, no transfer is in  *)
(* flight and no completion handler runs.                                  *)
QuietInv ==
  corePc \in Restoring \cup {"reset", "probe"} \/ (core = Nobody /\ ~attached)
    => Quiet

(* A card that is no longer up has seen its last transfer, unless a probe  *)
(* pinned it when it gave it the device again.                             *)
CardInv ==
  /\ corePc \in Restoring => pinned
  /\ corePc = "probe" /\ core = Hub => card = "up"
  /\ card # "up" /\ ~pinned => /\ Quiet
                               /\ corePc \in {"idle", "reset", "probe"}
                               /\ core = Nobody => ~attached
  /\ card = "freed" => ~pinned /\ \A s \in Sub : pc[s] = "closed"

IInv == TypeOK /\ MutexInv /\ CoreInv /\ QuietInv /\ CardInv

LEMMA IInvInit == Init => IInv
<1> SUFFICES ASSUME Init PROVE IInv
  OBVIOUS
<1> USE DEF Init
<1>1. TypeOK
  <2>1. panic \in BOOLEAN /\ justresetting \in BOOLEAN /\ pinned \in BOOLEAN
    OBVIOUS
  <2>2. attached \in BOOLEAN /\ enabled \in BOOLEAN /\ poisoned \in BOOLEAN
    OBVIOUS
  <2> QED
    BY <2>1, <2>2 DEF TypeOK
<1>2. MutexInv /\ CoreInv /\ QuietInv /\ CardInv
  BY DEF MutexInv, CoreInv, QuietInv, CardInv, Holding, Restoring
<1> QED
  BY <1>1, <1>2 DEF IInv

-----------------------------------------------------------------------------
(* What the steps of the three kinds of threads leave alone.               *)

(* A callback leaves the device, the card, the URBs and the USB core to    *)
(* others, except where it asks for a reset.                               *)
LEMMA CallFootprint ==
  ASSUME TypeOK, NEW s \in Sub, Begin(s) \/ Call(s), ~AskReset(s)
  PROVE  /\ UNCHANGED <<attached, urb, card, pinned, core, corePc>>
         /\ \A t \in Sub \ {s} : pc'[t] = pc[t]
         /\ pc[s] # "resetting"
         /\ pc[s] = "closed" => card = "up"
<1> USE DEF TypeOK
<1>1. CASE Begin(s)
  BY <1>1 DEF Begin, Open, Prepare, TriggerStart, TriggerStop, Close
<1>2. CASE Call(s)
  BY <1>2 DEF Call, OpenLocked, PrepareLocked, SetRate, MarkReset, Relock,
              StartStream, RunStream, PrepareDone, PrepareFailed,
              CloseLocked, CloseStop, StopStream, CloseDone
<1> QED
  BY <1>1, <1>2

(* A completion handler changes nothing but panic and its own URB, which   *)
(* is not idle.                                                            *)
LEMMA TransferFootprint ==
  ASSUME TypeOK, NEW u \in Urb, Transfer(u)
  PROVE  UNCHANGED others /\ streamState' = streamState /\ urb[u] # "idle"
BY DEF TypeOK, Transfer, Complete, HandlerTest, HandlerBody, HandlerSubmit

(* The USB core moves a callback only from its reset to the lock after it. *)
LEMMA CoreFootprint ==
  ASSUME TypeOK, CoreInv, UsbCore \/ Unplug \/ Plug \/ FreeCard
  PROVE  /\ \A s \in Sub : pc'[s] = pc[s] \/ (s = core /\ pc'[s] = "relock")
         /\ streamMutex' = streamMutex \/ corePc' = "free"
         /\ corePc = "free" => corePc' = "free"
<1> USE DEF TypeOK, CoreInv
<1>1. CASE Flushed \/ Abort \/ AbortStop \/ Poison \/ Disconnected
  BY <1>1 DEF Flushed, Abort, AbortStop, StopStream, Poison, Disconnected
<1>2. CASE ResetDevice \/ Probe \/ ProbeControl \/ InitUrbs \/ SubmitUrbs
  BY <1>2 DEF ResetDevice, Probe, ProbeControl, InitUrbs, SubmitUrbs,
              LeaveCore, GiveUp
<1>3. CASE Unplug \/ Plug \/ FreeCard
  BY <1>3 DEF Unplug, Plug, FreeCard
<1> QED
  BY <1>1, <1>2, <1>3 DEF UsbCore

-----------------------------------------------------------------------------
(* Every step preserves the invariant.                                     *)

LEMMA TypeCall ==
  ASSUME TypeOK, NEW s \in Sub, Begin(s) \/ Call(s)
  PROVE  TypeOK'
<1> USE DEF TypeOK
<1>1. CASE Open(s)
  BY <1>1 DEF Open
<1>2. CASE Prepare(s)
  BY <1>2 DEF Prepare
<1>3. CASE TriggerStart(s)
  BY <1>3 DEF TriggerStart
<1>4. CASE TriggerStop(s)
  BY <1>4 DEF TriggerStop
<1>5. CASE Close(s)
  BY <1>5 DEF Close
<1>6. CASE OpenLocked(s)
  BY <1>6 DEF OpenLocked
<1>7. CASE PrepareLocked(s)
  BY <1>7 DEF PrepareLocked
<1>8. CASE SetRate(s)
  BY <1>8 DEF SetRate
<1>9. CASE MarkReset(s)
  BY <1>9 DEF MarkReset
<1>10. CASE AskReset(s)
  <2>1. CASE attached /\ core = Nobody
    BY <1>10, <2>1 DEF AskReset
  <2>2. CASE ~(attached /\ core = Nobody)
    BY <1>10, <2>2 DEF AskReset
  <2> QED
    BY <2>1, <2>2
<1>11. CASE Relock(s)
  BY <1>11 DEF Relock
<1>12. CASE StartStream(s)
  <2>1. panic' \in BOOLEAN
    BY <1>12 DEF StartStream
  <2>2. pc' \in [Sub -> Label]
    BY <1>12 DEF StartStream, Label
  <2> QED
    BY <1>12, <2>1, <2>2 DEF StartStream, Label
<1>13. CASE RunStream(s)
  BY <1>13 DEF RunStream
<1>14. CASE PrepareDone(s)
  BY <1>14 DEF PrepareDone
<1>15. CASE PrepareFailed(s)
  BY <1>15 DEF PrepareFailed
<1>16. CASE CloseLocked(s)
  BY <1>16 DEF CloseLocked
<1>17. CASE CloseStop(s)
  BY <1>17 DEF CloseStop, StopStream
<1>18. CASE CloseDone(s)
  BY <1>18 DEF CloseDone
<1> QED
  BY <1>1, <1>2, <1>3, <1>4, <1>5, <1>6, <1>7, <1>8, <1>9, <1>10, <1>11,
     <1>12, <1>13, <1>14, <1>15, <1>16, <1>17, <1>18 DEF Begin, Call

LEMMA TypeTransfer ==
  ASSUME TypeOK, NEW u \in Urb, Transfer(u)
  PROVE  TypeOK'
<1> USE DEF TypeOK
<1>1. panic' \in BOOLEAN
  BY DEF Transfer, Complete, HandlerTest, HandlerBody, HandlerSubmit
<1>2. urb' \in [Urb -> {"idle", "flight", "done", "shutdown", "body", "submit"}]
  BY DEF Transfer, Complete, HandlerTest, HandlerBody, HandlerSubmit
<1>3. UNCHANGED others /\ streamState' = streamState
  BY TransferFootprint
<1> QED
  BY <1>1, <1>2, <1>3

LEMMA TypeCore ==
  ASSUME TypeOK, UsbCore \/ Unplug \/ Plug \/ FreeCard
  PROVE  TypeOK'
<1> USE DEF TypeOK
<1>1. CASE Flushed
  BY <1>1 DEF Flushed
<1>2. CASE Abort
  BY <1>2 DEF Abort
<1>3. CASE AbortStop
  BY <1>3 DEF AbortStop, StopStream
<1>4. CASE Poison
  BY <1>4 DEF Poison
<1>5. CASE Disconnected
  BY <1>5 DEF Disconnected
<1>6. CASE ResetDevice
  <2>1. attached' \in BOOLEAN
    BY <1>6 DEF ResetDevice
  <2>2. CASE UNCHANGED <<attached, core, pc>>
    BY <1>6, <2>2 DEF ResetDevice, LeaveCore
  <2>3. CASE LeaveCore
    BY <1>6, <2>1, <2>3 DEF ResetDevice, LeaveCore
  <2> QED
    BY <1>6, <2>2, <2>3 DEF ResetDevice
<1>7. CASE Probe
  <2>1. /\ attached' \in BOOLEAN /\ justresetting' \in BOOLEAN
        /\ pinned' \in BOOLEAN /\ enabled' \in BOOLEAN
    BY <1>7 DEF Probe
  <2>2. CASE UNCHANGED <<attached, core, pc>> /\ corePc' = "control"
    BY <1>7, <2>1, <2>2 DEF Probe
  <2>3. CASE LeaveCore
    BY <1>7, <2>1, <2>3 DEF Probe, LeaveCore
  <2> QED
    BY <1>7, <2>2, <2>3 DEF Probe
<1>8. CASE ProbeControl
  <2>1. clock' \in Rate /\ devicerate' \in Rate
    BY <1>8 DEF ProbeControl
  <2>2. /\ corePc' \in {"rated", "told", "init", "free"}
        /\ card' \in {"up", "disconnected", "freed"}
    BY <1>8 DEF ProbeControl, GiveUp
  <2>3. UNCHANGED <<stream, justresetting, alsarate, pinned, usb, core, pc, rest>>
    BY <1>8 DEF ProbeControl
  <2> QED
    BY <2>1, <2>2, <2>3
<1>9. CASE InitUrbs
  <2>1. /\ poisoned' \in BOOLEAN
        /\ urb' \in [Urb -> {"idle", "flight", "done", "shutdown", "body",
                             "submit"}]
    BY <1>9 DEF InitUrbs
  <2>2. /\ corePc' \in {"submit", "free"} /\ streamMutex' \in Sub \cup {Nobody}
        /\ card' \in {"up", "disconnected", "freed"}
    BY <1>9 DEF InitUrbs, GiveUp
  <2>3. UNCHANGED <<stream, subs, chip, pinned, attached, enabled, core, app>>
    BY <1>9 DEF InitUrbs
  <2> QED
    BY <2>1, <2>2, <2>3
<1>10. CASE SubmitUrbs
  BY <1>10 DEF SubmitUrbs, GiveUp, LeaveCore
<1>11. CASE Unplug
  BY <1>11 DEF Unplug
<1>12. CASE Plug
  BY <1>12 DEF Plug
<1>13. CASE FreeCard
  BY <1>13 DEF FreeCard
<1> QED
  BY <1>1, <1>2, <1>3, <1>4, <1>5, <1>6, <1>7, <1>8, <1>9, <1>10, <1>11,
     <1>12, <1>13 DEF UsbCore

LEMMA TypeNext ==
  ASSUME TypeOK, [Next]_vars
  PROVE  TypeOK'
<1>1. CASE UNCHANGED vars
  BY <1>1 DEF vars, TypeOK
<1> QED
  BY <1>1, TypeCall, TypeTransfer, TypeCore DEF Next

LEMMA MutexNext ==
  ASSUME IInv, [Next]_vars
  PROVE  MutexInv'
<1> USE DEF IInv, MutexInv, Holding
<1>1. ASSUME NEW s \in Sub, Begin(s) PROVE MutexInv'
  BY <1>1 DEF TypeOK, Begin, Open, Prepare, TriggerStart, TriggerStop, Close
<1>2. ASSUME NEW s \in Sub, Call(s) PROVE MutexInv'
  <2> USE DEF TypeOK
  <2>1. CASE OpenLocked(s) \/ PrepareLocked(s) \/ Relock(s) \/ CloseLocked(s)
    BY <2>1 DEF OpenLocked, PrepareLocked, Relock, CloseLocked
  <2>2. CASE SetRate(s) \/ PrepareDone(s) \/ PrepareFailed(s) \/ CloseDone(s)
    BY <2>2 DEF SetRate, PrepareDone, PrepareFailed, CloseDone
  <2>3. CASE MarkReset(s) \/ AskReset(s)
    BY <2>3 DEF MarkReset, AskReset, CoreInv
  <2>4. CASE StartStream(s) \/ RunStream(s) \/ CloseStop(s)
    BY <2>4 DEF StartStream, RunStream, CloseStop, StopStream
  <2> QED
    BY <1>2, <2>1, <2>2, <2>3, <2>4 DEF Call
<1>3. ASSUME NEW u \in Urb, Transfer(u) PROVE MutexInv'
  BY <1>3, TransferFootprint
<1>4. CASE UsbCore \/ Unplug \/ Plug \/ FreeCard
  BY <1>4, CoreFootprint
<1>5. CASE UNCHANGED vars
  BY <1>5 DEF vars
<1> QED
  BY <1>1, <1>2, <1>3, <1>4, <1>5 DEF Next

LEMMA CoreNext ==
  ASSUME IInv, [Next]_vars
  PROVE  CoreInv'
<1> USE DEF IInv, CoreInv, Restoring
<1>1. ASSUME NEW s \in Sub, Begin(s) \/ Call(s), ~AskReset(s) PROVE CoreInv'
  BY <1>1, CallFootprint
<1>2. ASSUME NEW s \in Sub, AskReset(s) PROVE CoreInv'
  BY <1>2 DEF AskReset, TypeOK
<1>3. ASSUME NEW u \in Urb, Transfer(u) PROVE CoreInv'
  BY <1>3, TransferFootprint
<1>4. CASE Flushed \/ Abort \/ AbortStop \/ Poison \/ Disconnected
  BY <1>4 DEF Flushed, Abort, AbortStop, StopStream, Poison, Disconnected,
              TypeOK
<1>5. CASE ResetDevice \/ Probe \/ SubmitUrbs
  BY <1>5 DEF ResetDevice, Probe, SubmitUrbs, LeaveCore, GiveUp, TypeOK
<1>6. CASE ProbeControl \/ InitUrbs
  BY <1>6 DEF ProbeControl, InitUrbs, GiveUp
<1>7. CASE Unplug \/ Plug \/ FreeCard
  BY <1>7 DEF Unplug, Plug, FreeCard
<1>8. CASE UNCHANGED vars
  BY <1>8 DEF vars
<1> QED
  BY <1>1, <1>2, <1>3, <1>4, <1>5, <1>6, <1>7, <1>8 DEF Next, UsbCore

LEMMA QuietNext ==
  ASSUME IInv, [Next]_vars
  PROVE  QuietInv'
<1> USE DEF IInv, CoreInv, QuietInv, Quiet, Restoring
<1>1. ASSUME NEW s \in Sub, Begin(s) \/ Call(s), ~AskReset(s) PROVE QuietInv'
  BY <1>1, CallFootprint
<1>2. ASSUME NEW s \in Sub, AskReset(s) PROVE QuietInv'
  BY <1>2 DEF AskReset
<1>3. ASSUME NEW u \in Urb, Transfer(u) PROVE QuietInv'
  BY <1>3, TransferFootprint
<1>4. CASE Flushed \/ Abort \/ AbortStop \/ Poison
  BY <1>4 DEF Flushed, Abort, AbortStop, StopStream, Poison
<1>5. CASE Disconnected
  BY <1>5 DEF Disconnected
<1>6. CASE ResetDevice \/ Probe \/ ProbeControl
  <2>1. Quiet /\ UNCHANGED urb
    BY <1>6 DEF ResetDevice, Probe, ProbeControl
  <2> QED
    BY <2>1
<1>7. CASE InitUrbs \/ SubmitUrbs
  BY <1>7 DEF InitUrbs, SubmitUrbs, LeaveCore, GiveUp, TypeOK
<1>8. CASE Unplug \/ Plug \/ FreeCard
  BY <1>8 DEF Unplug, Plug, FreeCard
<1>9. CASE UNCHANGED vars
  BY <1>9 DEF vars
<1> QED
  BY <1>1, <1>2, <1>3, <1>4, <1>5, <1>6, <1>7, <1>8, <1>9 DEF Next, UsbCore

LEMMA CardNext ==
  ASSUME IInv, [Next]_vars
  PROVE  CardInv'
<1> USE DEF IInv, CoreInv, QuietInv, CardInv, Quiet, Restoring
<1>1. ASSUME NEW s \in Sub, Begin(s) \/ Call(s), ~AskReset(s) PROVE CardInv'
  BY <1>1, CallFootprint
<1>2. ASSUME NEW s \in Sub, AskReset(s) PROVE CardInv'
  BY <1>2 DEF AskReset, TypeOK
<1>3. ASSUME NEW u \in Urb, Transfer(u) PROVE CardInv'
  BY <1>3, TransferFootprint
<1>4. CASE Flushed \/ Abort \/ AbortStop \/ Poison
  BY <1>4 DEF Flushed, Abort, AbortStop, StopStream, Poison
<1>5. CASE Disconnected
  BY <1>5 DEF Disconnected
<1>6. CASE ResetDevice \/ Probe
  BY <1>6 DEF ResetDevice, Probe, LeaveCore, TypeOK
<1>7. CASE ProbeControl \/ InitUrbs \/ SubmitUrbs
  BY <1>7 DEF ProbeControl, InitUrbs, SubmitUrbs, LeaveCore, GiveUp
<1>8. CASE Unplug \/ Plug \/ FreeCard
  BY <1>8 DEF Unplug, Plug, FreeCard
<1>9. CASE UNCHANGED vars
  BY <1>9 DEF vars
<1> QED
  BY <1>1, <1>2, <1>3, <1>4, <1>5, <1>6, <1>7, <1>8, <1>9 DEF Next, UsbCore

LEMMA IInvNext == IInv /\ [Next]_vars => IInv'
BY TypeNext, MutexNext, CoreNext, QuietNext, CardNext DEF IInv

LEMMA Invariance == Spec => []IInv
BY IInvInit, IInvNext, PTL DEF Spec

-----------------------------------------------------------------------------
(* The variables of the stream, the card and the device keep their types.  *)
THEOREM TypeCorrect == Spec => []TypeOK
BY Invariance, PTL DEF IInv

(* xonedb4_pcm_stream_start runs under stream_mutex also where prepare let *)
(* go of it for the reset, whatever the other callbacks, the handlers and  *)
(* the hub do meanwhile, as long as no probe failed.                       *)
THEOREM StartHolds == Spec => []StartHoldsMutexUntilProbeFails
<1>1. IInv => StartHoldsMutexUntilProbeFails
  BY DEF IInv, MutexInv, Holding, StartHoldsMutexUntilProbeFails,
         StartHoldsMutex
<1> QED
  BY <1>1, Invariance, PTL

(* probe clears the URBs when nothing uses them.                           *)
THEOREM UrbsRemadeIdle == Spec => []UrbsRemadeOnlyIdle
<1>1. IInv => UrbsRemadeOnlyIdle
  BY DEF IInv, QuietInv, Quiet, Restoring, UrbsRemadeOnlyIdle
<1> QED
  BY <1>1, Invariance, PTL

(* No handler uses the memory of a card that ALSA has freed.               *)
THEOREM FreedIsQuiet == Spec => []FreedCardIsQuiet
<1>1. IInv => FreedCardIsQuiet
  BY DEF IInv, CardInv, Quiet, FreedCardIsQuiet
<1> QED
  BY <1>1, Invariance, PTL

-----------------------------------------------------------------------------
(* The rate, with one application.                                         *)

(* From set_rate until the stream runs, the rate that probe will set is    *)
(* the caller's; and once the flag of the reset is down, with the device   *)
(* back or about to be, the device runs at it.  Where the caller has not   *)
(* given up the mutex, probe cannot end; and devicerate is the device's    *)
(* rate but for the time in which probe sets it.                           *)
RateInv ==
  /\ \A s \in Sub :
       /\ pc[s] \in {"reset", "ask", "resetting", "relock", "start", "run"}
            => alsarate = want[s]
       /\ /\ pc[s] \in {"ask", "resetting", "relock", "start", "run"}
          /\ ~justresetting
          /\ \/ attached /\ core = Nobody
             \/ /\ corePc \in {"rated", "told", "init", "submit"}
                /\ pc[s] \notin {"start", "run"}
          => clock = want[s]
  /\ corePc \notin {"rated", "told", "free"} => clock = devicerate

LEMMA RateNext ==
  ASSUME \A s, t \in Sub : s = t, IInv, RateInv, [Next]_vars
  PROVE  RateInv'
<1> USE DEF IInv, TypeOK, CoreInv, RateInv, Restoring
<1>1. ASSUME NEW s \in Sub, Begin(s) PROVE RateInv'
  BY <1>1 DEF Begin, Open, Prepare, TriggerStart, TriggerStop, Close
<1>2. ASSUME NEW s \in Sub, Call(s) PROVE RateInv'
  <2>1. CASE SetRate(s) \/ MarkReset(s)
    BY <2>1 DEF SetRate, MarkReset
  <2>2. CASE AskReset(s)
    BY <2>2 DEF AskReset
  <2>3. CASE Relock(s) \/ StartStream(s) \/ RunStream(s)
    BY <2>3 DEF Relock, StartStream, RunStream
  <2>4. CASE PrepareLocked(s) \/ PrepareDone(s) \/ PrepareFailed(s)
    BY <2>4 DEF PrepareLocked, PrepareDone, PrepareFailed
  <2>5. CASE OpenLocked(s) \/ CloseLocked(s) \/ CloseStop(s) \/ CloseDone(s)
    BY <2>5 DEF OpenLocked, CloseLocked, CloseStop, StopStream, CloseDone
  <2> QED
    BY <1>2, <2>1, <2>2, <2>3, <2>4, <2>5 DEF Call
<1>3. ASSUME NEW u \in Urb, Transfer(u) PROVE RateInv'
  BY <1>3, TransferFootprint
<1>4. CASE Flushed \/ Abort \/ AbortStop \/ Poison \/ Disconnected
  BY <1>4 DEF Flushed, Abort, AbortStop, StopStream, Poison, Disconnected
<1>5. CASE ResetDevice \/ Probe
  BY <1>5 DEF ResetDevice, Probe, LeaveCore
<1>6. CASE ProbeControl \/ InitUrbs \/ SubmitUrbs
  <2>1. CASE ProbeControl
    BY <2>1 DEF ProbeControl, GiveUp
  <2>2. CASE InitUrbs
    BY <2>2 DEF InitUrbs, GiveUp
  <2>3. CASE SubmitUrbs
    BY <2>3 DEF SubmitUrbs, LeaveCore, GiveUp, MutexInv, Holding
  <2> QED
    BY <1>6, <2>1, <2>2, <2>3
<1>7. CASE Unplug \/ Plug \/ FreeCard
  BY <1>7 DEF Unplug, Plug, FreeCard
<1>8. CASE UNCHANGED vars
  BY <1>8 DEF vars
<1> QED
  BY <1>1, <1>2, <1>3, <1>4, <1>5, <1>6, <1>7, <1>8 DEF Next, UsbCore

(* With one application, a prepare starts the stream at the rate it asked  *)
(* for, through a reset that is refused, fails or finds the device gone,   *)
(* unless the flag of such a reset is still up.                            *)
THEOREM StartsAtAskedRate ==
  ASSUME \A s, t \in Sub : s = t
  PROVE  Spec => []StartedAtAskedRate
<1>1. Init => RateInv
  BY DEF Init, RateInv
<1>2. IInv /\ RateInv /\ [Next]_vars => RateInv'
  BY RateNext
<1>3. RateInv => StartedAtAskedRate
  BY DEF RateInv, StartedAtAskedRate
<1> QED
  BY <1>1, <1>2, <1>3, Invariance, PTL DEF Spec
=============================================================================

----------------------------- MODULE LinuxStream -----------------------------
(***************************************************************************)
(* The PCM stream of the Linux driver: the ALSA callbacks of the two       *)
(* substreams, the completion handlers of the PCM transfers (URBs), and    *)
(* the probe and disconnect handlers, which run when the device comes and  *)
(* goes and inside the device reset by which prepare changes the rate.     *)
(*                                                                         *)
(* stream_mutex protects the callbacks from each other only: the handlers  *)
(* and disconnect read and write panic and stream_state without it, and    *)
(* prepare gives it up for the time of the reset.                          *)
(*                                                                         *)
(* The USB core and ALSA are modelled from how the driver uses them: the   *)
(* core fails the transfers of an interface before it calls disconnect, a  *)
(* reset unbinds and binds the interface in the caller's thread and is     *)
(* refused while another is in progress, and ALSA frees a disconnected     *)
(* card when its last file is closed.                                      *)
(***************************************************************************)
CONSTANTS Sub,            \* the substreams in use, of playback and capture
          Urb,            \* the PCM transfers
          SubOf,          \* the substream each transfer serves
          Rate,           \* the sample rates the device has
          Unsupported,    \* any other rate
          Asked,          \* the rates applications ask for
          InitialRate,    \* what the device runs at when the model begins
          Nobody,         \* no owner
          Hub,            \* the thread that sees devices come and go
          MayUnplug,      \* BOOLEAN: the device may be pulled out
          ResetMayFail,   \* BOOLEAN: the device may vanish during a reset
          RebindMayFail   \* BOOLEAN: so may a step of probe after a reset

ASSUME ConstantsAssumption ==
  /\ SubOf \in [Urb -> Sub]
  /\ InitialRate \in Rate /\ Unsupported \notin Rate
  /\ Asked \subseteq Rate \cup {Unsupported}
  /\ Nobody \notin Sub /\ Hub \notin Sub /\ Nobody # Hub
  /\ {MayUnplug, ResetMayFail, RebindMayFail} \subseteq BOOLEAN

VARIABLES
  panic, streamState, streamMutex,    \* struct pcm_runtime
  instance, active,                   \* struct pcm_substream
  justresetting, alsarate, devicerate,\* chip.c's flag, struct xonedb4_chip
  clock,                              \* the rate the device runs at
  card, pinned,                       \* the sound card, and a leaked reference
  attached, enabled, poisoned, urb,   \* the device, its endpoints, the URBs
  core, corePc,                       \* who is in probe or disconnect, where
  pc, want, alsa                      \* each application: call, rate, state

stream == <<panic, streamState>>
subs == <<instance, active>>
rates == <<devicerate, clock>>
chip == <<justresetting, alsarate, rates>>
cards == <<card, pinned>>
usb == <<attached, enabled, poisoned, urb>>
cores == <<core, corePc>>
app == <<pc, want, alsa>>
vars == <<stream, streamMutex, subs, chip, cards, usb, cores, app>>

TypeOK ==
  /\ panic \in BOOLEAN
  /\ streamState \in {"disabled", "running", "stopping"}
  /\ streamMutex \in Sub \cup {Nobody}
  /\ instance \in [Sub -> BOOLEAN]
  /\ active \in [Sub -> BOOLEAN]
  /\ justresetting \in BOOLEAN
  /\ alsarate \in Rate
  /\ devicerate \in Rate /\ clock \in Rate
  /\ card \in {"up", "disconnected", "freed"}
  /\ pinned \in BOOLEAN
  /\ attached \in BOOLEAN /\ enabled \in BOOLEAN /\ poisoned \in BOOLEAN
  /\ urb \in [Urb -> {"idle", "flight", "done", "shutdown", "body", "submit"}]
  /\ core \in Sub \cup {Hub, Nobody}
  /\ corePc \in {"idle", "flush", "abort", "stop", "stopped", "poison",
                 "settle", "reset", "probe", "control", "rated", "told",
                 "init", "submit", "free"}
  /\ pc \in [Sub -> {"closed", "opening", "open", "prepare", "rate", "reset",
                     "ask", "resetting", "relock", "start", "run", "unlock",
                     "fail", "closing", "stop", "stopped", "leave"}]
  /\ want \in [Sub -> Rate \cup {Unsupported}]
  /\ alsa \in [Sub -> {"setup", "prepared", "running"}]

(* The card is registered, the transfers run, and nobody has opened it.    *)
Init ==
  /\ panic = FALSE /\ streamState = "disabled" /\ streamMutex = Nobody
  /\ instance = [s \in Sub |-> FALSE] /\ active = [s \in Sub |-> FALSE]
  /\ justresetting = FALSE /\ alsarate = InitialRate
  /\ devicerate = InitialRate /\ clock = InitialRate
  /\ card = "up" /\ pinned = FALSE
  /\ attached = TRUE /\ enabled = TRUE /\ poisoned = FALSE
  /\ urb = [u \in Urb |-> "flight"]
  /\ core = Nobody /\ corePc = "idle"
  /\ pc = [s \in Sub |-> "closed"]
  /\ want = [s \in Sub |-> InitialRate]
  /\ alsa = [s \in Sub |-> "setup"]

Goto(s, label) == pc' = [pc EXCEPT ![s] = label]
AlsaState(s, state) == alsa' = [alsa EXCEPT ![s] = state]
Forget(s) == want' = [want EXCEPT ![s] = InitialRate]  \* a local of prepare

Lock(s) == streamMutex = Nobody /\ streamMutex' = s
Unlock == streamMutex' = Nobody

-----------------------------------------------------------------------------
(* The ALSA callbacks.  A call that panic refuses changes nothing and is   *)
(* not a step, except where it returns success.                            *)

Open(s) ==
  /\ pc[s] = "closed" /\ card = "up" /\ ~panic
  /\ Goto(s, "opening")
  /\ UNCHANGED <<stream, streamMutex, subs, chip, cards, usb, cores, want, alsa>>

OpenLocked(s) ==
  /\ pc[s] = "opening" /\ streamMutex = Nobody
  /\ instance' = [instance EXCEPT ![s] = TRUE]
  /\ active' = [active EXCEPT ![s] = FALSE]
  /\ Goto(s, "open") /\ AlsaState(s, "setup")
  /\ UNCHANGED <<stream, streamMutex, chip, cards, usb, cores, want>>

Prepare(s) ==
  /\ pc[s] = "open" /\ card = "up" /\ alsa[s] # "running" /\ ~panic
  /\ \E r \in Asked : want' = [want EXCEPT ![s] = r]
  /\ Goto(s, "prepare")
  /\ UNCHANGED <<stream, streamMutex, subs, chip, cards, usb, cores, alsa>>

\* The rate of a stream that runs already is left as it is.
PrepareLocked(s) ==
  /\ pc[s] = "prepare" /\ Lock(s)
  /\ Goto(s, IF streamState = "disabled" THEN "rate" ELSE "unlock")
  /\ UNCHANGED <<stream, subs, chip, cards, usb, cores, want, alsa>>

MutNeverReset(s) ==
  /\ pc[s] = "rate"
  /\ \/ want[s] = Unsupported /\ Goto(s, "fail") /\ UNCHANGED alsarate
     \/ want[s] \in Rate /\ alsarate' = want[s] /\ Goto(s, "start")
  /\ UNCHANGED <<stream, streamMutex, subs, justresetting, rates, cards, usb,
                 cores, want, alsa>>

\* xonedb4_pcm_set_rate up to the reset, for which it gives up the mutex.
SetRate(s) ==
  /\ pc[s] = "rate"
  /\ \/ /\ want[s] = Unsupported
        /\ Goto(s, "fail")
        /\ UNCHANGED <<streamMutex, alsarate>>
     \/ /\ want[s] \in Rate
        /\ alsarate' = want[s]
        /\ IF want[s] = devicerate THEN Goto(s, "start") /\ UNCHANGED streamMutex
                                   ELSE Goto(s, "reset") /\ Unlock
  /\ UNCHANGED <<stream, subs, justresetting, rates, cards, usb, cores, want,
                 alsa>>

\* xonedb4_reset: the flag first, then usb_reset_device, which is refused
\* without a device or while somebody else is in probe or disconnect.
MarkReset(s) ==
  /\ pc[s] = "reset"
  /\ justresetting' = TRUE
  /\ Goto(s, "ask")
  /\ UNCHANGED <<stream, streamMutex, subs, alsarate, rates, cards, usb,
                 cores, want, alsa>>

AskReset(s) ==
  /\ pc[s] = "ask"
  /\ IF attached /\ core = Nobody
       THEN /\ core' = s /\ corePc' = "flush" /\ enabled' = FALSE
            /\ Goto(s, "resetting")
       ELSE UNCHANGED <<cores, enabled>> /\ Goto(s, "relock")
  /\ UNCHANGED <<stream, streamMutex, subs, chip, cards, attached, poisoned,
                 urb, want, alsa>>

MutNoRelock(s) ==
  /\ pc[s] = "relock"
  /\ Goto(s, "start")
  /\ UNCHANGED <<stream, streamMutex, subs, chip, cards, usb, cores, want, alsa>>

\* Whether the reset succeeded is not looked at.
Relock(s) ==
  /\ pc[s] = "relock" /\ Lock(s)
  /\ Goto(s, "start")
  /\ UNCHANGED <<stream, subs, chip, cards, usb, cores, want, alsa>>

\* xonedb4_pcm_stream_start in two steps, each with one store that the
\* handlers and disconnect can see.
StartStream(s) ==
  /\ pc[s] = "start"
  /\ IF streamState = "disabled" THEN panic' = FALSE /\ Goto(s, "run")
                                 ELSE UNCHANGED panic /\ Goto(s, "unlock")
  /\ UNCHANGED <<streamState, streamMutex, subs, chip, cards, usb, cores, want,
                 alsa>>

RunStream(s) ==
  /\ pc[s] = "run"
  /\ streamState' = "running"
  /\ Goto(s, "unlock")
  /\ UNCHANGED <<panic, streamMutex, subs, chip, cards, usb, cores, want, alsa>>

PrepareDone(s) ==
  /\ pc[s] = "unlock"
  /\ Unlock /\ Goto(s, "open") /\ AlsaState(s, "prepared") /\ Forget(s)
  /\ UNCHANGED <<stream, subs, chip, cards, usb, cores>>

PrepareFailed(s) ==
  /\ pc[s] = "fail"
  /\ Unlock /\ Goto(s, "open") /\ AlsaState(s, "setup") /\ Forget(s)
  /\ UNCHANGED <<stream, subs, chip, cards, usb, cores>>

TriggerStart(s) ==
  /\ pc[s] = "open" /\ card = "up" /\ alsa[s] = "prepared" /\ ~panic
  /\ active' = [active EXCEPT ![s] = TRUE]
  /\ AlsaState(s, "running")
  /\ UNCHANGED <<stream, streamMutex, instance, chip, cards, usb, cores, pc, want>>

\* ALSA counts the substream as stopped also when panic refuses the call.
TriggerStop(s) ==
  /\ pc[s] = "open" /\ alsa[s] = "running"
  /\ active' = [active EXCEPT ![s] = panic /\ active[s]]
  /\ AlsaState(s, "setup")
  /\ UNCHANGED <<stream, streamMutex, instance, chip, cards, usb, cores, pc, want>>

\* Under panic close returns at once and leaves the substream as it is.
Close(s) ==
  /\ pc[s] = "open" /\ alsa[s] # "running"
  /\ Goto(s, IF panic THEN "closed" ELSE "closing")
  /\ AlsaState(s, "setup")
  /\ UNCHANGED <<stream, streamMutex, subs, chip, cards, usb, cores, want>>

CloseLocked(s) ==
  /\ pc[s] = "closing" /\ Lock(s)
  /\ instance' = [instance EXCEPT ![s] = FALSE]
  /\ active' = [active EXCEPT ![s] = FALSE]
  /\ Goto(s, IF \E t \in Sub \ {s} : instance[t] THEN "leave" ELSE "stop")
  /\ UNCHANGED <<stream, chip, cards, usb, cores, want, alsa>>

\* xonedb4_pcm_stream_stop: two plain stores in a row, of which the build
\* may drop the first.
StopStream(more, last) ==
  \/ streamState = "disabled" /\ UNCHANGED streamState /\ last
  \/ streamState # "disabled" /\ streamState' = "stopping" /\ more
  \/ streamState # "disabled" /\ streamState' = "disabled" /\ last

CloseStop(s) ==
  /\ \/ pc[s] = "stop" /\ StopStream(Goto(s, "stopped"), Goto(s, "leave"))
     \/ pc[s] = "stopped" /\ streamState' = "disabled" /\ Goto(s, "leave")
  /\ UNCHANGED <<panic, streamMutex, subs, chip, cards, usb, cores, want, alsa>>

MutCloseKeepsMutex(s) ==
  /\ pc[s] = "leave"
  /\ Goto(s, "closed")
  /\ UNCHANGED <<stream, streamMutex, subs, chip, cards, usb, cores, want, alsa>>

CloseDone(s) ==
  /\ pc[s] = "leave"
  /\ Unlock /\ Goto(s, "closed")
  /\ UNCHANGED <<stream, subs, chip, cards, usb, cores, want, alsa>>

-----------------------------------------------------------------------------
(* The transfers.  With the endpoints enabled a transfer is completed and  *)
(* resubmitted; with the endpoints disabled it is failed, and submitting   *)
(* fails.                                                                  *)

Fate(u, state) == urb' = [urb EXCEPT ![u] = state]
others == <<streamMutex, subs, chip, cards, attached, enabled, poisoned, cores,
            app>>

Complete(u) ==
  /\ urb[u] = "flight"
  /\ Fate(u, IF enabled THEN "done" ELSE "shutdown")
  /\ UNCHANGED <<stream, others>>

\* A handler that sees panic, or a stream being stopped, drops its transfer.
HandlerTest(u) ==
  /\ urb[u] \in {"done", "shutdown"}
  /\ \/ /\ panic \/ streamState = "stopping"
        /\ Fate(u, "idle")
        /\ UNCHANGED panic
     \/ /\ ~panic /\ streamState # "stopping"
        /\ Fate(u, IF urb[u] = "done" THEN "body" ELSE "idle")
        /\ panic' = (urb[u] = "shutdown")
  /\ UNCHANGED <<streamState, others>>

\* The samples, under the lock of the substream, if it is active.
HandlerBody(u) ==
  /\ urb[u] = "body"
  /\ Fate(u, "submit")
  /\ UNCHANGED <<stream, others>>

HandlerSubmit(u) ==
  /\ urb[u] = "submit"
  /\ IF enabled /\ ~poisoned
       THEN Fate(u, "flight") /\ UNCHANGED panic
       ELSE Fate(u, "idle") /\ panic' = TRUE
  /\ UNCHANGED <<streamState, others>>

-----------------------------------------------------------------------------
(* disconnect: the core has failed all transfers, then the driver's        *)
(* handler aborts the stream and, unless a reset is under way, disconnects *)
(* the card.                                                               *)

At(label) == corePc = label /\ core # Nobody
rest == <<streamMutex, subs, want, alsa>>

Flushed ==
  /\ At("flush") /\ \A u \in Urb : urb[u] # "flight"
  /\ corePc' = "abort"
  /\ UNCHANGED <<stream, chip, cards, usb, core, pc, rest>>

Abort ==
  /\ At("abort")
  /\ panic' = TRUE
  /\ corePc' = "stop"
  /\ UNCHANGED <<streamState, chip, cards, usb, core, pc, rest>>

AbortStop ==
  /\ \/ At("stop") /\ StopStream(corePc' = "stopped", corePc' = "poison")
     \/ At("stopped") /\ streamState' = "disabled" /\ corePc' = "poison"
  /\ UNCHANGED <<panic, chip, cards, usb, core, pc, rest>>

Poison ==
  /\ At("poison")
  /\ poisoned' = TRUE
  /\ corePc' = "settle"
  /\ UNCHANGED <<stream, chip, cards, attached, enabled, urb, core, pc, rest>>

MutNoWait ==
  /\ At("settle")
  /\ IF justresetting THEN UNCHANGED card ELSE card' = "disconnected"
  /\ IF core = Hub THEN core' = Nobody /\ corePc' = "idle"
                   ELSE UNCHANGED core /\ corePc' = "reset"
  /\ UNCHANGED <<stream, chip, pinned, usb, pc, rest>>

\* Poisoning waits for the handlers; the card goes unless a reset is meant.
Disconnected ==
  /\ At("settle") /\ \A u \in Urb : urb[u] = "idle"
  /\ IF justresetting THEN UNCHANGED card ELSE card' = "disconnected"
  /\ IF core = Hub THEN core' = Nobody /\ corePc' = "idle"
                   ELSE UNCHANGED core /\ corePc' = "reset"
  /\ UNCHANGED <<stream, chip, pinned, usb, pc, rest>>

\* usb_reset_device after the interface is unbound.  A device that fails to
\* come back is not bound again.
LeaveCore ==
  /\ core' = Nobody /\ corePc' = "idle"
  /\ pc' = [s \in Sub |-> IF s = core THEN "relock" ELSE pc[s]]

ResetDevice ==
  /\ At("reset")
  /\ \/ corePc' = "probe" /\ UNCHANGED <<attached, core, pc>>
     \/ ResetMayFail /\ attached' = FALSE /\ LeaveCore
  /\ UNCHANGED <<stream, chip, cards, enabled, poisoned, urb, rest>>

(* probe.  Only the branch for a device that was being reset concerns this *)
(* card: otherwise probe makes another one.  Where an alternate setting    *)
(* cannot be chosen, probe leaves before it looks at the flag.             *)

Probe ==
  /\ At("probe")
  /\ \/ /\ justresetting
        /\ justresetting' = FALSE /\ pinned' = TRUE /\ enabled' = TRUE
        /\ corePc' = "control"
        /\ UNCHANGED <<attached, core, pc>>
     \/ /\ ~justresetting \/ RebindMayFail
        /\ attached' = FALSE /\ LeaveCore
        /\ UNCHANGED <<justresetting, pinned, enabled>>
  /\ UNCHANGED <<stream, alsarate, rates, card, poisoned, urb, rest>>

\* snd_card_free waits for files that stay open and a reference nobody drops,
\* so probe never comes back from a failure.
GiveUp == RebindMayFail /\ card' = "disconnected" /\ corePc' = "free"

\* The control requests.  set_samplerate sends the rate it finds in alsarate
\* and reads that again for devicerate when its five requests are answered;
\* get_samplerate then has devicerate from the device.
ProbeControl ==
  /\ \/ /\ At("control")
        /\ \/ clock' = alsarate /\ corePc' = "rated" /\ UNCHANGED card
           \/ GiveUp /\ clock' \in {clock, alsarate}
        /\ UNCHANGED devicerate
     \/ /\ At("rated")
        /\ \/ devicerate' = alsarate /\ corePc' = "told" /\ UNCHANGED card
           \/ GiveUp /\ UNCHANGED devicerate
        /\ UNCHANGED clock
     \/ /\ At("told")
        /\ \/ devicerate' = clock /\ corePc' = "init" /\ UNCHANGED card
           \/ GiveUp /\ UNCHANGED devicerate
        /\ UNCHANGED clock
  /\ UNCHANGED <<stream, justresetting, alsarate, pinned, usb, core, pc, rest>>

\* The first half of xonedb4_pcm_init_urbs makes the URBs anew, without the
\* mutex; its error path releases the mutex, whoever holds it.
InitUrbs ==
  /\ At("init")
  /\ \/ poisoned' = FALSE /\ urb' = [u \in Urb |-> "idle"]
        /\ corePc' = "submit" /\ UNCHANGED <<card, streamMutex>>
     \/ GiveUp /\ Unlock /\ UNCHANGED <<poisoned, urb>>
  /\ UNCHANGED <<stream, chip, pinned, attached, enabled, core, pc, subs, want,
                 alsa>>

\* The second half submits them under the mutex, all or none.
SubmitUrbs ==
  /\ At("submit") /\ streamMutex = Nobody
  /\ \/ urb' = [u \in Urb |-> "flight"] /\ LeaveCore
        /\ UNCHANGED <<streamState, card>>
     \/ GiveUp /\ streamState' = "disabled" /\ UNCHANGED <<urb, core, pc>>
  /\ UNCHANGED <<panic, chip, pinned, attached, enabled, poisoned, rest>>

\* The hub's thread.  A device that comes back finds its card only if the
\* flag of an earlier reset is still set.
Unplug ==
  /\ MayUnplug /\ attached /\ core = Nobody
  /\ attached' = FALSE /\ enabled' = FALSE
  /\ core' = Hub /\ corePc' = "flush"
  /\ UNCHANGED <<stream, chip, cards, poisoned, urb, pc, rest>>

Plug ==
  /\ ~attached /\ core = Nobody /\ justresetting /\ card = "up"
  /\ attached' = TRUE
  /\ core' = Hub /\ corePc' = "probe"
  /\ UNCHANGED <<stream, chip, cards, enabled, poisoned, urb, pc, rest>>

\* snd_card_free_when_closed
FreeCard ==
  /\ card = "disconnected" /\ ~pinned /\ \A s \in Sub : pc[s] = "closed"
  /\ card' = "freed"
  /\ UNCHANGED <<stream, chip, pinned, usb, cores, pc, rest>>

-----------------------------------------------------------------------------
Call(s) ==
  \/ OpenLocked(s) \/ PrepareLocked(s) \/ SetRate(s) \/ MarkReset(s)
  \/ AskReset(s) \/ Relock(s) \/ StartStream(s) \/ RunStream(s)
  \/ PrepareDone(s) \/ PrepareFailed(s) \/ CloseLocked(s) \/ CloseStop(s)
  \/ CloseDone(s)

Begin(s) == Open(s) \/ Prepare(s) \/ TriggerStart(s) \/ TriggerStop(s) \/ Close(s)

Transfer(u) == Complete(u) \/ HandlerTest(u) \/ HandlerBody(u) \/ HandlerSubmit(u)

UsbCore ==
  \/ Flushed \/ Abort \/ AbortStop \/ Poison \/ Disconnected \/ ResetDevice
  \/ Probe \/ ProbeControl \/ InitUrbs \/ SubmitUrbs

Next == \/ \E s \in Sub : Begin(s) \/ Call(s)
        \/ \E u \in Urb : Transfer(u)
        \/ UsbCore \/ Unplug \/ Plug \/ FreeCard

Spec == Init /\ [][Next]_vars

(* The kernel schedules a thread that can run, a mutex is given to those   *)
(* who wait for it in turn, and the controller completes every transfer.   *)
Fairness ==
  /\ \A s \in Sub : SF_vars(Call(s))
  /\ \A u \in Urb : WF_vars(Transfer(u))
  /\ SF_vars(UsbCore)

FairSpec == Spec /\ Fairness

-----------------------------------------------------------------------------
(* probe makes the URBs anew (usb_init_urb clears them) only after the     *)
(* last completion handler of the old ones has returned.                   *)
UrbsRemadeOnlyIdle == corePc = "init" => \A u \in Urb : urb[u] = "idle"

(* No transfer is in flight, and no handler runs, once ALSA has freed the  *)
(* card, and with it the struct xonedb4_chip every handler starts from.    *)
FreedCardIsQuiet == card = "freed" => \A u \in Urb : urb[u] = "idle"

(* pcm.c:158, "call with stream_mutex locked": whoever is starting the     *)
(* stream holds the mutex, although prepare let go of it in between.       *)
StartHoldsMutex == \A s \in Sub : pc[s] \in {"start", "run"} => streamMutex = s

(* The same as long as no probe has failed after a reset: the error path   *)
(* there unlocks a mutex it does not hold.                                 *)
StartHoldsMutexUntilProbeFails == corePc # "free" => StartHoldsMutex

(* A prepare that starts the stream of a device in place has the device at *)
(* the rate its caller asked for, whatever failed before and although      *)
(* probe makes devicerate differ from the device's rate for a while,       *)
(* unless the reset it asked for was refused and is still outstanding.     *)
(* With one application: a second one that prepares at another rate        *)
(* meanwhile decides for both.                                             *)
StartedAtAskedRate ==
  \A s \in Sub :
    pc[s] = "run" /\ attached /\ core = Nobody /\ ~justresetting
      => clock = want[s]

(* pcm.c:177, "Resetting device for samplerate change": a stream that runs *)
(* on a device in place runs at the rate that was asked for last, unless   *)
(* the reset is outstanding.                                               *)
RunsAtAskedRate ==
  streamState = "running" /\ attached /\ core = Nobody /\ ~justresetting
    => clock = alsarate

(* Every open, prepare and close returns: no path through the callbacks    *)
(* keeps stream_mutex, and the handlers and the mutex together never make  *)
(* disconnect or probe wait for the caller they run in.  The exception is  *)
(* a probe that fails after a reset: it waits for the files of the card.   *)
EveryCallReturns ==
  \A s \in Sub : pc[s] \notin {"closed", "open"}
                    ~> pc[s] \in {"closed", "open"} \/ corePc = "free"

(* pcm.c:62, "if set driver won't do anymore pcm on device": no transfer   *)
(* is submitted while panic is set.                                        *)
PanicMeansNoPcm ==
  [][\A u \in Urb : urb[u] # "flight" /\ urb'[u] = "flight" => ~panic]_vars

(* pcm.c:623, "deactivate substream": a handler finds a substream active   *)
(* only while its application has it open.                                 *)
HandlersUseOpenSubstreams ==
  \A u \in Urb : urb[u] = "body" /\ active[SubOf[u]] => pc[SubOf[u]] # "closed"

(* pcm.c:629, "all substreams closed? if so, stop streaming": the stream   *)
(* does not run while every substream is closed and no disconnect is about *)
(* to stop it.                                                             *)
AllClosedMeansStopped ==
  core = Nobody /\ (\A s \in Sub : pc[s] = "closed") => streamState = "disabled"

(* chip.c:379, "Make sure that the userspace cannot create new request":   *)
(* after disconnect has run for a device that is gone, the card takes no   *)
(* calls.                                                                  *)
DisconnectedTakesNoCalls ==
  ~attached /\ core = Nobody => card # "up"
=============================================================================

------------------------------ MODULE LinuxProbe ------------------------------
(***************************************************************************)
(* How the Linux driver makes a card for a device, takes it up again after *)
(* a reset and gives it up: xonedb4_probe and xonedb4_disconnect with all  *)
(* they call (the PCM and MIDI runtimes and their transfers) and every     *)
(* step of them that may fail.  justresetting, cardindex and               *)
(* register_mutex are globals, shared by the probes of all devices, which  *)
(* run in the threads of their hubs or, after a reset, in that of the      *)
(* application that called prepare.                                        *)
(*                                                                         *)
(* LinuxStream has the stream of a card that exists; here a PCM transfer   *)
(* is in flight or not.  MIDI input is complete: its handler, the lock it  *)
(* shares with the trigger callback, and the abort.  The USB core flushes  *)
(* the transfers of an interface before disconnect, and ALSA numbers cards *)
(* and frees a disconnected one with its last file, as in LinuxStream.     *)
(*                                                                         *)
(* Where the program would read memory that is gone, the behaviour ends    *)
(* with the reason in `broken'.                                            *)
(***************************************************************************)
EXTENDS Integers, FiniteSets

CONSTANTS Device,   \* USB devices
          Card,     \* struct snd_card objects, 1 .. the most that are made
          PcmUrb, MidiUrb,
          Nobody

ASSUME CardAssumption ==
  Cardinality(Card) \in Nat /\ Card = 1 .. Cardinality(Card) /\ Nobody \notin Card
ASSUME UrbAssumption == PcmUrb \cap MidiUrb = {}

VARIABLES
  justresetting, cardindex, registerMutex,  \* the globals of chip.c
  enable,                  \* the module parameter: some slot is enabled
  pc, chip, attached,      \* each device: its probe, the card in hand
  intfdata,                \* the card its interface points to
  card, number, chipDev,   \* each card: state, ALSA's number, chip->dev
  pinned,                  \* cards with a reference nobody drops
  pcmRt, midiRt,           \* chip->pcm and chip->midi
  failed,                  \* history: where probes of the card have failed
  urb,                     \* its transfers
  input, inLock,           \* rt->in and in_lock
  app,                     \* a prepare that resets the device
  broken

globals == <<justresetting, cardindex, registerMutex, enable>>
devices == <<pc, chip, attached, intfdata>>
cards == <<card, number, chipDev, pinned>>
runtimes == <<pcmRt, midiRt, failed>>
midi == <<input, inLock>>
vars == <<globals, devices, cards, runtimes, urb, midi, app, broken>>

Urb == PcmUrb \cup MidiUrb
Probing == {"setup", "enabled", "new", "firmware", "control", "pcm", "pcmUrbs",
            "midi", "midiUrbs", "register", "killPcm", "killMidi"}
Labels == Probing \cup {"idle", "bound", "unbound", "flush", "reset", "free"}
Failures == {"control", "pcm", "midi", "register"}

TypeOK ==
  /\ justresetting \in BOOLEAN /\ enable \in BOOLEAN
  /\ cardindex \in 0 .. Cardinality(Card)
  /\ registerMutex \in Device \cup {Nobody}
  /\ pc \in [Device -> Labels]
  /\ attached \in [Device -> BOOLEAN]
  /\ chip \in [Device -> Card \cup {Nobody}]
  /\ intfdata \in [Device -> Card \cup {Nobody}]
  /\ card \in [Card -> {"unused", "new", "up", "disconnected", "freed"}]
  /\ number \in [Card -> 0 .. Cardinality(Card)]
  /\ chipDev \in [Card -> Device \cup {Nobody}]
  /\ pinned \subseteq Card
  /\ pcmRt \in [Card -> {"none", "live", "freed"}]
  /\ midiRt \in [Card -> {"none", "live", "freed"}]
  /\ failed \in [Card -> SUBSET Failures]
  /\ urb \in [Card -> [Urb -> {"idle", "flight", "receive", "submit"}]]
  /\ input \in [Card -> {"closed", "open", "up"}]
  /\ inLock \in [Card -> MidiUrb \cup {Nobody}]
  /\ app \in [Card -> {"none", "open", "ask", "resetting"}]
  /\ broken \in {"no", "null", "remade", "used", "twice"}

\* The module is loaded, no device is in place.
Init ==
  /\ justresetting = FALSE /\ cardindex = 0 /\ registerMutex = Nobody
  /\ enable \in BOOLEAN
  /\ pc = [d \in Device |-> "idle"] /\ attached = [d \in Device |-> FALSE]
  /\ chip = [d \in Device |-> Nobody] /\ intfdata = chip
  /\ card = [c \in Card |-> "unused"] /\ number = [c \in Card |-> 0]
  /\ chipDev = [c \in Card |-> Nobody] /\ pinned = {}
  /\ pcmRt = [c \in Card |-> "none"] /\ midiRt = pcmRt
  /\ failed = [c \in Card |-> {}]
  /\ urb = [c \in Card |-> [u \in Urb |-> "idle"]]
  /\ input = [c \in Card |-> "closed"] /\ inLock = [c \in Card |-> Nobody]
  /\ app = [c \in Card |-> "none"]
  /\ broken = "no"

Set(f, x, value) == [f EXCEPT ![x] = value]
Goto(d, label) == pc' = Set(pc, d, label)
Fate(c, u, state) == urb' = [urb EXCEPT ![c][u] = state]
InFlight(c) == {u \in Urb : urb[c][u] # "idle"}

\* The probe of a card that is not registered yet; the other takes one up.
First(c) == card[c] = "new"

\* The thread that ran a reset goes on when the probe it caused is over.
Return(d, label) ==
  /\ Goto(d, label)
  /\ app' = [c \in Card |-> IF app[c] = "resetting" /\ chip[d] = c
                              THEN "open" ELSE app[c]]

-----------------------------------------------------------------------------
(* xonedb4_probe.  A device comes (interface 1 is accepted and ignored).   *)

Plug(d) ==
  /\ pc[d] = "idle" /\ ~attached[d]
  /\ attached' = Set(attached, d, TRUE)
  /\ Goto(d, "setup")
  /\ chip' = Set(chip, d, Nobody)
  /\ UNCHANGED <<globals, intfdata, cards, runtimes, urb, midi, app, broken>>

SetInterfaceFails(d) ==
  /\ pc[d] = "setup"
  /\ Return(d, "unbound")
  /\ UNCHANGED <<globals, chip, attached, intfdata, cards, runtimes, urb, midi,
                 broken>>

\* snd_card_ref: the registered card whose number is in cardindex.
Referenced == {c \in Card : card[c] = "up" /\ number[c] = cardindex}

TakeUpCard(d) ==
  /\ pc[d] = "setup" /\ attached[d] /\ justresetting
  /\ UNCHANGED <<cardindex, registerMutex, enable, attached, intfdata, card,
                 number, runtimes, urb, midi, app>>
  /\ \/ /\ Referenced = {} /\ broken' = "null"
        /\ UNCHANGED <<justresetting, chip, chipDev, pinned, pc>>
     \/ \E c \in Referenced :
          /\ chip' = Set(chip, d, c) /\ chipDev' = Set(chipDev, c, d)
          /\ pinned' = pinned \cup {c}
          /\ justresetting' = FALSE
          /\ Goto(d, "control")
          /\ UNCHANGED broken

LockRegister(d) ==
  /\ pc[d] = "setup" /\ attached[d] /\ ~justresetting
  /\ registerMutex = Nobody /\ registerMutex' = d
  /\ Goto(d, "enabled")
  /\ UNCHANGED <<justresetting, cardindex, enable, chip, attached, intfdata,
                 cards, runtimes, urb, midi, app, broken>>

MutKeepMutex(d) ==
  /\ pc[d] = "enabled"
  /\ Return(d, IF enable THEN "new" ELSE "unbound")
  /\ registerMutex' = IF enable THEN Nobody ELSE d
  /\ UNCHANGED <<justresetting, cardindex, enable, chip, attached, intfdata,
                 cards, runtimes, urb, midi, broken>>

LookForSlot(d) ==
  /\ pc[d] = "enabled"
  /\ Return(d, IF enable THEN "new" ELSE "unbound")
  /\ registerMutex' = Nobody
  /\ UNCHANGED <<justresetting, cardindex, enable, chip, attached, intfdata,
                 cards, runtimes, urb, midi, broken>>

\* snd_card_new takes the lowest number no registered or new card has.
Unused == {c \in Card : card[c] = "unused"}
Taken == {number[c] : c \in {x \in Card : card[x] \in {"new", "up"}}}
Lowest(n, S) == n \in S /\ \A m \in S : n <= m

NewCard(d) ==
  /\ pc[d] = "new"
  /\ UNCHANGED <<justresetting, registerMutex, enable, attached, intfdata, pinned,
                 runtimes, urb, midi, broken>>
  /\ \/ /\ Return(d, "unbound")
        /\ UNCHANGED <<cardindex, chip, card, number, chipDev>>
     \/ /\ \E c \in Unused, n \in 0 .. Cardinality(Card) :
             /\ Lowest(c, Unused) /\ Lowest(n, (0 .. Cardinality(Card)) \ Taken)
             /\ card' = Set(card, c, "new") /\ number' = Set(number, c, n)
             /\ cardindex' = n
             /\ chip' = Set(chip, d, c) /\ chipDev' = Set(chipDev, c, d)
        /\ Goto(d, "firmware")
        /\ UNCHANGED app

\* The error path that frees nothing and unlocks what it does not hold.
Firmware(d) ==
  /\ pc[d] = "firmware"
  /\ UNCHANGED <<justresetting, cardindex, enable, chip, attached, intfdata,
                 cards, runtimes, urb, midi, broken>>
  /\ \/ /\ attached[d] /\ Goto(d, "control")
        /\ UNCHANGED <<registerMutex, app>>
     \/ /\ Return(d, "unbound") /\ registerMutex' = Nobody

\* err_chip_destroy: snd_card_free waits for the references to the card.
Fail(d, where) ==
  /\ Goto(d, "free")
  /\ failed' = Set(failed, chip[d], failed[chip[d]] \cup {where})

FreeInProbe(d) ==
  LET c == chip[d] IN
  /\ pc[d] = "free"
  /\ UNCHANGED <<justresetting, cardindex, enable, chip, attached, intfdata,
                 number, chipDev, pinned, runtimes, urb, midi, broken>>
  /\ \/ /\ card[c] = "up" /\ card' = Set(card, c, "disconnected")
        /\ UNCHANGED <<pc, app, registerMutex>>
     \/ /\ card[c] \in {"new", "disconnected"}
        /\ c \notin pinned /\ input[c] = "closed" /\ app[c] = "none"
        /\ card' = Set(card, c, "freed")
        /\ registerMutex' = Nobody
        /\ Return(d, "unbound")

\* get_status, get, set and get_samplerate, get_status, send_allgood
Control(d) ==
  /\ pc[d] = "control"
  /\ UNCHANGED <<globals, chip, attached, intfdata, cards, pcmRt, midiRt, urb,
                 midi, app, broken>>
  /\ \/ /\ attached[d]
        /\ Goto(d, IF First(chip[d]) THEN "pcm" ELSE "midiUrbs")
        /\ UNCHANGED failed
     \/ Fail(d, "control")

-----------------------------------------------------------------------------
(* xonedb4_pcm_init, xonedb4_midi_init and their transfers.  In a first    *)
(* probe PCM comes first and then MIDI; a probe after a reset makes the    *)
(* transfers of the old runtimes again, those of MIDI first.               *)

\* kzalloc, snd_pcm_new: on failure the new runtime is freed.
PcmInit(d) ==
  LET c == chip[d] IN
  /\ pc[d] = "pcm"
  /\ UNCHANGED <<globals, chip, attached, intfdata, cards, midiRt, urb, midi,
                 app, broken>>
  /\ \/ pcmRt' = Set(pcmRt, c, "live") /\ Goto(d, "pcmUrbs") /\ UNCHANGED failed
     \/ Fail(d, "pcm") /\ UNCHANGED pcmRt

\* chip->midi is assigned after snd_rawmidi_new.
MidiInit(d) ==
  LET c == chip[d] IN
  /\ pc[d] = "midi"
  /\ UNCHANGED <<globals, chip, attached, intfdata, cards, pcmRt, urb, midi,
                 app, broken>>
  /\ \/ midiRt' = Set(midiRt, c, "live") /\ Goto(d, "midiUrbs") /\ UNCHANGED failed
     \/ Fail(d, "midi") /\ UNCHANGED midiRt

\* usb_init_urb of transfers that are still with the USB core, and any use
\* of a runtime that is gone, end the behaviour.
Submitting(d) == IF pc[d] = "pcmUrbs" THEN PcmUrb ELSE MidiUrb
Runtime(d) == IF pc[d] = "pcmUrbs" THEN pcmRt[chip[d]] ELSE midiRt[chip[d]]
Misused(d) ==
  CASE Runtime(d) # "live"                            -> "used"
    [] InFlight(chip[d]) \cap Submitting(d) # {}      -> "remade"
    [] OTHER                                          -> "no"

\* What a probe does next when all transfers of a kind are submitted.
AfterUrbs(d) ==
  CASE First(chip[d]) /\ pc[d] = "pcmUrbs"  -> "midi"
    [] First(chip[d]) /\ pc[d] = "midiUrbs" -> "register"
    [] ~First(chip[d]) /\ pc[d] = "midiUrbs" -> "pcmUrbs"
    [] OTHER                                -> "bound"

\* Transfers are submitted one by one: a failure leaves some in flight, which
\* are killed.  A failure of their set-up leaves none.
SubmitUrbs(d) ==
  LET c == chip[d] IN
  /\ pc[d] \in {"pcmUrbs", "midiUrbs"}
  /\ UNCHANGED <<globals, chip, attached, cards, pcmRt, midiRt, midi>>
  /\ broken' = Misused(d)
  /\ \E S \in SUBSET Submitting(d) :
       /\ urb' = [urb EXCEPT ![c] = [u \in Urb |-> IF u \in S THEN "flight" ELSE @[u]]]
       /\ \/ /\ S = Submitting(d) /\ attached[d]
             /\ LET to == AfterUrbs(d) IN
                /\ IF to = "bound" THEN Return(d, to) ELSE Goto(d, to) /\ UNCHANGED app
                /\ intfdata' = IF to = "bound" THEN Set(intfdata, d, c) ELSE intfdata
             /\ UNCHANGED failed
          \/ /\ S # Submitting(d)
             /\ Goto(d, IF pc[d] = "pcmUrbs" THEN "killPcm" ELSE "killMidi")
             /\ failed' = Set(failed, c, failed[c] \cup
                                {IF pc[d] = "pcmUrbs" THEN "pcm" ELSE "midi"})
             /\ UNCHANGED <<app, intfdata>>

\* kill_urbs waits; then pcm_init frees its runtime in a first probe.
KillPcmUrbs(d) ==
  LET c == chip[d] IN
  /\ pc[d] = "killPcm" /\ InFlight(c) \cap PcmUrb = {}
  /\ Goto(d, "free")
  /\ pcmRt' = IF First(c) THEN Set(pcmRt, c, "freed") ELSE pcmRt
  /\ UNCHANGED <<globals, chip, attached, intfdata, cards, midiRt, failed, urb,
                 midi, app, broken>>

\* midi_init_bulk_urbs frees the runtime, and midi_init frees it again.
KillMidiUrbs(d) ==
  LET c == chip[d] IN
  /\ pc[d] = "killMidi" /\ InFlight(c) \cap MidiUrb = {}
  /\ Goto(d, "free")
  /\ midiRt' = Set(midiRt, c, "freed")
  /\ broken' = IF First(c) THEN "twice" ELSE "no"
  /\ UNCHANGED <<globals, chip, attached, intfdata, cards, pcmRt, failed, urb,
                 midi, app>>

Register(d) ==
  LET c == chip[d] IN
  /\ pc[d] = "register"
  /\ UNCHANGED <<globals, chip, attached, number, chipDev, pinned, pcmRt, midiRt,
                 urb, midi, broken>>
  /\ \/ /\ card' = Set(card, c, "up") /\ intfdata' = Set(intfdata, d, c)
        /\ Return(d, "bound")
        /\ UNCHANGED failed
     \/ /\ Fail(d, "register") /\ UNCHANGED <<card, intfdata, app>>

-----------------------------------------------------------------------------
(* xonedb4_disconnect: the device is pulled out, or prepare resets it.     *)

Unplug(d) ==
  /\ attached[d] /\ attached' = Set(attached, d, FALSE)
  /\ UNCHANGED <<globals, pc, chip, intfdata, cards, runtimes, urb, midi, app,
                 broken>>

Leave(d) ==
  /\ ~attached[d]
  /\ \/ pc[d] = "bound" /\ Goto(d, "flush")
     \/ pc[d] = "unbound" /\ Goto(d, "idle")
  /\ UNCHANGED <<globals, chip, attached, intfdata, cards, runtimes, urb, midi,
                 app, broken>>

\* The core and then pcm_abort and midi_abort wait for the transfers.  The
\* card goes with the device unless a reset, of any device, is under way.
MutNoWait(d) ==
  LET c == intfdata[d] IN
  /\ pc[d] = "flush"
  /\ card' = IF ~justresetting THEN Set(card, c, "disconnected") ELSE card
  /\ intfdata' = Set(intfdata, d, Nobody)
  /\ Goto(d, IF app[c] = "resetting" THEN "reset" ELSE "idle")
  /\ UNCHANGED <<globals, chip, attached, number, chipDev, pinned, runtimes, urb,
                 midi, app, broken>>

MutAlwaysKeep(d) ==
  LET c == intfdata[d] IN
  /\ pc[d] = "flush" /\ InFlight(c) = {}
  /\ intfdata' = Set(intfdata, d, Nobody)
  /\ Goto(d, IF app[c] = "resetting" THEN "reset" ELSE "idle")
  /\ UNCHANGED <<globals, chip, attached, cards, runtimes, urb, midi, app, broken>>

Disconnect(d) ==
  LET c == intfdata[d] IN
  /\ pc[d] = "flush" /\ InFlight(c) = {}
  /\ card' = IF ~justresetting THEN Set(card, c, "disconnected") ELSE card
  /\ intfdata' = Set(intfdata, d, Nobody)
  /\ Goto(d, IF app[c] = "resetting" THEN "reset" ELSE "idle")
  /\ UNCHANGED <<globals, chip, attached, number, chipDev, pinned, runtimes, urb,
                 midi, app, broken>>

\* usb_reset_device: the device is bound again or lost.
Reset(d) ==
  /\ pc[d] = "reset"
  /\ UNCHANGED <<globals, chip, intfdata, cards, runtimes, urb, midi, broken>>
  /\ \/ attached[d] /\ Goto(d, "setup") /\ UNCHANGED <<attached, app>>
     \/ attached' = Set(attached, d, FALSE) /\ Return(d, "unbound")

\* A card is freed when it is disconnected and its last user is gone.
FreeCard(c) ==
  /\ card[c] = "disconnected" /\ c \notin pinned
  /\ \A d \in Device : ~(pc[d] = "free" /\ chip[d] = c)
  /\ input[c] = "closed" /\ app[c] = "none"
  /\ card' = Set(card, c, "freed")
  /\ UNCHANGED <<globals, devices, number, chipDev, pinned, runtimes, urb, midi,
                 app, broken>>

-----------------------------------------------------------------------------
(* The application: a PCM prepare that resets the device (xonedb4_reset),  *)
(* and MIDI input (xonedb4_midi_in_trigger).                               *)

unmoved == <<devices, cards, runtimes, urb>>

OpenPcm(c) ==
  /\ card[c] = "up" /\ app[c] = "none" /\ app' = Set(app, c, "open")
  /\ UNCHANGED <<globals, unmoved, midi, broken>>

ClosePcm(c) ==
  /\ app[c] = "open" /\ app' = Set(app, c, "none")
  /\ UNCHANGED <<globals, unmoved, midi, broken>>

MarkReset(c) ==
  /\ app[c] = "open" /\ app' = Set(app, c, "ask")
  /\ justresetting' = TRUE
  /\ UNCHANGED <<cardindex, registerMutex, enable, unmoved, midi, broken>>

\* Refused for a device that is gone; without effect on the driver for one
\* that no driver is bound to.  The flag stays.
AskReset(c) ==
  LET d == chipDev[c] IN
  /\ app[c] = "ask"
  /\ UNCHANGED <<globals, chip, attached, intfdata, cards, runtimes, urb, midi,
                 broken>>
  /\ \/ /\ attached[d] /\ pc[d] = "bound" /\ chip[d] = c
        /\ Goto(d, "flush") /\ app' = Set(app, c, "resetting")
     \/ /\ ~attached[d] \/ pc[d] = "unbound" \/ chip[d] # c
        /\ app' = Set(app, c, "open") /\ UNCHANGED pc

OpenInput(c) ==
  /\ card[c] = "up" /\ input[c] = "closed" /\ input' = Set(input, c, "open")
  /\ UNCHANGED <<globals, unmoved, inLock, app, broken>>

CloseInput(c) ==
  /\ input[c] = "open" /\ input' = Set(input, c, "closed")
  /\ UNCHANGED <<globals, unmoved, inLock, app, broken>>

\* Up and down, under in_lock; the rawmidi core stops an input that closes.
TriggerInput(c) ==
  /\ input[c] # "closed" /\ inLock[c] = Nobody
  /\ IF midiRt[c] = "live"
       THEN /\ input' = Set(input, c, IF input[c] = "up" THEN "open" ELSE "up")
            /\ UNCHANGED broken
       ELSE broken' = "used" /\ UNCHANGED input
  /\ UNCHANGED <<globals, unmoved, inLock, app>>

-----------------------------------------------------------------------------
(* Completion handlers, in the USB core's context.                         *)

\* The transfers of a card fail while they are killed or have no device.
Killing(d, u) ==
  \/ pc[d] = "flush"
  \/ pc[d] = "killPcm" /\ u \in PcmUrb
  \/ pc[d] = "killMidi" /\ u \in MidiUrb
Stopped(c, u) ==
  ~attached[chipDev[c]] \/ \E d \in Device : chip[d] = c /\ Killing(d, u)

others == <<globals, devices, cards, runtimes, app>>

\* The status says that the transfer is gone: it is not submitted again.
CompleteGone(c, u) ==
  /\ urb[c][u] = "flight" /\ Stopped(c, u)
  /\ broken' = IF card[c] = "freed" THEN "used" ELSE "no"
  /\ Fate(c, u, "idle")
  /\ UNCHANGED <<others, midi>>

\* A PCM handler that fails panics and does not submit again (LinuxStream).
CompletePcm(c, u) ==
  /\ urb[c][u] = "flight"
  /\ broken' = IF card[c] = "freed" \/ pcmRt[c] # "live" THEN "used" ELSE "no"
  /\ Fate(c, u, "idle")
  /\ UNCHANGED <<others, midi>>

\* xonedb4_midi_in_urb_handler delivers under in_lock, and submits.
Receive(c, u) ==
  /\ urb[c][u] = "flight" /\ inLock[c] = Nobody
  /\ broken' = IF card[c] = "freed" \/ midiRt[c] # "live" THEN "used" ELSE "no"
  /\ Fate(c, u, "receive")
  /\ inLock' = Set(inLock, c, u)
  /\ UNCHANGED <<others, input>>

EndReceive(c, u) ==
  /\ urb[c][u] = "receive"
  /\ Fate(c, u, "submit")
  /\ inLock' = Set(inLock, c, Nobody)
  /\ UNCHANGED <<others, input, broken>>

Resubmit(c, u) ==
  /\ urb[c][u] = "submit"
  /\ \/ Fate(c, u, "idle")
     \/ ~Stopped(c, u) /\ Fate(c, u, "flight")
  /\ UNCHANGED <<others, midi, broken>>

-----------------------------------------------------------------------------
ProbeStep(d) ==
  \/ TakeUpCard(d) \/ LockRegister(d) \/ LookForSlot(d)
  \/ NewCard(d) \/ Firmware(d) \/ Control(d) \/ PcmInit(d) \/ MidiInit(d)
  \/ SubmitUrbs(d) \/ KillPcmUrbs(d) \/ KillMidiUrbs(d) \/ Register(d) \/ FreeInProbe(d)

DeviceStep(d) ==
  \/ SetInterfaceFails(d) \/ Plug(d) \/ Unplug(d) \/ Leave(d) \/ Disconnect(d) \/ Reset(d)

Application(c) ==
  \/ OpenPcm(c) \/ ClosePcm(c) \/ MarkReset(c) \/ AskReset(c)
  \/ OpenInput(c) \/ CloseInput(c) \/ TriggerInput(c) \/ FreeCard(c)

Handler(c, u) == Receive(c, u) \/ EndReceive(c, u) \/ Resubmit(c, u)

Next ==
  /\ broken = "no"
  /\ \/ \E d \in Device : ProbeStep(d) \/ DeviceStep(d)
     \/ \E c \in Card : Application(c)
     \/ \E c \in Card : \E u \in MidiUrb : Handler(c, u)
     \/ \E c \in Card : \E u \in PcmUrb : CompletePcm(c, u)
     \/ \E c \in Card : \E u \in Urb : CompleteGone(c, u)

Spec == Init /\ [][Next]_vars

ProbeGoesOn(d) == ProbeStep(d) \/ (~attached[d] /\ SetInterfaceFails(d))

\* The threads go on, and the core completes what it has to stop.
Fairness ==
  /\ \A d \in Device : WF_vars(broken = "no" /\ ProbeGoesOn(d))
  /\ \A c \in Card : \A u \in Urb :
       WF_vars(broken = "no" /\ (CompleteGone(c, u) \/ Handler(c, u)))
FairSpec == Spec /\ Fairness

-----------------------------------------------------------------------------
(* Properties                                                              *)

\* A transfer that is not idle finds the card and the runtime its handler
\* reads.  The exception: a first probe that fails after PCM is running (in
\* midi_init or snd_card_register) frees the card and stops nothing.
TransfersFindTheirCard ==
  \A c \in Card : failed[c] \cap {"midi", "register"} = {} /\ InFlight(c) # {} =>
    /\ card[c] \notin {"unused", "freed"}
    /\ InFlight(c) \cap PcmUrb # {} => pcmRt[c] = "live"
    /\ InFlight(c) \cap MidiUrb # {} => midiRt[c] = "live"

\* With one device, a registered card has a device, or the next probe will
\* take it up: a reset that is refused, fails or is overtaken by an unplug
\* leaves the flag for it.
CardKeepsItsDevice ==
  \A c \in Card : card[c] = "up" =>
    justresetting \/ \E d \in Device : chip[d] = c /\ pc[d] # "unbound" /\ pc[d] # "idle"

\* Every probe ends, unless it would free a card it took up after a reset:
\* the reference of snd_card_ref is never dropped.
StuckInFree(d) == pc[d] = "free" /\ chip[d] \in pinned
EveryProbeReturns ==
  \A d \in Device : pc[d] \in Probing ~>
    pc[d] \in {"bound", "unbound"} \/ StuckInFree(d) \/ broken # "no"

\* What the code's own steps contradict, each shown by a counterexample.
FailedProbeStopsTransfers ==
  \A c \in Card : card[c] = "freed" => InFlight(c) = {}
RuntimeFreedOnce == broken # "twice"
OwnCardTakenUp == broken # "remade"
CardFoundAfterReset == broken # "null"
=============================================================================

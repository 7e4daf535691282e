--------------------------- MODULE LinuxProbeProofs ---------------------------
(***************************************************************************)
(* Proofs, for any number of cards and transfers, and where nothing else   *)
(* is said of devices, that the handlers of the Linux driver find the card *)
(* they start from through every probe, reset and disconnect, and that a   *)
(* registered card keeps its device.                                       *)
(***************************************************************************)
EXTENDS LinuxProbe, TLAPS

-----------------------------------------------------------------------------
(* Types.                                                                  *)

GlobalTypes ==
  /\ justresetting \in BOOLEAN /\ enable \in BOOLEAN
  /\ cardindex \in 0 .. Cardinality(Card)
  /\ registerMutex \in Device \cup {Nobody}
  /\ broken \in {"no", "null", "remade", "used", "twice"}

DeviceTypes ==
  /\ pc \in [Device -> Labels]
  /\ attached \in [Device -> BOOLEAN]
  /\ chip \in [Device -> Card \cup {Nobody}]
  /\ intfdata \in [Device -> Card \cup {Nobody}]

CardTypes ==
  /\ card \in [Card -> {"unused", "new", "up", "disconnected", "freed"}]
  /\ number \in [Card -> 0 .. Cardinality(Card)]
  /\ chipDev \in [Card -> Device \cup {Nobody}]
  /\ pinned \subseteq Card
  /\ pcmRt \in [Card -> {"none", "live", "freed"}]
  /\ midiRt \in [Card -> {"none", "live", "freed"}]
  /\ failed \in [Card -> SUBSET Failures]

UseTypes ==
  /\ urb \in [Card -> [Urb -> {"idle", "flight", "receive", "submit"}]]
  /\ input \in [Card -> {"closed", "open", "up"}]
  /\ inLock \in [Card -> MidiUrb \cup {Nobody}]
  /\ app \in [Card -> {"none", "open", "ask", "resetting"}]

(* The four parts of the type invariant, by what they are the types of.    *)
LEMMA TypeParts == TypeOK <=> GlobalTypes /\ DeviceTypes /\ CardTypes /\ UseTypes
BY DEF TypeOK, GlobalTypes, DeviceTypes, CardTypes, UseTypes

(* The initial states have their types.                                    *)
LEMMA TypeInit == Init => TypeOK
<1> SUFFICES ASSUME Init PROVE GlobalTypes /\ DeviceTypes /\ CardTypes /\ UseTypes
  BY TypeParts
<1>1. justresetting = FALSE /\ enable \in BOOLEAN
  BY DEF Init
<1>2. GlobalTypes
  <2>1. cardindex \in 0 .. Cardinality(Card)
    BY CardAssumption DEF Init
  <2> QED
    BY <1>1, <2>1 DEF Init, GlobalTypes
<1>3. DeviceTypes
  BY DEF Init, DeviceTypes, Labels
<1>4. CardTypes
  BY CardAssumption DEF Init, CardTypes
<1>5. UseTypes
  BY DEF Init, UseTypes
<1> QED
  BY <1>2, <1>3, <1>4, <1>5

(* A probe that ends lets the reset that caused it return.                 *)
LEMMA ReturnType ==
  ASSUME DeviceTypes, UseTypes, NEW d \in Device, NEW label \in Labels, Return(d, label)
  PROVE  /\ pc' \in [Device -> Labels]
         /\ app' \in [Card -> {"none", "open", "ask", "resetting"}]
BY DEF DeviceTypes, UseTypes, Return, Goto, Set

(* A step that fails is remembered.                                        *)
LEMMA FailType ==
  ASSUME DeviceTypes, CardTypes, NEW d \in Device, NEW where \in Failures,
         Fail(d, where)
  PROVE  /\ failed' \in [Card -> SUBSET Failures]
         /\ pc' \in [Device -> Labels]
<1>1. "free" \in Labels
  BY DEF Labels
<1> QED
  BY <1>1 DEF DeviceTypes, CardTypes, Fail, Set, Goto

(* The steps of a probe keep the types.                                    *)
LEMMA ProbeType ==
  ASSUME TypeOK, NEW d \in Device, ProbeStep(d)
  PROVE  TypeOK'
<1> USE DEF globals, devices, cards, runtimes, midi, Set, Goto, Labels, Probing, ProbeStep
<1>0. GlobalTypes /\ DeviceTypes /\ CardTypes /\ UseTypes
  BY TypeParts
<1>1. GlobalTypes'
  <2>1. CASE TakeUpCard(d) \/ LockRegister(d) \/ LookForSlot(d)
    BY <2>1, <1>0 DEF GlobalTypes, TakeUpCard, LockRegister, LookForSlot
  <2>2. CASE NewCard(d)
    BY <1>0, <2>2 DEF NewCard, GlobalTypes
  <2>3. CASE Firmware(d) \/ FreeInProbe(d)
    BY <2>3, <1>0 DEF GlobalTypes, Firmware, FreeInProbe
  <2>4. CASE Control(d) \/ PcmInit(d) \/ MidiInit(d) \/ KillPcmUrbs(d) \/ Register(d)
    BY <1>0, <2>4 DEF GlobalTypes, Control, PcmInit, MidiInit, KillPcmUrbs, Register
  <2>5. CASE SubmitUrbs(d) \/ KillMidiUrbs(d)
    BY <1>0, <2>5 DEF GlobalTypes, SubmitUrbs, Misused, KillMidiUrbs
  <2> QED
    BY <2>1, <2>2, <2>3, <2>4, <2>5
<1>2. DeviceTypes'
  <2>1. CASE TakeUpCard(d)
    <3>1. CASE UNCHANGED <<pc, chip>>
      BY <2>1, <3>1, <1>0 DEF DeviceTypes, TakeUpCard
    <3>2. CASE \E c \in Card : chip' = Set(chip, d, c) /\ Goto(d, "control")
      BY <2>1, <3>2, <1>0 DEF DeviceTypes, TakeUpCard
    <3> QED
      BY <2>1, <3>1, <3>2 DEF TakeUpCard, Referenced
  <2>2. CASE LockRegister(d) \/ KillPcmUrbs(d) \/ KillMidiUrbs(d)
    BY <2>2, <1>0 DEF DeviceTypes, LockRegister, KillPcmUrbs, KillMidiUrbs
  <2>3. CASE LookForSlot(d)  \/ Firmware(d) \/ FreeInProbe(d)
    BY <2>3, <1>0, ReturnType DEF DeviceTypes, LookForSlot, Firmware, FreeInProbe
  <2>4. CASE NewCard(d)
    <3>1. pc' \in [Device -> Labels]
      BY <2>4, <1>0, ReturnType DEF DeviceTypes, NewCard
    <3>2. chip' \in [Device -> Card \cup {Nobody}]
      BY <2>4, <1>0 DEF DeviceTypes, NewCard, Unused
    <3> QED
      BY <2>4, <1>0, <3>1, <3>2 DEF DeviceTypes, NewCard
  <2>5. CASE Control(d) \/ PcmInit(d) \/ MidiInit(d)
    BY <1>0, <2>5, FailType DEF DeviceTypes, Control, PcmInit, MidiInit, Failures
  <2>6. CASE Register(d)
    BY <1>0, <2>6, FailType, ReturnType DEF DeviceTypes, Register, Failures
  <2>7. CASE SubmitUrbs(d)
    BY <1>0, <2>7, ReturnType DEF DeviceTypes, SubmitUrbs, AfterUrbs
  <2> QED
    BY <2>1, <2>2, <2>3, <2>4, <2>5, <2>6, <2>7
<1>3. CardTypes'
  <2>1. CASE TakeUpCard(d)
    <3>1. CASE UNCHANGED <<chipDev, pinned>>
      BY <2>1, <3>1, <1>0 DEF CardTypes, TakeUpCard
    <3>2. CASE \E c \in Card : chipDev' = Set(chipDev, c, d) /\ pinned' = pinned \cup {c}
      BY <2>1, <3>2, <1>0 DEF CardTypes, TakeUpCard
    <3> QED
      BY <2>1, <3>1, <3>2 DEF TakeUpCard, Referenced
  <2>2. CASE LockRegister(d) \/ LookForSlot(d) \/ Firmware(d) \/ FreeInProbe(d)
    BY <2>2, <1>0 DEF CardTypes, LockRegister, LookForSlot, Firmware, FreeInProbe
  <2>3. CASE NewCard(d)
    BY <2>3, <1>0 DEF CardTypes, NewCard
  <2>4. CASE Control(d)
    BY <1>0, <2>4, FailType DEF CardTypes, Control, Failures
  <2>5. CASE PcmInit(d) \/ MidiInit(d)
    BY <1>0, <2>5, FailType DEF CardTypes, PcmInit, MidiInit, Failures
  <2>6. CASE Register(d)
    BY <1>0, <2>6, FailType DEF CardTypes, Register, Failures
  <2>7. CASE SubmitUrbs(d)
    BY <1>0, <2>7 DEF CardTypes, SubmitUrbs, Failures
  <2>8. CASE KillPcmUrbs(d) \/ KillMidiUrbs(d)
    BY <1>0, <2>8 DEF CardTypes, KillPcmUrbs, KillMidiUrbs
  <2> QED
    BY <2>1, <2>2, <2>3, <2>4, <2>5, <2>6, <2>7, <2>8
<1>4. UseTypes'
  <2>1. CASE TakeUpCard(d) \/ LockRegister(d) \/ KillPcmUrbs(d) \/ KillMidiUrbs(d)
    BY <2>1, <1>0 DEF UseTypes, TakeUpCard, LockRegister, KillPcmUrbs, KillMidiUrbs
  <2>2. CASE LookForSlot(d) \/ NewCard(d) \/ Firmware(d) \/ FreeInProbe(d)
    BY <2>2, <1>0, ReturnType DEF UseTypes, LookForSlot, NewCard, Firmware, FreeInProbe
  <2>3. CASE Control(d) \/ PcmInit(d) \/ MidiInit(d)
    BY <1>0, <2>3 DEF UseTypes, Control, PcmInit, MidiInit
  <2>4. CASE Register(d)
    BY <1>0, <2>4, ReturnType DEF UseTypes, Register
  <2>5. CASE SubmitUrbs(d)
    <3>1. urb' \in [Card -> [Urb -> {"idle", "flight", "receive", "submit"}]]
      <4>1. PICK S \in SUBSET Submitting(d) :
              urb' = [urb EXCEPT ![chip[d]] =
                        [u \in Urb |-> IF u \in S THEN "flight" ELSE @[u]]]
        BY <2>5 DEF SubmitUrbs
      <4> QED
        BY <1>0, <4>1 DEF UseTypes
    <3>2. app' \in [Card -> {"none", "open", "ask", "resetting"}]
      BY <1>0, <2>5, ReturnType DEF UseTypes, SubmitUrbs, AfterUrbs
    <3> QED
      BY <1>0, <2>5, <3>1, <3>2 DEF UseTypes, SubmitUrbs
  <2> QED
    BY <2>1, <2>2, <2>3, <2>4, <2>5
<1> QED
  BY <1>1, <1>2, <1>3, <1>4 DEF TypeOK, GlobalTypes, DeviceTypes, CardTypes, UseTypes

(* So do those of a device and of the USB core,                            *)
LEMMA DeviceType ==
  ASSUME TypeOK, NEW d \in Device, DeviceStep(d)
  PROVE  TypeOK'
<1> USE DEF globals, devices, cards, runtimes, midi, Set, Goto, Labels, Probing
<1>0. GlobalTypes /\ DeviceTypes /\ CardTypes /\ UseTypes
  BY TypeParts
<1>1. GlobalTypes' /\ UNCHANGED <<runtimes, urb, midi>>
  BY <1>0 DEF DeviceStep, GlobalTypes, SetInterfaceFails, Plug, Unplug, Leave,
              Disconnect, Reset
<1>2. DeviceTypes'
  <2>1. CASE SetInterfaceFails(d) \/ Reset(d)
    BY <1>0, <2>1, ReturnType DEF DeviceTypes, SetInterfaceFails, Reset
  <2>2. CASE Plug(d) \/ Unplug(d) \/ Leave(d)
    BY <1>0, <2>2 DEF DeviceTypes, Plug, Unplug, Leave
  <2>3. CASE Disconnect(d)
    BY <1>0, <2>3 DEF DeviceTypes, Disconnect
  <2> QED
    BY <2>1, <2>2, <2>3 DEF DeviceStep
<1>3. CardTypes'
  BY <1>0 DEF DeviceStep, CardTypes, SetInterfaceFails, Plug, Unplug, Leave,
              Disconnect, Reset
<1>4. app' \in [Card -> {"none", "open", "ask", "resetting"}]
  <2>1. CASE SetInterfaceFails(d) \/ Reset(d)
    BY <1>0, <2>1, ReturnType DEF UseTypes, SetInterfaceFails, Reset
  <2>2. CASE Plug(d) \/ Unplug(d) \/ Leave(d) \/ Disconnect(d)
    BY <1>0, <2>2 DEF UseTypes, Plug, Unplug, Leave, Disconnect
  <2> QED
    BY <2>1, <2>2 DEF DeviceStep
<1> QED
  BY <1>0, <1>1, <1>2, <1>3, <1>4
     DEF TypeOK, GlobalTypes, DeviceTypes, CardTypes, UseTypes

(* those of an application on a card,                                      *)
LEMMA ApplicationType ==
  ASSUME TypeOK, NEW c \in Card, Application(c)
  PROVE  TypeOK'
<1> USE DEF globals, devices, cards, runtimes, midi, Set, Goto, Labels, Probing, unmoved
<1>0. GlobalTypes /\ DeviceTypes /\ CardTypes /\ UseTypes
  BY TypeParts
<1>1. GlobalTypes' /\ UNCHANGED <<runtimes, urb, inLock>>
  BY <1>0 DEF Application, GlobalTypes, OpenPcm, ClosePcm, MarkReset, AskReset, OpenInput,
              CloseInput, TriggerInput, FreeCard
<1>2. DeviceTypes'
  BY <1>0 DEF Application, DeviceTypes, OpenPcm, ClosePcm, MarkReset, AskReset, OpenInput,
              CloseInput, TriggerInput, FreeCard
<1>3. CardTypes'
  BY <1>0 DEF Application, CardTypes, OpenPcm, ClosePcm, MarkReset, AskReset, OpenInput,
              CloseInput, TriggerInput, FreeCard
<1>4. app' \in [Card -> {"none", "open", "ask", "resetting"}]
  BY <1>0 DEF Application, UseTypes, OpenPcm, ClosePcm, MarkReset, AskReset, OpenInput,
              CloseInput, TriggerInput, FreeCard
<1>5. input' \in [Card -> {"closed", "open", "up"}]
  BY <1>0 DEF Application, UseTypes, OpenPcm, ClosePcm, MarkReset, AskReset, OpenInput,
              CloseInput, TriggerInput, FreeCard
<1> QED
  BY <1>0, <1>1, <1>2, <1>3, <1>4, <1>5
     DEF TypeOK, GlobalTypes, DeviceTypes, CardTypes, UseTypes

-----------------------------------------------------------------------------
(* A completion handler changes the fate of a transfer that was not idle,  *)
(* and nothing else of the driver's but in_lock and broken.                *)

HandlerStep ==
  \/ \E c \in Card : \E u \in MidiUrb : Handler(c, u)
  \/ \E c \in Card : \E u \in PcmUrb : CompletePcm(c, u)
  \/ \E c \in Card : \E u \in Urb : CompleteGone(c, u)

(* What any handler leaves alone, and what it may change.                  *)
LEMMA HandlerFootprint ==
  ASSUME TypeOK, HandlerStep
  PROVE  /\ UNCHANGED <<others, input>>
         /\ broken' \in {broken, "no", "used"}
         /\ inLock' \in [Card -> MidiUrb \cup {Nobody}]
         /\ urb' \in [Card -> [Urb -> {"idle", "flight", "receive", "submit"}]]
         /\ \A c \in Card : InFlight(c)' \subseteq InFlight(c)
<1> USE DEF TypeOK
<1>1. ASSUME NEW c \in Card, NEW u \in MidiUrb, Handler(c, u)
      PROVE  /\ UNCHANGED <<others, input>> /\ broken' \in {broken, "no", "used"}
             /\ inLock' \in [Card -> MidiUrb \cup {Nobody}] /\ urb[c][u] # "idle"
             /\ \E f \in {"idle", "flight", "submit", "receive"} : Fate(c, u, f)
  BY <1>1 DEF Handler, Receive, EndReceive, Resubmit, midi, Set
<1>2. ASSUME NEW c \in Card, NEW u \in Urb, CompletePcm(c, u) \/ CompleteGone(c, u)
      PROVE  /\ UNCHANGED <<others, midi>> /\ broken' \in {broken, "no", "used"}
             /\ urb[c][u] = "flight" /\ Fate(c, u, "idle")
  BY <1>2 DEF CompletePcm, CompleteGone
<1>3. ASSUME NEW c \in Card, NEW u \in Urb, urb[c][u] # "idle",
             NEW f \in {"idle", "flight", "receive", "submit"}, Fate(c, u, f)
      PROVE  /\ urb' \in [Card -> [Urb -> {"idle", "flight", "receive", "submit"}]]
             /\ \A x \in Card : InFlight(x)' \subseteq InFlight(x)
  BY <1>3 DEF Fate, InFlight
<1> QED
  <2>1. ASSUME NEW c \in Card, NEW u \in MidiUrb, Handler(c, u)
        PROVE  /\ urb' \in [Card -> [Urb -> {"idle", "flight", "receive", "submit"}]]
               /\ \A x \in Card : InFlight(x)' \subseteq InFlight(x)
    <3>1. u \in Urb
      BY DEF Urb
    <3> QED
      BY <1>1, <1>3, <2>1, <3>1
  <2>2. CASE \E c \in Card : \E u \in MidiUrb : Handler(c, u)
    BY <1>1, <2>1, <2>2
  <2>3. CASE \E c \in Card : \E u \in Urb : CompletePcm(c, u) \/ CompleteGone(c, u)
    BY <1>2, <1>3, <2>3 DEF midi
  <2> QED
    BY <2>2, <2>3 DEF HandlerStep, Urb

(* and those of a completion handler.                                      *)
LEMMA HandlerType == TypeOK /\ HandlerStep => TypeOK'
BY HandlerFootprint DEF TypeOK, others, globals, devices, cards, runtimes

(* The type invariant is inductive.                                        *)
LEMMA TypeNext == TypeOK /\ [Next]_vars => TypeOK'
<1>1. ASSUME TypeOK, UNCHANGED vars PROVE TypeOK'
  BY <1>1 DEF TypeOK, vars, globals, devices, cards, runtimes, midi
<1> QED
  BY <1>1, ProbeType, DeviceType, ApplicationType, HandlerType DEF Next, HandlerStep

-----------------------------------------------------------------------------
(* The invariant.                                                          *)

(* The probe that made the card failed after its PCM was running.          *)
Abandoned(c) == failed[c] \cap {"midi", "register"} # {}

(* Only a probe that made a card, or has it pinned, starts its transfers.  *)
(* ALSA frees none that is pinned, so a card that is disconnected and not  *)
(* pinned stays without transfers.                                         *)
CardInv(c) ==
  /\ card[c] = "unused" =>
       c \notin pinned /\ InFlight(c) = {} /\ \A d \in Device : chip[d] # c
  /\ card[c] = "new" =>
       c \notin pinned /\ \A d, e \in Device : chip[d] = c /\ chip[e] = c => d = e
  /\ c \in pinned => card[c] \in {"up", "disconnected"}
  /\ c \in pinned \/ card[c] = "up" =>
       pcmRt[c] = "live" /\ (midiRt[c] = "live" \/ "midi" \in failed[c])
  /\ card[c] = "disconnected" /\ c \notin pinned => InFlight(c) = {}

(* The card that a probe, or a device that is bound, has in hand.          *)
ProbeInv(d) ==
  LET c == chip[d] IN
  /\ pc[d] \in {"firmware", "pcm", "midi", "register"} => c \in Card /\ card[c] = "new"
  /\ pc[d] \in {"control", "pcmUrbs", "midiUrbs", "killPcm", "killMidi", "free"} =>
       c \in Card /\ (card[c] = "new" \/ c \in pinned)
  /\ pc[d] \in {"bound", "flush"} =>
       c \in Card /\ intfdata[d] = c /\ card[c] \in {"up", "disconnected", "freed"}
  /\ pc[d] = "killMidi" => "midi" \in failed[c]

(* How far a first probe has come with the card.                           *)
FirstInv(d) ==
  LET c == chip[d] IN
  c \in Card /\ card[c] = "new" =>
    /\ pc[d] \in {"firmware", "control", "pcm", "pcmUrbs"} => InFlight(c) = {}
    /\ pc[d] = "killPcm" => InFlight(c) \cap MidiUrb = {}
    /\ pc[d] = "free" => InFlight(c) = {} \/ Abandoned(c)
    /\ pc[d] \in {"pcmUrbs", "midi", "midiUrbs", "register", "killMidi"} =>
         pcmRt[c] = "live"
    /\ pc[d] \in {"midiUrbs", "register"} => midiRt[c] = "live"

IInv ==
  /\ TypeOK
  /\ \A c \in Card : CardInv(c)
  /\ \A d \in Device : ProbeInv(d) /\ FirstInv(d)
  /\ TransfersFindTheirCard

(* Before the first probe no card has a transfer in flight.                *)
LEMMA IInvInit == Init => IInv
<1> SUFFICES ASSUME Init PROVE IInv
  OBVIOUS
<1>1. \A c \in Card : InFlight(c) = {}
  BY DEF Init, InFlight
<1> QED
  BY <1>1, TypeInit, CardAssumption
     DEF Init, IInv, CardInv, ProbeInv, FirstInv, TransfersFindTheirCard

(* What the invariant is about of types.                                   *)
LEMMA Types ==
  ASSUME TypeOK
  PROVE  /\ pc \in [Device -> Labels]
         /\ chip \in [Device -> Card \cup {Nobody}]
         /\ intfdata \in [Device -> Card \cup {Nobody}]
         /\ card \in [Card -> {"unused", "new", "up", "disconnected", "freed"}]
         /\ pcmRt \in [Card -> {"none", "live", "freed"}]
         /\ midiRt \in [Card -> {"none", "live", "freed"}]
         /\ DOMAIN failed = Card /\ pinned \subseteq Card /\ Nobody \notin Card
BY CardAssumption DEF TypeOK

(* A step of a probe keeps the invariant: starting the transfers needs the *)
(* runtimes that FirstInv and CardInv have; ending them needs the kills.   *)
LEMMA ProbeSafe ==
  ASSUME IInv, NEW d \in Device, ProbeStep(d), broken = "no"
  PROVE  /\ \A c \in Card : CardInv(c)'
         /\ \A e \in Device : ProbeInv(e)' /\ FirstInv(e)'
         /\ TransfersFindTheirCard'
<1> USE Types DEF IInv, CardInv, ProbeInv, FirstInv, TransfersFindTheirCard, Abandoned,
      globals, devices, cards, runtimes, Set, Goto, Return, First
<1>0. UNCHANGED urb => \A x \in Card : InFlight(x)' = InFlight(x)
  BY DEF InFlight
<1>1. CASE TakeUpCard(d)
  <2>1. CASE UNCHANGED <<pc, chip, pinned>>
    BY <1>0, <1>1, <2>1 DEF TakeUpCard
  <2>2. CASE \E c \in Referenced : chip' = Set(chip, d, c) /\ pinned' = pinned \cup {c}
                                  /\ Goto(d, "control")
    <3>1. PICK c \in Card : /\ card[c] = "up"
                            /\ chip' = Set(chip, d, c) /\ pinned' = pinned \cup {c}
                            /\ Goto(d, "control")
      BY <2>2 DEF Referenced
    <3>2. UNCHANGED <<intfdata, card, runtimes, urb>>
      BY <1>1 DEF TakeUpCard
    <3> QED
      BY <1>0, <3>1, <3>2
  <2> QED
    BY <1>1, <2>1, <2>2 DEF TakeUpCard
<1>2. CASE LockRegister(d)
  BY <1>0, <1>2 DEF LockRegister
<1>3. CASE LookForSlot(d)
  BY <1>0, <1>3 DEF LookForSlot
<1>4. CASE NewCard(d)
  <2>1. UNCHANGED <<intfdata, pinned, runtimes, urb>>
    BY <1>4 DEF NewCard
  <2>2. CASE Return(d, "unbound") /\ UNCHANGED <<chip, card>>
    BY <1>0, <2>1, <2>2
  <2>3. CASE \E c \in Unused : card' = Set(card, c, "new") /\ chip' = Set(chip, d, c)
                              /\ Goto(d, "firmware")
    <3>1. PICK c \in Card : /\ card[c] = "unused"
                            /\ card' = Set(card, c, "new") /\ chip' = Set(chip, d, c)
                            /\ Goto(d, "firmware")
      BY <2>3 DEF Unused
    <3>2. pc[d] = "new"
      BY <1>4 DEF NewCard
    <3>3. \A x \in Card : CardInv(x)'
      BY <1>0, <2>1, <3>1
    <3>4. \A e \in Device : ProbeInv(e)'
      BY <1>0, <2>1, <3>1
    <3>5. \A e \in Device : FirstInv(e)'
      BY <1>0, <2>1, <3>1
    <3>6. TransfersFindTheirCard'
      BY <1>0, <2>1, <3>1
    <3> QED
      BY <3>3, <3>4, <3>5, <3>6
  <2> QED
    BY <1>4, <2>2, <2>3 DEF NewCard
<1>5. CASE Firmware(d)
  BY <1>0, <1>5 DEF Firmware
<1>6. CASE Control(d)
  BY <1>0, <1>6 DEF Control, Fail
<1>7. CASE PcmInit(d)
  BY <1>0, <1>7 DEF PcmInit, Fail
<1>8. CASE MidiInit(d)
  <2>1. pc[d] = "midi" /\ UNCHANGED <<chip, intfdata, card, pinned, pcmRt, urb>>
    BY <1>8 DEF MidiInit
  <2>2. CASE midiRt' = Set(midiRt, chip[d], "live") /\ Goto(d, "midiUrbs")
             /\ UNCHANGED failed
    BY <1>0, <2>1, <2>2
  <2>3. CASE Fail(d, "midi") /\ UNCHANGED midiRt
    BY <1>0, <2>1, <2>3 DEF Fail
  <2> QED
    BY <1>8, <2>2, <2>3 DEF MidiInit
<1>9. CASE SubmitUrbs(d)
  <2> DEFINE c == chip[d]
  <2>1. /\ pc[d] \in {"pcmUrbs", "midiUrbs"}
        /\ UNCHANGED <<chip, card, pinned, pcmRt, midiRt>>
    BY <1>9 DEF SubmitUrbs
  <2>2. PICK S \in SUBSET Submitting(d) :
          /\ urb' = [urb EXCEPT ![c] = [u \in Urb |-> IF u \in S THEN "flight" ELSE @[u]]]
          /\ \/ /\ Goto(d, AfterUrbs(d))
                /\ intfdata' = IF AfterUrbs(d) = "bound" THEN Set(intfdata, d, c) ELSE intfdata
                /\ UNCHANGED failed
             \/ /\ Goto(d, IF pc[d] = "pcmUrbs" THEN "killPcm" ELSE "killMidi")
                /\ failed' = Set(failed, c, failed[c] \cup
                                  {IF pc[d] = "pcmUrbs" THEN "pcm" ELSE "midi"})
                /\ UNCHANGED intfdata
    BY <1>9 DEF SubmitUrbs
  <2>3. /\ InFlight(c)' = InFlight(c) \cup S
        /\ \A x \in Card \ {c} : InFlight(x)' = InFlight(x)
    BY <2>1, <2>2 DEF InFlight, TypeOK, Submitting, Urb
  <2>4. S \subseteq IF pc[d] = "pcmUrbs" THEN PcmUrb ELSE MidiUrb
    BY <2>2 DEF Submitting
  <2>5. c \in Card /\ (card[c] = "new" \/ c \in pinned)
    BY <2>1
  <2>6. \A x \in Card : CardInv(x)'
    BY <2>1, <2>2, <2>3, <2>5
  <2>7. \A e \in Device : ProbeInv(e)'
    BY <2>1, <2>2, <2>5 DEF AfterUrbs
  <2>8. \A e \in Device : FirstInv(e)'
    BY <2>1, <2>2, <2>3, <2>4, <2>5, UrbAssumption DEF AfterUrbs
  <2>9. TransfersFindTheirCard'
    BY <2>1, <2>2, <2>3, <2>4, <2>5, UrbAssumption
  <2> QED
    BY <2>6, <2>7, <2>8, <2>9
<1>10. CASE KillPcmUrbs(d)
  <2>1. /\ pc[d] = "killPcm" /\ InFlight(chip[d]) \cap PcmUrb = {}
        /\ Goto(d, "free")
        /\ UNCHANGED <<chip, intfdata, card, pinned, midiRt, failed, urb>>
    BY <1>10 DEF KillPcmUrbs
  <2>2. CASE card[chip[d]] = "new" /\ pcmRt' = Set(pcmRt, chip[d], "freed")
    <3>1. InFlight(chip[d]) = {}
      BY <2>1, <2>2 DEF InFlight, Urb
    <3>3. \A x \in Card : CardInv(x)'
      BY <1>0, <2>1, <2>2, <3>1
    <3>4. \A e \in Device : ProbeInv(e)'
      BY <1>0, <2>1, <2>2, <3>1
    <3>5. \A e \in Device : FirstInv(e)'
      BY <1>0, <2>1, <2>2, <3>1
    <3>6. TransfersFindTheirCard'
      BY <1>0, <2>1, <2>2, <3>1
    <3> QED
      BY <3>3, <3>4, <3>5, <3>6
  <2>3. CASE card[chip[d]] # "new" /\ UNCHANGED pcmRt
    BY <1>0, <2>1, <2>3
  <2> QED
    BY <1>10, <2>2, <2>3 DEF KillPcmUrbs
<1>11. CASE KillMidiUrbs(d)
  BY <1>0, <1>11 DEF KillMidiUrbs
<1>12. CASE Register(d)
  <2>1. pc[d] = "register" /\ UNCHANGED <<chip, pinned, pcmRt, midiRt, urb>>
    BY <1>12 DEF Register
  <2>2. CASE /\ card' = Set(card, chip[d], "up") /\ intfdata' = Set(intfdata, d, chip[d])
             /\ Goto(d, "bound") /\ UNCHANGED failed
    BY <1>0, <2>1, <2>2
  <2>3. CASE Fail(d, "register") /\ UNCHANGED <<card, intfdata>>
    BY <1>0, <2>1, <2>3 DEF Fail
  <2> QED
    BY <1>12, <2>2, <2>3 DEF Register
<1>13. CASE FreeInProbe(d)
  BY <1>0, <1>13 DEF FreeInProbe
<1> QED
  BY <1>1, <1>2, <1>3, <1>4, <1>5, <1>6, <1>7, <1>8, <1>9, <1>10, <1>11, <1>12, <1>13 DEF ProbeStep

(* A disconnect waits for the transfers before it gives up the card.       *)
LEMMA DeviceSafe ==
  ASSUME IInv, NEW d \in Device, DeviceStep(d)
  PROVE  /\ \A c \in Card : CardInv(c)'
         /\ \A e \in Device : ProbeInv(e)' /\ FirstInv(e)'
         /\ TransfersFindTheirCard'
<1> USE Types DEF IInv, CardInv, ProbeInv, FirstInv, TransfersFindTheirCard, Abandoned,
      globals, devices, cards, runtimes, Set, Goto, Return
<1>0. UNCHANGED urb => \A x \in Card : InFlight(x)' = InFlight(x)
  BY DEF InFlight
<1>1. CASE SetInterfaceFails(d) \/ Reset(d)
  BY <1>0, <1>1 DEF SetInterfaceFails, Reset
<1>2. CASE Plug(d)
  BY <1>0, <1>2 DEF Plug
<1>3. CASE Unplug(d) \/ Leave(d)
  BY <1>0, <1>3 DEF Unplug, Leave
<1>4. CASE Disconnect(d)
  BY <1>0, <1>4 DEF Disconnect
<1> QED
  BY <1>1, <1>2, <1>3, <1>4 DEF DeviceStep

(* ALSA frees only a card whose transfers are gone.                        *)
LEMMA ApplicationSafe ==
  ASSUME IInv, NEW c \in Card, Application(c)
  PROVE  /\ \A x \in Card : CardInv(x)'
         /\ \A e \in Device : ProbeInv(e)' /\ FirstInv(e)'
         /\ TransfersFindTheirCard'
<1> USE Types DEF IInv, CardInv, ProbeInv, FirstInv, TransfersFindTheirCard, Abandoned,
      globals, devices, cards, runtimes, Set, Goto, unmoved
<1>0. UNCHANGED urb => \A x \in Card : InFlight(x)' = InFlight(x)
  BY DEF InFlight
<1>1. CASE OpenPcm(c) \/ ClosePcm(c) \/ MarkReset(c) \/ OpenInput(c) \/ CloseInput(c)
           \/ TriggerInput(c)
  BY <1>0, <1>1 DEF OpenPcm, ClosePcm, MarkReset, OpenInput, CloseInput, TriggerInput
<1>2. CASE AskReset(c)
  BY <1>0, <1>2 DEF AskReset
<1>3. CASE FreeCard(c)
  BY <1>0, <1>3 DEF FreeCard
<1> QED
  BY <1>1, <1>2, <1>3 DEF Application

(* A handler only ends transfers, or resubmits its own.                    *)
LEMMA HandlerSafe ==
  ASSUME IInv, HandlerStep
  PROVE  /\ \A x \in Card : CardInv(x)'
         /\ \A e \in Device : ProbeInv(e)' /\ FirstInv(e)'
         /\ TransfersFindTheirCard'
<1>1. UNCHANGED <<pc, chip, intfdata, card, pinned, pcmRt, midiRt, failed>>
  BY HandlerFootprint DEF IInv, others, devices, cards, runtimes
<1>2. \A x \in Card : InFlight(x)' \subseteq InFlight(x)
  BY HandlerFootprint DEF IInv
<1> QED
  BY <1>1, <1>2 DEF IInv, CardInv, ProbeInv, FirstInv, TransfersFindTheirCard, Abandoned

(* The invariant is inductive.                                             *)
LEMMA IInvNext == IInv /\ [Next]_vars => IInv'
<1>1. ASSUME IInv, UNCHANGED vars PROVE IInv'
  <2>1. \A x \in Card : InFlight(x)' = InFlight(x)
    BY <1>1 DEF vars, InFlight
  <2> QED
    BY <1>1, <2>1, TypeNext
       DEF IInv, CardInv, ProbeInv, FirstInv, TransfersFindTheirCard, Abandoned,
           vars, devices, cards, runtimes
<1>2. ASSUME IInv, Next PROVE IInv'
  BY <1>2, TypeNext, ProbeSafe, DeviceSafe, ApplicationSafe, HandlerSafe
     DEF IInv, Next, HandlerStep
<1> QED
  BY <1>1, <1>2

(* The variables of the driver and of the modelled kernel keep their types. *)
THEOREM TypeCorrect == Spec => []TypeOK
<1>1. IInv => TypeOK
  BY DEF IInv
<1> QED
  BY <1>1, IInvInit, IInvNext, PTL DEF Spec

(* A handler finds the card and the runtime it reads, for any number of    *)
(* devices and cards, whichever steps of a probe fail.                     *)
THEOREM HandlersFindTheirCard == Spec => []TransfersFindTheirCard
<1>1. IInv => TransfersFindTheirCard
  BY DEF IInv
<1> QED
  BY <1>1, IInvInit, IInvNext, PTL DEF Spec

-----------------------------------------------------------------------------
(* One device: nobody else resets or plugs anything while a card is used.  *)

OneDevice == \E d : Device = {d}

(* At most one card is registered.  It is in the hands of the device, or   *)
(* justresetting says that the next probe takes it up; while a probe makes *)
(* a card there is none.                                                   *)
KeepInv ==
  \A d \in Device :
    /\ \A c, e \in Card : card[c] = "up" /\ card[e] = "up" => c = e
    /\ \A c \in Card : card[c] = "up" =>
         IF pc[d] \in {"idle", "unbound", "setup", "reset"} THEN justresetting
                                                         ELSE chip[d] = c
    /\ \/ pc[d] \in {"enabled", "new"}
       \/ pc[d] \in (Probing \ {"setup"}) \cup {"free"} /\ chip[d] \in Card /\ card[chip[d]] = "new"
       => \A c \in Card : card[c] # "up"

(* With one device KeepInv is kept, given the invariant.                   *)
LEMMA KeepNext ==
  ASSUME OneDevice
  PROVE  IInv /\ KeepInv /\ [Next]_vars => KeepInv'
<1> SUFFICES ASSUME IInv, KeepInv, [Next]_vars PROVE KeepInv'
  OBVIOUS
<1> PICK d : Device = {d}
  BY DEF OneDevice
<1> USE Types DEF IInv, KeepInv, ProbeInv, CardInv, globals, devices, cards, runtimes, Set, Goto,
      Return, Probing
<1>1. CASE TakeUpCard(d)
  <2>1. CASE UNCHANGED <<justresetting, pc, chip>>
    BY <1>1, <2>1 DEF TakeUpCard
  <2>2. CASE \E c \in Referenced : chip' = Set(chip, d, c) /\ Goto(d, "control")
    <3>1. PICK c \in Card : card[c] = "up" /\ chip' = Set(chip, d, c) /\ Goto(d, "control")
      BY <2>2 DEF Referenced
    <3>2. UNCHANGED card
      BY <1>1 DEF TakeUpCard
    <3> QED
      BY <3>1, <3>2
  <2> QED
    BY <1>1, <2>1, <2>2 DEF TakeUpCard
<1>2. CASE LockRegister(d) \/ LookForSlot(d)
  BY <1>2 DEF LockRegister, LookForSlot
<1>3. CASE NewCard(d)
  <2>1. \A c \in Card : card[c] # "up"
    BY <1>3 DEF NewCard
  <2>2. \A c \in Card : card'[c] # "up"
    BY <1>3, <2>1 DEF NewCard, Unused
  <2> QED
    BY <2>2
<1>4. CASE Firmware(d)
  BY <1>4 DEF Firmware
<1>5. CASE Control(d) \/ PcmInit(d) \/ MidiInit(d)
  BY <1>5 DEF Control, PcmInit, MidiInit, Fail
<1>6. CASE SubmitUrbs(d)
  BY <1>6 DEF SubmitUrbs, AfterUrbs, First
<1>7. CASE KillPcmUrbs(d) \/ KillMidiUrbs(d)
  BY <1>7 DEF KillPcmUrbs, KillMidiUrbs
<1>8. CASE Register(d)
  BY <1>8 DEF Register, Fail
<1>9. CASE FreeInProbe(d)
  BY <1>9 DEF FreeInProbe
<1>10. CASE SetInterfaceFails(d) \/ Plug(d) \/ Unplug(d) \/ Leave(d)
  BY <1>10 DEF SetInterfaceFails, Plug, Unplug, Leave
<1>11. CASE Disconnect(d)
  BY <1>11 DEF Disconnect
<1>12. CASE Reset(d)
  <2>1. pc[d] = "reset" /\ UNCHANGED <<justresetting, chip, card>>
    BY <1>12 DEF Reset
  <2>2. pc' = Set(pc, d, "setup") \/ pc' = Set(pc, d, "unbound")
    BY <1>12 DEF Reset
  <2> QED
    BY <2>1, <2>2
<1>13. ASSUME NEW c \in Card, Application(c) PROVE KeepInv'
  <2>1. CASE OpenPcm(c) \/ ClosePcm(c) \/ MarkReset(c) \/ OpenInput(c) \/ CloseInput(c)
             \/ TriggerInput(c)
    BY <2>1 DEF OpenPcm, ClosePcm, MarkReset, OpenInput, CloseInput, TriggerInput, unmoved
  <2>2. CASE AskReset(c)
    BY <2>2 DEF AskReset
  <2>3. CASE FreeCard(c)
    BY <2>3 DEF FreeCard
  <2> QED
    BY <1>13, <2>1, <2>2, <2>3 DEF Application
<1>14. CASE HandlerStep \/ UNCHANGED vars
  <2>1. UNCHANGED <<justresetting, pc, chip, card>>
    BY <1>14, HandlerFootprint DEF others, vars
  <2> QED
    BY <2>1
<1> QED
  BY <1>1, <1>2, <1>3, <1>4, <1>5, <1>6, <1>7, <1>8, <1>9, <1>10, <1>11, <1>12,
     <1>13, <1>14 DEF Next, ProbeStep, DeviceStep, HandlerStep

(* With one device, a registered card has the device, or the next probe    *)
(* takes the card up: for any number of cards, and wherever a reset is     *)
(* refused or fails.                                                       *)
THEOREM RegisteredCardIsKept ==
  ASSUME OneDevice
  PROVE  Spec => []CardKeepsItsDevice
<1>1. Init => KeepInv
  BY DEF Init, KeepInv, Probing
<1>2. IInv /\ KeepInv => CardKeepsItsDevice
  BY DEF OneDevice, KeepInv, CardKeepsItsDevice
<1> QED
  BY <1>1, <1>2, IInvInit, IInvNext, KeepNext, PTL DEF Spec
===============================================================================

# Models and proofs of the Ozzy drivers

TLA+ specifications of the drivers in `src/` for the Allen & Heath Xone:DB4 and
its relatives, which speak Ploytec's USB protocol: for macOS a kernel extension
(OzzyKext), an audio server plug-in (OzzyHAL) and a CoreMIDI driver (OzzyMIDI)
that meet in a piece of shared memory; for Linux an ALSA kernel module; and the
DriverKit driver that came before the three (`legacy/mac-coreaudio`). The modules
are checked by TLC on small instances; the theorems hold for every
value of the constants and are checked by TLAPS.

## 1. Inventory

### macOS

| Part | State | Operations | Talks to |
|---|---|---|---|
| Kext life cycle (`OzzyKext.cpp`) | engine, bus, interfaces, the mapping | start, stop, message, ConfigureHardware, user client | engine (calls), both clients (flags in the shared memory) |
| Bus (`KextBus.cpp`) | pool of three pipes | SubmitUSBPacket, FindPipe, completion routine, device requests | USB stack, engine |
| Ploytec engine (`PloytecEngine.cpp`) | mHwSampleTime | Start, Stop, OnPacketComplete, UpdateTimestamp, ProcessMIDIOutput/Input | bus, shared memory |
| Shared memory (`OzzySharedData.h`) | magic, two flags, timestamp, two MIDI rings, input and output buffer of 128 packets | plain loads and stores in the kext (volatile), atomics in user space | all |
| OzzyHAL (`OzzyHAL.mm`) | mSHM, connection state, mIOStarted, timestamp seed | MonitorLoop, StartIO, StopIO, GetZeroTimeStamp, ioOperation, property tables | CoreAudio, shared memory |
| Codec (`PloytecCodec.mm`) | none | encode, decode, write, read and clear the buffers | called by OzzyHAL |
| OzzyMIDI (`OzzyMIDI.mm`) | mapping, endpoints, parser | Send, poll thread, UpdateConnectionState | CoreMIDI, shared memory |

A USB completion is the heartbeat: it advances the clock, may publish a
timestamp, puts a MIDI byte in the next packet and resubmits. CoreAudio's I/O
thread may not block, so the timestamp is under a sequence lock; the rings have
one producer and one consumer and no lock. Hard: every interleaving of loads
and stores; the device going away while start, stop and completions run;
threads that use the mapping while another one unmaps it.

### Linux

| Part | State | Operations | Talks to |
|---|---|---|---|
| Chip (`chip.c`) | justresetting, cardindex, register_mutex | probe, disconnect, reset, control requests | USB core, ALSA, pcm.c, midi.c |
| PCM (`pcm.c`) | panic, stream_state, stream_mutex, rate; per substream instance, active, offsets | open, close, prepare, trigger, pointer, URB handlers, abort, (re)initialisation of URBs | ALSA, USB core, midi.c |
| MIDI (`midi.c`) | uart_send_buffer and two uint8_t counters, two locks | output trigger, get_midi_output (from the PCM OUT handler), input handler | ALSA, pcm.c |
| Codec (`legacy/common/ploytec.c`) | none | convert one frame to and from S24_3LE | called by pcm.c |

The rate can only be changed by resetting the device. So prepare gives up
stream_mutex, resets, has disconnect and probe of its own driver run in its own
thread, and takes the mutex again. Hard: whatever the other substream, the
handlers or an unplugged cable do in the meantime; resets and probes that fail;
the two counters of MIDI output, shared without a lock; frames, bytes and
packets that do not divide one another.

### The DriverKit driver (`legacy/mac-coreaudio/PloytecDriver`)

| Part | State | Operations | Talks to |
|---|---|---|---|
| Driver (`PloytecDriver.cpp`) | number of transfers, sizes of packets, counts of aborted transfers, usbShutdownInProgress, place in the ring | Start, SendPCMUrbs, AbortUSBUrbs, the four completion handlers, MIDI ring and parser | USB stack, the device object |
| Device (`PloytecDevice.cpp`) | IOStarted, sample times, last zero timestamp | StartIO, StopIO, Playback, Capture, ioOperation | CoreAudio, driver |
| User client | none | changes of the number of transfers and of the sizes | the preferences application, driver |

The completion handlers only append blocks to a serial queue, and a block sends
the next transfer. A change of the buffers is a block too, which waits for blocks
behind it until it gives up. Hard: what the transfers of before do afterwards,
and a clock that counts packets whose size changes.

### What makes each part correct

* MIDI rings: a bounded first-in first-out queue; nothing lost, repeated or
  reordered; every accepted byte goes out.
* Timestamp: what the reader returns is one publication, and it always returns.
* Kext: two transfers of a pipe never meet in a packet; which pipe a transfer is
  on; pipes are released with nothing in flight; clients learn of an unplugged
  device.
* Stream: URBs are remade and the card freed only when no handler runs; the
  stream starts under its mutex and at the rate asked for; calls return; closed
  substreams are not used.
* PCM data: frames are neither skipped nor repeated; the pointer and the
  reports of periods follow them; an inactive substream is silent.
* Codec: the drivers put the same bytes on the wire, and hear the same in a frame.
* Mapping and connection: a device that stays is found and shown, the loss of
  one is told, and what is shown belongs to the memory in use.
* Registry: a transfer never outlives its card; a card that is kept over a reset
  is taken up again, or its device comes back; probe returns.
* MIDI parsers: each message that was sent is delivered, once and whole.
* DriverKit driver: transfers are not lost over a change; packets and time stay
  in step; a change ends.

`PROJECT.json` lists these parts with their status, and every hazard at its
line with the properties that cover it.

## 2. Plan

Done, in the order of writing:

1. `MidiQueue` (abstract), `MidiBuffer`, `MidiOutRing`, `MidiInRing`
2. `ZeroTimestamp`
3. `LinuxStream`
4. `KextTransfers`
5. `LinuxUart`
6. `FrameCodec`, `PcmDmaRing`
7. `OutputBuffer`
8. `KextService`, `HalMonitor`, `MidiConnection`, `MCClients`: the kext over
   several sessions and its two clients
9. `LinuxProbe`: probe of a new device with every error path
10. `MidiParser`, `PloytecDriver`: the DriverKit driver and the two parsers
11. `MCMidiRings`, `MCConversions`, `MCTimestamps`: parts that answer one question,
    checked together
12. Proofs of the safety invariants and of the refinements that the runs check,
    in eight modules (section 5): `MidiRingsProofs`, `TimestampProofs`,
    `LinuxStreamProofs`, `LinuxProbeProofs`, `KextTransfersProofs`,
    `HalMonitorProofs`, `OutputBufferProofs`, `ConversionProofs`

Next:

13. The hypotheses of some theorems are the cases in which the property holds; that
    of StartsAtAskedRate could be weaker: several substreams that ask for one rate.
14. Safety of `MidiConnection`: what one thread alone, or the poll thread while
    Send is elsewhere, may rely on.
15. `KextTransfers` implements `KextService` for one session: the kernel side that
    `HalMonitor` and `MidiConnection` assume is the one whose transfers are modelled.
    The step between Ready and the registration of the service has to become an
    action of its own first.

## 3. Modules and how they correspond to the code

Names of variables and actions are the code's. "map" in `PROJECT.json` gives the
lines of every definition. The modules and what they build on:

| Module | Part | Extends or instantiates |
|---|---|---|
| MidiQueue | what a ring promises | |
| MidiBuffer | what both rings are made of: OzzyMidiBuffer, its index arithmetic | |
| MidiOutRing, MidiInRing | the two rings | MidiBuffer, MidiQueue (refinement) |
| ZeroTimestamp | UpdateTimestamp, GetZeroTimeStamp | |
| KextTransfers | one session of the kext and its transfers | |
| KextService | the kext as its clients see it, over sessions | |
| HalMonitor | monitor thread and I/O thread of OzzyHAL | KextService |
| MidiConnection | poll thread and Send of OzzyMIDI | KextService |
| OutputBuffer | shared audio buffers, codec calls | |
| FrameCodec | one frame of PCM, all drivers | |
| MidiParser | both parsers of MIDI input | |
| LinuxStream | ALSA callbacks, handlers, reset | |
| LinuxProbe | probe, disconnect, registry of cards | |
| LinuxUart | MIDI output on Linux | |
| PcmDmaRing | transfers and the ALSA ring | |
| PloytecDriver | the DriverKit driver | |
| MidiRingsProofs | theorems | MidiOutRing, MidiInRing, LinuxUart |
| ConversionProofs | theorems | FrameCodec, PcmDmaRing, MidiParser |
| TimestampProofs | theorems | ZeroTimestamp, PloytecDriver |
| OutputBufferProofs, LinuxStreamProofs, LinuxProbeProofs, KextTransfersProofs, HalMonitorProofs | theorems | their module |

Where a module is extended together with others (by an MC module or a module of
proofs) the names of its variables, actions and formulas say to which part they
belong: InInit and InNext are those of the midiIn ring, UartSpec that of the Linux
send buffer, RingSpec, CodecSpec and ParserSpec those of the conversions,
DriverSpec that of the DriverKit driver.

The MC modules give TLC its constants. Four of them also compose:

* **MCClients** is the kext with a client. The two clients only read the shared
  memory's flags and know nothing of each other, so a behaviour has one of
  them, chosen at the start: the product of both would show nothing more.
* **MCMidiRings**, **MCConversions** and **MCTimestamps** extend parts that share no
  state and answer the same question (does every byte arrive; is the data what
  it was; is the time right). A behaviour starts with the choice of one of them,
  so one run checks the sum of their states, not the product.

**MidiQueue** is what a ring promises: Offer, Accept or Refuse, Deliver,
Release. A consumer may hold slots of bytes it has delivered already.

**MidiOutRing** (Send to ProcessMIDIOutput) and **MidiInRing**
(ProcessMIDIInput to the poll thread) split both ends at every load and store
of an index or a slot; a program counter for each end says which one comes
next. `Send` drops a byte when the ring is full, which is Refuse.
ProcessMIDIOutput takes one byte for each packet. The poll thread takes all
bytes it sees through a copy of the read index and stores the index once, which
is why MidiQueue has `held`. Both modules define `Queue == INSTANCE MidiQueue
WITH ...` and `ImplementsQueue == Queue!Spec`.

**ZeroTimestamp** has the writer (UpdateTimestamp, with its test of
driverReady and its count of packets) and the reader (GetZeroTimeStamp, with
its bounded loop) store by store and load by load, and EngineStart and EngineStop,
Start and Stop of the engine, around them. Junk is what an unassigned local holds. `clean` records
that the iteration in which the loop ended has loaded a pair.

**KextTransfers** has start and stop (one IOKit thread), message (another) and
the completion routines between the calls they make: the flags in the shared
memory, FindPipe by position in the pool, the kickstart of two transfers for
each pipe and the chain of resubmissions two packets apart. A pipe that cannot be
opened leaves no gap in the pool: the later ones move up.

**LinuxStream** has one action for each stretch of a callback between two
points where another thread can see a difference; `pc` is where a callback is.
The transfers are `flight` (the controller has them), `done` or `shutdown`
(completed, handler not started), `body`, `submit` (in the handler) or `idle`.
`core` is the thread in disconnect or probe: the hub's, or a prepare's inside
usb_reset_device. `clock` is the rate the device runs at, which `devicerate` only
follows: probe's control requests are three steps, one that sets the rate it
finds in `alsarate`, one that reads `alsarate` again for `devicerate`
(`chip.c:138`), and one that asks the device.

**LinuxUart** splits `uart_to_sent += ret` and `uart_to_sent--` into load and
store, as nothing makes them atomic; the copy before the addition may use either
the load of the test for room or a new one. ALSA calls the trigger whenever it
likes. `apart` is a history variable that falls when the two sides spoil each
other's work, which they can in four ways: bytes are copied to a place that is
not behind those that wait (or too late for the counters), the addition loses a
decrement, the decrement loses an addition, the handler returns to the front of
the buffer after a write.

**FrameCodec** writes the bit matrices of the four conversions as set
comprehensions; a byte is the set of its one bits, a float counts units of
2^-24. A behaviour picks a frame and converts it.

**PcmDmaRing** moves whole packets between transfer and ring. `urb` maps where
a frame lies in the transfer to where in the ring it came from or went;
`ringPos` and `periodPos` count frames and are history variables.

**OutputBuffer** has the shared output ring byte by byte: the filler that Start
puts in, the byte of ProcessMIDIOutput, the frames of ioOperation one turn of
the codec's loop at a time, the clearing of StopIO. The layout is written as
each of the three places in the code writes it. `done` and `inDone` say which
packets the device has, `mHwPackets` is the clock (which starts with
driverReady), `written` and `mixFrom` are history variables. CoreAudio's part
is a contract: WriteMix comes with a sample time at least the safety offset
after the clock, and WriterInTime lets the clock not overtake a buffer that is
being written.

**KextService** is the kext over several sessions as its clients see it: whether
the service is found, whether it gives its memory, and the magic number and two
flags in it. A device that is pulled out sends its message before stop; a kext
that is unloaded only stops. **HalMonitor** has MapSharedMemory,
UnmapSharedMemory and MonitorLoop of OzzyHAL between their loads and stores, the
StartIO of another thread and the three loads of mSHM in GetZeroTimeStamp.
`mapping` is what is mapped, `mSHM` the pointer; a use of the pointer when the
two differ ends the process. `announced` says whose names are shown, `told` what
CoreAudio was last told. **MidiConnection** has UpdateConnectionState and
DisconnectSharedMemory line by line, run by the poll thread and by Send at once.
The `return false` that sends Send or the poll thread back is a label of its own.

**LinuxProbe** has probe step by step, with each step's failure and the error
path it takes, and disconnect; a device may be pulled out at any time, which
flushes the transfers, and a reset runs disconnect and probe again. `card` is
what ALSA has of a card (new, registered, disconnected, freed), `pinned` the
reference that the look-up after a reset takes and nothing drops. A step that
would use a null or freed pointer, or free twice, ends the behaviour and says so
in `broken`. `failed` is a history variable: where probes of a card have failed. LinuxStream begins where this module ends, with a card that exists,
and has the stream in detail.

**MidiParser** feeds the same bytes to the parser of the poll thread and to that
of the DriverKit driver. What a message is, `Complete` says, from the MIDI
specification; the sender may use running status, put realtime bytes anywhere,
or lose bytes (in a full ring).

**PloytecDriver** has the completion handlers, which append blocks to `queue`, and
the blocks, which send the next transfers; a change is a block of several steps,
AbortUSBUrbs' wait among them, with the queue standing still meanwhile. The
transfers of a pipe are counted: in flight, completed (the handler not run yet),
or a block in the queue. StartIO and StopIO are blocks, too.

## 4. Runs

| Run | Question | Bounds |
|---|---|---|
| midi_rings | does each ring implement MidiQueue, without a slot written while it is read, and does every byte go out; does the Linux driver send all, in order, until its two sides meet? | rings of 4 (three bytes fit, both indices wrap), 3 byte values: enough to tell loss, repetition and order; Linux: 5 bytes in writes of one or two at any time, so that up to five overlap the sending, counters of 5 values and a buffer of 7 |
| timestamps | the kext: is a validated pair one publication; does every call return? The DriverKit driver: does a change of the buffers keep the transfers, the packets at their time and the zero timestamps regular, and end? | 2 packets a publication, 3 tries, 6 packets: three publications overlap one read, and the tries run out; the driver's own sizes of packets (640, 1280, 2560 frames) and its period; 1 or 2 transfers a pipe, one change, two calls of StartIO, every request failing |
| zero_timestamp_torn | is every returned pair one publication? Violated. | 4 packets, the code's 100 tries |
| linux_stream | 1 substream, 2 transfers, every failure, unplug | two rates and an unsupported one; both transfers may be at different stages of the handler |
| linux_stream_two | 2 substreams, 1 transfer, resets that fail, fairness | the second substream is in any stage while the first resets |
| linux_probe | what do a probe that fails anywhere, a reset and an unplug leave behind? | one device that comes twice (two cards), 1 PCM and 2 MIDI transfers, so that the second one's set-up can fail after the first is in flight |
| kext_transfers | the transfers and flags for a device that is pulled out | three endpoints of which the second cannot be opened: the first has its own pipe, the second the third's, the third none; a ring of 4 packets, the smallest in which two transfers two apart are disjoint and wrap |
| kext_release | nothing in flight when pipes are released on unload? Violated. | three endpoints |
| clients | does each client find a device that stays, tell the loss of one, and show what it has mapped? | two sessions, one of them may end while a client connects to it; one call of StartIO, one of Send |
| conversions | the codecs against each other, transfers against the ALSA ring, the parsers against MIDI | 27 edge floats in pairs, each single bit of 64 bytes set alone and cleared alone; the driver's own packet sizes, rings of 160, 190 and 2000 frames, which packets of 32 and 40 divide and do not; status bytes of every length, two data bytes, a realtime byte that is passed on and one that the DriverKit driver drops |
| conversions_input | do all drivers hear the same samples in a frame? Violated. | the frames of conversions |
| output_buffer | CoreAudio, StopIO and the kext on one ring without a lock: is every frame played at its time, or silence, every MIDI byte once, the input read complete? | 6 packets of 4 frames in two parts, frames of 2 bytes (before and after the MIDI bytes), 8 completions: the ring wraps under both sides; buffers start on any of two frames, so that they straddle packets and skip; one MIDI byte in the ring at a time |

Each property has a mutant in `PROJECT.json`, a change of the modelled code for
which TLC finds it violated.

CHECK_DEADLOCK is FALSE where the system, or what its bounds leave of it, stops:
the kext after stop, a client that has crashed, the Linux card after it is freed
or after a probe that never returns, a frame that is converted, the timestamps
after MaxPackets with no engine left, the output ring after MaxPackets, the
DriverKit driver after a request that failed. Elsewhere deadlock is checked.

`MCConversionsMore` checks more of the same and passes: encoding keeps the order of
floats (but for 1 itself), the wire is the one of the macOS driver, an inactive
substream is silent. Each module's TypeOK may be given as an invariant of its
configuration.

### What the runs found

Three violations are runs, and `findings` quotes the line each contradicts.

* GetZeroTimeStamp: `continue` in a do-while goes to the condition, which
  compares an odd sequence number with the `seq2` of the iteration before.
* stop of the kext: aborted transfers are resubmitted whatever their status and
  are in flight when the pipes are released. A device that is pulled out
  refuses them, which is why kext_transfers passes.
* PloytecDecodePCM of OzzyHAL reads channels 2, 4, 6 and 8 from byte 0x18 of a
  frame on. The device's frames have 64 bytes, and both other decoders read
  these channels from byte 0x20 on. Where the layouts agree, so do the samples
  (InputsAgree).

Further configurations state what a comment says, or what a reader of the code
would expect, and are violated. They are not listed as runs. A configuration
whose name ends in Fails has several such properties: TLC stops at the first,
and leaving one of its last lines shows that one, each in seconds.

| Configuration (module) | Property | What happens |
|---|---|---|
| MCLinuxStreamMutex | StartHoldsMutex (`pcm.c:158`) | the error path of init_urbs unlocks a mutex it has not locked |
| MCLinuxStreamFails | PanicMeansNoPcm (`pcm.c:62`) | transfers are submitted under panic by probe, and by a handler past its test |
| | HandlersUseOpenSubstreams (`pcm.c:623`) | close under panic leaves the substream active |
| | DisconnectedTakesNoCalls (`chip.c:379`) | after a failed reset, disconnect leaves the card open to calls |
| | RunsAtAskedRate (`pcm.c:177`) | while probe changes the rate, a prepare finds in devicerate the rate it wants, takes a reset for unnecessary, and its stream runs on at the other rate |
| MCLinuxStreamClosed | AllClosedMeansStopped (`pcm.c:629`) | close under panic leaves the stream running |
| MCLinuxProbeFails (LinuxProbe) | FailedProbeStopsTransfers | a probe that fails in MIDI or in the registration frees the card with PCM transfers in flight |
| | RuntimeFreedOnce | a MIDI transfer that cannot be set up has its runtime freed by the callee and the caller |
| | CardFoundAfterReset | justresetting is still set from a reset that failed: probe looks for a card that is gone and uses what it did not find |
| MCLinuxProbeOther (LinuxProbe) | OwnCardTakenUp | with two devices, the probe after the reset of one takes up the card of the other |
| MCLinuxUartFails (LinuxUart) | TransmittingIsLeftAlone (`midi.c:112`) | rt->out is never set, the test never holds |
| | CopiedIsCounted (`midi.c:119`) | uint8_t counters wrap before the overflow test can hold |
| MCConversionsFails | ReportedMeansElapsed (`pcm.c:243`) | period_off counts bytes and is compared with frames: a period is reported up to 24 times too often |
| | OzzyDeliversWithRunningStatus | a message without its status byte is dropped |
| | OzzyDeliversOnlySent | when a byte is lost the next data byte ends the message: one is delivered that nobody sent |
| | PloytecDeliversAll | the DriverKit driver waits for three bytes of every system common message |
| MCOutputBufferEarly (OutputBuffer) | InFlightOnlySilenced (`OzzyHAL.h:59`) | a packet that completes before driverReady is not counted, the clock lags and the safety offset is one packet short |
| MCClientsFails | NeverUsesUnmapped | the monitor unmaps between the test of mSHM and its use |
| | NoIOWhenDown | StartIO tests the connection, the monitor stops I/O, StartIO starts it |
| | SeedTellsSessionsApart | a device that comes back between two looks has the seed of the one before |
| | MidiNeverUsesUnmapped | the poll thread unmaps what Send has tested |
| | ConnectedIsOnline, LostIsOffline | one thread sets the device online or offline after the other has connected or disconnected |
| | OneDevice, NoMappingLost | both threads connect: two devices, or a mapping that is forgotten |
| MCPloytecDriverFails (PloytecDriver) | AbortedAreCounted | the wait for aborted transfers always runs into its timeout: what it waits for is behind it in the queue |
| | NoMoreThanAsked | the transfers of before go on beside the new ones: after each change there are more |
| | PacketAlwaysAtItsTime | packets that have grown do not start at a multiple of their size |

### Fairness

Safety runs assume none. The rings: each end takes its next step once it is in
an operation (a thread is scheduled), and packets keep completing. The
timestamp reader: its own next step only, since it must return whatever the
writer does. Linux: strong fairness of each callback, because a mutex waiter is
served in turn; weak fairness of the controller and handlers; strong fairness
of probe and disconnect, which also wait for the mutex. The Linux UART: the next
step of a write that has begun, and the transfers, which never pause. The probe
of a device: its next step, and the handlers and completions it waits for. The
kext: the steps of start, stop and message, and of
completions. The clients: the monitor and the poll thread are loops that sleep
for a fixed time, a call of Send goes on once begun, and a stop that has begun
ends. The DriverKit driver: its queues run their blocks, and the device takes the
packets. No device comes back, no application calls and no user unplugs by
fairness.

## 5. Proofs

Each theorem holds for every value of the constants that the module's assumptions
allow. They say what the code fixes or cannot work without: a ring has two slots or
more, a packet's parts fit it, packets come in even numbers, the period is a
multiple of a packet, a substream's transfers are its own. The names of the assumptions are in the module
that declares the constants, and each run evaluates those of its modules. A
hypothesis that only some values satisfy is in the theorem's ASSUME and in the list
below. `PROJECT.json` lists the theorems with the property each one states.

The proofs go one way: an invariant that holds at the start (IInv, or a part with
a name of its own), one step for each action, and the property from the invariant.
What is interesting in each is why the property needs more than itself.

* **MidiRingsProofs.** *midiOut* (`TypeCorrect`, `SlotsNeverShared`,
  `RingImplementsQueue`): each end's copy of its own index is the index, as nobody
  else stores it; between its test and its store Send knows a free slot and the
  packet a full one, because the other end's index, which may be old, only moves
  away from them; the byte stored is still there when it is published. The
  refinement maps the slots from readIndex to writeIndex to the abstract queue;
  each load or store is a step of MidiQueue or a stutter, by lemmas on what
  adding or taking a slot does to that queue. *midiIn* (`BatchIsLeftAlone`,
  `InRingImplementsQueue`): going round from the shared read index one meets the
  poll thread's `r`, then its `w`, then the shared write index; what is between
  the read index and `r` is the queue's `held`. *Linux send buffer*
  (`BytesInOrderUntilTheyMeet`): while `apart` stands, the bytes that are counted,
  and behind them those that are copied and soon will be, lie in order from the
  place of the next byte on, and are all that was written and not yet sent
  (`Ordered`). There is no hypothesis on when writes come: they overlap the
  handler's loads and stores everywhere else. Each of the four exceptions is a
  step that breaks `Ordered`.
* **TimestampProofs.** *Kext* (`ValidatedNeverTorn`): what a loaded half can be,
  given the sequence number loaded before it: of a publication at least as new,
  and of no newer one as long as the number is the same. *DriverKit driver*:
  `NoTransferIsLost`: outside a change, and as long as no request has failed,
  the shutdown flag is down (otherwise a block would abort instead of sending)
  and each pipe has its transfers, in flight, completed or as a block; the
  lemmas CountAppend and CountTail count the blocks of a pipe in the queue.
  `PacketOnTime`: the sample time stays a multiple of the packet's size.
  Hypothesis SizesNest: of two sizes the smaller divides the larger, as of those
  in `PloytecAppView.swift:48-56`. `ZeroTimestampsFollow`: the last zero timestamp
  is the last whole period of the time, and a packet is no longer than a period.
* **LinuxStreamProofs.** `StartHolds`, `UrbsRemadeIdle`, `FreedIsQuiet`, for any
  number of substreams and transfers: which thread is in probe or disconnect (a
  prepare waiting for its reset, or the hub) and what the device is then; that
  from the end of disconnect to probe's submissions nothing is in flight and no
  handler runs; that a card that is not up has seen its last transfer unless a
  probe pinned it. `StartsAtAskedRate`: from set_rate until the stream runs the
  rate probe will set is the caller's; devicerate is the device's rate but for the
  time in which probe sets it; and while the caller holds the mutex, that probe
  cannot end. Hypothesis: one substream. With two, the rate belongs to whoever
  asked last.
* **LinuxProbeProofs.** `HandlersFindTheirCard`, for any number of devices, cards
  and transfers: only a probe that made a card, or has it pinned, starts its
  transfers; ALSA does not free a pinned card; and how far a first probe has come
  with a card. The property leaves out cards whose first probe failed in midi_init
  or snd_card_register, where it does not hold (FailedProbeStopsTransfers).
  `RegisteredCardIsKept`: hypothesis OneDevice; with two, the probe of one takes
  the other's card (OwnCardTakenUp).
* **KextTransfersProofs.** `PacketsDiffer`, for every list of pipes and even number
  of packets: chain c has the packets of parity c. `ReleaseIsSafe`: a transfer in
  flight is on a pipe of the pool, so that an abort reaches it, and one that is
  aborted when the device is gone cannot be submitted again. Hypothesis
  OnlyUnplug (stop follows an unplug; run kext_release shows the other case).
  `MissingPipesMoveTransfers`, whichever pipes can be opened: place i of the pool
  has the i-th of them, which is endpoint i when none before is missing and one
  further back otherwise (`OpenedAtOrAfter`, by counting), and FindPipe looks
  there for endpoint i.
* **HalMonitorProofs.** `ShownIsAnnounced`, for any number of sessions and calls of
  StartIO: the monitor looks for a device only while nothing is mapped and no
  device is shown; a lost one goes from "clear" to "read", not back to "find".
* **OutputBufferProofs.** For every layout of a packet (parts, frames before the MIDI
  bytes, sizes) and size of the ring and of CoreAudio's buffers. A byte of the
  ring has a place (packet, part, offset); the lemmas FramePlace, FrameIsCleared
  and MidiApart show that the frames the codec writes, the bytes it clears and
  the engine's MIDI bytes, each computed by different code, meet where they
  should and nowhere else. `FramesAtTheirTime`: every frame that has been written
  is still there until the ring has come round to it, and buffers end less than a
  lap ahead of the clock. `MidiBytesStay`: the MIDI bytes of every packet of the
  ring are as given. Both hold also when packets complete before driverReady and
  the clock lags. `InFlightIsLeftAlone` and `InputIsSettled` need a clock that
  counts every packet (hypothesis Early = FALSE; MCOutputBufferEarly shows the
  other case); the second also a ring with room for a buffer and five packets:
  the two of the offset, the one by which the input may be ahead and the two that
  are being filled (the program's ring has 128).
* **ConversionProofs.** *Codec* (`AllEncodersAgree`, `LouderStaysLouder`,
  `DecodersHearAlike`), for every frame of floats and every frame of the device: no
  two bits of a frame have the same place on the wire, and the float's rounding
  keeps order; a float of exactly 1, which wraps, is left out of OrderKept, and
  the channels on which OzzyHAL's decoder differs are left out of InputsAgree. *Linux PCM*
  (`PointerIsRight`, `FramesMoveInOrder`, `EveryPeriodReported`,
  `SilenceIsComplete`), for every buffer and period hw_params may choose:
  `dmaOff` is the number of frames moved round the ring, and 24 times `periodPos`
  differs from `periodOff` by fewer than 24 periods, which is why a counter of
  bytes compared with frames never misses a period, although it reports too
  many. *Parsers* (`OzzyDelivers`, `PloytecDelivers`), for every set of status and
  data bytes: what a parser has buffered is the message as far as it has come;
  the DriverKit driver's keeps the status of a complete one for the next.

Only model-checked:

* liveness (QueueProgress, InQueueProgress, EveryCallReturns, EverythingIsSent,
  UnplugIsSignalled, EveryProbeReturns, DeviceIsShownAlone, LossIsTold,
  StaysConnectedAlone, EveryChangeEnds), which this prover cannot establish under
  fairness;
* `MidiConnection` and the properties in the table of section 4 that fail.

Every safety invariant, action property and refinement of a passing run is stated
by a theorem, for the values of the constants given above.

## 6. Assumptions and what is left out

* Memory is sequentially consistent. The kext's volatile accesses have no
  barriers, so on ARM more can happen than the modules show.
* The sequence number and packet counts do not wrap (months of play).
* The USB core and ALSA are modelled from how the driver uses them: a disabled
  endpoint fails its transfers before disconnect runs; a reset is refused while
  another thread is in probe or disconnect and for a device that is gone;
  snd_card_free waits for open files; ALSA calls prepare and trigger of a
  substream one at a time. `xonedb4_pcm_trigger` is one step: ALSA holds its
  stream lock. The two stores of stream_stop may be merged by the compiler.
* CoreAudio keeps to the times the HAL declares and is not late in the middle of
  a buffer; it may skip frames, and the ring then plays what the lap before left
  there. The input lags behind the output by two packets at most (Skew), which
  is what the safety offset allows. The first two packets of a pipe are
  submitted before the first of them completes.
* IOSleep(100) in stop is taken to be long enough for every completion routine
  to run that was pending.
* A float of exactly 1 is left out of OrderKept: it encodes as the lowest
  sample.
* MIDI output on Linux: SentInOrder and EverythingIsSent end where callback and
  handler have spoilt each other's work, which nothing in the code prevents.
* The stream: one `enabled` flag stands for the endpoints of both interfaces, so
  those of interface 1 fail their transfers together with those of interface 0;
  the runs have playback transfers only. For capture, disconnect's own poisoning
  is what ends them.
* prepare returns with the mutex held for a format other than S24_3LE; the
  hardware description offers no other, so the path is not in the model.
* Clients: a use of memory that is not mapped ends the process, so what is said
  of them holds as long as that has not happened (`NeverUsesUnmapped` and
  `MidiNeverUsesUnmapped` show that it can). The memory of a daemon, which both
  clients look for when there is no kext, is not modelled: no program of the
  repository creates it.
* CardKeepsItsDevice and OwnCardTakenUp differ by the number of devices: the first
  is checked for one.
* StuckInFree: a probe that has taken up a card after a reset and fails waits for
  ever in snd_card_free; EveryProbeReturns says that this is the only such place.
* The DriverKit driver: the wait of AbortUSBUrbs is one step that ends when its
  condition holds or its second is over; a completion's status is not looked at,
  as the handlers do not; sample times stop at MaxTime.
* Not modelled: property tables of the HAL and its Cleanup, logging, the user
  client and device matching, Start and Stop of the MIDI driver, the MIDI output
  ring, Stop and the copies of ioOperation of the DriverKit driver, the earlier
  HAL driver under `legacy/mac-hal` (the form `src/macos` had before), install
  scripts and project files.

---------------------------- MODULE PloytecDriver ----------------------------
(***************************************************************************)
(* The streaming of the earlier DriverKit driver for macOS (legacy/        *)
(* mac-coreaudio).  Completion handlers and calls of the control panel run *)
(* on the driver's default queue and only append blocks to the serial      *)
(* workQueue: a block per completed transfer, which submits the next one,  *)
(* and a block per change of the number or the size of the transfers,      *)
(* which polls for one second for the aborted transfers, resets the device *)
(* and starts over.  StartIO and StopIO append a block and wait for it.    *)
(*                                                                         *)
(* The pipes are the USB stack's: a new configuration completes all that   *)
(* was in flight, and a transfer may complete with an error at any time;   *)
(* the handlers do not look at the status.  Transfers of a pipe differ in  *)
(* nothing the properties see, so they are counted.                        *)
(***************************************************************************)
EXTENDS Integers, Sequences, FiniteSets

CONSTANTS Pipe,         \* "in", "out"
          InitialUrbs, UrbCounts,      \* transfers per pipe, the panel's choice
          InitialFrames, FrameCounts,  \* frames per transfer, the panel's choice
          MaxTime,      \* bound on HWSampleTimeOut: time stops there
          MaxChanges,   \* bound on the changes asked for
          MaxIO,        \* bound on the calls of StartIO
          MayFail       \* BOOLEAN: a request to the device may fail

Period == 2560    \* K_ZERO_TIME_STAMP_PERIOD
Never == -1       \* UINT64_MAX in lastZeroReported

ASSUME PipeAssumption == Pipe \subseteq {"in", "out"} /\ "out" \in Pipe
ASSUME CountsAssumption ==
  /\ InitialUrbs \in Nat \ {0} /\ UrbCounts \subseteq Nat \ {0}
  /\ \A f \in FrameCounts \cup {InitialFrames} :
       f \in 1 .. Period /\ Period % f = 0
ASSUME BoundsAssumption ==
  {MaxTime, MaxChanges, MaxIO} \subseteq Nat /\ MayFail \in BOOLEAN

VARIABLES
  started,                   \* Start: "no", "sending", "yes", "failed"
  queue,                     \* the blocks on workQueue
  change, at,                \* the change that runs, and where it is
  flight, completed,         \* each pipe: in flight, handler not yet run
  shutdown, aborted,         \* usbShutdownInProgress, usbPCM...AbortedCount
  urbCount, frames,          \* usbCurrentUrbCount, usbCurrentOutputFramesCount
  ioStarted, hwTime,         \* IOStarted, HWSampleTimeOut
  lastZero,                  \* lastZeroReported
  packet,                    \* the last packet: its first frame, its time
  grown,                     \* transfers have grown since StartIO
  failed,                    \* a request has failed
  changes, io                \* counters for the bounds

usb == <<flight, completed>>
abort == <<shutdown, aborted>>
counts == <<urbCount, frames>>
device == <<ioStarted, hwTime, lastZero, packet, grown>>
bounds == <<changes, io>>
driverVars == <<started, queue, change, at, usb, abort, counts, device, failed, bounds>>

Block(kind, n) == [kind |-> kind, n |-> n]
NoChange == Block("none", 0)
Change == [kind : {"urbs"}, n : UrbCounts] \cup [kind : {"frames"}, n : FrameCounts]

DriverTypeOK ==
  /\ started \in {"no", "sending", "yes", "failed"}
  /\ queue \in Seq(Change \cup [kind : Pipe \cup {"StartIO", "StopIO"}, n : {0}])
  /\ change \in Change \cup {NoChange}
  /\ at \in {"idle", "poll", "configure", "pipes", "flush", "send"}
  /\ {flight, completed, aborted} \subseteq [Pipe -> Nat]
  /\ {shutdown, ioStarted, grown, failed} \subseteq BOOLEAN
  /\ urbCount \in UrbCounts \cup {InitialUrbs}
  /\ frames \in FrameCounts \cup {InitialFrames}
  /\ hwTime \in Nat /\ lastZero \in Nat \cup {Never}
  /\ packet \in [first : Nat, time : Nat]
  /\ changes \in 0 .. MaxChanges /\ io \in 0 .. MaxIO

Nothing == [p \in Pipe |-> 0]

DriverInit ==
  /\ started = "no" /\ queue = <<>>
  /\ change = NoChange /\ at = "idle"
  /\ flight = Nothing /\ completed = Nothing
  /\ shutdown = FALSE /\ aborted = Nothing
  /\ urbCount = InitialUrbs /\ frames = InitialFrames
  /\ ioStarted = FALSE /\ hwTime = 0 /\ lastZero = 0
  /\ packet = [first |-> 0, time |-> 0] /\ grown = FALSE
  /\ failed = FALSE /\ changes = 0 /\ io = 0

Plus(f, p, n) == [f EXCEPT ![p] = @ + n]
Dispatch(block) == queue' = Append(queue, block)

-----------------------------------------------------------------------------
(* SendPCMUrbs, pair by pair: a request that fails leaves those before.    *)

SendPCMUrbs(num) ==
  /\ shutdown' = FALSE /\ urbCount' = num
  /\ \/ /\ flight' = [p \in Pipe |-> flight[p] + num]
        /\ UNCHANGED failed
     \/ /\ MayFail /\ failed' = TRUE
        /\ \E n \in 0 .. num - 1, m \in {0, 1} :
             flight' = [p \in Pipe |-> flight[p] + n + IF p = "in" THEN m ELSE 0]

\* Start holds the default queue, so no handler runs before it ends; it
\* fetches workQueue and creates the audio device only after it has sent.
Start ==
  /\ started = "no"
  /\ SendPCMUrbs(urbCount)
  /\ started' = "sending"
  /\ UNCHANGED <<queue, change, at, completed, aborted, frames, device, bounds>>

StartEnds ==
  /\ started = "sending"
  /\ started' = IF failed THEN "failed" ELSE "yes"
  /\ UNCHANGED <<queue, change, at, usb, abort, counts, device, failed, bounds>>

\* A transfer completes, or fails; the handler appends a block.
CompleteAsyncIO(p) ==
  /\ flight[p] > 0
  /\ flight' = Plus(flight, p, -1) /\ completed' = Plus(completed, p, 1)
  /\ UNCHANGED <<started, queue, change, at, abort, counts, device, failed, bounds>>

Handler(p) ==
  /\ started = "yes" /\ completed[p] > 0
  /\ completed' = Plus(completed, p, -1)
  /\ Dispatch(Block(p, 0))
  /\ UNCHANGED <<started, change, at, flight, abort, counts, device, failed, bounds>>

-----------------------------------------------------------------------------
(* The blocks of the handlers.                                             *)

Runs(block) ==
  /\ at = "idle" /\ queue # <<>> /\ Head(queue) = block
  /\ queue' = Tail(queue)

\* Both handlers begin so: Abort completes what is in flight, and counts.
BlockAborts(p) ==
  /\ Runs(Block(p, 0)) /\ shutdown
  /\ \/ /\ flight' = [flight EXCEPT ![p] = 0]
        /\ completed' = Plus(completed, p, flight[p])
        /\ aborted' = Plus(aborted, p, 1) /\ UNCHANGED failed
     \/ MayFail /\ failed' = TRUE /\ UNCHANGED <<usb, aborted>>
  /\ UNCHANGED <<started, change, at, shutdown, counts, device, bounds>>

Submit(p) ==
  \/ flight' = Plus(flight, p, 1) /\ UNCHANGED failed
  \/ MayFail /\ failed' = TRUE /\ UNCHANGED flight

\* PCMinHandler; Capture only counts.
BlockIn ==
  /\ Runs(Block("in", 0)) /\ ~shutdown
  /\ Submit("in")
  /\ UNCHANGED <<started, change, at, completed, abort, counts, device, bounds>>

ExpectedZero(time) == (time \div Period) * Period

Segment(time) == (time % Period) \div frames

\* PloytecDevice::Playback: the segment to send next, and the zero timestamp.
Playback ==
  /\ packet' = [first |-> Segment(hwTime) * frames, time |-> hwTime % Period]
  /\ UNCHANGED <<ioStarted, grown>>
  /\ IF ioStarted /\ hwTime + frames <= MaxTime
       THEN hwTime' = hwTime + frames /\ lastZero' = ExpectedZero(hwTime + frames)
       ELSE UNCHANGED <<hwTime, lastZero>>

MutOnlyWhenStarted ==
  /\ Runs(Block("out", 0)) /\ ~shutdown
  /\ Playback
  /\ IF ioStarted THEN Submit("out") ELSE UNCHANGED <<flight, failed>>
  /\ UNCHANGED <<started, change, at, completed, abort, counts, bounds>>

\* PCMoutHandler
BlockOut ==
  /\ Runs(Block("out", 0)) /\ ~shutdown
  /\ Playback
  /\ Submit("out")
  /\ UNCHANGED <<started, change, at, completed, abort, counts, bounds>>

-----------------------------------------------------------------------------
(* The control panel: SetCurrentUrbCount and SetFrameCount.                *)

AskChange(c) ==
  /\ started = "yes" /\ changes < MaxChanges
  /\ changes' = changes + 1
  /\ Dispatch(c)
  /\ UNCHANGED <<started, change, at, usb, abort, counts, device, failed, io>>

\* AbortUSBUrbs waits, in the only thread that could advance the counters.
BeginChange(c) ==
  /\ Runs(c)
  /\ change' = c /\ at' = "poll"
  /\ shutdown' = TRUE
  /\ UNCHANGED <<started, usb, aborted, counts, device, failed, bounds>>

MutNoTimeout ==
  /\ at = "poll" /\ \A p \in Pipe : aborted[p] >= urbCount
  /\ at' = "configure"
  /\ UNCHANGED <<started, queue, change, usb, abort, counts, device, failed, bounds>>

\* Either enough are aborted or the time is up.
AbortPoll ==
  /\ at = "poll"
  /\ at' = "configure"
  /\ UNCHANGED <<started, queue, change, usb, abort, counts, device, failed, bounds>>

\* SetConfiguration(0) ends all transfers.  Whatever fails, the callers of
\* AbortUSBUrbs go on.
Configure ==
  /\ at = "configure"
  /\ UNCHANGED <<started, queue, change, abort, counts, device, bounds>>
  /\ \/ /\ flight' = Nothing
        /\ completed' = [p \in Pipe |-> completed[p] + flight[p]]
        /\ at' = "pipes" /\ UNCHANGED failed
     \/ MayFail /\ failed' = TRUE /\ at' = "send" /\ UNCHANGED usb

\* The pipes of the new configuration: any of the requests may fail.
CreateUSBPipes ==
  /\ at = "pipes"
  /\ UNCHANGED <<started, queue, change, usb, abort, counts, device, bounds>>
  /\ \/ at' = "flush" /\ UNCHANGED failed
     \/ MayFail /\ failed' = TRUE /\ at' = "send"

\* The status request and SendMIDIUrbs, which ends the shutdown first.
Flush ==
  /\ at = "flush"
  /\ at' = "send"
  /\ UNCHANGED <<started, queue, change, usb, counts, device, bounds>>
  /\ \/ aborted' = Nothing /\ shutdown' = FALSE /\ UNCHANGED failed
     \/ MayFail /\ failed' = TRUE /\ shutdown' \in {shutdown, FALSE} /\ UNCHANGED aborted

\* The block is over, whatever became of it.
EndBlock ==
  /\ at' = "idle" /\ change' = NoChange
  /\ UNCHANGED <<started, queue, completed, aborted, ioStarted, hwTime, lastZero,
                 packet, bounds>>

SetCurrentUrbCount ==
  /\ at = "send" /\ change.kind = "urbs"
  /\ SendPCMUrbs(change.n)
  /\ EndBlock /\ UNCHANGED <<frames, grown>>

\* The ring cut into transfers of the new size: a failure leaves it half cut.
CreateBuffers ==
  \/ SendPCMUrbs(urbCount)
  \/ MayFail /\ failed' = TRUE /\ UNCHANGED <<flight, shutdown, urbCount>>

SetFrameCount ==
  /\ at = "send" /\ change.kind = "frames"
  /\ frames' = change.n /\ grown' = (grown \/ change.n > frames)
  /\ CreateBuffers
  /\ EndBlock

-----------------------------------------------------------------------------
(* PloytecDevice::StartIO and StopIO.                                      *)

Ask(kind) ==
  /\ started = "yes"
  /\ \A i \in 1 .. Len(queue) : queue[i].kind \notin {"StartIO", "StopIO"}
  /\ Dispatch(Block(kind, 0))
  /\ UNCHANGED <<started, change, at, usb, abort, counts, device, failed, changes>>

AskStartIO == io < MaxIO /\ ~ioStarted /\ io' = io + 1 /\ Ask("StartIO")
AskStopIO == ioStarted /\ UNCHANGED io /\ Ask("StopIO")

Fresh(time, zero) ==
  /\ hwTime' = time /\ lastZero' = zero
  /\ grown' = FALSE /\ packet' = [first |-> 0, time |-> 0]

MutTimeKept ==
  /\ Runs(Block("StartIO", 0))
  /\ ioStarted' = TRUE /\ Fresh(hwTime, Never)
  /\ UNCHANGED <<started, change, at, usb, abort, counts, failed, bounds>>

MutZeroKept ==
  /\ Runs(Block("StartIO", 0))
  /\ ioStarted' = TRUE /\ Fresh(0, lastZero)
  /\ UNCHANGED <<started, change, at, usb, abort, counts, failed, bounds>>

\* A call that fails may have reset the times; its cleanup ends the I/O.
StartIO ==
  /\ Runs(Block("StartIO", 0))
  /\ \/ ioStarted' = TRUE /\ Fresh(0, Never)
     \/ MayFail /\ ioStarted' = FALSE /\ Fresh(0, Never)
     \/ MayFail /\ ioStarted' = FALSE /\ UNCHANGED <<hwTime, lastZero, grown, packet>>
  /\ UNCHANGED <<started, change, at, usb, abort, counts, failed, bounds>>

StopIO ==
  /\ Runs(Block("StopIO", 0))
  /\ ioStarted' = FALSE
  /\ UNCHANGED <<started, change, at, usb, abort, counts, hwTime, lastZero, packet,
                 grown, failed, bounds>>

-----------------------------------------------------------------------------
WorkQueue ==
  \/ \E p \in Pipe : BlockAborts(p)
  \/ "in" \in Pipe /\ BlockIn
  \/ BlockOut \/ AbortPoll \/ Configure \/ CreateUSBPipes \/ Flush
  \/ SetCurrentUrbCount \/ SetFrameCount
  \/ \E c \in Change : BeginChange(c)
  \/ StartIO \/ StopIO

DriverNext ==
  \/ Start \/ StartEnds
  \/ \E p \in Pipe : CompleteAsyncIO(p) \/ Handler(p)
  \/ \E c \in Change : AskChange(c)
  \/ AskStartIO \/ AskStopIO
  \/ WorkQueue

DriverSpec == DriverInit /\ [][DriverNext]_driverVars

\* The queue's thread and the default queue go on, and the device takes the
\* packets.
Fairness ==
  /\ WF_driverVars(StartEnds) /\ WF_driverVars(WorkQueue)
  /\ \A p \in Pipe : WF_driverVars(CompleteAsyncIO(p)) /\ WF_driverVars(Handler(p))
DriverFairSpec == DriverSpec /\ Fairness

-----------------------------------------------------------------------------
(* Properties                                                              *)

Count(s, kind) == Cardinality({i \in 1 .. Len(s) : s[i].kind = kind})
Blocks(p) == Count(queue, p)
Transfers(p) == flight[p] + completed[p] + Blocks(p)

\* No transfer gets lost: whatever a change, an abort and the handlers do in
\* between, every pipe keeps at least as many transfers as it should have.
TransfersKept ==
  started = "yes" /\ ~failed /\ at = "idle" =>
    \A p \in Pipe : Transfers(p) >= urbCount

\* A packet has the frames of its sample time, although the time goes on
\* while transfers are resized: unless they have grown since StartIO.
PacketAtItsTime == ~grown => packet.first = packet.time

\* Zero timestamps are consecutive multiples of the period, however many
\* frames a packet has.
ZeroTimestampsConsecutive ==
  [][lastZero # Never /\ lastZero' \notin {Never, lastZero} =>
       lastZero' = lastZero + Period /\ lastZero' <= hwTime']_driverVars

\* Every change asked for is made, although what the change waits for cannot
\* happen: the blocks that count the aborted transfers are behind it.
EveryChangeEnds ==
  (\E i \in 1 .. Len(queue) : queue[i] \in Change) \/ at # "idle" ~>
    at = "idle" /\ \A i \in 1 .. Len(queue) : queue[i] \notin Change

\* What fails: after a change the old transfers go on beside the new ones,
\* grown transfers are out of step with the time, and a failed request ends
\* the streaming.
NoMoreThanAsked == at = "idle" => \A p \in Pipe : Transfers(p) <= urbCount
PacketAlwaysAtItsTime == packet.first = packet.time
AbortedAreCounted == at = "configure" => \A p \in Pipe : aborted[p] >= urbCount
=============================================================================

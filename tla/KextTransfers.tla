---------------------------- MODULE KextTransfers ----------------------------
(***************************************************************************)
(* The life of the kext: start and stop of OzzyKext, the notification that *)
(* the device is gone, and the USB transfers the Ploytec engine keeps      *)
(* going.  Two transfers are in flight on every pipe; the completion       *)
(* routine of each submits the packet two further on.                      *)
(*                                                                         *)
(* start and stop run on one IOKit thread, the notification on another and *)
(* the completion routines on the USB stack's: the three interleave here   *)
(* between the calls the code makes.  The USB stack is modelled from how   *)
(* the kext uses it: aborting a pipe completes its transfers with an       *)
(* error, and it takes new ones as long as the device is there.            *)
(***************************************************************************)
EXTENDS Integers, Sequences, FiniteSets

CONSTANTS Pipes,      \* the endpoints, in the order ConfigureHardware has them
          Openable,   \* those of which copyPipe returns a pipe
          NumPackets, \* kOzzyNumPackets, packets of a pipe's ring
          NoPipe,     \* nullptr
          OnlyUnplug  \* BOOLEAN: stop comes only for a device that is gone

ASSUME PipesAssumption == Pipes \in Seq(STRING) /\ NoPipe \notin STRING
ASSUME DistinctAssumption ==
  \A i, j \in 1 .. Len(Pipes) : Pipes[i] = Pipes[j] => i = j
ASSUME PacketsAssumption ==
  NumPackets \in Nat /\ NumPackets >= 4 /\ NumPackets % 2 = 0
ASSUME OnlyUnplugAssumption == OnlyUnplug \in BOOLEAN

VARIABLES
  life,        \* where start and stop are
  kick,        \* transfers the kickstart has submitted
  notice,      \* where the notification is
  gone,        \* the device has been pulled out
  mPipes,      \* the pool the bus finds its pipes in
  objects,     \* engine, bus and mapping: "none", "alive", "deleted"
  magic, hardwarePresent, driverReady,  \* in the shared memory
  xfer         \* per endpoint, its two chains of transfers

flags == <<magic, hardwarePresent, driverReady>>
vars == <<life, kick, notice, gone, mPipes, objects, flags, xfer>>

Endpoint == {Pipes[i] : i \in 1 .. Len(Pipes)}
Packet == 0 .. NumPackets - 1
Chain == {0, 1}
Transfer == [state : {"none", "flight", "aborted", "calling"}, packet : Packet,
             on : Endpoint \cup {NoPipe}]

TypeOK ==
  /\ life \in {"idle", "mapped", "configured", "kick", "running", "stop",
               "abort", "sleep", "release", "delete", "stopped", "failed"}
  /\ kick \in 0 .. 2 * Len(Pipes)
  /\ notice \in {"none", "flags", "abort", "told"}
  /\ gone \in BOOLEAN
  /\ mPipes \in [1 .. Len(Pipes) -> Endpoint \cup {NoPipe}]
  /\ objects \in {"none", "alive", "deleted"}
  /\ magic \in BOOLEAN /\ hardwarePresent \in BOOLEAN /\ driverReady \in BOOLEAN
  /\ xfer \in [Endpoint -> [Chain -> Transfer]]

Init ==
  /\ life = "idle" /\ kick = 0 /\ notice = "none" /\ gone = FALSE
  /\ mPipes = [i \in 1 .. Len(Pipes) |-> NoPipe]
  /\ objects = "none"
  /\ magic = FALSE /\ hardwarePresent = FALSE /\ driverReady = FALSE
  /\ xfer = [p \in Endpoint |->
               [c \in Chain |-> [state |-> "none", packet |-> c, on |-> NoPipe]]]

-----------------------------------------------------------------------------
(* The bus.                                                                *)

MutPlacesReversed(p) ==
  mPipes[Len(Pipes) + 1 - CHOOSE i \in 1 .. Len(Pipes) : Pipes[i] = p]

\* FindPipe: a fixed place in the pool for every endpoint address.
FindPipe(p) == mPipes[CHOOSE i \in 1 .. Len(Pipes) : Pipes[i] = p]

\* SubmitUSBPacket: without a pipe, or a device to take it, the chain ends.
Submitted(p, packet) ==
  [state |-> IF FindPipe(p) # NoPipe /\ ~gone THEN "flight" ELSE "none",
   packet |-> packet, on |-> FindPipe(p)]

Submit(p, c, packet) == xfer' = [xfer EXCEPT ![p][c] = Submitted(p, packet)]

\* abort() of every pipe of the pool.
Aborted ==
  [p \in Endpoint |-> [c \in Chain |->
     IF xfer[p][c].state = "flight" /\ \E i \in DOMAIN mPipes : mPipes[i] # NoPipe
                                                  /\ mPipes[i] = xfer[p][c].on
       THEN [xfer[p][c] EXCEPT !.state = "aborted"] ELSE xfer[p][c]]]

-----------------------------------------------------------------------------
(* start.                                                                  *)

MapSharedMemory ==
  /\ life = "idle" /\ ~gone
  /\ life' = "mapped"
  /\ magic' = TRUE /\ hardwarePresent' = FALSE /\ driverReady' = FALSE
  /\ UNCHANGED <<kick, notice, gone, mPipes, objects, xfer>>

\* start returns false and leaves behind what it has made so far.
FailStart ==
  /\ life \in {"mapped", "configured"}
  /\ life' = "failed"
  /\ objects' = "alive"
  /\ UNCHANGED <<kick, notice, gone, mPipes, flags, xfer>>

\* The pipes that could be opened fill the pool from its first place on: the
\* endpoint that comes to place i is the i-th of the openable ones.
OpenedAt(i) ==
  {j \in 1 .. Len(Pipes) :
     /\ Pipes[j] \in Openable
     /\ Cardinality({k \in 1 .. j : Pipes[k] \in Openable}) = i}

ConfigureHardware ==
  /\ life = "mapped"
  /\ life' = "configured"
  /\ objects' = "alive"
  /\ mPipes' = [i \in 1 .. Len(Pipes) |->
       IF OpenedAt(i) = {} THEN NoPipe ELSE Pipes[CHOOSE j \in OpenedAt(i) : TRUE]]
  /\ UNCHANGED <<kick, notice, gone, flags, xfer>>

\* PloytecEngine::Start up to the kickstart: the device has answered.
Handshake ==
  /\ life = "configured"
  /\ hardwarePresent' = TRUE
  /\ life' = "kick"
  /\ UNCHANGED <<kick, notice, gone, mPipes, objects, magic, driverReady, xfer>>

\* Packets 0, then packets 1, of every pipe; the result is not looked at.
Kickstart ==
  /\ life = "kick" /\ kick < 2 * Len(Pipes)
  /\ LET p == Pipes[(kick % Len(Pipes)) + 1]
         c == kick \div Len(Pipes)
     IN  Submit(p, c, c)
  /\ kick' = kick + 1
  /\ UNCHANGED <<life, notice, gone, mPipes, objects, flags>>

Ready ==
  /\ life = "kick" /\ kick = 2 * Len(Pipes)
  /\ driverReady' = TRUE
  /\ life' = "running"
  /\ UNCHANGED <<kick, notice, gone, mPipes, objects, magic, hardwarePresent, xfer>>

-----------------------------------------------------------------------------
(* The completion routine, from KextBus_GlobalCompletion to the engine's   *)
(* OnPacketComplete.  It does not look at the status: an aborted transfer  *)
(* is followed by the next one like any other.                             *)

Complete(p, c) ==
  /\ xfer[p][c].state \in {"flight", "aborted"}
  /\ xfer' = [xfer EXCEPT ![p][c].state = "calling"]
  /\ UNCHANGED <<life, kick, notice, gone, mPipes, objects, flags>>

MutOnePacketOn(p, c) ==
  /\ xfer[p][c].state = "calling"
  /\ Submit(p, c, (xfer[p][c].packet + 1) % NumPackets)
  /\ UNCHANGED <<life, kick, notice, gone, mPipes, objects, flags>>

OnPacketComplete(p, c) ==
  /\ xfer[p][c].state = "calling"
  /\ Submit(p, c, (xfer[p][c].packet + 2) % NumPackets)
  /\ UNCHANGED <<life, kick, notice, gone, mPipes, objects, flags>>

-----------------------------------------------------------------------------
(* The device goes; message(kIOMessageServiceIsTerminated).                *)

Unplug ==
  /\ life # "idle" /\ ~gone
  /\ gone' = TRUE
  /\ notice' = "flags"
  /\ UNCHANGED <<life, kick, mPipes, objects, flags, xfer>>

\* The flags are cleared here, and in Stop of an engine that exists.
MessageFlags ==
  /\ notice = "flags"
  /\ hardwarePresent' = FALSE /\ driverReady' = FALSE
  /\ notice' = "abort"
  /\ UNCHANGED <<life, kick, gone, mPipes, objects, magic, xfer>>

MessageAbort ==
  /\ notice = "abort"
  /\ xfer' = Aborted
  /\ notice' = "told"
  /\ UNCHANGED <<life, kick, gone, mPipes, objects, flags>>

-----------------------------------------------------------------------------
(* stop, which IOKit calls for a driver that has started, after it has     *)
(* told it that the device is gone, or when the driver is unloaded.        *)

Stop ==
  /\ life = "running"
  /\ IF gone THEN notice = "told" ELSE ~OnlyUnplug
  /\ magic' = FALSE
  /\ life' = "stop"
  /\ UNCHANGED <<kick, notice, gone, mPipes, objects, hardwarePresent,
                 driverReady, xfer>>

MutStopKeepsFlags ==
  /\ life = "stop"
  /\ life' = "abort"
  /\ UNCHANGED <<kick, notice, gone, mPipes, objects, flags, xfer>>

StopEngine ==
  /\ life = "stop"
  /\ driverReady' = FALSE /\ hardwarePresent' = FALSE
  /\ life' = "abort"
  /\ UNCHANGED <<kick, notice, gone, mPipes, objects, magic, xfer>>

StopAbort ==
  /\ life = "abort"
  /\ xfer' = Aborted
  /\ life' = "sleep"
  /\ UNCHANGED <<kick, notice, gone, mPipes, objects, flags>>

MutNoSleep ==
  /\ life = "sleep"
  /\ life' = "release"
  /\ UNCHANGED <<kick, notice, gone, mPipes, objects, flags, xfer>>

\* IOSleep(100): long enough for the routines of the aborted transfers.
StopSleep ==
  /\ life = "sleep"
  /\ \A p \in Endpoint, c \in Chain : xfer[p][c].state \notin {"aborted", "calling"}
  /\ life' = "release"
  /\ UNCHANGED <<kick, notice, gone, mPipes, objects, flags, xfer>>

StopRelease ==
  /\ life = "release"
  /\ mPipes' = [i \in DOMAIN mPipes |-> NoPipe]
  /\ life' = "delete"
  /\ UNCHANGED <<kick, notice, gone, objects, flags, xfer>>

StopDelete ==
  /\ life = "delete"
  /\ objects' = "deleted"
  /\ life' = "stopped"
  /\ UNCHANGED <<kick, notice, gone, mPipes, flags, xfer>>

-----------------------------------------------------------------------------
Lifecycle ==
  \/ MapSharedMemory \/ ConfigureHardware \/ Handshake \/ Kickstart \/ Ready
  \/ FailStart \/ Stop \/ StopEngine \/ StopAbort \/ StopSleep \/ StopRelease
  \/ StopDelete

Message == MessageFlags \/ MessageAbort

Routine(p, c) == Complete(p, c) \/ OnPacketComplete(p, c)

Next ==
  \/ Lifecycle \/ Unplug \/ Message
  \/ \E p \in Endpoint, c \in Chain : Routine(p, c)

Spec == Init /\ [][Next]_vars

(* IOKit runs start and stop to their end, delivers the notification, and  *)
(* the USB stack completes what was aborted.                               *)
Fairness ==
  /\ WF_vars(Lifecycle)
  /\ WF_vars(Message)
  /\ \A p \in Endpoint, c \in Chain : WF_vars(OnPacketComplete(p, c))
  /\ \A p \in Endpoint, c \in Chain :
       WF_vars(xfer[p][c].state = "aborted" /\ Complete(p, c))

FairSpec == Spec /\ Fairness

-----------------------------------------------------------------------------
(* The two transfers in flight on a pipe never use the same packet of the  *)
(* ring, although each completion routine only knows its own packet.       *)
PacketsInFlightDiffer ==
  \A p \in Endpoint :
    (\A c \in Chain : xfer[p][c].state # "none") /\ life # "kick" =>
      xfer[p][0].packet # xfer[p][1].packet

(* Where a transfer goes when pipes could not be opened.  OzzyKext.cpp:375 *)
(* goes on without them, and the later pipes move up in the pool, in which *)
(* FindPipe looks by position: a transfer is on the pipe of its endpoint   *)
(* exactly when that pipe and all before it could be opened, and otherwise *)
(* on the pipe of an endpoint further back, never of one before.           *)
TransfersMoveUp ==
  \A i \in 1 .. Len(Pipes), c \in Chain :
    LET on == xfer[Pipes[i]][c].on
    IN  on # NoPipe =>
          /\ on = Pipes[i] <=> \A k \in 1 .. i : Pipes[k] \in Openable
          /\ \E j \in i .. Len(Pipes) : on = Pipes[j]

(* OzzyKext.cpp:239-242, "Give USB stack time to complete callbacks" and   *)
(* "Now safe to release pipes": when stop releases the pipes no transfer   *)
(* is in flight and no completion routine runs.                            *)
SafeToReleasePipes ==
  life \in {"release", "delete", "stopped"} =>
    \A p \in Endpoint, c \in Chain : xfer[p][c].state = "none"

(* Once the device is gone the shared memory comes to say so for good,     *)
(* although start may be setting the flags while the notification clears   *)
(* them.                                                                   *)
UnplugIsSignalled ==
  gone ~> [](~hardwarePresent /\ ~driverReady)
=============================================================================

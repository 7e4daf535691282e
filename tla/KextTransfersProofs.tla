------------------------- MODULE KextTransfersProofs -------------------------
(***************************************************************************)
(* Proofs, for every number of pipes and packets and whichever pipes can   *)
(* be opened, about the transfers of the kext: the two of a pipe never use *)
(* the same packet, none is left when the pipes of a device that was       *)
(* pulled out are released, and a transfer goes to the pipe of its         *)
(* endpoint exactly when that one and all before it could be opened.       *)
(***************************************************************************)
EXTENDS KextTransfers, FiniteSetTheorems, TLAPS

USE PipesAssumption, PacketsAssumption, OnlyUnplugAssumption

-----------------------------------------------------------------------------
(* The invariant.                                                          *)

Some(states) == \E p \in Endpoint, c \in Chain : xfer[p][c].state \in states

(* Chain c has the packets of its own parity: the ring has an even number  *)
(* of them and every transfer is followed by the packet two further on.    *)
ParityInv == \A p \in Endpoint, c \in Chain : xfer[p][c].packet % 2 = c

(* What is in flight is on a pipe of the pool until stop releases them.    *)
InPool(on) == \E i \in DOMAIN mPipes : mPipes[i] # NoPipe /\ mPipes[i] = on
PoolInv ==
  /\ life \in {"idle", "mapped", "configured"} =>
       ~Some({"flight", "aborted", "calling"})
  /\ life \notin {"delete", "stopped"} =>
       \A p \in Endpoint, c \in Chain :
         xfer[p][c].state = "flight" => InPool(xfer[p][c].on)

(* The notification is on its way exactly when the device is gone.  When   *)
(* stop comes only for a device that is gone it comes after the            *)
(* notification, and nothing is in flight from there on; and nothing at    *)
(* all after its sleep.                                                    *)
GoneInv ==
  /\ gone <=> notice # "none"
  /\ OnlyUnplug =>
       /\ life \in {"stop", "abort", "sleep", "release", "delete", "stopped"}
            => notice = "told"
       /\ notice = "told" => ~Some({"flight"})
       /\ life \in {"release", "delete", "stopped"}
            => ~Some({"flight", "aborted", "calling"})

IInv == TypeOK /\ ParityInv /\ PoolInv /\ GoneInv

-----------------------------------------------------------------------------
(* Lemmas about the bus.                                                   *)

(* The endpoint after k kickstarted transfers, and its chain.              *)
LEMMA KickstartOrder ==
  ASSUME NEW k \in Nat, k < 2 * Len(Pipes)
  PROVE  Pipes[(k % Len(Pipes)) + 1] \in Endpoint /\ k \div Len(Pipes) \in Chain
<1> DEFINE n == Len(Pipes)
<1>1. n \in Nat /\ n > 0
  OBVIOUS
<1> HIDE DEF n
<1>2. k % n \in 0 .. n - 1
  BY <1>1
<1>3. k \div n \in {0, 1}
  <2>1. k < 2 * n
    BY DEF n
  <2> QED
    BY <1>1, <2>1
<1> QED
  BY <1>1, <1>2, <1>3 DEF n, Endpoint, Chain

(* Every endpoint has its place in the pool.                               *)
LEMMA FindPipeType ==
  ASSUME mPipes \in [1 .. Len(Pipes) -> Endpoint \cup {NoPipe}],
         NEW p \in Endpoint
  PROVE  /\ FindPipe(p) \in Endpoint \cup {NoPipe}
         /\ FindPipe(p) # NoPipe => InPool(FindPipe(p))
<1> DEFINE i == CHOOSE j \in 1 .. Len(Pipes) : Pipes[j] = p
<1>1. i \in 1 .. Len(Pipes)
  BY DEF Endpoint
<1>2. FindPipe(p) = mPipes[i]
  BY DEF FindPipe
<1> HIDE DEF i
<1> QED
  BY <1>1, <1>2 DEF InPool

(* The packet two further on is a packet of the ring, of the same parity.  *)
LEMMA NextPacket ==
  ASSUME NEW k \in Packet
  PROVE  (k + 2) % NumPackets \in Packet /\ ((k + 2) % NumPackets) % 2 = k % 2
<1>1. CASE k + 2 < NumPackets
  BY <1>1 DEF Packet
<1>2. CASE k + 2 >= NumPackets
  <2>1. (k + 2) % NumPackets = k + 2 - NumPackets
    BY <1>2 DEF Packet
  <2> QED
    BY <1>2, <2>1 DEF Packet
<1> QED
  BY <1>1, <1>2 DEF Packet

(* A submitted transfer is in flight on a pipe of the pool, or its chain   *)
(* ends; it changes nothing else.                                          *)
LEMMA SubmitResult ==
  ASSUME TypeOK, NEW p \in Endpoint, NEW c \in Chain, NEW k \in Packet,
         Submit(p, c, k)
  PROVE  /\ xfer' \in [Endpoint -> [Chain -> Transfer]]
         /\ xfer'[p][c].packet = k
         /\ xfer'[p][c].state \in {"none", "flight"}
         /\ xfer'[p][c].state = "flight" => ~gone /\ InPool(xfer'[p][c].on)
         /\ \A q \in Endpoint, d \in Chain :
              (q # p \/ d # c) => xfer'[q][d] = xfer[q][d]
<1> USE DEF TypeOK
<1>1. Submitted(p, k) \in Transfer
  BY FindPipeType DEF Submitted, Transfer
<1>2. xfer' = [xfer EXCEPT ![p] = [@ EXCEPT ![c] = Submitted(p, k)]]
  BY DEF Submit
<1>3. xfer'[p][c] = Submitted(p, k)
  BY <1>2
<1>4. Submitted(p, k).state = "flight" =>
        ~gone /\ InPool(Submitted(p, k).on)
  BY FindPipeType DEF Submitted
<1>5. /\ Submitted(p, k).packet = k
      /\ Submitted(p, k).state \in {"none", "flight"}
  BY DEF Submitted
<1>6. xfer' \in [Endpoint -> [Chain -> Transfer]]
  BY <1>1, <1>2
<1>7. \A q \in Endpoint, d \in Chain :
        (q # p \/ d # c) => xfer'[q][d] = xfer[q][d]
  BY <1>2
<1> QED
  BY <1>3, <1>4, <1>5, <1>6, <1>7

(* Aborting the pipes of the pool ends what is in flight on them.          *)
LEMMA AbortResult ==
  ASSUME TypeOK, xfer' = Aborted
  PROVE  /\ xfer' \in [Endpoint -> [Chain -> Transfer]]
         /\ \A p \in Endpoint, c \in Chain :
              /\ xfer'[p][c].packet = xfer[p][c].packet
              /\ xfer'[p][c].on = xfer[p][c].on
              /\ xfer[p][c].state = "flight" /\ InPool(xfer[p][c].on)
                   => xfer'[p][c].state = "aborted"
              /\ ~(xfer[p][c].state = "flight" /\ InPool(xfer[p][c].on))
                   => xfer'[p][c].state = xfer[p][c].state
<1> USE DEF TypeOK
<1>1. ASSUME NEW p \in Endpoint, NEW c \in Chain
      PROVE  /\ xfer'[p][c] \in Transfer
             /\ xfer'[p][c].packet = xfer[p][c].packet
             /\ xfer'[p][c].on = xfer[p][c].on
             /\ xfer[p][c].state = "flight" /\ InPool(xfer[p][c].on)
                  => xfer'[p][c].state = "aborted"
             /\ ~(xfer[p][c].state = "flight" /\ InPool(xfer[p][c].on))
                  => xfer'[p][c].state = xfer[p][c].state
  <2>1. xfer[p][c] \in Transfer
    OBVIOUS
  <2>2. xfer'[p][c] = IF xfer[p][c].state = "flight" /\ InPool(xfer[p][c].on)
                        THEN [xfer[p][c] EXCEPT !.state = "aborted"]
                        ELSE xfer[p][c]
    BY DEF Aborted, InPool
  <2> QED
    BY <2>1, <2>2 DEF Transfer
<1>2. xfer' = [p \in Endpoint |-> [c \in Chain |-> xfer'[p][c]]]
  BY DEF Aborted
<1> QED
  BY <1>1, <1>2

-----------------------------------------------------------------------------
(* Every step preserves the invariant.                                     *)

LEMMA IInvInit == Init => IInv
<1> SUFFICES ASSUME Init PROVE IInv
  OBVIOUS
<1> USE DEF Init
<1>1. \A c \in Chain : [state |-> "none", packet |-> c, on |-> NoPipe] \in Transfer
  BY DEF Transfer, Packet, Chain
<1>2. xfer \in [Endpoint -> [Chain -> Transfer]]
  BY <1>1
<1>3. magic \in BOOLEAN /\ hardwarePresent \in BOOLEAN /\ driverReady \in BOOLEAN
  OBVIOUS
<1>4. mPipes \in [1 .. Len(Pipes) -> Endpoint \cup {NoPipe}]
  OBVIOUS
<1>5. life = "idle" /\ kick \in 0 .. 2 * Len(Pipes)
  OBVIOUS
<1>6. TypeOK
  BY <1>2, <1>3, <1>4, <1>5 DEF TypeOK
<1>7. ParityInv
  <2>1. 0 % 2 = 0 /\ 1 % 2 = 1
    OBVIOUS
  <2>2. \A p \in Endpoint, c \in Chain : xfer[p][c].packet = c
    OBVIOUS
  <2> QED
    BY <2>1, <2>2 DEF ParityInv, Chain
<1>8. PoolInv /\ GoneInv
  BY DEF PoolInv, GoneInv, Some
<1> QED
  BY <1>6, <1>7, <1>8 DEF IInv

(* Submitting a packet of the chain's parity, from the kickstart or from a *)
(* completion routine.                                                     *)
LEMMA SubmitKeepsIInv ==
  ASSUME IInv, NEW p \in Endpoint, NEW c \in Chain, NEW k \in Packet,
         k % 2 = c, Submit(p, c, k),
         life = "kick" \/ xfer[p][c].state = "calling",
         kick' \in 0 .. 2 * Len(Pipes),
         UNCHANGED <<life, notice, gone, mPipes, objects, flags>>
  PROVE  IInv'
<1> USE DEF IInv, flags
<1>1. TypeOK'
  BY SubmitResult DEF TypeOK
<1>2. ParityInv'
  BY SubmitResult DEF ParityInv
<1>3. PoolInv'
  BY SubmitResult DEF PoolInv, Some, InPool
<1>4. GoneInv'
  BY SubmitResult DEF GoneInv, Some
<1> QED
  BY <1>1, <1>2, <1>3, <1>4

(* Aborting the pool, from stop or from the notification.                  *)
LEMMA AbortKeepsIInv ==
  ASSUME IInv, xfer' = Aborted, UNCHANGED <<kick, gone, mPipes, objects, flags>>,
         \/ life = "abort" /\ life' = "sleep" /\ UNCHANGED notice
         \/ notice = "abort" /\ notice' = "told" /\ UNCHANGED life
  PROVE  IInv'
<1> USE DEF IInv, flags
<1>1. TypeOK'
  BY AbortResult DEF TypeOK
<1>2. ParityInv'
  BY AbortResult DEF ParityInv
<1>3. PoolInv'
  BY AbortResult DEF PoolInv, Some, InPool, TypeOK, Transfer
<1>4. GoneInv'
  <2>1. life \notin {"delete", "stopped"} => ~Some({"flight"})'
    BY AbortResult DEF PoolInv, Some
  <2>2. ~Some({"flight", "aborted", "calling"})
          => ~Some({"flight", "aborted", "calling"})'
    BY AbortResult DEF Some
  <2> QED
    BY <2>1, <2>2 DEF GoneInv
<1> QED
  BY <1>1, <1>2, <1>3, <1>4

LEMMA IInvNext == IInv /\ [Next]_vars => IInv'
<1> SUFFICES ASSUME IInv, [Next]_vars PROVE IInv'
  OBVIOUS
<1>1. CASE MapSharedMemory \/ FailStart \/ Handshake \/ Ready
  <2> USE <1>1 DEF MapSharedMemory, FailStart, Handshake, Ready, IInv, flags
  <2>1. TypeOK'
    BY DEF TypeOK
  <2>2. ParityInv'
    BY DEF ParityInv
  <2>3. PoolInv' /\ GoneInv'
    BY DEF PoolInv, GoneInv, Some, InPool
  <2> QED
    BY <2>1, <2>2, <2>3
<1>2. CASE ConfigureHardware
  <2> USE <1>2 DEF ConfigureHardware, IInv, flags
  <2>1. ASSUME NEW i \in 1 .. Len(Pipes)
        PROVE  mPipes'[i] \in Endpoint \cup {NoPipe}
    <3>1. CASE OpenedAt(i) = {}
      BY <3>1
    <3>2. CASE OpenedAt(i) # {}
      <4>1. (CHOOSE j \in OpenedAt(i) : TRUE) \in 1 .. Len(Pipes)
        BY <3>2 DEF OpenedAt
      <4> QED
        BY <3>2, <4>1 DEF Endpoint
    <3> QED
      BY <3>1, <3>2
  <2>2. mPipes' \in [1 .. Len(Pipes) -> Endpoint \cup {NoPipe}]
    BY <2>1
  <2>3. TypeOK'
    BY <2>2 DEF TypeOK
  <2>4. ParityInv'
    BY DEF ParityInv
  <2>5. PoolInv' /\ GoneInv'
    BY DEF PoolInv, GoneInv, Some
  <2> QED
    BY <2>3, <2>4, <2>5
<1>3. CASE Kickstart
  <2> DEFINE p == Pipes[(kick % Len(Pipes)) + 1]
             c == kick \div Len(Pipes)
  <2>1. kick \in Nat /\ kick < 2 * Len(Pipes) /\ kick + 1 \in 0 .. 2 * Len(Pipes)
    BY <1>3 DEF Kickstart, IInv, TypeOK
  <2>2. p \in Endpoint /\ c \in Chain
    BY <2>1, KickstartOrder
  <2>3. c \in Packet /\ c % 2 = c
    BY <2>2 DEF Chain, Packet
  <2>4. /\ Submit(p, c, c) /\ life = "kick" /\ kick' = kick + 1
        /\ UNCHANGED <<life, notice, gone, mPipes, objects, flags>>
    BY <1>3 DEF Kickstart
  <2> HIDE DEF p, c
  <2> QED
    BY <2>1, <2>2, <2>3, <2>4, SubmitKeepsIInv
<1>4. CASE Stop \/ StopEngine \/ StopSleep \/ StopRelease \/ StopDelete
  <2> USE <1>4 DEF Stop, StopEngine, StopSleep, StopRelease, StopDelete, IInv,
                   flags
  <2>1. TypeOK'
    BY DEF TypeOK
  <2>2. ParityInv'
    BY DEF ParityInv
  <2>3. PoolInv'
    BY DEF PoolInv, Some, InPool
  <2>4. GoneInv'
    BY DEF GoneInv, Some
  <2> QED
    BY <2>1, <2>2, <2>3, <2>4
<1>5. CASE StopAbort
  BY <1>5, AbortKeepsIInv DEF StopAbort
<1>6. CASE Unplug \/ MessageFlags
  <2> USE <1>6 DEF Unplug, MessageFlags, IInv, flags
  <2>1. TypeOK'
    BY DEF TypeOK
  <2>2. ParityInv'
    BY DEF ParityInv
  <2>3. PoolInv' /\ GoneInv'
    BY DEF PoolInv, GoneInv, Some, InPool
  <2> QED
    BY <2>1, <2>2, <2>3
<1>7. CASE MessageAbort
  BY <1>7, AbortKeepsIInv DEF MessageAbort
<1>8. ASSUME NEW p \in Endpoint, NEW c \in Chain, Complete(p, c)
      PROVE  IInv'
  <2> USE <1>8 DEF Complete, IInv, flags
  <2>1. TypeOK'
    BY DEF TypeOK, Transfer
  <2>2. /\ \A q \in Endpoint, d \in Chain :
             /\ xfer'[q][d].packet = xfer[q][d].packet
             /\ q # p \/ d # c => xfer'[q][d] = xfer[q][d]
        /\ xfer'[p][c].state = "calling"
    BY DEF TypeOK, Transfer
  <2>3. ParityInv'
    BY <2>2 DEF ParityInv
  <2>4. PoolInv' /\ GoneInv'
    BY <2>2 DEF PoolInv, GoneInv, Some, InPool
  <2> QED
    BY <2>1, <2>3, <2>4
<1>9. ASSUME NEW p \in Endpoint, NEW c \in Chain, OnPacketComplete(p, c)
      PROVE  IInv'
  <2> DEFINE k == xfer[p][c].packet
  <2>1. k \in Packet /\ k % 2 = c
    BY DEF IInv, TypeOK, Transfer, ParityInv
  <2>2. /\ Submit(p, c, (k + 2) % NumPackets) /\ xfer[p][c].state = "calling"
        /\ UNCHANGED <<life, kick, notice, gone, mPipes, objects, flags>>
    BY <1>9 DEF OnPacketComplete
  <2>3. kick' \in 0 .. 2 * Len(Pipes)
    BY <2>2 DEF IInv, TypeOK
  <2> QED
    BY <2>1, <2>2, <2>3, NextPacket, SubmitKeepsIInv
<1>10. CASE UNCHANGED vars
  BY <1>10 DEF vars, flags, IInv, TypeOK, ParityInv, PoolInv, GoneInv, Some, InPool
<1> QED
  BY <1>1, <1>2, <1>3, <1>4, <1>5, <1>6, <1>7, <1>8, <1>9, <1>10
     DEF Next, Lifecycle, Message, Routine

LEMMA Invariance == Spec => []IInv
BY IInvInit, IInvNext, PTL DEF Spec

-----------------------------------------------------------------------------
(* The variables of the kext keep their types; an index into the pool or   *)
(* the ring never leaves it.                                               *)
THEOREM TypeCorrect == Spec => []TypeOK
BY Invariance, PTL DEF IInv

(* The two chains of a pipe never use the same packet of its ring, for     *)
(* every even number of packets.                                           *)
THEOREM PacketsDiffer == Spec => []PacketsInFlightDiffer
<1>1. IInv => PacketsInFlightDiffer
  BY DEF IInv, ParityInv, PacketsInFlightDiffer, Chain
<1> QED
  BY <1>1, Invariance, PTL

(* When the device is pulled out, stop releases pipes on which nothing is  *)
(* in flight and whose completion routines have returned.                  *)
THEOREM ReleaseIsSafe ==
  ASSUME OnlyUnplug = TRUE
  PROVE  Spec => []SafeToReleasePipes
<1>1. IInv => SafeToReleasePipes
  <2> SUFFICES ASSUME IInv, life \in {"release", "delete", "stopped"},
                      NEW p \in Endpoint, NEW c \in Chain
               PROVE  xfer[p][c].state = "none"
    BY DEF SafeToReleasePipes
  <2>1. xfer[p][c].state \in {"none", "flight", "aborted", "calling"}
    BY DEF IInv, TypeOK, Transfer
  <2>2. ~Some({"flight", "aborted", "calling"})
    BY DEF IInv, GoneInv
  <2> QED
    BY <2>1, <2>2 DEF Some
<1> QED
  BY <1>1, Invariance, PTL

-----------------------------------------------------------------------------
(* The places of the pool, whichever pipes could be opened.                *)

OpenUpTo(i) == \A k \in 1 .. i : Pipes[k] \in Openable

(* The pipe of place i, or of a transfer of endpoint i.                    *)
MovedUp(i, pipe) ==
  pipe # NoPipe =>
    /\ pipe = Pipes[i] <=> OpenUpTo(i)
    /\ \E j \in i .. Len(Pipes) : pipe = Pipes[j]

ReachInv ==
  /\ \A i \in 1 .. Len(Pipes) : MovedUp(i, mPipes[i])
  /\ \A i \in 1 .. Len(Pipes), c \in Chain : MovedUp(i, xfer[Pipes[i]][c].on)

(* Place i has an endpoint from i on, and endpoint i itself exactly when   *)
(* no pipe before it is missing.                                           *)
LEMMA OpenedAtOrAfter ==
  ASSUME NEW i \in 1 .. Len(Pipes), NEW j \in OpenedAt(i)
  PROVE  j \in i .. Len(Pipes) /\ (j = i <=> OpenUpTo(i))
<1> DEFINE S == {k \in 1 .. j : Pipes[k] \in Openable}
<1>1. j \in 1 .. Len(Pipes) /\ Pipes[j] \in Openable /\ Cardinality(S) = i
  BY DEF OpenedAt
<1>2. S \subseteq 1 .. j /\ IsFiniteSet(1 .. j) /\ Cardinality(1 .. j) = j
  BY <1>1, FS_Interval
<1>3. /\ IsFiniteSet(S) /\ Cardinality(S) <= j
      /\ j = Cardinality(S) => S = 1 .. j
  <2> HIDE DEF S
  <2>1. S \in SUBSET (1 .. j)
    BY <1>2
  <2>2. /\ IsFiniteSet(S) /\ Cardinality(S) <= Cardinality(1 .. j)
        /\ Cardinality(1 .. j) = Cardinality(S) => 1 .. j = S
    BY <1>2, <2>1, FS_Subset
  <2> QED
    BY <1>2, <2>2
<1>4. i <= j
  BY <1>1, <1>3
<1>5. ASSUME j = i PROVE OpenUpTo(i)
  <2>1. S = 1 .. i
    BY <1>1, <1>3, <1>5
  <2> QED
    BY <2>1 DEF OpenUpTo
<1>6. ASSUME OpenUpTo(i), j # i PROVE FALSE
  <2>1. IsFiniteSet(1 .. i) /\ Cardinality(1 .. i) = i
    BY FS_Interval
  <2>2. j \notin 1 .. i /\ j \in 1 .. j
    BY <1>1, <1>4, <1>6
  <2>3. IsFiniteSet((1 .. i) \cup {j}) /\ Cardinality((1 .. i) \cup {j}) = i + 1
    BY <2>1, <2>2, FS_AddElement
  <2>4. (1 .. i) \cup {j} \subseteq S
    <3>1. \A k \in 1 .. i : k \in 1 .. j /\ Pipes[k] \in Openable
      BY <1>1, <1>4, <1>6 DEF OpenUpTo
    <3> QED
      BY <1>1, <2>2, <3>1
  <2>5. Cardinality((1 .. i) \cup {j}) <= Cardinality(S)
    BY <1>3, <2>4, FS_Subset
  <2> QED
    BY <1>1, <2>3, <2>5
<1> HIDE DEF S
<1> QED
  BY <1>1, <1>4, <1>5, <1>6

LEMMA ReachNext ==
  ASSUME IInv, ReachInv, [Next]_vars
  PROVE  ReachInv'
<1> USE DEF ReachInv
<1>1. \A i \in 1 .. Len(Pipes) : FindPipe(Pipes[i]) = mPipes[i]
  <2> TAKE i \in 1 .. Len(Pipes)
  <2>1. (CHOOSE j \in 1 .. Len(Pipes) : Pipes[j] = Pipes[i]) = i
    BY DistinctAssumption
  <2> QED
    BY <2>1 DEF FindPipe
<1>2. ASSUME NEW p \in Endpoint, NEW c \in Chain, NEW k, Submit(p, c, k),
             UNCHANGED mPipes
      PROVE  ReachInv'
  <2>1. /\ xfer'[p][c] = Submitted(p, k)
        /\ \A q \in Endpoint, d \in Chain :
             q # p \/ d # c => xfer'[q][d] = xfer[q][d]
    BY <1>2 DEF Submit, IInv, TypeOK
  <2>2. xfer'[p][c].on = FindPipe(p)
    BY <2>1 DEF Submitted
  <2>3. ASSUME NEW i \in 1 .. Len(Pipes), NEW d \in Chain
        PROVE  MovedUp(i, xfer'[Pipes[i]][d].on)
    <3>1. Pipes[i] \in Endpoint
      BY DEF Endpoint
    <3>2. CASE Pipes[i] = p /\ d = c
      <4>1. xfer'[Pipes[i]][d].on = mPipes[i]
        BY <1>1, <2>2, <3>2
      <4> QED
        BY <4>1
    <3>3. CASE ~(Pipes[i] = p /\ d = c)
      <4>1. xfer'[Pipes[i]][d] = xfer[Pipes[i]][d]
        BY <2>1, <3>1, <3>3
      <4> QED
        BY <4>1
    <3> QED
      BY <3>2, <3>3
  <2>4. \A i \in 1 .. Len(Pipes) : MovedUp(i, mPipes'[i])
    BY <1>2
  <2> QED
    BY <2>3, <2>4 DEF MovedUp
<1>3. ASSUME UNCHANGED mPipes,
             \A p \in Endpoint, c \in Chain : xfer'[p][c].on = xfer[p][c].on
      PROVE  ReachInv'
  BY <1>3 DEF MovedUp, Endpoint
<1>4. CASE ConfigureHardware
  <2>1. ASSUME NEW i \in 1 .. Len(Pipes) PROVE MovedUp(i, mPipes'[i])
    <3> DEFINE j == CHOOSE n \in OpenedAt(i) : TRUE
    <3>1. mPipes'[i] = IF OpenedAt(i) = {} THEN NoPipe ELSE Pipes[j]
      BY <1>4 DEF ConfigureHardware
    <3>2. CASE OpenedAt(i) = {}
      BY <3>1, <3>2 DEF MovedUp
    <3>3. CASE OpenedAt(i) # {}
      <4>1. j \in OpenedAt(i)
        BY <3>3
      <4>2. j \in i .. Len(Pipes) /\ (j = i <=> OpenUpTo(i))
        BY <4>1, OpenedAtOrAfter
      <4>3. mPipes'[i] = Pipes[j]
        BY <3>1, <3>3
      <4> HIDE DEF j
      <4>4. j \in 1 .. Len(Pipes)
        BY <4>2
      <4>5. Pipes[j] = Pipes[i] <=> j = i
        BY <4>4, DistinctAssumption
      <4> QED
        BY <4>2, <4>3, <4>5 DEF MovedUp
    <3> QED
      BY <3>2, <3>3
  <2>2. UNCHANGED xfer
    BY <1>4 DEF ConfigureHardware
  <2> QED
    BY <2>1, <2>2 DEF MovedUp
<1>5. CASE Kickstart
  <2>1. kick \in Nat /\ kick < 2 * Len(Pipes)
    BY <1>5 DEF Kickstart, IInv, TypeOK
  <2> QED
    BY <1>2, <1>5, <2>1, KickstartOrder DEF Kickstart
<1>6. CASE StopAbort \/ MessageAbort
  <2>1. xfer' = Aborted /\ UNCHANGED mPipes
    BY <1>6 DEF StopAbort, MessageAbort
  <2> QED
    BY <1>3, <2>1, AbortResult DEF IInv
<1>7. CASE \/ MapSharedMemory \/ FailStart \/ Handshake \/ Ready \/ Unplug
           \/ Stop \/ StopEngine \/ StopSleep \/ StopDelete \/ MessageFlags
  <2>1. UNCHANGED <<mPipes, xfer>>
    BY <1>7 DEF MapSharedMemory, FailStart, Handshake, Ready, Unplug, Stop,
                StopEngine, StopSleep, StopDelete, MessageFlags
  <2> QED
    BY <1>3, <2>1
<1>8. CASE StopRelease
  <2>1. \A i \in 1 .. Len(Pipes) : mPipes'[i] = NoPipe
    BY <1>8 DEF StopRelease, IInv, TypeOK
  <2>2. UNCHANGED xfer
    BY <1>8 DEF StopRelease
  <2> QED
    BY <2>1, <2>2 DEF MovedUp
<1>9. ASSUME NEW p \in Endpoint, NEW c \in Chain, Complete(p, c)
      PROVE  ReachInv'
  <2>1. \A q \in Endpoint, d \in Chain : xfer'[q][d].on = xfer[q][d].on
    BY <1>9 DEF Complete, IInv, TypeOK, Transfer
  <2> QED
    BY <1>3, <1>9, <2>1 DEF Complete
<1>10. ASSUME NEW p \in Endpoint, NEW c \in Chain, OnPacketComplete(p, c)
       PROVE  ReachInv'
  BY <1>2, <1>10 DEF OnPacketComplete
<1>11. CASE UNCHANGED vars
  BY <1>3, <1>11 DEF vars
<1> QED
  BY <1>4, <1>5, <1>6, <1>7, <1>8, <1>9, <1>10, <1>11
     DEF Next, Lifecycle, Message, Routine

(* Whichever pipes cannot be opened, for every list of them: a transfer is *)
(* on the pipe of its endpoint exactly when that pipe and all before it    *)
(* could be opened, and otherwise on the pipe of a later endpoint, because *)
(* ConfigureHardware fills the pool without gaps and FindPipe looks by     *)
(* position.                                                               *)
THEOREM MissingPipesMoveTransfers == Spec => []TransfersMoveUp
<1>1. Init => ReachInv
  BY DEF Init, ReachInv, MovedUp, Endpoint
<1>2. IInv /\ ReachInv /\ [Next]_vars => ReachInv'
  BY ReachNext
<1>3. ReachInv => TransfersMoveUp
  BY DEF ReachInv, MovedUp, OpenUpTo, TransfersMoveUp
<1> QED
  BY <1>1, <1>2, <1>3, Invariance, PTL DEF Spec
=============================================================================

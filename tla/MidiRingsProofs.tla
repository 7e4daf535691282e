--------------------------- MODULE MidiRingsProofs ---------------------------
(***************************************************************************)
(* Proofs, for every ring size and every set of bytes, that the two MIDI   *)
(* rings of the shared memory keep their slots apart and implement bounded *)
(* FIFO queues: midiOut, whose reader takes one byte at a time, and        *)
(* midiIn, whose reader takes a batch through a copy of the read index and *)
(* gives all its slots back at the end; and that the send buffer of the    *)
(* Linux driver keeps the order of what is written.                        *)
(***************************************************************************)
EXTENDS MidiOutRing, MidiInRing, LinuxUart, SequenceTheorems, TLAPS

USE RingSizeAssumption, ZeroAssumption, SyncAssumption, NoneAssumption

-----------------------------------------------------------------------------
(* Going round a ring.                                                     *)

(* (i + 1) & mask is the next slot, and the first slot after the last.     *)
LEMMA SuccValue ==
  ASSUME NEW i \in Slot
  PROVE  /\ Succ(i) \in Slot
         /\ i # RingSize - 1 => Succ(i) = i + 1
         /\ i = RingSize - 1 => Succ(i) = 0
BY DEF Slot, Succ

(* Succ maps different slots to different slots.                           *)
LEMMA SuccInjective ==
  ASSUME NEW i \in Slot, NEW j \in Slot, Succ(i) = Succ(j)
  PROVE  i = j
BY SuccValue DEF Slot

LEMMA DistanceType ==
  ASSUME NEW r \in Slot, NEW w \in Slot
  PROVE  /\ Distance(r, w) \in 0 .. RingSize - 1
         /\ Distance(r, w) = 0 <=> r = w
BY DEF Distance, Slot

(* Different slots are at different distances.                             *)
LEMMA DistanceInjective ==
  ASSUME NEW r \in Slot, NEW v \in Slot, NEW w \in Slot,
         Distance(r, v) = Distance(r, w)
  PROVE  v = w
BY DEF Distance, Slot

(* One step of w makes the way from r one longer, unless it was the        *)
(* longest there is.                                                       *)
LEMMA DistanceGrows ==
  ASSUME NEW r \in Slot, NEW w \in Slot
  PROVE  /\ Succ(w) # r => Distance(r, Succ(w)) = Distance(r, w) + 1
         /\ Succ(w) = r <=> Distance(r, w) = RingSize - 1
         /\ At(r, Distance(r, w)) = w
BY SuccValue DEF Distance, At, Slot

(* One step of r makes the way to w one shorter, unless it was none.       *)
LEMMA DistanceShrinks ==
  ASSUME NEW r \in Slot, NEW w \in Slot, r # w
  PROVE  /\ Distance(r, w) = Distance(Succ(r), w) + 1
         /\ At(r, 0) = r
         /\ \A k \in 1 .. Distance(Succ(r), w) : At(Succ(r), k - 1) = At(r, k)
BY SuccValue DEF Distance, At, Slot

(* The way from r to w over a slot between them.                           *)
LEMMA DistanceAdds ==
  ASSUME NEW r \in Slot, NEW v \in Slot, NEW w \in Slot,
         Distance(r, v) <= Distance(r, w)
  PROVE  Distance(r, v) + Distance(v, w) = Distance(r, w)
BY DEF Distance, Slot

(* The slot at w is none of those from r up to w.                          *)
LEMMA WriteSlotOutside ==
  ASSUME NEW r \in Slot, NEW w \in Slot, NEW k \in 1 .. Distance(r, w)
  PROVE  At(r, k - 1) \in Slot /\ At(r, k - 1) # w
BY DEF Distance, At, Slot

-----------------------------------------------------------------------------
(* What lies between two indices.                                          *)

(* The slots from r up to w form a sequence of Distance(r, w) bytes.       *)
LEMMA ContentsType ==
  ASSUME NEW buf \in [Slot -> Byte], NEW r \in Slot, NEW w \in Slot
  PROVE  /\ Contents(buf, r, w) \in Seq(Byte)
         /\ Len(Contents(buf, r, w)) = Distance(r, w)
         /\ \A k \in 1 .. Distance(r, w) :
              Contents(buf, r, w)[k] = buf[At(r, k - 1)]
<1>1. Distance(r, w) \in Nat
  BY DistanceType
<1>2. \A k \in 1 .. Distance(r, w) : buf[At(r, k - 1)] \in Byte
  BY WriteSlotOutside
<1>3. Contents(buf, r, w) = [k \in 1 .. Distance(r, w) |-> buf[At(r, k - 1)]]
  BY DEF Contents
<1> DEFINE n == Distance(r, w)
<1> HIDE DEF n
<1>4. n \in Nat /\ \A k \in 1 .. n : buf[At(r, k - 1)] \in Byte
  BY <1>1, <1>2 DEF n
<1>5. Contents(buf, r, w) = [k \in 1 .. n |-> buf[At(r, k - 1)]]
  BY <1>3 DEF n
<1>6. /\ Contents(buf, r, w) \in Seq(Byte) /\ Len(Contents(buf, r, w)) = n
      /\ \A k \in 1 .. n : Contents(buf, r, w)[k] = buf[At(r, k - 1)]
  BY <1>4, <1>5
<1> QED
  BY <1>6 DEF n

(* A store to the slot at w leaves them alone.                             *)
LEMMA ContentsUnchanged ==
  ASSUME NEW buf, NEW new, NEW r \in Slot, NEW w \in Slot,
         \A i \in Slot : i # w => new[i] = buf[i]
  PROVE  Contents(new, r, w) = Contents(buf, r, w)
<1>1. \A k \in 1 .. Distance(r, w) : new[At(r, k - 1)] = buf[At(r, k - 1)]
  BY WriteSlotOutside
<1> QED
  BY <1>1 DEF Contents

(* One step of w appends the byte stored there.                            *)
LEMMA ContentsAppended ==
  ASSUME NEW buf \in [Slot -> Byte], NEW r \in Slot, NEW w \in Slot, Succ(w) # r
  PROVE  Contents(buf, r, Succ(w)) = Append(Contents(buf, r, w), buf[w])
<1> DEFINE old == Contents(buf, r, w)
           new == Contents(buf, r, Succ(w))
           n == Distance(r, w)
<1>1. Succ(w) \in Slot /\ n \in Nat /\ buf[w] \in Byte
  BY SuccValue, DistanceType
<1>2. Distance(r, Succ(w)) = n + 1 /\ At(r, n) = w
  BY DistanceGrows
<1>3. /\ old \in Seq(Byte) /\ Len(old) = n
      /\ \A k \in 1 .. n : old[k] = buf[At(r, k - 1)]
  BY ContentsType
<1>4. /\ new \in Seq(Byte) /\ Len(new) = n + 1
      /\ \A k \in 1 .. n + 1 : new[k] = buf[At(r, k - 1)]
  <2> DEFINE d == Distance(r, Succ(w))
  <2>1. /\ new \in Seq(Byte) /\ Len(new) = d
        /\ \A k \in 1 .. d : new[k] = buf[At(r, k - 1)]
    BY <1>1, ContentsType
  <2>2. d = n + 1
    BY <1>2
  <2> HIDE DEF d, n, new
  <2> QED
    BY <2>1, <2>2
<1> DEFINE longer == Append(old, buf[w])
<1> HIDE DEF old, new, n
<1>5. /\ longer \in Seq(Byte) /\ Len(longer) = n + 1
      /\ \A k \in 1 .. n : longer[k] = old[k]
      /\ longer[n + 1] = buf[w]
  BY <1>1, <1>3, AppendProperties
<1> HIDE DEF longer
<1>6. new[n + 1] = buf[w]
  <2>1. (n + 1) - 1 = n
    BY <1>1
  <2> QED
    BY <1>1, <1>2, <1>4, <2>1
<1>7. \A k \in 1 .. n : new[k] = longer[k]
  <2>1. \A k \in 1 .. n : k \in 1 .. n + 1
    BY <1>1
  <2> QED
    BY <1>3, <1>4, <1>5, <2>1
<1>8. \A k \in 1 .. n + 1 : k \in 1 .. n \/ k = n + 1
  BY <1>1
<1>9. \A k \in 1 .. n + 1 : new[k] = longer[k]
  BY <1>5, <1>6, <1>7, <1>8
<1>10. new = longer
  BY <1>4, <1>5, <1>9, SeqEqual
<1> QED
  BY <1>10 DEF old, new, longer

(* One step of r takes the oldest byte away.                               *)
LEMMA ContentsTaken ==
  ASSUME NEW buf \in [Slot -> Byte], NEW r \in Slot, NEW w \in Slot, r # w
  PROVE  /\ Contents(buf, r, w) # <<>>
         /\ Head(Contents(buf, r, w)) = buf[r]
         /\ Tail(Contents(buf, r, w)) = Contents(buf, Succ(r), w)
<1> DEFINE old == Contents(buf, r, w)
           new == Contents(buf, Succ(r), w)
           n == Distance(r, w)
           m == Distance(Succ(r), w)
<1>1. Succ(r) \in Slot /\ n \in Nat /\ m \in Nat
  BY SuccValue, DistanceType
<1>2. n = m + 1 /\ At(r, 0) = r /\ \A k \in 1 .. m : At(Succ(r), k - 1) = At(r, k)
  BY DistanceShrinks
<1>3. /\ old \in Seq(Byte) /\ Len(old) = n
      /\ \A k \in 1 .. n : old[k] = buf[At(r, k - 1)]
  BY ContentsType
<1>4. /\ new \in Seq(Byte) /\ Len(new) = m
      /\ \A k \in 1 .. m : new[k] = buf[At(Succ(r), k - 1)]
  BY <1>1, ContentsType
<1> HIDE DEF old, new, n, m
<1>5. old # <<>> /\ Head(old) = old[1]
  BY <1>1, <1>2, <1>3
<1>6. old[1] = buf[r]
  BY <1>1, <1>2, <1>3
<1>7. /\ Tail(old) \in Seq(Byte) /\ Len(Tail(old)) = m
      /\ \A k \in 1 .. m : Tail(old)[k] = old[k + 1]
  BY <1>1, <1>2, <1>3, <1>5, HeadTailProperties
<1>8. \A k \in 1 .. m : old[k + 1] = buf[At(r, k)]
  BY <1>1, <1>2, <1>3
<1>9. \A k \in 1 .. m : new[k] = buf[At(r, k)]
  BY <1>2, <1>4
<1>10. Tail(old) = new
  BY <1>4, <1>7, <1>8, <1>9, SeqEqual
<1> QED
  BY <1>5, <1>6, <1>10 DEF old, new

-----------------------------------------------------------------------------
(* The midiOut ring.                                                       *)

(* Each end's copy of its own index is the index itself, the kext copies a *)
(* byte only from a ring that is not empty, Send stores a byte only into a *)
(* ring that is not full, and what it publishes is what it stored.         *)
IInv ==
  /\ TypeOK
  /\ sendPc # "idle" => sendW = writeIndex
  /\ packPc # "idle" => packR = readIndex
  /\ packPc \in {"fill", "release"} => readIndex # writeIndex
  /\ sendPc \in {"store", "publish"} => Succ(sendW) # readIndex
  /\ sendPc = "publish" => buffer[sendW] = sendByte

LEMMA IInvInit == Init => IInv
BY DEF Init, IInv, TypeOK, Slot

LEMMA IInvNext == IInv /\ [Next]_vars => IInv'
<1> SUFFICES ASSUME IInv, [Next]_vars PROVE IInv'
  OBVIOUS
<1> USE SuccValue DEF IInv, TypeOK
<1>1. ASSUME NEW b \in Byte, SendLoadWrite(b) PROVE IInv'
  BY <1>1 DEF SendLoadWrite, packVars
<1>2. CASE SendLoadRead
  BY <1>2 DEF SendLoadRead, packVars
<1>3. CASE SendStore
  BY <1>3 DEF SendStore, packVars
<1>4. CASE SendPublish
  <2>1. Succ(sendW) # readIndex
    BY <1>4 DEF SendPublish
  <2> QED
    BY <1>4, <2>1 DEF SendPublish, packVars
<1>5. CASE PackLoadRead
  BY <1>5 DEF PackLoadRead, sendVars
<1>6. CASE PackLoadWrite
  BY <1>6 DEF PackLoadWrite, sendVars
<1>7. CASE PackFill
  BY <1>7 DEF PackFill, sendVars
<1>8. CASE PackPad
  BY <1>8 DEF PackPad, sendVars
<1>9. CASE PackRelease
  <2>1. readIndex # writeIndex /\ packR = readIndex
    BY <1>9 DEF PackRelease
  <2>2. sendPc \in {"store", "publish"} => Succ(sendW) # Succ(readIndex)
    BY <2>1, SuccInjective
  <2> QED
    BY <1>9, <2>1, <2>2 DEF PackRelease, sendVars
<1>10. CASE UNCHANGED vars
  BY <1>10 DEF vars, sendVars, packVars
<1> QED
  BY <1>1, <1>2, <1>3, <1>4, <1>5, <1>6, <1>7, <1>8, <1>9, <1>10
     DEF Next, Send, ProcessMIDIOutput

(* The indices stay inside the ring whatever the interleaving.             *)
THEOREM TypeCorrect == Spec => []TypeOK
<1>1. IInv => TypeOK
  BY DEF IInv
<1> QED
  BY <1>1, IInvInit, IInvNext, PTL DEF Spec

(* Send and the kext never touch the same slot at the same time.           *)
THEOREM SlotsNeverShared == Spec => []NoSlotRace
<1>1. IInv => NoSlotRace
  BY DEF IInv, NoSlotRace
<1> QED
  BY <1>1, IInvInit, IInvNext, PTL DEF Spec

\* The queue, the byte on offer, and the slot taken but not given back.
bytes == Contents(buffer, Front, writeIndex)
offer == IF sendPc = "idle" THEN Sync ELSE sendByte
taken == IF packPc = "release" THEN 1 ELSE 0

(* Queued and delivered-but-held bytes together fill the ring from the     *)
(* shared read index to the shared write index, so the test of Send is the *)
(* test for a full queue.                                                  *)
LEMMA Occupancy ==
  ASSUME IInv
  PROVE  /\ Front \in Slot
         /\ Len(bytes) = Distance(Front, writeIndex)
         /\ Len(bytes) + taken = RingSize - 1 <=> Succ(writeIndex) = readIndex
<1> USE DEF IInv, TypeOK
<1>1. Front \in Slot
  BY SuccValue DEF Front
<1>2. Len(bytes) = Distance(Front, writeIndex)
  BY <1>1, ContentsType DEF bytes
<1>3. Distance(Front, writeIndex) + taken = Distance(readIndex, writeIndex)
  <2>1. CASE packPc = "release"
    BY <2>1, DistanceShrinks, DistanceType DEF Front, taken
  <2>2. CASE packPc # "release"
    BY <2>2, DistanceType DEF Front, taken
  <2> QED
    BY <2>1, <2>2
<1> QED
  BY <1>1, <1>2, <1>3, DistanceGrows

LEMMA BytesUnchanged ==
  ASSUME IInv, Front' = Front, writeIndex' = writeIndex,
         \A i \in Slot : i # writeIndex => buffer'[i] = buffer[i]
  PROVE  bytes' = bytes
<1>1. Front \in Slot /\ writeIndex \in Slot
  BY Occupancy DEF IInv, TypeOK
<1> QED
  BY <1>1, ContentsUnchanged DEF bytes

(* Publishing the stored byte appends it to the queue.                     *)
LEMMA PublishAppends ==
  ASSUME IInv, SendPublish
  PROVE  bytes' = Append(bytes, sendByte)
<1> USE DEF IInv, TypeOK
<1>1. /\ sendW = writeIndex /\ Succ(writeIndex) # readIndex
      /\ buffer[writeIndex] = sendByte
      /\ writeIndex' = Succ(writeIndex) /\ UNCHANGED <<buffer, Front>>
  BY DEF SendPublish, packVars, Front
<1>2. Front \in Slot
  BY Occupancy
<1>3. Succ(writeIndex) # Front
  <2>1. CASE packPc = "release"
    BY <2>1, SuccInjective DEF Front
  <2>2. CASE packPc # "release"
    BY <2>2, <1>1 DEF Front
  <2> QED
    BY <2>1, <2>2
<1>4. Contents(buffer, Front, Succ(writeIndex))
        = Append(Contents(buffer, Front, writeIndex), buffer[writeIndex])
  BY <1>2, <1>3, ContentsAppended
<1> QED
  BY <1>1, <1>4 DEF bytes

(* Copying the slot at the read index takes the oldest byte of the queue.  *)
LEMMA FillTakesHead ==
  ASSUME IInv, PackFill
  PROVE  /\ bytes # <<>>
         /\ midiByte' = Head(bytes)
         /\ bytes' = Tail(bytes)
<1> USE DEF IInv, TypeOK
<1>1. /\ readIndex # writeIndex /\ midiByte' = buffer[readIndex]
      /\ Front = readIndex /\ Front' = Succ(readIndex)
      /\ UNCHANGED <<buffer, writeIndex>>
  BY DEF PackFill, Front
<1> QED
  BY <1>1, ContentsTaken DEF bytes

LEMMA QueueInit == Init => Queue!Init
<1> SUFFICES ASSUME Init PROVE Queue!Init
  OBVIOUS
<1>1. Distance(Front, writeIndex) = 0
  BY DEF Init, Front, Distance
<1>2. Contents(buffer, Front, writeIndex) = <<>>
  BY <1>1 DEF Contents
<1> QED
  BY <1>2 DEF Init, Queue!Init

(* Every step of the two ends is a step of the queue or leaves it alone:   *)
(* Send offers when it loads its index, refuses when it loads the other    *)
(* one, accepts when it publishes; the kext delivers when it copies.       *)
LEMMA QueueNext ==
  ASSUME IInv, [Next]_vars
  PROVE  [Queue!Next]_(Queue!vars)
<1> USE DEF IInv, TypeOK
<1> DEFINE same == bytes' = bytes /\ taken' = taken /\ midiByte' = midiByte
<1>1. ASSUME NEW b \in Byte, SendLoadWrite(b) PROVE Queue!Offer(b)
  <2>1. same
    BY <1>1, BytesUnchanged DEF SendLoadWrite, packVars, Front, taken
  <2>2. offer = Sync /\ offer' = b
    BY <1>1 DEF SendLoadWrite, offer
  <2> QED
    BY <2>1, <2>2 DEF Queue!Offer, bytes, taken, offer
<1>2. CASE SendLoadRead
  <2>1. same
    BY <1>2, BytesUnchanged DEF SendLoadRead, packVars, Front, taken
  <2>2. CASE Succ(sendW) # readIndex
    <3>1. offer' = offer
      BY <1>2, <2>2 DEF SendLoadRead, offer
    <3> QED
      BY <2>1, <3>1 DEF Queue!vars, bytes, taken, offer
  <2>3. CASE Succ(sendW) = readIndex
    <3>1. Len(bytes) + taken = RingSize - 1
      BY <1>2, <2>3, Occupancy DEF SendLoadRead
    <3>2. offer # Sync /\ offer' = Sync
      BY <1>2, <2>3 DEF SendLoadRead, offer
    <3>3. Queue!Refuse
      BY <2>1, <3>1, <3>2 DEF Queue!Refuse, Queue!Full, bytes, taken, offer
    <3> QED
      BY <3>3 DEF Queue!Next
  <2> QED
    BY <2>2, <2>3
<1>3. CASE SendStore
  <2>1. same
    BY <1>3, BytesUnchanged DEF SendStore, packVars, Front, taken
  <2>2. offer' = offer
    BY <1>3 DEF SendStore, offer
  <2> QED
    BY <2>1, <2>2 DEF Queue!vars, bytes, taken, offer
<1>4. CASE SendPublish
  <2>1. bytes' = Append(bytes, offer)
    BY <1>4, PublishAppends DEF SendPublish, offer
  <2>2. Len(bytes) + taken # RingSize - 1
    BY <1>4, Occupancy DEF SendPublish
  <2>3. offer # Sync /\ offer' = Sync /\ taken' = taken /\ midiByte' = midiByte
    BY <1>4 DEF SendPublish, offer, taken, packVars
  <2>4. Queue!Accept
    BY <2>1, <2>2, <2>3 DEF Queue!Accept, Queue!Full, bytes, taken, offer
  <2> QED
    BY <2>4 DEF Queue!Next
<1>5. CASE PackLoadRead \/ PackLoadWrite
  <2>1. same
    BY <1>5, BytesUnchanged
       DEF PackLoadRead, PackLoadWrite, sendVars, Front, taken
  <2>2. offer' = offer
    BY <1>5 DEF PackLoadRead, PackLoadWrite, sendVars, offer
  <2> QED
    BY <2>1, <2>2 DEF Queue!vars, bytes, taken, offer
<1>6. CASE PackFill
  <2>1. /\ bytes # <<>> /\ midiByte' = Head(bytes) /\ bytes' = Tail(bytes)
    BY <1>6, FillTakesHead
  <2>2. taken' = taken + 1 /\ offer' = offer
    BY <1>6 DEF PackFill, taken, offer, sendVars
  <2>3. Queue!Deliver
    BY <2>1, <2>2 DEF Queue!Deliver, bytes, taken, offer
  <2> QED
    BY <2>3 DEF Queue!Next
<1>7. CASE PackPad
  <2>1. bytes' = bytes
    BY <1>7, BytesUnchanged DEF PackPad, sendVars, Front
  <2>2. midiByte' = Sync /\ taken' = taken /\ offer' = offer
    BY <1>7 DEF PackPad, sendVars, taken, offer
  <2>3. Queue!Idle
    BY <2>1, <2>2 DEF Queue!Idle, bytes, taken, offer
  <2> QED
    BY <2>3 DEF Queue!Next
<1>8. CASE PackRelease
  <2>1. bytes' = bytes
    BY <1>8, BytesUnchanged DEF PackRelease, sendVars, Front
  <2>2. taken = 1 /\ taken' = 0 /\ midiByte' = midiByte /\ offer' = offer
    BY <1>8 DEF PackRelease, sendVars, taken, offer
  <2>3. Queue!Release
    BY <2>1, <2>2 DEF Queue!Release, bytes, taken, offer
  <2> QED
    BY <2>3 DEF Queue!Next
<1>9. CASE UNCHANGED vars
  <2>1. same
    BY <1>9, BytesUnchanged DEF vars, packVars, Front, taken
  <2>2. offer' = offer
    BY <1>9 DEF vars, sendVars, offer
  <2> QED
    BY <2>1, <2>2 DEF Queue!vars, bytes, taken, offer
<1>10. ASSUME NEW b \in Byte, Queue!Offer(b) PROVE Queue!Next
  BY <1>10 DEF Queue!Next
<1> QED
  BY <1>1, <1>2, <1>3, <1>4, <1>5, <1>6, <1>7, <1>8, <1>9, <1>10
     DEF Next, Send, ProcessMIDIOutput

(* Whatever the ring size and the interleaving of Send with the kext, the  *)
(* ring is a bounded FIFO queue that loses only what it refuses.           *)
THEOREM RingImplementsQueue == Spec => ImplementsQueue
<1>1. Init => IInv
  BY IInvInit
<1>2. IInv /\ [Next]_vars => IInv'
  BY IInvNext
<1>3. IInv /\ IInv' /\ [Next]_vars => [Queue!Next]_(Queue!vars)
  BY QueueNext
<1>4. Init => Queue!Init
  BY QueueInit
<1> QED
  BY <1>1, <1>2, <1>3, <1>4, PTL DEF Spec, ImplementsQueue, Queue!Spec

-----------------------------------------------------------------------------
(* The midiIn ring.                                                        *)

\* What the poll thread has taken a copy of: the slots from readIndex up to
\* pollW, of which those up to pollR are parsed.
Batch == pollPc \in {"drain", "publish"}

(* The kext's copy of its index is the index, it stores only into a ring   *)
(* that is not full and publishes what it stored; and going round from the *)
(* shared read index one meets the poll thread's r, then its w, then the   *)
(* shared write index.                                                     *)
InInv ==
  /\ InTypeOK
  /\ inPc # "idle" => inW = inWriteIndex
  /\ inPc \in {"store", "publish"} => Succ(inW) # inReadIndex
  /\ inPc = "publish" => inBuffer[inW] = inByte
  /\ pollPc = "load" => pollR = inReadIndex
  /\ Batch => /\ Distance(inReadIndex, pollR) <= Distance(inReadIndex, pollW)
              /\ Distance(inReadIndex, pollW) <= Distance(inReadIndex, inWriteIndex)
              /\ inReadIndex # pollW
  /\ pollPc = "drain" => pollR # pollW
  /\ pollPc = "publish" => pollR = pollW

LEMMA InInvInit ==
  InInit => InInv
BY DEF InInit, InInv, InTypeOK, Slot, Batch

LEMMA InInvNext ==
  InInv /\ [InNext]_midiInVars => InInv'
<1> SUFFICES ASSUME InInv, [InNext]_midiInVars PROVE InInv'
  OBVIOUS
<1> USE DEF InInv, InTypeOK, Batch
<1>1. ASSUME NEW b \in Byte, InLoadWrite(b) PROVE InInv'
  BY <1>1 DEF InLoadWrite, pollVars
<1>2. CASE InLoadRead
  BY <1>2 DEF InLoadRead, pollVars
<1>3. CASE InStore
  BY <1>3 DEF InStore, pollVars
<1>4. CASE InPublish
  <2>1. /\ Succ(inWriteIndex) \in Slot
        /\ Distance(inReadIndex, inWriteIndex')
             = Distance(inReadIndex, inWriteIndex) + 1
    BY <1>4, SuccValue, DistanceGrows DEF InPublish
  <2>2. \A i, j \in Slot : Distance(i, j) \in Int
    BY DistanceType
  <2> QED
    BY <1>4, <2>1, <2>2 DEF InPublish, pollVars
<1>5. CASE PollLoadRead
  BY <1>5 DEF PollLoadRead, inVars
<1>6. CASE PollLoadWrite
  <2>1. Distance(inReadIndex, inReadIndex) = 0
    BY DistanceType
  <2>2. Distance(inReadIndex, inWriteIndex) >= 0
    BY DistanceType
  <2> QED
    BY <1>6, <2>1, <2>2, DistanceType DEF PollLoadWrite, inVars
<1>7. CASE PollDrain
  <2>1. /\ Succ(pollR) \in Slot
        /\ pollR # pollW
    BY <1>7, SuccValue DEF PollDrain
  <2>2. Distance(inReadIndex, pollR) # Distance(inReadIndex, pollW)
    BY <2>1, DistanceInjective
  <2>3. /\ Distance(inReadIndex, pollR) \in 0 .. RingSize - 1
        /\ Distance(inReadIndex, pollW) \in 0 .. RingSize - 1
    BY DistanceType
  <2>4. Distance(inReadIndex, pollR) # RingSize - 1
    BY <1>7, <2>2, <2>3 DEF PollDrain
  <2>5. Distance(inReadIndex, Succ(pollR)) = Distance(inReadIndex, pollR) + 1
    BY <2>4, DistanceGrows
  <2>6. Distance(inReadIndex, Succ(pollR)) <= Distance(inReadIndex, pollW)
    BY <1>7, <2>2, <2>3, <2>5 DEF PollDrain
  <2> QED
    BY <1>7, <2>1, <2>6 DEF PollDrain, inVars
<1>8. CASE PollPublish
  <2>1. inPc \in {"store", "publish"} => Succ(inW) # pollR
    <3> SUFFICES ASSUME inW = inWriteIndex, Succ(inWriteIndex) # inReadIndex
                 PROVE  Succ(inWriteIndex) # pollR
      BY <1>8 DEF PollPublish
    <3>1. Distance(inReadIndex, Succ(inWriteIndex))
            = Distance(inReadIndex, inWriteIndex) + 1
      BY DistanceGrows
    <3>2. Distance(inReadIndex, pollR) <= Distance(inReadIndex, inWriteIndex)
      BY <1>8 DEF PollPublish
    <3> QED
      BY <3>1, <3>2, DistanceType
  <2> QED
    BY <1>8, <2>1 DEF PollPublish, inVars
<1>9. CASE UNCHANGED midiInVars
  BY <1>9 DEF midiInVars, inVars, pollVars
<1> QED
  BY <1>1, <1>2, <1>3, <1>4, <1>5, <1>6, <1>7, <1>8, <1>9
     DEF InNext, ProcessMIDIInput, MidiInputPollThread

(* The indices stay inside the ring whatever the interleaving.             *)
THEOREM InTypeCorrect ==
  InSpec => []InTypeOK
<1>1. InInv => InTypeOK
  BY DEF InInv
<1> QED
  BY <1>1, InInvInit, InInvNext, PTL DEF InSpec

(* The kext stores only behind the batch the poll thread is parsing or has *)
(* parsed and not yet given back.                                          *)
THEOREM BatchIsLeftAlone ==
  InSpec => []InNoSlotRace
<1>1. InInv => InNoSlotRace
  BY DistanceType DEF InInv, InTypeOK, Batch, InNoSlotRace
<1> QED
  BY <1>1, InInvInit, InInvNext, PTL DEF InSpec

(* The abstract state of a ring state.                                     *)
inBytes == Contents(inBuffer, InFront, inWriteIndex)
inOffer == IF inPc = "idle" THEN None ELSE inByte
inTaken == Distance(inReadIndex, InFront)

(* The bytes not yet parsed and the slots of those that are, not yet given *)
(* back, together fill the ring from the shared read index to the shared   *)
(* write index: the kext's test is the test for a full queue.              *)
LEMMA InOccupancy ==
  ASSUME InInv
  PROVE  /\ InFront \in Slot
         /\ inBytes \in Seq(Byte)
         /\ Len(inBytes) = Distance(InFront, inWriteIndex)
         /\ inTaken \in Nat
         /\ Len(inBytes) + inTaken = Distance(inReadIndex, inWriteIndex)
         /\ Len(inBytes) + inTaken = RingSize - 1 <=> Succ(inWriteIndex) = inReadIndex
<1> USE DEF InInv, InTypeOK
<1>1. InFront \in Slot /\ Distance(inReadIndex, InFront) <= Distance(inReadIndex, inWriteIndex)
  <2>1. CASE Batch
    <3>1. /\ Distance(inReadIndex, pollR) \in Int
          /\ Distance(inReadIndex, pollW) \in Int
          /\ Distance(inReadIndex, inWriteIndex) \in Int
      BY DistanceType
    <3> QED
      BY <2>1, <3>1 DEF InFront, Batch
  <2>2. CASE ~Batch
    <3>1. Distance(inReadIndex, inReadIndex) = 0
      BY DistanceType
    <3> QED
      BY <2>2, <3>1, DistanceType DEF InFront, Batch
  <2> QED
    BY <2>1, <2>2
<1> DEFINE n == Distance(InFront, inWriteIndex)
<1>2. n \in Nat /\ inTaken \in Nat
  BY <1>1, DistanceType DEF inTaken
<1>3. n + inTaken = Distance(inReadIndex, inWriteIndex)
  BY <1>1, <1>2, DistanceAdds DEF inTaken
<1>4. \A k \in 1 .. n : At(InFront, k - 1) \in Slot
  BY <1>1, WriteSlotOutside
<1>5. inBytes = [k \in 1 .. n |-> inBuffer[At(InFront, k - 1)]]
  BY DEF inBytes, Contents
<1> HIDE DEF n
<1>6. inBytes \in Seq(Byte) /\ Len(inBytes) = n
  BY <1>2, <1>4, <1>5
<1> QED
  BY <1>1, <1>2, <1>3, <1>6, DistanceGrows DEF n

LEMMA InBytesUnchanged ==
  ASSUME InInv, InFront' = InFront, inWriteIndex' = inWriteIndex,
         \A i \in Slot : i # inWriteIndex => inBuffer'[i] = inBuffer[i]
  PROVE  inBytes' = inBytes
<1>1. InFront \in Slot /\ inWriteIndex \in Slot
  BY InOccupancy DEF InInv, InTypeOK
<1> QED
  BY <1>1, ContentsUnchanged DEF inBytes

(* Publishing the stored byte appends it to the queue.                     *)
LEMMA InPublishAppends ==
  ASSUME InInv, InPublish
  PROVE  inBytes' = Append(inBytes, inByte)
<1> USE DEF InInv, InTypeOK
<1> DEFINE n == Distance(InFront, inWriteIndex)
<1>1. /\ inW = inWriteIndex /\ Succ(inWriteIndex) # inReadIndex
      /\ inBuffer[inWriteIndex] = inByte
      /\ inWriteIndex' = Succ(inWriteIndex) /\ UNCHANGED <<inBuffer, InFront>>
  BY DEF InPublish, pollVars, InFront
<1>2. InFront \in Slot /\ n \in Nat
  <2>1. InFront \in Slot
    BY InOccupancy
  <2> QED
    BY <2>1, DistanceType
<1>3. Succ(inWriteIndex) # InFront
  <2>1. n # RingSize - 1
    <3>1. /\ inTaken \in Nat /\ n + inTaken = Distance(inReadIndex, inWriteIndex)
          /\ n + inTaken # RingSize - 1
      BY <1>1, InOccupancy
    <3>2. Distance(inReadIndex, inWriteIndex) \in 0 .. RingSize - 1
      BY DistanceType
    <3> QED
      BY <1>2, <3>1, <3>2
  <2> QED
    BY <1>2, <2>1, DistanceGrows
<1>4. Contents(inBuffer, InFront, Succ(inWriteIndex))
        = Append(Contents(inBuffer, InFront, inWriteIndex), inBuffer[inWriteIndex])
  BY <1>2, <1>3, ContentsAppended
<1> QED
  BY <1>1, <1>4 DEF inBytes

(* Parsing the byte at r takes the oldest one of the queue.                *)
LEMMA DrainTakesHead ==
  ASSUME InInv, PollDrain
  PROVE  /\ inBytes # <<>>
         /\ parsed' = Head(inBytes)
         /\ inBytes' = Tail(inBytes)
         /\ inTaken' = inTaken + 1
<1> USE DEF InInv, InTypeOK
<1>1. /\ parsed' = inBuffer[pollR] /\ InFront = pollR /\ InFront' = Succ(pollR)
      /\ UNCHANGED <<inBuffer, inWriteIndex, inReadIndex>>
  BY DEF PollDrain, InFront
<1>2. /\ Distance(inReadIndex, pollR) < Distance(inReadIndex, inWriteIndex)
      /\ Distance(inReadIndex, pollR) # RingSize - 1
  <2>1. /\ Distance(inReadIndex, pollR) \in 0 .. RingSize - 1
        /\ Distance(inReadIndex, pollW) \in 0 .. RingSize - 1
        /\ Distance(inReadIndex, inWriteIndex) \in 0 .. RingSize - 1
    BY DistanceType
  <2>2. Distance(inReadIndex, pollR) # Distance(inReadIndex, pollW)
    BY DistanceInjective DEF PollDrain
  <2> QED
    BY <2>1, <2>2 DEF PollDrain, Batch
<1>3. pollR # inWriteIndex
  BY <1>2, DistanceType
<1>4. inTaken' = inTaken + 1
  BY <1>1, <1>2, DistanceGrows DEF inTaken
<1>5. /\ Contents(inBuffer, pollR, inWriteIndex) # <<>>
      /\ Head(Contents(inBuffer, pollR, inWriteIndex)) = inBuffer[pollR]
      /\ Tail(Contents(inBuffer, pollR, inWriteIndex))
           = Contents(inBuffer, Succ(pollR), inWriteIndex)
  BY <1>3, ContentsTaken
<1> QED
  BY <1>1, <1>4, <1>5 DEF inBytes

LEMMA InQueueInit ==
  InInit => InQueue!Init
<1> SUFFICES ASSUME InInit PROVE InQueue!Init
  OBVIOUS
<1>1. Distance(InFront, inWriteIndex) = 0 /\ Distance(inReadIndex, InFront) = 0
  BY DEF InInit, InFront, Distance
<1>2. Contents(inBuffer, InFront, inWriteIndex) = <<>>
  BY <1>1 DEF Contents
<1> QED
  BY <1>1, <1>2 DEF InInit, InQueue!Init

(* The kext offers when it loads its index, refuses when it loads the      *)
(* other one and accepts when it publishes; the poll thread delivers one   *)
(* byte of its batch at a time and releases the batch when it stores the   *)
(* index.                                                                  *)
LEMMA InQueueNext ==
  ASSUME InInv, [InNext]_midiInVars
  PROVE  [InQueue!Next]_(InQueue!vars)
<1> USE DEF InInv, InTypeOK
<1> DEFINE same == inBytes' = inBytes /\ inTaken' = inTaken /\ parsed' = parsed
<1>1. ASSUME NEW b \in Byte, InLoadWrite(b) PROVE InQueue!Next
  <2>1. same
    BY <1>1, InBytesUnchanged DEF InLoadWrite, pollVars, InFront, inTaken
  <2>2. inOffer = None /\ inOffer' = b
    BY <1>1 DEF InLoadWrite, inOffer
  <2>3. InQueue!Offer(b)
    BY <2>1, <2>2 DEF InQueue!Offer, inBytes, inTaken, inOffer
  <2> QED
    BY <2>3 DEF InQueue!Next
<1>2. CASE InLoadRead
  <2>1. same
    BY <1>2, InBytesUnchanged DEF InLoadRead, pollVars, InFront, inTaken
  <2>2. CASE Succ(inW) # inReadIndex
    <3>1. inOffer' = inOffer
      BY <1>2, <2>2 DEF InLoadRead, inOffer
    <3> QED
      BY <2>1, <3>1 DEF InQueue!vars, inBytes, inTaken, inOffer
  <2>3. CASE Succ(inW) = inReadIndex
    <3>1. Len(inBytes) + inTaken = RingSize - 1
      BY <1>2, <2>3, InOccupancy DEF InLoadRead
    <3>2. inOffer # None /\ inOffer' = None
      BY <1>2, <2>3 DEF InLoadRead, inOffer
    <3>3. InQueue!Refuse
      BY <2>1, <3>1, <3>2 DEF InQueue!Refuse, InQueue!Full, inBytes, inTaken, inOffer
    <3> QED
      BY <3>3 DEF InQueue!Next
  <2> QED
    BY <2>2, <2>3
<1>3. CASE InStore
  <2>1. same
    BY <1>3, InBytesUnchanged DEF InStore, pollVars, InFront, inTaken
  <2>2. inOffer' = inOffer
    BY <1>3 DEF InStore, inOffer
  <2> QED
    BY <2>1, <2>2 DEF InQueue!vars, inBytes, inTaken, inOffer
<1>4. CASE InPublish
  <2>1. inBytes' = Append(inBytes, inOffer)
    BY <1>4, InPublishAppends DEF InPublish, inOffer
  <2>2. Len(inBytes) + inTaken # RingSize - 1
    BY <1>4, InOccupancy DEF InPublish
  <2>3. inOffer # None /\ inOffer' = None /\ inTaken' = inTaken /\ parsed' = parsed
    BY <1>4 DEF InPublish, inOffer, inTaken, InFront, pollVars
  <2>4. InQueue!Accept
    BY <2>1, <2>2, <2>3 DEF InQueue!Accept, InQueue!Full, inBytes, inTaken, inOffer
  <2> QED
    BY <2>4 DEF InQueue!Next
<1>5. CASE PollLoadRead \/ PollLoadWrite
  <2>1. InFront' = InFront /\ UNCHANGED <<inBuffer, inWriteIndex, inReadIndex, parsed>>
    BY <1>5 DEF PollLoadRead, PollLoadWrite, InFront
  <2>2. same
    BY <2>1, InBytesUnchanged DEF inTaken
  <2>3. inOffer' = inOffer
    BY <1>5 DEF PollLoadRead, PollLoadWrite, inVars, inOffer
  <2> QED
    BY <2>2, <2>3 DEF InQueue!vars, inBytes, inTaken, inOffer
<1>6. CASE PollDrain
  <2>1. /\ inBytes # <<>> /\ parsed' = Head(inBytes) /\ inBytes' = Tail(inBytes)
        /\ inTaken' = inTaken + 1
    BY <1>6, DrainTakesHead
  <2>2. inOffer' = inOffer
    BY <1>6 DEF PollDrain, inOffer, inVars
  <2>3. InQueue!Deliver
    BY <2>1, <2>2 DEF InQueue!Deliver, inBytes, inTaken, inOffer
  <2> QED
    BY <2>3 DEF InQueue!Next
<1>7. CASE PollPublish
  <2>1. InFront = pollR /\ InFront' = pollR /\ inReadIndex' = pollR
    BY <1>7 DEF PollPublish, InFront
  <2>2. inBytes' = inBytes
    BY <1>7, <2>1, InBytesUnchanged DEF PollPublish
  <2>3. inTaken > 0 /\ inTaken' = 0
    BY <1>7, <2>1, DistanceType DEF PollPublish, Batch, inTaken
  <2>4. parsed' = parsed /\ inOffer' = inOffer
    BY <1>7 DEF PollPublish, inVars, inOffer
  <2>5. InQueue!Release
    BY <2>2, <2>3, <2>4 DEF InQueue!Release, inBytes, inTaken, inOffer
  <2> QED
    BY <2>5 DEF InQueue!Next
<1>8. CASE UNCHANGED midiInVars
  <2>1. same
    BY <1>8, InBytesUnchanged DEF midiInVars, pollVars, InFront, inTaken
  <2>2. inOffer' = inOffer
    BY <1>8 DEF midiInVars, inVars, inOffer
  <2> QED
    BY <2>1, <2>2 DEF InQueue!vars, inBytes, inTaken, inOffer
<1> QED
  BY <1>1, <1>2, <1>3, <1>4, <1>5, <1>6, <1>7, <1>8
     DEF InNext, ProcessMIDIInput, MidiInputPollThread

(* Whatever the ring size and the interleaving of the kext with the poll   *)
(* thread, a byte the kext accepted is parsed once and in order, and one   *)
(* is refused only while the ring, its unreleased slots included, is full. *)
THEOREM InRingImplementsQueue ==
  InSpec => InImplementsQueue
<1>1. InInit => InInv
  BY InInvInit
<1>2. InInv /\ [InNext]_midiInVars => InInv'
  BY InInvNext
<1>3. InInv /\ [InNext]_midiInVars => [InQueue!Next]_(InQueue!vars)
  BY InQueueNext
<1>4. InInit => InQueue!Init
  BY InQueueInit
<1> QED
  BY <1>1, <1>2, <1>3, <1>4, PTL DEF InSpec, InImplementsQueue, InQueue!Spec

-----------------------------------------------------------------------------
(* The send buffer of the Linux driver.                                    *)

\* Bytes that are copied and not yet counted.
Added == IF outPc \in {"load", "store"} THEN chunk ELSE 0
All == Remaining + Added

\* What holds whatever the two sides do to each other.
UartTyped ==
  /\ UartTypeOK
  /\ outPc # "idle" => chunk > 0
  /\ outPc = "copy" => written + chunk <= MaxBytes

(* From the place of the next byte on there lie, in order, the bytes that  *)
(* are counted and those that are copied and soon will be, and nothing of  *)
(* what was written is anywhere else.                                      *)
Ordered ==
  /\ getPc \in {"take", "load", "store"} => uartToSent > 0
  /\ Sending => uartSendCount > 0
  /\ sent + All = written
  /\ uartSendCount + All < CounterSize
  /\ \A i \in 0 .. All - 1 : uartSendBuffer[uartSendCount + i] = sent + 1 + i
  /\ latest = sent

UartInv == UartTyped /\ (apart => Ordered)

LEMMA ModSmall == ASSUME NEW c \in Nat, NEW a \in Nat, a < c PROVE a % c = a
OBVIOUS

LEMMA ModCount == ASSUME NEW a \in Int PROVE a % CounterSize \in Count
BY SizeAssumption DEF Count

LEMMA UartInvInit == UartInit => UartInv
<1> SUFFICES ASSUME UartInit PROVE UartTyped /\ Ordered
  BY DEF UartInv
<1>1. UartTyped
  <2>1. 0 \in 0 .. MaxBytes /\ 0 \in 0 .. MaxChunk /\ 0 \in Count
    BY SizeAssumption DEF Count
  <2> QED
    <3>1. uartSendBuffer \in [Place -> 0 .. MaxBytes]
      BY <2>1 DEF UartInit
    <3>2. /\ uartSendCount = 0 /\ uartToSent = 0 /\ outPc = "idle" /\ chunk = 0
          /\ outTmp = 0 /\ written = 0 /\ getPc = "idle" /\ getTmp = 0
          /\ sent = 0 /\ latest = 0 /\ apart = TRUE
      BY DEF UartInit
    <3> QED
      BY <2>1, <3>1, <3>2 DEF UartTyped, UartTypeOK
<1>2. Added = 0 /\ Remaining = 0 /\ ~Sending
  <2>1. uartToSent \in Int /\ uartToSent = 0 /\ getPc = "idle" /\ outPc = "idle"
    BY DEF UartInit
  <2>2. ~Sending /\ Added = 0
    BY <2>1 DEF Sending, Added
  <2>3. Remaining = uartToSent - 0
    BY <2>2, Zenon DEF Remaining
  <2> QED
    BY <2>1, <2>2, <2>3
<1>3. All = 0
  BY <1>2 DEF All
<1>4. Ordered
  BY <1>2, <1>3, SizeAssumption DEF UartInit, Ordered
<1> QED
  BY <1>1, <1>4

LEMMA UartTypedNext == UartTyped /\ [UartNext]_uartVars => UartTyped'
<1> SUFFICES ASSUME UartTyped, [UartNext]_uartVars PROVE UartTyped'
  OBVIOUS
<1> USE SizeAssumption DEF UartTyped, UartTypeOK, Place, Count
<1>1. CASE OutTrigger
  BY <1>1 DEF OutTrigger, uart, get
<1>2. CASE OutCopy
  <2>1. PICK at \in {outTmp, uartToSent} :
          uartSendBuffer' = [i \in Place |-> IF i \in at .. at + chunk - 1
             THEN written + 1 + i - at ELSE uartSendBuffer[i]]
    BY <1>2 DEF OutCopy
  <2>2. at \in Nat
    BY <2>1
  <2>3. \A i \in at .. at + chunk - 1 : written + 1 + i - at \in 0 .. MaxBytes
    BY <1>2, <2>2 DEF OutCopy
  <2>4. uartSendBuffer' \in [Place -> 0 .. MaxBytes]
    BY <2>1, <2>3
  <2>5. apart' \in BOOLEAN
    BY <1>2 DEF OutCopy, Apart
  <2> QED
    BY <1>2, <2>4, <2>5 DEF OutCopy, get
<1>3. CASE OutLoad
  BY <1>3 DEF OutLoad, uart, get
<1>4. CASE OutStore
  <2>1. uartToSent' \in Count /\ apart' \in BOOLEAN
    BY <1>4, ModCount DEF OutStore, Apart
  <2> QED
    BY <1>4, <2>1 DEF OutStore, get
<1>5. CASE GetTest
  BY <1>5 DEF GetTest, uart, trigger
<1>6. CASE GetTake
  <2>1. uartSendCount' \in Count
    BY <1>6, ModCount DEF GetTake
  <2>2. latest' \in 0 .. MaxBytes
    BY <1>6 DEF GetTake
  <2>3. sent' \in 0 .. MaxBytes
    BY <1>6 DEF GetTake
  <2>4. /\ getPc' = "load"
        /\ UNCHANGED <<uartSendBuffer, uartToSent, outPc, chunk, outTmp, written, getTmp, apart>>
    BY <1>6 DEF GetTake, trigger
  <2> QED
    BY <2>1, <2>2, <2>3, <2>4
<1>7. CASE GetLoad
  BY <1>7 DEF GetLoad, uart, trigger
<1>8. CASE GetStore
  <2>1. uartToSent' \in Count /\ apart' \in BOOLEAN
    BY <1>8, ModCount DEF GetStore, Apart
  <2> QED
    BY <1>8, <2>1 DEF GetStore, trigger
<1>9. CASE GetReset
  <2>1. apart' \in BOOLEAN
    BY <1>9 DEF GetReset, Apart
  <2> QED
    BY <1>9, <2>1 DEF GetReset, trigger
<1>10. CASE UNCHANGED uartVars
  BY <1>10 DEF uartVars, uart, trigger, get
<1> QED
  BY <1>1, <1>2, <1>3, <1>4, <1>5, <1>6, <1>7, <1>8, <1>9, <1>10
     DEF UartNext, MidiOutTrigger, GetMidiOutput

\* What the steps need of the types.
LEMMA UartNumbers ==
  ASSUME UartTyped
  PROVE  /\ BufferSize \in Nat /\ CounterSize \in Nat /\ MaxBytes \in Nat
         /\ CounterSize > 0 /\ CounterSize <= BufferSize
         /\ uartSendCount \in Nat /\ uartToSent \in Nat
         /\ uartSendCount < CounterSize
         /\ chunk \in Nat /\ written \in Nat /\ sent \in Nat /\ latest \in Nat
         /\ written <= MaxBytes
         /\ outTmp \in Nat /\ getTmp \in Nat /\ Added \in Nat
BY SizeAssumption DEF UartTyped, UartTypeOK, Count, Added

(* A copy comes to lie behind all that waits.                              *)
LEMMA CopyOrdered ==
  ASSUME UartTyped, Ordered, OutCopy, apart'
  PROVE  Ordered'
<1>1. PICK at \in {outTmp, uartToSent} :
        /\ uartSendBuffer' = [i \in Place |-> IF i \in at .. at + chunk - 1
             THEN written + 1 + i - at ELSE uartSendBuffer[i]]
        /\ Apart(at = Behind /\ at + chunk < CounterSize)
  BY DEF OutCopy
<1>2. at = uartSendCount + Remaining /\ at + chunk < CounterSize
  BY <1>1 DEF Apart, Behind
<1>3. /\ outPc = "copy" /\ outPc' = "load" /\ written' = written + chunk
      /\ UNCHANGED <<uartSendCount, uartToSent, chunk, getPc, sent, latest>>
  BY DEF OutCopy, get
<1>4. Added = 0 /\ Added' = chunk /\ Remaining' = Remaining
  BY <1>3 DEF Added, Remaining, Sending
<1>5. Remaining \in Nat /\ sent + Remaining = written
  BY <1>4, UartNumbers DEF Ordered, All, Remaining, Sending
<1>6. All' = Remaining + chunk /\ All = Remaining
  BY <1>4, <1>5 DEF All
<1>7. ASSUME NEW i \in 0 .. All' - 1
      PROVE  uartSendBuffer'[uartSendCount' + i] = sent' + 1 + i
  <2>1. uartSendCount + i \in Place /\ i \in Nat
    BY <1>2, <1>5, <1>6, <1>7, UartNumbers DEF Place
  <2>2. CASE i < Remaining
    <3>1. uartSendCount + i \notin at .. at + chunk - 1
      BY <1>2, <1>5, <2>1, <2>2, UartNumbers
    <3>2. uartSendBuffer[uartSendCount + i] = sent + 1 + i
      BY <1>5, <1>6, <2>1, <2>2 DEF Ordered
    <3> QED
      BY <1>1, <1>3, <2>1, <3>1, <3>2
  <2>3. CASE i >= Remaining
    <3>1. uartSendCount + i \in at .. at + chunk - 1
      BY <1>2, <1>5, <1>6, <1>7, <2>1, <2>3, UartNumbers
    <3>2. uartSendBuffer'[uartSendCount + i] = written + 1 + (uartSendCount + i) - at
      BY <1>1, <2>1, <3>1
    <3>3. written + 1 + (uartSendCount + i) - at = sent + 1 + i
      BY <1>2, <1>5, <2>1, UartNumbers
    <3> QED
      BY <1>3, <3>2, <3>3
  <2> QED
    BY <1>5, <2>1, <2>2, <2>3
<1>8. uartSendCount' + All' < CounterSize' /\ sent' + All' = written'
  BY <1>2, <1>3, <1>5, <1>6, UartNumbers
<1>9. /\ getPc' \in {"take", "load", "store"} => uartToSent' > 0
      /\ Sending' => uartSendCount' > 0
      /\ latest' = sent'
  BY <1>3 DEF Ordered, Sending
<1> QED
  BY <1>7, <1>8, <1>9 DEF Ordered

(* Counting what was copied.                                               *)
LEMMA StoreOrdered ==
  ASSUME UartTyped, Ordered, OutStore, apart'
  PROVE  Ordered'
<1>1. /\ outPc = "store" /\ outPc' = "idle" /\ uartToSent = outTmp
      /\ uartToSent' = (outTmp + chunk) % CounterSize
      /\ UNCHANGED <<uartSendBuffer, uartSendCount, chunk, written, getPc, sent, latest>>
  BY DEF OutStore, Apart, get
<1>2. Added = chunk /\ Added' = 0
  BY <1>1 DEF Added
<1>3. uartSendCount + Remaining + chunk < CounterSize
  BY <1>2, UartNumbers DEF Ordered, All, Remaining
<1>4. uartToSent + chunk < CounterSize
  BY <1>3, UartNumbers DEF Ordered, Remaining
<1>5. uartToSent' = uartToSent + chunk
  BY <1>1, <1>4, ModSmall, UartNumbers
<1>6. Remaining' = Remaining + chunk
  BY <1>1, <1>5, UartNumbers DEF Remaining, Sending
<1>7. All' = All
  BY <1>2, <1>6, UartNumbers DEF All, Remaining
<1>8. getPc' \in {"take", "load", "store"} => uartToSent' > 0
  BY <1>1, <1>5, UartNumbers DEF Ordered
<1> QED
  BY <1>1, <1>7, <1>8 DEF Ordered, Sending

(* Taking a byte.                                                          *)
LEMMA TakeOrdered ==
  ASSUME UartTyped, Ordered, GetTake
  PROVE  Ordered'
<1>1. /\ getPc = "take" /\ getPc' = "load" /\ uartToSent > 0
      /\ latest' = uartSendBuffer[uartSendCount]
      /\ uartSendCount' = (uartSendCount + 1) % CounterSize
      /\ sent' = IF sent < MaxBytes THEN sent + 1 ELSE sent
      /\ UNCHANGED <<uartSendBuffer, uartToSent, outPc, chunk, written>>
  BY DEF GetTake, trigger, Ordered
<1>2. Remaining = uartToSent /\ Remaining' = uartToSent - 1 /\ Added' = Added
  BY <1>1, UartNumbers DEF Remaining, Sending, Added
<1> DEFINE n == All
<1>3. n \in Nat /\ n > 0 /\ All' = n - 1
  BY <1>1, <1>2, UartNumbers DEF All
<1>4. /\ sent + n = written /\ uartSendCount + n < CounterSize /\ latest = sent
      /\ \A i \in 0 .. n - 1 : uartSendBuffer[uartSendCount + i] = sent + 1 + i
  BY DEF Ordered
<1> HIDE DEF n
<1>5. uartSendCount' = uartSendCount + 1
  <2>1. uartSendCount + 1 \in Nat /\ uartSendCount + 1 < CounterSize
    BY <1>3, <1>4, UartNumbers
  <2> QED
    BY <1>1, <2>1, ModSmall, UartNumbers
<1>6. sent' = sent + 1
  BY <1>1, <1>3, <1>4, UartNumbers
<1>7. latest' = sent + 1
  <2>1. 0 \in 0 .. n - 1 /\ uartSendCount + 0 = uartSendCount /\ sent + 1 + 0 = sent + 1
    BY <1>3, UartNumbers
  <2> QED
    BY <1>1, <1>4, <2>1
<1>8. ASSUME NEW i \in 0 .. n - 2
      PROVE  uartSendBuffer[uartSendCount + 1 + i] = sent + 1 + 1 + i
  <2>1. i + 1 \in 0 .. n - 1
    BY <1>3
  <2>2. uartSendBuffer[uartSendCount + (i + 1)] = sent + 1 + (i + 1)
    BY <1>4, <2>1
  <2>3. uartSendCount + (i + 1) = uartSendCount + 1 + i /\ sent + 1 + (i + 1) = sent + 1 + 1 + i
    BY UartNumbers
  <2> QED
    BY <2>2, <2>3
<1>9. sent' + All' = written' /\ uartSendCount' + All' < CounterSize'
  BY <1>1, <1>3, <1>4, <1>5, <1>6, UartNumbers
<1>10. \A i \in 0 .. All' - 1 : uartSendBuffer'[uartSendCount' + i] = sent' + 1 + i
  <2>1. All' - 1 = n - 2
    BY <1>3
  <2> QED
    BY <1>1, <1>5, <1>6, <1>8, <2>1
<1>11. uartSendCount' > 0 /\ uartToSent' > 0 /\ latest' = sent'
  BY <1>1, <1>5, <1>6, <1>7, UartNumbers
<1> QED
  BY <1>9, <1>10, <1>11 DEF Ordered

(* Counting it off.                                                        *)
LEMMA OffOrdered ==
  ASSUME UartTyped, Ordered, GetStore, apart'
  PROVE  Ordered'
<1>1. /\ getPc = "store" /\ getPc' = "idle" /\ uartToSent > 0 /\ uartToSent = getTmp
      /\ uartToSent' = (getTmp - 1) % CounterSize
      /\ UNCHANGED <<uartSendBuffer, uartSendCount, outPc, chunk, written, sent, latest>>
  BY DEF GetStore, Apart, trigger, Ordered
<1>2. uartToSent' = uartToSent - 1
  <2>1. uartToSent - 1 \in Nat /\ uartToSent - 1 < CounterSize
    BY <1>1, SizeAssumption DEF UartTyped, UartTypeOK, Count
  <2> QED
    BY <1>1, <2>1, ModSmall, UartNumbers
<1>3. Remaining' = Remaining /\ Added' = Added
  BY <1>1, <1>2, UartNumbers DEF Remaining, Sending, Added
<1>4. All' = All
  BY <1>3 DEF All
<1> QED
  BY <1>1, <1>4 DEF Ordered, Sending

(* Going back to the front.                                                *)
LEMMA ResetOrdered ==
  ASSUME UartTyped, Ordered, GetReset, apart'
  PROVE  Ordered'
<1>1. /\ getPc = "reset" /\ getPc' = "idle" /\ uartSendCount' = 0
      /\ uartSendCount = 0 \/ (uartToSent = 0 /\ outPc \notin {"load", "store"})
      /\ UNCHANGED <<uartSendBuffer, uartToSent, outPc, chunk, written, sent, latest>>
  BY DEF GetReset, Apart, trigger
<1>2. All' = All /\ Remaining = uartToSent
  BY <1>1, UartNumbers DEF All, Remaining, Sending, Added
<1>3. CASE uartSendCount = 0
  BY <1>1, <1>2, <1>3 DEF Ordered, Sending
<1>4. CASE uartToSent = 0 /\ outPc \notin {"load", "store"}
  <2>1. All = 0
    BY <1>2, <1>4 DEF All, Added
  <2> QED
    BY <1>1, <1>2, <2>1, UartNumbers DEF Ordered, Sending
<1> QED
  BY <1>1, <1>3, <1>4

LEMMA UartInvNext == UartInv /\ [UartNext]_uartVars => UartInv'
<1> SUFFICES ASSUME UartInv, [UartNext]_uartVars, apart'
             PROVE  Ordered'
  BY UartTypedNext DEF UartInv
<1>1. apart
  BY DEF UartNext, MidiOutTrigger, GetMidiOutput, OutTrigger, OutCopy, OutLoad, OutStore,
         GetTest, GetTake, GetLoad, GetStore, GetReset, Apart, uartVars
<1>2. UartTyped /\ Ordered
  BY <1>1 DEF UartInv
<1>3. CASE OutTrigger \/ OutLoad
  <2>1. /\ Added' = Added
        /\ UNCHANGED <<uartSendBuffer, uartSendCount, uartToSent, written, getPc, sent, latest>>
    BY <1>3 DEF OutTrigger, OutLoad, uart, get, Added
  <2>2. All' = All /\ Sending' = Sending
    BY <2>1 DEF All, Remaining, Sending
  <2> QED
    BY <1>2, <2>1, <2>2 DEF Ordered
<1>4. CASE GetTest
  <2>1. /\ getPc' \in {"take", "reset"} /\ getPc = "idle"
        /\ getPc' = "take" => uartToSent > 0
        /\ UNCHANGED <<uartSendBuffer, uartSendCount, uartToSent, written, sent, latest,
                       outPc, chunk>>
    BY <1>4 DEF GetTest, uart, trigger
  <2>2. All' = All /\ ~Sending'
    BY <2>1 DEF All, Added, Remaining, Sending
  <2> QED
    BY <1>2, <2>1, <2>2 DEF Ordered
<1>5. CASE GetLoad
  <2>1. /\ getPc = "load" /\ getPc' = "store"
        /\ UNCHANGED <<uartSendBuffer, uartSendCount, uartToSent, written, sent, latest,
                       outPc, chunk>>
    BY <1>5 DEF GetLoad, uart, trigger
  <2>2. All' = All /\ Sending
    BY <2>1 DEF All, Added, Remaining, Sending
  <2> QED
    BY <1>2, <2>1, <2>2 DEF Ordered
<1>6. CASE UNCHANGED uartVars
  BY <1>2, <1>6 DEF uartVars, uart, trigger, get, Ordered, All, Added, Remaining, Sending
<1> QED
  BY <1>2, <1>3, <1>4, <1>5, <1>6, CopyOrdered, StoreOrdered, TakeOrdered, OffOrdered,
     ResetOrdered DEF UartNext, MidiOutTrigger, GetMidiOutput

(* The Linux driver gives the device what is written in order and each     *)
(* byte once, for every size of the buffer, of the counters and of a       *)
(* write, until the two ends, which have no lock in common, have come in   *)
(* each other's way in one of the four ways that Apart names.              *)
THEOREM BytesInOrderUntilTheyMeet == UartSpec => []SentInOrder
<1>1. UartInv => SentInOrder
  BY DEF UartInv, Ordered, SentInOrder
<1> QED
  BY UartInvInit, UartInvNext, <1>1, PTL DEF UartSpec
===============================================================================

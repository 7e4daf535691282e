--------------------------- MODULE TimestampProofs ---------------------------
(***************************************************************************)
(* Time in the two drivers for macOS.  The earlier driver counts it by the *)
(* transfers of PCM OUT that complete: no change of their number or size   *)
(* loses one, a packet has the frames of its time, and the zero timestamps *)
(* follow each other.  The kext publishes it through the shared memory: a  *)
(* zero timestamp that the reader has validated is never torn.             *)
(***************************************************************************)
EXTENDS PloytecDriver, ZeroTimestamp, FiniteSetTheorems, TLAPS

-----------------------------------------------------------------------------
(* THE QUEUE OF BLOCKS                                                     *)

LEMMA CountType == ASSUME NEW T, NEW s \in Seq(T), NEW kind
                   PROVE  /\ Count(s, kind) \in Nat
                          /\ IsFiniteSet({i \in 1 .. Len(s) : s[i].kind = kind})
<1>1. IsFiniteSet(1 .. Len(s))
  BY FS_Interval
<1>2. {i \in 1 .. Len(s) : s[i].kind = kind} \in SUBSET (1 .. Len(s))
  OBVIOUS
<1>3. IsFiniteSet({i \in 1 .. Len(s) : s[i].kind = kind})
  BY <1>1, <1>2, FS_Subset
<1> QED
  BY <1>3, FS_CardinalityType DEF Count

(* A block that is appended counts for its kind.                           *)
LEMMA CountAppend ==
  ASSUME NEW T, NEW s \in Seq(T), NEW e \in T, NEW kind
  PROVE  Count(Append(s, e), kind) = Count(s, kind) + IF e.kind = kind THEN 1 ELSE 0
<1> DEFINE A == {i \in 1 .. Len(s) : s[i].kind = kind}
           B == {i \in 1 .. Len(Append(s, e)) : Append(s, e)[i].kind = kind}
           n == Len(s) + 1
<1>1. /\ n \in Nat /\ Len(Append(s, e)) = n /\ Append(s, e)[n] = e
      /\ \A i \in 1 .. Len(s) : Append(s, e)[i] = s[i]
  OBVIOUS
<1>2. 1 .. n = (1 .. Len(s)) \cup {n} /\ n \notin 1 .. Len(s)
  OBVIOUS
<1>3. IsFiniteSet(A) /\ n \notin A
  BY <1>2, CountType
<1>4. CASE e.kind = kind
  <2>1. B = A \cup {n}
    BY <1>1, <1>2, <1>4
  <2>2. Cardinality(A \cup {n}) = Cardinality(A) + 1
    BY <1>3, FS_AddElement
  <2> QED
    BY <1>4, <2>1, <2>2 DEF Count
<1>5. CASE e.kind # kind
  <2>1. B = A
    BY <1>1, <1>2, <1>5
  <2>2. /\ Count(s, kind) \in Nat /\ Count(s, kind) = Cardinality(A)
        /\ Count(Append(s, e), kind) = Cardinality(B)
    BY CountType DEF Count
  <2> HIDE DEF A, B
  <2> QED
    BY <1>5, <2>1, <2>2
<1> QED
  BY <1>4, <1>5

(* And no longer when it has left the queue.                               *)
LEMMA CountTail ==
  ASSUME NEW T, NEW s \in Seq(T), s # <<>>, NEW kind
  PROVE  Count(s, kind) = Count(Tail(s), kind) + IF Head(s).kind = kind THEN 1 ELSE 0
<1> DEFINE A == {i \in 1 .. Len(Tail(s)) : Tail(s)[i].kind = kind}
           B == {i \in 1 .. Len(s) : s[i].kind = kind}
           f == [i \in A |-> i + 1]
<1>1. /\ Len(s) \in Nat /\ Len(s) >= 1 /\ Len(Tail(s)) = Len(s) - 1 /\ Head(s) = s[1]
      /\ Tail(s) \in Seq(T)
      /\ \A i \in 1 .. Len(s) - 1 : Tail(s)[i] = s[i + 1]
  OBVIOUS
<1>2. IsFiniteSet(A)
  BY <1>1, CountType
<1>3. \A i \in A : i + 1 \in B \ {1}
  BY <1>1
<1>4. \A j \in B \ {1} : j - 1 \in A /\ j = (j - 1) + 1
  BY <1>1
<1>5. f \in [A -> B \ {1}]
  BY <1>3
<1>6. \A i, j \in A : f[i] = f[j] => i = j
  <2>1. A \subseteq Int
    OBVIOUS
  <2> QED
    BY <2>1
<1>7. \A j \in B \ {1} : \E i \in A : f[i] = j
  BY <1>4
<1>8. f \in Bijection(A, B \ {1})
  BY <1>5, <1>6, <1>7 DEF Bijection, Injection, Surjection, IsInjective
<1>9. /\ IsFiniteSet(B \ {1}) /\ Cardinality(B \ {1}) = Cardinality(A)
  BY <1>2, <1>8, FS_Bijection DEF ExistsBijection
<1>10. CASE Head(s).kind = kind
  <2>1. B = (B \ {1}) \cup {1} /\ 1 \notin B \ {1}
    BY <1>1, <1>10
  <2>2. Cardinality((B \ {1}) \cup {1}) = Cardinality(B \ {1}) + 1
    BY <1>9, FS_AddElement
  <2> QED
    BY <1>9, <1>10, <2>1, <2>2 DEF Count
<1>11. CASE Head(s).kind # kind
  <2>1. B = B \ {1}
    BY <1>1, <1>11
  <2>2. /\ Count(Tail(s), kind) \in Nat /\ Count(Tail(s), kind) = Cardinality(A)
        /\ Count(s, kind) = Cardinality(B)
    BY <1>1, CountType DEF Count
  <2> HIDE DEF A, B
  <2>3. Cardinality(B) = Cardinality(A)
    BY <1>9, <2>1
  <2> QED
    BY <1>11, <2>2, <2>3
<1> QED
  BY <1>10, <1>11

-----------------------------------------------------------------------------
(* TYPES                                                                   *)

Item == Change \cup [kind : Pipe \cup {"StartIO", "StopIO"}, n : {0}]

UsbType == flight \in [Pipe -> Nat] /\ completed \in [Pipe -> Nat]
AbortType == shutdown \in BOOLEAN /\ aborted \in [Pipe -> Nat]
CountsType == /\ urbCount \in UrbCounts \cup {InitialUrbs}
              /\ frames \in FrameCounts \cup {InitialFrames}
DeviceType == /\ ioStarted \in BOOLEAN /\ grown \in BOOLEAN
              /\ hwTime \in Nat /\ lastZero \in Nat \cup {Never}
              /\ packet \in [first : Nat, time : Nat]
ControlType == /\ started \in {"no", "sending", "yes", "failed"}
               /\ change \in Change \cup {NoChange}
               /\ at \in {"idle", "poll", "configure", "pipes", "flush", "send"}
               /\ failed \in BOOLEAN
               /\ changes \in 0 .. MaxChanges /\ io \in 0 .. MaxIO

(* The type invariant, part by part.                                       *)
LEMMA Types ==
  DriverTypeOK <=> /\ UsbType /\ AbortType /\ CountsType /\ DeviceType
                   /\ ControlType /\ queue \in Seq(Item)
<1>1. {flight, completed, aborted} \subseteq [Pipe -> Nat] <=>
        /\ flight \in [Pipe -> Nat] /\ completed \in [Pipe -> Nat]
        /\ aborted \in [Pipe -> Nat]
  OBVIOUS
<1>2. {shutdown, ioStarted, grown, failed} \subseteq BOOLEAN <=>
        /\ shutdown \in BOOLEAN /\ ioStarted \in BOOLEAN
        /\ grown \in BOOLEAN /\ failed \in BOOLEAN
  OBVIOUS
<1> QED
  BY <1>1, <1>2, Zenon
     DEF DriverTypeOK, UsbType, AbortType, CountsType, DeviceType, ControlType, Item

(* The numbers that the constants allow.                                   *)
LEMMA Bounds ==
  /\ MaxTime \in Nat /\ MaxChanges \in Nat /\ MaxIO \in Nat
  /\ \A n \in UrbCounts \cup {InitialUrbs} : n \in Nat
  /\ \A f \in FrameCounts \cup {InitialFrames} :
       f \in Nat /\ f > 0 /\ f <= Period /\ Period % f = 0
<1>1. MaxTime \in Nat /\ MaxChanges \in Nat /\ MaxIO \in Nat
  BY BoundsAssumption, Zenon
<1>2. \A n \in UrbCounts \cup {InitialUrbs} : n \in Nat
  BY CountsAssumption
<1>3. ASSUME NEW f \in FrameCounts \cup {InitialFrames}
      PROVE  f \in Nat /\ f > 0 /\ f <= Period /\ Period % f = 0
  <2>1. f \in 1 .. Period /\ Period % f = 0
    BY CountsAssumption, Zenon
  <2> QED
    BY <2>1 DEF Period
<1> QED
  BY <1>1, <1>2, <1>3, Zenon

LEMMA Numbers ==
  CountsType => /\ urbCount \in Nat
                /\ frames \in Nat /\ frames > 0 /\ frames <= Period /\ Period % frames = 0
BY Bounds, Zenon DEF CountsType

LEMMA PlusType ==
  ASSUME NEW f, f \in [Pipe -> Nat], NEW p \in Pipe, NEW n \in Int, f[p] + n >= 0
  PROVE  /\ Plus(f, p, n) \in [Pipe -> Nat]
         /\ \A q \in Pipe : Plus(f, p, n)[q] = f[q] + IF p = q THEN n ELSE 0
BY DEF Plus

(* SendPCMUrbs gives each pipe its transfers, or a request has failed.     *)
LEMMA Sent ==
  ASSUME NEW num \in Nat, UsbType, AbortType, failed \in BOOLEAN, SendPCMUrbs(num)
  PROVE  /\ flight' \in [Pipe -> Nat] /\ shutdown' = FALSE /\ urbCount' = num
         /\ failed' \in BOOLEAN /\ (failed => failed')
         /\ failed' \/ \A p \in Pipe : flight'[p] = flight[p] + num
<1>1. CASE flight' = [p \in Pipe |-> flight[p] + num] /\ UNCHANGED failed
  BY <1>1 DEF SendPCMUrbs, UsbType
<1>2. ASSUME failed' = TRUE, NEW n \in 0 .. num - 1, NEW m \in {0, 1},
             flight' = [p \in Pipe |-> flight[p] + n + IF p = "in" THEN m ELSE 0]
      PROVE  flight' \in [Pipe -> Nat]
  BY <1>2 DEF UsbType
<1> QED
  BY <1>1, <1>2 DEF SendPCMUrbs

(* So does the block of a change, whatever became of it.                   *)
LEMMA BuffersSent ==
  ASSUME UsbType, AbortType, CountsType, failed \in BOOLEAN, CreateBuffers
  PROVE  /\ flight' \in [Pipe -> Nat] /\ shutdown' \in BOOLEAN /\ urbCount' = urbCount
         /\ failed' \in BOOLEAN /\ (failed => failed')
         /\ \/ failed'
            \/ /\ shutdown' = FALSE
               /\ \A p \in Pipe : flight'[p] = flight[p] + urbCount
<1>1. CASE SendPCMUrbs(urbCount)
  BY <1>1, Sent, Numbers
<1>2. CASE MayFail /\ failed' = TRUE /\ UNCHANGED <<flight, shutdown, urbCount>>
  BY <1>2 DEF UsbType, AbortType
<1> QED
  BY <1>1, <1>2 DEF CreateBuffers

(* A block leaves the queue; what is appended is a block.                  *)
LEMMA QueueType ==
  ASSUME queue \in Seq(Item)
  PROVE  /\ \A b : Runs(b) => /\ queue' \in Seq(Item) /\ at = "idle" /\ queue # <<>>
                              /\ Head(queue) = b /\ queue' = Tail(queue) /\ b \in Item
         /\ \A b \in Item : Dispatch(b) => queue' \in Seq(Item)
<1>1. queue # <<>> => Head(queue) \in Item /\ Tail(queue) \in Seq(Item)
  OBVIOUS
<1> QED
  BY <1>1 DEF Runs, Dispatch

(* The packet's time and first frame, and the time that goes on.           *)
LEMMA PlaybackType ==
  ASSUME CountsType, DeviceType, Playback
  PROVE  DeviceType'
<1>1. /\ hwTime \in Nat /\ frames \in Nat /\ frames > 0
  BY Numbers DEF DeviceType
<1>2. hwTime % Period \in Nat
  BY <1>1 DEF Period
<1>3. Segment(hwTime) \in Nat
  BY <1>1, <1>2 DEF Segment
<1>4. Segment(hwTime) * frames \in Nat
  BY <1>1, <1>3
<1>5. packet' \in [first : Nat, time : Nat]
  BY <1>2, <1>4 DEF Playback
<1>6. hwTime + frames \in Nat /\ ExpectedZero(hwTime + frames) \in Nat
  BY <1>1 DEF ExpectedZero, Period
<1> HIDE DEF ExpectedZero
<1> QED
  BY <1>5, <1>6 DEF Playback, DeviceType

LEMMA DriverTypeInit == DriverInit => DriverTypeOK
<1> SUFFICES ASSUME DriverInit PROVE DriverTypeOK
  OBVIOUS
<1>1. UsbType /\ AbortType
  BY DEF DriverInit, UsbType, AbortType, Nothing
<1>2. DeviceType
  BY DEF DriverInit, DeviceType
<1>3. ControlType
  <2>1. 0 \in 0 .. MaxChanges /\ 0 \in 0 .. MaxIO
    BY Bounds
  <2> QED
    BY <2>1 DEF DriverInit, ControlType
<1>4. CountsType
  BY DEF DriverInit, CountsType
<1>5. queue \in Seq(Item)
  BY DEF DriverInit
<1> QED
  BY <1>1, <1>2, <1>3, <1>4, <1>5, Types

LEMMA DriverTypeNext == DriverTypeOK /\ [DriverNext]_driverVars => DriverTypeOK'
<1> SUFFICES ASSUME DriverTypeOK, [DriverNext]_driverVars
             PROVE  (/\ UsbType /\ AbortType /\ CountsType /\ DeviceType
                     /\ ControlType /\ queue \in Seq(Item))'
  BY Types, PTL
<1>0. /\ UsbType /\ AbortType /\ CountsType /\ DeviceType
      /\ ControlType /\ queue \in Seq(Item)
  BY Types
<1>1. CASE Start
  <2>1. SendPCMUrbs(urbCount) /\ urbCount \in Nat /\ failed \in BOOLEAN
    BY <1>0, <1>1, Numbers DEF Start, ControlType
  <2>2. /\ flight' \in [Pipe -> Nat] /\ shutdown' = FALSE /\ urbCount' = urbCount
        /\ failed' \in BOOLEAN
    BY <1>0, <2>1, Sent
  <2> QED
    BY <1>0, <1>1, <2>2
       DEF Start, UsbType, AbortType, CountsType, DeviceType, ControlType, device, bounds
<1>2. CASE StartEnds
  BY <1>0, <1>2
     DEF StartEnds, UsbType, AbortType, CountsType, DeviceType, ControlType,
         usb, abort, counts, device, bounds
<1>3. ASSUME NEW p \in Pipe, CompleteAsyncIO(p) PROVE
        (/\ UsbType /\ AbortType /\ CountsType /\ DeviceType
         /\ ControlType /\ queue \in Seq(Item))'
  <2>1. UsbType'
    <3>1. /\ flight \in [Pipe -> Nat] /\ completed \in [Pipe -> Nat]
          /\ flight[p] + (-1) >= 0 /\ completed[p] + 1 >= 0
          /\ flight' = Plus(flight, p, -1) /\ completed' = Plus(completed, p, 1)
      BY <1>0, <1>3 DEF CompleteAsyncIO, UsbType
    <3>2. flight' \in [Pipe -> Nat]
      BY <3>1, PlusType
    <3>3. completed' \in [Pipe -> Nat]
      BY <3>1, PlusType
    <3> QED
      BY <3>2, <3>3 DEF UsbType
  <2> QED
    BY <1>0, <1>3, <2>1
       DEF CompleteAsyncIO, AbortType, CountsType, DeviceType, ControlType,
           abort, counts, device, bounds
<1>4. ASSUME NEW p \in Pipe, Handler(p) PROVE
        (/\ UsbType /\ AbortType /\ CountsType /\ DeviceType
         /\ ControlType /\ queue \in Seq(Item))'
  <2>1. UsbType'
    <3>1. /\ completed \in [Pipe -> Nat] /\ completed[p] + (-1) >= 0
          /\ completed' = Plus(completed, p, -1)
      BY <1>0, <1>4 DEF Handler, UsbType
    <3>2. completed' \in [Pipe -> Nat]
      BY <3>1, PlusType
    <3> QED
      BY <1>0, <1>4, <3>2 DEF Handler, UsbType
  <2>2. Block(p, 0) \in Item
    BY DEF Block, Item
  <2>3. queue' \in Seq(Item)
    BY <1>0, <1>4, <2>2, QueueType DEF Handler
  <2> QED
    BY <1>0, <1>4, <2>1, <2>3
       DEF Handler, AbortType, CountsType, DeviceType, ControlType,
           abort, counts, device, bounds
<1>5. ASSUME NEW c \in Change, AskChange(c) PROVE
        (/\ UsbType /\ AbortType /\ CountsType /\ DeviceType
         /\ ControlType /\ queue \in Seq(Item))'
  <2>1. changes' \in 0 .. MaxChanges
    BY <1>0, <1>5, Bounds DEF AskChange, ControlType
  <2>2. queue' \in Seq(Item)
    BY <1>0, <1>5, QueueType DEF AskChange, Item
  <2> QED
    BY <1>0, <1>5, <2>1, <2>2
       DEF AskChange, UsbType, AbortType, CountsType, DeviceType, ControlType,
           usb, abort, counts, device
<1>6. CASE AskStartIO \/ AskStopIO
  <2>1. io' \in 0 .. MaxIO
    BY <1>0, <1>6, Bounds DEF AskStartIO, AskStopIO, ControlType
  <2>2. Block("StartIO", 0) \in Item /\ Block("StopIO", 0) \in Item
    BY DEF Block, Item
  <2>3. queue' \in Seq(Item)
    BY <1>0, <1>6, <2>2, QueueType DEF AskStartIO, AskStopIO, Ask
  <2> QED
    BY <1>0, <1>6, <2>1, <2>3
       DEF AskStartIO, AskStopIO, Ask, UsbType, AbortType, CountsType, DeviceType,
           ControlType, usb, abort, counts, device
<1>7. ASSUME NEW p \in Pipe, BlockAborts(p) PROVE
        (/\ UsbType /\ AbortType /\ CountsType /\ DeviceType
         /\ ControlType /\ queue \in Seq(Item))'
  <2>1. UsbType' /\ aborted' \in [Pipe -> Nat]
    <3>1. flight[p] \in Nat /\ completed[p] \in Nat /\ aborted[p] \in Nat
      BY <1>0 DEF UsbType, AbortType
    <3>2. Plus(completed, p, flight[p]) \in [Pipe -> Nat]
      BY <1>0, <3>1, PlusType DEF UsbType
    <3>3. Plus(aborted, p, 1) \in [Pipe -> Nat]
      BY <1>0, <3>1, PlusType DEF AbortType
    <3>4. [flight EXCEPT ![p] = 0] \in [Pipe -> Nat]
      BY <1>0 DEF UsbType
    <3>5. \/ /\ flight' = [flight EXCEPT ![p] = 0]
             /\ completed' = Plus(completed, p, flight[p]) /\ aborted' = Plus(aborted, p, 1)
          \/ flight' = flight /\ completed' = completed /\ aborted' = aborted
      BY <1>7 DEF BlockAborts, usb
    <3> QED
      BY <1>0, <3>2, <3>3, <3>4, <3>5, Zenon DEF UsbType, AbortType
  <2>2. queue' \in Seq(Item)
    BY <1>0, <1>7, QueueType DEF BlockAborts
  <2>3. failed' \in BOOLEAN
    BY <1>0, <1>7 DEF BlockAborts, ControlType
  <2> QED
    BY <1>0, <1>7, <2>1, <2>2, <2>3
       DEF BlockAborts, AbortType, CountsType, DeviceType, ControlType,
           counts, device, bounds
<1>8. CASE "in" \in Pipe /\ BlockIn
  <2>1. UsbType'
    <3>1. flight["in"] \in Nat
      BY <1>0, <1>8 DEF UsbType
    <3> QED
      BY <1>0, <1>8, <3>1, PlusType DEF BlockIn, Submit, UsbType
  <2>2. queue' \in Seq(Item)
    BY <1>0, <1>8, QueueType DEF BlockIn
  <2>3. failed' \in BOOLEAN
    BY <1>0, <1>8 DEF BlockIn, Submit, ControlType
  <2> QED
    BY <1>0, <1>8, <2>1, <2>2, <2>3
       DEF BlockIn, AbortType, CountsType, DeviceType, ControlType,
           abort, counts, device, bounds
<1>9. CASE BlockOut
  <2>1. UsbType'
    <3>1. "out" \in Pipe /\ flight["out"] \in Nat
      BY <1>0, PipeAssumption DEF UsbType
    <3> QED
      BY <1>0, <1>9, <3>1, PlusType DEF BlockOut, Submit, UsbType
  <2>2. queue' \in Seq(Item)
    BY <1>0, <1>9, QueueType DEF BlockOut
  <2>3. failed' \in BOOLEAN
    BY <1>0, <1>9 DEF BlockOut, Submit, ControlType
  <2>4. DeviceType'
    BY <1>0, <1>9, PlaybackType DEF BlockOut
  <2> QED
    BY <1>0, <1>9, <2>1, <2>2, <2>3, <2>4
       DEF BlockOut, AbortType, CountsType, ControlType, abort, counts, bounds
<1>10. ASSUME NEW c \in Change, BeginChange(c) PROVE
        (/\ UsbType /\ AbortType /\ CountsType /\ DeviceType
         /\ ControlType /\ queue \in Seq(Item))'
  <2>1. queue' \in Seq(Item)
    BY <1>0, <1>10, QueueType DEF BeginChange
  <2> QED
    BY <1>0, <1>10, <2>1
       DEF BeginChange, UsbType, AbortType, CountsType, DeviceType, ControlType,
           usb, counts, device, bounds
<1>11. CASE AbortPoll \/ CreateUSBPipes
  BY <1>0, <1>11
     DEF AbortPoll, CreateUSBPipes, UsbType, AbortType, CountsType, DeviceType,
         ControlType, usb, abort, counts, device, bounds
<1>12. CASE Configure
  <2>1. UsbType'
    BY <1>0, <1>12 DEF Configure, UsbType, Nothing, usb
  <2> QED
    BY <1>0, <1>12, <2>1
       DEF Configure, AbortType, CountsType, DeviceType, ControlType,
           abort, counts, device, bounds
<1>13. CASE Flush
  <2>1. AbortType'
    <3>1. shutdown' \in BOOLEAN
      <4>1. shutdown \in BOOLEAN /\ (shutdown' = FALSE \/ shutdown' \in {shutdown, FALSE})
        BY <1>0, <1>13, Zenon DEF Flush, AbortType
      <4> QED
        BY <4>1, Zenon
    <3>2. aborted' \in [Pipe -> Nat]
      <4>1. Nothing \in [Pipe -> Nat]
        BY DEF Nothing
      <4> QED
        BY <1>0, <1>13, <4>1, Zenon DEF Flush, AbortType
    <3> QED
      BY <3>1, <3>2 DEF AbortType
  <2> QED
    BY <1>0, <1>13, <2>1
       DEF Flush, UsbType, CountsType, DeviceType, ControlType,
           usb, counts, device, bounds
<1>14. CASE SetCurrentUrbCount
  <2>1. change.n \in UrbCounts
    BY <1>0, <1>14 DEF SetCurrentUrbCount, ControlType, Change, NoChange, Block
  <2>2. SendPCMUrbs(change.n) /\ change.n \in Nat /\ failed \in BOOLEAN
    BY <1>0, <1>14, <2>1, Bounds DEF SetCurrentUrbCount, ControlType
  <2>3. /\ flight' \in [Pipe -> Nat] /\ shutdown' = FALSE /\ urbCount' = change.n
        /\ failed' \in BOOLEAN
    BY <1>0, <2>2, Sent
  <2> QED
    BY <1>0, <1>14, <2>1, <2>3
       DEF SetCurrentUrbCount, EndBlock, UsbType, AbortType, CountsType, DeviceType,
           ControlType, bounds
<1>15. CASE SetFrameCount
  <2>1. change.n \in FrameCounts /\ change.n \in Nat
    BY <1>0, <1>15, Bounds DEF SetFrameCount, ControlType, Change, NoChange, Block
  <2>2. /\ flight' \in [Pipe -> Nat] /\ shutdown' \in BOOLEAN /\ urbCount' = urbCount
        /\ failed' \in BOOLEAN
    BY <1>0, <1>15, BuffersSent DEF SetFrameCount, ControlType
  <2>3. grown' \in BOOLEAN
    BY <1>0, <1>15 DEF SetFrameCount, DeviceType
  <2> QED
    BY <1>0, <1>15, <2>1, <2>2, <2>3
       DEF SetFrameCount, EndBlock, UsbType, AbortType, CountsType, DeviceType,
           ControlType, bounds
<1>16. CASE StartIO \/ StopIO
  <2>1. queue' \in Seq(Item)
    BY <1>0, <1>16, QueueType DEF StartIO, StopIO
  <2>2. DeviceType'
    <3>1. [first |-> 0, time |-> 0] \in [first : Nat, time : Nat]
      OBVIOUS
    <3>2. CASE StartIO
      BY <1>0, <3>1, <3>2 DEF StartIO, Fresh, DeviceType
    <3>3. CASE StopIO
      BY <1>0, <3>3 DEF StopIO, DeviceType
    <3> QED
      BY <1>16, <3>2, <3>3
  <2> QED
    BY <1>0, <1>16, <2>1, <2>2
       DEF StartIO, StopIO, UsbType, AbortType, CountsType, ControlType,
           usb, abort, counts, bounds
<1>17. CASE UNCHANGED driverVars
  BY <1>0, <1>17
     DEF driverVars, UsbType, AbortType, CountsType, DeviceType, ControlType,
         usb, abort, counts, device, bounds
<1> QED
  BY <1>1, <1>2, <1>3, <1>4, <1>5, <1>6, <1>7, <1>8, <1>9, <1>10, <1>11, <1>12, <1>13,
     <1>14, <1>15, <1>16, <1>17 DEF DriverNext, WorkQueue

-----------------------------------------------------------------------------
(* TRANSFERS                                                               *)

(* Outside a change, and as long as no request has failed, the shutdown is *)
(* over and every pipe has its transfers: in flight, completed, or as a    *)
(* block that will submit the next one.                                    *)
FlowInv ==
  at = "idle" /\ ~failed =>
    /\ ~shutdown
    /\ started # "no" => \A p \in Pipe : Transfers(p) >= urbCount

LEMMA BlocksRun ==
  ASSUME queue \in Seq(Item), NEW b, Runs(b), NEW p \in Pipe
  PROVE  Blocks(p)' = Blocks(p) - IF b.kind = p THEN 1 ELSE 0
<1>1. queue # <<>> /\ Head(queue) = b /\ queue' = Tail(queue)
  BY DEF Runs
<1>2. Tail(queue) \in Seq(Item)
  BY <1>1
<1>3. Count(queue, p) \in Nat /\ Count(Tail(queue), p) \in Nat
  BY <1>2, CountType
<1>4. Count(queue, p) = Count(Tail(queue), p) + IF b.kind = p THEN 1 ELSE 0
  BY <1>1, CountTail
<1>5. Blocks(p) = Count(queue, p) /\ Blocks(p)' = Count(Tail(queue), p)
  BY <1>1 DEF Blocks
<1> QED
  BY <1>3, <1>4, <1>5

LEMMA BlocksDispatched ==
  ASSUME queue \in Seq(Item), NEW b \in Item, Dispatch(b), NEW p \in Pipe
  PROVE  Blocks(p)' = Blocks(p) + IF b.kind = p THEN 1 ELSE 0
<1>1. Count(Append(queue, b), p) = Count(queue, p) + IF b.kind = p THEN 1 ELSE 0
  BY CountAppend
<1> QED
  BY <1>1 DEF Blocks, Dispatch

LEMMA Sizes ==
  ASSUME DriverTypeOK
  PROVE  /\ urbCount \in Nat
         /\ \A p \in Pipe : flight[p] \in Nat /\ completed[p] \in Nat /\ Blocks(p) \in Nat
         /\ queue \in Seq(Item) /\ flight \in [Pipe -> Nat] /\ completed \in [Pipe -> Nat]
<1>1. UsbType /\ CountsType /\ queue \in Seq(Item)
  BY Types
<1>2. \A p \in Pipe : Blocks(p) \in Nat
  BY <1>1, CountType DEF Blocks
<1> QED
  BY <1>1, <1>2, Numbers DEF UsbType

(* A block that submits the next transfer takes the place of the one whose *)
(* handler appended it.                                                    *)
LEMMA Resubmitted ==
  ASSUME DriverTypeOK, NEW q \in Pipe, Runs(Block(q, 0)), flight' = Plus(flight, q, 1),
         UNCHANGED completed, NEW p \in Pipe
  PROVE  Transfers(p)' = Transfers(p)
<1>1. Blocks(p)' = Blocks(p) - IF q = p THEN 1 ELSE 0
  <2>1. Block(q, 0).kind = q
    BY DEF Block
  <2> QED
    BY <2>1, BlocksRun, Sizes
<1>2. /\ flight[q] + 1 >= 0 /\ flight \in [Pipe -> Nat]
  BY Sizes
<1>3. flight'[p] = flight[p] + IF q = p THEN 1 ELSE 0
  BY <1>2, PlusType, Sizes
<1> HIDE DEF Blocks
<1> QED
  BY <1>1, <1>3, Sizes DEF Transfers

LEMMA FlowNext == DriverTypeOK /\ FlowInv /\ [DriverNext]_driverVars => FlowInv'
<1> SUFFICES ASSUME DriverTypeOK, FlowInv, [DriverNext]_driverVars,
                    at' = "idle", ~failed'
             PROVE  /\ ~shutdown'
                    /\ started' # "no" => \A p \in Pipe : Transfers(p)' >= urbCount'
  BY DEF FlowInv
<1>0. /\ UsbType /\ AbortType /\ CountsType /\ ControlType /\ queue \in Seq(Item)
  BY Types
<1>k. \A p \in Pipe : p \notin {"StartIO", "StopIO", "urbs", "frames"}
  BY PipeAssumption
<1>1. CASE Start
  <2>1. SendPCMUrbs(urbCount) /\ urbCount \in Nat /\ failed \in BOOLEAN
    BY <1>0, <1>1, Numbers DEF Start, ControlType
  <2>2. shutdown' = FALSE /\ urbCount' = urbCount
        /\ \A p \in Pipe : flight'[p] = flight[p] + urbCount
    BY <1>0, <2>1, Sent
  <2>3. UNCHANGED <<queue, completed>>
    BY <1>1 DEF Start
  <2>4. \A p \in Pipe : Transfers(p)' = Transfers(p) + urbCount /\ Transfers(p) \in Nat
    BY <2>2, <2>3, Sizes DEF Transfers, Blocks
  <2> QED
    BY <2>1, <2>2, <2>4
<1>2. CASE StartEnds
  BY <1>2 DEF StartEnds, FlowInv, Transfers, Blocks, usb, abort, counts
<1>3. ASSUME NEW q \in Pipe, CompleteAsyncIO(q) PROVE
        ~shutdown' /\ (started' # "no" => \A p \in Pipe : Transfers(p)' >= urbCount')
  <2>1. /\ flight[q] + (-1) >= 0 /\ completed[q] + 1 >= 0
        /\ flight' = Plus(flight, q, -1) /\ completed' = Plus(completed, q, 1)
        /\ UNCHANGED <<started, queue, at, shutdown, urbCount, failed>>
    BY <1>3, Sizes DEF CompleteAsyncIO, abort, counts
  <2>2. ASSUME NEW p \in Pipe PROVE Transfers(p)' = Transfers(p)
    <3>1. flight'[p] = flight[p] + IF q = p THEN -1 ELSE 0
      <4>1. flight \in [Pipe -> Nat] /\ -1 \in Int
        BY Sizes
      <4>2. Plus(flight, q, -1)[p] = flight[p] + IF q = p THEN -1 ELSE 0
        BY <2>1, <4>1, PlusType
      <4> QED
        BY <2>1, <4>2
    <3>2. completed'[p] = completed[p] + IF q = p THEN 1 ELSE 0
      BY <2>1, PlusType, Sizes
    <3>3. Blocks(p)' = Blocks(p)
      BY <2>1 DEF Blocks
    <3> QED
      BY <3>1, <3>2, <3>3, Sizes DEF Transfers
  <2> QED
    BY <2>1, <2>2 DEF FlowInv
<1>4. ASSUME NEW q \in Pipe, Handler(q) PROVE
        ~shutdown' /\ (started' # "no" => \A p \in Pipe : Transfers(p)' >= urbCount')
  <2>1. /\ completed[q] + (-1) >= 0 /\ completed' = Plus(completed, q, -1)
        /\ Dispatch(Block(q, 0)) /\ Block(q, 0) \in Item /\ Block(q, 0).kind = q
        /\ UNCHANGED <<started, flight, at, shutdown, urbCount, failed>>
    BY <1>4, Sizes DEF Handler, abort, counts, Block, Item
  <2>2. ASSUME NEW p \in Pipe PROVE Transfers(p)' = Transfers(p)
    <3>1. completed'[p] = completed[p] + IF q = p THEN -1 ELSE 0
      BY <2>1, PlusType, Sizes
    <3>2. Blocks(p)' = Blocks(p) + IF q = p THEN 1 ELSE 0
      BY <1>0, <2>1, BlocksDispatched
    <3>3. flight'[p] = flight[p] /\ flight[p] \in Nat /\ completed[p] \in Nat /\ Blocks(p) \in Nat
      BY <2>1, Sizes
    <3> QED
      BY <3>1, <3>2, <3>3 DEF Transfers
  <2> QED
    BY <2>1, <2>2 DEF FlowInv
<1>5. ASSUME NEW b \in Item, b.kind \notin Pipe, Dispatch(b),
             UNCHANGED <<started, at, usb, abort, counts, failed>>
      PROVE  ~shutdown' /\ (started' # "no" => \A p \in Pipe : Transfers(p)' >= urbCount')
  <2>1. ASSUME NEW p \in Pipe PROVE Transfers(p)' = Transfers(p)
    <3>1. Blocks(p)' = Blocks(p) + 0
      BY <1>0, <1>5, BlocksDispatched
    <3> QED
      BY <1>5, <3>1, Sizes DEF Transfers, usb
  <2> QED
    BY <1>5, <2>1 DEF FlowInv, abort, counts
<1>6. ASSUME NEW c \in Change, AskChange(c) PROVE
        ~shutdown' /\ (started' # "no" => \A p \in Pipe : Transfers(p)' >= urbCount')
  <2>1. c \in Item /\ c.kind \in {"urbs", "frames"}
    BY DEF Item, Change
  <2> QED
    BY <1>5, <1>6, <1>k, <2>1 DEF AskChange
<1>7. CASE AskStartIO \/ AskStopIO
  <2>1. ASSUME NEW kind \in {"StartIO", "StopIO"}
        PROVE  Block(kind, 0) \in Item /\ Block(kind, 0).kind \notin Pipe
    BY <1>k DEF Block, Item
  <2> QED
    BY <1>5, <1>7, <2>1 DEF AskStartIO, AskStopIO, Ask
<1>8. ASSUME NEW q \in Pipe, BlockAborts(q) PROVE FALSE
  <2>1. at = "idle" /\ shutdown /\ failed
    BY <1>8 DEF BlockAborts, Runs, FlowInv
  <2> QED
    BY <1>8, <2>1 DEF BlockAborts
<1>9. ASSUME NEW q \in Pipe, Runs(Block(q, 0)), Submit(q),
             UNCHANGED <<started, at, completed, abort, counts>>
      PROVE  ~shutdown' /\ (started' # "no" => \A p \in Pipe : Transfers(p)' >= urbCount')
  <2>1. flight' = Plus(flight, q, 1) /\ ~failed
    BY <1>9 DEF Submit
  <2>2. \A p \in Pipe : Transfers(p)' = Transfers(p)
    BY <1>9, <2>1, Resubmitted
  <2> QED
    BY <1>9, <2>1, <2>2 DEF FlowInv, abort, counts
<1>10. CASE "in" \in Pipe /\ BlockIn
  BY <1>9, <1>10 DEF BlockIn
<1>11. CASE BlockOut
  BY <1>9, <1>11, PipeAssumption DEF BlockOut
<1>12. ASSUME NEW c \in Change, BeginChange(c) PROVE FALSE
  BY <1>12 DEF BeginChange
<1>13. ASSUME AbortPoll \/ Configure \/ CreateUSBPipes \/ Flush PROVE FALSE
  BY <1>13 DEF AbortPoll, Configure, CreateUSBPipes, Flush
<1>14. CASE SetCurrentUrbCount
  <2>1. change.n \in UrbCounts
    BY <1>0, <1>14 DEF SetCurrentUrbCount, ControlType, Change, NoChange, Block
  <2>2. SendPCMUrbs(change.n) /\ change.n \in Nat /\ failed \in BOOLEAN
    BY <1>0, <1>14, <2>1, Bounds DEF SetCurrentUrbCount, ControlType
  <2>3. shutdown' = FALSE /\ urbCount' = change.n
        /\ \A p \in Pipe : flight'[p] = flight[p] + change.n
    BY <1>0, <2>2, Sent
  <2>4. UNCHANGED <<queue, completed>>
    BY <1>14 DEF SetCurrentUrbCount, EndBlock
  <2>5. \A p \in Pipe : Transfers(p)' = Transfers(p) + change.n /\ Transfers(p) \in Nat
    BY <2>2, <2>3, <2>4, Sizes DEF Transfers, Blocks
  <2> QED
    BY <2>2, <2>3, <2>5
<1>15. CASE SetFrameCount
  <2>1. shutdown' = FALSE /\ urbCount' = urbCount
        /\ \A p \in Pipe : flight'[p] = flight[p] + urbCount
    BY <1>0, <1>15, BuffersSent DEF SetFrameCount, ControlType
  <2>2. UNCHANGED <<queue, completed>>
    BY <1>15 DEF SetFrameCount, EndBlock
  <2>3. \A p \in Pipe : Transfers(p)' = Transfers(p) + urbCount /\ Transfers(p) \in Nat
    BY <2>1, <2>2, Sizes DEF Transfers, Blocks
  <2> QED
    BY <2>1, <2>3, Sizes
<1>16. CASE StartIO \/ StopIO
  <2>1. PICK kind \in {"StartIO", "StopIO"} : Runs(Block(kind, 0))
    BY <1>16 DEF StartIO, StopIO
  <2>2. UNCHANGED <<started, at, usb, abort, counts, failed>>
    BY <1>16 DEF StartIO, StopIO
  <2>3. ASSUME NEW p \in Pipe PROVE Transfers(p)' = Transfers(p)
    <3>1. Block(kind, 0).kind # p
      BY <1>k DEF Block
    <3>2. Blocks(p)' = Blocks(p) - 0
      BY <1>0, <2>1, <3>1, BlocksRun
    <3> QED
      BY <2>2, <3>2, Sizes DEF Transfers, usb
  <2> QED
    BY <2>2, <2>3 DEF FlowInv, abort, counts
<1>17. CASE UNCHANGED driverVars
  BY <1>17 DEF driverVars, FlowInv, Transfers, Blocks, usb, abort, counts
<1> QED
  BY <1>1, <1>2, <1>3, <1>4, <1>6, <1>7, <1>8, <1>10, <1>11, <1>12, <1>13,
     <1>14, <1>15, <1>16, <1>17 DEF DriverNext, WorkQueue

-----------------------------------------------------------------------------
(* THE TIME OF A PACKET                                                    *)

Multiple(n, d) == \E k \in Nat : n = k * d

LEMMA MulStep ==
  ASSUME NEW d \in Nat, NEW a \in Nat, NEW b \in Nat, a < b
  PROVE  a * d + d <= b * d
<1>1. b - a - 1 \in Nat /\ b = a + 1 + (b - a - 1)
  OBVIOUS
<1>2. PICK k \in Nat : b = a + 1 + k
  BY <1>1
<1>3. b * d = a * d + d + k * d
  BY <1>2
<1>4. k * d \in Nat /\ a * d \in Nat
  OBVIOUS
<1> QED
  BY <1>3, <1>4

LEMMA MultipleDivides ==
  ASSUME NEW d \in Nat, d > 0, NEW n \in Nat, Multiple(n, d)
  PROVE  (n \div d) * d = n
<1> DEFINE q == n \div d
<1>1. q \in Nat /\ n = d * q + (n % d) /\ n % d \in 0 .. d - 1
  OBVIOUS
<1>2. PICK k \in Nat : n = k * d
  BY DEF Multiple
<1>3. d * q = q * d /\ q * d \in Nat /\ k * d \in Nat
  BY <1>1
<1>4. ~ q < k
  BY <1>1, <1>2, <1>3, MulStep
<1>5. ~ k < q
  BY <1>1, <1>2, <1>3, MulStep
<1>6. k = q
  BY <1>1, <1>4, <1>5
<1> QED
  BY <1>2, <1>6

(* What is left of a multiple of d after whole periods is one, if the      *)
(* period is.                                                              *)
LEMMA MultipleRest ==
  ASSUME NEW d \in Nat, d > 0, NEW p \in Nat, p > 0, NEW n \in Nat,
         Multiple(n, d), Multiple(p, d)
  PROVE  Multiple(n % p, d)
<1>1. PICK k \in Nat : n = k * d
  BY DEF Multiple
<1>2. PICK j \in Nat : p = j * d
  BY DEF Multiple
<1> DEFINE q == n \div p
           r == n % p
<1>3. q \in Nat /\ r \in Nat /\ n = p * q + r
  OBVIOUS
<1> HIDE DEF q, r
<1>4. p * q = (j * q) * d /\ j * q \in Nat
  BY <1>2, <1>3
<1> DEFINE i == j * q
<1>5. i \in Nat /\ k * d = i * d + r
  BY <1>1, <1>3, <1>4
<1> HIDE DEF i
<1>6. ~ k < i
  <2>1. SUFFICES ASSUME k < i PROVE FALSE
    OBVIOUS
  <2>2. k * d + d <= i * d
    BY <1>5, <2>1, MulStep
  <2>3. k * d \in Nat /\ i * d \in Nat
    BY <1>5
  <2> QED
    BY <1>3, <1>5, <2>2, <2>3
<1>7. k - i \in Nat /\ (k - i) * d = k * d - i * d /\ i * d \in Nat
  BY <1>5, <1>6
<1>8. r = (k - i) * d
  BY <1>3, <1>5, <1>7
<1>9. Multiple(r, d)
  BY <1>7, <1>8 DEF Multiple
<1> QED
  BY <1>9 DEF r

LEMMA MultipleOfMultiple ==
  ASSUME NEW c \in Nat, NEW d \in Nat, NEW n \in Nat, Multiple(n, d), Multiple(d, c)
  PROVE  Multiple(n, c)
<1>1. PICK k \in Nat : n = k * d
  BY DEF Multiple
<1>2. PICK j \in Nat : d = j * c
  BY DEF Multiple
<1>3. n = (k * j) * c /\ k * j \in Nat
  BY <1>1, <1>2
<1> QED
  BY <1>3 DEF Multiple

(* The time is a whole number of packets and the last packet was of its    *)
(* time, until packets grow.                                               *)
PacketInv == ~grown => Multiple(hwTime, frames) /\ packet.first = packet.time

(* The panel's sizes: of any two, one is a multiple of the other.          *)
SizesNest == \A f, g \in FrameCounts \cup {InitialFrames} : f <= g => Multiple(g, f)

LEMMA PlaybackOnTime ==
  ASSUME DriverTypeOK, PacketInv, Playback, ~grown, frames' = frames
  PROVE  Multiple(hwTime', frames') /\ packet'.first = packet'.time
<1>1. /\ hwTime \in Nat /\ frames \in Nat /\ frames > 0
      /\ Period \in Nat /\ Period > 0 /\ Period % frames = 0
  BY Types, Numbers DEF DeviceType, Period
<1>2. Multiple(hwTime, frames)
  BY DEF PacketInv
<1>3. Multiple(Period, frames)
  <2>1. Period = frames * (Period \div frames) + (Period % frames) /\ Period \div frames \in Nat
    BY <1>1
  <2>2. Period = (Period \div frames) * frames
    BY <1>1, <2>1
  <2> QED
    BY <2>1, <2>2 DEF Multiple
<1>4. Multiple(hwTime % Period, frames) /\ hwTime % Period \in Nat
  BY <1>1, <1>2, <1>3, MultipleRest
<1>5. Segment(hwTime) * frames = hwTime % Period
  BY <1>1, <1>4, MultipleDivides DEF Segment
<1>6. packet'.first = packet'.time
  BY <1>5 DEF Playback
<1>7. Multiple(hwTime + frames, frames)
  <2>1. PICK k \in Nat : hwTime = k * frames
    BY <1>2 DEF Multiple
  <2>2. hwTime + frames = (k + 1) * frames
    BY <1>1, <2>1
  <2> QED
    BY <2>2 DEF Multiple
<1> QED
  BY <1>2, <1>6, <1>7 DEF Playback

LEMMA PacketNext ==
  ASSUME SizesNest PROVE DriverTypeOK /\ PacketInv /\ [DriverNext]_driverVars => PacketInv'
<1> SUFFICES ASSUME DriverTypeOK, PacketInv, [DriverNext]_driverVars, ~grown'
             PROVE  Multiple(hwTime', frames') /\ packet'.first = packet'.time
  BY DEF PacketInv
<1>0. /\ hwTime \in Nat /\ CountsType /\ ControlType
      /\ frames \in FrameCounts \cup {InitialFrames} /\ frames \in Nat
  BY Types, Numbers DEF DeviceType, CountsType
<1>1. CASE UNCHANGED <<frames, hwTime, packet, grown>>
  BY <1>1 DEF PacketInv
<1>2. CASE Start
  BY <1>1, <1>2 DEF Start, device
<1>3. CASE UNCHANGED <<device, frames>>
  BY <1>1, <1>3 DEF device
<1>4. CASE BlockOut
  BY <1>4, PlaybackOnTime DEF BlockOut, Playback, counts
<1>5. CASE SetCurrentUrbCount
  BY <1>1, <1>5 DEF SetCurrentUrbCount, EndBlock
<1>6. CASE SetFrameCount
  <2>1. /\ ~grown /\ ~ change.n > frames /\ frames' = change.n
        /\ UNCHANGED <<hwTime, packet>>
    BY <1>6 DEF SetFrameCount, EndBlock
  <2>2. change.n \in FrameCounts /\ change.n \in Nat
    <3>1. change.n \in FrameCounts
      BY <1>0, <1>6 DEF SetFrameCount, ControlType, Change, NoChange, Block
    <3> QED
      BY <3>1, Bounds
  <2>3. Multiple(frames, change.n)
    BY <1>0, <2>1, <2>2 DEF SizesNest
  <2>4. Multiple(hwTime, change.n) /\ packet.first = packet.time
    BY <1>0, <2>1, <2>2, <2>3, MultipleOfMultiple DEF PacketInv
  <2> QED
    BY <2>1, <2>4
<1>7. CASE StartIO
  <2>1. CASE Fresh(0, hwTime') \/ Fresh(0, Never)
    <3>1. hwTime' = 0 /\ packet' = [first |-> 0, time |-> 0] /\ frames' = frames
      BY <1>7, <2>1 DEF StartIO, Fresh, counts
    <3>2. 0 = 0 * frames
      BY <1>0
    <3> QED
      BY <3>1, <3>2 DEF Multiple
  <2> QED
    BY <1>1, <1>7, <2>1 DEF StartIO, counts
<1>8. CASE StopIO
  BY <1>1, <1>8 DEF StopIO, counts
<1> QED
  BY <1>2, <1>3, <1>4, <1>5, <1>6, <1>7, <1>8
     DEF DriverNext, WorkQueue, StartEnds, CompleteAsyncIO, Handler, AskChange,
         AskStartIO, AskStopIO, Ask, BlockAborts, BlockIn, BeginChange, AbortPoll,
         Configure, CreateUSBPipes, Flush, driverVars, counts

-----------------------------------------------------------------------------
(* ZERO TIMESTAMPS                                                         *)

(* What was reported last is the last whole period of the time.            *)
ZeroInv == lastZero # Never => lastZero = ExpectedZero(hwTime)

ZeroStep == lastZero # Never /\ lastZero' \notin {Never, lastZero} =>
              lastZero' = lastZero + Period /\ lastZero' <= hwTime'

(* A packet is no longer than a period, so it ends in the same or the next.*)
LEMMA NextZero ==
  ASSUME NEW t \in Nat, NEW f \in Nat, f <= Period
  PROVE  /\ ExpectedZero(t + f) \in {ExpectedZero(t), ExpectedZero(t) + Period}
         /\ ExpectedZero(t + f) <= t + f
BY DEF ExpectedZero, Period

LEMMA ZeroNext ==
  DriverTypeOK /\ ZeroInv /\ [DriverNext]_driverVars => ZeroInv' /\ ZeroStep
<1> SUFFICES ASSUME DriverTypeOK, ZeroInv, [DriverNext]_driverVars
             PROVE  ZeroInv' /\ ZeroStep
  OBVIOUS
<1>0. hwTime \in Nat /\ frames \in Nat /\ frames <= Period
  BY Types, Numbers DEF DeviceType
<1>1. CASE UNCHANGED <<hwTime, lastZero>>
  BY <1>1 DEF ZeroInv, ZeroStep, ExpectedZero
<1>2. CASE UNCHANGED device
  BY <1>1, <1>2 DEF device
<1>3. CASE BlockOut
  <2>1. CASE hwTime' = hwTime + frames /\ lastZero' = ExpectedZero(hwTime + frames)
    BY <1>0, <2>1, NextZero DEF ZeroInv, ZeroStep
  <2> QED
    BY <1>1, <1>3, <2>1 DEF BlockOut, Playback
<1>4. CASE SetCurrentUrbCount \/ SetFrameCount
  BY <1>1, <1>4 DEF SetCurrentUrbCount, SetFrameCount, EndBlock
<1>5. CASE StartIO
  <2>1. CASE lastZero' = Never
    BY <2>1 DEF ZeroInv, ZeroStep
  <2> QED
    BY <1>1, <1>5, <2>1 DEF StartIO, Fresh
<1>6. CASE StopIO
  BY <1>1, <1>6 DEF StopIO
<1> QED
  BY <1>2, <1>3, <1>4, <1>5, <1>6
     DEF DriverNext, WorkQueue, Start, StartEnds, CompleteAsyncIO, Handler, AskChange,
         AskStartIO, AskStopIO, Ask, BlockAborts, BlockIn, BeginChange, AbortPoll,
         Configure, CreateUSBPipes, Flush, driverVars

-----------------------------------------------------------------------------
(* The driver's variables have their types.                                *)
THEOREM DriverTypes == DriverSpec => []DriverTypeOK
BY DriverTypeInit, DriverTypeNext, PTL DEF DriverSpec

(* As long as no request fails, no change of the panel, abort or handler   *)
(* loses a transfer of a pipe.                                             *)
THEOREM NoTransferIsLost == DriverSpec => []TransfersKept
<1>1. DriverInit => FlowInv
  BY DEF DriverInit, FlowInv
<1>2. FlowInv => TransfersKept
  BY DEF FlowInv, TransfersKept
<1> QED
  BY <1>1, <1>2, FlowNext, DriverTypes, PTL DEF DriverSpec

(* With the panel's sizes a packet has the frames of its time, however     *)
(* often the size changes, until packets grow.                             *)
THEOREM PacketOnTime == ASSUME SizesNest PROVE DriverSpec => []PacketAtItsTime
<1>1. DriverInit => PacketInv
  <2>1. 0 = 0 * InitialFrames
    BY Bounds
  <2> QED
    BY <2>1 DEF DriverInit, PacketInv, Multiple
<1>2. PacketInv => PacketAtItsTime
  BY DEF PacketInv, PacketAtItsTime
<1> QED
  BY <1>1, <1>2, PacketNext, DriverTypes, PTL DEF DriverSpec

(* CoreAudio sees each multiple of the period once and in order, whatever  *)
(* the size of a packet.                                                   *)
THEOREM ZeroTimestampsFollow == DriverSpec => ZeroTimestampsConsecutive
<1>1. DriverInit => ZeroInv
  BY DEF DriverInit, ZeroInv, ExpectedZero, Period
<1>2. ZeroStep => (lastZero # Never /\ lastZero' \notin {Never, lastZero} =>
                     lastZero' = lastZero + Period /\ lastZero' <= hwTime')
  BY DEF ZeroStep
<1> QED
  BY <1>1, <1>2, ZeroNext, DriverTypes, PTL DEF DriverSpec, ZeroTimestampsConsecutive

-----------------------------------------------------------------------------
(* THE SEQUENCE LOCK OF THE KEXT                                           *)

(* While the sequence number is even nobody writes and the halves agree;   *)
(* the writer's copy of the number is the number it found.                 *)
WriterInv ==
  /\ pubPc \in {"idle", "load", "odd"} =>
       sequence % 2 = 0 /\ sampleTime = hostTime
  /\ pubPc = "odd" => seq = sequence
  /\ pubPc \in {"sample", "host", "even"} =>
       /\ sequence % 2 = 1 /\ sequence = seq + 1
  /\ pubPc = "host" => sampleTime = packets
  /\ pubPc = "even" => sampleTime = hostTime

(* The number the reader loaded first is even while it loads the pair, and *)
(* as long as the shared number is still the same, what the reader has     *)
(* loaded is what is there.                                                *)
ReaderInv ==
  /\ readPc \in {"sample", "host", "second"} =>
       seq1 % 2 = 0 /\ seq1 <= sequence
  /\ readPc \in {"host", "second"} /\ seq1 = sequence => sTime = sampleTime
  /\ readPc = "second" /\ seq1 = sequence => hTime = hostTime
  /\ readPc = "test" /\ clean /\ seq1 = seq2 => sTime = hTime
  /\ readPc = "test" /\ clean => seq2 \in Nat

IInv == TypeOK /\ WriterInv /\ ReaderInv /\ ValidatedPairIsOnePublication

USE TimestampAssumption

-----------------------------------------------------------------------------
LEMMA FirstTry == 0 \in 0 .. MaxTries - 1 /\ 0 \in 0 .. MaxTries
OBVIOUS

LEMMA TypeInit == Init => TypeOK
<1>1. NoResult \in [sample : Local, host : Local, clean : BOOLEAN,
                    tries : 0 .. MaxTries]
  BY FirstTry DEF NoResult, Local
<1>2. Init => result \in [sample : Local, host : Local, clean : BOOLEAN,
                          tries : 0 .. MaxTries]
  BY <1>1 DEF Init
<1>3. Init => clean \in BOOLEAN /\ retries \in 0 .. MaxTries - 1
  BY FirstTry DEF Init
<1> QED
  BY <1>2, <1>3 DEF Init, TypeOK, Local

LEMMA TypeNext == TypeOK /\ [Next]_vars => TypeOK'
<1> SUFFICES ASSUME TypeOK, [Next]_vars PROVE TypeOK'
  OBVIOUS
<1> USE DEF TypeOK, Local
<1>1. CASE EngineStart \/ EngineStop
  BY <1>1 DEF EngineStart, EngineStop, pubVars, readVars
<1>2. CASE CountPacket \/ LoadSequence
  BY <1>2 DEF CountPacket, LoadSequence, shared, readVars
<1>3. CASE StoreOdd \/ StoreSample \/ StoreHost \/ StoreEven
  BY <1>3 DEF StoreOdd, StoreSample, StoreHost, StoreEven, readVars
<1>4. CASE Call
  BY <1>4, FirstTry DEF Call, shared, pubVars
<1>5. CASE FirstLoad
  BY <1>5 DEF FirstLoad, shared, pubVars
<1>6. CASE LoadSample \/ LoadHost \/ SecondLoad
  BY <1>6 DEF LoadSample, LoadHost, SecondLoad, shared, pubVars
<1>7. CASE Test
  <2>1. ASSUME NEW n \in 0 .. MaxTries, Return(n) PROVE TypeOK'
    BY <2>1 DEF Return, shared, pubVars
  <2>2. ASSUME readPc' = "first", retries + 1 < MaxTries,
               retries' = retries + 1,
               UNCHANGED <<shared, pubVars, seq1, seq2, sTime, hTime,
                           clean, result>>
        PROVE  TypeOK'
    BY <2>2 DEF shared, pubVars
  <2> QED
    BY <1>7, <2>1, <2>2 DEF Test
<1>8. CASE UNCHANGED vars
  BY <1>8 DEF vars, shared, pubVars, readVars
<1> QED
  BY <1>1, <1>2, <1>3, <1>4, <1>5, <1>6, <1>7, <1>8
     DEF Next, UpdateTimestamp, GetZeroTimeStamp

-----------------------------------------------------------------------------
LEMMA IInvInit == Init => IInv
BY TypeInit
   DEF Init, IInv, WriterInv, ReaderInv, NoResult,
       ValidatedPairIsOnePublication, Validated

LEMMA IInvNext == IInv /\ [Next]_vars => IInv'
<1> SUFFICES ASSUME IInv, [Next]_vars
             PROVE  (WriterInv /\ ReaderInv /\ ValidatedPairIsOnePublication)'
  BY TypeNext DEF IInv
<1> USE DEF IInv, TypeOK, WriterInv, ReaderInv, Local,
            ValidatedPairIsOnePublication, Validated
<1>1. CASE EngineStart \/ EngineStop
  BY <1>1 DEF EngineStart, EngineStop, pubVars, readVars
<1>2. CASE CountPacket \/ LoadSequence
  BY <1>2 DEF CountPacket, LoadSequence, shared, readVars
<1>3. CASE StoreOdd
  BY <1>3 DEF StoreOdd, readVars
<1>4. CASE StoreSample
  BY <1>4 DEF StoreSample, readVars
<1>5. CASE StoreHost
  BY <1>5 DEF StoreHost, readVars
<1>6. CASE StoreEven
  BY <1>6 DEF StoreEven, readVars
<1>7. CASE Call
  BY <1>7 DEF Call, shared, pubVars
<1>8. CASE FirstLoad
  BY <1>8 DEF FirstLoad, shared, pubVars
<1>9. CASE LoadSample
  BY <1>9 DEF LoadSample, shared, pubVars
<1>10. CASE LoadHost
  BY <1>10 DEF LoadHost, shared, pubVars
<1>11. CASE SecondLoad
  BY <1>11 DEF SecondLoad, shared, pubVars
<1>12. CASE Test
  <2>1. PICK differ \in Differ :
          IF differ
          THEN \/ readPc' = "first" /\ result' = result
               \/ Return(MaxTries)
          ELSE Return(retries)
    BY <1>12 DEF Test
  <2>2. /\ UNCHANGED <<shared, pubVars>> /\ readPc' \in {"first", "idle"}
    BY <1>12 DEF Test, Return
  <2>3. WriterInv' /\ ReaderInv'
    BY <2>2 DEF shared, pubVars
  <2>4. CASE result' = result
    BY <2>3, <2>4
  <2>5. CASE Return(MaxTries)
    BY <2>3, <2>5 DEF Return
  <2>6. CASE ~differ /\ Return(retries)
    <3>1. clean => seq1 = seq2
      BY <1>12, <2>6 DEF Differ, Test
    <3> QED
      BY <1>12, <2>3, <2>6, <3>1 DEF Return, Test
  <2> QED
    BY <2>1, <2>4, <2>5, <2>6
<1>13. CASE UNCHANGED vars
  BY <1>13 DEF vars, shared, pubVars, readVars
<1> QED
  BY <1>1, <1>2, <1>3, <1>4, <1>5, <1>6, <1>7, <1>8, <1>9, <1>10, <1>11,
     <1>12, <1>13 DEF Next, UpdateTimestamp, GetZeroTimeStamp

(* A pair the reader loaded between two equal loads of the sequence number *)
(* is the pair of one publication.                                         *)
THEOREM ValidatedNeverTorn == Spec => []ValidatedPairIsOnePublication
<1>1. IInv => ValidatedPairIsOnePublication
  BY DEF IInv
<1> QED
  BY <1>1, IInvInit, IInvNext, PTL DEF Spec
=============================================================================

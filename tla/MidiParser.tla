------------------------------ MODULE MidiParser ------------------------------
(***************************************************************************)
(* How the bytes from the device's MIDI port become messages: the poll     *)
(* thread of the macOS MIDI driver (OzzyMIDI.mm) and the handler of the    *)
(* earlier DriverKit driver (PloytecDriver.cpp), each fed the same bytes.  *)
(*                                                                         *)
(* The sender is what MIDI allows on the wire: a status byte and its data, *)
(* a new status before the data is complete, a realtime byte anywhere.     *)
(* With "running" it leaves out a status that repeats the last one; with   *)
(* "lossy" a byte may get lost, as when the ring is full (MidiInRing).     *)
(***************************************************************************)
EXTENDS Integers, Sequences

CONSTANTS Sending,    \* how the sender may send: "plain", "running", "lossy"
          Statuses,   \* status bytes below 0xF8 that are sent
          Data,       \* data bytes that are sent
          Realtime    \* realtime bytes that are sent

ASSUME ParserAssumption ==
  /\ Sending \subseteq {"plain", "running", "lossy"}
  /\ Statuses \subseteq 128 .. 247 /\ Data \subseteq 0 .. 127
  /\ Realtime \subseteq 248 .. 255

VARIABLES
  sending, message,  \* the sender's way, and the message it is in
  sent,              \* the message the last byte completed
  buffer, expected,  \* OzzyMIDI: msgBuffer[0 .. msgIndex), msgExpected
  bytes, index, runningStatus,  \* PloytecDriver: midiParser...
  ozzy, ploytec      \* what each has delivered for the last byte

parserVars == <<sending, message, sent, buffer, expected, bytes, index,
                runningStatus, ozzy, ploytec>>

ChannelStatus == 128 .. 239  \* status bytes of channel messages

GetExpectedDataLength(status) ==
  CASE status >= 240 -> (CASE status \in {241, 243} -> 1 [] status = 242 -> 2
                           [] OTHER -> 0)
    [] status \in 192 .. 223 -> 1
    [] OTHER -> 2

ParserInit ==
  /\ sending \in Sending
  /\ message = <<>> /\ sent = <<>>
  /\ buffer = <<>> /\ expected = 0
  /\ bytes = <<0, 0, 0>> /\ index = 0 /\ runningStatus = 0
  /\ ozzy = <<>> /\ ploytec = <<>>

-----------------------------------------------------------------------------
(* MidiInputPollThread.                                                    *)

Deliver(m) == ozzy' = m /\ buffer' = <<>> /\ expected' = 0
Keep(m, n) == buffer' = m /\ expected' = n /\ ozzy' = <<>>

MutResetByRealtime(b) == Deliver(<<b>>)

\* A realtime byte passes the message it interrupts.
PassOn(b) == ozzy' = <<b>> /\ UNCHANGED <<buffer, expected>>

OzzyReceives(b) ==
  \/ b >= 248 /\ PassOn(b)
  \/ /\ b \in 128 .. 247
     /\ IF GetExpectedDataLength(b) = 0 THEN Deliver(<<b>>)
          ELSE Keep(<<b>>, 1 + GetExpectedDataLength(b))
  \/ /\ b < 128
     /\ CASE buffer = <<>> -> Keep(buffer, expected)
          [] Len(buffer) + 1 = expected -> Deliver(Append(buffer, b))
          [] OTHER -> Keep(Append(buffer, b), expected)

(* MIDIinHandler.  Three bytes are assumed of every message but two kinds, *)
(* and a message delivered leaves the parser behind its status.            *)

MutStartOver(last, length) == IF last = length THEN 0 ELSE last
AfterByte(last, length) == IF last = length THEN 1 ELSE last

PloytecReceives(b) ==
  IF b \in {253, 255}
    THEN ploytec' = <<>> /\ UNCHANGED <<bytes, index, runningStatus>>
  ELSE IF b >= 248
    THEN ploytec' = <<b>> /\ UNCHANGED <<bytes, index, runningStatus>>
  ELSE LET status == IF b >= 128 THEN b ELSE runningStatus
           kept == IF b >= 128 THEN [bytes EXCEPT ![1] = b]
                   ELSE IF status # 0 /\ index < 3 THEN [bytes EXCEPT ![index + 1] = b]
                   ELSE bytes
           last == IF b >= 128 THEN 1
                   ELSE IF status # 0 /\ index < 3 THEN index + 1 ELSE index
           length == IF status \in 192 .. 223 THEN 2 ELSE 3
       IN  /\ bytes' = kept /\ runningStatus' = status
           /\ index' = AfterByte(last, length)
           /\ ploytec' = IF last = length THEN SubSeq(kept, 1, length) ELSE <<>>

Receive(b) == OzzyReceives(b) /\ PloytecReceives(b)
ReceiveNothing ==
  /\ ozzy' = <<>> /\ ploytec' = <<>>
  /\ UNCHANGED <<buffer, expected, bytes, index, runningStatus>>

-----------------------------------------------------------------------------
(* The sender.  A complete message stays in `message' for its status.      *)

Complete(m) == m # <<>> /\ Len(m) = 1 + GetExpectedDataLength(m[1])
Sends(m, b) ==
  /\ message' = m /\ sent' = IF Complete(m) THEN m ELSE <<>>
  /\ UNCHANGED sending
  /\ Receive(b)

SendStatus == \E b \in Statuses : Sends(<<b>>, b)
SendData ==
  /\ message # <<>> /\ ~Complete(message)
  /\ \E b \in Data : Sends(Append(message, b), b)
SendRunning ==
  /\ sending = "running" /\ Complete(message) /\ message[1] \in ChannelStatus
  /\ \E b \in Data : Sends(<<message[1], b>>, b)
SendRealtime ==
  \E b \in Realtime :
    /\ sent' = <<b>> /\ UNCHANGED <<sending, message>>
    /\ Receive(b)
Lose(m) ==
  /\ message' = m /\ sent' = <<>> /\ UNCHANGED sending
  /\ ReceiveNothing
LoseByte ==
  /\ sending = "lossy"
  /\ \/ \E b \in Statuses : Lose(<<b>>)
     \/ /\ message # <<>> /\ ~Complete(message)
        /\ \E b \in Data : Lose(Append(message, b))

ParserNext == SendStatus \/ SendData \/ SendRunning \/ SendRealtime \/ LoseByte

ParserSpec == ParserInit /\ [][ParserNext]_parserVars

-----------------------------------------------------------------------------
(* The MIDI driver delivers each message that is complete, when its last   *)
(* byte comes, whatever realtime bytes come between and whatever partial   *)
(* message came before: if no status is left out and no byte is lost.      *)
OzzyDeliversMessages == sending = "plain" => ozzy = sent

(* The DriverKit driver delivers channel messages with running status too, *)
(* and realtime bytes but 0xFD and 0xFF.                                   *)
PloytecDeliversChannelMessages ==
  sending # "lossy" /\ sent # <<>> /\ sent[1] \notin (240 .. 247) \cup {253, 255} =>
    ploytec = sent

(* What fails: the MIDI driver with running status, and either driver when *)
(* a byte is lost; and system common messages of the DriverKit driver.     *)
OzzyDeliversWithRunningStatus == sending = "running" => ozzy = sent
OzzyDeliversOnlySent == ozzy # <<>> => ozzy = sent
PloytecDeliversAll == sending = "plain" => ploytec = sent
=============================================================================

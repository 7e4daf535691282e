------------------------------ MODULE MidiQueue ------------------------------
(***************************************************************************)
(* What a MIDI ring of the shared memory promises its two ends: a bounded  *)
(* first-in first-out queue with one producer and one consumer, which      *)
(* refuses a byte when it is full and never loses, repeats or reorders a   *)
(* byte it accepted.  The consumer may hold on to the slots of bytes it    *)
(* has already delivered; they count as occupied until it releases them.   *)
(*                                                                         *)
(* MidiOutRing (OzzyMIDI's Send to the kext) and MidiInRing (the kext to   *)
(* OzzyMIDI's poll thread) implement it.                                   *)
(***************************************************************************)
EXTENDS Naturals, Sequences

CONSTANTS Byte,      \* the bytes that are sent
          Capacity,  \* the most bytes the queue holds
          None       \* "no byte"

VARIABLES pending,   \* the byte the producer is offering, or None
          queue,     \* accepted and not yet delivered, oldest first
          held,      \* delivered, their slots not yet released
          sink       \* the byte the consumer put out last, or None

vars == <<pending, queue, held, sink>>

Full == Len(queue) + held = Capacity

Init ==
  /\ pending = None
  /\ queue = <<>>
  /\ held = 0
  /\ sink = None

Offer(b) ==
  /\ pending = None
  /\ pending' = b
  /\ UNCHANGED <<queue, held, sink>>

Accept ==
  /\ pending # None
  /\ ~Full
  /\ queue' = Append(queue, pending)
  /\ pending' = None
  /\ UNCHANGED <<held, sink>>

Refuse ==
  /\ pending # None
  /\ Full
  /\ pending' = None
  /\ UNCHANGED <<queue, held, sink>>

Deliver ==
  /\ queue # <<>>
  /\ sink' = Head(queue)
  /\ queue' = Tail(queue)
  /\ held' = held + 1
  /\ UNCHANGED pending

\* The consumer has looked, found nothing and put out "no byte".
Idle ==
  /\ sink' = None
  /\ UNCHANGED <<pending, queue, held>>

Release ==
  /\ held > 0
  /\ held' = 0
  /\ UNCHANGED <<pending, queue, sink>>

Next ==
  \/ \E b \in Byte : Offer(b)
  \/ Accept \/ Refuse
  \/ Deliver \/ Idle \/ Release

Spec == Init /\ [][Next]_vars

\* An accepted byte is delivered in the end, a slot that was delivered is
\* released, and an offer is answered.
Fairness == /\ WF_vars(Deliver)
            /\ WF_vars(Release)
            /\ WF_vars(Accept \/ Refuse)
=============================================================================

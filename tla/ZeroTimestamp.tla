---------------------------- MODULE ZeroTimestamp ----------------------------
(***************************************************************************)
(* The zero timestamp of the shared memory: a pair (sampleTime, hostTime)  *)
(* guarded by a sequence number that is odd while the pair is written.     *)
(* The writer is the kext, for every PCM OUT packet that completes         *)
(* (PloytecEngine::UpdateTimestamp); the reader is CoreAudio's I/O thread  *)
(* (OzzyHAL::GetZeroTimeStamp), which must not block and so tries a        *)
(* bounded number of times.                                                *)
(*                                                                         *)
(* Time is counted in packets: a publication stores the packet count as    *)
(* the sample time and, as the host time, the reading of the clock at that *)
(* packet, so a pair belongs to one publication exactly when its halves    *)
(* are equal.  The sequence number does not wrap: 2^31 publications, one   *)
(* every 640 frames, take five months.                                     *)
(***************************************************************************)
EXTENDS Naturals

CONSTANTS SyncPackets,  \* packets for each publication, 640 / 80
          MaxTries,     \* iterations of the reader's loop, 100
          MaxPackets,   \* the packets a behaviour completes
          Junk          \* a local variable nobody has assigned

ASSUME TimestampAssumption ==
  /\ SyncPackets \in Nat \ {0}
  /\ MaxTries \in Nat \ {0}
  /\ MaxPackets \in Nat
  /\ Junk \notin Nat

VARIABLES
  sequence, sampleTime, hostTime,  \* audio.timestamp, shared
  engine,                          \* starting, ready or stopped
  packets,                         \* mHwSampleTime, in packets
  pubPc, seq,                      \* UpdateTimestamp: where it is, seq
  readPc, seq1, seq2, sTime, hTime, retries,  \* GetZeroTimeStamp
  clean,                           \* the last iteration loaded a pair
  result                           \* what the last call returned

shared == <<sequence, sampleTime, hostTime, engine>>
pubVars == <<packets, pubPc, seq>>
readVars == <<readPc, seq1, seq2, sTime, hTime, retries, clean, result>>
vars == <<shared, pubVars, readVars>>

Local == Nat \cup {Junk}
NoResult == [sample |-> 0, host |-> 0, clean |-> TRUE, tries |-> 0]

TypeOK ==
  /\ sequence \in Nat /\ sampleTime \in Nat /\ hostTime \in Nat
  /\ engine \in {"starting", "ready", "stopped"}
  /\ packets \in Nat
  /\ pubPc \in {"idle", "load", "odd", "sample", "host", "even"}
  /\ seq \in Nat
  /\ readPc \in {"idle", "first", "sample", "host", "second", "test"}
  /\ seq1 \in Nat
  /\ seq2 \in Local /\ sTime \in Local /\ hTime \in Local
  /\ retries \in 0 .. MaxTries - 1
  /\ clean \in BOOLEAN
  /\ result \in [sample : Local, host : Local, clean : BOOLEAN,
                 tries : 0 .. MaxTries]

Init ==
  /\ sequence = 0 /\ sampleTime = 0 /\ hostTime = 0
  /\ engine = "starting"
  /\ packets = 0
  /\ pubPc = "idle" /\ seq = 0
  /\ readPc = "idle" /\ seq1 = 0
  /\ seq2 = Junk /\ sTime = Junk /\ hTime = Junk
  /\ retries = 0 /\ clean = FALSE
  /\ result = NoResult

-----------------------------------------------------------------------------
(* Start sets driverReady when the first transfers are already under way,  *)
(* Stop clears it while transfers still complete.  A stopped engine is     *)
(* never started again: the next one has a shared memory of its own.       *)
EngineStart ==
  /\ engine = "starting"
  /\ engine' = "ready"
  /\ UNCHANGED <<sequence, sampleTime, hostTime, pubVars, readVars>>

EngineStop ==
  /\ engine = "ready"
  /\ engine' = "stopped"
  /\ UNCHANGED <<sequence, sampleTime, hostTime, pubVars, readVars>>

(* UpdateTimestamp: every packet is counted, every SyncPackets-th one is   *)
(* published.  A packet that completes while the driver is not ready is    *)
(* not counted.                                                            *)
CountPacket ==
  /\ pubPc = "idle"
  /\ engine = "ready"
  /\ packets < MaxPackets
  /\ packets' = packets + 1
  /\ pubPc' = IF (packets + 1) % SyncPackets = 0 THEN "load" ELSE "idle"
  /\ UNCHANGED <<shared, seq, readVars>>

LoadSequence ==
  /\ pubPc = "load"
  /\ seq' = sequence
  /\ pubPc' = "odd"
  /\ UNCHANGED <<shared, packets, readVars>>

StoreOdd ==
  /\ pubPc = "odd"
  /\ sequence' = seq + 1
  /\ pubPc' = "sample"
  /\ UNCHANGED <<sampleTime, hostTime, engine, packets, seq, readVars>>

StoreSample ==
  /\ pubPc = "sample"
  /\ sampleTime' = packets
  /\ pubPc' = "host"
  /\ UNCHANGED <<sequence, hostTime, engine, packets, seq, readVars>>

StoreHost ==
  /\ pubPc = "host"
  /\ hostTime' = packets
  /\ pubPc' = "even"
  /\ UNCHANGED <<sequence, sampleTime, engine, packets, seq, readVars>>

\* The number goes back to where it was: the next pair looks like this one.
MutEvenAgain ==
  /\ pubPc = "even"
  /\ sequence' = seq
  /\ pubPc' = "idle"
  /\ UNCHANGED <<sampleTime, hostTime, engine, packets, seq, readVars>>

StoreEven ==
  /\ pubPc = "even"
  /\ sequence' = seq + 2
  /\ pubPc' = "idle"
  /\ UNCHANGED <<sampleTime, hostTime, engine, packets, seq, readVars>>

UpdateTimestamp == \/ CountPacket \/ LoadSequence \/ StoreOdd
                   \/ StoreSample \/ StoreHost \/ StoreEven
-----------------------------------------------------------------------------
(* GetZeroTimeStamp.  A call begins with locals nobody has assigned.       *)
Call ==
  /\ readPc = "idle"
  /\ readPc' = "first"
  /\ retries' = 0 /\ clean' = FALSE
  /\ seq2' = Junk /\ sTime' = Junk /\ hTime' = Junk
  /\ UNCHANGED <<shared, pubVars, seq1, result>>

\* `continue' in a do-while goes to the loop's condition.
FirstLoad ==
  /\ readPc = "first"
  /\ seq1' = sequence
  /\ IF sequence % 2 = 1 THEN readPc' = "test" /\ clean' = FALSE
                         ELSE readPc' = "sample" /\ UNCHANGED clean
  /\ UNCHANGED <<shared, pubVars, seq2, sTime, hTime, retries, result>>

LoadSample ==
  /\ readPc = "sample"
  /\ sTime' = sampleTime
  /\ readPc' = "host"
  /\ UNCHANGED <<shared, pubVars, seq1, seq2, hTime, retries, clean, result>>

LoadHost ==
  /\ readPc = "host"
  /\ hTime' = hostTime
  /\ readPc' = "second"
  /\ UNCHANGED <<shared, pubVars, seq1, seq2, sTime, retries, clean, result>>

SecondLoad ==
  /\ readPc = "second"
  /\ seq2' = sequence
  /\ clean' = TRUE
  /\ readPc' = "test"
  /\ UNCHANGED <<shared, pubVars, seq1, sTime, hTime, retries, result>>

\* An unassigned seq2 may hold any value, seq1 among them.
Differ == IF seq2 = Junk THEN {TRUE, FALSE} ELSE {seq1 # seq2}

Return(tries) ==
  /\ readPc' = "idle"
  /\ result' = [sample |-> sTime, host |-> hTime,
                clean |-> clean, tries |-> tries]
  /\ UNCHANGED <<shared, pubVars, seq1, seq2, sTime, hTime, retries, clean>>

\* Giving up without counting: the loop spins while the writer is held up.
MutRetryForever ==
  /\ readPc = "test"
  /\ \E differ \in Differ :
       IF differ
       THEN /\ readPc' = "first"
            /\ UNCHANGED <<shared, pubVars, seq1, seq2, sTime, hTime,
                           retries, clean, result>>
       ELSE Return(retries)

Test ==
  /\ readPc = "test"
  /\ \E differ \in Differ :
       IF differ
       THEN IF retries + 1 < MaxTries
            THEN /\ readPc' = "first"
                 /\ retries' = retries + 1
                 /\ UNCHANGED <<shared, pubVars, seq1, seq2, sTime, hTime,
                                clean, result>>
            ELSE Return(MaxTries)
       ELSE Return(retries)

GetZeroTimeStamp ==
  Call \/ FirstLoad \/ LoadSample \/ LoadHost \/ SecondLoad \/ Test

-----------------------------------------------------------------------------
Next == EngineStart \/ EngineStop \/ UpdateTimestamp \/ GetZeroTimeStamp

(* CoreAudio's I/O thread runs at real-time priority; nothing is assumed   *)
(* of the kext.                                                            *)
Spec == Init /\ [][Next]_vars
FairSpec == Spec /\ WF_vars(FirstLoad \/ LoadSample \/ LoadHost
                              \/ SecondLoad \/ Test)

-----------------------------------------------------------------------------
Validated(r) == r.clean /\ r.tries < MaxTries

(* A call whose last iteration loaded the pair between two equal loads of  *)
(* the sequence number returns the sample and the host time of one         *)
(* publication, however the writer's stores fall between its loads.        *)
ValidatedPairIsOnePublication ==
  Validated(result) => result.sample = result.host

(* The real-time thread never waits for the kext: every call returns,      *)
(* also when the writer stops between its two stores of the sequence.      *)
EveryCallReturns == readPc = "first" ~> readPc = "idle"

(* What the loop's condition is there for: a call that loaded a pair and   *)
(* did not run out of tries returns the two halves of one publication.     *)
NeverTorn ==
  result.sample # Junk /\ result.tries < MaxTries =>
    result.sample = result.host
=============================================================================

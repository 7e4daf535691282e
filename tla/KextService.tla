----------------------------- MODULE KextService -----------------------------
(***************************************************************************)
(* The kext as its clients see it.  Every device that is plugged in gets   *)
(* an OzzyKext object of its own, which makes a new shared memory, with a  *)
(* new session, and registers as a service when the engine runs.  Clients  *)
(* find the registered service, map its memory, and learn from the memory  *)
(* alone that the device has gone; a mapping keeps the memory alive after  *)
(* the object.  The object of a device that was pulled out may still be    *)
(* stopping while the next device starts.                                  *)
(*                                                                         *)
(* A memory is one session: the properties tell nothing else of it apart   *)
(* than magic and the two flags.  Every device is taken to have a product  *)
(* name; the HAL never shows one without.                                  *)
(***************************************************************************)
EXTENDS Integers

CONSTANT MaxSessions   \* bound on the devices plugged in
Session == 1 .. MaxSessions
None == 0              \* a null pointer, no service

VARIABLES kext,        \* what each object has come to
          memory       \* each shared memory: magic and the flags

kernel == <<kext, memory>>

KextTypeOK ==
  /\ kext \in [Session -> {"none", "started", "registered", "failed",
                           "terminated", "invalid", "stopped", "gone"}]
  /\ memory \in [Session -> [magic : BOOLEAN, hardwarePresent : BOOLEAN,
                             driverReady : BOOLEAN]]

KextInit ==
  /\ kext = [s \in Session |-> "none"]
  /\ memory = [s \in Session |-> [magic |-> FALSE, hardwarePresent |-> FALSE,
                                  driverReady |-> FALSE]]

Becomes(s, from, to) == kext[s] = from /\ kext' = [kext EXCEPT ![s] = to]

\* start: a new memory and the engine.  No client sees the memory before the
\* service is registered, which is the last thing start does; a start that
\* fails leaves it unseen for good.
Start(s) ==
  /\ \A t \in 1 .. s - 1 : kext[t] \notin {"none", "started", "registered"}
  /\ \/ /\ Becomes(s, "none", "started")
        /\ memory' = [memory EXCEPT ![s] =
             [magic |-> TRUE, hardwarePresent |-> TRUE, driverReady |-> TRUE]]
     \/ Becomes(s, "none", "failed") /\ UNCHANGED memory

RegisterService(s) == Becomes(s, "started", "registered") /\ UNCHANGED memory

FlagsDown(s) ==
  memory' = [memory EXCEPT ![s].hardwarePresent = FALSE, ![s].driverReady = FALSE]

\* The device is pulled out: message, then stop.  An object unloaded with the
\* device in place only stops.
Message(s) == Becomes(s, "registered", "terminated") /\ FlagsDown(s)

StopMagic(s) ==
  /\ Becomes(s, "registered", "invalid") \/ Becomes(s, "terminated", "invalid")
  /\ memory' = [memory EXCEPT ![s].magic = FALSE]

StopEngine(s) == Becomes(s, "invalid", "stopped") /\ FlagsDown(s)

UnmapSharedMemory(s) == Becomes(s, "stopped", "gone") /\ UNCHANGED memory

\* The rest of stop, once it has begun.
StopGoesOn(s) == StopEngine(s) \/ UnmapSharedMemory(s)

KextNext ==
  \E s \in Session :
    \/ Start(s) \/ RegisterService(s)
    \/ Message(s) \/ StopMagic(s) \/ StopGoesOn(s)

-----------------------------------------------------------------------------
(* What the clients call.                                                  *)

\* IOServiceGetMatchingService: a service that terminates is not found.
Matching == {s \in Session : kext[s] = "registered"}

\* clientMemoryForType of a service found earlier.  A service that ends may
\* also refuse to be opened.
GivesMemory(s) == kext[s] \in {"registered", "terminated", "invalid", "stopped"}
Refuses(s) == kext[s] # "registered"

Present(s) == memory[s].magic /\ memory[s].hardwarePresent

\* What the HAL asks of a device before it shows it.
Connected(s) == memory[s].hardwarePresent /\ memory[s].driverReady
=============================================================================

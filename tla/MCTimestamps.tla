---------------------------- MODULE MCTimestamps ----------------------------
(***************************************************************************)
(* The time of the two macOS drivers, which count it by the packets that   *)
(* complete: the zero timestamp that the kext publishes to OzzyHAL, and    *)
(* the one that the DriverKit driver keeps while its buffers change.  The  *)
(* drivers have nothing in common, so a behaviour is about one of them,    *)
(* chosen at the start, while the other rests.                             *)
(***************************************************************************)
EXTENDS ZeroTimestamp, PloytecDriver

VARIABLE chosen  \* the driver that the behaviour is about

all == <<vars, driverVars, chosen>>

MCInit == Init /\ DriverInit /\ chosen \in {"kext", "driverkit"}

KextAlone(A) == chosen = "kext" /\ A /\ UNCHANGED <<driverVars, chosen>>
DriverAlone(A) == chosen = "driverkit" /\ A /\ UNCHANGED <<vars, chosen>>

MCNext == KextAlone(Next) \/ DriverAlone(DriverNext)

\* The fairness of each module, for its own steps.
MCSpec ==
  /\ MCInit /\ [][MCNext]_all
  /\ WF_all(KextAlone(FirstLoad \/ LoadSample \/ LoadHost \/ SecondLoad \/ Test))
  /\ WF_all(DriverAlone(StartEnds))
  /\ WF_all(DriverAlone(WorkQueue))
  /\ \A p \in Pipe :
       WF_all(DriverAlone(CompleteAsyncIO(p))) /\ WF_all(DriverAlone(Handler(p)))
=============================================================================

--------------------------- MODULE MCKextTransfers ---------------------------
(***************************************************************************)
(* KextTransfers with the three endpoints of the device and a ring of four *)
(* packets.                                                                *)
(***************************************************************************)
EXTENDS KextTransfers

AllPipes == <<"pcmOut", "pcmIn", "midiIn">>
=============================================================================

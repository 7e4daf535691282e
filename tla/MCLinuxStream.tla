--------------------------- MODULE MCLinuxStream ---------------------------
(***************************************************************************)
(* Small instances of LinuxStream: one or two substreams, one transfer     *)
(* each or two transfers of one substream, two rates.                      *)
(***************************************************************************)
EXTENDS LinuxStream, TLC

CONSTANTS playback, capture, out1, out2

OneOut == out1 :> playback
PlaybackOnly == (out1 :> playback) @@ (out2 :> playback)
=============================================================================

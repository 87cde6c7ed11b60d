------------------------- MODULE MCScreamReceiver -------------------------
(* Instances of ScreamReceiver for TLC. *)
EXTENDS ScreamReceiver

CONSTANTS a, b   \* two remote streams; b does not offer SCReAM feedback
============================================================================

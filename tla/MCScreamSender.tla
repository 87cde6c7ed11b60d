-------------------------- MODULE MCScreamSender --------------------------
(* Instances of ScreamSender for TLC. *)
EXTENDS ScreamSender, TLC

CONSTANTS a, b   \* two streams

OneStream  == {a}
TwoStreams == {a, b}
\* Every stream has an SSRC of its own.
OwnSsrc    == [s \in Streams |-> s]
Symmetric  == Permutations(Streams)
============================================================================

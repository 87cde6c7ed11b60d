--------------------------- MODULE MCQuicReceiver ---------------------------
(* An instance of QuicReceiver for TLC: one connection with two streams,     *)
(* a datagram and one without a flow ID.                                     *)
EXTENDS QuicReceiver

CONSTANTS c1, d1, d2, x1, x2

Owner == [p \in Packets |-> c1]
=============================================================================

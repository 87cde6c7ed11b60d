-------------------------- MODULE MCReceiveCommand --------------------------
(* An instance of ReceiveCommand for TLC: two peers behind one address.      *)
EXTENDS ReceiveCommand

CONSTANTS p1, p2   \* two ports of one host

OneHost(p) == "host"

MCMaxPkts == [p \in Peers |-> IF p = p1 THEN 3 ELSE 2]
=============================================================================

---------------------------- MODULE MCTcpFrames ----------------------------
(* Instances of TcpFrames for TLC: bytes of one bit, so that the length of  *)
(* a message needs both bytes of the prefix and a body can look like one.   *)
EXTENDS TcpFrames

CONSTANTS w1, w2   \* two writing goroutines

Payloads == {<<1>>, <<0, 1>>, <<1, 0, 0>>}
============================================================================

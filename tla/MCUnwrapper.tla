---------------------------- MODULE MCUnwrapper ----------------------------
(* An instance of Unwrapper for TLC: the first number and the distances sit *)
(* on both sides of every boundary of the code, 0, 2^15 and 2^16.           *)
EXTENDS Unwrapper

MCFirsts == {0, 1, 2, 32767, 32768, 65534, 65535}
MCJumps  == {-40000, -32769, -32768, -32767, -3, -1, 0, 1, 32767, 32768, 32769, 40000}
============================================================================

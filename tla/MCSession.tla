----------------------------- MODULE MCSession -----------------------------
(* An instance of Session for TLC: over TCP enough packets for every station *)
(* of the round to be full at the same time, over the other transports       *)
(* batches that overtake each other and hold several reports or none.        *)
EXTENDS Session

MCMaxPkts == [t \in Transports |-> IF t = "tcp" THEN 8 ELSE IF t = "quic" THEN 4 ELSE 3]
MCRtpCap  == [t \in Transports |-> 1]
MCRtcpCap == [t \in Transports |-> IF t = "tcp" THEN 1 ELSE 2]
MCReports == [t \in Transports |-> IF t = "tcp" THEN {1} ELSE {0, 1, 2}]
=============================================================================

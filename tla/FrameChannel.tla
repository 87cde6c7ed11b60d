---------------------------- MODULE FrameChannel ----------------------------
(***************************************************************************)
(* What a TCP connection of rtp-over-quic promises to the interceptors:    *)
(* messages come out one by one, in the order in which they were written.  *)
(* The server gets each as it was written.  The sender gets as much of it  *)
(* as its buffer holds, and has to read it before the next one arrives:    *)
(* once a later message was sent, it may read anything.  The tail of what  *)
(* was written may be lost.                                                *)
(***************************************************************************)
EXTENDS Integers, Sequences

CONSTANTS
    Msgs,      \* the messages: marshalled RTP or RTCP packets
    BufSize    \* size of the sender's buffer

VARIABLES side, sent, got

Init == sent = <<>> /\ got = <<>>

Send == \E m \in Msgs : sent' = Append(sent, m) /\ UNCHANGED <<side, got>>

Clip(m) == IF side = "sender" /\ Len(m) > BufSize THEN SubSeq(m, 1, BufSize) ELSE m

\* The message that is due is read, or what a later one has made of it.
Deliver ==
    LET n == Len(got) + 1 IN
    /\ n <= Len(sent)
    /\ \/ got' = Append(got, Clip(sent[n]))
       \/ /\ side = "sender" /\ n < Len(sent)
          /\ Len(got') = n /\ \A i \in 1..Len(got) : got'[i] = got[i]
    /\ UNCHANGED <<side, sent>>

Spec == Init /\ [][Send \/ Deliver]_<<side, sent, got>>
=============================================================================

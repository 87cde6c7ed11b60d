------------------------------- MODULE Session -------------------------------
(***************************************************************************)
(* A whole session: the pacing loop of the sender, the way of the packets, *)
(* the server's goroutines up to the SCReAM receiver, the way of the       *)
(* feedback, and RtcpPath, which is the way of the feedback through the    *)
(* sender back to the pacing loop.  Every goroutine on this round waits    *)
(* for the next one:                                                       *)
(*                                                                         *)
(*   pacing loop -> wire -> receive -> handle -> loop / loopFeedbackSender *)
(*        ^                                                  |             *)
(*        +--- ReadRTCP <- readFromNetwork <- back <---------+             *)
(*                                                                         *)
(* Over TCP a conn.Write to a full socket buffer waits for the reader; the *)
(* other transports lose packets instead.                                  *)
(* Packets are numbered from 1; a batch covers the packets up to some      *)
(* number and is known by it.  The single components have modules of their *)
(* own with more detail.  The send command never cancels ctx or closes the *)
(* connection, so neither happens here.                                    *)
(***************************************************************************)
EXTENDS Integers, Sequences, FiniteSetsExt

CONSTANTS
    Transports,  \* the transports considered: "quic", "tcp", "udp"
    Cwnd,        \* packets that tx lets be in flight at most
    \* by transport:
    MaxPkts,     \* bound: packets of a session
    RtpCap,      \* packets that the buffers towards the server hold
    RtcpCap,     \* batches that those towards the sender hold
    Reports      \* how many reports a batch may hold

ASSUME ThreeTransports == Transports \subseteq {"quic", "tcp", "udp"}
ASSUME BoundsAreNatural == MaxPkts \in [Transports -> Nat] /\ Cwnd \in Nat
ASSUME CapsArePositive == /\ RtpCap \in [Transports -> Nat \ {0}]
                          /\ RtcpCap \in [Transports -> Nat \ {0}]
ASSUME ReportsAreCounted == Reports \in [Transports -> SUBSET Nat]

VARIABLES
    \* RtcpPath:
    transport, npc, buf, rpc, mine, copied, left, fed, cancelled, read, done,
    \* the pacing loop and tx:
    ppc,     \* where the pacing loop is
    sent,    \* packets booked by AddTransmitted
    acked,   \* packets that tx knows to have arrived
    \* the server:
    wire,    \* packets on their way
    rcv,     \* the packet that the receiving goroutine offers, or 0
    hnd,     \* the packet that the handler offers to loop, or 0
    lpc,     \* where loop is
    pkt,     \* the packet that loop has taken
    seen,    \* the packets up to which rx has received
    told,    \* the packets up to which a report was created
    fpc,     \* where loopFeedbackSender is
    out,     \* the report that a goroutine with screamRxMu is writing
    back,    \* reports on their way
    lost     \* history: a packet or a report was lost, dropped, overwritten or torn

rtcpVars == <<transport, npc, buf, rpc, mine, copied, left, fed, cancelled, read, done>>
sendVars == <<ppc, sent, acked>>
recvVars == <<rcv, hnd, lpc, pkt, seen, told, fpc, out>>
netVars  == <<wire, back, lost>>
vars     == <<rtcpVars, sendVars, recvVars, netVars>>

\* At most one batch per packet: a report needs a packet that is new.
Rtcp == INSTANCE RtcpPath WITH MaxBatches <- Max({MaxPkts[t] : t \in Transports})

\* A queue without its i-th element.
Without(q, i) == [j \in 1..(Len(q) - 1) |-> IF j < i THEN q[j] ELSE q[j + 1]]

\* What comes next off a queue of the network: TCP keeps the order, datagrams may
\* overtake each other.
Arrives(q, i) == i \in 1..Len(q) /\ (transport = "tcp" => i = 1)

Init ==
    /\ Rtcp!Init
    /\ ppc = "select" /\ sent = 0 /\ acked = 0
    /\ wire = <<>> /\ back = <<>> /\ lost = FALSE
    /\ rcv = 0 /\ hnd = 0 /\ lpc = "first" /\ pkt = 0 /\ seen = 0 /\ told = 0
    /\ fpc = "none" /\ out = 0

-----------------------------------------------------------------------------
(* The pacing loop of the one stream.                                      *)

\* A new frame or the timer; newFeedback is part of NotifyDone.
Wake ==
    /\ ppc = "select"
    /\ sent < MaxPkts[transport]
    /\ ppc' = "ask"
    /\ UNCHANGED <<rtcpVars, sent, acked, recvVars, netVars>>

\* Mutant: one packet more than the window.
AskOk_OffByOne ==
    /\ ppc = "ask"
    /\ sent - acked <= Cwnd /\ sent < MaxPkts[transport]
    /\ ppc' = "write"
    /\ UNCHANGED <<rtcpVars, sent, acked, recvVars, netVars>>

\* IsOkToTransmit allows the next packet, and Dequeue takes it.
AskOk ==
    /\ ppc = "ask"
    /\ sent - acked < Cwnd /\ sent < MaxPkts[transport]
    /\ ppc' = "write"
    /\ UNCHANGED <<rtcpVars, sent, acked, recvVars, netVars>>

\* Not now (the window, the pace or an empty queue): back to the select.
AskNo ==
    /\ ppc = "ask"
    /\ ppc' = "select"
    /\ UNCHANGED <<rtcpVars, sent, acked, recvVars, netVars>>

\* writer.Write: with a full buffer TCP waits and a datagram is lost.
WriteRTP ==
    /\ ppc = "write"
    /\ \/ Len(wire) < RtpCap[transport] /\ wire' = Append(wire, sent + 1) /\ UNCHANGED lost
       \/ Len(wire) = RtpCap[transport] /\ transport # "tcp" /\ lost' = TRUE /\ UNCHANGED wire
    /\ ppc' = "add"
    /\ UNCHANGED <<rtcpVars, sent, acked, recvVars, back>>

\* AddTransmitted, and the next question.
AddTransmitted ==
    /\ ppc = "add"
    /\ sent' = sent + 1
    /\ ppc' = "ask"
    /\ UNCHANGED <<rtcpVars, acked, recvVars, netVars>>

-----------------------------------------------------------------------------
(* The server.                                                             *)

\* The goroutine that reads the socket takes a packet.  UDP has no second one:
\* its loop calls the handler itself.
ReceiveRTP ==
    /\ \E i \in 1..Len(wire) :
        /\ Arrives(wire, i)
        /\ IF transport = "udp"
           THEN hnd = 0 /\ hnd' = wire[i] /\ UNCHANGED rcv
           ELSE rcv = 0 /\ rcv' = wire[i] /\ UNCHANGED hnd
        /\ wire' = Without(wire, i)
    /\ UNCHANGED <<rtcpVars, sendVars, lpc, pkt, seen, told, fpc, out, back, lost>>

\* `pktChan <- pkt` meets the select of handle, which calls the RTP reader.
Handle ==
    /\ rcv # 0 /\ hnd = 0
    /\ hnd' = rcv /\ rcv' = 0
    /\ UNCHANGED <<rtcpVars, sendVars, lpc, pkt, seen, told, fpc, out, netVars>>

\* `r.receive <- pkt` meets one of the two selects of loop.
Receive ==
    /\ hnd # 0 /\ lpc \in {"first", "select"}
    /\ pkt' = hnd /\ hnd' = 0
    /\ lpc' = IF lpc = "first" THEN "storeFirst" ELSE "store"
    /\ UNCHANGED <<rtcpVars, sendVars, rcv, seen, told, fpc, out, netVars>>

\* Both goroutines write a report with the mutex held.
MuFree == lpc # "write" /\ fpc # "write"

\* rx.Receive; after the first packet loopFeedbackSender is started, after a
\* later one the loop looks at the clock.
LoopStore ==
    /\ lpc \in {"storeFirst", "store"} /\ MuFree
    /\ seen' = Max({seen, pkt})
    /\ IF lpc = "storeFirst" THEN lpc' = "select" /\ fpc' = "select"
                             ELSE lpc' \in {"select", "report"} /\ UNCHANGED fpc
    /\ pkt' = 0
    /\ UNCHANGED <<rtcpVars, sendVars, rcv, hnd, told, out, netVars>>

\* The interval has passed: CreateStandardizedFeedback, which without the marker
\* bit may have nothing to say.
LoopReport ==
    /\ lpc = "report" /\ MuFree
    /\ \/ seen > told /\ lpc' = "write" /\ out' = seen /\ told' = seen
       \/ lpc' = "select" /\ UNCHANGED <<out, told>>
    /\ UNCHANGED <<rtcpVars, sendVars, rcv, hnd, pkt, seen, fpc, netVars>>

\* Mutant: the ticker's report, too, waits for the next packet.
Tick_NeedsPacket ==
    /\ fpc = "select" /\ lpc = "report" /\ MuFree
    /\ seen > told
    /\ fpc' = "write" /\ out' = seen /\ told' = seen
    /\ UNCHANGED <<rtcpVars, sendVars, rcv, hnd, lpc, pkt, seen, netVars>>

\* The ticker's report covers everything that is new.
Tick ==
    /\ fpc = "select" /\ MuFree
    /\ seen > told
    /\ fpc' = "write" /\ out' = seen /\ told' = seen
    /\ UNCHANGED <<rtcpVars, sendVars, rcv, hnd, lpc, pkt, seen, netVars>>

\* WriteRTCP, with the mutex held: likewise.
WriteRTCP ==
    /\ ~MuFree
    /\ \/ Len(back) < RtcpCap[transport] /\ back' = Append(back, out) /\ UNCHANGED lost
       \/ Len(back) = RtcpCap[transport] /\ transport # "tcp" /\ lost' = TRUE /\ UNCHANGED back
    /\ lpc' = IF lpc = "write" THEN "select" ELSE lpc
    /\ fpc' = IF fpc = "write" THEN "select" ELSE fpc
    /\ out' = 0
    /\ UNCHANGED <<rtcpVars, sendVars, rcv, hnd, pkt, seen, told, wire>>

-----------------------------------------------------------------------------
(* The network, and the sender's way back.                                 *)

\* Datagrams of either direction get lost.
Lose ==
    /\ transport # "tcp"
    /\ \/ \E i \in 1..Len(wire) : wire' = Without(wire, i) /\ UNCHANGED back
       \/ \E i \in 1..Len(back) : back' = Without(back, i) /\ UNCHANGED wire
    /\ lost' = TRUE
    /\ UNCHANGED <<rtcpVars, sendVars, recvVars>>

\* A batch is known by the packets that it covers.
ReadBatch ==
    /\ \E i \in 1..Len(back) :
        /\ Arrives(back, i)
        /\ Rtcp!NetworkReads(back[i])
        /\ back' = Without(back, i)
    /\ UNCHANGED <<sendVars, recvVars, wire, lost>>

DropBatch ==
    /\ Rtcp!Drop
    /\ lost' = TRUE
    /\ UNCHANGED <<sendVars, recvVars, wire, back>>

\* What a batch without a report covers, tx never learns.
CopyBatch ==
    /\ Rtcp!CopyBatch
    /\ lost' = (lost \/ rpc' = "select")
    /\ UNCHANGED <<sendVars, recvVars, wire, back>>

\* tx learns of packets that it has booked.  A mixture of two batches may tell
\* as much as the one read last, or nothing; one that UDP delivered late and that
\* overwrote this one tells less.
Feed ==
    /\ Rtcp!Feed
    /\ \E b \in IF fed' = Rtcp!Torn THEN {0, buf} ELSE {fed'} :
        acked' = Max({acked, Min({b, sent})})
    /\ lost' = (lost \/ fed' < mine)
    /\ UNCHANGED <<ppc, sent, recvVars, wire, back>>

\* `newFeedback <- struct{}{}` meets the select of the pacing loop.
Notify ==
    /\ Rtcp!NotifyDone
    /\ ppc = "select" /\ ppc' = "ask"
    /\ UNCHANGED <<sent, acked, recvVars, netVars>>

HandOver == Rtcp!HandOver /\ UNCHANGED <<sendVars, recvVars, netVars>>

-----------------------------------------------------------------------------
PacingLoop == AskOk \/ AskNo \/ WriteRTP \/ AddTransmitted

Next ==
    \/ Wake \/ PacingLoop
    \/ ReceiveRTP \/ Handle \/ Receive \/ LoopStore \/ LoopReport \/ Tick \/ WriteRTCP
    \/ Lose \/ ReadBatch \/ HandOver \/ DropBatch \/ CopyBatch \/ Feed \/ Notify

Spec == Init /\ [][Next]_vars

\* Go schedules every goroutine, the ticker ticks, and the select of the pacing
\* loop does not ignore newFeedback for ever.
Fairness ==
    /\ WF_vars(PacingLoop)
    /\ WF_vars(ReceiveRTP) /\ WF_vars(Handle)
    /\ WF_vars(Receive \/ LoopStore \/ LoopReport) /\ WF_vars(Tick) /\ WF_vars(WriteRTCP)
    /\ WF_vars(ReadBatch \/ HandOver \/ DropBatch)
    /\ WF_vars(CopyBatch \/ Feed) /\ SF_vars(Notify)

FairSpec == Spec /\ Fairness
-----------------------------------------------------------------------------
(* Properties.                                                             *)

\* The window is no larger than what the stations of the round hold at least when
\* all of them are full: the two buffers, the packets of receive, handle and loop.
\* Nothing in the program sees to it.
WindowFits == Cwnd <= RtpCap[transport] + RtcpCap[transport] + 3

\* With such a window the round never closes on itself over TCP: that the pacing
\* loop waits in conn.Write for the server, the server's goroutines for the one that
\* writes a report, that one for readFromNetwork, it for ReadRTCP, and ReadRTCP for
\* the pacing loop (tcp/sender.go:126, receiver_interceptor.go:116 and 160,
\* tcp/sender.go:109, sender_interceptor.go:146).
NoCycle ==
    transport = "tcp" /\ WindowFits =>
    ~ /\ ppc = "write" /\ Len(wire) >= RtpCap[transport]
      /\ rcv # 0 /\ hnd # 0 /\ lpc # "select"
      /\ ~MuFree /\ Len(back) >= RtcpCap[transport]
      /\ npc = "offer" /\ rpc = "notify"

\* Whenever the application pauses, every packet but the newest is acknowledged
\* to tx in the end, so a closed window opens again; unless something got lost,
\* dropped, overwritten or torn, or TCP's round may close.  The newest may have been
\* reported before AddTransmitted has booked it (sender_interceptor.go:316-320), and
\* then nothing reports it again.
WindowReopens == (transport = "tcp" => WindowFits) => []<>(sent - acked <= 1 \/ lost)

\* With QUIC tx is given whole batches only, the one whose streams are notified,
\* and none again that was dealt with, whatever the pacing loop does meanwhile and
\* in whatever order the batches arrive (quic/sender.go:188-214).
WholeBatchesOnQuic == Rtcp!WholeBatchesOnQuic

\* With QUIC no batch that was read gets lost between the socket and tx, although
\* ReadRTCP waits for the pacing loop after each report (quic/sender.go:209).
BatchesArrive == Rtcp!BatchesArrive
=============================================================================

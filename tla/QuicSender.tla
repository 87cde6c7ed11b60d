----------------------------- MODULE QuicSender -----------------------------
(***************************************************************************)
(* The feedback loop of the QUIC sender when it generates RFC 8888         *)
(* feedback itself (quic/sender.go, quic/local_rfc8888.go, rtp/rtcp.go).   *)
(* Every arrow is a call or channel that blocks:                           *)
(*                                                                         *)
(*   pacing loop --SendMessage--> connection --ack callback--> ackedPkts   *)
(*     --> generator --rtcpChan--> ReadRTCP --newFeedback--> pacing loop   *)
(*                                                                         *)
(* so all of them could wait for each other.  readFromNetwork feeds the    *)
(* same rtcpChan with RTCP packets of the peer, which SCReAM skips here.   *)
(*                                                                         *)
(* The pacing loop is ScreamSender's, with one stream and always something *)
(* to send.  The connection is quic-go as this code uses it: SendMessage   *)
(* returns once the connection's goroutine took the datagram, and that     *)
(* goroutine calls the callback for each datagram acknowledged or lost.    *)
(***************************************************************************)
EXTENDS Integers, Sequences, FiniteSets

CONSTANTS
    MaxPkts,   \* bound: packets sent, numbered from 1
    Cwnd,      \* congestion window of tx, in packets
    AckCap,    \* capacity of ackedPkts
    Mode,      \* transportMode: "DGRAM", "STREAM" or "ANY"
    Large,     \* packets larger than maxMTU
    Required   \* packets with the attribute rtp.REQUIRED

ASSUME BoundsAreNat == MaxPkts \in Nat /\ Cwnd \in Nat \ {0} /\ AckCap \in Nat

VARIABLES
    ppc,       \* where the pacing loop is
    sent,      \* number of the last packet it took from its queue
    inFlight,  \* packets tx counts as in flight
    told,      \* history: packets some report handled by tx acknowledged
    given,     \* history: packets tx gave up while they were not reported or lost
    outgoing,  \* datagrams in SendMessage (at most one)
    network,   \* datagrams sent, neither acknowledged nor lost
    lost,      \* datagrams that the connection declared lost
    kpc,       \* where the connection's goroutine is
    acked,     \* the packet whose callback it is running
    ackedPkts, \* the channel of the generator
    gpc,       \* where the generator is
    received,  \* packets the generator's Rx has received
    npc,       \* where readFromNetwork is
    rpc,       \* where ReadRTCP is
    cancelled  \* ctx is done

sendVars == <<ppc, sent, inFlight, told, given>>
connVars == <<outgoing, network, lost, kpc, acked>>
genVars  == <<ackedPkts, gpc, received>>
rtcpVars == <<npc, rpc, cancelled>>
vars     == <<sendVars, connVars, genVars, rtcpVars>>

Pkts == 1..MaxPkts

Init ==
    /\ ppc = "select" /\ sent = 0 /\ inFlight = {} /\ told = {} /\ given = {}
    /\ outgoing = {} /\ network = {} /\ lost = {} /\ kpc = "run" /\ acked = 0
    /\ ackedPkts = <<>> /\ gpc = "select" /\ received = {}
    /\ npc = "read" /\ rpc = "select" /\ cancelled = FALSE

-----------------------------------------------------------------------------
(* The pacing loop, and the RTPWriter of NewMediaStreamWithFlowID.         *)

\* Which packets go out on a stream of their own.
UsesStream(n) ==
    \/ Mode = "STREAM"
    \/ Mode = "ANY" /\ (n \in Large \/ n \in Required)

\* newFrame or the timer wakes the loop.
Wake ==
    /\ ppc = "select"
    /\ ppc' = "ask"
    /\ UNCHANGED <<sent, inFlight, told, given, connVars, genVars, rtcpVars>>

\* Mutant: without permission the loop asks again instead of going back to its select.
AskNo_AsksAgain == ppc = "ask" /\ UNCHANGED vars

\* No permission, or a pacing delay.
AskNo ==
    /\ ppc = "ask"
    /\ ppc' = "select"
    /\ UNCHANGED <<sent, inFlight, told, given, connVars, genVars, rtcpVars>>

\* Mutant: the window is checked with <= instead of <.
AskOk_OffByOne ==
    /\ ppc = "ask" /\ Cardinality(inFlight) <= Cwnd /\ sent < MaxPkts
    /\ sent' = sent + 1
    /\ ppc' = "write"
    /\ UNCHANGED <<inFlight, told, given, connVars, genVars, rtcpVars>>

AskOk ==
    /\ ppc = "ask" /\ Cardinality(inFlight) < Cwnd /\ sent < MaxPkts
    /\ sent' = sent + 1
    /\ ppc' = "write"
    /\ UNCHANGED <<inFlight, told, given, connVars, genVars, rtcpVars>>

\* writeStream: no callback, so local feedback never covers the packet.
WriteStream ==
    /\ ppc = "write" /\ UsesStream(sent)
    /\ ppc' = "add"
    /\ UNCHANGED <<sent, inFlight, told, given, connVars, genVars, rtcpVars>>

\* writeDgram: SendMessage waits for the connection, or fails if it has ended.
WriteDgram ==
    /\ ppc = "write" /\ ~UsesStream(sent)
    /\ IF kpc = "ended" THEN ppc' = "add" /\ UNCHANGED outgoing
                        ELSE ppc' = "wait" /\ outgoing' = {sent}
    /\ UNCHANGED <<sent, inFlight, told, given, network, lost, kpc, acked, genVars, rtcpVars>>

\* AddTransmitted comes after the write: the packet may be acknowledged already.
Add ==
    /\ ppc = "add"
    /\ inFlight' = inFlight \union {sent}
    /\ ppc' = "ask"
    /\ UNCHANGED <<sent, told, given, connVars, genVars, rtcpVars>>

-----------------------------------------------------------------------------
(* The connection.                                                         *)

ConnTakes ==
    /\ kpc = "run" /\ outgoing # {}
    /\ network' = network \union outgoing
    /\ outgoing' = {}
    /\ ppc' = "add"
    /\ UNCHANGED <<sent, inFlight, told, given, lost, kpc, acked, genVars, rtcpVars>>

\* Acknowledgements come in any order, and each datagram has one.
AckArrives(n) ==
    /\ kpc = "run" /\ n \in network
    /\ network' = network \ {n}
    /\ kpc' = "callback" /\ acked' = n
    /\ UNCHANGED <<sendVars, outgoing, lost, genVars, rtcpVars>>

\* The callback does nothing for a lost datagram.
Lose(n) ==
    /\ kpc = "run" /\ n \in network
    /\ network' = network \ {n}
    /\ lost' = lost \union {n}
    /\ UNCHANGED <<sendVars, outgoing, kpc, acked, genVars, rtcpVars>>

AckRoom == Len(ackedPkts) < AckCap

\* ackCallback(true): `f.ackedPkts <- pkt` waits while the channel is full.
Callback ==
    /\ kpc = "callback" /\ AckRoom
    /\ ackedPkts' = Append(ackedPkts, acked)
    /\ kpc' = "run" /\ acked' = 0
    /\ UNCHANGED <<sendVars, outgoing, network, lost, gpc, received, rtcpVars>>

\* The connection ends; a SendMessage that waits fails.
ConnEnds ==
    /\ kpc = "run"
    /\ kpc' = "ended"
    /\ ppc' = IF outgoing = {} THEN ppc ELSE "add"
    /\ outgoing' = {} /\ network' = {}
    /\ UNCHANGED <<sent, inFlight, told, given, lost, acked, genVars, rtcpVars>>

-----------------------------------------------------------------------------
(* The generator of local feedback, readFromNetwork and ReadRTCP.          *)

\* Mutant: the feedback covers the last packet only.
GeneratorTakes_LastOnly ==
    /\ gpc = "select" /\ ackedPkts # <<>>
    /\ received' = {Head(ackedPkts)}
    /\ ackedPkts' = Tail(ackedPkts)
    /\ gpc' = "report"
    /\ UNCHANGED <<sendVars, connVars, rtcpVars>>

\* rx.Receive; CreateStandardizedFeedback then covers what was received so far.
GeneratorTakes ==
    /\ gpc = "select" /\ ackedPkts # <<>>
    /\ received' = received \union {Head(ackedPkts)}
    /\ ackedPkts' = Tail(ackedPkts)
    /\ gpc' = "report"
    /\ UNCHANGED <<sendVars, connVars, rtcpVars>>

\* `rtcpChan <- r` meets ReadRTCP, which gives the report to tx.  tx drops what
\* it acknowledges, and may give up any packets, after a time-out or because later
\* ones were acknowledged, whatever QUIC thinks of them.
ReadLocal ==
    /\ gpc = "report" /\ rpc = "select"
    /\ \E gone \in SUBSET (inFlight \ received) :
        /\ inFlight' = inFlight \ (received \union gone)
        /\ given' = (given \union gone) \ (lost \union received)
    /\ told' = told \union received
    /\ gpc' = "select" /\ rpc' = "notify"
    /\ UNCHANGED <<ppc, sent, connVars, ackedPkts, received, npc, cancelled>>

\* `stream.newFeedback <- struct{}{}` meets the select of the pacing loop.
Notify ==
    /\ rpc = "notify" /\ ppc = "select"
    /\ ppc' = "ask" /\ rpc' = "select"
    /\ UNCHANGED <<sent, inFlight, told, given, connVars, genVars, npc, cancelled>>

\* An RTCP datagram of the peer; one without a flow ID is dropped.
NetworkReads ==
    /\ npc = "read" /\ kpc # "ended"
    /\ npc' = "offer"
    /\ UNCHANGED <<sendVars, connVars, genVars, rpc, cancelled>>

\* An application error 0 or a timeout ends the goroutine.  (After any other
\* error it tries again, which changes nothing here.)
NetworkExits ==
    /\ npc = "read" /\ kpc = "ended"
    /\ npc' = "exited"
    /\ UNCHANGED <<sendVars, connVars, genVars, rpc, cancelled>>

\* ReadRTCP hands it to the interceptors, which skip it.
ReadRemote ==
    /\ npc = "offer" /\ rpc = "select"
    /\ npc' = "read"
    /\ UNCHANGED <<sendVars, connVars, genVars, rpc, cancelled>>

Cancel ==
    /\ ~cancelled
    /\ cancelled' = TRUE
    /\ UNCHANGED <<sendVars, connVars, genVars, npc, rpc>>

ReaderExits ==
    /\ rpc = "select" /\ cancelled
    /\ rpc' = "exited"
    /\ UNCHANGED <<sendVars, connVars, genVars, npc, cancelled>>

GeneratorExits ==
    /\ gpc = "select" /\ cancelled
    /\ gpc' = "exited"
    /\ UNCHANGED <<sendVars, connVars, ackedPkts, received, rtcpVars>>

Next ==
    \/ Wake \/ AskNo \/ AskOk \/ WriteStream \/ WriteDgram \/ Add
    \/ ConnTakes \/ Callback \/ ConnEnds
    \/ \E n \in Pkts : AckArrives(n) \/ Lose(n)
    \/ GeneratorTakes \/ ReadLocal \/ Notify
    \/ NetworkReads \/ NetworkExits \/ ReadRemote
    \/ Cancel \/ ReaderExits \/ GeneratorExits

Spec == Init /\ [][Next]_vars

\* Go schedules every goroutine; a ready channel operation is not passed over for
\* ever.  The network, the peer and the application owe nothing.
Fairness ==
    /\ WF_vars(AskNo \/ AskOk) /\ WF_vars(WriteStream \/ WriteDgram \/ Add)
    /\ SF_vars(ConnTakes) /\ WF_vars(Callback)
    /\ WF_vars(GeneratorTakes) /\ SF_vars(ReadLocal) /\ SF_vars(Notify)
    /\ SF_vars(ReadRemote)

FairSpec == Spec /\ Fairness
-----------------------------------------------------------------------------
(* Properties.                                                             *)

\* Packets that tx has given up, but that QUIC may still report as acknowledged, make
\* room in the window and take room in the channel.
Astray == given \ (lost \union received)
Fits   == Cwnd + Cardinality(Astray) <= AckCap

\* As long as the window and the packets that tx gave up too early fit into the
\* channel ackedPkts, the connection's goroutine never waits in the callback,
\* whatever waits behind the generator and also after ctx is done
\* (local_rfc8888.go:58 and 67-69).
CallbackNeverBlocks == (Fits /\ kpc = "callback") => AckRoom

\* A packet that is acknowledged before AddTransmitted books it stays in flight
\* although it was reported, but never more than one: the next report covers it
\* again (sender_interceptor.go:316-321 against local_rfc8888.go:82-88).
OnePhantom == Cardinality(inFlight \intersect told) <= 1

\* The cycle of waiting goroutines never closes: SendMessage returns to the pacing
\* loop, and ReadRTCP gets its notification through to that loop, also when the
\* last packets went out on streams (sender.go:216-218, sender_interceptor.go:146).
\* It needs the room in ackedPkts that CallbackNeverBlocks needs.
CycleTurns ==
    /\ (ppc = "wait") ~> (ppc # "wait" \/ ~Fits)
    /\ (rpc = "notify") ~> (rpc # "notify" \/ ~Fits)
=============================================================================

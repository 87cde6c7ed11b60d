--------------------------- MODULE ReceiveCommand ---------------------------
(***************************************************************************)
(* The receive command: Start of the three servers (udp/receiver.go,       *)
(* tcp/receiver.go, quic/receiver.go), the receiverController that gives   *)
(* every peer a media sink, an interceptor and a packet log of its own     *)
(* (cmd/receive.go, rtp/interceptor.go, logging/logging.go), and the way   *)
(* of a packet from the socket to the sink and the log.                    *)
(*                                                                         *)
(* TCP and QUIC serve each connection in goroutines of its own, UDP serves *)
(* all peers in the goroutine of Start.  A panic anywhere ends the         *)
(* process.  How the bytes of a connection become packets is in TcpFrames  *)
(* and QuicReceiver, what feedback a packet leads to in ScreamReceiver.    *)
(*                                                                         *)
(* All handlers open the same log file by os.Create, which truncates it,   *)
(* and write at their own offsets.  A line of the log is one unit.         *)
(***************************************************************************)
EXTENDS Integers, Sequences, FiniteSets, FiniteSetsExt

CONSTANTS
    Transports,  \* the transports considered: "quic", "tcp", "udp"
    Peers,       \* remote addresses with their ports
    Host(_),     \* the address without the port
    MaxPkts      \* bound: packets by peer, numbered from 1

NoPkt == <<>>

VARIABLES
    transport,  \* the flag -transport
    spc,        \* where Start is; "drain": it waits for handlers and accepts no more;
                \* "returned": so has the command, "panic": the process died
    cancelled,  \* ctx is done
    closed,     \* UDP: the socket is closed
    sent,       \* packets that each peer has sent
    got,        \* numbers of the packets of each peer that were read
    hpc,        \* where the handler of each peer is
    hand,       \* the packet that it deals with
    played,     \* packets that its sink has taken, in order
    dump,       \* the packet that the goroutine of its packet log has taken
    offset,     \* offset of its file, or -1 when it has not opened the file
    file        \* lines of the log file; NoPkt: a hole

startVars == <<transport, spc, cancelled, closed>>
peerVars  == <<sent, got>>
hndVars   == <<hpc, hand, played>>
logVars   == <<dump, offset, file>>
vars      == <<startVars, peerVars, hndVars, logVars>>

Running == spc \in {"listen", "serve", "drain"}

Init ==
    /\ transport \in Transports /\ spc = "listen" /\ cancelled = FALSE /\ closed = FALSE
    /\ sent = [p \in Peers |-> 0] /\ got = [p \in Peers |-> {}]
    /\ hpc = [p \in Peers |-> "none"] /\ hand = [p \in Peers |-> NoPkt]
    /\ played = [p \in Peers |-> <<>>]
    /\ dump = [p \in Peers |-> NoPkt] /\ offset = [p \in Peers |-> -1] /\ file = <<>>

-----------------------------------------------------------------------------
(* Start of the servers.                                                   *)

\* start and NewServer; listening may fail.
Listen ==
    /\ spc = "listen"
    /\ spc' \in {"serve", "returned"}
    /\ UNCHANGED <<transport, cancelled, closed, peerVars, hndVars, logVars>>

\* A peer sends a packet; the first one also connects.
PeerSends(p) ==
    /\ sent[p] < MaxPkts[p]
    /\ sent' = [sent EXCEPT ![p] = @ + 1]
    /\ UNCHANGED <<startVars, got, hndVars, logVars>>

\* Mutant: the handler runs in the goroutine that accepts.
Accept_Inline(p) ==
    /\ spc = "serve" /\ transport # "udp"
    /\ sent[p] > 0 /\ hpc[p] = "none"
    /\ \A q \in Peers : hpc[q] \in {"none", "exited"}
    /\ hpc' = [hpc EXCEPT ![p] = "sink"]
    /\ UNCHANGED <<startVars, peerVars, hand, played, logVars>>

\* TCP and QUIC: a connection gets a goroutine, which calls onNewHandler.
Accept(p) ==
    /\ spc = "serve" /\ transport # "udp"
    /\ sent[p] > 0 /\ hpc[p] = "none"
    /\ hpc' = [hpc EXCEPT ![p] = "sink"]
    /\ UNCHANGED <<startVars, peerVars, hand, played, logVars>>

\* The packets of p that can be read next.  A TCP connection keeps their order; the
\* datagrams and streams of a QUIC connection, each stream in a goroutine of its
\* own, meet in pktChan in any order, and UDP may reorder.  A packet that is sent
\* counts as arriving, and as arriving once.
Arriving(p) ==
    LET rest == (1..sent[p]) \ got[p]
    IN  IF transport = "tcp" THEN {n \in rest : \A k \in rest : n <= k} ELSE rest

\* TCP and QUIC: the handler takes a packet of its connection from pktChan.
Take(p) ==
    /\ Running /\ transport # "udp" /\ hpc[p] = "idle"
    /\ \E n \in Arriving(p) : /\ got' = [got EXCEPT ![p] = @ \union {n}]
                              /\ hand' = [hand EXCEPT ![p] = <<p, n>>]
    /\ hpc' = [hpc EXCEPT ![p] = "play"]
    /\ UNCHANGED <<startVars, sent, played, logVars>>

\* Mutant: the handlers are kept by the address without the port.
Key_Host(p) == Host(p)

\* The key of the map of handlers: addr.AddrPort().
Key(p) == p

\* UDP: the handler for a packet of p, which may have to be created.
HandlerOf(p) ==
    LET known == {q \in Peers : Key(q) = Key(p) /\ hpc[q] # "none"}
    IN  IF known = {} THEN p ELSE CHOOSE q \in known : TRUE

\* UDP: ReadFromUDP, in the goroutine that also runs all handlers.
ReadFromUDP(p) ==
    /\ spc = "serve" /\ transport = "udp" /\ ~closed
    /\ \A q \in Peers : hpc[q] \in {"none", "idle"}
    /\ \E n \in Arriving(p) :
        /\ got' = [got EXCEPT ![p] = @ \union {n}]
        /\ hand' = [hand EXCEPT ![HandlerOf(p)] = <<p, n>>]
    /\ hpc' = [hpc EXCEPT ![HandlerOf(p)] = IF @ = "none" THEN "sink" ELSE "play"]
    /\ UNCHANGED <<startVars, sent, played, logVars>>

Cancel ==
    /\ ~cancelled
    /\ cancelled' = TRUE
    /\ UNCHANGED <<transport, spc, closed, peerVars, hndVars, logVars>>

\* Mutant: nobody closes the socket.
CloseConn_Never == FALSE /\ UNCHANGED vars

\* UDP: the goroutine that waits for ctx closes the socket.
CloseConn ==
    /\ spc = "serve" /\ transport = "udp" /\ cancelled /\ ~closed
    /\ closed' = TRUE
    /\ UNCHANGED <<transport, spc, cancelled, peerVars, hndVars, logVars>>

\* TCP and QUIC: a handler leaves when ctx is done.
HandlerExits(p) ==
    /\ Running /\ transport # "udp" /\ cancelled
    /\ hpc[p] = "idle"
    /\ hpc' = [hpc EXCEPT ![p] = "exited"]
    /\ UNCHANGED <<startVars, peerVars, hand, played, logVars>>

\* UDP: ReadFromUDP fails with net.ErrClosed, or with another error.
ReadFails ==
    /\ spc = "serve" /\ transport = "udp"
    /\ \A q \in Peers : hpc[q] \in {"none", "idle"}
    /\ spc' = "returned"
    /\ UNCHANGED <<transport, cancelled, closed, peerVars, hndVars, logVars>>

\* TCP and QUIC: Accept fails, and Start waits for the handlers.
AcceptFails ==
    /\ spc = "serve" /\ transport # "udp"
    /\ spc' = "drain"
    /\ UNCHANGED <<transport, cancelled, closed, peerVars, hndVars, logVars>>

StartReturns ==
    /\ spc = "drain"
    /\ \A q \in Peers : hpc[q] \in {"none", "exited"}
    /\ spc' = "returned"
    /\ UNCHANGED <<transport, cancelled, closed, peerVars, hndVars, logVars>>

-----------------------------------------------------------------------------
(* receiverController.handle and addStream.                                *)

\* NewGstreamerSink fails, rtp.New before or after the log of RTP packets is opened,
\* or Build: panic("TODO").
Panics(p) ==
    /\ Running /\ hpc[p] \in {"sink", "build", "bind"}
    /\ spc' = "panic"
    /\ UNCHANGED <<transport, cancelled, closed, peerVars, hndVars, logVars>>

NewSink(p) ==
    /\ Running /\ hpc[p] = "sink"
    /\ hpc' = [hpc EXCEPT ![p] = "build"]
    /\ UNCHANGED <<startVars, peerVars, hand, played, logVars>>

\* rtp.New runs the options, of which one opens the log: GetLogFile creates the
\* file anew for each handler.
RegisterReceiverPacketLog(p) ==
    /\ Running /\ hpc[p] = "build"
    /\ file' = <<>>
    /\ offset' = [offset EXCEPT ![p] = 0]
    /\ hpc' = [hpc EXCEPT ![p] = "bind"]
    /\ UNCHANGED <<startVars, peerVars, hand, played, dump>>

\* The rest of rtp.New, Build, Play, BindRTCPWriter, BindRemoteStream and
\* SetRTPReader.
BuildStream(p) ==
    /\ Running /\ hpc[p] = "bind"
    /\ hpc' = [hpc EXCEPT ![p] = IF hand[p] = NoPkt THEN "idle" ELSE "play"]
    /\ UNCHANGED <<startVars, peerVars, hand, played, logVars>>

-----------------------------------------------------------------------------
(* The reader: the sink first, then the packet log around it.              *)

\* ms.Write; an error is returned through all readers and logged.
Play(p) ==
    /\ Running /\ hpc[p] = "play"
    /\ \/ /\ played' = [played EXCEPT ![p] = Append(@, hand[p])]
          /\ hpc' = [hpc EXCEPT ![p] = "dump"]
          /\ UNCHANGED hand
       \/ /\ hpc' = [hpc EXCEPT ![p] = "idle"]
          /\ hand' = [hand EXCEPT ![p] = NoPkt]
          /\ UNCHANGED played
    /\ UNCHANGED <<startVars, peerVars, logVars>>

\* The packet is handed to the goroutine of the packet log, without a buffer.
Dump(p) ==
    /\ Running /\ hpc[p] = "dump" /\ dump[p] = NoPkt
    /\ dump' = [dump EXCEPT ![p] = hand[p]]
    /\ hand' = [hand EXCEPT ![p] = NoPkt]
    /\ hpc' = [hpc EXCEPT ![p] = "idle"]
    /\ UNCHANGED <<startVars, peerVars, played, offset, file>>

\* Mutant: the line goes to the buffer of fileCloser, and nothing calls Close.
WriteLine_Buffered(p) ==
    /\ Running /\ dump[p] # NoPkt
    /\ dump' = [dump EXCEPT ![p] = NoPkt]
    /\ UNCHANGED <<startVars, peerVars, hndVars, offset, file>>

\* fileCloser.Write passes by its buffer, to the file at this handler's offset.
WriteLine(p) ==
    /\ Running /\ dump[p] # NoPkt
    /\ file' = [i \in 1 .. Max({Len(file), offset[p] + 1}) |->
                    IF i = offset[p] + 1 THEN dump[p]
                    ELSE IF i <= Len(file) THEN file[i] ELSE NoPkt]
    /\ offset' = [offset EXCEPT ![p] = @ + 1]
    /\ dump' = [dump EXCEPT ![p] = NoPkt]
    /\ UNCHANGED <<startVars, peerVars, hndVars>>

-----------------------------------------------------------------------------
Handler(p) == \/ NewSink(p) \/ RegisterReceiverPacketLog(p) \/ BuildStream(p)
              \/ Play(p) \/ Dump(p) \/ HandlerExits(p) \/ Panics(p)

Next ==
    \/ Listen \/ Cancel \/ CloseConn \/ ReadFails \/ AcceptFails \/ StartReturns
    \/ \E p \in Peers : \/ PeerSends(p) \/ Accept(p) \/ Take(p) \/ ReadFromUDP(p)
                        \/ Handler(p) \/ WriteLine(p)

Spec == Init /\ [][Next]_vars

\* Go schedules all goroutines; the socket keeps the order of arrival, so no peer
\* is passed over for ever; a handler's select does not ignore a packet.  A read
\* of a closed socket fails, and so does QUIC's Accept once ctx is done; nothing
\* closes TCP's listener, and other errors owe nothing.
Fairness ==
    /\ WF_vars(Listen) /\ WF_vars(CloseConn) /\ WF_vars(closed /\ ReadFails)
    /\ WF_vars(cancelled /\ transport = "quic" /\ AcceptFails) /\ WF_vars(StartReturns)
    /\ \A p \in Peers : /\ WF_vars(Accept(p)) /\ WF_vars(Take(p))
                        /\ SF_vars(ReadFromUDP(p))
                        /\ WF_vars(Handler(p)) /\ WF_vars(WriteLine(p))

FairSpec == Spec /\ Fairness
-----------------------------------------------------------------------------
(* Properties.                                                             *)

\* A sink plays the packets of its own peer only and none of them twice, however
\* the peers share a host and whoever is created first (udp/receiver.go:67-79).
\* Over TCP it plays them in the order of sending; over QUIC and UDP a later packet
\* can come first (quic/receiver.go:134-135, 200).
OwnSink ==
    \A p \in Peers :
        /\ \A i \in DOMAIN played[p] : played[p][i][1] = p
        /\ \A i, j \in DOMAIN played[p] :
              i < j => /\ played[p][i] # played[p][j]
                       /\ transport = "tcp" => played[p][i][2] < played[p][j][2]

\* No peer has to wait for another one to leave: whenever a peer pauses, all that
\* it has sent is read and dealt with, as long as the process lives and ctx is
\* not done, unless the server came to its end before it was accepted
\* (tcp/receiver.go:63-78).
PeersServed ==
    \A p \in Peers :
        []<>(\/ ~Running \/ cancelled
             \/ spc = "drain" /\ hpc[p] = "none"
             \/ got[p] = 1..sent[p] /\ hand[p] = NoPkt)

\* The log of a receiver with one peer is complete and in the order of playing, also
\* when the process dies: of the packets that were played at most the two that
\* the reader and the log's goroutine hold are missing (logging.go:81-83).  With
\* a second peer the file is truncated and written over.
LogKept ==
    \A p \in Peers :
        {q \in Peers : offset[q] >= 0} = {p}
            => /\ Len(played[p]) - Len(file) \in 0..2
               /\ file = SubSeq(played[p], 1, Len(file))

\* When ctx is done, the UDP and the QUIC server return, even if no peer sends
\* anything (udp/receiver.go:49-54, quic/receiver.go:83-93).
ServerReturns == (cancelled /\ transport # "tcp") ~> ~Running
=============================================================================

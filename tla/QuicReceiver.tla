---------------------------- MODULE QuicReceiver ----------------------------
(***************************************************************************)
(* The QUIC server (quic/receiver.go).  Start accepts connections; for     *)
(* each one a goroutine runs Handler.handle, and three kinds of goroutines *)
(* hand packets to it over the unbuffered channel pktChan: receiveDgrams,  *)
(* acceptStreams and, for each stream that arrives, a readStream.          *)
(*                                                                         *)
(* The connection is quic-go as this code uses it: datagrams are lost or   *)
(* reordered but not duplicated, the bytes of a stream arrive in order     *)
(* until its end, the stream is reset, or the connection ends.             *)
(***************************************************************************)
EXTENDS Integers, Sequences, FiniteSets

CONSTANTS
    Conns,     \* connections that peers open
    Dgrams,    \* datagrams: each belongs to the connection Of[d]
    Streams,   \* unidirectional streams, of the connection Of[x]
    Of,
    NoFlowID   \* the datagrams and streams without a valid flow ID

Packets == Dgrams \union Streams
ASSUME ConnsFinite == IsFiniteSet(Conns)
ASSUME KindsDiffer == Dgrams \intersect Streams = {}
ASSUME OfIsFunction == Of \in [Packets -> Conns]

VARIABLES
    spc,       \* where Server.Start is
    wg,        \* its wait group
    conn,      \* per connection: "none", "open" or "ended"
    hpc,       \* per connection: where the goroutine of its handler is
    dpc,       \* per connection: where receiveDgrams is
    msg,       \* per connection: the datagram that receiveDgrams holds
    apc,       \* per connection: where acceptStreams is
    transit,   \* datagrams that were sent and have not arrived
    state,     \* per stream: what the peer has done with it
    rpc,       \* per stream: where its readStream is
    read,      \* per connection: packets given to h.reader, in order
    cancelled  \* ctx is done

netVars  == <<conn, transit, state>>
servVars == <<spc, wg, hpc, read, cancelled>>
recvVars == <<dpc, msg, apc, rpc>>
vars     == <<netVars, servVars, recvVars>>

Nothing == {}    \* receiveDgrams holds no datagram

Init ==
    /\ spc = "accept" /\ wg = 0 /\ cancelled = FALSE
    /\ conn = [c \in Conns |-> "none"]
    /\ hpc  = [c \in Conns |-> "none"]
    /\ dpc  = [c \in Conns |-> "none"]
    /\ apc  = [c \in Conns |-> "none"]
    /\ msg  = [c \in Conns |-> Nothing]
    /\ read = [c \in Conns |-> <<>>]
    /\ transit = Dgrams
    /\ state = [x \in Streams |-> "unopened"]
    /\ rpc   = [x \in Streams |-> "none"]

-----------------------------------------------------------------------------
(* The peers and the network.                                              *)

\* The peer opens stream x, finishes it, or resets it before its end.
StreamOpens(x) ==
    /\ conn[Of[x]] = "open" /\ state[x] = "unopened"
    /\ state' = [state EXCEPT ![x] = "open"]
    /\ UNCHANGED <<conn, transit, servVars, recvVars>>

StreamEnds(x) ==
    /\ conn[Of[x]] = "open" /\ state[x] = "open"
    /\ \E how \in {"complete", "reset"} : state' = [state EXCEPT ![x] = how]
    /\ UNCHANGED <<conn, transit, servVars, recvVars>>

DgramLost(d) ==
    /\ conn[Of[d]] = "open" /\ d \in transit
    /\ transit' = transit \ {d}
    /\ UNCHANGED <<conn, state, servVars, recvVars>>

\* The peer closes the connection with error 0, or it times out.
ConnEnds(c) ==
    /\ conn[c] = "open"
    /\ conn' = [conn EXCEPT ![c] = "ended"]
    /\ UNCHANGED <<transit, state, servVars, recvVars>>

Cancel ==
    /\ ~cancelled
    /\ cancelled' = TRUE
    /\ UNCHANGED <<netVars, spc, wg, hpc, read, recvVars>>

-----------------------------------------------------------------------------
(* Server.Start.                                                           *)

\* Mutant: the handler is not counted by the wait group.
Accept_NoAdd(c) ==
    /\ spc = "accept" /\ conn[c] = "none"
    /\ conn' = [conn EXCEPT ![c] = "open"]
    /\ hpc' = [hpc EXCEPT ![c] = "start"]
    /\ UNCHANGED <<transit, state, spc, wg, read, cancelled, recvVars>>

\* A peer's connection is accepted: wg.Add(1), and a goroutine for it.
Accept(c) ==
    /\ spc = "accept" /\ conn[c] = "none"
    /\ conn' = [conn EXCEPT ![c] = "open"]
    /\ wg' = wg + 1
    /\ hpc' = [hpc EXCEPT ![c] = "start"]
    /\ UNCHANGED <<transit, state, spc, read, cancelled, recvVars>>

\* listener.Accept(ctx) fails, with context.Canceled or with another error of the
\* listener; Start returns either way, once its handlers have.
AcceptFails ==
    /\ spc = "accept"
    /\ spc' = "waiting"
    /\ UNCHANGED <<netVars, wg, hpc, read, cancelled, recvVars>>

\* The deferred wg.Wait.
StartReturns ==
    /\ spc = "waiting" /\ wg = 0
    /\ spc' = "returned"
    /\ UNCHANGED <<netVars, wg, hpc, read, cancelled, recvVars>>

-----------------------------------------------------------------------------
(* Handler.handle.                                                         *)

\* onNewHandler has set the reader; the two receiving goroutines start.
HandlerStart(c) ==
    /\ hpc[c] = "start"
    /\ hpc' = [hpc EXCEPT ![c] = "select"]
    /\ dpc' = [dpc EXCEPT ![c] = "receive"]
    /\ apc' = [apc EXCEPT ![c] = "accept"]
    /\ UNCHANGED <<netVars, spc, wg, read, cancelled, msg, rpc>>

\* Mutant: handle's own wait group counts the receiving goroutines.
HandlerExits_Waits(c) ==
    /\ hpc[c] = "select" /\ cancelled
    /\ dpc[c] = "exited" /\ apc[c] = "exited"
    /\ hpc' = [hpc EXCEPT ![c] = "exited"]
    /\ wg' = wg - 1
    /\ UNCHANGED <<netVars, spc, read, cancelled, recvVars>>

\* `case <-ctx.Done()`, and the deferred wg.Done of Start's goroutine.
HandlerExits(c) ==
    /\ hpc[c] = "select" /\ cancelled
    /\ hpc' = [hpc EXCEPT ![c] = "exited"]
    /\ wg' = wg - 1
    /\ UNCHANGED <<netVars, spc, read, cancelled, recvVars>>

\* `pktChan <- pkt` meets `case p := <-pktChan`, and h.reader.Read.
HandlerReads(c, p) ==
    /\ hpc[c] = "select"
    /\ read' = [read EXCEPT ![c] = Append(@, p)]
    /\ UNCHANGED <<netVars, spc, wg, hpc, cancelled>>

-----------------------------------------------------------------------------
(* receiveDgrams.                                                          *)

\* A datagram without a flow ID is dropped.
ReceiveMessage(c, d) ==
    /\ dpc[c] = "receive" /\ conn[c] = "open"
    /\ d \in transit /\ Of[d] = c
    /\ transit' = transit \ {d}
    /\ IF d \in NoFlowID
       THEN UNCHANGED <<dpc, msg>>
       ELSE dpc' = [dpc EXCEPT ![c] = "offer"] /\ msg' = [msg EXCEPT ![c] = {d}]
    /\ UNCHANGED <<conn, state, servVars, apc, rpc>>

OfferDgram(c) ==
    /\ dpc[c] = "offer"
    /\ \E d \in msg[c] : HandlerReads(c, d)
    /\ dpc' = [dpc EXCEPT ![c] = "receive"] /\ msg' = [msg EXCEPT ![c] = Nothing]
    /\ UNCHANGED <<apc, rpc>>

\* Application error 0 or a timeout.  (Any other error is logged and retried.)
ReceiverExits(c) ==
    /\ dpc[c] = "receive" /\ conn[c] = "ended"
    /\ dpc' = [dpc EXCEPT ![c] = "exited"]
    /\ UNCHANGED <<netVars, servVars, msg, apc, rpc>>

-----------------------------------------------------------------------------
(* acceptStreams and readStream.                                           *)

\* Mutant: streams are read by acceptStreams itself, one after the other.
AcceptUniStream_Serial(x) ==
    /\ apc[Of[x]] = "accept" /\ conn[Of[x]] = "open" /\ ~cancelled
    /\ \A y \in Streams : Of[y] = Of[x] => rpc[y] \notin {"reading", "offer"}
    /\ state[x] # "unopened" /\ rpc[x] = "none"
    /\ rpc' = [rpc EXCEPT ![x] = "reading"]
    /\ UNCHANGED <<netVars, servVars, dpc, msg, apc>>

\* AcceptUniStream gives context.Canceled once ctx is done, which the loop logs
\* and retries for ever: it accepts nothing any more.
AcceptUniStream(x) ==
    /\ apc[Of[x]] = "accept" /\ conn[Of[x]] = "open" /\ ~cancelled
    /\ state[x] # "unopened" /\ rpc[x] = "none"
    /\ rpc' = [rpc EXCEPT ![x] = "reading"]
    /\ UNCHANGED <<netVars, servVars, dpc, msg, apc>>

AcceptorExits(c) ==
    /\ apc[c] = "accept" /\ conn[c] = "ended"
    /\ apc' = [apc EXCEPT ![c] = "exited"]
    /\ UNCHANGED <<netVars, servVars, dpc, msg, rpc>>

\* Mutant: a stream that was reset is passed on as far as it came.
ReadAll_Partial(x) ==
    /\ rpc[x] = "reading"
    /\ \/ /\ state[x] \in {"complete", "reset"} /\ x \notin NoFlowID
          /\ rpc' = [rpc EXCEPT ![x] = "offer"]
       \/ /\ conn[Of[x]] = "ended" \/ x \in NoFlowID
          /\ rpc' = [rpc EXCEPT ![x] = "exited"]
    /\ UNCHANGED <<netVars, servVars, dpc, msg, apc>>

\* The flow ID and then io.ReadAll: the packet is the whole stream, or an error
\* (a reset, the end of the connection) makes readStream return.
ReadAll(x) ==
    /\ rpc[x] = "reading"
    /\ \/ /\ state[x] = "complete" /\ x \notin NoFlowID
          /\ rpc' = [rpc EXCEPT ![x] = "offer"]
       \/ /\ state[x] = "reset" \/ conn[Of[x]] = "ended" \/ x \in NoFlowID
          /\ rpc' = [rpc EXCEPT ![x] = "exited"]
    /\ UNCHANGED <<netVars, servVars, dpc, msg, apc>>

OfferStream(x) ==
    /\ rpc[x] = "offer"
    /\ HandlerReads(Of[x], x)
    /\ rpc' = [rpc EXCEPT ![x] = "exited"]
    /\ UNCHANGED <<dpc, msg, apc>>

-----------------------------------------------------------------------------
Server(c) == Accept(c) \/ HandlerStart(c) \/ HandlerExits(c)

Receiver(c) == \/ \E d \in Dgrams : ReceiveMessage(c, d)
               \/ OfferDgram(c) \/ ReceiverExits(c) \/ AcceptorExits(c)

Stream(x) == AcceptUniStream(x) \/ ReadAll(x) \/ OfferStream(x)

Network == \/ \E x \in Streams : StreamOpens(x) \/ StreamEnds(x)
           \/ \E d \in Dgrams : DgramLost(d)
           \/ \E c \in Conns : ConnEnds(c)

Next == \/ \E c \in Conns : Server(c) \/ Receiver(c)
        \/ \E x \in Streams : Stream(x)
        \/ Network \/ Cancel \/ AcceptFails \/ StartReturns

Spec == Init /\ [][Next]_vars

\* Go schedules every goroutine; a select takes a case that is ready again and
\* again.  Accept fails once ctx is done; other errors of the listener, peers, network
\* and the user owe nothing.
Fairness ==
    /\ \A c \in Conns : WF_vars(HandlerStart(c)) /\ WF_vars(HandlerExits(c))
    /\ \A c \in Conns : SF_vars(OfferDgram(c))
    /\ \A x \in Streams : /\ WF_vars(AcceptUniStream(x)) /\ WF_vars(ReadAll(x))
                          /\ SF_vars(OfferStream(x))
    /\ WF_vars(cancelled /\ AcceptFails) /\ WF_vars(StartReturns)

FairSpec == Spec /\ Fairness
-----------------------------------------------------------------------------
(* Properties.                                                             *)

\* Every packet reaches the reader of its own connection, at most once, and a
\* packet sent on a stream only if the whole stream arrived: a stream that was
\* reset or cut off by the end of the connection gives nothing, whichever of
\* the goroutines noticed first (lines 155-232).
WholeAndOnce ==
    \A c \in Conns : \A i \in DOMAIN read[c] :
        /\ Of[read[c][i]] = c
        /\ read[c][i] \in Streams => state[read[c][i]] = "complete"
        /\ \A j \in DOMAIN read[c] : read[c][i] = read[c][j] => i = j

\* When Start has returned, no handler runs and none will: no packet is given
\* to a media sink any more (lines 83-106).
QuietAfterStart ==
    spc = "returned" => \A c \in Conns : hpc[c] \in {"none", "exited"}

\* A stream that arrived completely is read, unless its connection ends or the
\* server is cancelled: no packet waits behind another one for ever.
StreamsRead ==
    \A x \in Streams \ NoFlowID :
        (state[x] = "complete" /\ apc[Of[x]] = "accept")
            ~> (cancelled \/ conn[Of[x]] = "ended"
                \/ \E i \in DOMAIN read[Of[x]] : read[Of[x]][i] = x)

\* Start returns once ctx is done, although packets may still be on offer.
ServerStops == cancelled ~> (spc = "returned")
=============================================================================

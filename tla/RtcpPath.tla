------------------------------- MODULE RtcpPath -------------------------------
(***************************************************************************)
(* The way of RTCP feedback through a sender: readFromNetwork (one per     *)
(* transport: quic/sender.go, tcp/sender.go, udp/sender.go) reads a batch  *)
(* of RTCP packets and hands it over rtcpChan to rtp.ReadRTCP, which calls *)
(* the RTCP reader of the SCReAM interceptor.  That reader looks at the    *)
(* bytes twice: it copies them and parses the SSRCs from the copy, and it  *)
(* gives the original bytes to tx afterwards, once for every SCReAM report *)
(* that the batch holds; packets of another type are skipped.              *)
(*                                                                         *)
(* QUIC returns a new slice for every datagram.  TCP and UDP reuse one     *)
(* buffer, so a later batch may be written over the bytes that ReadRTCP is *)
(* reading; what such a read sees is not defined.                          *)
(***************************************************************************)
EXTENDS Integers

CONSTANTS
    Transports,  \* the transports considered: "quic", "tcp", "udp"
    MaxBatches,  \* bound: batches, numbered from 1 in the order of their sending
    Reports      \* how many SCReAM reports a batch may hold, by transport

Torn == -1       \* a mixture of two batches

OneReport == [t \in Transports |-> {1}]   \* what the SCReAM receiver writes

VARIABLES
    transport, \* which of the three senders this is
    npc,       \* where readFromNetwork is
    buf,       \* the batch that it read last
    rpc,       \* where ReadRTCP is
    mine,      \* the batch that ReadRTCP was handed
    copied,    \* the batch that its copy holds
    left,      \* reports of the copy that are not dealt with
    fed,       \* the batch that was given to tx last
    cancelled, \* ctx is done
    read,      \* history, QUIC: the batches that were read
    done       \* history, QUIC: the batches that ReadRTCP has dealt with

vars == <<transport, npc, buf, rpc, mine, copied, left, fed, cancelled, read, done>>

Init ==
    /\ transport \in Transports
    /\ npc = "read" /\ buf = 0
    /\ rpc = "select" /\ mine = 0 /\ copied = 0 /\ left = 0 /\ fed = 0
    /\ cancelled = FALSE
    /\ read = {} /\ done = {}

-----------------------------------------------------------------------------
(* readFromNetwork.                                                        *)

\* A batch is read (TCP: a whole frame, copied into the buffer).  TCP keeps the
\* order of sending; QUIC and UDP lose and reorder datagrams, and QUIC does not
\* deliver one twice.  Errors other than the end of the connection are logged and
\* the read is repeated.
NetworkReads(b) ==
    /\ npc = "read"
    /\ transport = "tcp" => b > buf
    /\ transport = "quic" => b \notin read
    /\ buf' = b
    /\ read' = IF transport = "quic" THEN read \union {b} ELSE read
    /\ npc' = "offer"
    /\ UNCHANGED <<transport, rpc, mine, copied, left, fed, cancelled, done>>

\* QUIC: application error 0 or a timeout.  TCP and UDP: the socket is closed.
NetworkExits ==
    /\ npc = "read"
    /\ npc' = "exited"
    /\ UNCHANGED <<transport, buf, rpc, mine, copied, left, fed, cancelled, read, done>>

\* `rtcpChan <- ...` meets the select of ReadRTCP.
HandOver ==
    /\ npc = "offer" /\ rpc = "select"
    /\ mine' = buf
    /\ npc' = "read" /\ rpc' = "copy"
    /\ UNCHANGED <<transport, buf, copied, left, fed, cancelled, read, done>>

\* Mutant: QUIC, too, drops a batch when ReadRTCP is busy.
Drop_Always ==
    /\ npc = "offer"
    /\ rpc # "select" \/ cancelled
    /\ npc' = "read"
    /\ UNCHANGED <<transport, buf, rpc, mine, copied, left, fed, cancelled, read, done>>

\* UDP alone does not wait: "RTCP buffer full, dropping packet", or ctx is done
\* (and the loop goes on).
Drop ==
    /\ transport = "udp"
    /\ npc = "offer"
    /\ rpc # "select" \/ cancelled
    /\ npc' = "read"
    /\ UNCHANGED <<transport, buf, rpc, mine, copied, left, fed, cancelled, read, done>>

-----------------------------------------------------------------------------
(* ReadRTCP and the reader of the SCReAM interceptor.                      *)

\* Mutant: QUIC's datagrams are received into one buffer.
Bytes_Shared == IF buf = mine THEN {mine} ELSE {mine, buf, Torn}

\* What the bytes that were handed over may hold now.
Bytes == IF transport = "quic" \/ buf = mine THEN {mine} ELSE {mine, buf, Torn}

\* ReadRTCP is through with its batch and returns to the select.
Finish ==
    /\ rpc' = "select"
    /\ mine' = 0 /\ copied' = 0 /\ left' = 0
    /\ done' = IF transport = "quic" THEN done \union {mine} ELSE done

\* reader.Read, copy(buf, b) and rtcp.Unmarshal.  A torn batch may not parse, and
\* then the reader returns an error that ReadRTCP logs; packets that are no SCReAM
\* report are skipped, "got incorrect packet type".
CopyBatch ==
    /\ rpc = "copy"
    /\ \E c \in Bytes : \E n \in Reports[transport] \union (IF c = Torn THEN {0} ELSE {}) :
        IF n = 0 THEN Finish
                 ELSE /\ rpc' = "feed" /\ copied' = c /\ left' = n
                      /\ UNCHANGED <<mine, done>>
    /\ UNCHANGED <<transport, npc, buf, fed, cancelled, read>>

\* tx.IncomingStandardizedFeedback(t, b[:n]): all of the original bytes again.
Feed ==
    /\ rpc = "feed"
    /\ fed' \in Bytes
    /\ rpc' = "notify"
    /\ UNCHANGED <<transport, npc, buf, mine, copied, left, cancelled, read, done>>

\* The streams that this report of the copy names have taken newFeedback; on to
\* the next report.
NotifyDone ==
    /\ rpc = "notify"
    /\ IF left > 1 THEN rpc' = "feed" /\ left' = left - 1 /\ UNCHANGED <<mine, copied, done>>
                   ELSE Finish
    /\ UNCHANGED <<transport, npc, buf, fed, cancelled, read>>

ReaderExits ==
    /\ rpc = "select" /\ cancelled
    /\ rpc' = "exited"
    /\ UNCHANGED <<transport, npc, buf, mine, copied, left, fed, cancelled, read, done>>

Cancel ==
    /\ ~cancelled
    /\ cancelled' = TRUE
    /\ UNCHANGED <<transport, npc, buf, rpc, mine, copied, left, fed, read, done>>

Next == \/ \E b \in 1..MaxBatches : NetworkReads(b)
        \/ NetworkExits \/ HandOver \/ Drop
        \/ CopyBatch \/ Feed \/ NotifyDone \/ ReaderExits \/ Cancel

Spec == Init /\ [][Next]_vars
-----------------------------------------------------------------------------
(* Properties.                                                             *)

\* "The returned method will be called once per packet batch": of batches with one
\* report each, tx is given every one at most once, whole and in order of arrival,
\* and the streams notified are the ones that this batch names
\* (sender_interceptor.go:103-150).
OncePerBatch ==
    [][/\ rpc = "feed" /\ rpc' = "notify" => fed' # Torn /\ fed' > fed
       /\ rpc = "notify" /\ rpc' # "notify" => copied = fed]_vars

\* QUIC: for every report of a batch, in whatever order the batches arrive, tx is
\* given the bytes of this batch, whole, and the streams notified are the ones that
\* it names; a batch that was dealt with never comes back.  ReceiveMessage returns
\* a new slice every time, so the next batch never reaches the bytes under ReadRTCP
\* (quic/sender.go:188-214).
WholeBatchesOnQuic ==
    [][transport = "quic" =>
        /\ rpc = "feed" /\ rpc' = "notify" => fed' = mine /\ mine \notin done
        /\ rpc = "notify" /\ rpc' # "notify" => fed = mine /\ copied = mine]_vars

\* With QUIC no batch that was read gets lost between the socket and tx, unless
\* ctx is done: readFromNetwork waits for ReadRTCP instead of dropping, and
\* whenever the network pauses ReadRTCP has dealt with every batch that was read.
BatchesArrive == []<>(transport = "quic" => read = done \/ cancelled)
=============================================================================

------------------------ MODULE QuicReceiverProofs -------------------------
(***************************************************************************)
(* Proofs about QuicReceiver, for any connections, datagrams and streams.  *)
(***************************************************************************)
EXTENDS QuicReceiver, FiniteSetTheorems, TLAPS

HandlerRuns == {c \in Conns : hpc[c] \in {"start", "select"}}

\* The wait group of Start counts the handlers that run.
WaitInv ==
    /\ hpc \in [Conns -> {"none", "start", "select", "exited"}]
    /\ wg = Cardinality(HandlerRuns)
    /\ \A c \in Conns : conn[c] = "none" => hpc[c] = "none"
    /\ spc = "returned" => HandlerRuns = {}

\* The number of running handlers is a natural number.
LEMMA HandlersFinite == IsFiniteSet(HandlerRuns) /\ Cardinality(HandlerRuns) \in Nat
BY ConnsFinite, FS_Subset, FS_CardinalityType DEF HandlerRuns

\* A step that touches no handler and does not let Start return keeps WaitInv.
LEMMA WaitSame ==
    ASSUME WaitInv, UNCHANGED <<hpc, wg>>, spc' = "returned" => spc = "returned",
           \A c \in Conns : conn'[c] = "none" => conn[c] = "none"
    PROVE  WaitInv'
<1>1. HandlerRuns' = HandlerRuns
  BY DEF HandlerRuns
<1> QED
  BY <1>1 DEF WaitInv

\* Every action keeps WaitInv.
LEMMA WaitStep ==
    ASSUME WaitInv, conn \in [Conns -> {"none", "open", "ended"}], [Next]_vars
    PROVE  WaitInv'
<1> USE DEF netVars, servVars, recvVars
<1>1. ASSUME NEW c \in Conns, Server(c)
      PROVE  WaitInv'
  <2>1. CASE Accept(c)
    <3>1. /\ hpc' = [hpc EXCEPT ![c] = "start"] /\ wg' = wg + 1
          /\ conn' = [conn EXCEPT ![c] = "open"] /\ spc' = spc /\ spc = "accept"
          /\ hpc[c] = "none"
      BY <2>1 DEF Accept, WaitInv
    <3>2. c \notin HandlerRuns /\ HandlerRuns' = HandlerRuns \union {c}
      BY <3>1 DEF HandlerRuns, WaitInv
    <3>3. Cardinality(HandlerRuns') = Cardinality(HandlerRuns) + 1
      BY <3>2, HandlersFinite, FS_AddElement
    <3> QED
      BY <3>1, <3>3 DEF WaitInv
  <2>2. CASE HandlerStart(c)
    <3>1. /\ hpc[c] = "start" /\ hpc' = [hpc EXCEPT ![c] = "select"]
          /\ UNCHANGED <<wg, conn, spc>>
      BY <2>2 DEF HandlerStart
    <3>2. HandlerRuns' = HandlerRuns
      BY <3>1 DEF HandlerRuns, WaitInv
    <3> QED
      BY <3>1, <3>2 DEF WaitInv
  <2>3. CASE HandlerExits(c)
    <3>1. /\ hpc[c] = "select" /\ hpc' = [hpc EXCEPT ![c] = "exited"]
          /\ wg' = wg - 1 /\ UNCHANGED <<conn, spc>>
      BY <2>3 DEF HandlerExits
    <3>2. c \in HandlerRuns /\ HandlerRuns' = HandlerRuns \ {c}
      BY <3>1 DEF HandlerRuns, WaitInv
    <3>3. Cardinality(HandlerRuns') = Cardinality(HandlerRuns) - 1
      BY <3>2, HandlersFinite, FS_RemoveElement
    <3> QED
      BY <3>1, <3>2, <3>3 DEF WaitInv
  <2> QED
    BY <1>1, <2>1, <2>2, <2>3 DEF Server
<1>2. ASSUME NEW c \in Conns, Receiver(c)
      PROVE  WaitInv'
  BY <1>2, WaitSame DEF Receiver, ReceiveMessage, OfferDgram, HandlerReads,
                        ReceiverExits, AcceptorExits
<1>3. ASSUME NEW x \in Streams, Stream(x)
      PROVE  WaitInv'
  BY <1>3, WaitSame DEF Stream, AcceptUniStream, ReadAll, OfferStream, HandlerReads
<1>4. CASE Network
  BY <1>4, WaitSame DEF Network, StreamOpens, StreamEnds, DgramLost, ConnEnds
<1>5. CASE Cancel \/ AcceptFails
  BY <1>5, WaitSame DEF Cancel, AcceptFails
<1>6. CASE StartReturns
  <2>1. wg = 0 /\ UNCHANGED <<hpc, wg, conn>>
    BY <1>6 DEF StartReturns
  <2>2. HandlerRuns = {}
    BY <2>1, HandlersFinite, FS_EmptySet DEF WaitInv
  <2>3. HandlerRuns' = HandlerRuns
    BY <2>1 DEF HandlerRuns
  <2> QED
    BY <2>1, <2>2, <2>3 DEF WaitInv
<1>7. CASE UNCHANGED vars
  BY <1>7, WaitSame DEF vars
<1> QED
  BY <1>1, <1>2, <1>3, <1>4, <1>5, <1>6, <1>7 DEF Next

ConnOK == conn \in [Conns -> {"none", "open", "ended"}]

\* A connection is not accepted yet, open, or ended.
LEMMA ConnStep == ConnOK /\ [Next]_vars => ConnOK'
BY DEF ConnOK, Next, Server, Receiver, Stream, Network, StreamOpens, StreamEnds,
       DgramLost, ConnEnds, Cancel, Accept, AcceptFails, StartReturns, HandlerStart,
       HandlerExits, HandlerReads, ReceiveMessage, OfferDgram, ReceiverExits,
       AcceptUniStream, AcceptorExits, ReadAll, OfferStream, vars, netVars

\* After Start has returned no handler runs, so no packet reaches a media sink
\* (QuietAfterStart).
THEOREM QuietAfterStartHolds == Spec => []QuietAfterStart
<1>1. Init => WaitInv /\ ConnOK
  <2>1. Init => HandlerRuns = {}
    BY DEF Init, HandlerRuns
  <2> QED
    <3>1. Init => ConnOK
      BY DEF Init, ConnOK
    <3>2. Init => hpc \in [Conns -> {"none", "start", "select", "exited"}]
      BY DEF Init
    <3>3. Init => wg = Cardinality(HandlerRuns)
      BY <2>1, FS_EmptySet DEF Init
    <3>4. Init => spc # "returned" /\ \A c \in Conns : hpc[c] = "none"
      BY DEF Init
    <3> QED
      BY <3>1, <3>2, <3>3, <3>4 DEF WaitInv
<1>2. WaitInv /\ ConnOK /\ [Next]_vars => WaitInv' /\ ConnOK'
  BY WaitStep, ConnStep DEF ConnOK
<1>3. WaitInv => QuietAfterStart
  BY DEF WaitInv, HandlerRuns, QuietAfterStart
<1> QED
  BY <1>1, <1>2, <1>3, PTL DEF Spec
-----------------------------------------------------------------------------
(* Packets.                                                                *)

Types ==
    /\ read \in [Conns -> Seq(Packets)]
    /\ msg \in [Conns -> SUBSET Dgrams]
    /\ transit \in SUBSET Dgrams
    /\ rpc \in [Streams -> {"none", "reading", "offer", "exited"}]
    /\ state \in [Streams -> {"unopened", "open", "complete", "reset"}]

HasRead(c, p) == \E i \in DOMAIN read[c] : read[c][i] = p

\* A datagram that is held was taken out of the network and was not read.
HeldInv ==
    \A c \in Conns : \A d \in msg[c] : Of[d] = c /\ d \notin transit /\ ~HasRead(c, d)

\* A packet that was read is at its own connection and can come from nowhere
\* any more: its datagram has left the network, its readStream has left.
ReadInv ==
    \A c \in Conns : \A p \in Packets :
        HasRead(c, p) =>
            /\ Of[p] = c
            /\ p \in Dgrams => p \notin transit
            /\ p \in Streams => state[p] = "complete" /\ rpc[p] = "exited"

\* A readStream offers complete streams only.
OfferInv == \A x \in Streams : rpc[x] = "offer" => state[x] = "complete"

ReadOnce ==
    \A c \in Conns : \A i, j \in DOMAIN read[c] : read[c][i] = read[c][j] => i = j

PacketInv == Types /\ HeldInv /\ ReadInv /\ OfferInv /\ ReadOnce

\* Reading a packet that was not read adds it to what was read, once.
LEMMA ReadNew ==
    ASSUME PacketInv, NEW c \in Conns, NEW p \in Packets, ~HasRead(c, p),
           read' = [read EXCEPT ![c] = Append(@, p)]
    PROVE  /\ read' \in [Conns -> Seq(Packets)]
           /\ ReadOnce'
           /\ \A b \in Conns : \A q \in Packets :
                 HasRead(b, q)' => HasRead(b, q) \/ (b = c /\ q = p)
<1> USE DEF PacketInv, Types
<1>1. /\ read[c] \in Seq(Packets) /\ read'[c] = Append(read[c], p)
      /\ \A b \in Conns \ {c} : read'[b] = read[b]
  OBVIOUS
<1>2. read' \in [Conns -> Seq(Packets)]
  OBVIOUS
<1>3. /\ Len(read'[c]) = Len(read[c]) + 1
      /\ DOMAIN read'[c] = 1 .. Len(read[c]) + 1
      /\ DOMAIN read[c] = 1 .. Len(read[c])
      /\ \A i \in 1 .. Len(read[c]) : read'[c][i] = read[c][i]
      /\ read'[c][Len(read[c]) + 1] = p
      /\ Len(read[c]) \in Nat
  BY <1>1
<1>4. ReadOnce'
  <2> SUFFICES ASSUME NEW b \in Conns, NEW i \in DOMAIN read'[b],
                      NEW j \in DOMAIN read'[b], read'[b][i] = read'[b][j]
               PROVE  i = j
    BY DEF ReadOnce
  <2>1. CASE b # c
    BY <2>1, <1>1 DEF ReadOnce
  <2>2. CASE b = c
    <3>1. i = Len(read[c]) + 1 => j = Len(read[c]) + 1
      BY <2>2, <1>3 DEF HasRead
    <3>2. j = Len(read[c]) + 1 => i = Len(read[c]) + 1
      BY <2>2, <1>3 DEF HasRead
    <3>3. i \in DOMAIN read[c] /\ j \in DOMAIN read[c] => i = j
      BY <2>2, <1>3 DEF ReadOnce
    <3> QED
      BY <2>2, <3>1, <3>2, <3>3, <1>3
  <2> QED
    BY <2>1, <2>2
<1>5. \A b \in Conns : \A q \in Packets :
          HasRead(b, q)' => HasRead(b, q) \/ (b = c /\ q = p)
  <2> SUFFICES ASSUME NEW b \in Conns, NEW q \in Packets,
                      NEW i \in DOMAIN read'[b], read'[b][i] = q
               PROVE  HasRead(b, q) \/ (b = c /\ q = p)
    BY DEF HasRead
  <2>1. CASE b # c
    BY <2>1, <1>1 DEF HasRead
  <2>2. CASE b = c
    BY <2>2, <1>3 DEF HasRead
  <2> QED
    BY <2>1, <2>2
<1> QED
  BY <1>2, <1>4, <1>5

\* A step that gives nothing to a reader keeps what was read.
LEMMA ReadSame ==
    ASSUME PacketInv, UNCHANGED read
    PROVE  /\ ReadOnce'
           /\ \A c \in Conns : \A p \in Packets : HasRead(c, p)' <=> HasRead(c, p)
BY DEF PacketInv, ReadOnce, HasRead

\* Every action of a datagram's way keeps PacketInv.
LEMMA ReceiverStep ==
    ASSUME PacketInv, NEW c \in Conns, Receiver(c)
    PROVE  PacketInv'
<1> USE DEF PacketInv, Packets, netVars, servVars
<1>1. ASSUME NEW d \in Dgrams, ReceiveMessage(c, d)
      PROVE  PacketInv'
  <2>1. /\ d \in transit /\ Of[d] = c /\ transit' = transit \ {d}
        /\ msg' = msg \/ msg' = [msg EXCEPT ![c] = {d}]
        /\ UNCHANGED <<read, rpc, state>>
    BY <1>1 DEF ReceiveMessage
  <2>2. ~HasRead(c, d)
    BY <2>1 DEF ReadInv
  <2>3. Types' /\ OfferInv'
    <3>1. {d} \in SUBSET Dgrams /\ msg \in [Conns -> SUBSET Dgrams]
      BY DEF Types
    <3>2. [msg EXCEPT ![c] = {d}] \in [Conns -> SUBSET Dgrams]
      BY ONLY <3>1, c \in Conns
    <3>3. msg' \in [Conns -> SUBSET Dgrams]
      BY <2>1, <3>1, <3>2
    <3> QED
      BY <2>1, <3>3 DEF Types, OfferInv
  <2>4. ReadInv' /\ ReadOnce'
    BY <2>1, ReadSame DEF ReadInv
  <2>5. HeldInv'
    <3> SUFFICES ASSUME NEW b \in Conns, NEW e \in msg'[b]
                 PROVE  Of[e] = b /\ e \notin transit' /\ ~HasRead(b, e)'
      BY DEF HeldInv
    <3>1. e \in Dgrams /\ (e \in msg[b] \/ (b = c /\ e = d))
      BY <2>1 DEF Types
    <3>2. HasRead(b, e)' <=> HasRead(b, e)
      BY <2>1, <3>1, ReadSame
    <3> QED
      BY <2>1, <2>2, <3>1, <3>2 DEF HeldInv
  <2> QED
    BY <2>3, <2>4, <2>5
<1>2. CASE OfferDgram(c)
  <2>1. PICK d \in msg[c] : read' = [read EXCEPT ![c] = Append(@, d)]
    BY <1>2 DEF OfferDgram, HandlerReads
  <2>2. msg' = [msg EXCEPT ![c] = {}] /\ UNCHANGED <<transit, rpc, state>>
    BY <1>2 DEF OfferDgram, HandlerReads, Nothing
  <2>3. d \in Dgrams /\ Of[d] = c /\ d \notin transit /\ ~HasRead(c, d)
    BY <2>1 DEF HeldInv, Types
  <2>4. Types' /\ OfferInv' /\ ReadOnce'
    BY <2>1, <2>2, <2>3, ReadNew DEF Types, OfferInv
  <2>5. ReadInv'
    <3> SUFFICES ASSUME NEW b \in Conns, NEW p \in Packets, HasRead(b, p)'
                 PROVE  /\ Of[p] = b
                        /\ p \in Dgrams => p \notin transit'
                        /\ p \in Streams => state'[p] = "complete" /\ rpc'[p] = "exited"
      BY DEF ReadInv
    <3>1. HasRead(b, p) \/ (b = c /\ p = d)
      BY <2>1, <2>3, ReadNew
    <3> QED
      BY <2>2, <2>3, <3>1, KindsDiffer DEF ReadInv
  <2>6. HeldInv'
    <3> SUFFICES ASSUME NEW b \in Conns, NEW e \in msg'[b]
                 PROVE  Of[e] = b /\ e \notin transit /\ ~HasRead(b, e)'
      BY <2>2 DEF HeldInv
    <3>1. b # c /\ e \in msg[b] /\ e \in Dgrams
      BY <2>2 DEF Types
    <3> QED
      <4>1. Of[e] = b /\ e \notin transit /\ ~HasRead(b, e)
        BY <3>1 DEF HeldInv
      <4>2. e \in Packets
        BY <3>1
      <4>3. HasRead(b, e)' => HasRead(b, e) \/ (b = c /\ e = d)
        BY <2>1, <2>3, <4>2, ReadNew
      <4> QED
        BY <3>1, <4>1, <4>3
  <2> QED
    BY <2>4, <2>5, <2>6
<1>3. CASE ReceiverExits(c) \/ AcceptorExits(c)
  <2>1. UNCHANGED <<msg, transit, rpc, state, read>>
    BY <1>3 DEF ReceiverExits, AcceptorExits
  <2> QED
    BY <2>1, ReadSame DEF Types, HeldInv, ReadInv, OfferInv
<1> QED
  BY <1>1, <1>2, <1>3 DEF Receiver

\* Every action of a stream's way keeps PacketInv.
LEMMA StreamStep ==
    ASSUME PacketInv, NEW x \in Streams, Stream(x)
    PROVE  PacketInv'
<1> USE DEF PacketInv, Packets, netVars, servVars
<1>1. CASE AcceptUniStream(x) \/ ReadAll(x)
  <2>1. /\ UNCHANGED <<msg, transit, state, read>>
        /\ rpc[x] \in {"none", "reading"}
        /\ \E to \in {"reading", "offer", "exited"} :
              /\ rpc' = [rpc EXCEPT ![x] = to]
              /\ to = "offer" => state[x] = "complete"
    BY <1>1 DEF AcceptUniStream, ReadAll
  <2>2. Types' /\ OfferInv'
    BY <2>1 DEF Types, OfferInv
  <2>3. HeldInv' /\ ReadOnce'
    BY <2>1, ReadSame DEF HeldInv, Types
  <2>4. ReadInv'
    BY <2>1, ReadSame DEF ReadInv, Types
  <2> QED
    BY <2>2, <2>3, <2>4
<1>2. CASE OfferStream(x)
  <2>1. /\ read' = [read EXCEPT ![Of[x]] = Append(@, x)]
        /\ rpc' = [rpc EXCEPT ![x] = "exited"] /\ rpc[x] = "offer"
        /\ UNCHANGED <<msg, transit, state>>
    BY <1>2 DEF OfferStream, HandlerReads
  <2>2. Of[x] \in Conns /\ x \in Packets
    BY OfIsFunction
  <2>3. ~HasRead(Of[x], x) /\ state[x] = "complete"
    BY <2>1, <2>2 DEF ReadInv, OfferInv
  <2>4. Types' /\ OfferInv' /\ ReadOnce'
    BY <2>1, <2>2, <2>3, ReadNew DEF Types, OfferInv
  <2>5. ReadInv'
    <3> SUFFICES ASSUME NEW b \in Conns, NEW p \in Packets, HasRead(b, p)'
                 PROVE  /\ Of[p] = b
                        /\ p \in Dgrams => p \notin transit'
                        /\ p \in Streams => state'[p] = "complete" /\ rpc'[p] = "exited"
      BY DEF ReadInv
    <3>1. HasRead(b, p) \/ (b = Of[x] /\ p = x)
      BY <2>1, <2>2, <2>3, ReadNew
    <3> QED
      BY <2>1, <2>3, <3>1, KindsDiffer DEF ReadInv, Types
  <2>6. HeldInv'
    <3> SUFFICES ASSUME NEW b \in Conns, NEW e \in msg[b]
                 PROVE  Of[e] = b /\ e \notin transit /\ ~HasRead(b, e)'
      BY <2>1 DEF HeldInv
    <3>1. e \in Dgrams /\ e # x
      BY KindsDiffer DEF Types
    <3>2. HasRead(b, e)' => HasRead(b, e)
      BY <2>1, <2>2, <2>3, <3>1, ReadNew
    <3> QED
      BY <3>2 DEF HeldInv
  <2> QED
    BY <2>4, <2>5, <2>6
<1> QED
  BY <1>1, <1>2 DEF Stream

\* Every action keeps PacketInv.
LEMMA PacketStep == PacketInv /\ [Next]_vars => PacketInv'
<1> SUFFICES ASSUME PacketInv, [Next]_vars
             PROVE  PacketInv'
  OBVIOUS
<1>0. ASSUME UNCHANGED <<msg, transit, rpc, state, read>>
      PROVE  PacketInv'
  BY <1>0 DEF PacketInv, Types, HeldInv, ReadInv, OfferInv, ReadOnce, HasRead
<1>1. ASSUME NEW c \in Conns, Server(c)
      PROVE  PacketInv'
  <2>1. UNCHANGED <<msg, transit, rpc, state, read>>
    BY <1>1 DEF Server, Accept, HandlerStart, HandlerExits, netVars, recvVars
  <2> QED
    BY <1>0, <2>1
<1>2. CASE Network
  <2>1. /\ UNCHANGED <<msg, rpc, read>> /\ transit' \subseteq transit
        /\ \A x \in Streams : state[x] = "complete" => state'[x] = "complete"
        /\ state' \in [Streams -> {"unopened", "open", "complete", "reset"}]
    <3>1. UNCHANGED <<msg, rpc, read>> /\ transit' \subseteq transit
      BY <1>2 DEF Network, StreamOpens, StreamEnds, DgramLost, ConnEnds, servVars, recvVars
    <3>2. \/ state' = state
          \/ \E x \in Streams : /\ state[x] # "complete"
                               /\ \E to \in {"open", "complete", "reset"} :
                                      state' = [state EXCEPT ![x] = to]
      BY <1>2 DEF Network, StreamOpens, StreamEnds, DgramLost, ConnEnds
    <3> QED
      BY <3>1, <3>2 DEF PacketInv, Types
  <2>2. Types' /\ OfferInv'
    BY <2>1 DEF PacketInv, Types, OfferInv
  <2>3. HeldInv' /\ ReadOnce'
    BY <2>1, ReadSame DEF PacketInv, Types, HeldInv, Packets
  <2>4. ReadInv'
    BY <2>1, ReadSame DEF PacketInv, ReadInv
  <2> QED
    BY <2>2, <2>3, <2>4 DEF PacketInv
<1>3. CASE Cancel \/ AcceptFails \/ StartReturns \/ UNCHANGED vars
  BY <1>0, <1>3 DEF Cancel, AcceptFails, StartReturns, vars, netVars, servVars, recvVars
<1> QED
  BY <1>1, <1>2, <1>3, ReceiverStep, StreamStep DEF Next

\* Every packet reaches the reader of its own connection, at most once, and a
\* stream's packet only if the whole stream arrived (WholeAndOnce).
THEOREM WholeAndOnceHolds == Spec => []WholeAndOnce
<1>1. Init => PacketInv
  BY DEF Init, PacketInv, Types, HeldInv, ReadInv, OfferInv, ReadOnce, HasRead, Nothing
<1>2. PacketInv => WholeAndOnce
  BY DEF PacketInv, Types, ReadInv, ReadOnce, HasRead, WholeAndOnce
<1> QED
  BY <1>1, <1>2, PacketStep, PTL DEF Spec
=============================================================================

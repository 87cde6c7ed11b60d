-------------------------- MODULE QuicSenderProofs --------------------------
(***************************************************************************)
(* Proofs about QuicSender, for any window, channel capacity, transport    *)
(* mode and number of packets.                                             *)
(***************************************************************************)
EXTENDS QuicSender, FunctionTheorems, FiniteSetTheorems, TLAPS

\* The packet that the pacing loop has taken and not yet booked.
Unbooked == IF ppc \in {"write", "wait", "add"} THEN {sent} ELSE {}

\* The types of the variables; SendMessage holds the packet that waits in it.
TypeOK ==
    /\ ppc \in {"select", "ask", "write", "wait", "add"}
    /\ sent \in 0..MaxPkts /\ Unbooked \subseteq Pkts
    /\ inFlight \subseteq Pkts /\ told \subseteq Pkts /\ given \subseteq Pkts
    /\ outgoing = (IF ppc = "wait" THEN {sent} ELSE {}) /\ network \subseteq Pkts /\ lost \subseteq Pkts
    /\ kpc \in {"run", "callback", "ended"} /\ acked \in 0..MaxPkts
    /\ kpc = "callback" => acked \in Pkts
    /\ ackedPkts \in Seq(Pkts) /\ received \subseteq Pkts

\* The acknowledged packets that the generator has not received yet: those in
\* the channel and the one whose callback runs.
Queued   == {ackedPkts[i] : i \in 1..Len(ackedPkts)}
Called   == IF kpc = "callback" THEN {acked} ELSE {}
Pending  == Queued \union Called

\* Every packet is at one place of the connection and the generator only, and the
\* one that SendMessage has not returned for is at none of the later ones.
Places ==
    /\ \A n \in network \union lost \union Pending \union received : n <= sent
    /\ ppc \in {"write", "wait"}
            => sent \notin network \union lost \union Pending \union received
    /\ network \intersect (lost \union Pending \union received) = {}
    /\ Pending \intersect (lost \union received) = {}
    /\ Queued \intersect Called = {}
    /\ \A i, j \in 1..Len(ackedPkts) : i # j => ackedPkts[i] # ackedPkts[j]

\* tx counts every packet that is not yet reported or lost, but for the one that
\* is about to be booked and those that it gave up, and there is room for the
\* former in the window.
Window ==
    /\ network \union Pending \subseteq inFlight \union Unbooked \union given
    /\ Cardinality(inFlight \union Unbooked) <= Cwnd

\* A report covers all that earlier ones covered, and a packet that a report
\* covered before it was booked has no predecessor of that kind in flight.
Phantoms ==
    /\ told \subseteq received
    /\ \A n \in inFlight : n <= sent
    /\ Unbooked \intersect inFlight = {}
    /\ Unbooked \intersect told # {} => inFlight \intersect told = {}
    /\ \A m, n \in inFlight \intersect told : m = n

-----------------------------------------------------------------------------
(* Lemmas.                                                                 *)

\* Sets of packets are finite.
LEMMA PktsFinite ==
    ASSUME NEW S, S \subseteq Pkts
    PROVE  IsFiniteSet(S) /\ Cardinality(S) \in Nat
<1>1. IsFiniteSet(Pkts)
  BY BoundsAreNat, FS_Interval DEF Pkts
<1> QED
  BY <1>1, FS_Subset, FS_CardinalityType

\* The channel after a send.
LEMMA QueuedAppend ==
    ASSUME TypeOK, NEW x \in Pkts, ackedPkts' = Append(ackedPkts, x)
    PROVE  /\ ackedPkts' \in Seq(Pkts)
           /\ Len(ackedPkts') = Len(ackedPkts) + 1 /\ ackedPkts'[Len(ackedPkts) + 1] = x
           /\ \A i \in 1..Len(ackedPkts) : ackedPkts'[i] = ackedPkts[i]
           /\ Queued' = Queued \union {x}
<1>1. ackedPkts \in Seq(Pkts)
  BY DEF TypeOK
<1>2. /\ ackedPkts' \in Seq(Pkts)
      /\ Len(ackedPkts') = Len(ackedPkts) + 1 /\ ackedPkts'[Len(ackedPkts) + 1] = x
      /\ \A i \in 1..Len(ackedPkts) : ackedPkts'[i] = ackedPkts[i]
  BY <1>1
<1>3. Len(ackedPkts) \in Nat
  BY <1>1
<1>4. \A i \in 1..Len(ackedPkts') : i \in 1..Len(ackedPkts) \/ i = Len(ackedPkts) + 1
  BY <1>2, <1>3
<1>5. 1..Len(ackedPkts) \subseteq 1..Len(ackedPkts') /\ Len(ackedPkts) + 1 \in 1..Len(ackedPkts')
  BY <1>2, <1>3
<1>6. Queued' \subseteq Queued \union {x}
  BY <1>2, <1>4 DEF Queued
<1>7. Queued \union {x} \subseteq Queued'
  BY <1>2, <1>5 DEF Queued
<1> QED
  BY <1>2, <1>6, <1>7

\* The channel after a receive.
LEMMA QueuedTail ==
    ASSUME TypeOK, ackedPkts # <<>>, ackedPkts' = Tail(ackedPkts),
           \A i, j \in 1..Len(ackedPkts) : i # j => ackedPkts[i] # ackedPkts[j]
    PROVE  /\ ackedPkts' \in Seq(Pkts) /\ Head(ackedPkts) \in Pkts
           /\ Queued' = Queued \ {Head(ackedPkts)} /\ Head(ackedPkts) \in Queued
           /\ \A i, j \in 1..Len(ackedPkts') : i # j => ackedPkts'[i] # ackedPkts'[j]
<1>1. ackedPkts \in Seq(Pkts)
  BY DEF TypeOK
<1>2. /\ ackedPkts' \in Seq(Pkts) /\ Head(ackedPkts) \in Pkts
      /\ Len(ackedPkts) \in Nat /\ Len(ackedPkts) >= 1 /\ Head(ackedPkts) = ackedPkts[1]
      /\ Len(ackedPkts') = Len(ackedPkts) - 1
      /\ \A i \in 1..Len(ackedPkts') : ackedPkts'[i] = ackedPkts[i + 1]
  BY <1>1
<1>3. \A i \in 1..Len(ackedPkts') : i + 1 \in 1..Len(ackedPkts) /\ i + 1 # 1
  BY <1>2
<1>4. \A i \in 1..Len(ackedPkts) : i = 1 \/ (i - 1 \in 1..Len(ackedPkts') /\ (i - 1) + 1 = i)
  BY <1>2
<1>5. 1 \in 1..Len(ackedPkts)
  BY <1>2
<1>6. Head(ackedPkts) \in Queued
  BY <1>2, <1>5 DEF Queued
<1>7. Queued' \subseteq Queued \ {Head(ackedPkts)}
  <2> SUFFICES ASSUME NEW i \in 1..Len(ackedPkts')
               PROVE  ackedPkts'[i] \in Queued \ {Head(ackedPkts)}
    BY DEF Queued
  <2>1. ackedPkts'[i] = ackedPkts[i + 1] /\ i + 1 \in 1..Len(ackedPkts) /\ i + 1 # 1
    BY <1>2, <1>3
  <2>2. ackedPkts[i + 1] # ackedPkts[1]
    BY <1>5, <2>1
  <2> QED
    BY <1>2, <2>1, <2>2 DEF Queued
<1>8. Queued \ {Head(ackedPkts)} \subseteq Queued'
  <2> SUFFICES ASSUME NEW i \in 1..Len(ackedPkts), ackedPkts[i] # Head(ackedPkts)
               PROVE  ackedPkts[i] \in Queued'
    BY DEF Queued
  <2>1. i - 1 \in 1..Len(ackedPkts') /\ (i - 1) + 1 = i
    BY <1>2, <1>4
  <2>2. ackedPkts'[i - 1] = ackedPkts[i]
    BY <1>2, <2>1
  <2> QED
    BY <2>1, <2>2 DEF Queued
<1>9. \A i, j \in 1..Len(ackedPkts') : i # j => ackedPkts'[i] # ackedPkts'[j]
  <2> SUFFICES ASSUME NEW i \in 1..Len(ackedPkts'), NEW j \in 1..Len(ackedPkts'), i # j
               PROVE  ackedPkts'[i] # ackedPkts'[j]
    OBVIOUS
  <2>1. i + 1 # j + 1
    OBVIOUS
  <2> QED
    BY <1>2, <1>3, <2>1
<1> QED
  BY <1>2, <1>6, <1>7, <1>8, <1>9

\* No two packets wait at the same place of the channel, so the acknowledged
\* packets that wait are as many as the channel and the callback hold.
LEMMA PendingCount ==
    ASSUME TypeOK, Places, kpc = "callback", NEW S, S \subseteq Pkts, Pending \subseteq S
    PROVE  Len(ackedPkts) + 1 <= Cardinality(S)
<1> DEFINE n == Len(ackedPkts)
           f == [i \in 1..(n + 1) |-> IF i = n + 1 THEN acked ELSE ackedPkts[i]]
<1>1. n \in Nat
  BY DEF TypeOK
<1>2. \A i \in 1..(n + 1) : i # n + 1 => i \in 1..n
  BY <1>1
<1>3. f \in [1..(n + 1) -> S]
  BY <1>2 DEF Pending, Queued, Called
<1>4. ASSUME NEW i \in 1..(n + 1), NEW j \in 1..(n + 1), f[i] = f[j]
      PROVE  i = j
  <2>1. CASE i = n + 1 /\ j # n + 1
    <3>1. f[j] \in Queued /\ f[i] \in Called
      BY <1>2, <2>1 DEF Queued, Called
    <3> QED
      BY <1>4, <3>1 DEF Places
  <2>2. CASE i # n + 1 /\ j = n + 1
    <3>1. f[i] \in Queued /\ f[j] \in Called
      BY <1>2, <2>2 DEF Queued, Called
    <3> QED
      BY <1>4, <3>1 DEF Places
  <2>3. CASE i # n + 1 /\ j # n + 1
    BY <1>2, <1>4, <2>3 DEF Places
  <2> QED
    BY <2>1, <2>2, <2>3
<1> HIDE DEF f
<1>5. f \in Injection(1..(n + 1), S)
  BY <1>3, <1>4 DEF Injection, IsInjective
<1>6. Cardinality(1..(n + 1)) = n + 1
  BY <1>1, FS_Interval
<1>7. IsFiniteSet(S)
  BY PktsFinite
<1> QED
  BY <1>5, <1>6, <1>7, FS_Injection

-----------------------------------------------------------------------------
(* Types.                                                                  *)

\* Every action keeps the types.
LEMMA TypeStep ==
    ASSUME TypeOK, [Next]_vars
    PROVE  TypeOK'
<1> USE DEF sendVars, connVars, genVars, rtcpVars
<1>1. CASE Wake
  BY <1>1 DEF TypeOK, Wake, Unbooked
<1>2. CASE AskNo
  BY <1>2 DEF TypeOK, AskNo, Unbooked
<1>3. CASE AskOk
  <2>1. sent + 1 \in Pkts /\ sent + 1 \in 0..MaxPkts
    BY <1>3, BoundsAreNat DEF TypeOK, AskOk, Pkts
  <2> QED
    BY <1>3, <2>1 DEF TypeOK, AskOk, Unbooked
<1>4. CASE WriteStream
  BY <1>4 DEF TypeOK, WriteStream, Unbooked
<1>5. CASE WriteDgram
  BY <1>5 DEF TypeOK, WriteDgram, Unbooked
<1>6. CASE Add
  BY <1>6 DEF TypeOK, Add, Unbooked
<1>7. CASE ConnTakes
  <2>1. ppc = "wait" /\ outgoing = {sent} /\ sent \in Pkts
    BY <1>7 DEF TypeOK, ConnTakes, Unbooked
  <2> QED
    BY <1>7, <2>1 DEF TypeOK, ConnTakes, Unbooked
<1>8. CASE Callback
  <2>1. acked \in Pkts /\ ackedPkts' = Append(ackedPkts, acked)
    BY <1>8 DEF TypeOK, Callback
  <2>2. ackedPkts' \in Seq(Pkts)
    BY <2>1, QueuedAppend
  <2> QED
    BY <1>8, <2>2, BoundsAreNat DEF TypeOK, Callback, Unbooked
<1>9. CASE ConnEnds
  <2>1. ppc' = IF ppc = "wait" THEN "add" ELSE ppc
    BY <1>9 DEF TypeOK, ConnEnds
  <2> QED
    BY <1>9, <2>1 DEF TypeOK, ConnEnds, Unbooked
<1>10. ASSUME NEW n \in Pkts, AckArrives(n)
       PROVE  TypeOK'
  <2>1. n \in 0..MaxPkts
    BY BoundsAreNat DEF Pkts
  <2> QED
    BY <1>10, <2>1 DEF TypeOK, AckArrives, Unbooked
<1>11. ASSUME NEW n \in Pkts, Lose(n)
       PROVE  TypeOK'
  BY <1>11 DEF TypeOK, Lose, Unbooked
<1>12. CASE GeneratorTakes
  <2>1. Head(ackedPkts) \in Pkts /\ Tail(ackedPkts) \in Seq(Pkts)
    BY <1>12 DEF TypeOK, GeneratorTakes
  <2> QED
    BY <1>12, <2>1 DEF TypeOK, GeneratorTakes, Unbooked
<1>13. CASE ReadLocal
  <2>1. inFlight' \subseteq inFlight /\ given' \subseteq given \union inFlight
    BY <1>13 DEF ReadLocal
  <2> QED
    BY <1>13, <2>1 DEF TypeOK, ReadLocal, Unbooked
<1>14. CASE Notify
  BY <1>14 DEF TypeOK, Notify, Unbooked
<1>15. CASE UNCHANGED <<sendVars, connVars, ackedPkts, received>>
  BY <1>15 DEF TypeOK, Unbooked
<1> QED
  BY <1>1, <1>2, <1>3, <1>4, <1>5, <1>6, <1>7, <1>8, <1>9, <1>10, <1>11, <1>12,
     <1>13, <1>14, <1>15
     DEF Next, vars, NetworkReads, NetworkExits, ReadRemote, Cancel, ReaderExits,
         GeneratorExits

-----------------------------------------------------------------------------
(* Where the packets are.                                                  *)

\* A step of the pacing loop between packets, or of a goroutine that holds none.
LEMMA PlacesSame ==
    ASSUME Places, UNCHANGED <<sent, network, lost, kpc, acked, ackedPkts, received>>,
           ppc' \in {"write", "wait"} => ppc \in {"write", "wait"}
    PROVE  Places'
<1>1. UNCHANGED <<Queued, Called, Pending>>
  BY DEF Queued, Called, Pending
<1> QED
  BY <1>1 DEF Places

\* Every action keeps the packets at their places.
LEMMA PlacesStep ==
    ASSUME TypeOK, TypeOK', Places, [Next]_vars
    PROVE  Places'
<1> USE DEF sendVars, connVars, genVars, rtcpVars
<1>1. CASE Wake \/ AskNo \/ WriteStream \/ Add \/ ReadLocal \/ Notify
  BY <1>1, PlacesSame DEF Wake, AskNo, WriteStream, Add, ReadLocal, Notify
<1>2. CASE AskOk
  <2>1. /\ sent' = sent + 1
        /\ UNCHANGED <<network, lost, received, ackedPkts, Queued, Called, Pending>>
    BY <1>2 DEF AskOk, Queued, Called, Pending
  <2>2. \A n \in network \union lost \union Pending \union received :
            n \in Nat /\ n <= sent
    BY BoundsAreNat DEF Places, TypeOK, Pending, Queued, Called, Pkts
  <2>3. sent \in Nat
    BY BoundsAreNat DEF TypeOK
  <2> QED
    BY <2>1, <2>2, <2>3 DEF Places
<1>3. CASE WriteDgram
  BY <1>3, PlacesSame DEF WriteDgram
<1>4. CASE ConnTakes
  <2>1. /\ ppc = "wait" /\ outgoing = {sent}
    BY <1>4 DEF TypeOK, ConnTakes
  <2>2. /\ network' = network \union {sent} /\ ppc' = "add"
        /\ UNCHANGED <<sent, lost, received, ackedPkts, Queued, Called, Pending>>
    BY <1>4, <2>1 DEF ConnTakes, Queued, Called, Pending
  <2>3. sent <= sent
    BY BoundsAreNat DEF TypeOK
  <2> QED
    BY <2>1, <2>2, <2>3 DEF Places
<1>5. CASE Callback
  <2>1. /\ kpc = "callback" /\ acked \in Pkts /\ Called = {acked} /\ Called' = {}
        /\ ackedPkts' = Append(ackedPkts, acked)
        /\ UNCHANGED <<sent, ppc, network, lost, received>>
    BY <1>5 DEF TypeOK, Callback, Called
  <2>2. /\ Len(ackedPkts') = Len(ackedPkts) + 1 /\ Len(ackedPkts) \in Nat
        /\ ackedPkts'[Len(ackedPkts) + 1] = acked
        /\ \A i \in 1..Len(ackedPkts) : ackedPkts'[i] = ackedPkts[i]
        /\ Queued' = Queued \union {acked}
    BY <2>1, QueuedAppend DEF TypeOK
  <2>3. Pending' = Pending
    BY <2>1, <2>2 DEF Pending
  <2>4. \A i, j \in 1..Len(ackedPkts') : i # j => ackedPkts'[i] # ackedPkts'[j]
    <3> SUFFICES ASSUME NEW i \in 1..Len(ackedPkts'), NEW j \in 1..Len(ackedPkts'), i # j
                 PROVE  ackedPkts'[i] # ackedPkts'[j]
      OBVIOUS
    <3>1. \A k \in 1..Len(ackedPkts) : ackedPkts[k] # acked
      BY <2>1 DEF Places, Queued
    <3>2. /\ i \in 1..Len(ackedPkts) \/ i = Len(ackedPkts) + 1
          /\ j \in 1..Len(ackedPkts) \/ j = Len(ackedPkts) + 1
      BY <2>2
    <3> QED
      BY <2>2, <3>1, <3>2 DEF Places
  <2> QED
    BY <2>1, <2>2, <2>3, <2>4 DEF Places
<1>6. CASE ConnEnds
  <2>1. /\ network' = {}
        /\ ppc' \in {"write", "wait"} => ppc \in {"write", "wait"}
        /\ UNCHANGED <<sent, lost, received, ackedPkts, Queued, Called, Pending>>
    BY <1>6 DEF ConnEnds, Queued, Called, Pending
  <2> QED
    BY <2>1 DEF Places
<1>7. ASSUME NEW n \in Pkts, AckArrives(n)
      PROVE  Places'
  <2>1. /\ n \in network /\ network' = network \ {n} /\ Called' = {n} /\ Called = {}
        /\ UNCHANGED <<sent, ppc, lost, received, ackedPkts, Queued>>
    BY <1>7 DEF AckArrives, Called, Queued
  <2>2. Pending' = Pending \union {n}
    BY <2>1 DEF Pending
  <2> QED
    BY <2>1, <2>2 DEF Places, Pending
<1>8. ASSUME NEW n \in Pkts, Lose(n)
      PROVE  Places'
  <2>1. /\ n \in network /\ network' = network \ {n} /\ lost' = lost \union {n}
        /\ UNCHANGED <<sent, ppc, received, ackedPkts, Queued, Called, Pending>>
    BY <1>8 DEF Lose, Called, Queued, Pending
  <2> QED
    BY <2>1 DEF Places
<1>9. CASE GeneratorTakes
  <2> DEFINE h == Head(ackedPkts)
  <2>1. /\ ackedPkts # <<>> /\ ackedPkts' = Tail(ackedPkts)
        /\ received' = received \union {h}
        /\ UNCHANGED <<sent, ppc, network, lost, Called>>
    BY <1>9 DEF GeneratorTakes, Called
  <2>2. /\ h \in Queued /\ Queued' = Queued \ {h}
        /\ \A i, j \in 1..Len(ackedPkts') : i # j => ackedPkts'[i] # ackedPkts'[j]
    BY <2>1, QueuedTail DEF Places
  <2>3. h \notin Called /\ h \in Pending
    BY <2>2 DEF Places, Pending
  <2>4. Pending' = Pending \ {h}
    BY <2>1, <2>2, <2>3 DEF Pending
  <2> HIDE DEF h
  <2> QED
    BY <2>1, <2>2, <2>3, <2>4 DEF Places
<1>10. CASE UNCHANGED <<sendVars, connVars, ackedPkts, received>>
  BY <1>10, PlacesSame
<1> QED
  BY <1>1, <1>2, <1>3, <1>4, <1>5, <1>6, <1>7, <1>8, <1>9, <1>10
     DEF Next, vars, NetworkReads, NetworkExits, ReadRemote, Cancel, ReaderExits,
         GeneratorExits

-----------------------------------------------------------------------------
(* The window and the phantoms.                                            *)

\* A step after which no more is to be counted, and no less is counted.
LEMMA WindowSame ==
    ASSUME TypeOK, Window, UNCHANGED <<inFlight, given, Unbooked>>,
           (network \union Pending)' \subseteq network \union Pending
    PROVE  Window'
BY DEF Window

\* Every action keeps tx within the window.
LEMMA WindowStep ==
    ASSUME TypeOK, TypeOK', Places, Window, [Next]_vars
    PROVE  Window'
<1> USE DEF sendVars, connVars, genVars, rtcpVars
<1>1. CASE Wake \/ AskNo \/ WriteStream \/ WriteDgram \/ Notify
  <2>1. UNCHANGED <<inFlight, given, Unbooked, network, Pending>>
    BY <1>1 DEF Wake, AskNo, WriteStream, WriteDgram, Notify, Unbooked, Pending, Queued,
                Called
  <2> QED
    BY <2>1, WindowSame
<1>2. CASE AskOk
  <2>1. /\ UNCHANGED <<inFlight, given, network, Pending>> /\ Unbooked = {}
        /\ Unbooked' = {sent'} /\ Cardinality(inFlight) < Cwnd
    BY <1>2 DEF AskOk, Unbooked, Pending, Queued, Called
  <2>2. IsFiniteSet(inFlight) /\ Cardinality(inFlight) \in Nat
    BY PktsFinite DEF TypeOK
  <2>3. /\ IsFiniteSet(inFlight \union {sent'})
        /\ Cardinality(inFlight \union {sent'}) <= Cardinality(inFlight) + 1
    BY <2>2, FS_AddElement
  <2>4. Cardinality(inFlight \union {sent'}) \in Nat
    BY <2>3, FS_CardinalityType
  <2>5. Cardinality(inFlight \union {sent'}) <= Cwnd
    BY <2>1, <2>2, <2>3, <2>4, BoundsAreNat
  <2> QED
    BY <2>1, <2>5 DEF Window
<1>3. CASE Add
  <2>1. /\ inFlight' = inFlight \union Unbooked /\ Unbooked' = {}
        /\ UNCHANGED <<given, network, Pending>>
    BY <1>3 DEF Add, Unbooked, Pending, Queued, Called
  <2> QED
    BY <2>1 DEF Window
<1>4. CASE ConnTakes
  <2>1. ppc = "wait" /\ outgoing = {sent}
    BY <1>4 DEF TypeOK, ConnTakes
  <2>2. /\ network' = network \union Unbooked
        /\ UNCHANGED <<inFlight, given, Unbooked, Pending>>
    BY <1>4, <2>1 DEF ConnTakes, Unbooked, Pending, Queued, Called
  <2> QED
    BY <2>2 DEF Window
<1>5. CASE Callback
  <2>1. /\ acked \in Pkts /\ Called = {acked} /\ Called' = {}
        /\ ackedPkts' = Append(ackedPkts, acked)
        /\ UNCHANGED <<inFlight, given, Unbooked, network>>
    BY <1>5 DEF TypeOK, Callback, Called, Unbooked
  <2>2. Queued' = Queued \union {acked}
    BY <2>1, QueuedAppend
  <2> QED
    BY <2>1, <2>2, WindowSame DEF Pending
<1>6. CASE ConnEnds
  <2>1. ppc' = IF ppc = "wait" THEN "add" ELSE ppc
    BY <1>6 DEF TypeOK, ConnEnds
  <2>2. network' = {} /\ UNCHANGED <<inFlight, given, Unbooked>>
    BY <1>6, <2>1 DEF ConnEnds, Unbooked
  <2>3. Pending' = Pending
    BY <1>6 DEF ConnEnds, Pending, Queued, Called
  <2> QED
    BY <2>2, <2>3, WindowSame
<1>7. ASSUME NEW n \in Pkts, AckArrives(n)
      PROVE  Window'
  <2>1. /\ n \in network /\ network' = network \ {n} /\ Called' = {n} /\ Called = {}
        /\ UNCHANGED <<Queued, inFlight, given, Unbooked>>
    BY <1>7 DEF AckArrives, Called, Queued, Unbooked
  <2> QED
    BY <2>1, WindowSame DEF Pending
<1>8. ASSUME NEW n \in Pkts, Lose(n)
      PROVE  Window'
  <2>1. network' = network \ {n} /\ UNCHANGED <<Pending, inFlight, given, Unbooked>>
    BY <1>8 DEF Lose, Pending, Queued, Called, Unbooked
  <2> QED
    BY <2>1, WindowSame
<1>9. CASE GeneratorTakes
  <2>1. /\ ackedPkts # <<>> /\ ackedPkts' = Tail(ackedPkts)
        /\ UNCHANGED <<network, Called, inFlight, given, Unbooked>>
    BY <1>9 DEF GeneratorTakes, Called, Unbooked
  <2>2. Queued' \subseteq Queued
    BY <2>1, QueuedTail DEF Places
  <2> QED
    BY <2>1, <2>2, WindowSame DEF Pending
<1>10. CASE ReadLocal
  <2>1. UNCHANGED <<network, Pending, Unbooked>>
    BY <1>10 DEF ReadLocal, Pending, Queued, Called, Unbooked
  <2>2. PICK gone \in SUBSET (inFlight \ received) :
             /\ inFlight' = inFlight \ (received \union gone)
             /\ given' = (given \union gone) \ (lost \union received)
    BY <1>10 DEF ReadLocal
  <2>3. /\ inFlight' \subseteq inFlight
        /\ network \union Pending \subseteq inFlight' \union Unbooked \union given'
    BY <2>2 DEF Window, Places
  <2>4. IsFiniteSet(inFlight \union Unbooked) /\ Cardinality(inFlight \union Unbooked) \in Nat
    BY PktsFinite DEF TypeOK
  <2>5. inFlight' \union Unbooked \subseteq inFlight \union Unbooked
    BY <2>3
  <2>6. /\ Cardinality(inFlight' \union Unbooked) <= Cardinality(inFlight \union Unbooked)
        /\ Cardinality(inFlight' \union Unbooked) \in Nat
    BY <2>4, <2>5, FS_Subset, FS_CardinalityType
  <2>7. Cardinality(inFlight' \union Unbooked) <= Cwnd
    BY <2>4, <2>6, BoundsAreNat DEF Window
  <2> QED
    BY <2>1, <2>3, <2>7 DEF Window
<1>11. CASE UNCHANGED <<sendVars, connVars, ackedPkts, received>>
  <2>1. UNCHANGED <<inFlight, given, Unbooked, network, Pending>>
    BY <1>11 DEF Unbooked, Pending, Queued, Called
  <2> QED
    BY <2>1, WindowSame
<1> QED
  BY <1>1, <1>2, <1>3, <1>4, <1>5, <1>6, <1>7, <1>8, <1>9, <1>10, <1>11
     DEF Next, vars, NetworkReads, NetworkExits, ReadRemote, Cancel, ReaderExits,
         GeneratorExits

\* Every action keeps the phantoms apart.
LEMMA PhantomStep ==
    ASSUME TypeOK, TypeOK', Places, Phantoms, [Next]_vars
    PROVE  Phantoms'
<1> USE DEF sendVars, connVars, genVars, rtcpVars
<1>1. CASE UNCHANGED <<sent, inFlight, told, received, Unbooked>>
  BY <1>1 DEF Phantoms
<1>2. CASE AskOk
  <2>1. /\ sent' = sent + 1 /\ Unbooked' = {sent + 1}
        /\ UNCHANGED <<inFlight, told, received>>
    BY <1>2 DEF AskOk, Unbooked
  <2>2. sent \in Nat /\ inFlight \subseteq Nat /\ received \subseteq Nat
    BY BoundsAreNat DEF TypeOK, Pkts
  <2>3. (\A n \in inFlight : n <= sent) /\ (\A n \in told : n <= sent)
    BY DEF Phantoms, Places
  <2>4. sent + 1 \notin inFlight /\ sent + 1 \notin told
    BY <2>2, <2>3
  <2>5. \A n \in inFlight : n <= sent + 1
    BY <2>2, <2>3
  <2> QED
    BY <2>1, <2>4, <2>5 DEF Phantoms
<1>3. CASE Add
  <2>1. /\ inFlight' = inFlight \union {sent} /\ Unbooked = {sent} /\ Unbooked' = {}
        /\ UNCHANGED <<sent, told, received>>
    BY <1>3 DEF Add, Unbooked
  <2>2. sent <= sent
    BY BoundsAreNat DEF TypeOK
  <2> QED
    BY <2>1, <2>2 DEF Phantoms
<1>4. CASE GeneratorTakes
  <2>1. received \subseteq received' /\ UNCHANGED <<sent, inFlight, told, Unbooked>>
    BY <1>4 DEF GeneratorTakes, Unbooked
  <2> QED
    BY <2>1 DEF Phantoms
<1>5. CASE ReadLocal
  <2>1. /\ inFlight' \subseteq inFlight \ received /\ told' = told \union received
        /\ UNCHANGED <<sent, received, Unbooked>>
    BY <1>5 DEF ReadLocal, Unbooked
  <2> QED
    BY <2>1 DEF Phantoms
<1>6. CASE ConnTakes
  <2>1. ppc = "wait"
    BY <1>6 DEF TypeOK, ConnTakes
  <2> QED
    BY <1>1, <1>6, <2>1 DEF ConnTakes, Unbooked
<1>7. CASE ConnEnds
  <2>1. ppc' = IF ppc = "wait" THEN "add" ELSE ppc
    BY <1>7 DEF TypeOK, ConnEnds
  <2> QED
    BY <1>1, <1>7, <2>1 DEF ConnEnds, Unbooked
<1>8. CASE Wake \/ AskNo \/ WriteStream \/ WriteDgram \/ Notify
  BY <1>1, <1>8 DEF Wake, AskNo, WriteStream, WriteDgram, Notify, Unbooked
<1>9. CASE UNCHANGED <<ppc, sent, inFlight, told, received>>
  BY <1>1, <1>9 DEF Unbooked
<1> QED
  BY <1>2, <1>3, <1>4, <1>5, <1>6, <1>7, <1>8, <1>9
     DEF Next, vars, Callback, AckArrives, Lose, NetworkReads, NetworkExits, ReadRemote,
         Cancel, ReaderExits, GeneratorExits

-----------------------------------------------------------------------------
(* The theorems.                                                           *)

Inv == TypeOK /\ Places /\ Window /\ Phantoms

\* Inv holds in every reachable state of the feedback loop.
LEMMA InvHolds == Spec => []Inv
<1>1. Init => Inv
  <2> SUFFICES ASSUME Init
               PROVE  Inv
    OBVIOUS
  <2> USE DEF Init
  <2>1. Queued = {} /\ Called = {} /\ Pending = {} /\ Unbooked = {}
    BY DEF Queued, Called, Pending, Unbooked
  <2>2. TypeOK
    BY <2>1, BoundsAreNat DEF TypeOK
  <2>3. Places
    BY <2>1 DEF Places
  <2>4. Window
    <3>1. inFlight \union Unbooked = {}
      BY <2>1
    <3>2. Cardinality(inFlight \union Unbooked) = 0
      BY <3>1, FS_EmptySet
    <3> QED
      BY <2>1, <3>2, BoundsAreNat DEF Window
  <2>5. Phantoms
    BY <2>1 DEF Phantoms
  <2> QED
    BY <2>2, <2>3, <2>4, <2>5 DEF Inv
<1>2. Inv /\ [Next]_vars => Inv'
  BY TypeStep, PlacesStep, WindowStep, PhantomStep DEF Inv
<1> QED
  BY <1>1, <1>2, PTL DEF Spec

\* Whatever happens behind the generator, also when it has left or nobody takes
\* its reports, a channel as large as the window, and the packets on their way that
\* tx gave up, has room whenever the connection runs a callback
\* (local_rfc8888.go:58 and 67-69).
THEOREM CallbackHasRoom == Spec => []CallbackNeverBlocks
<1>1. Inv => CallbackNeverBlocks
  <2> SUFFICES ASSUME Inv, Fits, kpc = "callback"
               PROVE  Len(ackedPkts) < AckCap
    BY DEF CallbackNeverBlocks, AckRoom
  <2> DEFINE S == inFlight \union Unbooked
             T == S \union Astray
  <2>1. S \subseteq Pkts /\ Astray \subseteq Pkts /\ Cardinality(S) <= Cwnd
    BY DEF Inv, TypeOK, Window, Astray
  <2>2. Pending \subseteq T
    BY DEF Inv, Window, Places, Astray
  <2> HIDE DEF S
  <2>3. /\ IsFiniteSet(S) /\ Cardinality(S) \in Nat
        /\ IsFiniteSet(Astray) /\ Cardinality(Astray) \in Nat
    BY <2>1, PktsFinite
  <2>4. Cardinality(T) <= Cardinality(S) + Cardinality(Astray) /\ Cardinality(T) \in Nat
    <3>1. T \subseteq Pkts
      BY <2>1
    <3>2. Cardinality(T) \in Nat /\ Cardinality(S \intersect Astray) \in Nat
      BY <2>1, <3>1, PktsFinite
    <3>3. Cardinality(T) = Cardinality(S) + Cardinality(Astray) - Cardinality(S \intersect Astray)
      BY <2>3, FS_Union
    <3> QED
      BY <2>3, <3>2, <3>3
  <2>5. Len(ackedPkts) + 1 <= Cardinality(T)
    BY <2>1, <2>2, PendingCount DEF Inv
  <2>6. Len(ackedPkts) \in Nat
    BY DEF Inv, TypeOK
  <2> HIDE DEF T
  <2> QED
    BY <2>1, <2>3, <2>4, <2>5, <2>6, BoundsAreNat DEF Fits
<1> QED
  BY <1>1, InvHolds, PTL

\* Of the packets that a report acknowledged, tx counts at most one as in flight:
\* the one that it was told of before AddTransmitted booked it
\* (sender_interceptor.go:316-321 against local_rfc8888.go:82-88).
THEOREM PhantomIsAlone == Spec => []OnePhantom
<1>1. Inv => OnePhantom
  <2> SUFFICES ASSUME Inv
               PROVE  Cardinality(inFlight \intersect told) <= 1
    BY DEF OnePhantom
  <2>1. CASE inFlight \intersect told = {}
    <3>1. Cardinality(inFlight \intersect told) = 0
      BY <2>1, FS_EmptySet
    <3> QED
      BY <3>1
  <2>2. CASE inFlight \intersect told # {}
    <3>1. PICK n \in inFlight \intersect told : TRUE
      BY <2>2
    <3>2. inFlight \intersect told = {n}
      BY <3>1 DEF Inv, Phantoms
    <3>3. Cardinality(inFlight \intersect told) = 1
      BY <3>2, FS_Singleton
    <3> QED
      BY <3>3
  <2> QED
    BY <2>1, <2>2
<1> QED
  BY <1>1, InvHolds, PTL

=============================================================================

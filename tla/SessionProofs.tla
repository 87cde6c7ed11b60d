---------------------------- MODULE SessionProofs ----------------------------
(***************************************************************************)
(* Proofs about Session, for any transports, window, buffers and number of *)
(* packets that meet the assumptions of that module.                       *)
(***************************************************************************)
EXTENDS Session, TLAPS

\* The types of the variables.
TypeOK ==
    /\ transport \in Transports /\ cancelled = FALSE
    /\ npc \in {"read", "offer"} /\ rpc \in {"select", "copy", "feed", "notify"}
    /\ buf \in Nat /\ mine \in Nat /\ copied \in Int /\ fed \in Int /\ left \in Nat
    /\ ppc \in {"select", "ask", "write", "add"} /\ sent \in Nat /\ acked \in Nat
    /\ wire \in Seq(Nat) /\ back \in Seq(Nat)
    /\ rcv \in Nat /\ hnd \in Nat /\ pkt \in Nat
    /\ lpc \in {"first", "storeFirst", "select", "store", "report", "write"}
    /\ fpc \in {"none", "select", "write"}
    /\ seen \in Nat /\ told \in Nat /\ out \in Nat

\* Number of packets (reports) that a place for one of them holds.
Holds(x) == IF x = 0 THEN 0 ELSE 1

\* Packets that loop, handle and receive hold.
AtLoop    == Holds(pkt)
AtHandle  == AtLoop + Holds(hnd)
AtReceive == AtHandle + Holds(rcv)

\* TCP, towards the server: every packet that was written and that rx has not
\* seen is at exactly one station, and they stand there in their order.
PacketsInLine ==
    /\ pkt # 0 <=> lpc \in {"storeFirst", "store"}
    /\ pkt # 0 => pkt = seen + 1
    /\ hnd # 0 => hnd = seen + AtLoop + 1
    /\ rcv # 0 => rcv = seen + AtHandle + 1
    /\ \A i \in 1..Len(wire) : wire[i] = seen + AtReceive + i
    /\ seen + AtReceive + Len(wire) = IF ppc = "add" THEN sent + 1 ELSE sent

\* Towards the sender: every report covers a packet that the one before did not.
ReportsInLine ==
    /\ told <= seen
    /\ MuFree => out = 0
    /\ ~MuFree => out # 0 /\ out = told
    /\ ~(lpc = "write" /\ fpc = "write")
    /\ \A i, j \in 1..Len(back) : i <= j => back[j] - back[i] >= j - i
    /\ \A i \in 1..Len(back) : back[i] >= buf + i
    /\ \A i \in 1..Len(back) : back[i] + (Len(back) - i) + Holds(out) <= told
    /\ buf + Len(back) + Holds(out) <= told

\* tx knows no more than the batch that was read last tells, and the pacing loop
\* writes only within the window.
WindowHolds ==
    /\ mine <= buf /\ acked <= buf
    /\ ppc = "write" => sent - acked < Cwnd

\* The inductive invariant of NoCycle.
RoundInv == transport = "tcp" => PacketsInLine /\ ReportsInLine /\ WindowHolds

\* QUIC: the batch that waits for ReadRTCP and the one that ReadRTCP has in hand are
\* two batches that were read and not dealt with, and ReadRTCP's copy and what it gave
\* to tx are of the latter.
BatchInv ==
    transport = "quic" =>
        /\ done \subseteq read
        /\ rpc # "select" => mine \in read /\ mine \notin done
        /\ npc = "offer" => buf \in read /\ buf \notin done
        /\ npc = "offer" /\ rpc # "select" => buf # mine
        /\ rpc \in {"feed", "notify"} => copied = mine
        /\ rpc = "notify" => fed = mine

\* Packets that this session sends at most.
Total == MaxPkts[transport]

\* Whatever gets lost, the server holds only packets that the pacing loop was
\* allowed to send, and a report covers one packet at least and no other.
Bounded ==
    /\ sent <= Total /\ (ppc \in {"write", "add"} => sent < Total)
    /\ rcv <= Total /\ hnd <= Total /\ pkt <= Total
    /\ seen <= Total /\ told <= Total /\ out <= Total
    /\ ~MuFree => out >= 1
    /\ \A i \in 1..Len(wire) : wire[i] <= Total
    /\ \A i \in 1..Len(back) : back[i] >= 1 /\ back[i] <= Total

-----------------------------------------------------------------------------
(* Lemmas.                                                                 *)

\* The larger and the smaller of two numbers, as Feed and LoopStore use them.
LEMMA MaxMin ==
    ASSUME NEW a \in Int, NEW b \in Int
    PROVE  /\ Max({a, b}) = IF a >= b THEN a ELSE b
           /\ Min({a, b}) = IF a <= b THEN a ELSE b
<1>1. Max({a, b}) = IF a >= b THEN a ELSE b
  <2>1. \E x \in {a, b} : \A y \in {a, b} : x >= y
    OBVIOUS
  <2> QED
    BY <2>1 DEF Max
<1>2. Min({a, b}) = IF a <= b THEN a ELSE b
  <2>1. \E x \in {a, b} : \A y \in {a, b} : x =< y
    OBVIOUS
  <2> QED
    BY <2>1 DEF Min
<1> QED
  BY <1>1, <1>2

\* Taking an element out of a queue.
LEMMA TakeOut ==
    ASSUME NEW q \in Seq(Nat), NEW i \in 1..Len(q)
    PROVE  /\ Without(q, i) \in Seq(Nat) /\ q[i] \in Nat
           /\ Len(Without(q, i)) = Len(q) - 1
           /\ \A j \in 1..Len(Without(q, i)) : \E k \in 1..Len(q) : Without(q, i)[j] = q[k]
<1>1. Len(q) \in Nat /\ Len(q) >= 1
  OBVIOUS
<1>2. \A j \in 1..(Len(q) - 1) : j \in 1..Len(q) /\ j + 1 \in 1..Len(q)
  BY <1>1
<1>3. \A j \in 1..(Len(q) - 1) : (IF j < i THEN q[j] ELSE q[j + 1]) \in Nat
  BY <1>2
<1>4. Without(q, i) \in Seq(Nat) /\ Len(Without(q, i)) = Len(q) - 1
  BY <1>1, <1>3 DEF Without
<1>5. ASSUME NEW j \in 1..(Len(q) - 1)
      PROVE  \E k \in 1..Len(q) : Without(q, i)[j] = q[k]
  <2>1. Without(q, i)[j] = IF j < i THEN q[j] ELSE q[j + 1]
    BY DEF Without
  <2> QED
    BY <1>2, <2>1
<1> QED
  BY <1>4, <1>5

\* Taking the first one.
LEMMA TakeFirst ==
    ASSUME NEW q \in Seq(Nat), 1 \in 1..Len(q)
    PROVE  /\ Len(q) >= 1 /\ Len(Without(q, 1)) = Len(q) - 1
           /\ \A j \in 1..Len(Without(q, 1)) : /\ Without(q, 1)[j] = q[j + 1]
                                               /\ j + 1 \in 1..Len(q)
<1>1. Len(q) \in Nat /\ Len(q) >= 1
  OBVIOUS
<1>2. Len(Without(q, 1)) = Len(q) - 1
  BY <1>1, TakeOut
<1>3. ASSUME NEW j \in 1..(Len(q) - 1)
      PROVE  Without(q, 1)[j] = q[j + 1] /\ j + 1 \in 1..Len(q)
  <2>1. Without(q, 1)[j] = IF j < 1 THEN q[j] ELSE q[j + 1]
    BY DEF Without
  <2> QED
    BY <1>1, <2>1
<1> QED
  BY <1>1, <1>2, <1>3

\* What the network delivers next over TCP.
LEMMA TcpDelivers ==
    ASSUME transport = "tcp"
    PROVE  /\ ReceiveRTP => /\ 1 \in 1..Len(wire) /\ rcv = 0 /\ rcv' = wire[1]
                            /\ hnd' = hnd /\ wire' = Without(wire, 1)
           /\ ReadBatch => /\ 1 \in 1..Len(back) /\ buf' = back[1] /\ buf' > buf
                           /\ back' = Without(back, 1)
BY DEF ReceiveRTP, ReadBatch, Arrives, Rtcp!NetworkReads

\* Putting an element behind the last one.
LEMMA AppendTo ==
    ASSUME NEW q \in Seq(Nat), NEW x \in Nat
    PROVE  /\ Append(q, x) \in Seq(Nat)
           /\ Len(Append(q, x)) = Len(q) + 1
           /\ Append(q, x)[Len(q) + 1] = x
           /\ \A i \in 1..Len(q) : Append(q, x)[i] = q[i]
OBVIOUS

-----------------------------------------------------------------------------
(* Types.                                                                  *)

\* What Feed does to tx: acked grows, by what the bytes may tell at most.
LEMMA FeedAcks ==
    ASSUME TypeOK, Feed
    PROVE  /\ acked' \in Nat /\ acked' >= acked
           /\ acked' <= acked \/ acked' <= mine \/ acked' <= buf
           /\ fed' \in Int /\ fed' \in Rtcp!Bytes
<1>1. Rtcp!Bytes \subseteq {mine, buf, -1}
  BY DEF Rtcp!Bytes, Rtcp!Torn
<1>2. fed' \in {mine, buf, -1} /\ fed' \in Rtcp!Bytes
  BY <1>1 DEF Feed, Rtcp!Feed
<1>3. PICK b \in IF fed' = -1 THEN {0, buf} ELSE {fed'} :
            acked' = Max({acked, Min({b, sent})})
  BY DEF Feed, Rtcp!Torn
<1>4. b \in Nat /\ (b = 0 \/ b = mine \/ b = buf)
  BY <1>2, <1>3 DEF TypeOK
<1>5. Min({b, sent}) = IF b <= sent THEN b ELSE sent
  <2>1. b \in Int /\ sent \in Int
    BY <1>4 DEF TypeOK
  <2> QED
    BY <2>1, MaxMin
<1>6. Min({b, sent}) \in Nat
  BY <1>4, <1>5 DEF TypeOK
<1>7. acked' = IF acked >= Min({b, sent}) THEN acked ELSE Min({b, sent})
  <2>1. acked \in Int /\ Min({b, sent}) \in Int
    BY <1>6 DEF TypeOK
  <2> QED
    BY <1>3, <2>1, MaxMin
<1> QED
  BY <1>2, <1>4, <1>5, <1>6, <1>7 DEF TypeOK

\* Every action keeps the types.
LEMMA TypeStep ==
    ASSUME TypeOK, [Next]_vars
    PROVE  TypeOK'
<1> USE DEF rtcpVars, sendVars, recvVars, netVars
<1>1. CASE Wake
  BY <1>1 DEF TypeOK, Wake
<1>2. CASE AskOk
  BY <1>2 DEF TypeOK, AskOk
<1>3. CASE AskNo
  BY <1>3 DEF TypeOK, AskNo
<1>4. CASE AddTransmitted
  BY <1>4 DEF TypeOK, AddTransmitted
<1>5. CASE WriteRTP
  <2>1. wire \in Seq(Nat) /\ sent + 1 \in Nat
    BY DEF TypeOK
  <2>2. wire' = wire \/ wire' = Append(wire, sent + 1)
    BY <1>5 DEF TypeOK, WriteRTP
  <2>3. wire' \in Seq(Nat)
    BY <2>1, <2>2, AppendTo
  <2> QED
    BY <1>5, <2>3 DEF TypeOK, WriteRTP
<1>6. CASE ReceiveRTP
  <2>1. PICK i \in 1..Len(wire) : /\ wire' = Without(wire, i)
                                  /\ rcv' = wire[i] \/ rcv' = rcv
                                  /\ hnd' = wire[i] \/ hnd' = hnd
    BY <1>6 DEF ReceiveRTP
  <2>2. wire' \in Seq(Nat) /\ rcv' \in Nat /\ hnd' \in Nat
    BY <2>1, TakeOut DEF TypeOK
  <2> QED
    BY <1>6, <2>2 DEF TypeOK, ReceiveRTP
<1>7. CASE Handle
  BY <1>7 DEF TypeOK, Handle
<1>8. CASE Receive
  BY <1>8 DEF TypeOK, Receive
<1>9. CASE LoopStore
  BY <1>9, MaxMin DEF TypeOK, LoopStore
<1>10. CASE LoopReport
  BY <1>10 DEF TypeOK, LoopReport
<1>11. CASE Tick
  BY <1>11 DEF TypeOK, Tick
<1>12. CASE WriteRTCP
  <2>1. back \in Seq(Nat) /\ out \in Nat /\ (back' = back \/ back' = Append(back, out))
    BY <1>12 DEF TypeOK, WriteRTCP
  <2>2. back' \in Seq(Nat)
    BY <2>1, AppendTo
  <2>3. /\ lpc' \in {"first", "storeFirst", "select", "store", "report", "write"}
        /\ fpc' \in {"none", "select", "write"}
    BY <1>12 DEF TypeOK, WriteRTCP
  <2> QED
    BY <1>12, <2>2, <2>3 DEF TypeOK, WriteRTCP
<1>13. CASE Lose
  <2>1. wire' \in Seq(Nat) /\ back' \in Seq(Nat)
    BY <1>13, TakeOut DEF TypeOK, Lose
  <2> QED
    BY <1>13, <2>1 DEF TypeOK, Lose
<1>14. CASE ReadBatch
  <2>1. PICK i \in 1..Len(back) : back' = Without(back, i) /\ buf' = back[i]
    BY <1>14 DEF ReadBatch, Rtcp!NetworkReads
  <2>2. back' \in Seq(Nat) /\ buf' \in Nat
    BY <2>1, TakeOut DEF TypeOK
  <2> QED
    BY <1>14, <2>2 DEF TypeOK, ReadBatch, Rtcp!NetworkReads
<1>15. CASE HandOver
  BY <1>15 DEF TypeOK, HandOver, Rtcp!HandOver
<1>16. CASE DropBatch
  BY <1>16 DEF TypeOK, DropBatch, Rtcp!Drop
<1>17. CASE Notify
  <2>1. /\ rpc' \in {"select", "feed"} /\ left' \in Nat
        /\ mine' \in {mine, 0} /\ copied' \in {copied, 0}
    BY <1>17 DEF TypeOK, Notify, Rtcp!NotifyDone, Rtcp!Finish
  <2> QED
    BY <1>17, <2>1 DEF TypeOK, Notify, Rtcp!NotifyDone
<1>18. CASE CopyBatch
  <2>1. Reports[transport] \subseteq Nat
    BY ReportsAreCounted DEF TypeOK
  <2>2. Rtcp!Bytes \subseteq Int
    BY DEF TypeOK, Rtcp!Bytes, Rtcp!Torn
  <2>3. /\ copied' \in Int /\ left' \in Nat /\ rpc' \in {"select", "feed"}
        /\ mine' \in {mine, 0}
    BY <1>18, <2>1, <2>2 DEF CopyBatch, Rtcp!CopyBatch, Rtcp!Finish
  <2> QED
    BY <1>18, <2>3 DEF TypeOK, CopyBatch, Rtcp!CopyBatch
<1>19. CASE Feed
  <2>1. acked' \in Nat /\ fed' \in Int
    BY <1>19, FeedAcks
  <2> QED
    BY <1>19, <2>1 DEF TypeOK, Feed, Rtcp!Feed
<1>20. CASE UNCHANGED vars
  BY <1>20 DEF TypeOK, vars
<1> QED
  BY <1>1, <1>2, <1>3, <1>4, <1>5, <1>6, <1>7, <1>8, <1>9, <1>10, <1>11, <1>12, <1>13,
     <1>14, <1>15, <1>16, <1>17, <1>18, <1>19, <1>20 DEF Next, PacingLoop

\* The variables have their types in every reachable state.
THEOREM TypeCorrect == Spec => []TypeOK
<1>1. Init => TypeOK
  BY DEF Init, Rtcp!Init, TypeOK
<1>2. TypeOK /\ [Next]_vars => TypeOK'
  BY TypeStep
<1> QED
  BY <1>1, <1>2, PTL DEF Spec

-----------------------------------------------------------------------------
(* The round over TCP.                                                     *)

\* A step that moves no packet.
LEMMA PacketsSame ==
    ASSUME PacketsInLine, UNCHANGED <<pkt, seen, hnd, rcv, wire, sent>>,
           lpc' \in {"storeFirst", "store"} <=> lpc \in {"storeFirst", "store"},
           ppc' = "add" <=> ppc = "add"
    PROVE  PacketsInLine'
BY DEF PacketsInLine, AtReceive, AtHandle, AtLoop, Holds

\* Every action keeps the packets in line.
LEMMA PacketsStep ==
    ASSUME TypeOK, transport = "tcp", PacketsInLine, Next
    PROVE  PacketsInLine'
<1> USE DEF rtcpVars, sendVars, recvVars, netVars
<1>1. CASE Wake \/ AskOk \/ AskNo
  BY <1>1, PacketsSame DEF Wake, AskOk, AskNo
<1>2. CASE WriteRTP
  <2>1. /\ wire' = Append(wire, sent + 1) /\ ppc = "write" /\ ppc' = "add"
        /\ UNCHANGED <<pkt, seen, hnd, rcv, sent, lpc>>
    BY <1>2 DEF WriteRTP
  <2>2. wire \in Seq(Nat) /\ sent + 1 \in Nat
    BY DEF TypeOK
  <2>3. /\ Len(wire') = Len(wire) + 1 /\ wire'[Len(wire) + 1] = sent + 1
        /\ \A i \in 1..Len(wire) : wire'[i] = wire[i]
    BY <2>1, <2>2, AppendTo
  <2>4. UNCHANGED <<AtLoop, AtHandle, AtReceive>>
    BY <2>1 DEF AtReceive, AtHandle, AtLoop, Holds
  <2>5. AtReceive \in Nat /\ Len(wire) \in Nat /\ seen \in Nat
    BY <2>2 DEF TypeOK, AtReceive, AtHandle, AtLoop, Holds
  <2>6. \A i \in 1..Len(wire') : wire'[i] = seen + AtReceive + i
    BY <2>1, <2>3, <2>5 DEF PacketsInLine
  <2> QED
    BY <2>1, <2>2, <2>3, <2>4, <2>5, <2>6 DEF PacketsInLine
<1>3. CASE AddTransmitted
  <2>1. UNCHANGED <<AtLoop, AtHandle, AtReceive, pkt, seen, hnd, rcv, wire, lpc>>
    BY <1>3 DEF AddTransmitted, AtReceive, AtHandle, AtLoop, Holds
  <2> QED
    BY <1>3, <2>1 DEF AddTransmitted, PacketsInLine
<1>4. CASE ReceiveRTP
  <2>1. /\ 1 \in 1..Len(wire) /\ rcv = 0 /\ rcv' = wire[1] /\ wire' = Without(wire, 1)
        /\ UNCHANGED <<pkt, seen, hnd, sent, lpc, ppc>>
    BY <1>4, TcpDelivers DEF ReceiveRTP
  <2>2. wire \in Seq(Nat)
    BY DEF TypeOK
  <2>3. /\ Len(wire) >= 1 /\ rcv' = wire[1] /\ Len(wire') = Len(wire) - 1
        /\ \A i \in 1..Len(wire') : wire'[i] = wire[i + 1]
    BY <2>1, <2>2, TakeFirst
  <2>4. /\ AtHandle \in Nat /\ AtReceive = AtHandle /\ AtHandle' = AtHandle
        /\ AtLoop' = AtLoop /\ seen \in Nat /\ Len(wire) \in Nat
    BY <2>1, <2>2 DEF TypeOK, AtReceive, AtHandle, AtLoop, Holds
  <2>5. rcv' = seen + AtHandle + 1
    BY <2>3, <2>4 DEF PacketsInLine
  <2>6. AtReceive' = AtHandle + 1
    BY <2>4, <2>5 DEF AtReceive, Holds
  <2>7. \A i \in 1..Len(wire') : wire'[i] = seen + AtHandle + 1 + i
    BY <2>3, <2>4 DEF PacketsInLine
  <2>8. seen + AtHandle + 1 + (Len(wire) - 1) = IF ppc = "add" THEN sent + 1 ELSE sent
    BY <2>4 DEF PacketsInLine, TypeOK
  <2>9. /\ pkt # 0 <=> lpc \in {"storeFirst", "store"}
        /\ pkt # 0 => pkt = seen + 1
        /\ hnd # 0 => hnd = seen + AtLoop + 1
    BY DEF PacketsInLine
  <2> QED
    BY <2>1, <2>3, <2>4, <2>5, <2>6, <2>7, <2>8, <2>9 DEF PacketsInLine
<1>5. CASE Handle
  <2>1. /\ rcv # 0 /\ hnd = 0 /\ hnd' = rcv /\ rcv' = 0
        /\ UNCHANGED <<pkt, seen, wire, sent, lpc, ppc>>
    BY <1>5 DEF Handle
  <2> QED
    BY <2>1 DEF PacketsInLine, AtReceive, AtHandle, AtLoop, Holds, TypeOK
<1>6. CASE Receive
  <2>1. /\ hnd # 0 /\ lpc \in {"first", "select"} /\ pkt' = hnd /\ hnd' = 0
        /\ lpc' \in {"storeFirst", "store"}
        /\ UNCHANGED <<rcv, seen, wire, sent, ppc>>
    BY <1>6 DEF Receive
  <2>2. pkt = 0 /\ hnd = seen + 1 /\ hnd \in Nat /\ rcv \in Nat /\ seen \in Nat
    BY <2>1 DEF PacketsInLine, AtLoop, Holds, TypeOK
  <2>3. AtLoop = 0 /\ AtLoop' = 1 /\ AtHandle = 1 /\ AtHandle' = 1
    BY <2>1, <2>2 DEF AtHandle, AtLoop, Holds
  <2>4. AtReceive' = AtReceive
    BY <2>1, <2>3 DEF AtReceive
  <2> QED
    BY <2>1, <2>2, <2>3, <2>4 DEF PacketsInLine
<1>7. CASE LoopStore
  <2>1. /\ lpc \in {"storeFirst", "store"} /\ lpc' \in {"select", "report"}
        /\ seen' = Max({seen, pkt}) /\ pkt' = 0
        /\ UNCHANGED <<rcv, hnd, wire, sent, ppc>>
    BY <1>7 DEF LoopStore
  <2>2. pkt # 0 /\ pkt = seen + 1 /\ seen \in Nat /\ pkt \in Nat
    BY <2>1 DEF PacketsInLine, TypeOK
  <2>3. seen' = seen + 1
    BY <2>1, <2>2, MaxMin
  <2>4. AtLoop = 1 /\ AtLoop' = 0
    BY <2>1, <2>2 DEF AtLoop, Holds
  <2>5. /\ AtHandle = 1 + Holds(hnd) /\ AtHandle' = Holds(hnd)
        /\ AtReceive = 1 + Holds(hnd) + Holds(rcv)
        /\ AtReceive' = Holds(hnd) + Holds(rcv)
        /\ Holds(hnd) \in Nat /\ Holds(rcv) \in Nat
    BY <2>1, <2>4 DEF AtHandle, AtReceive, Holds
  <2>6. seen' + AtLoop' = seen + AtLoop /\ seen' + AtHandle' = seen + AtHandle
    BY <2>2, <2>3, <2>4, <2>5
  <2>7. seen' + AtReceive' = seen + AtReceive
    BY <2>2, <2>3, <2>5
  <2> QED
    BY <2>1, <2>6, <2>7 DEF PacketsInLine
<1>8. CASE LoopReport
  BY <1>8, PacketsSame DEF LoopReport
<1>9. CASE Tick
  BY <1>9, PacketsSame DEF Tick
<1>10. CASE WriteRTCP
  BY <1>10, PacketsSame DEF WriteRTCP
<1>11. CASE ReadBatch \/ HandOver \/ DropBatch \/ CopyBatch \/ Feed
  BY <1>11, PacketsSame DEF ReadBatch, HandOver, DropBatch, CopyBatch, Feed
<1>12. CASE Notify
  BY <1>12, PacketsSame DEF Notify
<1>13. ~Lose
  BY DEF Lose
<1> QED
  BY <1>1, <1>2, <1>3, <1>4, <1>5, <1>6, <1>7, <1>8, <1>9, <1>10, <1>11, <1>12,
     <1>13 DEF Next, PacingLoop

\* A step that moves no report.
LEMMA ReportsSame ==
    ASSUME TypeOK, ReportsInLine, UNCHANGED <<told, out, back, buf>>,
           seen' \in Nat, seen' >= seen, UNCHANGED <<lpc, fpc>> \/ (MuFree /\ MuFree')
    PROVE  ReportsInLine'
<1>1. told <= seen'
  BY DEF ReportsInLine, TypeOK
<1>2. MuFree' = MuFree /\ ~(lpc' = "write" /\ fpc' = "write")
  BY DEF ReportsInLine, MuFree
<1> QED
  BY <1>1, <1>2 DEF ReportsInLine

\* A goroutine starts to write a report that covers something new.
LEMMA ReportCreated ==
    ASSUME TypeOK, ReportsInLine, MuFree, seen > told, out' = seen, told' = seen,
           UNCHANGED <<seen, back, buf>>, ~MuFree', ~(lpc' = "write" /\ fpc' = "write")
    PROVE  ReportsInLine'
<1>1. out = 0 /\ Holds(out) = 0 /\ out' # 0 /\ Holds(out)' = 1
  BY DEF ReportsInLine, TypeOK, Holds
<1>2. \A i \in 1..Len(back) : back[i] + (Len(back) - i) + 1 <= seen
  <2> TAKE i \in 1..Len(back)
  <2>1. back[i] \in Nat /\ Len(back) \in Nat
    BY DEF TypeOK
  <2>2. back[i] + (Len(back) - i) + 0 <= told
    BY <1>1 DEF ReportsInLine
  <2> QED
    BY <2>1, <2>2 DEF TypeOK
<1>3. buf + Len(back) + 1 <= seen
  <2>1. Len(back) \in Nat /\ buf + Len(back) + 0 <= told
    BY <1>1 DEF ReportsInLine, TypeOK
  <2> QED
    BY <2>1 DEF TypeOK
<1> QED
  BY <1>1, <1>2, <1>3 DEF ReportsInLine, TypeOK

\* Every action keeps the reports in line.
LEMMA ReportsStep ==
    ASSUME TypeOK, TypeOK', transport = "tcp", PacketsInLine, ReportsInLine, Next
    PROVE  ReportsInLine'
<1> USE DEF rtcpVars, sendVars, recvVars, netVars
<1>1. CASE Wake \/ AskOk \/ AskNo \/ WriteRTP \/ AddTransmitted \/ ReceiveRTP \/ Handle
  <2>1. UNCHANGED <<told, out, back, buf, seen, lpc, fpc>>
    BY <1>1 DEF Wake, AskOk, AskNo, WriteRTP, AddTransmitted, ReceiveRTP, Handle
  <2>2. seen' \in Nat /\ seen' >= seen
    BY <2>1 DEF TypeOK
  <2> QED
    BY <2>1, <2>2, ReportsSame
<1>2. CASE HandOver \/ DropBatch \/ CopyBatch \/ Feed \/ Notify
  <2>1. UNCHANGED <<told, out, back, buf, seen, lpc, fpc>>
    BY <1>2 DEF HandOver, DropBatch, CopyBatch, Feed, Notify, Rtcp!HandOver, Rtcp!Drop,
                Rtcp!CopyBatch, Rtcp!Feed, Rtcp!NotifyDone
  <2>2. seen' \in Nat /\ seen' >= seen
    BY <2>1 DEF TypeOK
  <2> QED
    BY <2>1, <2>2, ReportsSame
<1>3. CASE Receive
  <2>1. /\ UNCHANGED <<told, out, back, buf, seen, fpc>>
        /\ lpc # "write" /\ lpc' # "write"
    BY <1>3 DEF Receive
  <2>2. MuFree' = MuFree /\ ~(lpc' = "write" /\ fpc' = "write")
    BY <2>1 DEF MuFree
  <2> QED
    BY <2>1, <2>2 DEF ReportsInLine
<1>4. CASE LoopStore
  <2>1. /\ UNCHANGED <<told, out, back, buf>> /\ MuFree
        /\ lpc' # "write" /\ (fpc' = fpc \/ fpc' = "select")
        /\ seen' = Max({seen, pkt})
    BY <1>4 DEF LoopStore
  <2>2. MuFree'
    BY <2>1 DEF MuFree
  <2>3. seen' \in Nat /\ seen' >= seen
    <3>1. seen \in Nat /\ pkt \in Nat
      BY DEF TypeOK
    <3> QED
      BY <2>1, <3>1, MaxMin
  <2> QED
    BY <2>1, <2>2, <2>3, ReportsSame
<1>5. CASE LoopReport
  <2>1. UNCHANGED <<seen, back, buf, fpc>> /\ MuFree /\ lpc' \in {"write", "select"}
    BY <1>5 DEF LoopReport
  <2>2. CASE lpc' = "write"
    <3>1. seen > told /\ out' = seen /\ told' = seen
      BY <1>5, <2>2 DEF LoopReport
    <3>2. ~MuFree' /\ ~(lpc' = "write" /\ fpc' = "write")
      BY <2>1, <2>2 DEF MuFree
    <3> QED
      BY <2>1, <3>1, <3>2, ReportCreated
  <2>3. CASE lpc' = "select"
    <3>1. UNCHANGED <<out, told>> /\ MuFree'
      BY <1>5, <2>1, <2>3 DEF LoopReport, MuFree
    <3>2. seen' \in Nat /\ seen' >= seen
      BY <2>1 DEF TypeOK
    <3> QED
      BY <2>1, <3>1, <3>2, ReportsSame
  <2> QED
    BY <2>1, <2>2, <2>3
<1>6. CASE Tick
  <2>1. /\ UNCHANGED <<seen, back, buf, lpc>> /\ MuFree /\ fpc' = "write"
        /\ seen > told /\ out' = seen /\ told' = seen
    BY <1>6 DEF Tick
  <2>2. ~MuFree' /\ ~(lpc' = "write" /\ fpc' = "write")
    BY <2>1 DEF MuFree
  <2> QED
    BY <2>1, <2>2, ReportCreated
<1>7. CASE WriteRTCP
  <2>1. /\ ~MuFree /\ back' = Append(back, out) /\ out' = 0
        /\ UNCHANGED <<told, seen, buf>> /\ lpc' # "write" /\ fpc' # "write"
    BY <1>7 DEF WriteRTCP
  <2>2. MuFree' /\ Holds(out') = 0 /\ Holds(out) = 1 /\ out = told
    BY <2>1 DEF MuFree, ReportsInLine, Holds
  <2>3. back \in Seq(Nat) /\ out \in Nat /\ Len(back) \in Nat /\ buf \in Nat
    BY DEF TypeOK
  <2>4. /\ Len(back') = Len(back) + 1 /\ back'[Len(back) + 1] = out
        /\ \A i \in 1..Len(back) : back'[i] = back[i] /\ back[i] \in Nat
    BY <2>1, <2>3, AppendTo
  <2>5. /\ \A i \in 1..Len(back) : back[i] + (Len(back) - i) + 1 <= out
        /\ buf + Len(back) + 1 <= out
    BY <2>2 DEF ReportsInLine
  <2>6. \A i, j \in 1..Len(back') : i <= j => back'[j] - back'[i] >= j - i
    <3> SUFFICES ASSUME NEW i \in 1..Len(back'), NEW j \in 1..Len(back'), i <= j
                 PROVE  back'[j] - back'[i] >= j - i
      OBVIOUS
    <3>1. CASE j = Len(back) + 1 /\ i = j
      BY <2>3, <2>4, <3>1
    <3>2. CASE j = Len(back) + 1 /\ i # j
      <4>1. i \in 1..Len(back)
        BY <2>3, <2>4, <3>2
      <4>2. back[i] + (Len(back) - i) + 1 <= out /\ back'[i] = back[i] /\ back[i] \in Nat
        BY <2>4, <2>5, <4>1
      <4> QED
        BY <2>3, <2>4, <3>2, <4>1, <4>2
    <3>3. CASE j # Len(back) + 1
      <4>1. i \in 1..Len(back) /\ j \in 1..Len(back)
        BY <2>3, <2>4, <3>3
      <4> QED
        BY <2>4, <4>1 DEF ReportsInLine
    <3> QED
      BY <3>1, <3>2, <3>3
  <2>7. \A i \in 1..Len(back') : back'[i] >= buf + i
    <3> TAKE i \in 1..Len(back')
    <3>1. CASE i = Len(back) + 1
      BY <2>3, <2>4, <2>5, <3>1
    <3>2. CASE i # Len(back) + 1
      <4>1. i \in 1..Len(back)
        BY <2>3, <2>4, <3>2
      <4> QED
        BY <2>4, <4>1 DEF ReportsInLine
    <3> QED
      BY <3>1, <3>2
  <2>8. \A i \in 1..Len(back') : back'[i] + (Len(back') - i) + 0 <= told
    <3> TAKE i \in 1..Len(back')
    <3>1. CASE i = Len(back) + 1
      BY <2>2, <2>3, <2>4, <3>1
    <3>2. CASE i # Len(back) + 1
      <4>1. i \in 1..Len(back)
        BY <2>3, <2>4, <3>2
      <4>2. back'[i] = back[i] /\ back[i] \in Nat
        BY <2>4, <4>1
      <4>3. back[i] + (Len(back) - i) + 1 <= told
        BY <2>2, <2>5, <4>1
      <4>4. back[i] + ((Len(back) + 1) - i) + 0 <= told
        <5>1. told \in Int /\ Len(back) \in Int /\ back[i] \in Int
          BY <2>2, <2>3, <4>2
        <5>2. i \in Int
          BY <2>3, <4>1
        <5> QED
          BY <4>3, <5>1, <5>2
      <4> QED
        BY <2>4, <4>2, <4>4
    <3> QED
      BY <3>1, <3>2
  <2>9. buf + Len(back') + 0 <= told
    BY <2>2, <2>3, <2>4, <2>5
  <2> QED
    BY <2>1, <2>2, <2>6, <2>7, <2>8, <2>9 DEF ReportsInLine
<1>8. CASE ReadBatch
  <2>1. /\ 1 \in 1..Len(back) /\ buf' = back[1] /\ back' = Without(back, 1)
        /\ UNCHANGED <<told, seen, out, lpc, fpc>>
    BY <1>8, TcpDelivers DEF ReadBatch
  <2>2. back \in Seq(Nat) /\ Len(back) \in Nat /\ Holds(out) \in Nat /\ told \in Nat
    BY DEF TypeOK, Holds
  <2>3. /\ Len(back) >= 1 /\ buf' = back[1] /\ Len(back') = Len(back) - 1
        /\ \A i \in 1..Len(back') : back'[i] = back[i + 1] /\ i + 1 \in 1..Len(back)
        /\ \A i \in 1..Len(back) : back[i] \in Nat
    BY <2>1, <2>2, TakeFirst
  <2>4. MuFree' = MuFree /\ Holds(out') = Holds(out)
    BY <2>1 DEF MuFree, Holds
  <2>5. \A i, j \in 1..Len(back') : i <= j => back'[j] - back'[i] >= j - i
    <3> SUFFICES ASSUME NEW i \in 1..Len(back'), NEW j \in 1..Len(back'), i <= j
                 PROVE  back'[j] - back'[i] >= j - i
      OBVIOUS
    <3>1. i + 1 \in 1..Len(back) /\ j + 1 \in 1..Len(back) /\ i + 1 <= j + 1
      <4>1. i \in Int /\ j \in Int
        BY <2>2, <2>3
      <4> QED
        BY <2>3, <4>1
    <3>2. back[j + 1] - back[i + 1] >= (j + 1) - (i + 1)
      BY <3>1 DEF ReportsInLine
    <3>3. back'[i] = back[i + 1] /\ back'[j] = back[j + 1]
      BY <2>3
    <3>4. (j + 1) - (i + 1) = j - i
      BY <2>2, <2>3
    <3> QED
      BY <3>2, <3>3, <3>4
  <2>6. \A i \in 1..Len(back') : back'[i] >= buf' + i
    <3> TAKE i \in 1..Len(back')
    <3>1. 1 \in 1..Len(back) /\ i + 1 \in 1..Len(back) /\ 1 <= i + 1
      BY <2>2, <2>3
    <3>2. back[i + 1] - back[1] >= (i + 1) - 1
      BY <3>1 DEF ReportsInLine
    <3> QED
      BY <2>3, <3>1, <3>2
  <2>7. \A i \in 1..Len(back') : back'[i] + (Len(back') - i) + Holds(out) <= told
    <3> TAKE i \in 1..Len(back')
    <3>1. back[i + 1] + (Len(back) - (i + 1)) + Holds(out) <= told
      BY <2>3 DEF ReportsInLine
    <3> QED
      BY <2>2, <2>3, <3>1
  <2>8. buf' + Len(back') + Holds(out) <= told
    <3>1. back[1] + (Len(back) - 1) + Holds(out) <= told
      BY <2>2, <2>3 DEF ReportsInLine
    <3> QED
      BY <2>3, <3>1
  <2> QED
    BY <2>1, <2>4, <2>5, <2>6, <2>7, <2>8 DEF ReportsInLine
<1>9. ~Lose
  BY DEF Lose
<1> QED
  BY <1>1, <1>2, <1>3, <1>4, <1>5, <1>6, <1>7, <1>8, <1>9 DEF Next, PacingLoop

\* More acknowledged, less in flight.
LEMMA MoreAcked ==
    ASSUME NEW s \in Nat, NEW a \in Nat, NEW b \in Nat, NEW w \in Nat,
           a >= b, s - b < w
    PROVE  s - a < w
OBVIOUS

\* Every action keeps tx within the window.
LEMMA WindowStep ==
    ASSUME TypeOK, TypeOK', transport = "tcp", WindowHolds, Next
    PROVE  WindowHolds'
<1> USE DEF rtcpVars, sendVars, recvVars, netVars
<1>1. CASE Wake \/ AskNo \/ WriteRTP \/ AddTransmitted
  <2>1. UNCHANGED <<mine, buf, acked>> /\ ppc' # "write"
    BY <1>1 DEF Wake, AskNo, WriteRTP, AddTransmitted
  <2> QED
    BY <2>1 DEF WindowHolds
<1>2. CASE AskOk
  BY <1>2 DEF AskOk, WindowHolds
<1>3. CASE ReceiveRTP \/ Handle \/ Receive \/ LoopStore \/ LoopReport \/ Tick \/ WriteRTCP
  <2>1. UNCHANGED <<mine, buf, acked, ppc, sent>>
    BY <1>3 DEF ReceiveRTP, Handle, Receive, LoopStore, LoopReport, Tick, WriteRTCP
  <2> QED
    BY <2>1 DEF WindowHolds
<1>4. CASE ReadBatch
  <2>1. UNCHANGED <<mine, acked, ppc, sent>> /\ buf' > buf
    BY <1>4, TcpDelivers DEF ReadBatch, Rtcp!NetworkReads
  <2>2. buf \in Int /\ buf' \in Int /\ mine \in Int /\ acked \in Int
    BY DEF TypeOK
  <2>3. mine' <= buf' /\ acked' <= buf'
    BY <2>1, <2>2 DEF WindowHolds
  <2> QED
    BY <2>1, <2>3 DEF WindowHolds
<1>5. CASE HandOver
  <2>1. UNCHANGED <<buf, acked, ppc, sent>> /\ mine' = buf
    BY <1>5 DEF HandOver, Rtcp!HandOver
  <2> QED
    BY <2>1 DEF WindowHolds, TypeOK
<1>6. CASE DropBatch \/ CopyBatch
  <2>1. UNCHANGED <<buf, acked, ppc, sent>> /\ mine' \in {mine, 0}
    BY <1>6 DEF DropBatch, CopyBatch, Rtcp!Drop, Rtcp!CopyBatch, Rtcp!Finish
  <2> QED
    BY <2>1 DEF WindowHolds, TypeOK
<1>7. CASE Feed
  <2>1. UNCHANGED <<mine, buf, ppc, sent>>
    BY <1>7 DEF Feed, Rtcp!Feed
  <2>2. /\ acked' \in Nat /\ acked' >= acked
        /\ acked' <= acked \/ acked' <= mine \/ acked' <= buf
    BY <1>7, FeedAcks
  <2>3. /\ acked \in Nat /\ mine \in Nat /\ buf \in Nat /\ sent \in Nat
        /\ mine <= buf /\ acked <= buf /\ (ppc = "write" => sent - acked < Cwnd)
        /\ Cwnd \in Nat
    BY BoundsAreNatural DEF WindowHolds, TypeOK
  <2>4. acked' <= buf
    BY <2>2, <2>3
  <2>5. ppc = "write" => sent - acked' < Cwnd
    BY <2>2, <2>3, MoreAcked
  <2> QED
    BY <2>1, <2>3, <2>4, <2>5 DEF WindowHolds
<1>8. CASE Notify
  <2>1. UNCHANGED <<buf, acked, sent>> /\ mine' \in {mine, 0} /\ ppc' = "ask"
    BY <1>8 DEF Notify, Rtcp!NotifyDone, Rtcp!Finish
  <2> QED
    BY <2>1 DEF WindowHolds, TypeOK
<1>9. ~Lose
  BY DEF Lose
<1> QED
  BY <1>1, <1>2, <1>3, <1>4, <1>5, <1>6, <1>7, <1>8, <1>9 DEF Next, PacingLoop

\* No action changes the transport.
LEMMA TransportStays ==
    ASSUME Next
    PROVE  transport' = transport
BY DEF Next, PacingLoop, Wake, AskOk, AskNo, WriteRTP, AddTransmitted, ReceiveRTP, Handle,
       Receive, LoopStore, LoopReport, Tick, WriteRTCP, Lose, ReadBatch, HandOver,
       DropBatch, CopyBatch, Feed, Notify, Rtcp!NetworkReads, Rtcp!HandOver, Rtcp!Drop,
       Rtcp!CopyBatch, Rtcp!Feed, Rtcp!NotifyDone, rtcpVars

\* RoundInv is inductive.
LEMMA RoundStep ==
    ASSUME TypeOK, TypeOK', RoundInv, [Next]_vars
    PROVE  RoundInv'
<1>1. CASE Next
  BY <1>1, TransportStays, PacketsStep, ReportsStep, WindowStep DEF RoundInv
<1>2. CASE UNCHANGED vars
  BY <1>2 DEF vars, rtcpVars, sendVars, recvVars, netVars, RoundInv, PacketsInLine,
              ReportsInLine, WindowHolds, MuFree, AtReceive, AtHandle, AtLoop, Holds
<1> QED
  BY <1>1, <1>2

\* When all stations are full, more is in flight than the window allows.
LEMMA RoundSuffices ==
    ASSUME TypeOK, RoundInv
    PROVE  NoCycle
<1> SUFFICES ASSUME transport = "tcp", WindowFits, ppc = "write",
                    Len(wire) >= RtpCap[transport], rcv # 0, hnd # 0, ~MuFree,
                    Len(back) >= RtcpCap[transport]
             PROVE  FALSE
  BY DEF NoCycle
<1>0. /\ RtpCap[transport] \in Nat /\ RtcpCap[transport] \in Nat
      /\ Cwnd <= RtpCap[transport] + RtcpCap[transport] + 3
  BY CapsArePositive DEF TypeOK, WindowFits
<1>1. Len(wire) \in Nat /\ Len(back) \in Nat
  BY DEF TypeOK
<1>2. AtReceive >= 2 /\ AtReceive \in Nat
  BY DEF AtReceive, AtHandle, AtLoop, Holds
<1>3. seen + AtReceive + Len(wire) = sent
  BY DEF RoundInv, PacketsInLine
<1>4. told <= seen /\ buf + Len(back) + 1 <= told
  BY DEF RoundInv, ReportsInLine, Holds
<1>5. acked <= buf /\ sent - acked < Cwnd
  BY DEF RoundInv, WindowHolds
<1> QED
  BY <1>0, <1>1, <1>2, <1>3, <1>4, <1>5, BoundsAreNatural DEF TypeOK

\* Over TCP, for any buffers, a window no larger than what the full stations hold
\* keeps the round from closing on itself (NoCycle); of larger windows the theorem
\* says nothing.
THEOREM RoundNeverCloses == Spec => []NoCycle
<1>1. Init => RoundInv
  BY DEF Init, Rtcp!Init, RoundInv, PacketsInLine, ReportsInLine, WindowHolds, MuFree,
         AtReceive, AtHandle, AtLoop, Holds
<1>2. TypeOK /\ TypeOK' /\ RoundInv /\ [Next]_vars => RoundInv'
  BY RoundStep
<1>3. TypeOK /\ RoundInv => NoCycle
  BY RoundSuffices
<1> QED
  BY <1>1, <1>2, <1>3, TypeCorrect, PTL DEF Spec

-----------------------------------------------------------------------------
(* The batches over QUIC.                                                  *)

\* The steps that change the variables of RtcpPath.
LEMMA RtcpSteps ==
    ASSUME [Next]_vars
    PROVE  \/ UNCHANGED rtcpVars
           \/ ReadBatch \/ HandOver \/ DropBatch \/ CopyBatch \/ Feed \/ Notify
BY DEF Next, PacingLoop, Wake, AskOk, AskNo, WriteRTP, AddTransmitted, ReceiveRTP,
       Handle, Receive, LoopStore, LoopReport, Tick, WriteRTCP, Lose, vars

\* The step of ReadRTCP that ends a batch.
LEMMA BatchFinished ==
    ASSUME BatchInv, Rtcp!Finish, rpc # "select", transport = "quic",
           UNCHANGED <<transport, npc, buf, read>>
    PROVE  BatchInv'
<1>1. rpc' = "select" /\ done' = done \union {mine}
  BY DEF Rtcp!Finish
<1>2. done' \subseteq read'
  BY <1>1 DEF BatchInv
<1>3. npc' = "offer" => buf' \in read' /\ buf' \notin done'
  BY <1>1 DEF BatchInv
<1> QED
  BY <1>1, <1>2, <1>3 DEF BatchInv

\* BatchInv is inductive.
LEMMA BatchStep ==
    ASSUME TypeOK, TypeOK', BatchInv, [Next]_vars
    PROVE  BatchInv'
<1> USE DEF rtcpVars, sendVars, recvVars, netVars
<1> SUFFICES ASSUME transport' = "quic"
             PROVE  BatchInv'
  BY DEF BatchInv
<1>1. CASE UNCHANGED rtcpVars
  BY <1>1 DEF BatchInv
<1>2. CASE ReadBatch
  <2>1. /\ buf' \notin read /\ read' = read \union {buf'} /\ npc' = "offer"
        /\ UNCHANGED <<transport, rpc, mine, copied, fed, done>>
    BY <1>2 DEF ReadBatch, Rtcp!NetworkReads
  <2>2. done' \subseteq read' /\ buf' \notin done' /\ buf' \in read'
    BY <2>1 DEF BatchInv
  <2>3. rpc' # "select" => mine' \in read' /\ mine' \notin done' /\ buf' # mine'
    BY <2>1 DEF BatchInv
  <2> QED
    BY <2>1, <2>2, <2>3 DEF BatchInv
<1>3. CASE HandOver
  <2>1. /\ npc = "offer" /\ rpc = "select" /\ mine' = buf /\ npc' = "read"
        /\ rpc' = "copy" /\ UNCHANGED <<transport, buf, read, done>>
    BY <1>3 DEF HandOver, Rtcp!HandOver
  <2> QED
    BY <2>1 DEF BatchInv
<1>4. CASE DropBatch
  <2>1. transport = "udp" /\ transport' = transport
    BY <1>4 DEF DropBatch, Rtcp!Drop
  <2> QED
    BY <2>1
<1>5. CASE CopyBatch
  <2>1. rpc = "copy" /\ UNCHANGED <<transport, npc, buf, read>>
    BY <1>5 DEF CopyBatch, Rtcp!CopyBatch
  <2>2. Rtcp!Bytes = {mine}
    BY <2>1 DEF Rtcp!Bytes
  <2>3. \/ Rtcp!Finish
        \/ rpc' = "feed" /\ copied' = mine /\ UNCHANGED <<mine, done>>
    BY <1>5, <2>2 DEF CopyBatch, Rtcp!CopyBatch
  <2>4. CASE Rtcp!Finish
    BY <2>1, <2>4, BatchFinished
  <2>5. CASE rpc' = "feed" /\ copied' = mine /\ UNCHANGED <<mine, done>>
    BY <2>1, <2>5 DEF BatchInv
  <2> QED
    BY <2>3, <2>4, <2>5
<1>6. CASE Feed
  <2>1. /\ rpc = "feed" /\ fed' \in Rtcp!Bytes /\ rpc' = "notify"
        /\ UNCHANGED <<transport, npc, buf, mine, copied, read, done>>
    BY <1>6 DEF Feed, Rtcp!Feed
  <2>2. fed' = mine
    BY <2>1 DEF Rtcp!Bytes
  <2> QED
    BY <2>1, <2>2 DEF BatchInv
<1>7. CASE Notify
  <2>1. rpc = "notify" /\ UNCHANGED <<transport, npc, buf, read>>
    BY <1>7 DEF Notify, Rtcp!NotifyDone
  <2>2. \/ Rtcp!Finish
        \/ rpc' = "feed" /\ UNCHANGED <<mine, copied, done>>
    BY <1>7 DEF Notify, Rtcp!NotifyDone
  <2>3. CASE Rtcp!Finish
    BY <2>1, <2>3, BatchFinished
  <2>4. CASE rpc' = "feed" /\ UNCHANGED <<mine, copied, done>>
    BY <2>1, <2>4 DEF BatchInv
  <2> QED
    BY <2>2, <2>3, <2>4
<1> QED
  BY <1>1, <1>2, <1>3, <1>4, <1>5, <1>6, <1>7, RtcpSteps

\* With QUIC tx is given, for every report of a batch, the whole bytes of this batch,
\* the copy that names the streams to notify is of the same batch, and no batch comes
\* back that was dealt with, in whatever order the batches arrive and however many
\* reports they hold (quic/sender.go:188-214, sender_interceptor.go:115-150).
THEOREM BatchesWholeOnQuic == Spec => WholeBatchesOnQuic
<1>1. Init => BatchInv
  BY DEF Init, Rtcp!Init, BatchInv
<1>2. TypeOK /\ TypeOK' /\ BatchInv /\ [Next]_vars => BatchInv'
  BY BatchStep
<1>3. ASSUME TypeOK, BatchInv, [Next]_vars, transport = "quic"
      PROVE  /\ rpc = "feed" /\ rpc' = "notify" => fed' = mine /\ mine \notin done
             /\ rpc = "notify" /\ rpc' # "notify" => fed = mine /\ copied = mine
  <2>1. rpc = "notify" => fed = mine /\ copied = mine
    BY <1>3 DEF BatchInv
  <2>2. ASSUME rpc = "feed", rpc' = "notify"
        PROVE  fed' = mine /\ mine \notin done
    <3>1. Feed
      BY <1>3, <2>2, RtcpSteps DEF ReadBatch, HandOver, DropBatch, CopyBatch, Notify,
            Rtcp!NetworkReads, Rtcp!HandOver, Rtcp!Drop, Rtcp!CopyBatch, Rtcp!NotifyDone,
            rtcpVars
    <3>2. fed' = mine
      BY <1>3, <3>1 DEF Feed, Rtcp!Feed, Rtcp!Bytes
    <3> QED
      BY <1>3, <2>2, <3>2 DEF BatchInv
  <2> QED
    BY <2>1, <2>2
<1>4. TypeOK /\ BatchInv /\ [Next]_vars
        => [transport = "quic" =>
              /\ rpc = "feed" /\ rpc' = "notify" => fed' = mine /\ mine \notin done
              /\ rpc = "notify" /\ rpc' # "notify" => fed = mine /\ copied = mine]_(Rtcp!vars)
  BY <1>3
<1> QED
  BY <1>1, <1>2, <1>4, TypeCorrect, PTL DEF Spec, WholeBatchesOnQuic, Rtcp!WholeBatchesOnQuic

-----------------------------------------------------------------------------
(* Session implements RtcpPath.                                            *)

\* No transport has more packets than RtcpPath has batches.
LEMMA BatchesSuffice ==
    ASSUME NEW t \in Transports
    PROVE  /\ Max({MaxPkts[u] : u \in Transports}) \in Nat
           /\ MaxPkts[t] <= Max({MaxPkts[u] : u \in Transports})
<1> DEFINE S == {MaxPkts[u] : u \in Transports}
<1>1. \A u \in Transports : MaxPkts[u] \in Nat /\ u \in {"quic", "tcp", "udp"}
  BY BoundsAreNatural, ThreeTransports
<1>2. \A u \in Transports : MaxPkts[u] \in S
  OBVIOUS
<1>3. \A x \in S : \E u \in Transports : x = MaxPkts[u]
  OBVIOUS
<1>4. PICK v \in Transports : \A u \in Transports : MaxPkts[v] >= MaxPkts[u]
  <2> DEFINE Above(v) == \A u \in Transports : MaxPkts[v] >= MaxPkts[u]
  <2>1. PICK v1 \in Transports : "quic" \in Transports => MaxPkts[v1] >= MaxPkts["quic"]
    BY <1>1
  <2>2. PICK v2 \in Transports : /\ MaxPkts[v2] >= MaxPkts[v1]
                                 /\ "tcp" \in Transports => MaxPkts[v2] >= MaxPkts["tcp"]
    BY <1>1
  <2>3. PICK v3 \in Transports : /\ MaxPkts[v3] >= MaxPkts[v2]
                                 /\ "udp" \in Transports => MaxPkts[v3] >= MaxPkts["udp"]
    BY <1>1
  <2>4. Above(v3)
    BY <1>1, <2>1, <2>2, <2>3
  <2> QED
    BY <2>4
<1>5. MaxPkts[v] \in S /\ \A y \in S : MaxPkts[v] >= y
  BY <1>2, <1>3, <1>4
<1>6. Max(S) \in S /\ \A y \in S : Max(S) >= y
  <2> HIDE DEF S
  <2> QED
    BY <1>5 DEF Max
<1>7. MaxPkts[t] \in S
  BY <1>2
<1>8. Max(S) \in Nat /\ MaxPkts[t] \in Nat
  BY <1>1, <1>3, <1>6
<1> HIDE DEF S
<1>9. MaxPkts[t] <= Max(S)
  BY <1>6, <1>7, <1>8
<1> QED
  BY <1>8, <1>9 DEF S

\* Bounded is inductive.
LEMMA BoundedStep ==
    ASSUME TypeOK, TypeOK', Bounded, [Next]_vars
    PROVE  Bounded'
<1> USE DEF rtcpVars, sendVars, recvVars, netVars
<1>0. Total \in Nat /\ Total' = Total
  <2>1. Total \in Nat
    BY BoundsAreNatural DEF Total, TypeOK
  <2>2. transport' = transport
    BY TransportStays DEF vars
  <2> QED
    BY <2>1, <2>2 DEF Total
<1> HIDE DEF Total
<1>1. CASE Wake \/ AskOk \/ AskNo \/ AddTransmitted
  <2>1. UNCHANGED <<recvVars, wire, back>>
    BY <1>1 DEF Wake, AskOk, AskNo, AddTransmitted
  <2>2. sent' <= Total /\ (ppc' \in {"write", "add"} => sent' < Total)
    <3>1. CASE Wake
      BY <3>1 DEF Wake, Bounded
    <3>2. CASE AskOk
      BY <3>2 DEF AskOk, Bounded, Total
    <3>3. CASE AskNo
      BY <3>3 DEF AskNo, Bounded
    <3>4. CASE AddTransmitted
      <4>1. sent' = sent + 1 /\ sent < Total /\ ppc' = "ask" /\ sent \in Nat
        BY <3>4 DEF AddTransmitted, Bounded, TypeOK
      <4> QED
        BY <1>0, <4>1
    <3> QED
      BY <1>1, <3>1, <3>2, <3>3, <3>4
  <2> QED
    BY <1>0, <2>1, <2>2 DEF Bounded, MuFree
<1>2. CASE WriteRTP
  <2>1. \A i \in 1..Len(wire') : wire'[i] <= Total
    <3>1. sent + 1 \in Nat /\ sent + 1 <= Total /\ wire \in Seq(Nat)
      BY <1>0, <1>2 DEF WriteRTP, Bounded, TypeOK
    <3>2. wire' = wire \/ wire' = Append(wire, sent + 1)
      BY <1>2 DEF WriteRTP
    <3> QED
      BY <3>1, <3>2, AppendTo DEF Bounded
  <2> QED
    BY <1>0, <1>2, <2>1 DEF Bounded, MuFree, WriteRTP
<1>3. CASE ReceiveRTP
  <2>1. PICK i \in 1..Len(wire) : /\ wire' = Without(wire, i)
                                  /\ rcv' = wire[i] \/ rcv' = rcv
                                  /\ hnd' = wire[i] \/ hnd' = hnd
    BY <1>3 DEF ReceiveRTP
  <2>2. wire \in Seq(Nat)
    BY DEF TypeOK
  <2>3. /\ wire[i] <= Total
        /\ \A j \in 1..Len(wire') : wire'[j] <= Total
    BY <2>1, <2>2, TakeOut DEF Bounded
  <2> QED
    BY <1>0, <1>3, <2>1, <2>3 DEF Bounded, MuFree, ReceiveRTP
<1>4. CASE Handle
  BY <1>0, <1>4 DEF Bounded, MuFree, Handle
<1>5. CASE Receive
  BY <1>0, <1>5 DEF Bounded, MuFree, Receive
<1>6. CASE LoopStore
  <2>1. seen' <= Total
    <3>1. seen \in Int /\ pkt \in Int /\ seen' = Max({seen, pkt})
      BY <1>6 DEF LoopStore, TypeOK
    <3> QED
      BY <3>1, MaxMin DEF Bounded
  <2> QED
    BY <1>0, <1>6, <2>1 DEF Bounded, MuFree, LoopStore
<1>7. CASE LoopReport
  BY <1>0, <1>7 DEF Bounded, TypeOK, MuFree, LoopReport
<1>8. CASE Tick
  BY <1>0, <1>8 DEF Bounded, TypeOK, MuFree, Tick
<1>9. CASE WriteRTCP
  <2>1. \A i \in 1..Len(back') : back'[i] >= 1 /\ back'[i] <= Total
    <3>1. out \in Nat /\ out >= 1 /\ out <= Total /\ back \in Seq(Nat)
      BY <1>9 DEF WriteRTCP, Bounded, TypeOK
    <3>2. back' = back \/ back' = Append(back, out)
      BY <1>9 DEF WriteRTCP
    <3> QED
      BY <3>1, <3>2, AppendTo DEF Bounded
  <2>2. MuFree' /\ out' = 0
    BY <1>9 DEF WriteRTCP, MuFree
  <2> QED
    BY <1>0, <1>9, <2>1, <2>2 DEF Bounded, WriteRTCP
<1>10. CASE Lose
  <2>1. CASE \E i \in 1..Len(wire) : wire' = Without(wire, i) /\ UNCHANGED back
    <3>1. \A i \in 1..Len(wire') : wire'[i] <= Total
      <4>1. PICK i \in 1..Len(wire) : wire' = Without(wire, i)
        BY <2>1
      <4>2. wire \in Seq(Nat) /\ \A k \in 1..Len(wire) : wire[k] <= Total
        BY DEF Bounded, TypeOK
      <4> QED
        BY <4>1, <4>2, TakeOut
    <3> QED
      BY <1>0, <1>10, <2>1, <3>1 DEF Bounded, MuFree, Lose
  <2>2. CASE \E i \in 1..Len(back) : back' = Without(back, i) /\ UNCHANGED wire
    <3>1. \A i \in 1..Len(back') : back'[i] >= 1 /\ back'[i] <= Total
      <4>1. PICK i \in 1..Len(back) : back' = Without(back, i)
        BY <2>2
      <4>2. back \in Seq(Nat) /\ \A k \in 1..Len(back) : back[k] >= 1 /\ back[k] <= Total
        BY DEF Bounded, TypeOK
      <4> QED
        BY <4>1, <4>2, TakeOut
    <3> QED
      BY <1>0, <1>10, <2>2, <3>1 DEF Bounded, MuFree, Lose
  <2> QED
    BY <1>10, <2>1, <2>2 DEF Lose
<1>11. CASE ReadBatch
  <2>1. \A i \in 1..Len(back') : back'[i] >= 1 /\ back'[i] <= Total
    <3>1. PICK i \in 1..Len(back) : back' = Without(back, i)
      BY <1>11 DEF ReadBatch
    <3>2. back \in Seq(Nat) /\ \A k \in 1..Len(back) : back[k] >= 1 /\ back[k] <= Total
      BY DEF Bounded, TypeOK
    <3> QED
      BY <3>1, <3>2, TakeOut
  <2> QED
    BY <1>0, <1>11, <2>1 DEF Bounded, MuFree, ReadBatch
<1>12. CASE HandOver \/ DropBatch \/ CopyBatch \/ Feed \/ Notify
  <2>1. /\ UNCHANGED <<sent, recvVars, wire, back>>
        /\ ppc' \in {"write", "add"} => ppc \in {"write", "add"}
    BY <1>12 DEF HandOver, DropBatch, CopyBatch, Feed, Notify
  <2> QED
    BY <1>0, <2>1 DEF Bounded, MuFree
<1>13. CASE UNCHANGED vars
  BY <1>0, <1>13 DEF Bounded, MuFree, vars
<1> QED
  BY <1>1, <1>2, <1>3, <1>4, <1>5, <1>6, <1>7, <1>8, <1>9, <1>10, <1>11, <1>12, <1>13
     DEF Next, PacingLoop

\* Every step of a session is a step of RtcpPath or leaves its variables alone.
LEMMA RtcpStep ==
    ASSUME TypeOK, Bounded, [Next]_vars
    PROVE  [Rtcp!Next]_(Rtcp!vars)
<1>1. CASE UNCHANGED rtcpVars
  BY <1>1 DEF rtcpVars, Rtcp!vars
<1>2. CASE ReadBatch
  <2>1. PICK i \in 1..Len(back) : Rtcp!NetworkReads(back[i])
    BY <1>2 DEF ReadBatch
  <2>2. back[i] \in Nat /\ back[i] >= 1 /\ back[i] <= Total
    BY <2>1 DEF Bounded, TypeOK
  <2> DEFINE top == Max({MaxPkts[u] : u \in Transports})
  <2>3. Total \in Nat /\ top \in Nat /\ Total <= top
    BY BatchesSuffice, BoundsAreNatural DEF Total, TypeOK
  <2> HIDE DEF top
  <2>4. back[i] \in 1..top
    BY <2>2, <2>3
  <2> QED
    BY <2>1, <2>4 DEF Rtcp!Next, top
<1>3. CASE HandOver \/ DropBatch \/ CopyBatch \/ Feed \/ Notify
  BY <1>3 DEF HandOver, DropBatch, CopyBatch, Feed, Notify, Rtcp!Next
<1> QED
  BY <1>1, <1>2, <1>3, RtcpSteps

\* A session drives RtcpPath only by the steps of that module, with batches that
\* it numbers from 1: what holds of readFromNetwork and ReadRTCP there, whatever
\* the network delivers, holds in a session as well.
THEOREM SessionImplementsRtcpPath == Spec => Rtcp!Spec
<1>1. Init => Rtcp!Init
  BY DEF Init
<1>2. Init => Bounded
  BY BoundsAreNatural DEF Init, Rtcp!Init, Bounded, Total, MuFree
<1>3. TypeOK /\ TypeOK' /\ Bounded /\ [Next]_vars => Bounded'
  BY BoundedStep
<1>4. TypeOK /\ Bounded /\ [Next]_vars => [Rtcp!Next]_(Rtcp!vars)
  BY RtcpStep
<1> QED
  BY <1>1, <1>2, <1>3, <1>4, TypeCorrect, PTL DEF Spec, Rtcp!Spec
=============================================================================

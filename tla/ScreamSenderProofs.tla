------------------------- MODULE ScreamSenderProofs -------------------------
(***************************************************************************)
(* Proofs about ScreamSender, for any finite set of streams, any number of *)
(* packets, any window and any assignment of SSRCs (the two results that   *)
(* need distinct SSRCs say so).                                            *)
(***************************************************************************)
EXTENDS ScreamSender, FiniteSetTheorems, TLAPS

USE SsrcIsFunction, MaxPktsIsNat, CwndPositive, NoStreamIsNone

\* What the types of TypeOK rest on: a loop only runs once its SSRC is
\* registered, and then has a stream object; a packet being handed over still
\* counts against the bound; a packet in hand is a packet.
Wellformed ==
    \A s \in Streams :
        /\ wpc[s] \in {"register", "start", "enqueue"} => accepted[s] < MaxPkts
        /\ lpc[s] # "off" \/ wpc[s] = "start" => rtpStreams[Ssrc[s]] \in Streams
        /\ lpc[s] \notin {"off", "lookup"} => object[s] \in Streams
        /\ lpc[s] \in {"write", "add"} => hand[s] \in Packets

TypeInv == TypeOK /\ Wellformed

\* At most one AfterFunc is outstanding, and none while the channel is closed.
TimerInv ==
    /\ panicked # "timer"
    /\ \A s \in Streams :
        /\ armed[s] \in {0, 1}
        /\ armed[s] = 1 => timerSet[s] /\ ~timerClosed[s]
        /\ timerClosed[s] => timerSet[s]
        /\ lpc[s] \in {"check", "ask"} \union Busy => ~timerSet[s]

\* Loops that hold a permission of IsOkToTransmit not yet booked.
Permitted == {s \in Streams : lpc[s] \in Busy}

WindowInv ==
    /\ IsFiniteSet(inFlight)
    /\ Cardinality(inFlight) + Cardinality(Permitted) + 1 <= Cwnd + Cardinality(Streams)

\* Streams that the wait group counts: bound through the interceptor, and
\* their loop has not exited.
Counted == {s \in Streams : wpc[s] \notin {"unbound", "bypass"} /\ lpc[s] # "exited"}

\* A loop runs only for a stream whose writer is past its first packet.
WaitOff ==
    \A s \in Streams :
        wpc[s] \in {"unbound", "bypass", "register", "start"} => lpc[s] = "off"

WaitInv ==
    /\ wg = Cardinality(Counted)
    /\ cpc # "idle" => closed
    /\ cpc = "done" => Counted = {}

DistinctSsrc == \A s, t \in Streams : Ssrc[s] = Ssrc[t] => s = t

\* With an SSRC of its own, a stream is registered as itself and its loop works
\* on its own queue.
RegInv ==
    \A s \in Streams :
        /\ rtpStreams[Ssrc[s]] \in {s, NoStream}
        /\ wpc[s] \in {"unbound", "bypass"} => rtpStreams[Ssrc[s]] = NoStream
        /\ object[s] \in {s, NoStream}
        /\ lpc[s] \in {"write", "add"} => hand[s][1] = s

\* Only a running loop, or a writer past the interceptor, has written anything,
\* and only streams that have written are notified.
WireInv ==
    /\ \A s \in Streams :
        /\ \A i \in DOMAIN wire[s] : wire[s][i][1] = s
        /\ wire[s] # <<>> => lpc[s] \notin {"off", "lookup"} \/ wpc[s] = "bypass"
        /\ Ssrc[s] \in todo => wire[s] # <<>>
        /\ target = s => wire[s] # <<>> /\ wpc[s] \notin {"unbound", "bypass"}
    /\ rpc = "send" => target # NoStream

\* What was written (w), what is in hand (H, at most one packet number) and what
\* is queued (q) is one increasing sequence that ends at the last packet accepted.
Ordered(w, H, q, n) ==
    /\ \A i \in DOMAIN w :
        /\ w[i][2] <= n
        /\ \A j \in 1..(i - 1) : w[j][2] < w[i][2]
        /\ \A k \in H : w[i][2] < k
        /\ \A j \in DOMAIN q : w[i][2] < q[j]
    /\ \A k \in H : k <= n
    /\ \A i \in DOMAIN q :
        /\ q[i] <= n
        /\ \A j \in 1..(i - 1) : q[j] < q[i]
        /\ \A k \in H : k < q[i]

InHand(s) == IF lpc[s] = "write" THEN {hand[s][2]} ELSE {}

OrderInv ==
    \A s \in Streams :
        /\ Ordered(wire[s], InHand(s), queue[s], accepted[s])
        /\ wpc[s] \in {"unbound", "bypass"} => queue[s] = <<>>

-----------------------------------------------------------------------------
(* What Append and Tail do to the elements of a sequence.                  *)

\* Append adds one element behind the others.
LEMMA AppendElements ==
    ASSUME NEW S, NEW q \in Seq(S), NEW e
    PROVE  /\ DOMAIN Append(q, e) = 1..(Len(q) + 1)
           /\ DOMAIN q = 1..Len(q) /\ Len(q) \in Nat
           /\ Append(q, e)[Len(q) + 1] = e
           /\ \A i \in 1..Len(q) : Append(q, e)[i] = q[i]
           /\ Append(q, e) # <<>>
OBVIOUS

\* Tail drops the first element and keeps the order of the others.
LEMMA TailElements ==
    ASSUME NEW S, NEW q \in Seq(S), q # <<>>
    PROVE  /\ DOMAIN q = 1..Len(q) /\ Len(q) \in Nat \ {0}
           /\ DOMAIN Tail(q) = 1..(Len(q) - 1)
           /\ \A i \in 1..(Len(q) - 1) : Tail(q)[i] = q[i + 1]
           /\ Head(q) = q[1]
OBVIOUS

-----------------------------------------------------------------------------
(* Types.                                                                  *)

\* Discarding backlog keeps the queues queues.
LEMMA ClearType ==
    ASSUME TypeOK, NEW S, MayClear(S)
    PROVE  queue' \in [Streams -> Seq(1..MaxPkts)]
<1>1. PICK C \in SUBSET S :
          queue' = [s \in Streams |-> IF s \in C THEN <<>> ELSE queue[s]]
  BY DEF MayClear
<1>2. \A s \in Streams : queue[s] \in Seq(1..MaxPkts)
  BY DEF TypeOK
<1>3. <<>> \in Seq(1..MaxPkts)
  OBVIOUS
<1> QED
  BY <1>1, <1>2, <1>3

\* The initial state has the types and is well formed.
LEMMA TypeInit == Init => TypeInv
<1> SUFFICES ASSUME Init PROVE TypeInv
  OBVIOUS
<1>1. wire \in [Streams -> Seq(Packets)] /\ queue \in [Streams -> Seq(1..MaxPkts)]
  BY DEF Init
<1>2. hand \in [Streams -> Streams \X (0..MaxPkts)]
  BY DEF Init
<1>3. /\ rtpStreams \in [Ssrcs -> Streams \union {NoStream}]
      /\ accepted \in [Streams -> 0..MaxPkts]
      /\ armed \in [Streams -> Nat]
      /\ wpc \in [Streams -> WriterState]
      /\ lpc \in [Streams -> LoopState]
  BY DEF Init, WriterState, LoopState
<1>4. /\ object \in [Streams -> Streams \union {NoStream}]
      /\ timerSet \in [Streams -> BOOLEAN] /\ timerClosed \in [Streams -> BOOLEAN]
  BY DEF Init
<1>5. /\ inFlight \in SUBSET Packets /\ todo \in SUBSET Ssrcs
      /\ rpc = "idle" /\ gpc = "idle" /\ cpc = "idle" /\ panicked = "no"
      /\ target = NoStream /\ wg = 0
  BY DEF Init
<1>6. closed \in BOOLEAN
  BY Zenon DEF Init
<1>7. TypeOK
  BY <1>1, <1>2, <1>3, <1>4, <1>5, <1>6 DEF TypeOK
<1>8. Wellformed
  BY DEF Init, Wellformed
<1> QED
  BY <1>7, <1>8 DEF TypeInv

\* A step that concerns neither the writers nor the loops.
LEMMA WellformedSame ==
    ASSUME Wellformed, UNCHANGED <<rtpStreams, wpc, accepted, lpc, object, hand>>
    PROVE  Wellformed'
BY DEF Wellformed

\* Every action keeps the types and what they rest on.
LEMMA TypeStep == TypeInv /\ [Next]_vars => TypeInv'
<1> SUFFICES ASSUME TypeInv, [Next]_vars
             PROVE  TypeInv'
  OBVIOUS
<1> USE DEF TypeInv, TypeOK, Wellformed, WriterState, LoopState, Busy, Ssrcs,
            Packets, At, Alive, ctlVars, appVars, loopVars, timeVars, rdrVars,
            endVars, netVars, rest
<1>1. ASSUME NEW s \in Streams, Writer(s)
      PROVE  TypeInv'
  <2>1. CASE Bind(s)
    <3>1. wg' \in Int
      BY <2>1 DEF Bind
    <3>2. wpc' = [wpc EXCEPT ![s] = "bypass"] \/ wpc' = [wpc EXCEPT ![s] = "idle"]
      BY <2>1 DEF Bind
    <3>3. UNCHANGED <<closed, rtpStreams, accepted, queue, loopVars, timeVars, netVars, rest>>
      BY <2>1 DEF Bind
    <3>4. wpc' \in [Streams -> WriterState]
      BY <3>2
    <3>5. TypeOK'
      BY <3>1, <3>3, <3>4
    <3>6. Wellformed'
      BY <3>2, <3>3
    <3> QED
      BY <3>5, <3>6
  <2>2. CASE BypassWrite(s)
    <3>1. /\ wpc[s] = "bypass" /\ accepted[s] + 1 \in 1..MaxPkts
          /\ accepted' = [accepted EXCEPT ![s] = accepted[s] + 1]
          /\ wire' = [wire EXCEPT ![s] = Append(wire[s], <<s, accepted[s] + 1>>)]
      BY <2>2 DEF BypassWrite
    <3>2. UNCHANGED <<ctlVars, wpc, queue, loopVars, timeVars, inFlight, rest>>
      BY <2>2 DEF BypassWrite
    <3>3. accepted' \in [Streams -> 0..MaxPkts] /\ wire' \in [Streams -> Seq(Packets)]
      BY <3>1
    <3>4. TypeOK'
      BY <3>2, <3>3
    <3>5. Wellformed'
      BY <3>1, <3>2
    <3> QED
      BY <3>4, <3>5
  <2>3. CASE WriteCall(s)
    BY <2>3 DEF WriteCall
  <2>4. CASE WriteRegister(s)
    BY <2>4 DEF WriteRegister
  <2>5. CASE WriteStart(s)
    BY <2>5 DEF WriteStart
  <2>6. CASE WriteEnqueue(s)
    <3>1. /\ wpc[s] = "enqueue" /\ accepted[s] + 1 \in 1..MaxPkts
          /\ accepted' = [accepted EXCEPT ![s] = accepted[s] + 1]
          /\ queue' = [queue EXCEPT ![s] = Append(queue[s], accepted[s] + 1)]
          /\ wpc' = [wpc EXCEPT ![s] = "frame"]
      BY <2>6 DEF WriteEnqueue, Enqueue
    <3>2. UNCHANGED <<ctlVars, loopVars, timeVars, netVars, rest>>
      BY <2>6 DEF WriteEnqueue
    <3>3. /\ accepted' \in [Streams -> 0..MaxPkts] /\ wpc' \in [Streams -> WriterState]
          /\ queue' \in [Streams -> Seq(1..MaxPkts)]
      BY <3>1
    <3>4. TypeOK'
      BY <3>2, <3>3
    <3>5. Wellformed'
      BY <3>1, <3>2
    <3> QED
      BY <3>4, <3>5
  <2>7. CASE WriteFrame(s)
    BY <2>7, ClearType DEF WriteFrame
  <2>8. CASE UnbindLocalStream(s)
    BY <2>8 DEF UnbindLocalStream
  <2>9. ASSUME NEW l \in Streams, NewFrame(s, l)
        PROVE  TypeInv'
    BY <2>9 DEF NewFrame, Woken
  <2> QED
    BY <1>1, <2>1, <2>2, <2>3, <2>4, <2>5, <2>6, <2>7, <2>8, <2>9 DEF Writer
<1>2. ASSUME NEW s \in Streams, Loop(s)
      PROVE  TypeInv'
  <2>1. CASE LoopLookup(s)
    BY <2>1 DEF LoopLookup
  <2>2. CASE LoopTimer(s)
    BY <2>2 DEF LoopTimer
  <2>3. CASE LoopClose(s)
    <3>1. wg' \in Int
      BY <2>3 DEF LoopClose
    <3> QED
      BY <2>3, <3>1 DEF LoopClose
  <2>4. CASE LoopCheck(s)
    BY <2>4 DEF LoopCheck
  <2>5. CASE AskNo(s)
    BY <2>5 DEF AskNo
  <2>6. CASE AskOk(s)
    BY <2>6 DEF AskOk
  <2>7. CASE AskPace(s)
    <3>1. armed' \in [Streams -> Nat]
      BY <2>7 DEF AskPace
    <3> QED
      BY <2>7, <3>1 DEF AskPace
  <2>8. CASE TimerFires(s)
    <3>1. armed' \in [Streams -> Nat]
      BY <2>8 DEF TimerFires
    <3>2. timerClosed' \in [Streams -> BOOLEAN]
      BY <2>8 DEF TimerFires
    <3>3. panicked' \in {"no", "timer", "unbind"}
      BY <2>8 DEF TimerFires
    <3>4. UNCHANGED <<ctlVars, appVars, queue, loopVars, timerSet, netVars, rdrVars, gpc, cpc>>
      BY <2>8 DEF TimerFires
    <3>5. TypeOK'
      BY <3>1, <3>2, <3>3, <3>4
    <3>6. Wellformed'
      BY <3>4, WellformedSame
    <3> QED
      BY <3>5, <3>6
  <2>9. CASE LoopDequeue(s)
    <3>1. CASE queue[object[s]] = <<>>
      <4>1. lpc' = [lpc EXCEPT ![s] = "select"] /\ lpc[s] = "dequeue"
        BY <2>9, <3>1 DEF LoopDequeue
      <4>2. UNCHANGED <<ctlVars, appVars, object, hand, queue, timeVars, netVars, rest>>
        BY <2>9, <3>1 DEF LoopDequeue
      <4>3. TypeOK'
        BY <4>1, <4>2
      <4>4. Wellformed'
        BY <4>1, <4>2
      <4> QED
        BY <4>3, <4>4
    <3>2. CASE queue[object[s]] # <<>>
      <4> DEFINE o == object[s]
      <4>0. lpc[s] = "dequeue"
        BY <2>9 DEF LoopDequeue
      <4>1. o \in Streams /\ queue[o] \in Seq(1..MaxPkts)
        BY <4>0
      <4>2. Head(queue[o]) \in 1..MaxPkts /\ Tail(queue[o]) \in Seq(1..MaxPkts)
        BY <3>2, <4>1, AppendElements
      <4>3. /\ hand' = [hand EXCEPT ![s] = <<o, Head(queue[o])>>]
            /\ queue' = [queue EXCEPT ![o] = Tail(queue[o])]
            /\ lpc' = [lpc EXCEPT ![s] = "write"]
            /\ lpc[s] = "dequeue"
        BY <2>9, <3>2 DEF LoopDequeue, Dequeue
      <4>5. UNCHANGED <<ctlVars, appVars, object, timeVars, netVars, rest>>
        BY <2>9 DEF LoopDequeue
      <4> HIDE DEF o
      <4>4. /\ hand' \in [Streams -> Streams \X (0..MaxPkts)]
            /\ hand'[s] \in Packets
            /\ \A t \in Streams : t # s => hand'[t] = hand[t]
        BY <4>1, <4>2, <4>3
      <4>6. queue' \in [Streams -> Seq(1..MaxPkts)] /\ lpc' \in [Streams -> LoopState]
        BY <4>2, <4>3
      <4>7. TypeOK'
        BY <4>4, <4>5, <4>6
      <4>8. Wellformed'
        BY <4>3, <4>4, <4>5
      <4> QED
        BY <4>7, <4>8
    <3> QED
      BY <3>1, <3>2
  <2>10. CASE LoopWrite(s)
    <3>1. wire' \in [Streams -> Seq(Packets)]
      <4>1. wire[s] \in Seq(Packets) /\ hand[s] \in Packets
        BY <2>10 DEF LoopWrite
      <4>2. Append(wire[s], hand[s]) \in Seq(Packets)
        BY <4>1
      <4>3. CASE wire' = [wire EXCEPT ![s] = Append(@, hand[s])]
        BY <4>2, <4>3
      <4> QED
        BY <2>10, <4>3 DEF LoopWrite
    <3> QED
      BY <2>10, <3>1 DEF LoopWrite
  <2>11. CASE LoopAdd(s)
    BY <2>11 DEF LoopAdd
  <2> QED
    BY <1>2, <2>1, <2>2, <2>3, <2>4, <2>5, <2>6, <2>7, <2>8, <2>9, <2>10, <2>11 DEF Loop
<1>3. CASE ReadReport
  <2>1. PICK acked \in SUBSET OnWire :
            inFlight' = inFlight \ acked /\ todo' \subseteq {Ssrc[p[1]] : p \in acked}
    BY <1>3 DEF ReadReport
  <2>2. todo' \in SUBSET Ssrcs /\ inFlight' \in SUBSET Packets
    <3>1. \A p \in acked : p \in Packets /\ p[1] \in Streams
      BY DEF OnWire
    <3> QED
      BY <2>1, <3>1
  <2>3. queue' \in [Streams -> Seq(1..MaxPkts)]
    BY <1>3, ClearType DEF ReadReport
  <2>4. TypeOK'
    BY <1>3, <2>2, <2>3 DEF ReadReport
  <2>5. Wellformed'
    BY <1>3, WellformedSame DEF ReadReport
  <2> QED
    BY <2>4, <2>5
<1>4. CASE ReportDone
  BY <1>4 DEF ReportDone
<1>5. ASSUME NEW c \in Ssrcs, NotifyLookup(c)
      PROVE  TypeInv'
  BY <1>5 DEF NotifyLookup
<1>6. ASSUME NEW l \in Streams, NewFeedback(l)
      PROVE  TypeInv'
  BY <1>6 DEF NewFeedback, Woken
<1>7. CASE Control
  BY <1>7 DEF Control, GetTargetBitrate, BitrateReturn, CloseCall, CloseReturn
<1>8. CASE UNCHANGED vars
  BY <1>8 DEF vars
<1> QED
  BY <1>1, <1>2, <1>3, <1>4, <1>5, <1>6, <1>7, <1>8 DEF Next, Reader

\* Type correctness: TypeOK holds in every reachable state, for any number of
\* streams and packets, any window and any SSRCs.
THEOREM TypeCorrect == Spec => []TypeOK
<1>1. Spec => []TypeInv
  BY TypeInit, TypeStep, PTL DEF Spec
<1>2. TypeInv => TypeOK
  BY DEF TypeInv
<1> QED
  BY <1>1, <1>2, PTL

-----------------------------------------------------------------------------
(* The timer of a loop.                                                    *)

\* Every action keeps at most one outstanding AfterFunc per loop.
LEMMA TimerStep == TypeInv /\ TimerInv /\ [Next]_vars => TimerInv'
<1> SUFFICES ASSUME TypeInv, TimerInv, [Next]_vars
             PROVE  TimerInv'
  OBVIOUS
<1> USE DEF TypeInv, TypeOK, TimerInv, LoopState, Busy, At, Alive, ctlVars,
            appVars, loopVars, timeVars, rdrVars, endVars, netVars, rest
<1>1. ASSUME NEW s \in Streams, Writer(s)
      PROVE  TimerInv'
  <2>1. CASE Bind(s)
    BY <2>1 DEF Bind
  <2>2. CASE BypassWrite(s)
    BY <2>2 DEF BypassWrite
  <2>3. CASE WriteCall(s)
    BY <2>3 DEF WriteCall
  <2>4. CASE WriteRegister(s)
    BY <2>4 DEF WriteRegister
  <2>5. CASE WriteStart(s)
    BY <2>5 DEF WriteStart
  <2>6. CASE WriteEnqueue(s)
    BY <2>6 DEF WriteEnqueue
  <2>7. CASE WriteFrame(s)
    BY <2>7 DEF WriteFrame
  <2>8. CASE UnbindLocalStream(s)
    BY <2>8 DEF UnbindLocalStream
  <2>9. ASSUME NEW l \in Streams, NewFrame(s, l)
        PROVE  TimerInv'
    BY <2>9 DEF NewFrame, Woken
  <2> QED
    BY <1>1, <2>1, <2>2, <2>3, <2>4, <2>5, <2>6, <2>7, <2>8, <2>9 DEF Writer
<1>2. ASSUME NEW s \in Streams, Loop(s)
      PROVE  TimerInv'
  <2>1. CASE LoopLookup(s)
    BY <2>1 DEF LoopLookup
  <2>2. CASE LoopTimer(s)
    BY <2>2 DEF LoopTimer
  <2>3. CASE LoopClose(s)
    BY <2>3 DEF LoopClose
  <2>4. CASE LoopCheck(s)
    BY <2>4 DEF LoopCheck
  <2>5. CASE AskNo(s)
    BY <2>5 DEF AskNo
  <2>6. CASE AskOk(s)
    BY <2>6 DEF AskOk
  <2>7. CASE AskPace(s)
    BY <2>7 DEF AskPace
  <2>8. CASE TimerFires(s)
    BY <2>8 DEF TimerFires
  <2>9. CASE LoopDequeue(s)
    BY <2>9 DEF LoopDequeue
  <2>10. CASE LoopWrite(s)
    BY <2>10 DEF LoopWrite
  <2>11. CASE LoopAdd(s)
    BY <2>11 DEF LoopAdd
  <2> QED
    BY <1>2, <2>1, <2>2, <2>3, <2>4, <2>5, <2>6, <2>7, <2>8, <2>9, <2>10, <2>11 DEF Loop
<1>3. CASE ReadReport
  BY <1>3 DEF ReadReport
<1>4. CASE ReportDone
  BY <1>4 DEF ReportDone
<1>5. ASSUME NEW c \in Ssrcs, NotifyLookup(c)
      PROVE  TimerInv'
  BY <1>5 DEF NotifyLookup
<1>6. ASSUME NEW l \in Streams, NewFeedback(l)
      PROVE  TimerInv'
  BY <1>6 DEF NewFeedback, Woken
<1>7. CASE Control
  BY <1>7 DEF Control, GetTargetBitrate, BitrateReturn, CloseCall, CloseReturn
<1>8. CASE UNCHANGED vars
  BY <1>8 DEF vars
<1> QED
  BY <1>1, <1>2, <1>3, <1>4, <1>5, <1>6, <1>7, <1>8 DEF Next, Reader

\* No helper goroutine ever closes a closed timer channel (TimerClosedOnce): a
\* loop arms a timer only while timerSet is false, and then none is outstanding.
THEOREM TimerClosedOnceHolds == Spec => []TimerClosedOnce
<1>1. Init => TimerInv
  BY DEF Init, TimerInv, Busy
<1>2. Spec => []TimerInv
  BY <1>1, TypeInit, TypeStep, TimerStep, PTL DEF Spec
<1>3. TimerInv => TimerClosedOnce
  BY DEF TimerInv, TimerClosedOnce
<1> QED
  BY <1>2, <1>3, PTL

-----------------------------------------------------------------------------
(* Streams with an SSRC of their own.                                      *)

\* No action starts a loop before the first packet of its stream.
LEMMA WaitOffStep == TypeInv /\ WaitOff /\ [Next]_vars => WaitOff'
<1> SUFFICES ASSUME TypeInv, WaitOff, [Next]_vars
             PROVE  WaitOff'
  OBVIOUS
<1> USE DEF TypeInv, TypeOK, WaitOff, At, Alive, ctlVars, appVars, loopVars,
            timeVars, rdrVars, endVars, netVars, rest
<1>1. ASSUME NEW s \in Streams, Writer(s)
      PROVE  WaitOff'
  <2>1. CASE Bind(s)
    BY <2>1 DEF Bind
  <2>2. CASE BypassWrite(s)
    BY <2>2 DEF BypassWrite
  <2>3. CASE WriteCall(s)
    BY <2>3 DEF WriteCall
  <2>4. CASE WriteRegister(s)
    BY <2>4 DEF WriteRegister
  <2>5. CASE WriteStart(s)
    BY <2>5 DEF WriteStart
  <2>6. CASE WriteEnqueue(s)
    BY <2>6 DEF WriteEnqueue
  <2>7. CASE WriteFrame(s)
    BY <2>7 DEF WriteFrame
  <2>8. CASE UnbindLocalStream(s)
    BY <2>8 DEF UnbindLocalStream
  <2>9. ASSUME NEW l \in Streams, NewFrame(s, l)
        PROVE  WaitOff'
    BY <2>9 DEF NewFrame, Woken
  <2> QED
    BY <1>1, <2>1, <2>2, <2>3, <2>4, <2>5, <2>6, <2>7, <2>8, <2>9 DEF Writer
<1>2. ASSUME NEW s \in Streams, Loop(s)
      PROVE  WaitOff'
  <2>1. CASE LoopLookup(s)
    BY <2>1 DEF LoopLookup
  <2>2. CASE LoopTimer(s)
    BY <2>2 DEF LoopTimer
  <2>3. CASE LoopClose(s)
    BY <2>3 DEF LoopClose
  <2>4. CASE LoopCheck(s)
    BY <2>4 DEF LoopCheck
  <2>5. CASE AskNo(s)
    BY <2>5 DEF AskNo
  <2>6. CASE AskOk(s)
    BY <2>6 DEF AskOk
  <2>7. CASE AskPace(s)
    BY <2>7 DEF AskPace
  <2>8. CASE TimerFires(s)
    BY <2>8 DEF TimerFires
  <2>9. CASE LoopDequeue(s)
    BY <2>9 DEF LoopDequeue
  <2>10. CASE LoopWrite(s)
    BY <2>10 DEF LoopWrite
  <2>11. CASE LoopAdd(s)
    BY <2>11 DEF LoopAdd
  <2> QED
    BY <1>2, <2>1, <2>2, <2>3, <2>4, <2>5, <2>6, <2>7, <2>8, <2>9, <2>10, <2>11 DEF Loop
<1>3. CASE ReadReport
  BY <1>3 DEF ReadReport
<1>4. CASE ReportDone
  BY <1>4 DEF ReportDone
<1>5. ASSUME NEW c \in Ssrcs, NotifyLookup(c)
      PROVE  WaitOff'
  BY <1>5 DEF NotifyLookup
<1>6. ASSUME NEW l \in Streams, NewFeedback(l)
      PROVE  WaitOff'
  BY <1>6 DEF NewFeedback, Woken
<1>7. CASE Control
  BY <1>7 DEF Control, GetTargetBitrate, BitrateReturn, CloseCall, CloseReturn
<1>8. CASE UNCHANGED vars
  BY <1>8 DEF vars
<1> QED
  BY <1>1, <1>2, <1>3, <1>4, <1>5, <1>6, <1>7, <1>8 DEF Next, Reader

\* With distinct SSRCs no action mixes up the objects of two streams.
LEMMA RegStep == DistinctSsrc /\ TypeInv /\ RegInv /\ [Next]_vars => RegInv'
<1> SUFFICES ASSUME DistinctSsrc, TypeInv, RegInv, [Next]_vars
             PROVE  RegInv'
  OBVIOUS
<1> USE DEF DistinctSsrc, TypeInv, TypeOK, Wellformed, RegInv, Ssrcs, At, Alive,
            ctlVars, appVars, loopVars, timeVars, rdrVars, endVars, netVars,
            rest
<1>1. ASSUME NEW s \in Streams, Writer(s)
      PROVE  RegInv'
  <2>1. CASE Bind(s)
    BY <2>1 DEF Bind
  <2>2. CASE BypassWrite(s)
    BY <2>2 DEF BypassWrite
  <2>3. CASE WriteCall(s)
    BY <2>3 DEF WriteCall
  <2>4. CASE WriteRegister(s)
    BY <2>4 DEF WriteRegister
  <2>5. CASE WriteStart(s)
    BY <2>5 DEF WriteStart
  <2>6. CASE WriteEnqueue(s)
    BY <2>6 DEF WriteEnqueue
  <2>7. CASE WriteFrame(s)
    BY <2>7 DEF WriteFrame
  <2>8. CASE UnbindLocalStream(s)
    BY <2>8 DEF UnbindLocalStream
  <2>9. ASSUME NEW l \in Streams, NewFrame(s, l)
        PROVE  RegInv'
    BY <2>9 DEF NewFrame, Woken
  <2> QED
    BY <1>1, <2>1, <2>2, <2>3, <2>4, <2>5, <2>6, <2>7, <2>8, <2>9 DEF Writer
<1>2. ASSUME NEW s \in Streams, Loop(s)
      PROVE  RegInv'
  <2>1. CASE LoopLookup(s)
    BY <2>1 DEF LoopLookup
  <2>2. CASE LoopTimer(s)
    BY <2>2 DEF LoopTimer
  <2>3. CASE LoopClose(s)
    BY <2>3 DEF LoopClose
  <2>4. CASE LoopCheck(s)
    BY <2>4 DEF LoopCheck
  <2>5. CASE AskNo(s)
    BY <2>5 DEF AskNo
  <2>6. CASE AskOk(s)
    BY <2>6 DEF AskOk
  <2>7. CASE AskPace(s)
    BY <2>7 DEF AskPace
  <2>8. CASE TimerFires(s)
    BY <2>8 DEF TimerFires
  <2>9. CASE LoopDequeue(s)
    <3>1. \/ hand' = hand /\ lpc' = [lpc EXCEPT ![s] = "select"]
          \/ hand' = [hand EXCEPT ![s] = <<object[s], Head(queue[object[s]])>>]
             /\ lpc' = [lpc EXCEPT ![s] = "write"]
      BY <2>9 DEF LoopDequeue, Dequeue
    <3>2. object[s] = s
      <4>1. lpc[s] = "dequeue"
        BY <2>9 DEF LoopDequeue
      <4>2. object[s] \in Streams
        BY <4>1
      <4>3. object[s] \in {s, NoStream}
        OBVIOUS
      <4> QED
        BY <4>2, <4>3, NoStreamIsNone
    <3>3. UNCHANGED <<rtpStreams, wpc, object>>
      BY <2>9 DEF LoopDequeue
    <3>4. \A t \in Streams : lpc'[t] \in {"write", "add"} => hand'[t][1] = t
      <4> SUFFICES ASSUME NEW t \in Streams, lpc'[t] \in {"write", "add"}
                   PROVE  hand'[t][1] = t
        OBVIOUS
      <4>1. CASE t = s
        BY <3>1, <3>2, <4>1
      <4>2. CASE t # s
        BY <3>1, <4>2
      <4> QED
        BY <4>1, <4>2
    <3> QED
      BY <3>3, <3>4
  <2>10. CASE LoopWrite(s)
    BY <2>10 DEF LoopWrite
  <2>11. CASE LoopAdd(s)
    BY <2>11 DEF LoopAdd
  <2> QED
    BY <1>2, <2>1, <2>2, <2>3, <2>4, <2>5, <2>6, <2>7, <2>8, <2>9, <2>10, <2>11 DEF Loop
<1>3. CASE ReadReport
  BY <1>3 DEF ReadReport
<1>4. CASE ReportDone
  BY <1>4 DEF ReportDone
<1>5. ASSUME NEW c \in Ssrcs, NotifyLookup(c)
      PROVE  RegInv'
  BY <1>5 DEF NotifyLookup
<1>6. ASSUME NEW l \in Streams, NewFeedback(l)
      PROVE  RegInv'
  BY <1>6 DEF NewFeedback, Woken
<1>7. CASE Control
  BY <1>7 DEF Control, GetTargetBitrate, BitrateReturn, CloseCall, CloseReturn
<1>8. CASE UNCHANGED vars
  BY <1>8 DEF vars
<1> QED
  BY <1>1, <1>2, <1>3, <1>4, <1>5, <1>6, <1>7, <1>8 DEF Next, Reader

\* Every action keeps: notified streams have written, and so have a loop.
LEMMA WireStep == DistinctSsrc /\ TypeInv /\ WaitOff /\ RegInv /\ WireInv /\ [Next]_vars => WireInv'
<1> SUFFICES ASSUME DistinctSsrc, TypeInv, WaitOff, RegInv, WireInv, [Next]_vars
             PROVE  WireInv'
  OBVIOUS
<1> USE DEF DistinctSsrc, TypeInv, TypeOK, WaitOff, RegInv, WireInv, Ssrcs, At,
            Alive, ctlVars, appVars, loopVars, timeVars, rdrVars, endVars,
            netVars, rest
<1>1. ASSUME NEW s \in Streams, Writer(s)
      PROVE  WireInv'
  <2>1. CASE Bind(s)
    BY <2>1 DEF Bind
  <2>2. CASE BypassWrite(s)
    <3>1. /\ wire[s] \in Seq(Packets)
          /\ wire' = [wire EXCEPT ![s] = Append(wire[s], <<s, accepted[s] + 1>>)]
      BY <2>2 DEF BypassWrite
    <3>2. /\ \A i \in DOMAIN wire'[s] : wire'[s][i][1] = s
          /\ wire'[s] # <<>>
          /\ \A t \in Streams : t # s => wire'[t] = wire[t]
      BY <3>1, AppendElements
    <3> QED
      BY <2>2, <3>2 DEF BypassWrite
  <2>3. CASE WriteCall(s)
    BY <2>3 DEF WriteCall
  <2>4. CASE WriteRegister(s)
    BY <2>4 DEF WriteRegister
  <2>5. CASE WriteStart(s)
    BY <2>5 DEF WriteStart
  <2>6. CASE WriteEnqueue(s)
    BY <2>6 DEF WriteEnqueue
  <2>7. CASE WriteFrame(s)
    BY <2>7 DEF WriteFrame
  <2>8. CASE UnbindLocalStream(s)
    BY <2>8 DEF UnbindLocalStream
  <2>9. ASSUME NEW l \in Streams, NewFrame(s, l)
        PROVE  WireInv'
    BY <2>9 DEF NewFrame, Woken
  <2> QED
    BY <1>1, <2>1, <2>2, <2>3, <2>4, <2>5, <2>6, <2>7, <2>8, <2>9 DEF Writer
<1>2. ASSUME NEW s \in Streams, Loop(s)
      PROVE  WireInv'
  <2>1. CASE LoopLookup(s)
    BY <2>1 DEF LoopLookup
  <2>2. CASE LoopTimer(s)
    BY <2>2 DEF LoopTimer
  <2>3. CASE LoopClose(s)
    BY <2>3 DEF LoopClose
  <2>4. CASE LoopCheck(s)
    BY <2>4 DEF LoopCheck
  <2>5. CASE AskNo(s)
    BY <2>5 DEF AskNo
  <2>6. CASE AskOk(s)
    BY <2>6 DEF AskOk
  <2>7. CASE AskPace(s)
    BY <2>7 DEF AskPace
  <2>8. CASE TimerFires(s)
    BY <2>8 DEF TimerFires
  <2>9. CASE LoopDequeue(s)
    BY <2>9 DEF LoopDequeue
  <2>10. CASE LoopWrite(s)
    <3>1. lpc[s] = "write" /\ lpc' = [lpc EXCEPT ![s] = "add"] /\ wpc[s] # "bypass"
      BY <2>10 DEF LoopWrite
    <3>2. CASE wire' = [wire EXCEPT ![s] = Append(@, hand[s])]
      <4>1. wire[s] \in Seq(Packets) /\ hand[s][1] = s
        BY <3>1
      <4>2. /\ \A i \in DOMAIN wire'[s] : wire'[s][i][1] = s
            /\ wire'[s] # <<>>
            /\ \A t \in Streams : t # s => wire'[t] = wire[t]
        BY <3>2, <4>1, AppendElements
      <4> QED
        BY <2>10, <3>1, <4>2 DEF LoopWrite
    <3> QED
      BY <2>10, <3>1, <3>2 DEF LoopWrite
  <2>11. CASE LoopAdd(s)
    BY <2>11 DEF LoopAdd
  <2> QED
    BY <1>2, <2>1, <2>2, <2>3, <2>4, <2>5, <2>6, <2>7, <2>8, <2>9, <2>10, <2>11 DEF Loop
<1>3. CASE ReadReport
  <2>1. PICK acked \in SUBSET OnWire : todo' \subseteq {Ssrc[p[1]] : p \in acked}
    BY <1>3 DEF ReadReport
  <2>2. UNCHANGED <<wire, lpc, wpc, target>> /\ rpc' = "next"
    BY <1>3 DEF ReadReport
  <2>3. ASSUME NEW s \in Streams, Ssrc[s] \in todo'
        PROVE  wire[s] # <<>>
    <3>1. PICK p \in acked : Ssrc[s] = Ssrc[p[1]]
      BY <2>1, <2>3
    <3>2. PICK t \in Streams : \E i \in DOMAIN wire[t] : wire[t][i] = p
      BY DEF OnWire
    <3>3. p[1] = t /\ wire[t] # <<>>
      BY <3>2
    <3> QED
      BY <3>1, <3>3
  <2> QED
    BY <2>2, <2>3
<1>4. CASE ReportDone
  BY <1>4 DEF ReportDone
<1>5. ASSUME NEW c \in Ssrcs, NotifyLookup(c)
      PROVE  WireInv'
  <2>1. PICK t \in Streams : c = Ssrc[t]
    OBVIOUS
  <2>2. target' \in {t, NoStream}
    BY <1>5, <2>1 DEF NotifyLookup
  <2>3. target' = t => wire[t] # <<>> /\ wpc[t] \notin {"unbound", "bypass"}
    BY <1>5, <2>1 DEF NotifyLookup
  <2>4. rpc' = "send" => target' # NoStream
    BY <1>5 DEF NotifyLookup
  <2>5. todo' \in SUBSET todo /\ UNCHANGED <<wire, lpc, wpc>>
    BY <1>5 DEF NotifyLookup
  <2>6. \A u \in Streams : target' = u => wire'[u] # <<>> /\ wpc'[u] \notin {"unbound", "bypass"}
    BY <2>2, <2>3, <2>5
  <2>7. \A u \in Streams : Ssrc[u] \in todo' => wire'[u] # <<>>
    BY <2>5
  <2> QED
    BY <2>4, <2>5, <2>6, <2>7
<1>6. ASSUME NEW l \in Streams, NewFeedback(l)
      PROVE  WireInv'
  BY <1>6 DEF NewFeedback, Woken
<1>7. CASE Control
  BY <1>7 DEF Control, GetTargetBitrate, BitrateReturn, CloseCall, CloseReturn
<1>8. CASE UNCHANGED vars
  BY <1>8 DEF vars
<1> QED
  BY <1>1, <1>2, <1>3, <1>4, <1>5, <1>6, <1>7, <1>8 DEF Next, Reader

\* Under distinct SSRCs everything about registration holds together.
OwnInv == TypeInv /\ WaitOff /\ RegInv /\ WireInv

\* With distinct SSRCs, streams stay separate in every behaviour.
LEMMA OwnInvariant == ASSUME DistinctSsrc PROVE Spec => []OwnInv
<1>1. Init => OwnInv
  BY TypeInit DEF Init, OwnInv, WaitOff, RegInv, WireInv, Ssrcs
<1>2. OwnInv /\ [Next]_vars => OwnInv'
  BY TypeStep, WaitOffStep, RegStep, WireStep DEF OwnInv
<1> QED
  BY <1>1, <1>2, PTL DEF Spec

\* With distinct SSRCs the RTCP reader never waits, holding rtpStreamsMu, for a
\* loop that still needs the mutex to start (FeedbackMeetsRunningLoop): feedback
\* names a stream only after its loop, past its first select, has written.
THEOREM FeedbackMeetsRunningLoopHolds ==
    ASSUME DistinctSsrc PROVE Spec => []FeedbackMeetsRunningLoop
<1>1. OwnInv => FeedbackMeetsRunningLoop
  BY DEF OwnInv, TypeInv, TypeOK, WireInv, FeedbackMeetsRunningLoop
<1> QED
  BY <1>1, OwnInvariant, PTL

-----------------------------------------------------------------------------
(* How each operation on the packets of one stream keeps them ordered.     *)

\* Discarding the backlog keeps the order.
LEMMA OrderedClear ==
    ASSUME NEW w, NEW H, NEW q, NEW n, Ordered(w, H, q, n)
    PROVE  Ordered(w, H, <<>>, n)
BY DEF Ordered

\* Losing the packet in hand keeps the order.
LEMMA OrderedDrop ==
    ASSUME NEW w, NEW H, NEW q, NEW n, Ordered(w, H, q, n)
    PROVE  Ordered(w, {}, q, n)
BY DEF Ordered

\* A packet written past the interceptor keeps the order.
LEMMA OrderedBypass ==
    ASSUME NEW w \in Seq(Packets), NEW n \in Nat, NEW s, Ordered(w, {}, <<>>, n)
    PROVE  Ordered(Append(w, <<s, n + 1>>), {}, <<>>, n + 1)
<1>1. \A i \in DOMAIN w : w[i][2] \in Int
  BY DEF Packets
<1> QED
  BY <1>1, AppendElements DEF Ordered

\* Enqueueing the next packet keeps the order.
LEMMA OrderedEnqueue ==
    ASSUME NEW w \in Seq(Packets), NEW q \in Seq(1..MaxPkts), NEW n \in Nat,
           NEW H \in SUBSET Int, Ordered(w, H, q, n)
    PROVE  Ordered(w, H, Append(q, n + 1), n + 1)
<1>1. \A i \in DOMAIN w : w[i][2] \in Int
  BY DEF Packets
<1>2. \A i \in DOMAIN q : q[i] \in Int
  OBVIOUS
<1> DEFINE r == Append(q, n + 1)
<1>3. /\ DOMAIN r = 1..(Len(q) + 1) /\ DOMAIN q = 1..Len(q) /\ Len(q) \in Nat
      /\ r[Len(q) + 1] = n + 1 /\ \A i \in 1..Len(q) : r[i] = q[i]
  BY AppendElements
<1> HIDE DEF r
<1>4. \A j \in DOMAIN r : (j \in DOMAIN q /\ r[j] = q[j]) \/ (j = Len(q) + 1 /\ r[j] = n + 1)
  BY <1>3
<1>5. \A i \in DOMAIN w : /\ w[i][2] <= n + 1
                          /\ \A j \in DOMAIN r : w[i][2] < r[j]
  BY <1>1, <1>2, <1>4 DEF Ordered
<1>6. \A i \in DOMAIN r : r[i] <= n + 1 /\ \A k \in H : k < r[i]
  BY <1>2, <1>4 DEF Ordered
<1>7. \A i \in DOMAIN r : \A j \in 1..(i - 1) : r[j] < r[i]
  <2> SUFFICES ASSUME NEW i \in DOMAIN r, NEW j \in 1..(i - 1)
               PROVE  r[j] < r[i]
    OBVIOUS
  <2>1. j \in DOMAIN q /\ r[j] = q[j] /\ i \in Int
    BY <1>3
  <2>2. CASE i = Len(q) + 1
    BY <1>2, <1>3, <2>1, <2>2 DEF Ordered
  <2>3. CASE i # Len(q) + 1
    <3>1. i \in DOMAIN q /\ r[i] = q[i]
      BY <1>3, <1>4, <2>3
    <3>2. q[j] < q[i]
      BY <3>1 DEF Ordered
    <3> QED
      BY <2>1, <3>1, <3>2
  <2> QED
    BY <2>2, <2>3
<1>8. \A k \in H : k <= n + 1
  BY DEF Ordered
<1> QED
  BY <1>5, <1>6, <1>7, <1>8 DEF Ordered, r

\* Taking the first packet of the queue in hand keeps the order.
LEMMA OrderedDequeue ==
    ASSUME NEW w \in Seq(Packets), NEW q \in Seq(1..MaxPkts), NEW n \in Nat,
           q # <<>>, Ordered(w, {}, q, n)
    PROVE  Ordered(w, {Head(q)}, Tail(q), n)
<1>1. \A i \in DOMAIN w : w[i][2] \in Int
  BY DEF Packets
<1>2. \A i \in DOMAIN q : q[i] \in Int
  OBVIOUS
<1> DEFINE r == Tail(q)
<1>3. /\ DOMAIN q = 1..Len(q) /\ Len(q) \in Nat \ {0} /\ Head(q) = q[1]
      /\ DOMAIN r = 1..(Len(q) - 1)
      /\ \A i \in 1..(Len(q) - 1) : r[i] = q[i + 1]
  BY TailElements
<1> HIDE DEF r
<1>4. \A i \in DOMAIN r : i + 1 \in DOMAIN q /\ r[i] = q[i + 1] /\ 1 \in 1..((i + 1) - 1)
  BY <1>3
<1>5. \A i \in DOMAIN r : \A j \in 1..(i - 1) : j \in DOMAIN r /\ j + 1 \in 1..((i + 1) - 1)
  BY <1>3
<1>6. \A i \in DOMAIN r : r[i] <= n /\ q[1] < r[i] /\ \A j \in 1..(i - 1) : r[j] < r[i]
  BY <1>4, <1>5 DEF Ordered
<1>7. q[1] <= n /\ 1 \in DOMAIN q
  BY <1>3 DEF Ordered
<1>8. \A i \in DOMAIN w : w[i][2] < q[1] /\ \A j \in DOMAIN r : w[i][2] < r[j]
  BY <1>4, <1>7 DEF Ordered
<1> QED
  BY <1>3, <1>6, <1>7, <1>8 DEF Ordered, r

\* Writing the packet in hand keeps the order.
LEMMA OrderedWrite ==
    ASSUME NEW w \in Seq(Packets), NEW p \in Packets, NEW q, NEW n,
           Ordered(w, {p[2]}, q, n)
    PROVE  Ordered(Append(w, p), {}, q, n)
<1>1. (\A i \in DOMAIN w : w[i][2] \in Int) /\ p[2] \in Int
  BY DEF Packets
<1> QED
  BY <1>1, AppendElements DEF Ordered

\* Every action keeps written, held and queued packets in order.
LEMMA OrderStep == OwnInv /\ OrderInv /\ [Next]_vars => OrderInv'
<1> SUFFICES ASSUME OwnInv, OrderInv, [Next]_vars
             PROVE  OrderInv'
  OBVIOUS
<1> USE DEF OwnInv, TypeInv, TypeOK, Wellformed, WaitOff, RegInv, OrderInv, At,
            Alive, ctlVars, appVars, loopVars, timeVars, rdrVars, endVars,
            netVars, rest
<1>1. ASSUME NEW s \in Streams, Writer(s)
      PROVE  OrderInv'
  <2>1. CASE Bind(s)
    BY <2>1 DEF InHand, Bind
  <2>2. CASE BypassWrite(s)
    <3>1. /\ wire' = [wire EXCEPT ![s] = Append(wire[s], <<s, accepted[s] + 1>>)]
          /\ accepted' = [accepted EXCEPT ![s] = accepted[s] + 1]
          /\ queue[s] = <<>> /\ lpc[s] = "off"
      BY <2>2 DEF BypassWrite
    <3>2. UNCHANGED <<queue, lpc, hand, wpc>>
      BY <2>2 DEF BypassWrite
    <3>3. InHand(s) = {} /\ \A t \in Streams : InHand(t)' = InHand(t)
      BY <3>1, <3>2 DEF InHand
    <3>4. wire[s] \in Seq(Packets) /\ accepted[s] \in Nat
      OBVIOUS
    <3>5. Ordered(wire[s], {}, <<>>, accepted[s])
      BY <3>1, <3>3
    <3>6. Ordered(Append(wire[s], <<s, accepted[s] + 1>>), {}, <<>>, accepted[s] + 1)
      BY <3>4, <3>5, OrderedBypass
    <3>7. /\ wire'[s] = Append(wire[s], <<s, accepted[s] + 1>>)
          /\ accepted'[s] = accepted[s] + 1
          /\ \A t \in Streams : t # s => wire'[t] = wire[t] /\ accepted'[t] = accepted[t]
      BY <3>1
    <3>8. Ordered(wire'[s], InHand(s)', queue'[s], accepted'[s])
      <4>1. InHand(s)' = {} /\ queue'[s] = <<>>
        BY <3>1, <3>2, <3>3
      <4> QED
        BY <3>6, <3>7, <4>1
    <3>9. \A t \in Streams : t # s => Ordered(wire'[t], InHand(t)', queue'[t], accepted'[t])
      <4> SUFFICES ASSUME NEW t \in Streams, t # s
                   PROVE  Ordered(wire'[t], InHand(t)', queue'[t], accepted'[t])
        OBVIOUS
      <4>1. wire'[t] = wire[t] /\ accepted'[t] = accepted[t]
        BY <3>7
      <4>2. queue'[t] = queue[t] /\ InHand(t)' = InHand(t)
        BY <3>2, <3>3
      <4> QED
        BY <4>1, <4>2
    <3> QED
      BY <3>2, <3>8, <3>9
  <2>3. CASE WriteCall(s)
    BY <2>3 DEF InHand, WriteCall
  <2>4. CASE WriteRegister(s)
    BY <2>4 DEF InHand, WriteRegister
  <2>5. CASE WriteStart(s)
    BY <2>5 DEF InHand, WriteStart
  <2>6. CASE WriteEnqueue(s)
    <3>1. /\ queue' = [queue EXCEPT ![s] = Append(queue[s], accepted[s] + 1)]
          /\ accepted' = [accepted EXCEPT ![s] = accepted[s] + 1]
      BY <2>6 DEF WriteEnqueue, Enqueue
    <3>2. UNCHANGED <<wire, lpc, hand>>
      BY <2>6 DEF WriteEnqueue
    <3>3. \A t \in Streams : wpc'[t] \in {"unbound", "bypass"} => wpc[t] = wpc'[t] /\ t # s
      BY <2>6 DEF WriteEnqueue
    <3>4. \A t \in Streams : InHand(t)' = InHand(t)
      BY <3>2 DEF InHand
    <3>5. /\ wire[s] \in Seq(Packets) /\ queue[s] \in Seq(1..MaxPkts)
          /\ accepted[s] \in Nat /\ InHand(s) \in SUBSET Int
      BY DEF InHand
    <3>6. Ordered(wire'[s], InHand(s)', queue'[s], accepted'[s])
      BY <3>1, <3>2, <3>4, <3>5, OrderedEnqueue
    <3> QED
      BY <3>1, <3>2, <3>3, <3>4, <3>6
  <2>7. CASE WriteFrame(s)
    <3>1. \A t \in Streams : queue'[t] = <<>> \/ queue'[t] = queue[t]
      BY <2>7 DEF WriteFrame, MayClear
    <3>2. UNCHANGED <<wire, lpc, hand, accepted>>
      BY <2>7 DEF WriteFrame
    <3>3. \A t \in Streams : wpc'[t] \in {"unbound", "bypass"} => wpc[t] = wpc'[t]
      BY <2>7 DEF WriteFrame
    <3>4. \A t \in Streams : InHand(t)' = InHand(t)
      BY <3>2 DEF InHand
    <3> QED
      BY <3>1, <3>2, <3>3, <3>4, OrderedClear
  <2>8. CASE UnbindLocalStream(s)
    BY <2>8 DEF InHand, UnbindLocalStream
  <2>9. ASSUME NEW l \in Streams, NewFrame(s, l)
        PROVE  OrderInv'
    BY <2>9 DEF InHand, NewFrame, Woken
  <2> QED
    BY <1>1, <2>1, <2>2, <2>3, <2>4, <2>5, <2>6, <2>7, <2>8, <2>9 DEF Writer
<1>2. ASSUME NEW s \in Streams, Loop(s)
      PROVE  OrderInv'
  <2>1. CASE LoopLookup(s)
    BY <2>1 DEF InHand, LoopLookup
  <2>2. CASE LoopTimer(s)
    BY <2>2 DEF InHand, LoopTimer
  <2>3. CASE LoopClose(s)
    BY <2>3 DEF InHand, LoopClose
  <2>4. CASE LoopCheck(s)
    BY <2>4 DEF InHand, LoopCheck
  <2>5. CASE AskNo(s)
    BY <2>5 DEF InHand, AskNo
  <2>6. CASE AskOk(s)
    BY <2>6 DEF InHand, AskOk
  <2>7. CASE AskPace(s)
    BY <2>7 DEF InHand, AskPace
  <2>8. CASE TimerFires(s)
    BY <2>8 DEF InHand, TimerFires
  <2>9. CASE LoopDequeue(s)
    <3>1. lpc[s] = "dequeue" /\ UNCHANGED <<wire, accepted, wpc>>
      BY <2>9 DEF LoopDequeue
    <3>2. object[s] = s
      <4>1. object[s] \in Streams /\ object[s] \in {s, NoStream}
        BY <3>1
      <4> QED
        BY <4>1, NoStreamIsNone
    <3>3. CASE queue[s] = <<>>
      <4>1. UNCHANGED <<queue, hand>> /\ lpc' = [lpc EXCEPT ![s] = "select"]
        BY <2>9, <3>2, <3>3 DEF LoopDequeue
      <4>2. \A t \in Streams : InHand(t)' = InHand(t)
        BY <3>1, <4>1 DEF InHand
      <4> QED
        BY <3>1, <4>1, <4>2
    <3>4. CASE queue[s] # <<>>
      <4>1. /\ hand' = [hand EXCEPT ![s] = <<s, Head(queue[s])>>]
            /\ queue' = [queue EXCEPT ![s] = Tail(queue[s])]
            /\ lpc' = [lpc EXCEPT ![s] = "write"]
        BY <2>9, <3>2, <3>4 DEF LoopDequeue, Dequeue
      <4>2. InHand(s) = {} /\ InHand(s)' = {Head(queue[s])}
        BY <3>1, <4>1 DEF InHand
      <4>3. \A t \in Streams : t # s => InHand(t)' = InHand(t)
        BY <4>1 DEF InHand
      <4>4. wire[s] \in Seq(Packets) /\ queue[s] \in Seq(1..MaxPkts) /\ accepted[s] \in Nat
        OBVIOUS
      <4>5. Ordered(wire'[s], InHand(s)', queue'[s], accepted'[s])
        <5>1. Ordered(wire[s], {Head(queue[s])}, Tail(queue[s]), accepted[s])
          BY <3>4, <4>2, <4>4, OrderedDequeue
        <5> QED
          BY <3>1, <4>1, <4>2, <5>1
      <4>6. wpc[s] \notin {"unbound", "bypass"}
        BY <3>1
      <4> QED
        BY <3>1, <4>1, <4>3, <4>5, <4>6
    <3> QED
      BY <3>3, <3>4
  <2>10. CASE LoopWrite(s)
    <3>1. lpc[s] = "write" /\ lpc' = [lpc EXCEPT ![s] = "add"]
      BY <2>10 DEF LoopWrite
    <3>2. UNCHANGED <<queue, hand, accepted, wpc>>
      BY <2>10 DEF LoopWrite
    <3>3. /\ InHand(s) = {hand[s][2]} /\ InHand(s)' = {}
          /\ \A t \in Streams : t # s => InHand(t)' = InHand(t)
      BY <3>1, <3>2 DEF InHand
    <3>4. wire[s] \in Seq(Packets) /\ hand[s] \in Packets
      BY <3>1
    <3>5. CASE wire' = [wire EXCEPT ![s] = Append(@, hand[s])]
      <4>1. Ordered(wire'[s], {}, queue[s], accepted[s])
        BY <3>3, <3>4, <3>5, OrderedWrite
      <4>2. \A t \in Streams : Ordered(wire'[t], InHand(t)', queue[t], accepted[t])
        <5> TAKE t \in Streams
        <5>1. CASE t = s
          BY <3>3, <4>1, <5>1
        <5>2. CASE t # s
          BY <3>3, <3>5, <5>2
        <5> QED
          BY <5>1, <5>2
      <4> QED
        BY <3>2, <4>2
    <3>6. CASE UNCHANGED wire
      <4>1. Ordered(wire[s], {}, queue[s], accepted[s])
        BY <3>3, OrderedDrop
      <4>2. \A t \in Streams : Ordered(wire[t], InHand(t)', queue[t], accepted[t])
        <5> TAKE t \in Streams
        <5>1. CASE t = s
          BY <3>3, <4>1, <5>1
        <5>2. CASE t # s
          BY <3>3, <5>2
        <5> QED
          BY <5>1, <5>2
      <4> QED
        BY <3>2, <3>6, <4>2
    <3> QED
      BY <2>10, <3>5, <3>6 DEF LoopWrite
  <2>11. CASE LoopAdd(s)
    BY <2>11 DEF InHand, LoopAdd
  <2> QED
    BY <1>2, <2>1, <2>2, <2>3, <2>4, <2>5, <2>6, <2>7, <2>8, <2>9, <2>10, <2>11 DEF Loop
<1>3. CASE ReadReport
  <2>1. \A t \in Streams : queue'[t] = <<>> \/ queue'[t] = queue[t]
    BY <1>3 DEF ReadReport, MayClear
  <2>2. UNCHANGED <<wire, lpc, hand, accepted>>
    BY <1>3 DEF ReadReport
  <2>3. \A t \in Streams : wpc'[t] \in {"unbound", "bypass"} => wpc[t] = wpc'[t]
    BY <1>3 DEF ReadReport
  <2>4. \A t \in Streams : InHand(t)' = InHand(t)
    BY <2>2 DEF InHand
  <2> QED
    BY <2>1, <2>2, <2>3, <2>4, OrderedClear
<1>4. CASE ReportDone
  BY <1>4 DEF InHand, ReportDone
<1>5. ASSUME NEW c \in Ssrcs, NotifyLookup(c)
      PROVE  OrderInv'
  BY <1>5 DEF InHand, NotifyLookup
<1>6. ASSUME NEW l \in Streams, NewFeedback(l)
      PROVE  OrderInv'
  BY <1>6 DEF InHand, NewFeedback, Woken
<1>7. CASE Control
  BY <1>7 DEF InHand, Control, GetTargetBitrate, BitrateReturn, CloseCall, CloseReturn
<1>8. CASE UNCHANGED vars
  BY <1>8 DEF InHand, vars
<1> QED
  BY <1>1, <1>2, <1>3, <1>4, <1>5, <1>6, <1>7, <1>8 DEF Next, Reader

\* With distinct SSRCs the transport gets the packets of a stream in the order in
\* which they were written to the interceptor, none twice (InOrder), whatever tx
\* discards and however writers, loops, feedback and Close interleave.
THEOREM InOrderHolds == ASSUME DistinctSsrc PROVE Spec => []InOrder
<1>1. Init => OrderInv
  BY DEF Init, OrderInv, Ordered, InHand
<1>2. Spec => [](OwnInv /\ OrderInv)
  BY <1>1, OwnInvariant, OrderStep, PTL DEF Spec
<1>3. OwnInv /\ OrderInv => InOrder
  BY DEF OwnInv, WireInv, OrderInv, Ordered, InOrder
<1> QED
  BY <1>2, <1>3, PTL

-----------------------------------------------------------------------------
(* The window.                                                             *)

\* Fewer packets in flight and fewer permissions keep the bound.
LEMMA WindowShrinks ==
    ASSUME WindowInv, Permitted' \subseteq Permitted, inFlight' \subseteq inFlight
    PROVE  WindowInv'
<1>1. IsFiniteSet(Permitted)
  BY StreamsFinite, FS_Subset DEF Permitted
<1>2. /\ Cardinality(Permitted') <= Cardinality(Permitted)
      /\ Cardinality(Permitted) \in Nat /\ Cardinality(Permitted') \in Nat
  BY <1>1, FS_Subset, FS_CardinalityType
<1>3. /\ IsFiniteSet(inFlight')
      /\ Cardinality(inFlight') <= Cardinality(inFlight)
      /\ Cardinality(inFlight) \in Nat /\ Cardinality(inFlight') \in Nat
  BY FS_Subset, FS_CardinalityType DEF WindowInv
<1>4. Cardinality(Streams) \in Nat
  BY StreamsFinite, FS_CardinalityType
<1> QED
  BY <1>2, <1>3, <1>4 DEF WindowInv

\* Every action keeps the bound on packets in flight and permissions.
LEMMA WindowStep == TypeInv /\ WindowInv /\ [Next]_vars => WindowInv'
<1> SUFFICES ASSUME TypeInv, WindowInv, [Next]_vars
             PROVE  WindowInv'
  OBVIOUS
<1> USE DEF TypeInv, TypeOK, LoopState, Busy, At, Alive, ctlVars, appVars,
            loopVars, timeVars, rdrVars, endVars, netVars, rest
<1>1. ASSUME NEW s \in Streams, Writer(s)
      PROVE  WindowInv'
  <2>1. CASE Bind(s)
    BY <2>1, WindowShrinks DEF Bind, Permitted
  <2>2. CASE BypassWrite(s)
    BY <2>2, WindowShrinks DEF BypassWrite, Permitted
  <2>3. CASE WriteCall(s)
    BY <2>3, WindowShrinks DEF WriteCall, Permitted
  <2>4. CASE WriteRegister(s)
    BY <2>4, WindowShrinks DEF WriteRegister, Permitted
  <2>5. CASE WriteStart(s)
    BY <2>5, WindowShrinks DEF WriteStart, Permitted
  <2>6. CASE WriteEnqueue(s)
    BY <2>6, WindowShrinks DEF WriteEnqueue, Permitted
  <2>7. CASE WriteFrame(s)
    BY <2>7, WindowShrinks DEF WriteFrame, Permitted
  <2>8. CASE UnbindLocalStream(s)
    BY <2>8, WindowShrinks DEF UnbindLocalStream, Permitted
  <2>9. ASSUME NEW l \in Streams, NewFrame(s, l)
        PROVE  WindowInv'
    BY <2>9, WindowShrinks DEF NewFrame, Woken, Permitted
  <2> QED
    BY <1>1, <2>1, <2>2, <2>3, <2>4, <2>5, <2>6, <2>7, <2>8, <2>9 DEF Writer
<1>2. ASSUME NEW s \in Streams, Loop(s)
      PROVE  WindowInv'
  <2>1. CASE LoopLookup(s)
    BY <2>1, WindowShrinks DEF LoopLookup, Permitted
  <2>2. CASE LoopTimer(s)
    BY <2>2, WindowShrinks DEF LoopTimer, Permitted
  <2>3. CASE LoopClose(s)
    BY <2>3, WindowShrinks DEF LoopClose, Permitted
  <2>4. CASE LoopCheck(s)
    BY <2>4, WindowShrinks DEF LoopCheck, Permitted
  <2>5. CASE AskNo(s)
    BY <2>5, WindowShrinks DEF AskNo, Permitted
  <2>6. CASE AskOk(s)
    <3>1. Cardinality(inFlight) < Cwnd /\ inFlight' = inFlight
      BY <2>6 DEF AskOk, WindowOpen
    <3>2. Cardinality(Permitted') <= Cardinality(Streams) /\ Cardinality(Permitted') \in Nat
      BY StreamsFinite, FS_Subset, FS_CardinalityType DEF Permitted
    <3>3. Cardinality(inFlight) \in Nat /\ Cardinality(Streams) \in Nat
      BY StreamsFinite, FS_CardinalityType DEF WindowInv
    <3> QED
      BY <3>1, <3>2, <3>3 DEF WindowInv
  <2>7. CASE AskPace(s)
    BY <2>7, WindowShrinks DEF AskPace, Permitted
  <2>8. CASE TimerFires(s)
    BY <2>8, WindowShrinks DEF TimerFires, Permitted
  <2>9. CASE LoopDequeue(s)
    BY <2>9, WindowShrinks DEF LoopDequeue, Permitted
  <2>10. CASE LoopWrite(s)
    BY <2>10, WindowShrinks DEF LoopWrite, Permitted
  <2>11. CASE LoopAdd(s)
    <3>1. inFlight' = inFlight \union {hand[s]}
      BY <2>11 DEF LoopAdd
    <3>2. s \in Permitted /\ Permitted' = Permitted \ {s}
      BY <2>11 DEF LoopAdd, Permitted
    <3>3. IsFiniteSet(Permitted)
      BY StreamsFinite, FS_Subset DEF Permitted
    <3>4. /\ Cardinality(Permitted') = Cardinality(Permitted) - 1
          /\ Cardinality(Permitted) \in Nat
      BY <3>2, <3>3, FS_RemoveElement, FS_CardinalityType
    <3>5. /\ IsFiniteSet(inFlight')
          /\ Cardinality(inFlight') <= Cardinality(inFlight) + 1
          /\ Cardinality(inFlight) \in Nat /\ Cardinality(inFlight') \in Nat
      <4>1. IsFiniteSet(inFlight) /\ Cardinality(inFlight) \in Nat
        BY FS_CardinalityType DEF WindowInv
      <4>2. /\ IsFiniteSet(inFlight \union {hand[s]})
            /\ \/ Cardinality(inFlight \union {hand[s]}) = Cardinality(inFlight)
               \/ Cardinality(inFlight \union {hand[s]}) = Cardinality(inFlight) + 1
        BY <4>1, FS_AddElement
      <4> QED
        BY <3>1, <4>1, <4>2
    <3>6. Cardinality(Streams) \in Nat
      BY StreamsFinite, FS_CardinalityType
    <3> QED
      BY <3>4, <3>5, <3>6 DEF WindowInv
  <2> QED
    BY <1>2, <2>1, <2>2, <2>3, <2>4, <2>5, <2>6, <2>7, <2>8, <2>9, <2>10, <2>11 DEF Loop
<1>3. CASE ReadReport
  BY <1>3, WindowShrinks DEF ReadReport, Permitted
<1>4. CASE ReportDone
  BY <1>4, WindowShrinks DEF ReportDone, Permitted
<1>5. ASSUME NEW c \in Ssrcs, NotifyLookup(c)
      PROVE  WindowInv'
  BY <1>5, WindowShrinks DEF NotifyLookup, Permitted
<1>6. ASSUME NEW l \in Streams, NewFeedback(l)
      PROVE  WindowInv'
  BY <1>6, WindowShrinks DEF NewFeedback, Woken, Permitted
<1>7. CASE Control
  BY <1>7, WindowShrinks DEF Control, GetTargetBitrate, BitrateReturn, CloseCall,
      CloseReturn, Permitted
<1>8. CASE UNCHANGED vars
  BY <1>8, WindowShrinks DEF vars, Permitted
<1> QED
  BY <1>1, <1>2, <1>3, <1>4, <1>5, <1>6, <1>7, <1>8 DEF Next, Reader

\* The packets in flight exceed the window by less than one packet per stream
\* (WindowOvershoot): a permission and its booking are separate sections of s.m,
\* but every loop books a packet before it asks for the next permission.
THEOREM WindowOvershootHolds == Spec => []WindowOvershoot
<1>1. Init => WindowInv
  <2> SUFFICES ASSUME Init PROVE WindowInv
    OBVIOUS
  <2>1. inFlight = {} /\ Permitted = {}
    BY DEF Init, Permitted, Busy
  <2>2. Cardinality(Streams) \in Nat
    BY StreamsFinite, FS_CardinalityType
  <2> QED
    BY <2>1, <2>2, FS_EmptySet DEF WindowInv
<1>2. Spec => []WindowInv
  BY <1>1, TypeInit, TypeStep, WindowStep, PTL DEF Spec
<1>3. WindowInv => WindowOvershoot
  <2>1. ASSUME WindowInv PROVE Cardinality(Permitted) \in Nat /\ Cardinality(inFlight) \in Nat
    BY <2>1, StreamsFinite, FS_Subset, FS_CardinalityType DEF Permitted, WindowInv
  <2>2. Cardinality(Streams) \in Nat
    BY StreamsFinite, FS_CardinalityType
  <2> QED
    BY <2>1, <2>2 DEF WindowInv, WindowOvershoot
<1> QED
  BY <1>2, <1>3, PTL

-----------------------------------------------------------------------------
(* The wait group.                                                         *)

\* The streams that the wait group counts are finitely many.
LEMMA CountedFinite == IsFiniteSet(Counted) /\ Cardinality(Counted) \in Nat
BY StreamsFinite, FS_Subset, FS_CardinalityType DEF Counted

\* A step that moves no stream in or out of Counted keeps the count.
LEMMA WaitSame ==
    ASSUME WaitInv, Counted' = Counted, UNCHANGED <<wg, cpc, closed>>
    PROVE  WaitInv'
BY DEF WaitInv

\* Every action keeps the wait group equal to the number of counted streams.
LEMMA WaitStep == TypeInv /\ WaitOff /\ WaitInv /\ [Next]_vars => WaitInv'
<1> SUFFICES ASSUME TypeInv, WaitOff, WaitInv, [Next]_vars
             PROVE  WaitInv'
  OBVIOUS
<1> USE DEF TypeInv, TypeOK, WriterState, WaitOff, At, Alive, ctlVars, appVars,
            loopVars, timeVars, rdrVars, endVars, netVars, rest
<1>1. ASSUME NEW s \in Streams, Writer(s)
      PROVE  WaitInv'
  <2>1. CASE Bind(s)
    <3>1. CASE closed
      <4>1. Counted' = Counted /\ UNCHANGED <<wg, cpc, closed>>
        BY <2>1, <3>1 DEF Bind, Counted
      <4> QED
        BY <4>1 DEF WaitInv
    <3>2. CASE ~closed
      <4>1. /\ s \notin Counted /\ Counted' = Counted \union {s}
            /\ wg' = wg + 1 /\ UNCHANGED <<cpc, closed>>
        BY <2>1, <3>2 DEF Bind, Counted
      <4>2. Cardinality(Counted') = Cardinality(Counted) + 1
        BY <4>1, CountedFinite, FS_AddElement
      <4> QED
        BY <3>2, <4>1, <4>2 DEF WaitInv
    <3> QED
      BY <3>1, <3>2
  <2>2. CASE BypassWrite(s)
    BY <2>2, WaitSame DEF BypassWrite, Counted
  <2>3. CASE WriteCall(s)
    BY <2>3, WaitSame DEF WriteCall, Counted
  <2>4. CASE WriteRegister(s)
    BY <2>4, WaitSame DEF WriteRegister, Counted
  <2>5. CASE WriteStart(s)
    BY <2>5, WaitSame DEF WriteStart, Counted
  <2>6. CASE WriteEnqueue(s)
    BY <2>6, WaitSame DEF WriteEnqueue, Counted
  <2>7. CASE WriteFrame(s)
    BY <2>7, WaitSame DEF WriteFrame, Counted
  <2>8. CASE UnbindLocalStream(s)
    BY <2>8, WaitSame DEF UnbindLocalStream, Counted
  <2>9. ASSUME NEW l \in Streams, NewFrame(s, l)
        PROVE  WaitInv'
    BY <2>9, WaitSame DEF NewFrame, Woken, Counted
  <2> QED
    BY <1>1, <2>1, <2>2, <2>3, <2>4, <2>5, <2>6, <2>7, <2>8, <2>9 DEF Writer
<1>2. ASSUME NEW s \in Streams, Loop(s)
      PROVE  WaitInv'
  <2>1. CASE LoopLookup(s)
    BY <2>1, WaitSame DEF LoopLookup, Counted
  <2>2. CASE LoopTimer(s)
    BY <2>2, WaitSame DEF LoopTimer, Counted
  <2>3. CASE LoopClose(s)
    <3>1. /\ s \in Counted /\ Counted' = Counted \ {s}
          /\ wg' = wg - 1 /\ UNCHANGED <<cpc, closed>>
      BY <2>3 DEF LoopClose, Counted
    <3>2. Cardinality(Counted') = Cardinality(Counted) - 1
      BY <3>1, CountedFinite, FS_RemoveElement
    <3> QED
      BY <3>1, <3>2 DEF WaitInv
  <2>4. CASE LoopCheck(s)
    BY <2>4, WaitSame DEF LoopCheck, Counted
  <2>5. CASE AskNo(s)
    BY <2>5, WaitSame DEF AskNo, Counted
  <2>6. CASE AskOk(s)
    BY <2>6, WaitSame DEF AskOk, Counted
  <2>7. CASE AskPace(s)
    BY <2>7, WaitSame DEF AskPace, Counted
  <2>8. CASE TimerFires(s)
    BY <2>8, WaitSame DEF TimerFires, Counted
  <2>9. CASE LoopDequeue(s)
    BY <2>9, WaitSame DEF LoopDequeue, Counted
  <2>10. CASE LoopWrite(s)
    BY <2>10, WaitSame DEF LoopWrite, Counted
  <2>11. CASE LoopAdd(s)
    BY <2>11, WaitSame DEF LoopAdd, Counted
  <2> QED
    BY <1>2, <2>1, <2>2, <2>3, <2>4, <2>5, <2>6, <2>7, <2>8, <2>9, <2>10, <2>11 DEF Loop
<1>3. CASE ReadReport
  BY <1>3, WaitSame DEF ReadReport, Counted
<1>4. CASE ReportDone
  BY <1>4, WaitSame DEF ReportDone, Counted
<1>5. ASSUME NEW c \in Ssrcs, NotifyLookup(c)
      PROVE  WaitInv'
  BY <1>5, WaitSame DEF NotifyLookup, Counted
<1>6. ASSUME NEW l \in Streams, NewFeedback(l)
      PROVE  WaitInv'
  BY <1>6, WaitSame DEF NewFeedback, Woken, Counted
<1>7. CASE Control
  <2>1. Counted' = Counted /\ UNCHANGED wg
    BY <1>7 DEF Counted, Control, GetTargetBitrate, BitrateReturn, CloseCall, CloseReturn
  <2>2. CASE GetTargetBitrate \/ BitrateReturn
    BY <2>1, <2>2 DEF WaitInv, GetTargetBitrate, BitrateReturn
  <2>3. CASE CloseCall
    BY <2>1, <2>3 DEF WaitInv, CloseCall
  <2>4. CASE CloseReturn
    <3>1. cpc = "waiting" /\ wg = 0 /\ UNCHANGED closed
      BY <2>4 DEF CloseReturn
    <3>2. Counted = {}
      BY <3>1, CountedFinite, FS_EmptySet DEF WaitInv
    <3> QED
      BY <2>1, <3>1, <3>2 DEF WaitInv
  <2> QED
    BY <1>7, <2>2, <2>3, <2>4 DEF Control
<1>8. CASE UNCHANGED vars
  BY <1>8, WaitSame DEF vars, Counted
<1> QED
  BY <1>1, <1>2, <1>3, <1>4, <1>5, <1>6, <1>7, <1>8 DEF Next, Reader

\* When Close has returned, no pacing loop runs and none can be started any more
\* (CloseMeansQuiet): the wait group counts every stream from the moment it is
\* bound, not from the moment its loop is started.
THEOREM CloseMeansQuietHolds == Spec => []CloseMeansQuiet
<1>1. Init => WaitOff /\ WaitInv
  <2> SUFFICES ASSUME Init PROVE WaitOff /\ WaitInv
    OBVIOUS
  <2>1. Counted = {} /\ WaitOff
    BY DEF Init, Counted, WaitOff
  <2> QED
    BY <2>1, FS_EmptySet DEF Init, WaitInv
<1>2. Spec => [](WaitOff /\ WaitInv)
  BY <1>1, TypeInit, TypeStep, WaitOffStep, WaitStep, PTL DEF Spec
<1>3. WaitOff /\ WaitInv => CloseMeansQuiet
  BY DEF WaitOff, WaitInv, Counted, CloseMeansQuiet
<1> QED
  BY <1>2, <1>3, PTL
=============================================================================

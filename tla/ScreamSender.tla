---------------------------- MODULE ScreamSender ----------------------------
(***************************************************************************)
(* The SCReAM sender interceptor (scream/sender_interceptor.go): the       *)
(* goroutines that call the RTP writer of each bound stream, one pacing    *)
(* loop per stream, the goroutine that reads RTCP feedback, a caller of    *)
(* GetTargetBitrate and a caller of Close.                                 *)
(*                                                                         *)
(* The mutex s.m is never held across a blocking operation, so a section   *)
(* it protects is one step.  rtpStreamsMu is held by the RTCP reader while *)
(* it blocks on a stream's newFeedback channel, so it is modelled: it is   *)
(* taken exactly while rpc = "send".  The channels newFrame and            *)
(* newFeedback are unbuffered, so a send and its receive are one step.     *)
(*                                                                         *)
(* tx is the SCReAM library.  It is modelled by what the interceptor       *)
(* relies on: a set of packets in flight, a window of Cwnd packets, and    *)
(* the three answers of IsOkToTransmit.                                    *)
(***************************************************************************)
EXTENDS Integers, Sequences, FiniteSets

CONSTANTS
    Streams,   \* the local streams (StreamInfo and RTPWriter pairs)
    Ssrc,      \* Ssrc[s] is info.SSRC of stream s; two streams may share one
    MaxPkts,   \* bound: packets the application writes per stream
    Cwnd,      \* congestion window of tx, in packets
    Ops,       \* teardown calls the application makes: "Close", "Unbind"
    NoStream   \* an SSRC that is not registered maps to this

ASSUME StreamsFinite  == IsFiniteSet(Streams)
ASSUME SsrcIsFunction == DOMAIN Ssrc = Streams
ASSUME MaxPktsIsNat   == MaxPkts \in Nat
ASSUME CwndPositive   == Cwnd \in Nat \ {0}
ASSUME NoStreamIsNone == NoStream \notin Streams

VARIABLES
    closed,     \* the channel s.close is closed
    wg,         \* counter of the wait group s.wg
    rtpStreams, \* s.rtpStreams: SSRC -> stream object, or NoStream
    wpc,        \* per stream: where its RTP writer is
    accepted,   \* per stream: packets the application handed over
    queue,      \* per stream: its RTPQueue, numbers of waiting packets
    lpc,        \* per stream: where its loopPacingTimer is
    object,     \* per stream: the stream object that its loop looked up
    hand,       \* per stream: the packet its loop dequeued
    timerSet,   \* per loop: the variable timerSet
    timerClosed,\* per loop: the current timer channel is closed
    armed,      \* per loop: AfterFunc timers that have not fired
    wire,       \* per stream: packets that its RTPWriter wrote
    inFlight,   \* packets tx counts as in flight
    rpc,        \* where the RTCP reader is
    todo,       \* SSRCs of the report that are still to be notified
    target,     \* the stream whose newFeedback channel the reader blocks on
    gpc,        \* where the caller of GetTargetBitrate is
    cpc,        \* where the caller of Close is
    panicked    \* "no", or what crashed the process

ctlVars  == <<closed, wg, rtpStreams>>
appVars  == <<wpc, accepted>>
loopVars == <<lpc, object, hand>>
timeVars == <<timerSet, timerClosed, armed>>
rdrVars  == <<rpc, todo, target>>
endVars  == <<gpc, cpc, panicked>>
netVars  == <<wire, inFlight>>
rest     == <<rdrVars, endVars>>
vars == <<ctlVars, appVars, queue, loopVars, timeVars, netVars, rest>>

Ssrcs    == {Ssrc[s] : s \in Streams}
Packets  == Streams \X (1..MaxPkts)
OnWire   == {p \in Packets : \E s \in Streams : \E i \in DOMAIN wire[s] : wire[s][i] = p}
MuFree   == rpc # "send"
Alive    == panicked = "no"                 \* a panic ends every goroutine
At(pc, s, l) == Alive /\ pc[s] = l
Busy     == {"dequeue", "write", "add"}   \* between IsOkToTransmit and AddTransmitted

Init ==
    /\ closed = FALSE
    /\ wg = 0
    /\ rtpStreams  = [c \in Ssrcs |-> NoStream]
    /\ wpc         = [s \in Streams |-> "unbound"]
    /\ accepted    = [s \in Streams |-> 0]
    /\ queue       = [s \in Streams |-> <<>>]
    /\ lpc         = [s \in Streams |-> "off"]
    /\ object      = [s \in Streams |-> NoStream]
    /\ hand        = [s \in Streams |-> <<s, 0>>]
    /\ timerSet    = [s \in Streams |-> FALSE]
    /\ timerClosed = [s \in Streams |-> FALSE]
    /\ armed       = [s \in Streams |-> 0]
    /\ wire        = [s \in Streams |-> <<>>]
    /\ inFlight = {}
    /\ rpc = "idle" /\ todo = {} /\ target = NoStream
    /\ gpc = "idle" /\ cpc = "idle" /\ panicked = "no"

-----------------------------------------------------------------------------
(* The RTPQueue of a stream: a FIFO list under a mutex of its own.         *)

\* Mutant: the packet is read but stays in the list.
Dequeue_Peek(q) == [packet |-> Head(q), rest |-> q]

Enqueue(q, p) == Append(q, p)
Dequeue(q)    == [packet |-> Head(q), rest |-> Tail(q)]

-----------------------------------------------------------------------------
(* The library tx, as sender_interceptor.go uses it.                       *)

\* IsOkToTransmit answers for an SSRC.
WindowOpen == Cardinality(inFlight) < Cwnd
Waiting(s)   == \E t \in Streams : Ssrc[t] = Ssrc[s] /\ queue[t] # <<>>
NoneWaits(s) == \E t \in Streams : Ssrc[t] = Ssrc[s] /\ queue[t] = <<>>

\* Reacting to a frame or to feedback, tx may discard the backlog of streams.
MayClear(S) == \E C \in SUBSET S :
    queue' = [s \in Streams |-> IF s \in C THEN <<>> ELSE queue[s]]

-----------------------------------------------------------------------------
(* BindLocalStream and the RTP writer that it returns.                     *)

\* Mutant: the wait group does not count the stream when it is bound.
Bind_NoAdd(s) ==
    /\ At(wpc, s, "unbound")
    /\ wpc' = [wpc EXCEPT ![s] = IF closed THEN "bypass" ELSE "idle"]
    /\ UNCHANGED <<ctlVars, accepted, queue, loopVars, timeVars,
                   netVars, rest>>

\* A stream bound after Close keeps the writer it came with.
Bind(s) ==
    /\ At(wpc, s, "unbound")
    /\ IF closed
       THEN wpc' = [wpc EXCEPT ![s] = "bypass"] /\ wg' = wg
       ELSE wpc' = [wpc EXCEPT ![s] = "idle"]   /\ wg' = wg + 1
    /\ UNCHANGED <<closed, rtpStreams, accepted, queue, loopVars, timeVars,
                   netVars, rest>>

\* Without the interceptor the packet goes straight to the transport.
BypassWrite(s) ==
    /\ At(wpc, s, "bypass")
    /\ accepted[s] < MaxPkts
    /\ accepted' = [accepted EXCEPT ![s] = @ + 1]
    /\ wire' = [wire EXCEPT ![s] = Append(@, <<s, accepted[s] + 1>>)]
    /\ UNCHANGED <<ctlVars, wpc, queue, loopVars, timeVars, inFlight, rest>>

\* The application writes a packet; `initialized` holds once the loop was started.
WriteCall(s) ==
    /\ At(wpc, s, "idle")
    /\ accepted[s] < MaxPkts
    /\ wpc' = [wpc EXCEPT ![s] = IF lpc[s] = "off" THEN "register" ELSE "enqueue"]
    /\ UNCHANGED <<ctlVars, accepted, queue, loopVars, timeVars, netVars,
                   rest>>

\* First packet: the stream object is entered under its SSRC.
WriteRegister(s) ==
    /\ At(wpc, s, "register")
    /\ MuFree
    /\ rtpStreams' = [rtpStreams EXCEPT ![Ssrc[s]] = s]
    /\ wpc' = [wpc EXCEPT ![s] = "start"]
    /\ UNCHANGED <<closed, wg, accepted, queue, loopVars, timeVars, netVars,
                   rest>>

\* First packet: `go s.loopPacingTimer(writer, info.SSRC)`.
WriteStart(s) ==
    /\ At(wpc, s, "start")
    /\ lpc' = [lpc EXCEPT ![s] = "lookup"]
    /\ wpc' = [wpc EXCEPT ![s] = "enqueue"]
    /\ UNCHANGED <<ctlVars, accepted, queue, object, hand, timeVars, netVars,
                   rest>>

WriteEnqueue(s) ==
    /\ At(wpc, s, "enqueue")
    /\ accepted' = [accepted EXCEPT ![s] = @ + 1]
    /\ queue' = [queue EXCEPT ![s] = Enqueue(@, accepted[s] + 1)]
    /\ wpc' = [wpc EXCEPT ![s] = "frame"]
    /\ UNCHANGED <<ctlVars, loopVars, timeVars, netVars, rest>>

WriteFrame(s) ==
    /\ At(wpc, s, "frame")
    /\ MayClear({s})
    /\ wpc' = [wpc EXCEPT ![s] = "signal"]
    /\ UNCHANGED <<ctlVars, accepted, loopVars, timeVars, netVars, rest>>

-----------------------------------------------------------------------------
(* loopPacingTimer.                                                        *)

LoopLookup(s) ==
    /\ At(lpc, s, "lookup")
    /\ MuFree
    /\ object' = [object EXCEPT ![s] = rtpStreams[Ssrc[s]]]
    /\ lpc' = [lpc EXCEPT ![s] = "select"]
    /\ UNCHANGED <<ctlVars, appVars, queue, hand, timeVars, netVars, rest>>

\* Mutant: the loop looks at the queue even while a timer runs.
Woken_IgnoringTimer(l) == lpc' = [lpc EXCEPT ![l] = "check"]

\* Loop l received from newFrame or newFeedback: nothing to do while a timer runs.
Woken(l) == lpc' = [lpc EXCEPT ![l] = IF timerSet[l] THEN "select" ELSE "check"]

\* `localStream.newFrame <- struct{}{}` meets `case <-stream.newFrame`.
NewFrame(s, l) ==
    /\ At(wpc, s, "signal")
    /\ At(lpc, l, "select") /\ object[l] = s
    /\ wpc' = [wpc EXCEPT ![s] = "idle"]
    /\ Woken(l)
    /\ UNCHANGED <<ctlVars, accepted, queue, object, hand, timeVars, netVars,
                   rest>>

\* Mutant: timerSet is not reset when the timer fired.
LoopTimer_NoReset(s) ==
    /\ At(lpc, s, "select")
    /\ timerClosed[s]
    /\ timerClosed' = [timerClosed EXCEPT ![s] = FALSE]
    /\ lpc' = [lpc EXCEPT ![s] = "check"]
    /\ UNCHANGED <<ctlVars, appVars, queue, object, hand, timerSet, armed,
                   netVars, rest>>

\* `case <-timer`: a new, open timer channel replaces the closed one.
LoopTimer(s) ==
    /\ At(lpc, s, "select")
    /\ timerClosed[s]
    /\ timerClosed' = [timerClosed EXCEPT ![s] = FALSE]
    /\ timerSet' = [timerSet EXCEPT ![s] = FALSE]
    /\ lpc' = [lpc EXCEPT ![s] = "check"]
    /\ UNCHANGED <<ctlVars, appVars, queue, object, hand, armed, netVars,
                   rest>>

\* `case <-s.close`, and the deferred wg.Done.
LoopClose(s) ==
    /\ At(lpc, s, "select")
    /\ closed
    /\ lpc' = [lpc EXCEPT ![s] = "exited"]
    /\ wg' = wg - 1
    /\ UNCHANGED <<closed, rtpStreams, appVars, queue, object, hand, timeVars,
                   netVars, rest>>

LoopCheck(s) ==
    /\ At(lpc, s, "check")
    /\ lpc' = [lpc EXCEPT ![s] = IF queue[object[s]] = <<>> THEN "select" ELSE "ask"]
    /\ UNCHANGED <<ctlVars, appVars, queue, object, hand, timeVars, netVars,
                   rest>>

\* Mutant: the inner loop asks again instead of leaving when it may not send.
AskNo_Spin(s) == At(lpc, s, "ask") /\ UNCHANGED vars

\* IsOkToTransmit = -1: "no packets or CWND too small".
AskNo(s) ==
    /\ At(lpc, s, "ask")
    /\ ~WindowOpen \/ NoneWaits(s)
    /\ lpc' = [lpc EXCEPT ![s] = "select"]
    /\ UNCHANGED <<ctlVars, appVars, queue, object, hand, timeVars, netVars,
                   rest>>

\* IsOkToTransmit <= 1e-3.
AskOk(s) ==
    /\ At(lpc, s, "ask")
    /\ WindowOpen /\ Waiting(s)
    /\ lpc' = [lpc EXCEPT ![s] = "dequeue"]
    /\ UNCHANGED <<ctlVars, appVars, queue, object, hand, timeVars, netVars,
                   rest>>

\* IsOkToTransmit > 1e-3: a helper goroutine arms a timer, the loop goes back.
AskPace(s) ==
    /\ At(lpc, s, "ask")
    /\ WindowOpen /\ Waiting(s)
    /\ armed' = [armed EXCEPT ![s] = @ + 1]
    /\ timerSet' = [timerSet EXCEPT ![s] = TRUE]
    /\ lpc' = [lpc EXCEPT ![s] = "select"]
    /\ UNCHANGED <<ctlVars, appVars, queue, object, hand, timerClosed, netVars,
                   rest>>

\* The AfterFunc closes whatever channel the variable timer holds now.
TimerFires(s) ==
    /\ Alive /\ armed[s] > 0
    /\ armed' = [armed EXCEPT ![s] = @ - 1]
    /\ timerClosed' = [timerClosed EXCEPT ![s] = TRUE]
    /\ panicked' = IF timerClosed[s] THEN "timer" ELSE panicked
    /\ UNCHANGED <<ctlVars, appVars, queue, loopVars, timerSet, netVars,
                   rdrVars, gpc, cpc>>

\* The queue may have been cleared since IsOkToTransmit answered.
LoopDequeue(s) ==
    /\ At(lpc, s, "dequeue")
    /\ LET q == queue[object[s]] IN
       IF q = <<>>
       THEN lpc' = [lpc EXCEPT ![s] = "select"] /\ UNCHANGED <<queue, hand>>
       ELSE /\ hand' = [hand EXCEPT ![s] = <<object[s], Dequeue(q).packet>>]
            /\ queue' = [queue EXCEPT ![object[s]] = Dequeue(q).rest]
            /\ lpc' = [lpc EXCEPT ![s] = "write"]
    /\ UNCHANGED <<ctlVars, appVars, object, timeVars, netVars, rest>>

\* The RTPWriter below may fail; the loop only logs it.
LoopWrite(s) ==
    /\ At(lpc, s, "write")
    /\ \/ wire' = [wire EXCEPT ![s] = Append(@, hand[s])]
       \/ UNCHANGED wire
    /\ lpc' = [lpc EXCEPT ![s] = "add"]
    /\ UNCHANGED <<ctlVars, appVars, queue, object, hand, timeVars, inFlight,
                   rest>>

\* Mutant: the loop sends the next packet without asking again.
LoopAdd_NoAsk(s) ==
    /\ At(lpc, s, "add")
    /\ inFlight' = inFlight \union {hand[s]}
    /\ lpc' = [lpc EXCEPT ![s] = "dequeue"]
    /\ UNCHANGED <<ctlVars, appVars, queue, object, hand, timeVars, wire,
                   rest>>

\* tx.AddTransmitted, after the write, also of a packet whose write failed.
LoopAdd(s) ==
    /\ At(lpc, s, "add")
    /\ inFlight' = inFlight \union {hand[s]}
    /\ lpc' = [lpc EXCEPT ![s] = "ask"]
    /\ UNCHANGED <<ctlVars, appVars, queue, object, hand, timeVars, wire,
                   rest>>

-----------------------------------------------------------------------------
(* BindRTCPReader: the reader of feedback.                                 *)

\* Mutant: every stream is notified, not the ones that the report names.
ReadReport_NotifyAll ==
    /\ Alive /\ rpc = "idle"
    /\ \E acked \in SUBSET OnWire :
        /\ acked # {}
        /\ inFlight' = inFlight \ acked
    /\ MayClear(Streams)
    /\ rpc' = "next" /\ todo' = Ssrcs /\ UNCHANGED target
    /\ UNCHANGED <<ctlVars, appVars, loopVars, timeVars, wire, endVars>>

\* One step per report of a batch: tx is given the whole batch each time, so it may
\* also learn of packets of SSRCs that only another report of the batch names, whose
\* turn is another such step.  The peer reports packets that it received; malformed
\* or other RTCP packets are skipped and change nothing.
ReadReport ==
    /\ Alive /\ rpc = "idle"
    /\ \E acked \in SUBSET OnWire :
        /\ acked # {}
        /\ inFlight' = inFlight \ acked
        /\ todo' \in SUBSET {Ssrc[p[1]] : p \in acked} /\ todo' # {}
    /\ MayClear(Streams)
    /\ rpc' = "next" /\ UNCHANGED target
    /\ UNCHANGED <<ctlVars, appVars, loopVars, timeVars, wire, endVars>>

\* Lock rtpStreamsMu and look the SSRC up; an unknown one is skipped.
NotifyLookup(c) ==
    /\ Alive /\ rpc = "next" /\ c \in todo
    /\ todo' = todo \ {c}
    /\ target' = rtpStreams[c]
    /\ rpc' = IF rtpStreams[c] = NoStream THEN "next" ELSE "send"
    /\ UNCHANGED <<ctlVars, appVars, queue, loopVars, timeVars, netVars,
                   endVars>>

\* `stream.newFeedback <- struct{}{}` meets `case <-stream.newFeedback`; unlock.
NewFeedback(l) ==
    /\ Alive /\ rpc = "send"
    /\ At(lpc, l, "select") /\ object[l] = target
    /\ Woken(l)
    /\ rpc' = "next" /\ target' = NoStream
    /\ UNCHANGED <<ctlVars, appVars, queue, object, hand, timeVars, netVars,
                   todo, endVars>>

ReportDone ==
    /\ Alive /\ rpc = "next" /\ todo = {}
    /\ rpc' = "idle"
    /\ UNCHANGED <<ctlVars, appVars, queue, loopVars, timeVars, netVars, todo,
                   target, endVars>>

-----------------------------------------------------------------------------
(* GetTargetBitrate, Close and UnbindLocalStream.                          *)

GetTargetBitrate ==
    /\ Alive /\ gpc = "idle"
    /\ gpc' = "asking"
    /\ UNCHANGED <<ctlVars, appVars, queue, loopVars, timeVars, netVars,
                   rdrVars, cpc, panicked>>

BitrateReturn ==
    /\ Alive /\ gpc = "asking"
    /\ MuFree
    /\ gpc' = "idle"
    /\ UNCHANGED <<ctlVars, appVars, queue, loopVars, timeVars, netVars,
                   rdrVars, cpc, panicked>>

CloseCall ==
    /\ "Close" \in Ops
    /\ Alive /\ cpc = "idle"
    /\ closed' = TRUE
    /\ cpc' = "waiting"
    /\ UNCHANGED <<wg, rtpStreams, appVars, queue, loopVars, timeVars, netVars,
                   rdrVars, gpc, panicked>>

CloseReturn ==
    /\ Alive /\ cpc = "waiting"
    /\ wg = 0
    /\ cpc' = "done"
    /\ UNCHANGED <<ctlVars, appVars, queue, loopVars, timeVars, netVars,
                   rdrVars, gpc, panicked>>

\* The close channel of a localStream is never made: closing it, or reading it
\* from an SSRC without a stream, panics.
UnbindLocalStream(s) ==
    /\ "Unbind" \in Ops
    /\ At(wpc, s, "idle")
    /\ MuFree
    /\ panicked' = "unbind"
    /\ UNCHANGED <<ctlVars, appVars, queue, loopVars, timeVars, netVars,
                   rdrVars, gpc, cpc>>
-----------------------------------------------------------------------------
Writer(s) == \/ Bind(s) \/ BypassWrite(s) \/ WriteCall(s) \/ WriteRegister(s)
             \/ WriteStart(s) \/ WriteEnqueue(s) \/ WriteFrame(s)
             \/ UnbindLocalStream(s)
             \/ \E l \in Streams : NewFrame(s, l)

Loop(s) == \/ LoopLookup(s) \/ LoopTimer(s) \/ LoopClose(s) \/ LoopCheck(s)
           \/ AskNo(s) \/ AskOk(s) \/ AskPace(s) \/ TimerFires(s)
           \/ LoopDequeue(s) \/ LoopWrite(s) \/ LoopAdd(s)

Reader == \/ ReadReport \/ ReportDone
          \/ \E c \in Ssrcs : NotifyLookup(c)
          \/ \E l \in Streams : NewFeedback(l)

Control == GetTargetBitrate \/ BitrateReturn \/ CloseCall \/ CloseReturn

Next == \/ \E s \in Streams : Writer(s) \/ Loop(s)
        \/ Reader
        \/ Control

Spec == Init /\ [][Next]_vars

\* What Go's scheduler, its mutexes (which hand over to a starving waiter) and
\* its select (which picks among the ready cases at random) give every
\* goroutine.  The application, the peer and the teardown calls are not obliged
\* to do anything; tx does not postpone a packet that it may send for ever.
Fairness ==
    /\ \A s \in Streams :
        /\ SF_vars(\/ WriteRegister(s) \/ WriteStart(s) \/ WriteEnqueue(s)
                   \/ WriteFrame(s) \/ \E l \in Streams : NewFrame(s, l))
        /\ SF_vars(\/ LoopLookup(s) \/ LoopCheck(s) \/ AskNo(s) \/ AskOk(s)
                   \/ AskPace(s) \/ LoopDequeue(s) \/ LoopWrite(s) \/ LoopAdd(s))
        /\ SF_vars(LoopTimer(s))
        /\ SF_vars(LoopClose(s))
        /\ SF_vars(AskOk(s))
        /\ WF_vars(TimerFires(s))
    /\ SF_vars(\/ ReportDone \/ \E c \in Ssrcs : NotifyLookup(c)
               \/ \E l \in Streams : NewFeedback(l))
    /\ SF_vars(BitrateReturn)
    /\ WF_vars(CloseReturn)

FairSpec == Spec /\ Fairness

-----------------------------------------------------------------------------
(* Properties.                                                             *)

WriterState == {"unbound", "bypass", "idle", "register", "start", "enqueue",
                "frame", "signal"}
LoopState   == {"off", "lookup", "select", "check", "ask", "exited"} \union Busy

\* The type invariant: the values that each goroutine and channel can have.
TypeOK ==
    /\ closed \in BOOLEAN
    /\ wg \in Int
    /\ rtpStreams \in [Ssrcs -> Streams \union {NoStream}]
    /\ wpc \in [Streams -> WriterState]
    /\ accepted \in [Streams -> 0..MaxPkts]
    /\ queue \in [Streams -> Seq(1..MaxPkts)]
    /\ lpc \in [Streams -> LoopState]
    /\ object \in [Streams -> Streams \union {NoStream}]
    /\ hand \in [Streams -> Streams \X (0..MaxPkts)]
    /\ timerSet \in [Streams -> BOOLEAN]
    /\ timerClosed \in [Streams -> BOOLEAN]
    /\ armed \in [Streams -> Nat]
    /\ wire \in [Streams -> Seq(Packets)]
    /\ inFlight \in SUBSET Packets
    /\ rpc \in {"idle", "next", "send"}
    /\ todo \in SUBSET Ssrcs
    /\ target \in Streams \union {NoStream}
    /\ gpc \in {"idle", "asking"}
    /\ cpc \in {"idle", "waiting", "done"}
    /\ panicked \in {"no", "timer", "unbind"}

\* What the RTPWriter of a stream was given are packets of that stream, each at
\* most once and in the order in which the application wrote them, whatever
\* was discarded in between (Enqueue, Dequeue, Clear and the send at line 316).
InOrder ==
    \A s \in Streams : \A i \in DOMAIN wire[s] :
        /\ wire[s][i][1] = s
        /\ \A j \in 1..(i - 1) : wire[s][j][2] < wire[s][i][2]

\* The helper goroutine never closes a timer channel that is closed already,
\* which would panic: at most one AfterFunc is outstanding (lines 324-335).
TimerClosedOnce == panicked # "timer"

\* The permission of IsOkToTransmit is used after s.m was released, and then
\* AddTransmitted books the packet.  In between every other loop may have got
\* the same permission, but no more than that: the window is exceeded by less
\* than one packet per stream (lines 301-321).
WindowOvershoot == Cardinality(inFlight) + 1 <= Cwnd + Cardinality(Streams)

\* Once Close returned, no pacing loop runs and none will ever be started: what
\* is still written goes past the interceptor (lines 197-201, 256-266).
CloseMeansQuiet ==
    cpc = "done" =>
        \A s \in Streams : \/ lpc[s] = "exited"
                           \/ lpc[s] = "off" /\ wpc[s] \in {"unbound", "bypass"}

\* The reader holds rtpStreamsMu while it waits for the loop of a stream, and a
\* loop needs that mutex before its first select: the reader never waits for a
\* loop that is not past it, or both would wait for ever (lines 143-149, 270).
FeedbackMeetsRunningLoop ==
    rpc = "send" => lpc[target] \notin {"off", "lookup"}

\* Until Close, nobody who meets rtpStreamsMu or a channel of a pacing loop waits
\* for ever: a report that is being handled is handled to its end and releases
\* the mutex (lines 143-149), a call of the RTP writer returns (line 243), and
\* "GetTargetBitrate returns the target bitrate" (lines 340-352).  After Close
\* the loops leave, and the reader may wait for one with the mutex held.
CallsReturn ==
    /\ (rpc # "idle") ~> (rpc = "idle" \/ closed)
    /\ \A s \in Streams :
           (wpc[s] \in {"register", "signal"}) ~> (wpc[s] = "idle" \/ closed)
    /\ (gpc = "asking") ~> (gpc = "idle" \/ closed)

\* No wake-up is lost: a packet does not wait for ever in the queue while the
\* window has room for it (the select of lines 280-294 and its continues).
NoPacketForgotten ==
    \A s \in Streams :
        (queue[s] # <<>> /\ WindowOpen) ~> (queue[s] = <<>> \/ ~WindowOpen \/ closed)

\* Close returns if every bound stream has a loop that found its stream,
\* whatever reader, writer and timers are doing (lines 256-266).  A stream that
\* was bound and never used has no loop, and Close waits for it for ever.
CloseReturnsIfRunning ==
    (cpc = "waiting" /\ \A s \in Streams : lpc[s] \in {"off", "lookup"} =>
                                               wpc[s] \in {"unbound", "bypass"})
        ~> (cpc = "done")
=============================================================================

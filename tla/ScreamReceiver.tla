--------------------------- MODULE ScreamReceiver ---------------------------
(***************************************************************************)
(* The SCReAM receiver interceptor (scream/receiver_interceptor.go): one   *)
(* RTP reader per remote stream hands packets to the goroutine `loop`,     *)
(* which records them and, on its first packet, starts a second goroutine, *)
(* loopFeedbackSender, that writes feedback at every tick.                 *)
(*                                                                         *)
(* Both write to the network while they hold screamRxMu, and over TCP such *)
(* a write lasts as long as the peer reads nothing (`stalled`).  Any other *)
(* section under screamRxMu is one step.  The channel receive is           *)
(* unbuffered, so a send and its receive are one step.  A failed write of  *)
(* feedback is only logged; `reported` is what the writer has taken.       *)
(***************************************************************************)
EXTENDS Integers, FiniteSets

CONSTANTS
    Ssrcs,      \* remote streams
    Supported,  \* the ones whose StreamInfo offers SCReAM feedback
    MaxPkts,    \* bound: packets that arrive per stream
    MaxBinds,   \* bound: times a stream is bound
    Ops         \* teardown calls the application makes: "Close", "Unbind"

ASSUME SupportedAreStreams == Supported \subseteq Ssrcs

VARIABLES
    closed,   \* the channel r.close is closed
    wg,       \* counter of the wait group r.wg
    binds,    \* per stream: how often it was bound
    rx,       \* r.screamRx: SSRC -> packets its Rx has received, or NoRx
    rdr,      \* per stream: where its RTP reader is
    arrived,  \* per stream: packets read from the transport
    lpc,      \* where the goroutine loop is
    hand,     \* the packet that loop has received: <<SSRC, number>>
    fpc,      \* where the goroutine loopFeedbackSender is
    reported, \* per stream: packets covered by feedback written so far
    out,      \* streams whose feedback the holder of screamRxMu has yet to write
    stalled,  \* the network takes no feedback
    cpc       \* where the caller of Close is

vars == <<closed, wg, binds, rx, rdr, arrived, lpc, hand, fpc, reported, out, stalled, cpc>>
appVars == <<binds, rdr, arrived>>
feedVars == <<reported, out, stalled>>

NoRx   == {-1}                      \* no Rx object under this SSRC
Bound  == {s \in Ssrcs : rx[s] # NoRx}
MuFree == lpc # "write" /\ fpc # "write"   \* nobody is in a loop of writes

Init ==
    /\ closed = FALSE /\ wg = 0 /\ cpc = "idle"
    /\ binds    = [s \in Ssrcs |-> 0]
    /\ rx       = [s \in Ssrcs |-> NoRx]
    /\ rdr      = [s \in Ssrcs |-> "unbound"]
    /\ arrived  = [s \in Ssrcs |-> 0]
    /\ reported = [s \in Ssrcs |-> {}]
    /\ lpc = "unbound" /\ fpc = "unbound"
    /\ out = {} /\ stalled = FALSE
    /\ hand = <<>>

-----------------------------------------------------------------------------
(* Binding, and the readers of the remote streams.                         *)

\* Without a loop the writer is returned as it is.
BindRTCPWriter ==
    /\ lpc = "unbound"
    /\ IF closed THEN lpc' = "bypassed" /\ wg' = wg
                 ELSE lpc' = "first" /\ wg' = wg + 1
    /\ UNCHANGED <<closed, appVars, rx, hand, fpc, feedVars, cpc>>

\* A supported stream gets a new Rx, which replaces the one of an earlier
\* binding; the reader of another stream is left alone.
BindRemoteStream(s) ==
    /\ rdr[s] # "send" /\ binds[s] < MaxBinds
    /\ s \in Supported => MuFree
    /\ binds' = [binds EXCEPT ![s] = @ + 1]
    /\ IF s \in Supported
       THEN rdr' = [rdr EXCEPT ![s] = "idle"] /\ rx' = [rx EXCEPT ![s] = {}]
       ELSE rdr' = [rdr EXCEPT ![s] = "bypass"] /\ UNCHANGED rx
    /\ UNCHANGED <<closed, wg, arrived, lpc, hand, fpc, feedVars, cpc>>

\* The reader of the stream may still be in use.
UnbindRemoteStream(s) ==
    /\ "Unbind" \in Ops
    /\ rdr[s] # "unbound" /\ MuFree
    /\ rx' = [rx EXCEPT ![s] = NoRx]
    /\ UNCHANGED <<closed, wg, appVars, lpc, hand, fpc, feedVars, cpc>>

\* A packet was read and parsed; an error in either returns to the caller.
Read(s) ==
    /\ rdr[s] \in {"idle", "bypass"} /\ arrived[s] < MaxPkts
    /\ arrived' = [arrived EXCEPT ![s] = @ + 1]
    /\ rdr' = [rdr EXCEPT ![s] = IF @ = "idle" THEN "send" ELSE @]
    /\ UNCHANGED <<closed, wg, binds, rx, lpc, hand, fpc, feedVars, cpc>>

-----------------------------------------------------------------------------
(* The goroutine loop.                                                     *)

\* `r.receive <- pkt` meets `pkt := <-r.receive`, in the first or a later select.
Receive(s) ==
    /\ rdr[s] = "send" /\ lpc \in {"first", "select"}
    /\ rdr' = [rdr EXCEPT ![s] = "idle"]
    /\ hand' = <<s, arrived[s]>>
    /\ lpc' = IF lpc = "first" THEN "storeFirst" ELSE "store"
    /\ UNCHANGED <<closed, wg, binds, arrived, rx, fpc, feedVars, cpc>>

\* Mutant: the first select of the loop does not watch close.
LoopClose_NotFirst ==
    /\ lpc = "select" /\ closed
    /\ lpc' = "exited" /\ wg' = wg - 1
    /\ UNCHANGED <<closed, appVars, rx, hand, fpc, feedVars, cpc>>

LoopClose ==
    /\ lpc \in {"first", "select"} /\ closed
    /\ lpc' = "exited" /\ wg' = wg - 1
    /\ UNCHANGED <<closed, appVars, rx, hand, fpc, feedVars, cpc>>

\* Mutant: a packet of a stream that is not bound any more ends the loop.
LoopStore_Returns ==
    /\ lpc \in {"storeFirst", "store"} /\ MuFree
    /\ rx' = [rx EXCEPT ![hand[1]] = IF @ = NoRx THEN NoRx ELSE @ \union {hand[2]}]
    /\ IF rx[hand[1]] = NoRx
       THEN lpc' = "exited" /\ wg' = wg - 1
       ELSE /\ lpc' \in IF lpc = "storeFirst" THEN {"spawn"} ELSE {"interval", "select"}
            /\ wg' = wg
    /\ hand' = <<>>
    /\ UNCHANGED <<closed, appVars, fpc, feedVars, cpc>>

\* The packet counts if its stream is (still) bound.  After a later one feedback
\* is due if the interval has passed since the last time.
LoopStore ==
    /\ lpc \in {"storeFirst", "store"} /\ MuFree
    /\ rx' = [rx EXCEPT ![hand[1]] = IF @ = NoRx THEN NoRx ELSE @ \union {hand[2]}]
    /\ lpc' \in IF lpc = "storeFirst" THEN {"spawn"} ELSE {"interval", "select"}
    /\ hand' = <<>>
    /\ UNCHANGED <<closed, wg, appVars, fpc, feedVars, cpc>>

\* Mutant: the sender is started without being counted.
LoopSpawn_NoAdd ==
    /\ lpc = "spawn"
    /\ lpc' = "select" /\ fpc' = "select"
    /\ UNCHANGED <<closed, wg, appVars, rx, hand, feedVars, cpc>>

\* Mutant: feedback is only written when packets arrive.
LoopSpawn_NoSender ==
    /\ lpc = "spawn"
    /\ lpc' = "select"
    /\ UNCHANGED <<closed, wg, appVars, rx, hand, fpc, feedVars, cpc>>

\* `r.wg.Add(1); go r.loopFeedbackSender(rtcpWriter)`.
LoopSpawn ==
    /\ lpc = "spawn"
    /\ wg' = wg + 1
    /\ lpc' = "select" /\ fpc' = "select"
    /\ UNCHANGED <<closed, appVars, rx, hand, feedVars, cpc>>

\* Takes screamRxMu.  Without the marker bit CreateStandardizedFeedback may have
\* nothing to say of a stream.
LoopInterval ==
    /\ lpc = "interval" /\ MuFree
    /\ out' \in SUBSET Bound
    /\ lpc' = "write"
    /\ UNCHANGED <<closed, wg, appVars, rx, hand, fpc, reported, stalled, cpc>>

-----------------------------------------------------------------------------
(* The goroutine loopFeedbackSender, and the writes of either goroutine.   *)

\* Takes screamRxMu.  A stream with packets not reported yet has feedback.
Tick ==
    /\ fpc = "select" /\ MuFree
    /\ out' \in SUBSET Bound
    /\ \A s \in Bound \ out' : rx[s] \subseteq reported[s]
    /\ fpc' = "write"
    /\ UNCHANGED <<closed, wg, appVars, rx, lpc, hand, reported, stalled, cpc>>

\* rtcpWriter.Write returns: the network has taken the feedback of one stream.
WriteReturns(s) ==
    /\ s \in out /\ ~stalled
    /\ out' = out \ {s}
    /\ reported' = [reported EXCEPT ![s] = @ \union rx[s]]
    /\ UNCHANGED <<closed, wg, appVars, rx, lpc, hand, fpc, stalled, cpc>>

\* The map is done: screamRxMu is released.
Unlock ==
    /\ ~MuFree /\ out = {}
    /\ lpc' = IF lpc = "write" THEN "select" ELSE lpc
    /\ fpc' = IF fpc = "write" THEN "select" ELSE fpc
    /\ UNCHANGED <<closed, wg, appVars, rx, hand, feedVars, cpc>>

\* The peer stops or starts reading.
NetworkChanges ==
    /\ stalled' = ~stalled
    /\ UNCHANGED <<closed, wg, appVars, rx, lpc, hand, fpc, reported, out, cpc>>

SenderClose ==
    /\ fpc = "select" /\ closed
    /\ fpc' = "exited" /\ wg' = wg - 1
    /\ UNCHANGED <<closed, appVars, rx, lpc, hand, feedVars, cpc>>

-----------------------------------------------------------------------------
CloseCall ==
    /\ "Close" \in Ops /\ cpc = "idle"
    /\ closed' = TRUE /\ cpc' = "waiting"
    /\ UNCHANGED <<wg, appVars, rx, lpc, hand, fpc, feedVars>>

CloseReturn ==
    /\ cpc = "waiting" /\ wg = 0
    /\ cpc' = "done"
    /\ UNCHANGED <<closed, wg, appVars, rx, lpc, hand, fpc, feedVars>>

Next ==
    \/ BindRTCPWriter
    \/ \E s \in Ssrcs : \/ BindRemoteStream(s) \/ UnbindRemoteStream(s)
                        \/ Read(s) \/ Receive(s) \/ WriteReturns(s)
    \/ LoopClose \/ LoopStore \/ LoopSpawn \/ LoopInterval
    \/ Tick \/ SenderClose \/ Unlock
    \/ CloseCall \/ CloseReturn
    \/ NetworkChanges

Spec == Init /\ [][Next]_vars

\* Go schedules both goroutines, a waiter gets a mutex that is released again and
\* again, a select takes a case that stays ready, the ticker ticks, and the
\* transport binds its RTCP writer when it starts.  Nothing is asked of the network.
Fairness ==
    /\ WF_vars(BindRTCPWriter)
    /\ SF_vars(LoopStore) /\ SF_vars(LoopInterval) /\ WF_vars(LoopSpawn)
    /\ SF_vars(LoopClose) /\ \A s \in Ssrcs : SF_vars(Receive(s))
    /\ SF_vars(Tick) /\ SF_vars(SenderClose)
    /\ WF_vars(\E s \in Ssrcs : WriteReturns(s)) /\ WF_vars(Unlock)
    /\ WF_vars(CloseReturn)

FairSpec == Spec /\ Fairness
-----------------------------------------------------------------------------
(* Properties.                                                             *)

\* When Close has returned, both goroutines have left and neither is started any
\* more: no feedback is written afterwards (lines 132-142, 190-191).
CloseMeansQuiet ==
    cpc = "done" => /\ lpc \in {"unbound", "bypassed", "exited"}
                    /\ fpc \in {"unbound", "exited"}

\* A goroutine is held up in a write, with screamRxMu locked.
WriteBlocked == stalled /\ out # {}

\* A packet that was recorded is reported, even if no other packet follows: by
\* the ticker, unless the stream is removed or the interceptor closed before, or
\* a write of feedback is held up by the network.
EventuallyReported ==
    \A s \in Ssrcs : \A n \in 1..MaxPkts :
        (n \in rx[s]) ~> (n \in reported[s] \/ n \notin rx[s] \/ closed \/ WriteBlocked)

\* "Close closes the interceptor": a call of Close returns unless a write of
\* feedback is held up by the network (lines 132-142).
CloseReturns == (cpc = "waiting") ~> (cpc = "done" \/ WriteBlocked)

\* Until Close is called, the RTP reader waits at line 116 for nothing but the
\* network: it returns to its caller, or a goroutine that holds screamRxMu is held
\* up in its write of feedback (lines 160, 215).
ReadReturns ==
    \A s \in Ssrcs : (rdr[s] = "send") ~> (rdr[s] # "send" \/ closed \/ WriteBlocked)
=============================================================================

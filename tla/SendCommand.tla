---------------------------- MODULE SendCommand ----------------------------
(***************************************************************************)
(* The send command: the main goroutine (senderController.start in         *)
(* cmd/send.go, a sender's Connect, Play of a source in media), the        *)
(* goroutine of the bandwidth estimator (rtp/bandwidth_estimator.go), the  *)
(* thread of the GStreamer pipeline or of the synthetic codec, and the     *)
(* helper goroutine with which isKeyFrame reads a frame.                   *)
(*                                                                         *)
(* RunSCReAM reads e.media without a lock while SetMedia assigns it.  An   *)
(* interface value has two words, so the assignment takes two steps here.  *)
(* The locks inside GetTargetBitrate and the pacing of packets belong to   *)
(* ScreamSender; here the writer of the media stream takes a packet or     *)
(* fails.  The command runs under context.Background, so ctx is never      *)
(* done.                                                                   *)
(***************************************************************************)
EXTENDS Integers, Sequences, FiniteSets

CONSTANTS
    Rates,       \* target bitrates that tx computes; negative: no stream yet
    Initial,     \* the flag -target
    Unit,        \* bits per second in one step of the encoder's property
    UintSpan,    \* values of a uint
    Frames,      \* the NAL units that h264reader returns of a buffer, which are all
                 \* but SEI; <<>>: no start code in it
    MaxBuffers,  \* bound: buffers that the pipeline makes
    MaxPackets   \* packets into which a buffer is split

ASSUME RatesAreIntegers == Rates \subseteq Int
ASSUME InitialIsNatural == Initial \in Nat
ASSUME UnitIsPositive == Unit \in Nat \ {0}
ASSUME RatesFitUint == UintSpan \in Nat /\ \A r \in Rates : r < UintSpan
ASSUME FramesAreSequences == Frames \subseteq Seq(STRING)
ASSUME BoundsAreNatural == MaxBuffers \in Nat /\ MaxPackets \in Nat

VARIABLES
    transport,   \* the flag -transport: "quic", "quic-prio", or "tcp" for the rest
    rtpCC,       \* the flag -rtp-cc
    source,      \* the flag -source: "syncodec", or "gst" for a GStreamer source
    codec,       \* the flag -codec
    sendStream,  \* the flag -stream
    pc,          \* where the main goroutine is; "ok" and "error": the process ended
    flowIDs,     \* flow IDs in use on the QUIC connection
    bpc,         \* where the goroutine of the estimator is
    target,      \* its local variable target
    media,       \* e.media: "nil", "torn" (one word is written) or "source"
    registered,  \* the first packet has put the stream into rtpStreams
    rate,        \* what tx.GetTargetBitrate would answer
    encoder,     \* the bitrate property of the encoder
    ppc,         \* where the thread of the pipeline is
    made,        \* buffers the pipeline has made
    taken,       \* buffers Play has received from bufferCh
    left,        \* packets of the present buffer that are not written yet
    frame,       \* the NAL units that h264reader returns of the present buffer
    nals,        \* how many of them it has returned
    hasIDR,      \* isKeyFrame's answer: the packets are REQUIRED
    helper       \* the goroutine of isKeyFrame: "none", "write" or "closed"

flags    == <<transport, rtpCC, source, codec, sendStream>>
scanVars == <<frame, nals, hasIDR, helper>>
mainVars == <<pc, flowIDs, taken, left, scanVars>>
bweVars  == <<bpc, target>>
pipeVars == <<ppc, made>>
vars     == <<flags, mainVars, bweVars, media, registered, rate, encoder, pipeVars>>

Running == pc \notin {"ok", "error"}

\* uint(target), and SetTargetBitsPerSecond: x264enc counts in kbit/s (Unit is
\* 1000), the VP8 and VP9 encoders and the synthetic codec in bit/s.
Uint(r)  == r % UintSpan
Scale(r) == IF source = "gst" /\ codec = "h264" THEN Uint(r) \div Unit ELSE Uint(r)

Init ==
    /\ transport \in {"quic", "quic-prio", "tcp"} /\ rtpCC \in {"none", "scream", "gcc"}
    /\ source \in {"gst", "syncodec"} /\ codec \in {"h264", "vp8", "vp9"}
    /\ sendStream \in BOOLEAN
    /\ pc = "setup" /\ flowIDs = {} /\ bpc = "none" /\ target = 0
    /\ media = "nil" /\ registered = FALSE /\ rate \in Rates
    /\ encoder = 0 /\ ppc = "none" /\ made = 0 /\ taken = 0 /\ left = 0
    /\ frame = <<>> /\ nals = 0 /\ hasIDR = FALSE /\ helper = "none"

-----------------------------------------------------------------------------
(* The main goroutine up to Play.                                          *)

\* Each step of start may fail, the Build of an interceptor too; log.Fatal ends the
\* process.
Fails ==
    /\ pc \in {"setup", "dial", "build", "data", "stream", "media", "play"}
    /\ pc' = "error"
    /\ UNCHANGED <<flags, flowIDs, taken, left, scanVars, bweVars, media, registered,
                   rate, encoder, pipeVars>>

\* setupInterceptor: the estimator's goroutine, then the registry.
SetupInterceptor ==
    /\ pc = "setup"
    /\ pc' = "dial"
    /\ bpc' = CASE rtpCC = "scream" -> "open" [] rtpCC = "gcc" -> "gcc" [] OTHER -> "none"
    /\ UNCHANGED <<flags, flowIDs, taken, left, scanVars, target, media, registered,
                   rate, encoder, pipeVars>>

\* Connect: the connection, before the interceptors are built.
Dial ==
    /\ pc = "dial"
    /\ pc' = "build"
    /\ UNCHANGED <<flags, flowIDs, taken, left, scanVars, bweVars, media, registered,
                   rate, encoder, pipeVars>>

\* Build calls OnNewSCReAMEstimator (OnNewGCCEstimator), which waits for the
\* receiver of the channel; then the RTCP goroutines of RtcpPath start.
Build ==
    /\ pc = "build"
    /\ \/ rtpCC = "none" /\ UNCHANGED bpc
       \/ rtpCC = "scream" /\ bpc = "wait" /\ bpc' = "loop"
    /\ pc' = IF transport # "tcp" /\ sendStream THEN "data" ELSE "stream"
    /\ UNCHANGED <<flags, flowIDs, taken, left, scanVars, target, media, registered,
                   rate, encoder, pipeVars>>

\* newFlowID: the smallest ID that is not in use.
NewFlowID ==
    CHOOSE i \in 0..Cardinality(flowIDs) : i \notin flowIDs /\ 0..(i - 1) \subseteq flowIDs

\* NewDataStreamWithDefaultFlowID; a goroutine writes random bytes to it from now
\* on, until a write fails.
NewDataStream ==
    /\ pc = "data"
    /\ flowIDs' = flowIDs \union {NewFlowID}
    /\ pc' = "stream"
    /\ UNCHANGED <<flags, taken, left, scanVars, bweVars, media, registered, rate,
                   encoder, pipeVars>>

\* NewMediaStream: BindLocalStream does not register the stream yet.
NewMediaStream ==
    /\ pc = "stream"
    /\ flowIDs' = IF transport = "tcp" THEN flowIDs ELSE flowIDs \union {NewFlowID}
    /\ pc' = "media"
    /\ UNCHANGED <<flags, taken, left, scanVars, bweVars, media, registered, rate,
                   encoder, pipeVars>>

\* The rate with which a new source starts; the synthetic one ignores the flag.
InitialRate == IF source = "syncodec" THEN 0 ELSE Scale(Initial)

\* startMedia: the source, SetMedia in two words if there is an estimator, Play.
NewSource ==
    /\ pc = "media"
    /\ pc' = IF rtpCC = "none" THEN "play" ELSE "setMedia"
    /\ encoder' = InitialRate
    /\ UNCHANGED <<flags, flowIDs, taken, left, scanVars, bweVars, media, registered,
                   rate, pipeVars>>

SetMedia ==
    /\ pc = "setMedia"
    /\ IF media = "nil" THEN media' = "torn" /\ UNCHANGED pc
                        ELSE media' = "source" /\ pc' = "play"
    /\ UNCHANGED <<flags, flowIDs, taken, left, scanVars, bweVars, registered, rate,
                   encoder, pipeVars>>

\* Play of a GStreamer source: handlers, `go s.pipeline.Start()`, and the loop.
\* Play of the synthetic source: `go s.codec.Start()`, and it returns.
Play ==
    /\ pc = "play"
    /\ pc' = IF source = "gst" THEN "select" ELSE "leave"
    /\ ppc' = IF source = "gst" THEN "running" ELSE "codec"
    /\ UNCHANGED <<flags, flowIDs, taken, left, scanVars, bweVars, media, registered,
                   rate, encoder, made>>

-----------------------------------------------------------------------------
(* Play's loop and the pipeline.                                           *)

\* Mutant: the buffer handler drops a buffer when Play is busy.
MakeBuffer_Drop ==
    /\ Running /\ ppc = "running" /\ made < MaxBuffers
    /\ made' = made + 1
    /\ IF pc = "select" THEN ppc' = "offer" ELSE UNCHANGED ppc
    /\ UNCHANGED <<flags, mainVars, bweVars, media, registered, rate, encoder>>

\* The buffer handler: `bufferCh <- b`.
MakeBuffer ==
    /\ Running /\ ppc = "running" /\ made < MaxBuffers
    /\ made' = made + 1 /\ ppc' = "offer"
    /\ UNCHANGED <<flags, mainVars, bweVars, media, registered, rate, encoder>>

\* The end-of-stream handler: `close(bufferCh)`.  Nothing in Play keeps it from
\* coming while the buffer handler is still in its send.
EndOfStream ==
    /\ Running /\ ppc \in {"running", "offer"}
    /\ ppc' = IF ppc = "offer" THEN "cut" ELSE "eos"
    /\ UNCHANGED <<flags, mainVars, bweVars, media, registered, rate, encoder, made>>

\* A send on the closed channel panics, unless Play ends the process before.  The
\* pipeline's error handler panics too.
PipelinePanics ==
    /\ Running /\ ppc \in {"running", "offer", "cut"}
    /\ pc' = "error"
    /\ UNCHANGED <<flags, flowIDs, taken, left, scanVars, bweVars, media, registered, rate, encoder, pipeVars>>

\* With GStreamer's packetizer a buffer is an RTP packet.
TakePacket ==
    /\ pc = "select" /\ ppc = "offer" /\ transport # "quic-prio"
    /\ ppc' = "running" /\ taken' = taken + 1
    /\ left' = 1 /\ pc' = "write"
    /\ UNCHANGED <<flags, flowIDs, scanVars, bweVars, media, registered, rate, encoder, made>>

\* The packets that the packetizer makes of a frame; it may also keep one back.
Packetize ==
    /\ left' \in 0 .. MaxPackets
    /\ pc' = IF left' = 0 THEN "select" ELSE "write"

\* Otherwise it is a frame.  isKeyFrame lets a goroutine write an H.264 frame into
\* a pipe and h264reader read it from there.  Without a start code the answer is
\* no, and the goroutine is left behind.
TakeFrame ==
    /\ pc = "select" /\ ppc = "offer" /\ transport = "quic-prio" /\ codec = "h264"
    /\ ppc' = "running" /\ taken' = taken + 1
    /\ frame' \in Frames
    /\ nals' = 0 /\ hasIDR' = FALSE /\ helper' = "write"
    /\ IF frame' = <<>> THEN Packetize ELSE pc' = "scan" /\ UNCHANGED left
    /\ UNCHANGED <<flags, flowIDs, bweVars, media, registered, rate, encoder, made>>

\* A VP8 frame tells by its first byte whether it is a key frame; with any other
\* codec none is.
TakeOtherFrame ==
    /\ pc = "select" /\ ppc = "offer" /\ transport = "quic-prio" /\ codec # "h264"
    /\ ppc' = "running" /\ taken' = taken + 1
    /\ hasIDR' \in IF codec = "vp8" THEN BOOLEAN ELSE {FALSE}
    /\ Packetize
    /\ UNCHANGED <<flags, flowIDs, frame, nals, helper, bweVars, media, registered, rate,
                   encoder, made>>

\* Mutant: the helper does not close the pipe.
HelperCloses_Never == FALSE /\ UNCHANGED vars

\* All is read: the helper's Write returns, and `r.Close()`.
HelperCloses ==
    /\ pc = "scan" /\ helper = "write"
    /\ helper' = "closed"
    /\ UNCHANGED <<flags, pc, flowIDs, taken, left, frame, nals, hasIDR, bweVars, media,
                   registered, rate, encoder, pipeVars>>

\* Mutant: the loop stops before it looks at the last NAL unit.
NextNAL_NotLast ==
    /\ pc = "scan" /\ nals < Len(frame)
    /\ nals + 1 = Len(frame) => helper = "closed"
    /\ nals' = nals + 1
    /\ hasIDR' = (hasIDR \/ (nals \in 1..(Len(frame) - 2) /\ frame[nals + 1] = "IDR"))
    /\ UNCHANGED <<flags, pc, flowIDs, taken, left, frame, helper, bweVars, media,
                   registered, rate, encoder, pipeVars>>

\* NextNAL sees the end of a unit by the start code of the next one, and that of
\* the last unit by the closed pipe.  The type of the first is not looked at.
NextNAL ==
    /\ pc = "scan" /\ nals < Len(frame)
    /\ nals + 1 = Len(frame) => helper = "closed"
    /\ nals' = nals + 1
    /\ hasIDR' = (hasIDR \/ (nals > 0 /\ frame[nals + 1] = "IDR"))
    /\ UNCHANGED <<flags, pc, flowIDs, taken, left, frame, helper, bweVars, media,
                   registered, rate, encoder, pipeVars>>

\* io.EOF: the packets get RELIABILITY and the MTU that go with the answer.
ScanDone ==
    /\ pc = "scan" /\ nals = Len(frame)
    /\ Packetize
    /\ UNCHANGED <<flags, flowIDs, taken, scanVars, bweVars, media, registered, rate,
                   encoder, pipeVars>>

\* The writer registers the stream with its first packet.
WritePacket ==
    /\ pc = "write"
    /\ registered' = TRUE
    /\ left' = left - 1
    /\ pc' = IF left = 1 THEN "select" ELSE "write"
    /\ UNCHANGED <<flags, flowIDs, taken, scanVars, bweVars, media, rate, encoder, pipeVars>>

\* A packet that cannot be parsed or written ends Play with the error.
WriteFails ==
    /\ pc = "write"
    /\ pc' = "error"
    /\ UNCHANGED <<flags, flowIDs, taken, left, scanVars, bweVars, media, registered,
                   rate, encoder, pipeVars>>

\* bufferCh is closed: Play and the process end.  Play of the synthetic source
\* has returned at once.
PlayReturns ==
    /\ \/ pc = "select" /\ ppc \in {"eos", "cut"}
       \/ pc = "leave"
    /\ pc' = "ok"
    /\ UNCHANGED <<flags, flowIDs, taken, left, scanVars, bweVars, media, registered,
                   rate, encoder, pipeVars>>

\* WriteFrame of the synthetic source, in the codec's goroutine.
WriteFrame ==
    /\ Running /\ ppc = "codec" /\ made < MaxBuffers
    /\ made' = made + 1
    /\ registered' = TRUE
    /\ UNCHANGED <<flags, mainVars, bweVars, media, rate, encoder, ppc>>

-----------------------------------------------------------------------------
(* The bandwidth estimator.                                                *)

\* Mutant: the goroutine first waits until there is a source to control.
OpenLogFile_NeedsMedia ==
    /\ Running /\ bpc = "open" /\ media # "nil"
    /\ bpc' \in {"wait", "returned"}
    /\ UNCHANGED <<flags, mainVars, target, media, registered, rate, encoder, pipeVars>>

\* GetLogFile may fail, and RunSCReAM returns.
OpenLogFile ==
    /\ Running /\ bpc = "open"
    /\ bpc' \in {"wait", "returned"}
    /\ UNCHANGED <<flags, mainVars, target, media, registered, rate, encoder, pipeVars>>

\* Mutant: the error for an unknown SSRC is ignored.
Tick_NoError ==
    /\ Running /\ bpc = "loop" /\ rate >= 0
    /\ target' = (IF registered THEN rate ELSE 0) /\ bpc' = "apply"
    /\ UNCHANGED <<flags, mainVars, media, registered, rate, encoder, pipeVars>>

\* A tick: GetTargetBitrate knows the stream and the answer is not negative;
\* otherwise the loop continues with the next tick.
Tick ==
    /\ Running /\ bpc = "loop" /\ registered /\ rate >= 0
    /\ target' = rate /\ bpc' = "apply"
    /\ UNCHANGED <<flags, mainVars, media, registered, rate, encoder, pipeVars>>

\* Mutant: a timer that fires once in place of the ticker.
Apply_Once ==
    /\ Running /\ bpc = "apply"
    /\ encoder' = IF media = "nil" THEN encoder ELSE Scale(target)
    /\ bpc' = "idle"
    /\ UNCHANGED <<flags, mainVars, target, media, registered, rate, pipeVars>>

\* The log line, and `if e.media != nil`.
Apply ==
    /\ Running /\ bpc = "apply"
    /\ encoder' = IF media = "nil" THEN encoder ELSE Scale(target)
    /\ bpc' = "loop"
    /\ UNCHANGED <<flags, mainVars, target, media, registered, rate, pipeVars>>

\* RunGCC panics.
RunGCC ==
    /\ Running /\ bpc = "gcc"
    /\ pc' = "error"
    /\ UNCHANGED <<flags, flowIDs, taken, left, scanVars, bweVars, media, registered,
                   rate, encoder, pipeVars>>

\* tx computes another target at any time.
NewRate ==
    /\ Running
    /\ rate' \in Rates \ {rate}
    /\ UNCHANGED <<flags, mainVars, bweVars, media, registered, encoder, pipeVars>>

-----------------------------------------------------------------------------
Start == \/ SetupInterceptor \/ Dial \/ Build \/ NewDataStream
         \/ NewMediaStream \/ NewSource \/ SetMedia \/ Play

Loop == \/ TakePacket \/ TakeFrame \/ TakeOtherFrame \/ NextNAL \/ ScanDone
        \/ WritePacket \/ WriteFails \/ PlayReturns

Pipeline == MakeBuffer \/ EndOfStream \/ PipelinePanics \/ WriteFrame

RunSCReAM == OpenLogFile \/ Tick \/ Apply

Next == \/ Start \/ Fails \/ Loop \/ HelperCloses \/ Pipeline
        \/ RunSCReAM \/ RunGCC \/ NewRate

Spec == Init /\ [][Next]_vars

\* Go schedules all goroutines and the ticker goes on; the pipeline and tx owe
\* nothing.
FairSpec ==
    /\ Spec
    /\ WF_vars(Start) /\ WF_vars(Loop) /\ WF_vars(HelperCloses)
    /\ WF_vars(OpenLogFile) /\ WF_vars(Tick) /\ WF_vars(Apply) /\ WF_vars(RunGCC)
-----------------------------------------------------------------------------
(* Properties.                                                             *)

\* RunSCReAM reaches its use of e.media (line 97 of bandwidth_estimator.go) only
\* after SetMedia has assigned both words of it: the stream is registered by the
\* first packet, which Play writes.  Nothing else orders the two goroutines.
NoMediaRace == bpc = "apply" => media = "source"

\* The encoder is only ever set to the initial target (the synthetic one: to 0) or
\* to a target that tx computed: a negative answer never becomes a huge unsigned
\* rate.
EncoderRates == {0, Scale(Initial)} \union {Scale(r) : r \in {q \in Rates : q >= 0}}
SaneRate == encoder \in EncoderRates

\* When the process ends well, every buffer that the pipeline made before the
\* end of the stream was received and all its packets were written, but for one
\* whose handler was still in its send at the end.  This is for GStreamer sources:
\* with the synthetic one the process ends when it starts (syncodec.go:67-70).
EndIsComplete ==
    pc = "ok" /\ source = "gst"
        => left = 0 /\ made = IF ppc = "cut" THEN taken + 1 ELSE taken

\* The packets of an H.264 frame are REQUIRED, which puts them on a stream, exactly
\* if the frame holds an IDR unit (gstreamer.go:199-233): however reader and helper
\* interleave, the last unit is not lost with the pipe.  A frame that begins with
\* an IDR unit is left out: the first unit is read and not looked at.
KeyFramesReliable ==
    pc = "write" /\ frame # <<>> /\ frame[1] # "IDR"
        => (hasIDR <=> \E i \in DOMAIN frame : frame[i] = "IDR")

\* The pipeline never waits for ever for Play to take a buffer: isKeyFrame comes
\* to its end although it reads a pipe that another goroutine has to close.
BuffersTaken == (ppc = "offer") ~> (ppc # "offer" \/ ~Running)

\* Building the interceptors does not hang, unless RunSCReAM has returned
\* because its log file cannot be opened: then nobody receives the estimator.
BuildReturns == (pc = "build") ~> (pc # "build" \/ bpc = "returned")

\* If tx (SCReAM) stays with one target, the encoder ends up with it, whatever was
\* set before; unless the process ends.
RateFollows ==
    \A r \in {q \in Rates : q >= 0} :
        <>[](Running /\ rtpCC = "scream" /\ registered /\ rate = r)
            => <>[](encoder = Scale(r))
=============================================================================

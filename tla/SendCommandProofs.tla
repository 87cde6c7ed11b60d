------------------------- MODULE SendCommandProofs -------------------------
(***************************************************************************)
(* Proofs about SendCommand, for any rates, units and numbers of buffers.  *)
(***************************************************************************)
EXTENDS SendCommand, TLAPS

BeforePlay == {"setup", "dial", "build", "data", "stream", "media", "setMedia", "play"}

\* Only Play registers the stream, and only after SetMedia is done.
MediaInv ==
    /\ bpc \in {"open", "wait", "loop", "apply"} => rtpCC = "scream"
    /\ rtpCC = "scream" =>
        /\ pc \in {"play", "select", "scan", "write", "leave"} => media = "source"
        /\ ppc # "none" => media = "source"
        /\ registered => media = "source"
    /\ bpc = "apply" => registered

\* RunSCReAM holds a target of tx that is not negative when it uses it.
RateInv ==
    /\ SaneRate
    /\ rate \in Rates
    /\ bpc = "apply" => target \in {q \in Rates : q >= 0}

\* A buffer is in the hands of the pipeline's thread or of Play, never of none.
BufferInv ==
    /\ pc \in BeforePlay => ppc = "none"
    /\ source = "gst" => /\ made = IF ppc \in {"offer", "cut"} THEN taken + 1 ELSE taken
                         /\ ppc # "codec" /\ pc # "leave"
    /\ taken \in Nat /\ left \in Nat
    /\ pc = "write" => left # 0
    /\ pc \in BeforePlay \union {"select", "scan", "leave", "ok"} => left = 0

\* Every action keeps MediaInv.
LEMMA MediaStep == MediaInv /\ [Next]_vars => MediaInv'
<1> SUFFICES ASSUME MediaInv, [Next]_vars
             PROVE  MediaInv'
  OBVIOUS
<1> USE DEF MediaInv, flags, mainVars, scanVars, bweVars, pipeVars
<1>1. CASE Start
  BY <1>1 DEF Start, SetupInterceptor, Dial, Build, NewDataStream,
              NewMediaStream, NewSource, SetMedia, Play
<1>2. CASE Loop
  BY <1>2 DEF Loop, TakePacket, TakeFrame, TakeOtherFrame, Packetize, NextNAL, ScanDone,
              WritePacket, WriteFails, PlayReturns
<1>3. CASE Pipeline
  BY <1>3 DEF Pipeline, MakeBuffer, EndOfStream, PipelinePanics, WriteFrame
<1>4. CASE RunSCReAM
  BY <1>4 DEF RunSCReAM, OpenLogFile, Tick, Apply
<1>5. CASE NewRate
  BY <1>5 DEF NewRate
<1>6. CASE UNCHANGED vars
  BY <1>6 DEF vars
<1>7. CASE HelperCloses
  BY <1>7 DEF HelperCloses
<1>8. CASE RunGCC \/ Fails
  BY <1>8 DEF RunGCC, Fails
<1> QED
  BY <1>1, <1>2, <1>3, <1>4, <1>5, <1>6, <1>7, <1>8 DEF Next

\* RunSCReAM uses e.media only when SetMedia has assigned all of it, although no
\* lock protects it (NoMediaRace).
THEOREM NoMediaRaceHolds == Spec => []NoMediaRace
<1>1. Init => MediaInv
  BY DEF Init, MediaInv
<1>2. MediaInv => NoMediaRace
  BY DEF MediaInv, NoMediaRace
<1> QED
  BY <1>1, <1>2, MediaStep, PTL DEF Spec

\* Every action keeps RateInv.
LEMMA RateStep == RateInv /\ [Next]_vars => RateInv'
<1> SUFFICES ASSUME RateInv, [Next]_vars
             PROVE  RateInv'
  OBVIOUS
<1> USE DEF RateInv, SaneRate, flags, mainVars, scanVars, bweVars, pipeVars
<1>r. ASSUME UNCHANGED <<source, codec>>
      PROVE  EncoderRates' = EncoderRates
  BY <1>r DEF EncoderRates, Scale
<1>0. ASSUME UNCHANGED <<source, codec, encoder, rate, target>>,
             bpc' = "apply" => bpc = "apply"
      PROVE  RateInv'
  BY <1>0, <1>r
<1>1. CASE Start
  <2>1. CASE NewSource
    <3>1. encoder' \in EncoderRates
      BY <2>1 DEF NewSource, InitialRate, EncoderRates
    <3> QED
      BY <1>r, <2>1, <3>1 DEF NewSource
  <2>2. CASE ~NewSource
    BY <1>0, <1>1, <2>2 DEF Start, SetupInterceptor, Dial, Build,
                            NewDataStream, NewMediaStream, SetMedia, Play
  <2> QED
    BY <2>1, <2>2
<1>2. CASE Loop
  BY <1>0, <1>2 DEF Loop, TakePacket, TakeFrame, TakeOtherFrame, Packetize, NextNAL,
              ScanDone, WritePacket, WriteFails, PlayReturns
<1>3. CASE Pipeline
  BY <1>0, <1>3 DEF Pipeline, MakeBuffer, EndOfStream, PipelinePanics, WriteFrame
<1>4. CASE RunSCReAM
  <2>1. CASE OpenLogFile
    BY <1>0, <2>1 DEF OpenLogFile
  <2>2. CASE Tick
    BY <1>r, <2>2 DEF Tick
  <2>3. CASE Apply
    <3>1. encoder' = encoder \/ encoder' = Scale(target)
      BY <2>3 DEF Apply
    <3>2. Scale(target) \in EncoderRates
      BY <2>3 DEF Apply, EncoderRates
    <3> QED
      BY <1>r, <2>3, <3>1, <3>2 DEF Apply
  <2> QED
    BY <1>4, <2>1, <2>2, <2>3 DEF RunSCReAM
<1>5. CASE NewRate
  BY <1>5, <1>r DEF NewRate
<1>6. CASE UNCHANGED vars
  BY <1>0, <1>6 DEF vars
<1>7. CASE HelperCloses
  BY <1>0, <1>7 DEF HelperCloses
<1>8. CASE RunGCC \/ Fails
  BY <1>0, <1>8 DEF RunGCC, Fails
<1> QED
  BY <1>1, <1>2, <1>3, <1>4, <1>5, <1>6, <1>7, <1>8 DEF Next

\* The encoder never gets a rate that is neither the initial target nor one that
\* tx computed (SaneRate).
THEOREM SaneRateHolds == Spec => []SaneRate
<1>1. Init => RateInv
  BY DEF Init, RateInv, SaneRate, EncoderRates
<1>2. RateInv => SaneRate
  BY DEF RateInv
<1> QED
  BY <1>1, <1>2, RateStep, PTL DEF Spec

\* With a GStreamer source the process ends well only after the end of the stream.
EndedByEos == pc = "ok" /\ source = "gst" => ppc \in {"eos", "cut"}

\* Every action keeps BufferInv.
LEMMA BufferStep == BufferInv /\ [Next]_vars => BufferInv'
<1> SUFFICES ASSUME BufferInv, [Next]_vars
             PROVE  BufferInv'
  OBVIOUS
<1> USE DEF BufferInv, BeforePlay, flags, mainVars, scanVars, bweVars, pipeVars
<1>1. CASE Start
  BY <1>1 DEF Start, SetupInterceptor, Dial, Build, NewDataStream,
              NewMediaStream, NewSource, SetMedia, Play
<1>2. CASE Loop
  <2>1. CASE TakePacket
    BY <2>1 DEF TakePacket
  <2>2. CASE TakeFrame
    BY <2>2, BoundsAreNatural DEF TakeFrame, Packetize
  <2>6. CASE TakeOtherFrame
    <3>1. /\ left' \in 0 .. MaxPackets
          /\ pc' = IF left' = 0 THEN "select" ELSE "write"
      BY <2>6 DEF TakeOtherFrame, Packetize
    <3> QED
      BY <2>6, <3>1, BoundsAreNatural DEF TakeOtherFrame
  <2>3. CASE NextNAL \/ ScanDone
    BY <2>3, BoundsAreNatural DEF NextNAL, ScanDone, Packetize
  <2>4. CASE WritePacket \/ WriteFails
    BY <2>4 DEF WritePacket, WriteFails
  <2>5. CASE PlayReturns
    BY <2>5 DEF PlayReturns
  <2> QED
    BY <1>2, <2>1, <2>2, <2>3, <2>4, <2>5, <2>6 DEF Loop
<1>3. CASE Pipeline
  BY <1>3 DEF Pipeline, MakeBuffer, EndOfStream, PipelinePanics, WriteFrame
<1>4. CASE RunSCReAM
  BY <1>4 DEF RunSCReAM, OpenLogFile, Tick, Apply
<1>5. CASE NewRate
  BY <1>5 DEF NewRate
<1>6. CASE UNCHANGED vars
  BY <1>6 DEF vars
<1>7. CASE HelperCloses
  BY <1>7 DEF HelperCloses
<1>8. CASE RunGCC \/ Fails
  BY <1>8 DEF RunGCC, Fails
<1> QED
  BY <1>1, <1>2, <1>3, <1>4, <1>5, <1>6, <1>7, <1>8 DEF Next

\* A process that ends well has written every buffer of the pipeline
\* (EndIsComplete): Play takes the closed channel only when no buffer is offered.
THEOREM EndIsCompleteHolds == Spec => []EndIsComplete
<1>1. Init => BufferInv
  BY DEF Init, BufferInv, BeforePlay
<1>2. BufferInv /\ EndedByEos => EndIsComplete
  BY DEF BufferInv, BeforePlay, EndIsComplete, EndedByEos
<1>3. Init => EndedByEos
  BY DEF Init, EndedByEos
<1>4. BufferInv /\ EndedByEos /\ [Next]_vars => EndedByEos'
  BY DEF BufferInv, EndedByEos, Next, Start, Fails, SetupInterceptor, Dial, Build,
         NewDataStream, NewMediaStream, NewSource, SetMedia, Play, Loop, TakePacket,
         TakeFrame, TakeOtherFrame, Packetize, NextNAL, ScanDone, WritePacket, WriteFails,
         PlayReturns, HelperCloses, Pipeline, MakeBuffer, EndOfStream,
         PipelinePanics, WriteFrame, RunSCReAM, OpenLogFile, Tick, Apply, RunGCC,
         NewRate, Running, vars, flags, mainVars, scanVars, bweVars, pipeVars
<1> QED
  BY <1>1, <1>2, <1>3, <1>4, BufferStep, PTL DEF Spec

\* The answer of isKeyFrame so far is about the units after the first that were
\* returned, and a frame is written when all of them were.
KeyInv ==
    /\ frame \in Seq(STRING) /\ nals \in 0..Len(frame)
    /\ codec = "h264" => (hasIDR <=> \E i \in 2..nals : frame[i] = "IDR")
    /\ pc = "write" => nals = Len(frame)
    /\ ~(transport = "quic-prio" /\ codec = "h264") => frame = <<>>
    /\ pc = "scan" => codec = "h264"

\* Every action keeps KeyInv.
LEMMA KeyStep == KeyInv /\ [Next]_vars => KeyInv'
<1> SUFFICES ASSUME KeyInv, [Next]_vars
             PROVE  KeyInv'
  OBVIOUS
<1> USE DEF flags, scanVars, mainVars
<1>0. ASSUME UNCHANGED <<transport, codec, frame, nals, hasIDR>>,
             pc' \in {"write", "scan"} => pc' = pc
      PROVE  KeyInv'
  BY <1>0 DEF KeyInv
<1>1. CASE Start
  BY <1>0, <1>1 DEF Start, SetupInterceptor, Dial, Build, NewDataStream,
                    NewMediaStream, NewSource, SetMedia, Play
<1>2. CASE Loop
  <2>1. CASE TakePacket
    BY <2>1 DEF TakePacket, KeyInv
  <2>2. CASE TakeFrame
    <3>1. frame' \in Seq(STRING) /\ nals' = 0 /\ hasIDR' = FALSE
      BY <2>2, FramesAreSequences DEF TakeFrame
    <3>2. pc' = "write" => Len(frame') = 0
      BY <2>2, <3>1 DEF TakeFrame
    <3> QED
      BY <2>2, <3>1, <3>2 DEF TakeFrame, KeyInv
  <2>3. CASE NextNAL
    <3>1. nals' \in 0..Len(frame') /\ nals' = nals + 1 /\ frame' = frame
      BY <2>3 DEF NextNAL, KeyInv
    <3>2. hasIDR' <=> \E i \in 2..(nals + 1) : frame[i] = "IDR"
      <4>1. nals > 0 /\ frame[nals + 1] = "IDR" => nals + 1 \in 2..(nals + 1)
        BY DEF KeyInv
      <4>2. \A i \in 2..(nals + 1) : i \in 2..nals \/ (i = nals + 1 /\ nals > 0)
        BY DEF KeyInv
      <4>3. \A i \in 2..nals : i \in 2..(nals + 1)
        BY DEF KeyInv
      <4> QED
        BY <2>3, <4>1, <4>2, <4>3 DEF NextNAL, KeyInv
    <3> QED
      BY <2>3, <3>1, <3>2 DEF NextNAL, KeyInv
  <2>4. CASE ScanDone
    BY <2>4 DEF ScanDone, Packetize, KeyInv
  <2>6. CASE TakeOtherFrame
    <3>1. frame = <<>> /\ nals = 0
      BY <2>6 DEF TakeOtherFrame, KeyInv
    <3> QED
      BY <2>6, <3>1 DEF TakeOtherFrame, Packetize, KeyInv
  <2>5. CASE WritePacket \/ WriteFails \/ PlayReturns
    BY <1>0, <2>5 DEF WritePacket, WriteFails, PlayReturns
  <2> QED
    BY <1>2, <2>1, <2>2, <2>3, <2>4, <2>5, <2>6 DEF Loop
<1>3. CASE Pipeline
  BY <1>0, <1>3 DEF Pipeline, MakeBuffer, EndOfStream, PipelinePanics, WriteFrame
<1>4. CASE RunSCReAM \/ RunGCC \/ Fails \/ NewRate
  BY <1>0, <1>4 DEF RunSCReAM, OpenLogFile, Tick, Apply, RunGCC, Fails, NewRate
<1>5. CASE HelperCloses
  BY <1>0, <1>5 DEF HelperCloses
<1>6. CASE UNCHANGED vars
  BY <1>0, <1>6 DEF vars
<1> QED
  BY <1>1, <1>2, <1>3, <1>4, <1>5, <1>6 DEF Next

\* The packets of a frame that does not begin with an IDR unit are REQUIRED exactly
\* if it holds one, for all frames (KeyFramesReliable).
THEOREM KeyFramesReliableHolds == Spec => []KeyFramesReliable
<1>1. Init => KeyInv
  BY DEF Init, KeyInv
<1>2. KeyInv => KeyFramesReliable
  <2> SUFFICES ASSUME KeyInv, pc = "write", frame # <<>>, frame[1] # "IDR"
               PROVE  hasIDR <=> \E i \in DOMAIN frame : frame[i] = "IDR"
    BY DEF KeyFramesReliable
  <2>1. DOMAIN frame = 1..nals /\ nals \in Nat
    BY DEF KeyInv
  <2>2. \A i \in 1..nals : i = 1 \/ i \in 2..nals
    BY <2>1
  <2>3. \A i \in 2..nals : i \in 1..nals
    BY <2>1
  <2> QED
    BY <2>1, <2>2, <2>3 DEF KeyInv
<1> QED
  BY <1>1, <1>2, KeyStep, PTL DEF Spec
=============================================================================

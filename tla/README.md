# Verification of rtp-over-quic

TLA+ models of the concurrent core of `rtp-over-quic`, model-checked with TLC,
with every safety property proved by TLAPS for every value of the
constants. `PROJECT.json` lists components, runs, mutants, the map from
definitions to source lines, findings, hazards and theorems.

## 1. The system and its parts

A sender encodes video, packetizes it as RTP and sends it over QUIC, UDP or TCP;
a receiver plays it and returns RTCP feedback (RFC 8888) that drives the SCReAM
congestion controller of the sender. All parts are goroutines joined by
unbuffered channels, two mutexes and wait groups; there is no persistent state.

| part | state | operations | talks to |
|---|---|---|---|
| SCReAM sender interceptor (`scream/sender_interceptor.go`) | map SSRC -> stream, per stream a queue, two channels and a pacing loop with a timer; `tx` (C++) | `BindLocalStream` and its writer, `loopPacingTimer`, the RTCP reader, `GetTargetBitrate`, `UnbindLocalStream`, `Close` | media source (writer), transport (writer below it), `ReadRTCP`, bandwidth estimator |
| RTP queue (`scream/rtp_queue.go`) | list, byte counter | enqueue, dequeue, clear, seven queries | interceptor and `tx` |
| SCReAM receiver interceptor (`scream/receiver_interceptor.go`) | map SSRC -> `Rx`, two goroutines | bind/unbind, RTP readers, `loop`, `loopFeedbackSender`, `Close` | server's handler, RTCP writer |
| unwrapper (`rtp/unwrapper.go`) | last unwrapped number | `unwrap` | packet log |
| QUIC sender (`quic/sender.go`, `quic/local_rfc8888.go`) | connection, flow IDs, channel of acknowledged packets | media and data streams, acknowledgement callback, feedback generator, `readFromNetwork` | interceptor, quic-go, `ReadRTCP` |
| TCP and UDP senders | connection, one RTCP buffer | media stream, `readFromNetwork` | the same |
| QUIC, TCP, UDP servers | a handler per peer, a packet channel, a wait group | `Start`, `handle`, receiving goroutines, `WriteRTCP` | receiver interceptor, media sink |
| bandwidth estimator and send command (`rtp/bandwidth_estimator.go`, `cmd/send.go`) | estimator, `e.media` (no lock) | `start`, `RunSCReAM`, `SetMedia` | interceptor, media source |
| receive command (`cmd/receive.go`, `rtp/interceptor.go`, `logging/logging.go`) | per peer a handler, a sink, interceptors and a packet log; one log file | `start`, `handle`, `addStream` | servers, media sink |
| media (`media/`) | GStreamer pipeline, buffer channel, a pipe with a helper goroutine per H.264 frame | `Play`, `isKeyFrame`, `SetTargetBitsPerSecond`, `WriteFrame` | RTP writer |
| tracer, command line, TLS | four round-trip values; nothing else that changes | | |

What is hard in it: the RTCP reader blocks on a channel with a mutex held; every
arrow of the local feedback cycle (pacing loop, connection, callback, generator,
`ReadRTCP`, pacing loop) blocks; permissions of `tx` are used after the lock was
released; timers and wake-ups race; wait groups are counted in one goroutine and
awaited in another; buffers are reused while others read them; connections break
between a length and its body; `ctx` is done while goroutines still offer packets;
over TCP the round from the pacing loop through the network, the server and back
to the pacing loop consists of waiting goroutines only; all handlers of the
receiver share one log file.
The list of hazards in `PROJECT.json` names each at its line.

What makes each part correct: packets leave once and in order, the window is
respected, nobody waits for ever, `Close` ends what it should end (sender); the
counter describes the list (queue); packets are eventually reported (receiver);
the true number comes back (unwrapper); the cycle never closes (QUIC sender);
a batch reaches `tx` whole and does not come back (RTCP path); a byte stream carries whole
messages in order (TCP); packets reach their own handler once and whole (server);
the encoder follows `tx` (bandwidth estimator); the window opens again and nobody
on the round waits for himself (session); each peer has a sink of its own and is
served whatever the others do (receive command).

## 2. Modules

| module | models | how its state and steps correspond |
|---|---|---|
| `ScreamSender` | sender interceptor | one program counter per goroutine; a section under `s.m` is one step, `rtpStreamsMu` is held exactly while `rpc = "send"`; send and receive on an unbuffered channel are one step; a batch of RTCP may hold several reports, which the reader takes one after the other, and packets that it skips. `tx` is external: packets in flight, a window, and the three answers of `IsOkToTransmit` |
| `RtpQueue` | queue | list, counter and clock; the queries are operators, checked against the list |
| `ScreamReceiver` | receiver interceptor | as above; `reported` is what was written. A write of feedback is a step of its own, with `screamRxMu` locked until it returns, and the network may hold it up (`stalled`). `Supported` stands for `streamSupportSCReAM` |
| `Unwrapper` | unwrapper | 16-bit arithmetic; `true` is the number that the peer meant |
| `QuicSender` | QUIC sender with local feedback | one stream that always has something to send; quic-go is external: `SendMessage` returns when the connection took the datagram, the callback runs on the connection's goroutine. `tx` may give up any packet in flight (`given`), whatever QUIC thinks of it |
| `RtcpPath` | `readFromNetwork` of all transports, `ReadRTCP` | a batch is a number, with as many reports as `Reports` allows: the bytes are copied once and fed to `tx` once per report. Reading a buffer that was overwritten gives the new batch or a mixture. QUIC and UDP lose and reorder, QUIC delivers none twice |
| `Session` | a sender and a receiver joined by a transport | composes `RtcpPath` (by `INSTANCE`) with the pacing loop, the server's goroutines and the SCReAM receiver, each reduced to what it waits for; a batch is known by the last packet that it covers; datagrams may overtake each other in both directions, TCP keeps the order |
| `TcpFrames`, `FrameChannel` | framing over TCP; the ordered channel that it promises | bytes to base `B`, two-byte prefixes, reads of any size, a connection that breaks anywhere. The server's reader makes a slice per message; the sender's copies each into one buffer of `BufSize`, drops what does not fit, and hands out a slice of it, which the next message overwrites (`stale`). `FrameChannel`, the abstract specification, promises whole messages to the server, and to the sender messages cut to its buffer that it has to read before the next one arrives |
| `QuicReceiver` | QUIC server | `Start`, a handler, `receiveDgrams` and `acceptStreams` per connection, a `readStream` per stream; `Accept` may fail at any time, and does once `ctx` is done |
| `SendCommand` | send command, bandwidth estimator, media sources | main goroutine, `RunSCReAM`, thread of the pipeline or of the synthetic codec, helper of `isKeyFrame`; the flags are chosen in `Init`; the assignment of the interface value `e.media` takes two steps; an H.264 frame is the sequence of the NAL units that `h264reader` returns, a VP8 frame says itself whether it is a key frame. The end of the stream may close `bufferCh` while a buffer is being sent |
| `ReceiveCommand` | receive command, accept loops of all servers, packet log | `Start`, a handler per peer (for UDP all in one goroutine), the goroutine of each packet log; a log line is one unit, and each handler has its own offset in the shared file. A packet that was sent arrives, once; over QUIC and UDP packets overtake each other (`Arriving`) |
| `MC*` | | values of constants for TLC |
| `*Proofs` | | theorems |

Left out of the data: the contents of packets (numbers or model values), times
other than the order of events (and the queue's delay), log lines. A panic ends
every goroutine.

## 3. Runs

Passing runs:

| run | question | bounds, and why they are enough |
|---|---|---|
| `scream_safety` | order, window, timers, shutdown, and whom the RTCP reader waits for | two streams (symmetric), two packets each, window 2, `Close` and `Unbind` at any time: both loops can hold a permission at once, and a packet can be queued behind another |
| `scream_progress` | is a wake-up ever lost; do writer, loop, reader and bitrate query wait for each other for ever; does `Close` return once the loop runs? | one stream, which is what the send command has, three packets, window 1, `Close` at any time: frame, feedback, timer and `Close` can all meet a loop that sleeps |
| `rtp_queue` | do counter and answers describe the list? | five packets of two sizes, every order of operations |
| `unwrapper` | is the number recovered? | six steps from firsts and with jumps around 0, 2^15 and 2^16 |
| `scream_receiver` | are packets reported, does `Close` end both goroutines, does an RTP reader wait for anything but a write that the network holds up? | a supported and an unsupported stream, two packets each, rebinding, writes that the network holds up and lets go at any time |
| `quic_sender` | can the feedback cycle close? | six packets, the last two (a large and a reliable one) on streams, window and channel of 2: every place of the channel can be taken, and packets that `tx` has given up can still be acknowledged. The program has 1000 places |
| `session` | can the round of waiting goroutines close; does the window open again; is each batch used whole (QUIC)? | window 5, the largest for which `NoCycle` says anything. TCP: eight packets, one packet and one batch in the buffers, one report per batch, so that all stations of the round but one can be full. QUIC four and UDP three packets, two batches in the buffers, none to two reports per batch, so that batches overtake each other |
| `quic_server` | is each packet read once and whole; are complete streams read; does the server stop, and is it quiet then? | one connection with two streams and two datagrams, one of them without flow ID; the theorems of section 5 cover any number of connections |
| `send_command` | is `e.media` ever used half-assigned; does the encoder follow `tx`; are key frames found; is the end complete? | every combination of transport, controller, source, codec (H.264, VP8, VP9) and `-stream`; three rates (one negative, one below the unit), three buffers of up to two packets, frames with the IDR unit first, in the middle, last, absent, and without a start code |
| `receive_command` | does each peer have its own sink; does anybody wait for another peer; is the log complete when the process dies; does the server return? | two peers behind one address, three packets of one and two of the other, all transports; a panic before or after the log is opened, an error of the listener and the end of `ctx` at any time |
| `tcp_frames` | does framing implement the ordered channel; does the server's reader leave? | both readers, two writers, three messages of different lengths, base 2: a length needs both bytes of its prefix and a body can look like a prefix; the longest does not fit the sender's buffer |

In every model something may stop by design (a closed interceptor, an ended
connection, a panic, exhausted bounds), so the configurations say
`CHECK_DEADLOCK FALSE`; that nobody waits for ever is what the liveness properties
are for.

A run that shows a disagreement between the code and its text:

* `rtcp_tcp_buffer`: the next RTCP batch is copied over bytes that are being read,
  so `tx` may get a batch twice or a mixture ("once per packet batch" says the
  comment at `sender_interceptor.go:104`).

What `session` shows about TCP: the pacing loop waits in `conn.Write` for the
server to read, the server's reader for its handler, the handler for `loop`, `loop`
for the mutex of the goroutine that writes a report, that one in `conn.Write` for
the sender, `readFromNetwork` for `ReadRTCP`, and `ReadRTCP` on `newFeedback`, with
the mutex held, for the pacing loop. No code prevents the last link, and nothing in the
program relates the buffers of the sockets to the window. So the condition is part of
the property: `NoCycle` says that the round does not close if the window is no larger
than what full stations hold (`WindowFits`: the two buffers and three packets in hands).
It is tight: with `Cwnd = 6` and `WindowFits` taken out of the formula TLC finds the
deadlock.

`WindowReopens` leaves out one packet: it may be reported before `AddTransmitted`
has booked it, and then nothing reports it again until another packet arrives. It
has the same condition for TCP, and leaves out sessions in which something was lost, dropped by UDP's
`readFromNetwork`, or torn by TCP's shared buffer: then only the library's own time-out
helps, which is external.

What `quic_sender` shows has a condition of this kind, too. `tx` may give up a packet
that QUIC has not declared lost, by its own time-out or because later packets were
acknowledged; this opens the window, and the acknowledgement may still come. `Fits` says
that the window and such packets (`Astray`) together find room in `ackedPkts`; only then
does the callback never block and the cycle turn. With the weaker condition that the
window alone fits, TLC finds the callback blocked.

`ReadReturns`, `CloseReturns` and `EventuallyReported` of the receiver interceptor hold
unless a write of feedback is held up by the network: both goroutines write with
`screamRxMu` locked, and over TCP the peer decides when such a write returns. `NoCycle`
then says when it does.

Behaviours that delimit the properties of the commands and transports:

* over QUIC and UDP a sink may play a later packet first: the datagrams and streams of
  a connection meet in `pktChan` in any order (`OwnSink` has an order for TCP only);
* over TCP the sender reads at most `BufSize` (1500) bytes of a batch, and reads
  anything once the next batch has arrived: this is what `FrameChannel` promises, and
  what `rtcp_tcp_buffer` shows the effect of;
* if the end of the stream comes while a buffer is being sent, the send panics or the
  process ends first, and that buffer is lost (`EndIsComplete` allows for it);
* the first NAL unit of a frame is read and not examined, so a frame that begins with
  an IDR unit is not taken for a key frame (`KeyFramesReliable` leaves it out);
* a frame without a start code leaves the helper goroutine of `isKeyFrame` behind;
* `Play` of the synthetic source returns at once and the send command with it
  (`EndIsComplete` is for GStreamer sources); that source also ignores `-target`;
* if `RunSCReAM` cannot open its log, `Build` hangs (`BuildReturns` leaves it out);
* each handler of the receiver creates the log file anew, so `LogKept` is about a
  receiver with one peer; a second handler has truncated the log even if it panics
  right afterwards, in the rest of `rtp.New` or in `Build`;
* nothing closes the TCP listener, so `ServerReturns` is for UDP and QUIC; if the
  listener fails, `Start` waits for handlers that leave only when `ctx` is done;
* at the end of a TCP connection the sender's reader logs "exiting" and reads on for
  ever (`HandlerLeaves` is about the server's reader, which returns on EOF);
* a sink that cannot be built panics and ends the process for all peers.

The commands themselves run under a context that is never done; that servers and
readers react to it is checked because their functions take one.

Four behaviours of the sender interceptor that the model has and that delimit what
its properties say:

* `BindLocalStream` counts a loop that only the first packet starts, so `Close` waits
  for ever for a stream that was bound and never used (`CloseReturnsIfRunning` is
  about streams whose loop runs);
* after `Close`, feedback blocks the RTCP reader with `rtpStreamsMu` held, and
  `GetTargetBitrate` and writers wait for it (the progress properties end at `Close`);
* `UnbindLocalStream` closes a channel that was never made and panics;
* all transports bind with an empty `StreamInfo`, so a second stream would replace the
  first one under SSRC 0, and feedback at the wrong moment would make the RTCP reader
  and the new loop wait for each other. The program binds one stream; the properties of
  several streams are for distinct SSRCs.

Each property of a passing run has a mutant, a variant of one definition with a
plausible slip (a dropped guard, an off-by-one, a missing reset), under which TLC
finds it violated. Mutants stand before the definition they vary.

## 4. Fairness

Go's scheduler runs every goroutine that can run: weak fairness of its steps. A
goroutine that waits for a mutex gets it in the end (Go's mutexes hand over to a
starving waiter), and a `select` chooses among the ready cases at random: strong
fairness for steps that need a mutex, a partner on a channel, or one case of a
select. Timers fire and tickers go on. The UDP socket keeps the order of arrival,
so no peer is passed over for ever; a read of a closed socket fails, and so does
QUIC's `Accept` after `ctx` is done. `tx` does not postpone for ever a packet it
may send (`SF(AskOk)`). Nothing is assumed of the application, the peer, the
network, GStreamer and `ctx`: they may stop at any time.

## 5. Proofs

All theorems hold for every value of the constants under the named assumptions in
the modules. Most of these are about types: finite sets of streams and connections,
natural bounds, positive window, datagrams are not streams, `Of` is a function. Two
say something about the program: `LengthsFit` (a message is shorter than 65536 bytes, so
that its length fits the prefix: over TCP the payloaders make packets of the configured
MTU, and reports are short; the large packets of key frames are QUIC's) and `RatesFitUint`
(a target bitrate fits a `uint`). What nothing in the program establishes is no
assumption but a condition in the formula: `WindowFits` in `NoCycle`, `Fits` in
`CallbackNeverBlocks`.

| theorem | inductive invariant, and why it is needed |
|---|---|
| `ScreamSenderProofs!TypeCorrect` | `TypeInv`: a loop only runs after its SSRC is registered, so its stream object and its packet exist |
| `TimerClosedOnceHolds` | `TimerInv`: at most one `AfterFunc` is outstanding, and only while `timerSet` is true and the channel open |
| `FeedbackMeetsRunningLoopHolds`, `InOrderHolds` (distinct SSRCs) | `RegInv`, `WireInv`, `OwnInv`: each stream is registered as itself; `OrderInv`: wire, hand and queue are one ascending sequence |
| `WindowOvershootHolds` | `WindowInv`: packets in flight plus permissions that are not booked yet stay below window plus streams |
| `CloseMeansQuietHolds` | `WaitInv`: the counter is the number of bound streams whose loop has not left |
| `ScreamProofs!BytesAlwaysMatch`, `AnswersAlwaysFit` | `Numbered`: the list holds the latest numbers without a gap; `Stamped`: time stamps are out of order by one tick at most; `Counted`: the counter is the last of the running sums of the sizes |
| `ScreamProofs!CloseMeansQuietHolds` | `WaitInv`: `loop` counts the second goroutine while it is itself counted |
| `ReceiveProofs!RecoversHolds`, `KeepsLowBitsHolds` | the last number has the low bits of the true one; the cases of `delta` by arithmetic modulo 2^16 |
| `ReceiveProofs!SinksAreOwn`, `LogIsKept` | `InHand`, `Ordered`: what a handler holds was read and is not among what it played, and over TCP it is newer (`Oldest`: all older packets were read); `Logged`: with one peer the packets that were played are the file, then the one with the log's goroutine, then the one with the reader |
| `QuicSenderProofs!CallbackHasRoom` | `Places`: a packet is in the network, lost, in the channel, in the callback or received, at one place only; `Window`: all but lost and received ones are in flight, about to be booked or given up by `tx`; the first two fit the window, so by `Fits` the channel is not full with the one in the callback |
| `QuicSenderProofs!PhantomIsAlone` | `Phantoms`: a report covers all that earlier ones covered, so when one covers a packet that is not booked yet, it clears every other one |
| `SessionProofs!RoundNeverCloses` | `RoundInv` over TCP: the packets between the pacing loop and `rx` stand in line, one number per place (`PacketsInLine`); each batch covers a packet more than the one before it (`ReportsInLine`); `tx` knows no more than the last batch says (`WindowHolds`). Full stations then hold more than a window within `WindowFits` |
| `SessionProofs!BatchesWholeOnQuic` | `BatchInv`: what waits for `ReadRTCP`, or is in its hands, was read and is not among the batches that were dealt with; the copy and what `tx` was given are the batch in hand |
| `SessionProofs!TypeCorrect`, `SessionImplementsRtcpPath` | `Bounded`: whatever gets lost, the server holds only packets that were sent and a report covers one of them; so the composition takes only steps of its component, with batches within that module's bound |
| `TcpFramesProofs!Refinement` | every step of `TcpFrames` is a step of `FrameChannel` or leaves its state alone. `InFrame`: what the reader has is the beginning of the current frame; `OnTape`: the pipe holds the bytes that follow, up to where the connection broke, at the offsets of the frames that were written; `Handed`: what the consumer holds is the next message, cut to the buffer, and it is stale only if a later one was written |
| `QuicReceiverProofs!QuietAfterStartHolds` | `WaitInv`: the counter is the number of running handlers |
| `QuicReceiverProofs!WholeAndOnceHolds` | `PacketInv`: a packet is in the network, held by one goroutine, or read; a read one can come from nowhere any more |
| `SendCommandProofs!NoMediaRaceHolds` | `MediaInv`: the stream is registered only by `Play`, after `SetMedia` |
| `SaneRateHolds`, `EndIsCompleteHolds` | `RateInv`, `BufferInv` |
| `KeyFramesReliableHolds` | `KeyInv`: `hasIDR` says whether one of the units 2 to `nals` is an IDR unit, and a frame leaves the scan only when all units were returned |

So every safety invariant, every action property and the refinement that the passing
runs check is also a theorem. TLC helped to find the inductive invariants, on small
instances of the components.

`ScreamProofs` holds the proofs of two parts of package `scream`, and `ReceiveProofs`
those of the receiving side's unwrapper and command. Each extends both components, so the
queue and the unwrapper call their specifications `QueueSpec` and `UnwrapSpec`.

Induction over data, where it is needed, goes through the least counterexample: a
non-empty set of natural numbers has a smallest element (`Least`, from the library's
theorem on well-founded relations). `SumIsRunningSum` shows in this way that the sum of
`BytesMatch` is the running sum of the invariant. In `TcpFrames` no induction is needed:
the invariant says that offsets of the frames exist, and a new frame extends them.

`TypeCorrect`, `SaneRateHolds` and `SessionImplementsRtcpPath` are proved and not part
of a run: the other invariants rest on the first, the second follows from one guard,
and the third relates two modules.

Only model-checked: every liveness property (TLAPS does not prove fairness arguments
or `ENABLED`), that is `NoPacketForgotten`, `CallsReturn`, `CloseReturnsIfRunning`,
`EventuallyReported`, `CloseReturns`, `ReadReturns`, `CycleTurns`, `WindowReopens`,
`BatchesArrive`, `StreamsRead`, `ServerStops`, `Delivered`, `HandlerLeaves`,
`BuildReturns`, `RateFollows`, `BuffersTaken`, `PeersServed` and `ServerReturns`; and
`OncePerBatch`, which fails over TCP.

## 6. Not modelled

* `tx` and `Rx` (C++), quic-go, GStreamer: external, by how the code uses them.
  Races inside `tx` (`RegisterNewStream` and `GetStats` call it without the lock)
  are outside the source.
* The text of GStreamer pipelines, flags, TLS, key logs, profiles and socket options:
  no state that changes while the program runs.
* The tracer: each of its four values has a lock of its own, the program uses only
  the latest round-trip time, and that as an offset of timestamps, which no model has.
* The sender's packet logs and the RTCP logs: the same code as the receiver's RTP log,
  with one file per process on the sender. The text of log lines (`rtp/format.go`).
* `extractSSRCs` walks raw reports with 16-bit arithmetic; `pion/rtcp` parses these
  reports itself, so a report is the set of SSRCs that it names, and the arithmetic is
  not modelled.
* The codecs H.265 (its encoder ignores `-target`) and AV1 (`NewGstreamerSource` panics).
* `Stop` of sources and sinks, `GetTargetBitsPerSecond` and the sink of the synthetic
  codec, which the program never uses. Choosing `twcc` or `rfc8888-pion` feedback puts
  an interceptor of a library in the place of the SCReAM receiver.

## 7. Plan

Done, in this order: sender interceptor, queue, unwrapper, receiver interceptor,
QUIC sender, RTCP path, TCP framing with its abstract channel, QUIC server, send
command with all sources and flags, session, receive command with all servers and
the packet log. All safety properties are proved, with what the program does not guarantee as a condition
in the formula. Left are results that
no run states, as far as they say more about the program:

1. the safety part of the liveness arguments: whenever a goroutine waits, the one it
   waits for can step or is itself waited for in a chain that ends (the round of
   `Session`, the feedback cycle of `QuicSender`);
2. how far `acked` may be behind in `Session` over UDP and QUIC, where packets get lost.

That `WindowFits` and `Fits` are tight is about reachable states and stays with TLC.

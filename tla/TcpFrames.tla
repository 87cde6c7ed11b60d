------------------------------ MODULE TcpFrames ------------------------------
(***************************************************************************)
(* RTP and RTCP over TCP (tcp/sender.go, tcp/receiver.go): each message is *)
(* written behind a prefix of two bytes that holds its length, and a       *)
(* goroutine at the other end cuts the byte stream into messages again.    *)
(*                                                                         *)
(* One direction of one connection.  side says which program reads: the    *)
(* "handler" of the server reads RTP, the "sender" reads RTCP.  Several    *)
(* goroutines write at a time: the pacing loops of the streams in one      *)
(* direction, loop and loopFeedbackSender in the other.                    *)
(*                                                                         *)
(* The handler reads every message into a slice of its own.  The sender    *)
(* copies it into one buffer and hands out a slice of that, which the next *)
(* message overwrites while the consumer may still be reading it.          *)
(***************************************************************************)
EXTENDS Integers, Sequences

CONSTANTS
    Writers,    \* goroutines that write messages
    Msgs,       \* messages, as sequences of bytes
    B,          \* number of values of a byte (256 in the program)
    Sides,      \* the reading programs considered: "handler", "sender"
    BufSize,    \* size of the sender's buffer for RTCP (1500 in the program)
    MaxWrites   \* bound: messages written

ASSUME BaseIsByte  == B \in Nat /\ B > 1
ASSUME MsgsAreBytes == \A m \in Msgs : m \in Seq(0..(B - 1))
ASSUME BufSizeIsNat == BufSize \in Nat

\* Every length fits into the prefix: the payloaders make RTP packets, and the
\* SCReAM receiver reports, that are far shorter than 2^16 bytes.
ASSUME LengthsFit == \A m \in Msgs : Len(m) < B * B

Torn == <<-1>>   \* a mixture of two messages

VARIABLES
    side,      \* which program reads
    frame,     \* per writer: the bytes that it is about to write
    written,   \* history: messages, in the order of their conn.Write
    calls,     \* messages handed to a writer
    pipe,      \* bytes on their way
    conn,      \* "open", "reset", or "eof" when no more bytes will follow
    rpc,       \* where the reading goroutine is
    have,      \* bytes that the current io.ReadFull has read
    length,    \* decoded length of the current message
    msg,       \* the message that it offers on pktChan (rtcpChan)
    cpc,       \* where the consumer is (Handler.handle, rtp.ReadRTCP)
    view,      \* the message whose slice the consumer was handed
    stale,     \* that slice has been written over
    got,       \* what the consumer has read from its slices
    cancelled  \* ctx is done

writeVars == <<frame, written, calls>>
netVars   == <<pipe, conn>>
readVars  == <<rpc, have, length, msg>>
useVars   == <<side, cpc, view, stale, got, cancelled>>
vars      == <<writeVars, netVars, readVars, useVars>>

Init ==
    /\ side \in Sides
    /\ frame = [w \in Writers |-> <<>>] /\ written = <<>> /\ calls = 0
    /\ pipe = <<>> /\ conn = "open"
    /\ rpc = "prefix" /\ have = <<>> /\ length = 0 /\ msg = <<>>
    /\ cpc = "select" /\ view = <<>> /\ stale = FALSE /\ got = <<>> /\ cancelled = FALSE

-----------------------------------------------------------------------------
(* Writing.                                                                *)

\* binary.BigEndian.PutUint16 and Uint16.
PutUint16(n)  == <<(n \div B) % B, n % B>>
Uint16(bytes) == bytes[1] * B + bytes[2]

\* Mutant: little-endian on the writing side.
Frame_Swapped(m) == <<Len(m) % B, (Len(m) \div B) % B>> \o m

\* uint16(len(msg)) is what PutUint16 keeps of the length.
Frame(m) == PutUint16(Len(m)) \o m

\* The RTPWriter of NewMediaStream or Handler.WriteRTCP: marshal and prefix.
Marshal(w, m) ==
    /\ frame[w] = <<>> /\ calls < MaxWrites
    /\ frame' = [frame EXCEPT ![w] = Frame(m)]
    /\ calls' = calls + 1
    /\ UNCHANGED <<written, netVars, readVars, useVars>>

\* Mutant: the prefix and the message are written by two calls of conn.Write.
ConnWrite_Twice(w) ==
    /\ frame[w] # <<>> /\ conn = "open"
    /\ \E n \in {2, Len(frame[w])} \cap 1..Len(frame[w]) :
        /\ pipe' = pipe \o SubSeq(frame[w], 1, n)
        /\ frame' = [frame EXCEPT ![w] = SubSeq(@, n + 1, Len(@))]
        /\ written' = IF n = Len(frame[w]) /\ n > 2
                      THEN Append(written, SubSeq(frame[w], 3, n)) ELSE written
    /\ UNCHANGED <<calls, conn, readVars, useVars>>

\* One conn.Write for prefix and message; writes of other goroutines wait.
ConnWrite(w) ==
    /\ frame[w] # <<>> /\ conn = "open"
    /\ pipe' = pipe \o frame[w]
    /\ written' = Append(written, SubSeq(frame[w], 3, Len(frame[w])))
    /\ frame' = [frame EXCEPT ![w] = <<>>]
    /\ UNCHANGED <<calls, conn, readVars, useVars>>

\* On a broken connection the write returns an error.
ConnWriteFails(w) ==
    /\ frame[w] # <<>> /\ conn # "open"
    /\ frame' = [frame EXCEPT ![w] = <<>>]
    /\ UNCHANGED <<written, calls, netVars, readVars, useVars>>

\* The peer goes away or the connection is reset, in the middle of a message
\* perhaps: part of what is on its way may be lost.
ConnBreaks ==
    /\ conn = "open"
    /\ \E n \in 0..Len(pipe) : pipe' = SubSeq(pipe, 1, n)
    /\ conn' \in {"eof", "reset"}
    /\ UNCHANGED <<writeVars, readVars, useVars>>

-----------------------------------------------------------------------------
(* Reading: Handler.receive and Sender.readFromNetwork.                    *)

Wanted == IF rpc = "prefix" THEN 2 ELSE length

\* A read of io.ReadFull returns something, possibly less than is wanted.
ReadSome ==
    /\ rpc \in {"prefix", "body"}
    /\ \E n \in 1..(Wanted - Len(have)) :
        /\ n <= Len(pipe)
        /\ have' = have \o SubSeq(pipe, 1, n)
        /\ pipe' = SubSeq(pipe, n + 1, Len(pipe))
    /\ UNCHANGED <<writeVars, conn, rpc, length, msg, useVars>>

PrefixDone ==
    /\ rpc = "prefix" /\ Len(have) = 2
    /\ length' = Uint16(have)
    /\ have' = <<>>
    /\ rpc' = "body"
    /\ UNCHANGED <<writeVars, netVars, msg, useVars>>

\* The handler passes on the slice that it has read into; the sender copies it
\* into its one buffer and drops what does not fit.
Keep(bytes) == IF side = "sender" /\ Len(bytes) > BufSize
               THEN SubSeq(bytes, 1, BufSize) ELSE bytes

BodyDone ==
    /\ rpc = "body" /\ Len(have) = length
    /\ msg' = Keep(have)
    /\ stale' = (stale \/ (side = "sender" /\ cpc = "use"))
    /\ have' = <<>>
    /\ rpc' = "offer"
    /\ UNCHANGED <<writeVars, netVars, length, side, cpc, view, got, cancelled>>

\* The error of io.ReadFull: EOF only if nothing of what is wanted was read.
ReadError == IF conn = "reset" THEN "ECONNRESET"
             ELSE IF have = <<>> THEN "EOF" ELSE "ErrUnexpectedEOF"

\* Mutant: a clean EOF is logged and retried, a torn message is not.
Returns_Torn == side = "handler" /\ ReadError = "ErrUnexpectedEOF"

\* The handler returns on EOF.  The sender returns on net.ErrClosed, which a
\* connection that its own program never closes does not give.
Returns == side = "handler" /\ ReadError = "EOF"

\* io.ReadFull fails: return, or log "exiting" and go on with the next prefix.
\* The kernel reports a reset once; then it is an EOF.
ReadFails ==
    /\ rpc \in {"prefix", "body"}
    /\ Len(have) < Wanted /\ pipe = <<>> /\ conn # "open"
    /\ rpc' = IF Returns THEN "exited" ELSE "prefix"
    /\ have' = <<>>
    /\ conn' = "eof"
    /\ UNCHANGED <<writeVars, pipe, length, msg, useVars>>

\* `pktChan <- pkt` (`rtcpChan <- ...`) meets the select of the consumer.
Consume ==
    /\ rpc = "offer" /\ cpc = "select"
    /\ rpc' = "prefix"
    /\ cpc' = "use" /\ view' = msg /\ stale' = FALSE
    /\ UNCHANGED <<writeVars, netVars, have, length, msg, side, got, cancelled>>

\* The consumer reads the bytes that it was handed (h.reader.Read, tx): its message,
\* or, once they are overwritten, the later one or a mixture as well.
Use ==
    /\ cpc = "use"
    /\ \E m \in {view} \union (IF stale THEN {msg, Torn} ELSE {}) : got' = Append(got, m)
    /\ cpc' = "select" /\ view' = <<>> /\ stale' = FALSE
    /\ UNCHANGED <<writeVars, netVars, readVars, side, cancelled>>

Cancel ==
    /\ ~cancelled
    /\ cancelled' = TRUE
    /\ UNCHANGED <<writeVars, netVars, readVars, side, cpc, view, stale, got>>

ConsumerExits ==
    /\ cpc = "select" /\ cancelled
    /\ cpc' = "exited"
    /\ UNCHANGED <<writeVars, netVars, readVars, side, view, stale, got, cancelled>>

Next ==
    \/ \E w \in Writers : \/ \E m \in Msgs : Marshal(w, m)
                          \/ ConnWrite(w) \/ ConnWriteFails(w)
    \/ ConnBreaks
    \/ ReadSome \/ PrefixDone \/ BodyDone \/ ReadFails
    \/ Consume \/ Use \/ Cancel \/ ConsumerExits

Spec == Init /\ [][Next]_vars

\* Go schedules the reading goroutine and the consumer; TCP delivers, and the
\* consumer gets through with a message (whether it does is a question for Session).
Fairness ==
    /\ WF_vars(ReadSome \/ PrefixDone \/ BodyDone \/ ReadFails)
    /\ SF_vars(Consume) /\ WF_vars(Use)

FairSpec == Spec /\ Fairness
-----------------------------------------------------------------------------
(* Properties.                                                             *)

\* However the writes of several goroutines and the reads of arbitrary pieces
\* interleave, and wherever the connection breaks, the consumer reads message after
\* message in the order of writing, up to some point: at the server exactly as it was
\* written, at the sender cut to the buffer and only until a later message arrives
\* (tcp/sender.go:105-127, tcp/receiver.go:116-139).
Channel == INSTANCE FrameChannel WITH sent <- written
ImplementsChannel == Channel!Spec

\* Every message that was written is delivered unless the connection breaks or
\* the program is cancelled: the reader never starves on a wrong length.
Delivered ==
    \A n \in 1..MaxWrites :
        (Len(written) >= n) ~> (Len(got) >= n \/ conn # "open" \/ cancelled)

\* The server's reader leaves after the connection has ended: wherever in a
\* message it breaks, the next error but one is the EOF that ends the goroutine
\* (tcp/receiver.go:117-131).  The sender's reader logs "exiting" and goes on.
HandlerLeaves ==
    (side = "handler" /\ conn # "open") ~> (rpc = "exited" \/ cancelled)
=============================================================================

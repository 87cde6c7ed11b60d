------------------------------ MODULE RtpQueue ------------------------------
(***************************************************************************)
(* The queue of packets that a stream keeps for SCReAM                     *)
(* (scream/rtp_queue.go): a list under a mutex, with a counter of its      *)
(* bytes.  The RTP writer enqueues, the pacing loop dequeues, and tx asks  *)
(* for sizes, numbers and delays one call at a time and may clear it; each *)
(* call is atomic, and the others come in between.                         *)
(***************************************************************************)
EXTENDS Integers, Sequences, FiniteSets, SequencesExt

CONSTANTS
    Sizes,    \* marshalled sizes of packets
    MaxSeq,   \* bound: packets enqueued, with sequence numbers 1, 2, ...
    MaxTime   \* bound: time, in ticks

ASSUME SizesArePositive == Sizes \subseteq Nat \ {0}

VARIABLES
    queue,         \* the list: records with the packet's size, seqNr and ts
    bytesInQueue,
    now,           \* the clock that Enqueue and GetDelay are given
    last           \* number of packets enqueued so far
queueVars == <<queue, bytesInQueue, now, last>>

QueueInit == queue = <<>> /\ bytesInQueue = 0 /\ now = 0 /\ last = 0

-----------------------------------------------------------------------------
(* The questions that tx asks.                                             *)

Empty == Len(queue) <= 0

SizeOfQueue        == Len(queue)
BytesInQueue       == bytesInQueue
SizeOfNextRTP      == IF Empty THEN 0 ELSE Head(queue).size
SeqNrOfNextRTP     == IF Empty THEN 0 ELSE Head(queue).seqNr
SeqNrOfLastRTP     == IF Empty THEN 0 ELSE Last(queue).seqNr
GetSizeOfLastFrame == IF Empty THEN 0 ELSE Last(queue).size

\* Mutant: the delay of the newest packet.
GetDelay_Newest(t) ==
    IF Empty \/ t - Last(queue).ts < 0 THEN 0 ELSE t - Last(queue).ts

\* Age of the oldest packet; a clock that was read earlier gives 0.
GetDelay(t) == IF Empty \/ t - Head(queue).ts < 0 THEN 0 ELSE t - Head(queue).ts

-----------------------------------------------------------------------------
(* What changes the queue.                                                 *)

\* The writer read its clock at ts, before it takes the mutex.
Enqueue(size, ts) ==
    /\ last < MaxSeq
    /\ last' = last + 1
    /\ bytesInQueue' = bytesInQueue + size
    /\ queue' = Append(queue, [size |-> size, seqNr |-> last + 1, ts |-> ts])
    /\ UNCHANGED now

\* Mutant: the counter loses the size of the next packet, not of the removed one.
Dequeue_NextSize ==
    /\ ~Empty
    /\ queue' = Tail(queue)
    /\ bytesInQueue' = bytesInQueue - (IF Len(queue) > 1 THEN queue[2].size ELSE Head(queue).size)
    /\ UNCHANGED <<now, last>>

\* On an empty queue Dequeue returns nil and changes nothing.
Dequeue ==
    /\ ~Empty
    /\ queue' = Tail(queue)
    /\ bytesInQueue' = bytesInQueue - Head(queue).size
    /\ UNCHANGED <<now, last>>

Clear ==
    /\ queue' = <<>>
    /\ bytesInQueue' = 0
    /\ UNCHANGED <<now, last>>

Elapse ==
    /\ now < MaxTime
    /\ now' = now + 1
    /\ UNCHANGED <<queue, bytesInQueue, last>>

QueueNext == \/ \E size \in Sizes : \E ts \in {now, now - 1} \cap Nat : Enqueue(size, ts)
        \/ Dequeue \/ Clear \/ Elapse

QueueSpec == QueueInit /\ [][QueueNext]_queueVars
-----------------------------------------------------------------------------
(* Properties.                                                             *)

\* The counter is the sum of the sizes of the packets in the list after every
\* history of Enqueue, Dequeue and Clear: tx takes its window decisions from it
\* (lines 57-62, 98-132).
BytesMatch ==
    LET sum[n \in 0..Len(queue)] == IF n = 0 THEN 0 ELSE sum[n - 1] + queue[n].size
    IN  bytesInQueue = sum[Len(queue)]

\* What tx is told at one moment fits together: first and last packet, their
\* sizes and numbers and the length describe one list, and the delay is the
\* longest that a packet of this list has waited, up to one tick of a clock
\* that was read too early (lines 24-96).
AnswersFit ==
    /\ SeqNrOfLastRTP - SeqNrOfNextRTP = (IF Empty THEN 0 ELSE SizeOfQueue - 1)
    /\ SizeOfNextRTP <= BytesInQueue /\ GetSizeOfLastFrame <= BytesInQueue
    /\ (SizeOfQueue > 1) => SizeOfNextRTP + GetSizeOfLastFrame <= BytesInQueue
    /\ \A i \in DOMAIN queue : now - queue[i].ts <= GetDelay(now) + 1
=============================================================================

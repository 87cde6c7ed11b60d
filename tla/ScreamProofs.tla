---------------------------- MODULE ScreamProofs ----------------------------
(***************************************************************************)
(* Proofs about two parts of package scream: RtpQueue, for any sizes and   *)
(* numbers of packets and any clock, and ScreamReceiver, for any remote    *)
(* streams and any number of packets and bindings.                         *)
(***************************************************************************)
EXTENDS RtpQueue, ScreamReceiver, WellFoundedInduction, TLAPS

-----------------------------------------------------------------------------
(* RtpQueue: the inductive invariant.                                      *)

Item == [size : Nat, seqNr : Nat, ts : Nat]

\* The types of the variables.
TypeOK == /\ queue \in Seq(Item) /\ bytesInQueue \in Nat
          /\ now \in Nat /\ last \in Nat

\* The packets in the list are the latest ones, numbered one by one.
Numbered == \A i \in 1..Len(queue) : queue[i].seqNr = last - Len(queue) + i

\* A packet is stamped with a clock that was read at most one tick before those
\* that were enqueued earlier.
Stamped ==
    /\ \A i \in 1..Len(queue) : queue[i].ts <= now
    /\ \A i, k \in 1..Len(queue) : i <= k => queue[i].ts <= queue[k].ts + 1

\* at[n] is the sum of the sizes of the first n packets of q.
RunningSum(q, at) ==
    /\ at \in [0..Len(q) -> Nat] /\ at[0] = 0
    /\ \A i \in 1..Len(q) : at[i] = at[i - 1] + q[i].size
    /\ \A i, k \in 0..Len(q) : i <= k => at[i] <= at[k]

Counted ==
    \E at \in [0..Len(queue) -> Nat] : RunningSum(queue, at) /\ bytesInQueue = at[Len(queue)]

\* The inductive invariant.
Inv == TypeOK /\ Numbered /\ Stamped /\ Counted

-----------------------------------------------------------------------------
(* Sums.                                                                   *)

\* A set of natural numbers that is not empty has a least element.
LEMMA Least ==
    ASSUME NEW T, T \subseteq Nat, T # {}
    PROVE  \E x \in T : \A y \in T : x <= y
<1>1. PICK x \in T : \A y \in T : ~(<<y, x>> \in OpToRel(<, Nat))
  BY NatLessThanWellFounded, WFMin
<1>2. \A y \in T : ~(y < x)
  BY <1>1 DEF OpToRel
<1>3. \A y \in T : y \in Int /\ x \in Int
  OBVIOUS
<1>4. \A y \in T : x <= y
  BY <1>2, <1>3
<1> QED
  BY <1>4

\* The packets of a list.
LEMMA ItemsOf ==
    ASSUME NEW q \in Seq(Item)
    PROVE  /\ Len(q) \in Nat /\ DOMAIN q = 1..Len(q)
           /\ \A i \in 1..Len(q) : q[i].size \in Nat /\ q[i].seqNr \in Nat /\ q[i].ts \in Nat
<1>1. \A i \in 1..Len(q) : q[i] \in Item
  OBVIOUS
<1>2. \A x \in Item : x.size \in Nat /\ x.seqNr \in Nat /\ x.ts \in Nat
  BY DEF Item
<1> QED
  BY <1>1, <1>2

\* The recursive sum of BytesMatch is the running sum: they agree on 0 packets,
\* and there is no least number of packets on which they differ.
LEMMA SumIsRunningSum ==
    ASSUME NEW q \in Seq(Item), NEW at, RunningSum(q, at)
    PROVE  LET sum[n \in 0..Len(q)] == IF n = 0 THEN 0 ELSE sum[n - 1] + q[n].size
           IN  sum[Len(q)] = at[Len(q)]
<1> DEFINE sum[n \in 0..Len(q)] == IF n = 0 THEN 0 ELSE sum[n - 1] + q[n].size
           Solves(f) == f = [n \in 0..Len(q) |-> IF n = 0 THEN 0 ELSE f[n - 1] + q[n].size]
<1>0. Len(q) \in Nat /\ Len(q) \in 0..Len(q)
  OBVIOUS
<1>1. Solves(at)
  BY <1>0 DEF RunningSum
<1>2. sum = CHOOSE f : Solves(f)
  OBVIOUS
<1> HIDE DEF sum
<1>3. Solves(sum)
  <2> HIDE DEF Solves
  <2> QED
    BY <1>1, <1>2
<1> DEFINE differ == {n \in 0..Len(q) : sum[n] # at[n]}
<1>4. ASSUME differ # {}
      PROVE  FALSE
  <2>1. differ \subseteq Nat
    OBVIOUS
  <2>2. PICK x \in differ : \A y \in differ : x <= y
    BY <1>4, <2>1, Least
  <2>3. x \in 0..Len(q) /\ sum[x] # at[x]
    BY <2>2
  <2>4. x # 0
    BY <1>3, <2>3 DEF RunningSum
  <2>5. x \in 1..Len(q) /\ x - 1 \in 0..Len(q) /\ ~(x <= x - 1)
    BY <1>0, <2>3, <2>4
  <2>6. sum[x - 1] = at[x - 1]
    BY <2>2, <2>5
  <2>7. sum[x] = sum[x - 1] + q[x].size
    BY <1>3, <2>3, <2>4
  <2>8. at[x] = at[x - 1] + q[x].size
    BY <2>5 DEF RunningSum
  <2> QED
    BY <2>3, <2>6, <2>7, <2>8
<1>5. sum[Len(q)] = at[Len(q)]
  BY <1>0, <1>4
<1> QED
  BY <1>5 DEF sum

\* A packet behind the last one.
LEMMA SumAppend ==
    ASSUME NEW q \in Seq(Item), NEW x \in Item, NEW at, RunningSum(q, at)
    PROVE  \E at2 \in [0..Len(Append(q, x)) -> Nat] :
               /\ RunningSum(Append(q, x), at2)
               /\ at2[Len(Append(q, x))] = at[Len(q)] + x.size
<1> DEFINE N == Len(q)
           r == Append(q, x)
           at2 == [i \in 0..(N + 1) |-> IF i = N + 1 THEN at[N] + x.size ELSE at[i]]
<1>1. /\ N \in Nat /\ Len(r) = N + 1 /\ r[N + 1] = x /\ \A i \in 1..N : r[i] = q[i]
      /\ x.size \in Nat
  BY DEF Item
<1>2. /\ at \in [0..N -> Nat] /\ at[0] = 0
      /\ \A i \in 1..N : at[i] = at[i - 1] + q[i].size
      /\ \A i, k \in 0..N : i <= k => at[i] <= at[k]
  BY DEF RunningSum
<1> HIDE DEF r, N
<1>3. at[N] \in Nat /\ at[N] + x.size \in Nat
  BY <1>1, <1>2
<1>4. \A i \in 0..(N + 1) : i = N + 1 \/ i \in 0..N
  BY <1>1
<1>5. \A i \in 0..N : i \in 0..(N + 1) /\ i # N + 1 /\ at[i] \in Nat /\ at[i] <= at[N]
  BY <1>1, <1>2
<1>6. /\ at2 \in [0..(N + 1) -> Nat] /\ at2[N + 1] = at[N] + x.size
      /\ \A i \in 0..N : at2[i] = at[i]
  BY <1>1, <1>3, <1>4, <1>5
<1> HIDE DEF at2
<1>7. at2[0] = 0
  BY <1>1, <1>2, <1>6
<1>8. ASSUME NEW i \in 1..(N + 1)
      PROVE  at2[i] = at2[i - 1] + r[i].size
  <2>1. CASE i = N + 1
    <3>1. i - 1 = N /\ N \in 0..N
      BY <1>1, <2>1
    <3> QED
      BY <1>1, <1>6, <2>1, <3>1
  <2>2. CASE i # N + 1
    <3>1. i \in 1..N /\ i \in 0..N /\ i - 1 \in 0..N
      BY <1>1, <2>2
    <3> QED
      BY <1>1, <1>2, <1>6, <3>1
  <2> QED
    BY <2>1, <2>2
<1>9. ASSUME NEW i \in 0..(N + 1), NEW k \in 0..(N + 1), i <= k
      PROVE  at2[i] <= at2[k]
  <2>1. CASE i = N + 1
    <3>1. k = N + 1
      BY <1>1, <1>9, <2>1
    <3> QED
      BY <1>3, <1>6, <2>1, <3>1
  <2>2. CASE i \in 0..N /\ k = N + 1
    <3>1. at[i] \in Nat /\ at[i] <= at[N] /\ at2[i] = at[i] /\ at2[k] = at[N] + x.size
      BY <1>5, <1>6, <2>2
    <3> QED
      BY <1>1, <1>3, <3>1
  <2>3. CASE i \in 0..N /\ k \in 0..N
    BY <1>2, <1>6, <1>9, <2>3
  <2> QED
    BY <1>4, <2>1, <2>2, <2>3
<1>10. RunningSum(r, at2)
  BY <1>1, <1>6, <1>7, <1>8, <1>9 DEF RunningSum
<1> QED
  BY <1>1, <1>6, <1>10 DEF r, N

\* The first packet is taken away.
LEMMA SumTail ==
    ASSUME NEW q \in Seq(Item), q # <<>>, NEW at, RunningSum(q, at)
    PROVE  \E at2 \in [0..Len(Tail(q)) -> Nat] :
               /\ RunningSum(Tail(q), at2)
               /\ at2[Len(Tail(q))] = at[Len(q)] - Head(q).size
<1> DEFINE N == Len(q)
           r == Tail(q)
           at2 == [i \in 0..(N - 1) |-> at[i + 1] - at[1]]
<1>1. /\ N \in Nat /\ N >= 1 /\ Len(r) = N - 1 /\ \A i \in 1..(N - 1) : r[i] = q[i + 1]
      /\ Head(q) = q[1] /\ \A i \in 1..N : q[i].size \in Nat
  <2>1. N \in Nat /\ N >= 1 /\ Head(q) = q[1] /\ Len(r) = N - 1
    OBVIOUS
  <2>2. \A i \in 1..(N - 1) : r[i] = q[i + 1]
    OBVIOUS
  <2> QED
    BY <2>1, <2>2, ItemsOf
<1>2. /\ at \in [0..N -> Nat] /\ at[0] = 0
      /\ \A i \in 1..N : at[i] = at[i - 1] + q[i].size
      /\ \A i, k \in 0..N : i <= k => at[i] <= at[k]
  BY DEF RunningSum
<1> HIDE DEF r, N
<1>3. at[1] = q[1].size /\ at[1] \in Nat
  BY <1>1, <1>2
<1>4. \A i \in 0..(N - 1) : at[i + 1] \in Nat /\ at[1] <= at[i + 1] /\ at[i + 1] - at[1] \in Nat
  <2> SUFFICES ASSUME NEW i \in 0..(N - 1)
               PROVE  at[i + 1] \in Nat /\ at[1] <= at[i + 1] /\ at[i + 1] - at[1] \in Nat
    OBVIOUS
  <2>1. i + 1 \in 0..N /\ 1 \in 0..N /\ 1 <= i + 1
    BY <1>1
  <2>2. at[i + 1] \in Nat /\ at[1] <= at[i + 1]
    BY <1>2, <2>1
  <2> QED
    BY <1>3, <2>2
<1>5. at2 \in [0..(N - 1) -> Nat] /\ \A i \in 0..(N - 1) : at2[i] = at[i + 1] - at[1]
  BY <1>4
<1> HIDE DEF at2
<1>6. at2[0] = 0
  BY <1>1, <1>3, <1>5
<1>7. ASSUME NEW i \in 1..(N - 1)
      PROVE  at2[i] = at2[i - 1] + r[i].size
  <2>1. /\ i \in 0..(N - 1) /\ i - 1 \in 0..(N - 1) /\ i + 1 \in 1..N
        /\ (i - 1) + 1 = i /\ (i + 1) - 1 = i
    BY <1>1
  <2>2. at[i + 1] = at[i] + q[i + 1].size
    BY <1>2, <2>1
  <2>3. at2[i] = at[i + 1] - at[1] /\ at2[i - 1] = at[i] - at[1] /\ r[i] = q[i + 1]
    BY <1>1, <1>5, <2>1
  <2>4. at[i] \in Nat /\ q[i + 1].size \in Nat
    BY <1>1, <1>4, <2>1
  <2> QED
    BY <1>3, <2>2, <2>3, <2>4
<1>8. ASSUME NEW i \in 0..(N - 1), NEW k \in 0..(N - 1), i <= k
      PROVE  at2[i] <= at2[k]
  <2>1. i + 1 \in 0..N /\ k + 1 \in 0..N /\ i + 1 <= k + 1
    BY <1>1, <1>8
  <2>2. at[i + 1] <= at[k + 1]
    BY <1>2, <2>1
  <2> QED
    BY <1>3, <1>4, <1>5, <2>2
<1>9. RunningSum(r, at2)
  BY <1>1, <1>5, <1>6, <1>7, <1>8 DEF RunningSum
<1>10. at2[N - 1] = at[N] - q[1].size
  <2>1. N - 1 \in 0..(N - 1) /\ (N - 1) + 1 = N
    BY <1>1
  <2> QED
    BY <1>3, <1>5, <2>1
<1> QED
  BY <1>1, <1>5, <1>9, <1>10 DEF r, N

-----------------------------------------------------------------------------
(* RtpQueue: every action keeps the invariant.                             *)

\* A packet is enqueued.
LEMMA EnqueueStep ==
    ASSUME Inv, NEW size \in Sizes, NEW ts \in {now, now - 1} \cap Nat, Enqueue(size, ts)
    PROVE  Inv'
<1> DEFINE N == Len(queue)
           x == [size |-> size, seqNr |-> last + 1, ts |-> ts]
<1>1. /\ queue' = Append(queue, x) /\ bytesInQueue' = bytesInQueue + size
      /\ last' = last + 1 /\ now' = now
  BY DEF Enqueue
<1>2. queue \in Seq(Item) /\ N \in Nat /\ last \in Nat /\ now \in Nat /\ bytesInQueue \in Nat
  BY DEF Inv, TypeOK
<1>3. size \in Nat /\ ts \in Nat /\ ts <= now /\ now <= ts + 1
  BY <1>2, SizesArePositive
<1>4. x \in Item /\ x.size = size /\ x.seqNr = last + 1 /\ x.ts = ts
  BY <1>2, <1>3 DEF Item
<1> HIDE DEF x
<1>5. /\ queue' \in Seq(Item) /\ Len(queue') = N + 1 /\ queue'[N + 1] = x
      /\ \A i \in 1..N : queue'[i] = queue[i]
  BY <1>1, <1>2, <1>4
<1>6. \A i \in 1..(N + 1) : i = N + 1 \/ i \in 1..N
  BY <1>2
<1>7. TypeOK'
  BY <1>1, <1>2, <1>3, <1>5 DEF TypeOK
<1>8. Numbered'
  <2> SUFFICES ASSUME NEW i \in 1..(N + 1)
               PROVE  queue'[i].seqNr = last' - Len(queue') + i
    BY <1>5 DEF Numbered
  <2>1. last' - Len(queue') + i = last - N + i
    BY <1>1, <1>2, <1>5
  <2>2. CASE i = N + 1
    <3>1. last - N + i = last + 1
      BY <1>2, <2>2
    <3> QED
      BY <1>4, <1>5, <2>1, <2>2, <3>1
  <2>3. CASE i \in 1..N
    BY <1>5, <2>1, <2>3 DEF Inv, Numbered
  <2> QED
    BY <1>6, <2>2, <2>3
<1>9. Stamped'
  <2>1. \A i \in 1..N : queue[i].ts <= now /\ queue[i].ts \in Nat
    BY <1>2, ItemsOf DEF Inv, Stamped
  <2>2. \A i \in 1..(N + 1) : queue'[i].ts <= now
    BY <1>3, <1>4, <1>5, <1>6, <2>1
  <2>3. ASSUME NEW i \in 1..(N + 1), NEW k \in 1..(N + 1), i <= k
        PROVE  queue'[i].ts <= queue'[k].ts + 1
    <3>1. CASE k = N + 1
      <4>1. queue'[k].ts = ts
        BY <1>4, <1>5, <3>1
      <4>2. queue'[i].ts \in Nat /\ queue'[i].ts <= now
        BY <1>3, <1>4, <1>5, <1>6, <2>1, <2>2
      <4> QED
        BY <1>2, <1>3, <4>1, <4>2
    <3>2. CASE k \in 1..N
      <4>1. i \in 1..N
        BY <1>2, <2>3, <3>2
      <4>2. queue[i].ts <= queue[k].ts + 1
        BY <2>3, <3>2, <4>1 DEF Inv, Stamped
      <4> QED
        BY <1>5, <3>2, <4>1, <4>2
    <3> QED
      BY <1>6, <3>1, <3>2
  <2> QED
    BY <1>1, <1>5, <2>2, <2>3 DEF Stamped
<1>10. Counted'
  <2>1. PICK at : RunningSum(queue, at) /\ bytesInQueue = at[N]
    BY DEF Inv, Counted
  <2>2. PICK at2 \in [0..Len(queue') -> Nat] :
             RunningSum(queue', at2) /\ at2[Len(queue')] = at[N] + x.size
    BY <1>1, <1>2, <1>4, <2>1, SumAppend
  <2>3. bytesInQueue' = at2[Len(queue')]
    BY <1>1, <1>4, <2>1, <2>2
  <2> QED
    BY <2>2, <2>3 DEF Counted
<1> QED
  BY <1>7, <1>8, <1>9, <1>10 DEF Inv

\* The first packet is taken.
LEMMA DequeueStep ==
    ASSUME Inv, Dequeue
    PROVE  Inv'
<1> DEFINE N == Len(queue)
<1>1. /\ queue' = Tail(queue) /\ bytesInQueue' = bytesInQueue - Head(queue).size
      /\ last' = last /\ now' = now
  BY DEF Dequeue
<1>2. queue \in Seq(Item) /\ N \in Nat /\ last \in Nat /\ now \in Nat
  BY DEF Inv, TypeOK
<1>3. queue # <<>> /\ N >= 1
  BY <1>2 DEF Dequeue, Empty
<1>4. /\ queue' \in Seq(Item) /\ Len(queue') = N - 1
      /\ \A i \in 1..(N - 1) : queue'[i] = queue[i + 1]
  BY <1>1, <1>2, <1>3
<1>5. \A i \in 1..(N - 1) : i + 1 \in 1..N
  BY <1>2
<1>6. Counted' /\ bytesInQueue' \in Nat
  <2>1. PICK at : RunningSum(queue, at) /\ bytesInQueue = at[N]
    BY DEF Inv, Counted
  <2>2. PICK at2 \in [0..Len(queue') -> Nat] :
             RunningSum(queue', at2) /\ at2[Len(queue')] = at[N] - Head(queue).size
    BY <1>1, <1>2, <1>3, <2>1, SumTail
  <2>3. bytesInQueue' = at2[Len(queue')]
    BY <1>1, <2>1, <2>2
  <2>4. N - 1 \in Nat /\ Len(queue') \in 0..Len(queue')
    BY <1>2, <1>3, <1>4
  <2> QED
    BY <2>2, <2>3, <2>4 DEF Counted
<1>7. TypeOK'
  BY <1>1, <1>2, <1>4, <1>6 DEF TypeOK
<1>8. Numbered'
  <2> SUFFICES ASSUME NEW i \in 1..(N - 1)
               PROVE  queue'[i].seqNr = last' - Len(queue') + i
    BY <1>4 DEF Numbered
  <2>1. queue[i + 1].seqNr = last - N + (i + 1)
    BY <1>5 DEF Inv, Numbered
  <2>2. last' - Len(queue') + i = last - N + (i + 1)
    BY <1>1, <1>2, <1>4
  <2> QED
    BY <1>4, <2>1, <2>2
<1>9. Stamped'
  <2>1. \A i \in 1..(N - 1) : queue'[i].ts <= now
    BY <1>4, <1>5 DEF Inv, Stamped
  <2>2. ASSUME NEW i \in 1..(N - 1), NEW k \in 1..(N - 1), i <= k
        PROVE  queue'[i].ts <= queue'[k].ts + 1
    <3>1. i + 1 \in 1..N /\ k + 1 \in 1..N /\ i + 1 <= k + 1
      BY <1>2, <2>2
    <3> QED
      BY <1>4, <3>1 DEF Inv, Stamped
  <2> QED
    BY <1>1, <1>4, <2>1, <2>2 DEF Stamped
<1> QED
  BY <1>6, <1>7, <1>8, <1>9 DEF Inv

\* An empty list has no bytes.
LEMMA EmptySum ==
    ASSUME queue = <<>>, bytesInQueue = 0
    PROVE  Counted
<1> DEFINE at == [i \in 0..0 |-> 0]
<1>1. Len(queue) = 0 /\ at \in [0..Len(queue) -> Nat] /\ at[0] = 0
  OBVIOUS
<1> HIDE DEF at
<1>2. RunningSum(queue, at)
  BY <1>1 DEF RunningSum
<1> QED
  BY <1>1, <1>2 DEF Counted

\* Every step of the queue keeps the invariant.
LEMMA QueueStep == Inv /\ [QueueNext]_queueVars => Inv'
<1> SUFFICES ASSUME Inv, [QueueNext]_queueVars
             PROVE  Inv'
  OBVIOUS
<1>1. ASSUME NEW size \in Sizes, NEW ts \in {now, now - 1} \cap Nat, Enqueue(size, ts)
      PROVE  Inv'
  BY <1>1, EnqueueStep
<1>2. CASE Dequeue
  BY <1>2, DequeueStep
<1>3. CASE Clear
  <2>1. queue' = <<>> /\ bytesInQueue' = 0 /\ now' = now /\ last' = last
    BY <1>3 DEF Clear
  <2>2. Counted'
    <3> DEFINE at == [i \in 0..0 |-> 0]
    <3>1. Len(queue') = 0 /\ at \in [0..Len(queue') -> Nat] /\ at[0] = 0
      BY <2>1
    <3> HIDE DEF at
    <3>2. RunningSum(queue', at)
      BY <3>1 DEF RunningSum
    <3> QED
      BY <2>1, <3>1, <3>2 DEF Counted
  <2>3. TypeOK' /\ Numbered' /\ Stamped'
    BY <2>1 DEF Inv, TypeOK, Numbered, Stamped
  <2> QED
    BY <2>2, <2>3 DEF Inv
<1>4. CASE Elapse \/ UNCHANGED queueVars
  <2>1. /\ UNCHANGED <<queue, bytesInQueue, last>> /\ now' \in Nat /\ now <= now' /\ now \in Nat
    BY <1>4 DEF Elapse, queueVars, Inv, TypeOK
  <2>2. TypeOK' /\ Numbered' /\ Counted'
    BY <2>1 DEF Inv, TypeOK, Numbered, Counted
  <2>3. \A i \in 1..Len(queue) : queue[i].ts <= now'
    <3>1. \A i \in 1..Len(queue) : queue[i].ts \in Nat /\ queue[i].ts <= now
      BY ItemsOf DEF Inv, TypeOK, Stamped
    <3> QED
      BY <2>1, <3>1
  <2>4. Stamped'
    BY <2>1, <2>3 DEF Inv, Stamped
  <2> QED
    BY <2>2, <2>4 DEF Inv
<1> QED
  BY <1>1, <1>2, <1>3, <1>4 DEF QueueNext

\* The invariant of the queue holds.
LEMMA QueueInvHolds == QueueSpec => []Inv
<1>1. QueueInit => Inv
  <2> SUFFICES ASSUME QueueInit
               PROVE  Inv
    OBVIOUS
  <2>1. TypeOK /\ Numbered /\ Stamped
    BY DEF QueueInit, TypeOK, Numbered, Stamped
  <2>2. Counted
    BY EmptySum DEF QueueInit
  <2> QED
    BY <2>1, <2>2 DEF Inv
<1> QED
  BY <1>1, QueueStep, PTL DEF QueueSpec

\* The counter of bytes is the sum of the sizes in the list after any history of
\* Enqueue, Dequeue and Clear (BytesMatch; scream/rtp_queue.go:57-62, 98-132).
THEOREM BytesAlwaysMatch == QueueSpec => []BytesMatch
<1>1. Inv => BytesMatch
  <2> SUFFICES ASSUME Inv
               PROVE  BytesMatch
    OBVIOUS
  <2>1. PICK at : RunningSum(queue, at) /\ bytesInQueue = at[Len(queue)]
    BY DEF Inv, Counted
  <2>2. queue \in Seq(Item)
    BY DEF Inv, TypeOK
  <2>3. LET sum[n \in 0..Len(queue)] == IF n = 0 THEN 0 ELSE sum[n - 1] + queue[n].size
        IN  sum[Len(queue)] = at[Len(queue)]
    BY <2>1, <2>2, SumIsRunningSum
  <2> QED
    BY <2>1, <2>3 DEF BytesMatch
<1> QED
  BY <1>1, QueueInvHolds, PTL

\* What the queue tells tx at one moment describes one list: numbers, sizes,
\* length and the delay of the oldest packet fit together (AnswersFit;
\* scream/rtp_queue.go:24-96).
THEOREM AnswersAlwaysFit == QueueSpec => []AnswersFit
<1>1. Inv => AnswersFit
  <2> SUFFICES ASSUME Inv
               PROVE  AnswersFit
    OBVIOUS
  <2> DEFINE N == Len(queue)
  <2>1. /\ queue \in Seq(Item) /\ N \in Nat /\ DOMAIN queue = 1..N
        /\ bytesInQueue \in Nat /\ now \in Nat /\ last \in Nat
        /\ \A i \in 1..N : queue[i].size \in Nat /\ queue[i].seqNr \in Nat /\ queue[i].ts \in Nat
    BY ItemsOf DEF Inv, TypeOK
  <2>2. CASE Empty
    <3>1. N = 0 /\ \A i \in 1..N : FALSE
      BY <2>1, <2>2 DEF Empty
    <3> QED
      BY <2>1, <2>2, <3>1 DEF AnswersFit, SeqNrOfLastRTP, SeqNrOfNextRTP, SizeOfNextRTP,
         GetSizeOfLastFrame, BytesInQueue, SizeOfQueue
  <2>3. CASE ~Empty
    <3>1. N >= 1 /\ 1 \in 1..N /\ N \in 1..N /\ Head(queue) = queue[1] /\ Last(queue) = queue[N]
      BY <2>1, <2>3 DEF Empty, Last
    <3>2. PICK at : RunningSum(queue, at) /\ bytesInQueue = at[N]
      BY DEF Inv, Counted
    <3>3. /\ at \in [0..N -> Nat] /\ at[0] = 0
          /\ \A i \in 1..N : at[i] = at[i - 1] + queue[i].size
          /\ \A i, k \in 0..N : i <= k => at[i] <= at[k]
      BY <3>2 DEF RunningSum
    <3>4. /\ SeqNrOfLastRTP = queue[N].seqNr /\ SeqNrOfNextRTP = queue[1].seqNr
          /\ SizeOfNextRTP = queue[1].size /\ GetSizeOfLastFrame = queue[N].size
          /\ BytesInQueue = bytesInQueue /\ SizeOfQueue = N
      BY <2>3, <3>1 DEF SeqNrOfLastRTP, SeqNrOfNextRTP, SizeOfNextRTP,
         GetSizeOfLastFrame, BytesInQueue, SizeOfQueue
    <3>5. queue[N].seqNr - queue[1].seqNr = N - 1
      <4>1. queue[N].seqNr = last - N + N /\ queue[1].seqNr = last - N + 1
        BY <3>1 DEF Inv, Numbered
      <4> QED
        BY <2>1, <4>1
    <3>6. at[1] = queue[1].size /\ at[1] \in Nat /\ at[1] <= at[N]
      BY <2>1, <3>1, <3>3
    <3>7. at[N] = at[N - 1] + queue[N].size /\ at[N - 1] \in Nat
      BY <2>1, <3>1, <3>3
    <3>8. N > 1 => at[1] <= at[N - 1]
      BY <2>1, <3>1, <3>3
    <3>9. /\ queue[1].size <= bytesInQueue /\ queue[N].size <= bytesInQueue
          /\ N > 1 => queue[1].size + queue[N].size <= bytesInQueue
      BY <2>1, <3>1, <3>2, <3>6, <3>7, <3>8
    <3>10. GetDelay(now) = now - queue[1].ts
      <4>1. queue[1].ts <= now /\ queue[1].ts \in Nat
        BY <2>1, <3>1 DEF Inv, Stamped
      <4>2. ~(now - queue[1].ts < 0)
        BY <2>1, <4>1
      <4> QED
        BY <2>3, <3>1, <4>2 DEF GetDelay
    <3>11. ASSUME NEW i \in 1..N
           PROVE  now - queue[i].ts <= GetDelay(now) + 1
      <4>1. queue[1].ts <= queue[i].ts + 1 /\ queue[i].ts \in Nat /\ queue[1].ts \in Nat
        BY <2>1, <3>1 DEF Inv, Stamped
      <4> QED
        BY <2>1, <3>10, <4>1
    <3> QED
      BY <2>1, <2>3, <3>4, <3>5, <3>9, <3>11 DEF AnswersFit
  <2> QED
    BY <2>2, <2>3
<1> QED
  BY <1>1, QueueInvHolds, PTL

-----------------------------------------------------------------------------
(* ScreamReceiver.                                                         *)

LoopRuns   == lpc \in {"first", "storeFirst", "spawn", "select", "store",
                      "interval", "write"}
SenderRuns == fpc \in {"select", "write"}

\* The wait group counts the goroutines that run; loopFeedbackSender exists only
\* after loop has left its first select.
WaitInv ==
    /\ wg = (IF LoopRuns THEN 1 ELSE 0) + (IF SenderRuns THEN 1 ELSE 0)
    /\ lpc \in {"unbound", "bypassed", "first", "storeFirst", "spawn", "select",
                "store", "interval", "write", "exited"}
    /\ fpc \in {"unbound", "select", "write", "exited"}
    /\ lpc \in {"unbound", "bypassed", "first", "storeFirst", "spawn"} => fpc = "unbound"
    /\ cpc # "idle" => closed
    /\ cpc = "done" => ~LoopRuns /\ ~SenderRuns

\* Every action keeps the count.
LEMMA WaitStep == WaitInv /\ [Next]_vars => WaitInv'
<1> SUFFICES ASSUME WaitInv, [Next]_vars
             PROVE  WaitInv'
  OBVIOUS
<1> USE DEF WaitInv, LoopRuns, SenderRuns, appVars
<1>1. CASE BindRTCPWriter
  BY <1>1 DEF BindRTCPWriter
<1>2. ASSUME NEW s \in Ssrcs, \/ BindRemoteStream(s)
                              \/ UnbindRemoteStream(s) \/ Read(s) \/ WriteReturns(s)
      PROVE  WaitInv'
  BY <1>2 DEF BindRemoteStream, UnbindRemoteStream, Read, WriteReturns
<1>3. ASSUME NEW s \in Ssrcs, Receive(s)
      PROVE  WaitInv'
  BY <1>3 DEF Receive
<1>4. CASE LoopClose
  BY <1>4 DEF LoopClose
<1>5. CASE LoopStore
  BY <1>5 DEF LoopStore
<1>6. CASE LoopSpawn
  BY <1>6 DEF LoopSpawn
<1>7. CASE LoopInterval
  BY <1>7 DEF LoopInterval
<1>8. CASE Tick
  BY <1>8 DEF Tick
<1>9. CASE SenderClose
  BY <1>9 DEF SenderClose
<1>10. CASE CloseCall
  BY <1>10 DEF CloseCall
<1>11. CASE CloseReturn
  BY <1>11 DEF CloseReturn
<1>12. CASE Unlock
  BY <1>12 DEF Unlock
<1>13. CASE NetworkChanges
  BY <1>13 DEF NetworkChanges
<1>14. CASE UNCHANGED vars
  BY <1>14 DEF vars
<1> QED
  BY <1>1, <1>2, <1>3, <1>4, <1>5, <1>6, <1>7, <1>8, <1>9, <1>10, <1>11, <1>12,
     <1>13, <1>14 DEF Next

\* When Close has returned, neither goroutine of the receiver interceptor runs
\* and none will be started (CloseMeansQuiet): loop counts loopFeedbackSender
\* while it is itself still counted, so the counter cannot reach 0 in between.
THEOREM CloseMeansQuietHolds == Spec => []CloseMeansQuiet
<1>1. Init => WaitInv
  BY DEF Init, WaitInv, LoopRuns, SenderRuns
<1>2. Spec => []WaitInv
  BY <1>1, WaitStep, PTL DEF Spec
<1>3. WaitInv => CloseMeansQuiet
  BY DEF WaitInv, LoopRuns, SenderRuns, CloseMeansQuiet
<1> QED
  BY <1>2, <1>3, PTL
=============================================================================

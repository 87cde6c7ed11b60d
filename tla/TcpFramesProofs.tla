--------------------------- MODULE TcpFramesProofs ---------------------------
(***************************************************************************)
(* Proof that TcpFrames implements FrameChannel, for any writers, any size *)
(* of a byte and of the sender's buffer, and any messages whose length the *)
(* prefix can hold.                                                        *)
(***************************************************************************)
EXTENDS TcpFrames, TLAPS

Byte == 0..(B - 1)

\* The types of the variables; what a writer is about to write is a whole frame.
TypeOK ==
    /\ written \in Seq(Msgs) /\ got \in Seq(Seq(Int))
    /\ msg \in Seq(Int) /\ view \in Seq(Int)
    /\ pipe \in Seq(Byte) /\ have \in Seq(Byte)
    /\ rpc \in {"prefix", "body", "offer", "exited"} /\ length \in Nat
    /\ frame \in [Writers -> {<<>>} \union {Frame(m) : m \in Msgs}]

\* How many messages the consumer has been handed.
Taken == IF cpc = "use" THEN Len(got) + 1 ELSE Len(got)

\* The message whose frame the reader is about to read or has read a part of, and
\* how many bytes of that frame it has.
Cur  == IF rpc = "offer" THEN Taken + 2 ELSE Taken + 1
Part == IF rpc = "prefix" THEN Len(have) ELSE IF rpc = "body" THEN 2 + Len(have) ELSE 0

\* at[i] is the number of bytes that are written before the frame of message i of
\* ms.
Offsets(ms, at) ==
    /\ at \in [1..(Len(ms) + 1) -> Nat]
    /\ \A i \in 1..Len(ms) : at[i + 1] = at[i] + 2 + Len(ms[i])
    /\ \A i, k \in 1..(Len(ms) + 1) : i <= k => at[i] <= at[k]

\* The bytes s are those that follow the first c bytes of the frames of ms.
Follows(ms, at, c, s) ==
    \A i \in 1..Len(ms) : \A j \in 1..(2 + Len(ms[i])) : \A p \in 1..Len(s) :
        c + p = at[i] + j => s[p] = Frame(ms[i])[j]

\* The reader has taken whole frames and a part of the current one, and the pipe
\* holds what follows, up to the end of the last frame or to where it broke.
OnTape(at) ==
    /\ at[Cur] + Part + Len(pipe) <= at[Len(written) + 1]
    /\ conn = "open" => at[Cur] + Part + Len(pipe) = at[Len(written) + 1]
    /\ Follows(written, at, at[Cur] + Part, pipe)

\* What the reader has is the beginning of the current frame.
InFrame ==
    /\ Cur <= Len(written) + 1
    /\ rpc = "prefix" => /\ Len(have) <= 2
                         /\ have # <<>> => Cur <= Len(written)
                         /\ \A j \in 1..Len(have) : have[j] = Frame(written[Cur])[j]
    /\ rpc = "body" => /\ Cur <= Len(written) /\ length = Len(written[Cur])
                       /\ Len(have) <= length
                       /\ \A j \in 1..Len(have) : have[j] = written[Cur][j]
    /\ rpc = "offer" => msg = Keep(written[Taken + 1])
    /\ rpc \in {"offer", "exited"} => have = <<>>

\* The slice that the consumer holds is that of the message handed to it last, and
\* is written over only by a later message that the sender's program reads.
Handed ==
    /\ cpc = "use" => Len(got) + 1 <= Len(written) /\ view = Keep(written[Len(got) + 1])
    /\ stale => side = "sender" /\ (cpc = "use" => Len(got) + 1 < Len(written))

\* The inductive invariant, up to the conjunct Handed.
Inv == /\ TypeOK /\ InFrame
       /\ \E at \in [1..(Len(written) + 1) -> Nat] : Offsets(written, at) /\ OnTape(at)

-----------------------------------------------------------------------------
(* Lemmas about frames and sequences of bytes.                             *)

\* Uint16 inverts PutUint16 on the lengths that fit.
LEMMA Uint16Inverts ==
    ASSUME NEW n \in Nat, n < B * B
    PROVE  /\ (n \div B) % B \in Byte /\ n % B \in Byte
           /\ ((n \div B) % B) * B + (n % B) = n
<1> DEFINE q == n \div B
           r == n % B
<1>1. q \in Int /\ r \in 0..(B - 1) /\ n = q * B + r
  BY BaseIsByte
<1> HIDE DEF q, r
<1>2. q >= 0
  BY <1>1, BaseIsByte
<1>3. q < B
  BY <1>1, BaseIsByte
<1>4. q \in 0..(B - 1)
  BY <1>1, <1>2, <1>3, BaseIsByte
<1>5. q % B = q
  BY <1>4, BaseIsByte
<1> QED
  BY <1>1, <1>4, <1>5 DEF q, r, Byte

\* The parts of a frame.
LEMMA FrameOf ==
    ASSUME NEW m \in Msgs
    PROVE  /\ m \in Seq(Byte) /\ Len(m) \in Nat
           /\ Frame(m) \in Seq(Byte) /\ Len(Frame(m)) = Len(m) + 2
           /\ Frame(m)[1] * B + Frame(m)[2] = Len(m)
           /\ \A j \in 1..Len(m) : Frame(m)[j + 2] = m[j]
<1>1. m \in Seq(Byte) /\ Len(m) \in Nat
  BY MsgsAreBytes DEF Byte
<1>2. Len(m) < B * B
  BY LengthsFit
<1> DEFINE h == (Len(m) \div B) % B
           l == Len(m) % B
<1>3. h \in Byte /\ l \in Byte /\ h * B + l = Len(m)
  BY <1>1, <1>2, Uint16Inverts
<1>4. Frame(m) = <<h, l>> \o m
  BY DEF Frame, PutUint16
<1> HIDE DEF h, l
<1>5. <<h, l>> \in Seq(Byte) /\ Len(<<h, l>>) = 2
  BY <1>3
<1>6. /\ Frame(m) \in Seq(Byte) /\ Len(Frame(m)) = Len(m) + 2
      /\ Frame(m)[1] = h /\ Frame(m)[2] = l
      /\ \A j \in 1..Len(m) : Frame(m)[j + 2] = m[j]
  BY <1>1, <1>3, <1>4, <1>5
<1> QED
  BY <1>1, <1>3, <1>6

\* What the reader passes on of a message is a sequence of bytes.
LEMMA KeepOf ==
    ASSUME NEW s \in Seq(Byte)
    PROVE  Keep(s) \in Seq(Int)
<1>1. s \in Seq(Int)
  BY BaseIsByte DEF Byte
<1>2. Len(s) > BufSize => SubSeq(s, 1, BufSize) \in Seq(Int)
  BY <1>1, BufSizeIsNat
<1> QED
  BY <1>1, <1>2 DEF Keep

\* What ConnWrite books is the message that was framed.
LEMMA Unframe ==
    ASSUME NEW m \in Msgs
    PROVE  SubSeq(Frame(m), 3, Len(Frame(m))) = m
<1> DEFINE s == SubSeq(Frame(m), 3, Len(Frame(m)))
<1>1. /\ m \in Seq(Byte) /\ Len(m) \in Nat
      /\ Frame(m) \in Seq(Byte) /\ Len(Frame(m)) = Len(m) + 2
      /\ \A j \in 1..Len(m) : Frame(m)[j + 2] = m[j]
  BY FrameOf
<1>2. s \in Seq(Byte) /\ Len(s) = Len(m) /\ \A j \in 1..Len(m) : s[j] = Frame(m)[j + 2]
  BY <1>1
<1> HIDE DEF s
<1>3. \A j \in 1..Len(m) : s[j] = m[j]
  BY <1>1, <1>2
<1> QED
  BY <1>1, <1>2, <1>3 DEF s

\* Two sequences of bytes behind each other.
LEMMA Concat ==
    ASSUME NEW s \in Seq(Byte), NEW t \in Seq(Byte)
    PROVE  /\ s \o t \in Seq(Byte) /\ Len(s \o t) = Len(s) + Len(t)
           /\ \A i \in 1..Len(s) : (s \o t)[i] = s[i]
           /\ \A i \in 1..Len(t) : (s \o t)[Len(s) + i] = t[i]
OBVIOUS

\* A sequence of bytes is cut in two.
LEMMA Cut ==
    ASSUME NEW s \in Seq(Byte), NEW n \in 0..Len(s)
    PROVE  /\ SubSeq(s, 1, n) \in Seq(Byte) /\ Len(SubSeq(s, 1, n)) = n
           /\ \A i \in 1..n : SubSeq(s, 1, n)[i] = s[i]
           /\ SubSeq(s, n + 1, Len(s)) \in Seq(Byte)
           /\ Len(SubSeq(s, n + 1, Len(s))) = Len(s) - n
           /\ \A i \in 1..(Len(s) - n) : SubSeq(s, n + 1, Len(s))[i] = s[n + i]
OBVIOUS

\* Positions on the tape, as numbers.
LEMMA Between ==
    ASSUME NEW c \in Nat, NEW p \in Nat, NEW l \in Nat, NEW j \in Nat,
           c + p = (c + l) + j
    PROVE  p = l + j
OBVIOUS

LEMMA Before ==
    ASSUME NEW c \in Nat, NEW p \in Nat, NEW l \in Nat, NEW j \in Nat, NEW a \in Nat,
           NEW k \in Nat, c + p = a + j, a + 2 + k <= c + l, j <= 2 + k
    PROVE  p <= l
OBVIOUS

\* A frame behind the last one: the offsets grow by one, and the bytes that follow
\* position c by the frame.
LEMMA Extend ==
    ASSUME NEW ms \in Seq(Msgs), NEW m \in Msgs, NEW at, Offsets(ms, at),
           NEW c \in Nat, NEW s \in Seq(Byte), c + Len(s) = at[Len(ms) + 1],
           Follows(ms, at, c, s)
    PROVE  \E at2 : /\ Offsets(Append(ms, m), at2)
                    /\ \A i \in 1..(Len(ms) + 1) : at2[i] = at[i]
                    /\ c + Len(s \o Frame(m)) = at2[Len(Append(ms, m)) + 1]
                    /\ Follows(Append(ms, m), at2, c, s \o Frame(m))
<1> DEFINE N  == Len(ms)
           M2 == Append(ms, m)
           s2 == s \o Frame(m)
           at2 == [i \in 1..(N + 2) |-> IF i = N + 2 THEN at[N + 1] + 2 + Len(m) ELSE at[i]]
<1>1. /\ Len(m) \in Nat /\ Frame(m) \in Seq(Byte) /\ Len(Frame(m)) = Len(m) + 2
  BY FrameOf
<1>2. /\ N \in Nat /\ Len(s) \in Nat
      /\ \A i \in 1..N : ms[i] \in Msgs /\ Len(ms[i]) \in Nat
  <2>1. N \in Nat /\ Len(s) \in Nat /\ \A i \in 1..N : ms[i] \in Msgs
    OBVIOUS
  <2> QED
    BY <2>1, FrameOf
<1>3. /\ Len(M2) = N + 1 /\ M2[N + 1] = m /\ \A i \in 1..N : M2[i] = ms[i]
  OBVIOUS
<1>4. /\ Len(s2) = Len(s) + Len(m) + 2
      /\ \A p \in 1..Len(s) : s2[p] = s[p]
      /\ \A j \in 1..(2 + Len(m)) : s2[Len(s) + j] = Frame(m)[j]
  <2>1. /\ Len(s2) = Len(s) + Len(Frame(m))
        /\ \A p \in 1..Len(s) : s2[p] = s[p]
        /\ \A j \in 1..Len(Frame(m)) : s2[Len(s) + j] = Frame(m)[j]
    BY <1>1, Concat
  <2>2. Len(Frame(m)) = 2 + Len(m)
    BY <1>1
  <2>3. Len(s2) = Len(s) + Len(m) + 2
    BY <1>1, <1>2, <2>1, <2>2
  <2> QED
    BY <2>1, <2>2, <2>3
<1> HIDE DEF M2, s2
<1>5. /\ at \in [1..(N + 1) -> Nat]
      /\ \A i \in 1..N : at[i + 1] = at[i] + 2 + Len(ms[i])
      /\ \A i, k \in 1..(N + 1) : i <= k => at[i] <= at[k]
  BY DEF Offsets
<1>6. /\ at2 \in [1..(N + 2) -> Nat]
      /\ \A i \in 1..(N + 1) : at2[i] = at[i] /\ at[i] \in Nat
      /\ at2[N + 2] = at[N + 1] + 2 + Len(m)
  <2>1. N + 1 \in 1..(N + 1) /\ \A i \in 1..(N + 2) : i # N + 2 => i \in 1..(N + 1)
    BY <1>2
  <2>2. \A i \in 1..(N + 1) : i \in 1..(N + 2) /\ i # N + 2
    BY <1>2
  <2>3. N + 2 \in 1..(N + 2)
    BY <1>2
  <2>4. \A i \in 1..(N + 1) : at[i] \in Nat
    BY <1>5
  <2>5. at[N + 1] + 2 + Len(m) \in Nat
    BY <1>1, <2>1, <2>4
  <2> QED
    BY <2>1, <2>2, <2>3, <2>4, <2>5
<1> HIDE DEF at2, N
<1>7. Offsets(M2, at2)
  <2>1. \A i \in 1..(N + 1) : at2[i + 1] = at2[i] + 2 + Len(M2[i])
    <3> TAKE i \in 1..(N + 1)
    <3>1. CASE i = N + 1
      <4>1. i + 1 = N + 2
        BY <1>2, <3>1
      <4> QED
        BY <1>3, <1>6, <3>1, <4>1
    <3>2. CASE i # N + 1
      <4>1. i \in 1..N /\ i + 1 \in 1..(N + 1)
        BY <1>2, <3>2
      <4>2. at[i + 1] = at[i] + 2 + Len(ms[i])
        BY <1>5, <4>1
      <4> QED
        BY <1>3, <1>6, <4>1, <4>2
    <3> QED
      BY <3>1, <3>2
  <2>2. \A i, k \in 1..(N + 2) : i <= k => at2[i] <= at2[k]
    <3> SUFFICES ASSUME NEW i \in 1..(N + 2), NEW k \in 1..(N + 2), i <= k
                 PROVE  at2[i] <= at2[k]
      OBVIOUS
    <3>1. CASE i = N + 2
      <4>1. k = N + 2
        BY <1>2, <3>1
      <4>2. at2[N + 2] \in Nat
        BY <1>2, <1>6
      <4> QED
        BY <3>1, <4>1, <4>2
    <3>2. CASE i # N + 2 /\ k = N + 2
      <4>1. i \in 1..(N + 1) /\ N + 1 \in 1..(N + 1) /\ i <= N + 1
        BY <1>2, <3>2
      <4>2. at[i] <= at[N + 1]
        BY <1>5, <4>1
      <4> QED
        <5>1. at2[i] = at[i] /\ at[i] \in Nat /\ at[N + 1] \in Nat
          BY <1>6, <4>1
        <5>2. at2[k] = at[N + 1] + 2 + Len(m)
          BY <1>6, <3>2
        <5> QED
          BY <1>1, <4>2, <5>1, <5>2
    <3>3. CASE k # N + 2
      <4>1. i \in 1..(N + 1) /\ k \in 1..(N + 1)
        BY <1>2, <3>3
      <4>2. at[i] <= at[k]
        BY <1>5, <4>1
      <4> QED
        BY <1>6, <4>1, <4>2
    <3> QED
      BY <3>1, <3>2, <3>3
  <2>3. Len(M2) + 1 = N + 2
    BY <1>2, <1>3
  <2> QED
    BY <1>3, <1>6, <2>1, <2>2, <2>3 DEF Offsets
<1>8. N + 1 \in 1..(N + 1) /\ at[N + 1] \in Nat /\ c + Len(s) = at[N + 1]
  BY <1>2, <1>5 DEF N
<1>9. c + Len(s2) = at2[Len(M2) + 1]
  <2>1. Len(M2) + 1 = N + 2
    BY <1>2, <1>3
  <2>2. at2[Len(M2) + 1] = (c + Len(s)) + 2 + Len(m)
    BY <1>6, <1>8, <2>1
  <2> QED
    BY <1>1, <1>2, <1>4, <2>2
<1>10. ASSUME NEW i \in 1..(N + 1), NEW j \in 1..(2 + Len(M2[i])),
              NEW p \in 1..Len(s2), c + p = at2[i] + j
       PROVE  s2[p] = Frame(M2[i])[j]
  <2>1. at2[i] = at[i] /\ at[i] \in Nat
    BY <1>6
  <2>2. CASE i = N + 1
    <3>1. j \in 1..(2 + Len(m)) /\ M2[i] = m
      BY <1>3, <2>2
    <3>2. p \in Nat /\ j \in Nat
      BY <1>1, <1>2, <1>4, <3>1
    <3>3. p = Len(s) + j
      <4>1. c + p = (c + Len(s)) + j
        <5>1. at2[i] = c + Len(s)
          BY <1>8, <2>1, <2>2
        <5> QED
          BY <1>10, <5>1
      <4>2. c \in Nat /\ Len(s) \in Nat
        BY <1>2
      <4> DEFINE l == Len(s)
      <4> HIDE DEF l
      <4>3. c + p = (c + l) + j /\ l \in Nat
        BY <4>1, <4>2 DEF l
      <4>4. p = l + j
        BY <3>2, <4>2, <4>3, Between
      <4> QED
        BY <4>4 DEF l
    <3> QED
      BY <1>4, <3>1, <3>3
  <2>3. CASE i # N + 1
    <3>1. i \in 1..N /\ i + 1 \in 1..(N + 1) /\ i + 1 <= N + 1
      BY <1>2, <2>3
    <3>2. /\ M2[i] = ms[i] /\ Len(ms[i]) \in Nat
          /\ at[i + 1] = at[i] + 2 + Len(ms[i])
          /\ at[i + 1] <= at[N + 1] /\ at[i + 1] \in Nat
      BY <1>2, <1>3, <1>5, <1>8, <3>1
    <3>3. j \in 1..(2 + Len(ms[i])) /\ j \in Nat
      BY <3>2
    <3>4. p \in Nat /\ p >= 1
      BY <1>1, <1>2, <1>4
    <3>5. p <= Len(s)
      <4>1. c + p = at[i] + j /\ at[i] + 2 + Len(ms[i]) <= c + Len(s)
        BY <1>8, <1>10, <2>1, <3>2
      <4>2. j <= 2 + Len(ms[i])
        BY <3>2, <3>3
      <4> QED
        BY <1>2, <2>1, <3>2, <3>3, <3>4, <4>1, <4>2, Before
    <3>6. p \in 1..Len(s)
      BY <1>2, <3>4, <3>5
    <3>7. c + p = at[i] + j
      BY <1>10, <2>1
    <3>8. s[p] = Frame(ms[i])[j]
      BY <3>1, <3>3, <3>6, <3>7 DEF Follows, N
    <3> QED
      BY <1>4, <3>2, <3>6, <3>8
  <2> QED
    BY <2>2, <2>3
<1>11. Follows(M2, at2, c, s2)
  BY <1>3, <1>10 DEF Follows
<1> QED
  BY <1>6, <1>7, <1>9, <1>11 DEF M2, s2, N

\* What follows a cut, and what is left of it when its end is lost.
LEMMA Advance ==
    ASSUME NEW ms, NEW at, NEW c \in Nat, NEW s \in Seq(Byte), Follows(ms, at, c, s),
           NEW n \in 0..Len(s)
    PROVE  /\ Follows(ms, at, c + n, SubSeq(s, n + 1, Len(s)))
           /\ Follows(ms, at, c, SubSeq(s, 1, n))
<1> DEFINE t == SubSeq(s, n + 1, Len(s))
           u == SubSeq(s, 1, n)
<1>1. /\ Len(u) = n /\ \A i \in 1..n : u[i] = s[i]
      /\ Len(t) = Len(s) - n /\ \A i \in 1..(Len(s) - n) : t[i] = s[n + i]
  BY Cut
<1>2. Len(s) \in Nat /\ n \in Nat /\ n <= Len(s)
  OBVIOUS
<1> HIDE DEF t, u
<1>3. \A p \in 1..Len(t) : p \in Nat /\ n + p \in 1..Len(s) /\ (c + n) + p = c + (n + p)
  BY <1>1, <1>2
<1>4. \A p \in 1..Len(u) : p \in 1..Len(s)
  BY <1>1, <1>2
<1>5. Follows(ms, at, c + n, t)
  BY <1>1, <1>3 DEF Follows
<1>6. Follows(ms, at, c, u)
  BY <1>1, <1>4 DEF Follows
<1> QED
  BY <1>5, <1>6 DEF t, u

-----------------------------------------------------------------------------
(* Every action keeps the reader aligned with the frames.                  *)

\* The lengths are natural numbers and every message has its frame.
LEMMA Sizes ==
    ASSUME TypeOK
    PROVE  /\ Len(written) \in Nat /\ Len(got) \in Nat /\ Len(pipe) \in Nat
           /\ Len(have) \in Nat /\ Taken \in Nat /\ Cur \in Nat /\ Cur >= 1 /\ Part \in Nat
           /\ \A i \in 1..Len(written) : written[i] \in Msgs /\ Len(written[i]) \in Nat
<1>1. /\ Len(written) \in Nat /\ Len(got) \in Nat /\ Len(pipe) \in Nat
      /\ Len(have) \in Nat /\ \A i \in 1..Len(written) : written[i] \in Msgs
  BY DEF TypeOK
<1>2. Taken \in Nat
  BY <1>1 DEF Taken
<1>3. Cur \in Nat /\ Cur >= 1 /\ Part \in Nat
  BY <1>1, <1>2 DEF Cur, Part
<1> QED
  BY <1>1, <1>2, <1>3, FrameOf

\* A step that moves no byte and no message.
LEMMA StillStep ==
    ASSUME Inv, UNCHANGED <<written, netVars, readVars, side, view, got, Taken>>,
           frame' \in [Writers -> {<<>>} \union {Frame(m) : m \in Msgs}]
    PROVE  Inv'
<1> USE DEF netVars, readVars
<1>1. TypeOK'
  BY DEF Inv, TypeOK
<1>2. UNCHANGED <<Cur, Part>>
  BY DEF Cur, Part
<1>3. InFrame'
  BY <1>2 DEF Inv, InFrame, Keep
<1>4. PICK at \in [1..(Len(written) + 1) -> Nat] : Offsets(written, at) /\ OnTape(at)
  BY DEF Inv
<1>5. Offsets(written, at)' /\ OnTape(at)'
  <2>1. OnTape(at)'
    BY <1>2, <1>4 DEF OnTape
  <2> QED
    BY <1>4, <2>1 DEF Offsets
<1> QED
  BY <1>1, <1>3, <1>4, <1>5 DEF Inv

\* A frame is written behind the last one.
LEMMA ConnWriteStep ==
    ASSUME Inv, NEW w \in Writers, ConnWrite(w)
    PROVE  Inv' /\ \E m \in Msgs : written' = Append(written, m)
<1>1. PICK m \in Msgs : frame[w] = Frame(m)
  BY DEF ConnWrite, Inv, TypeOK
<1> DEFINE N == Len(written)
<1>2. /\ written' = Append(written, m) /\ pipe' = pipe \o Frame(m)
      /\ frame' = [frame EXCEPT ![w] = <<>>] /\ conn = "open"
      /\ UNCHANGED <<conn, rpc, have, length, msg, side, cpc, view, got>>
  BY <1>1, Unframe DEF ConnWrite, readVars, useVars
<1>3. /\ N \in Nat /\ Len(pipe) \in Nat /\ Cur \in Nat /\ Cur >= 1 /\ Part \in Nat
      /\ \A i \in 1..N : written[i] \in Msgs /\ Len(written[i]) \in Nat
  BY Sizes DEF Inv
<1>4. /\ Len(m) \in Nat /\ Frame(m) \in Seq(Byte) /\ Len(Frame(m)) = Len(m) + 2
  BY FrameOf
<1>5. /\ written' \in Seq(Msgs) /\ Len(written') = N + 1 /\ written'[N + 1] = m
      /\ \A i \in 1..N : written'[i] = written[i]
  BY <1>2 DEF Inv, TypeOK
<1>6. /\ pipe' \in Seq(Byte) /\ Len(pipe') = Len(pipe) + Len(m) + 2
      /\ \A p \in 1..Len(pipe) : pipe'[p] = pipe[p]
      /\ \A j \in 1..(Len(m) + 2) : pipe'[Len(pipe) + j] = Frame(m)[j]
  <2>1. pipe \in Seq(Byte)
    BY DEF Inv, TypeOK
  <2>2. /\ pipe' \in Seq(Byte) /\ Len(pipe') = Len(pipe) + Len(Frame(m))
        /\ \A p \in 1..Len(pipe) : pipe'[p] = pipe[p]
        /\ \A j \in 1..Len(Frame(m)) : pipe'[Len(pipe) + j] = Frame(m)[j]
    BY <1>2, <1>4, <2>1, Concat
  <2> QED
    BY <1>3, <1>4, <2>2
<1>7. UNCHANGED <<Taken, Cur, Part>>
  BY <1>2 DEF Cur, Taken, Part
<1>8. TypeOK'
  BY <1>2, <1>5, <1>6 DEF Inv, TypeOK
<1>9. InFrame'
  <2>1. Cur <= Len(written) => Cur \in 1..N /\ written'[Cur] = written[Cur]
    BY <1>3, <1>5
  <2>2. Cur <= N + 1 /\ Cur <= (N + 1) + 1
    BY <1>3 DEF Inv, InFrame
  <2>3. rpc = "prefix" => /\ Len(have) <= 2 /\ (have # <<>> => Cur <= N)
                          /\ \A j \in 1..Len(have) : have[j] = Frame(written[Cur])[j]
    BY DEF Inv, InFrame
  <2>4. rpc = "body" => /\ Cur <= N /\ length = Len(written[Cur]) /\ Len(have) <= length
                        /\ \A j \in 1..Len(have) : have[j] = written[Cur][j]
    BY DEF Inv, InFrame
  <2>5. rpc = "offer" => msg = Keep(written'[Taken + 1])
    <3>1. rpc = "offer" => Taken + 1 \in 1..N /\ msg = Keep(written[Taken + 1])
      BY <2>2, <1>3, Sizes DEF Inv, InFrame, Cur
    <3> QED
      BY <1>5, <3>1
  <2>6. rpc \in {"offer", "exited"} => have = <<>>
    BY DEF Inv, InFrame
  <2>7. Cur <= N => Cur <= N + 1
    BY <1>3
  <2>8. (\A j \in 1..Len(have) : FALSE) \/ have # <<>>
    BY DEF Inv, TypeOK
  <2> QED
    BY <1>2, <1>5, <1>7, <2>1, <2>2, <2>3, <2>4, <2>5, <2>6, <2>7, <2>8 DEF InFrame, Keep
<1>10. PICK at \in [1..(N + 1) -> Nat] : Offsets(written, at) /\ OnTape(at)
  BY DEF Inv
<1>11. /\ Cur \in 1..(N + 1) /\ at[Cur] \in Nat /\ at[Cur] + Part \in Nat
       /\ at[Cur] + Part + Len(pipe) = at[N + 1]
       /\ Follows(written, at, at[Cur] + Part, pipe)
  <2>1. Cur <= N + 1
    BY DEF Inv, InFrame
  <2>2. Cur \in 1..(N + 1)
    BY <1>3, <2>1
  <2>3. at[Cur] \in Nat /\ at[Cur] + Part \in Nat
    BY <1>3, <1>10, <2>2
  <2>4. /\ at[Cur] + Part + Len(pipe) = at[N + 1]
        /\ Follows(written, at, at[Cur] + Part, pipe)
    BY <1>2, <1>10 DEF OnTape
  <2> QED
    BY <2>2, <2>3, <2>4
<1>12. PICK at2 : /\ Offsets(written', at2)
                  /\ \A i \in 1..(N + 1) : at2[i] = at[i]
                  /\ at[Cur] + Part + Len(pipe') = at2[Len(written') + 1]
                  /\ Follows(written', at2, at[Cur] + Part, pipe')
  <2>1. written \in Seq(Msgs) /\ pipe \in Seq(Byte)
    BY DEF Inv, TypeOK
  <2> DEFINE tape == at[Cur] + Part
  <2>2. /\ tape \in Nat /\ tape + Len(pipe) = at[Len(written) + 1]
        /\ Follows(written, at, tape, pipe)
    BY <1>11
  <2> HIDE DEF tape
  <2>3. \E at2 : /\ Offsets(Append(written, m), at2)
                 /\ \A i \in 1..(Len(written) + 1) : at2[i] = at[i]
                 /\ tape + Len(pipe \o Frame(m)) = at2[Len(Append(written, m)) + 1]
                 /\ Follows(Append(written, m), at2, tape, pipe \o Frame(m))
    BY <1>10, <2>1, <2>2, Extend
  <2> QED
    BY <1>2, <2>3 DEF tape
<1>13. at2[Cur] = at[Cur] /\ at2[Cur'] + Part' = at[Cur] + Part
  BY <1>7, <1>11, <1>12
<1>14. at2[Cur'] + Part' + Len(pipe') = at2[Len(written') + 1]
  BY <1>12, <1>13
<1>15. at2[Len(written') + 1] \in Nat
  BY <1>3, <1>5, <1>12 DEF Offsets
<1>16. OnTape(at2)'
  BY <1>12, <1>13, <1>14, <1>15 DEF OnTape
<1>17. at2 \in [1..(Len(written') + 1) -> Nat]
  BY <1>12 DEF Offsets
<1> QED
  BY <1>2, <1>8, <1>9, <1>12, <1>16, <1>17 DEF Inv

\* Where the reader stands: a state of Inv with its offsets.
LEMMA Position ==
    ASSUME Inv
    PROVE  \E at \in [1..(Len(written) + 1) -> Nat] :
               /\ Offsets(written, at) /\ OnTape(at)
               /\ Cur \in 1..(Len(written) + 1) /\ at[Cur] \in Nat
               /\ at[Cur] + Part \in Nat /\ at[Len(written) + 1] \in Nat
               /\ pipe # <<>> => Cur \in 1..Len(written)
<1>1. PICK at \in [1..(Len(written) + 1) -> Nat] : Offsets(written, at) /\ OnTape(at)
  BY DEF Inv
<1>2. /\ Len(written) \in Nat /\ Len(pipe) \in Nat /\ Cur \in Nat /\ Cur >= 1 /\ Part \in Nat
  BY Sizes DEF Inv
<1>3. Cur \in 1..(Len(written) + 1) /\ Len(written) + 1 \in 1..(Len(written) + 1)
  BY <1>2 DEF Inv, InFrame
<1>4. at[Cur] \in Nat /\ at[Cur] + Part \in Nat /\ at[Len(written) + 1] \in Nat
  BY <1>1, <1>2, <1>3
<1>5. at[Cur] + Part + Len(pipe) <= at[Len(written) + 1]
  BY <1>1 DEF OnTape
<1>6. pipe # <<>> => Cur \in 1..Len(written)
  <2>1. pipe # <<>> => Len(pipe) > 0
    BY DEF Inv, TypeOK
  <2>2. Len(pipe) > 0 => Cur # Len(written) + 1
    BY <1>2, <1>4, <1>5
  <2> QED
    BY <1>2, <1>3, <2>1, <2>2
<1> QED
  BY <1>1, <1>3, <1>4, <1>6

\* The first bytes of one sequence behind another.
LEMMA Grow ==
    ASSUME NEW s \in Seq(Byte), NEW t \in Seq(Byte), NEW n \in 0..Len(t)
    PROVE  /\ s \o SubSeq(t, 1, n) \in Seq(Byte)
           /\ Len(s \o SubSeq(t, 1, n)) = Len(s) + n
           /\ \A j \in 1..Len(s) : (s \o SubSeq(t, 1, n))[j] = s[j]
           /\ \A q \in 1..n : (s \o SubSeq(t, 1, n))[Len(s) + q] = t[q]
           /\ \A j \in 1..(Len(s) + n) : j \in 1..Len(s) \/ \E q \in 1..n : j = Len(s) + q
<1> DEFINE u == SubSeq(t, 1, n)
<1>1. u \in Seq(Byte) /\ Len(u) = n /\ \A i \in 1..n : u[i] = t[i]
  BY Cut
<1> HIDE DEF u
<1>2. /\ s \o u \in Seq(Byte) /\ Len(s \o u) = Len(s) + n
      /\ \A j \in 1..Len(s) : (s \o u)[j] = s[j]
      /\ \A q \in 1..n : (s \o u)[Len(s) + q] = u[q]
  BY <1>1, Concat
<1>3. ASSUME NEW j \in 1..(Len(s) + n)
      PROVE  j \in 1..Len(s) \/ \E q \in 1..n : j = Len(s) + q
  <2>1. Len(s) \in Nat /\ n \in Nat /\ j \in Nat
    OBVIOUS
  <2>2. CASE j <= Len(s)
    BY <2>1, <2>2
  <2>3. CASE j > Len(s)
    <3>1. j - Len(s) \in 1..n /\ j = Len(s) + (j - Len(s))
      BY <2>1, <2>3
    <3> QED
      BY <3>1
  <2> QED
    BY <2>1, <2>2, <2>3
<1> QED
  BY <1>1, <1>2, <1>3 DEF u

\* The bytes that a read takes are the next ones of the current frame.
LEMMA ReadSomeStep ==
    ASSUME Inv, ReadSome
    PROVE  Inv'
<1> DEFINE N == Len(written)
           f == Frame(written[Cur])
<1>1. /\ N \in Nat /\ Len(have) \in Nat /\ Len(pipe) \in Nat /\ Cur \in Nat /\ Part \in Nat
      /\ pipe \in Seq(Byte) /\ have \in Seq(Byte) /\ length \in Nat
      /\ \A i \in 1..N : written[i] \in Msgs /\ Len(written[i]) \in Nat
  BY Sizes DEF Inv, TypeOK
<1>2. PICK n \in 1..(Wanted - Len(have)) :
           /\ n <= Len(pipe) /\ have' = have \o SubSeq(pipe, 1, n)
           /\ pipe' = SubSeq(pipe, n + 1, Len(pipe))
  BY DEF ReadSome
<1>3. UNCHANGED <<written, frame, conn, rpc, length, msg, side, cpc, view, got>> /\ rpc \in {"prefix", "body"}
  BY DEF ReadSome, writeVars, useVars
<1>4. Wanted \in Nat /\ n \in Nat /\ n >= 1 /\ n \in 0..Len(pipe) /\ Len(have) + n <= Wanted
  <2>1. Wanted \in Nat
    BY <1>1 DEF Wanted
  <2> QED
    BY <1>1, <1>2, <2>1
<1>5. /\ have' \in Seq(Byte) /\ Len(have') = Len(have) + n
      /\ \A j \in 1..Len(have) : have'[j] = have[j]
      /\ \A q \in 1..n : have'[Len(have) + q] = pipe[q]
      /\ \A j \in 1..(Len(have) + n) : j \in 1..Len(have) \/ \E q \in 1..n : j = Len(have) + q
  BY <1>1, <1>2, <1>4, Grow
<1>6. pipe' \in Seq(Byte) /\ Len(pipe') = Len(pipe) - n
  BY <1>1, <1>2, <1>4, Cut
<1>7. Cur' = Cur /\ Part' = Part + n
  <2>1. Cur' = Cur
    BY <1>3 DEF Cur, Taken
  <2>2. CASE rpc = "prefix"
    BY <1>3, <1>5, <2>2, <2>1 DEF Part
  <2>3. CASE rpc = "body"
    <3>1. Part = 2 + Len(have) /\ Part' = 2 + Len(have')
      BY <1>3, <2>3 DEF Part
    <3>2. Part' = 2 + (Len(have) + n)
      BY <1>5, <3>1
    <3> QED
      BY <1>1, <1>4, <2>1, <3>1, <3>2
  <2> QED
    BY <1>3, <2>2, <2>3
<1>8. TypeOK'
  BY <1>3, <1>5, <1>6 DEF Inv, TypeOK
<1>9. PICK at \in [1..(N + 1) -> Nat] :
           /\ Offsets(written, at) /\ OnTape(at)
           /\ Cur \in 1..(N + 1) /\ at[Cur] \in Nat
           /\ at[Cur] + Part \in Nat /\ at[N + 1] \in Nat
           /\ pipe # <<>> => Cur \in 1..N
  BY Position
<1>10. Cur \in 1..N /\ written[Cur] \in Msgs /\ Len(written[Cur]) \in Nat
  <2>1. pipe # <<>>
    BY <1>4
  <2> QED
    BY <1>1, <1>9, <2>1
<1>11. Part + n <= 2 + Len(written[Cur])
  <2>1. CASE rpc = "prefix"
    <3>1. Part = Len(have) /\ Wanted = 2
      BY <2>1 DEF Part, Wanted
    <3> QED
      BY <1>1, <1>4, <1>10, <3>1
  <2>2. CASE rpc = "body"
    <3>1. Part = 2 + Len(have) /\ Wanted = length /\ length = Len(written[Cur])
      BY <2>2 DEF Part, Wanted, Inv, InFrame
    <3> QED
      BY <1>1, <1>4, <1>10, <3>1
  <2> QED
    BY <1>3, <2>1, <2>2
<1>12. ASSUME NEW q \in 1..n
       PROVE  have'[Len(have) + q] = f[Part + q]
  <2>1. q \in Nat /\ q \in 1..Len(pipe) /\ Part + q \in 1..(2 + Len(written[Cur]))
    BY <1>1, <1>4, <1>10, <1>11
  <2>2. (at[Cur] + Part) + q = at[Cur] + (Part + q)
    BY <1>1, <1>9, <2>1
  <2>3. pipe[q] = f[Part + q]
    BY <1>9, <1>10, <2>1, <2>2 DEF OnTape, Follows
  <2> QED
    BY <1>5, <2>3
<1> HIDE DEF f
<1>13. InFrame'
  <2>1. CASE rpc = "prefix"
    <3>1. Len(have') <= 2
      BY <1>4, <1>5, <2>1 DEF Wanted
    <3>2. Part = Len(have) /\ \A j \in 1..Len(have) : have[j] = f[j]
      <4>1. Part = Len(have)
        BY <2>1 DEF Part
      <4>2. \A j \in 1..Len(have) : have[j] = f[j]
        BY <2>1 DEF Inv, InFrame, f
      <4> QED
        BY <4>1, <4>2
    <3>3. \A j \in 1..Len(have') : have'[j] = f[j]
      <4> SUFFICES ASSUME NEW j \in 1..Len(have')
                   PROVE  have'[j] = f[j]
        OBVIOUS
      <4>1. CASE j \in 1..Len(have)
        BY <1>5, <3>2, <4>1
      <4>2. ASSUME NEW q \in 1..n, j = Len(have) + q
            PROVE  have'[j] = f[j]
        BY <1>12, <3>2, <4>2
      <4> QED
        BY <1>5, <4>1, <4>2
    <3> QED
      BY <1>1, <1>3, <1>7, <1>10, <2>1, <3>1, <3>3 DEF InFrame, f
  <2>2. CASE rpc = "body"
    <3>1. /\ Part = 2 + Len(have) /\ length = Len(written[Cur])
          /\ \A j \in 1..Len(have) : have[j] = written[Cur][j]
      BY <2>2 DEF Part, Inv, InFrame
    <3>2. Len(have') <= length
      BY <1>4, <1>5, <2>2 DEF Wanted
    <3>3. ASSUME NEW q \in 1..n
          PROVE  have'[Len(have) + q] = written[Cur][Len(have) + q]
      <4>1. Len(have) + q \in 1..Len(written[Cur]) /\ Part + q = (Len(have) + q) + 2
        BY <1>1, <1>4, <1>10, <1>11, <3>1
      <4>2. f[(Len(have) + q) + 2] = written[Cur][Len(have) + q]
        BY <1>10, <4>1, FrameOf DEF f
      <4> QED
        BY <1>12, <4>1, <4>2
    <3>4. \A j \in 1..Len(have') : have'[j] = written[Cur][j]
      <4> SUFFICES ASSUME NEW j \in 1..Len(have')
                   PROVE  have'[j] = written[Cur][j]
        OBVIOUS
      <4>1. CASE j \in 1..Len(have)
        BY <1>5, <3>1, <4>1
      <4>2. ASSUME NEW q \in 1..n, j = Len(have) + q
            PROVE  have'[j] = written[Cur][j]
        BY <3>3, <4>2
      <4> QED
        BY <1>5, <4>1, <4>2
    <3> QED
      BY <1>1, <1>3, <1>7, <1>10, <2>2, <3>1, <3>2, <3>4 DEF InFrame
  <2> QED
    BY <1>3, <2>1, <2>2
<1>14. OnTape(at)'
  <2>1. at[Cur'] + Part' = (at[Cur] + Part) + n
    BY <1>1, <1>4, <1>7, <1>9
  <2>2. (at[Cur] + Part) + n + Len(pipe') = at[Cur] + Part + Len(pipe)
    BY <1>1, <1>4, <1>6, <1>9
  <2>3. Follows(written, at, (at[Cur] + Part) + n, pipe')
    BY <1>1, <1>2, <1>4, <1>9, Advance DEF OnTape
  <2> QED
    BY <1>3, <1>9, <2>1, <2>2, <2>3 DEF OnTape
<1> QED
  BY <1>3, <1>8, <1>9, <1>13, <1>14 DEF Inv

\* The prefix decodes to the length of the current message.
LEMMA PrefixDoneStep ==
    ASSUME Inv, PrefixDone
    PROVE  Inv'
<1> DEFINE N == Len(written)
<1>1. /\ rpc = "prefix" /\ Len(have) = 2 /\ length' = Uint16(have) /\ have' = <<>>
      /\ rpc' = "body" /\ UNCHANGED <<written, frame, pipe, conn, msg, side, cpc, view, got>>
  BY DEF PrefixDone, writeVars, netVars, useVars
<1>2. /\ N \in Nat /\ Taken \in Nat /\ Cur \in Nat /\ Cur >= 1
      /\ \A i \in 1..N : written[i] \in Msgs /\ Len(written[i]) \in Nat
  BY Sizes DEF Inv
<1>3. /\ Cur <= N + 1 /\ Cur <= N
      /\ \A j \in 1..Len(have) : have[j] = Frame(written[Cur])[j]
  <2>1. have # <<>>
    BY <1>1
  <2>2. InFrame
    BY DEF Inv
  <2> QED
    BY <1>1, <2>1, <2>2 DEF InFrame
<1>4. Cur \in 1..N /\ written[Cur] \in Msgs /\ Len(written[Cur]) \in Nat
  BY <1>2, <1>3
<1>5. have[1] = Frame(written[Cur])[1] /\ have[2] = Frame(written[Cur])[2]
  BY <1>1, <1>3
<1>6. length' = Len(written[Cur])
  BY <1>1, <1>4, <1>5, FrameOf DEF Uint16
<1>7. Cur' = Cur /\ Part = 2 /\ Part' = 2
  BY <1>1 DEF Cur, Taken, Part
<1>8. TypeOK'
  BY <1>1, <1>4, <1>6 DEF Inv, TypeOK
<1>9. InFrame'
  BY <1>1, <1>3, <1>4, <1>6, <1>7 DEF InFrame
<1>10. PICK at \in [1..(N + 1) -> Nat] : Offsets(written, at) /\ OnTape(at)
  BY DEF Inv
<1>11. OnTape(at)'
  BY <1>1, <1>7, <1>10 DEF OnTape
<1> QED
  BY <1>1, <1>8, <1>9, <1>10, <1>11 DEF Inv

\* A message that has been read to its end is the message that was written; the
\* next byte is the first of the next frame.
LEMMA BodyDoneStep ==
    ASSUME Inv, BodyDone
    PROVE  Inv'
<1> DEFINE N == Len(written)
           m == written[Cur]
<1>1. /\ rpc = "body" /\ Len(have) = length /\ msg' = Keep(have) /\ have' = <<>>
      /\ rpc' = "offer" /\ UNCHANGED <<written, frame, pipe, conn, length, side, cpc, view, got>>
  BY DEF BodyDone, writeVars, netVars, useVars
<1>2. /\ N \in Nat /\ Taken \in Nat /\ Cur \in Nat /\ Cur >= 1
      /\ \A i \in 1..N : written[i] \in Msgs /\ Len(written[i]) \in Nat
  BY Sizes DEF Inv
<1>3. /\ Cur <= N /\ length = Len(m) /\ \A j \in 1..Len(have) : have[j] = m[j]
  BY <1>1 DEF Inv, InFrame
<1>4. Cur \in 1..N /\ m \in Msgs /\ Len(m) \in Nat
  BY <1>2, <1>3
<1>5. m \in Seq(Byte)
  BY <1>4, FrameOf
<1>6. have \in Seq(Byte) /\ Len(have) = Len(m)
  BY <1>1, <1>3 DEF Inv, TypeOK
<1> HIDE DEF m
<1>7. have = m
  BY <1>3, <1>5, <1>6
<1>8. msg' = Keep(m) /\ msg' \in Seq(Int)
  BY <1>1, <1>5, <1>7, KeepOf
<1>9. /\ Cur = Taken + 1 /\ Cur' = Taken + 2 /\ Taken' = Taken
      /\ Part = 2 + Len(m) /\ Part' = 0
  BY <1>1, <1>6 DEF Cur, Taken, Part
<1>10. TypeOK'
  BY <1>1, <1>8 DEF Inv, TypeOK
<1>11. InFrame'
  <2>1. Cur' <= Len(written') + 1
    BY <1>1, <1>2, <1>3, <1>9
  <2>2. msg' = Keep(written'[Taken' + 1])
    BY <1>1, <1>8, <1>9 DEF m
  <2> QED
    BY <1>1, <2>1, <2>2 DEF InFrame, Keep
<1>12. PICK at \in [1..(N + 1) -> Nat] :
            Offsets(written, at) /\ OnTape(at) /\ at[Cur] \in Nat
  BY Position
<1>13. at[Cur'] + Part' = at[Cur] + Part
  <2>1. Cur' = Cur + 1 /\ Cur + 1 \in 1..(N + 1)
    BY <1>2, <1>3, <1>9
  <2>2. at[Cur + 1] = at[Cur] + 2 + Len(m) /\ at[Cur + 1] \in Nat
    BY <1>4, <1>12, <2>1 DEF Offsets, m
  <2>3. at[Cur'] + Part' = at[Cur + 1]
    BY <1>9, <2>1, <2>2
  <2>4. at[Cur] + Part = at[Cur] + 2 + Len(m)
    BY <1>4, <1>9, <1>12
  <2> QED
    BY <2>2, <2>3, <2>4
<1>14. OnTape(at)'
  BY <1>1, <1>12, <1>13 DEF OnTape
<1> QED
  BY <1>1, <1>10, <1>11, <1>12, <1>14 DEF Inv

\* After an error nothing follows: what was read of a torn message is forgotten.
LEMMA ReadFailsStep ==
    ASSUME Inv, ReadFails
    PROVE  Inv'
<1> DEFINE N == Len(written)
<1>1. /\ rpc \in {"prefix", "body"} /\ pipe = <<>> /\ have' = <<>> /\ conn' = "eof"
      /\ rpc' \in {"prefix", "exited"}
      /\ UNCHANGED <<written, frame, pipe, length, msg, side, cpc, view, got>>
  BY DEF ReadFails, writeVars, useVars
<1>2. Cur' = Cur /\ Part' = 0
  BY <1>1 DEF Cur, Taken, Part
<1>3. /\ N \in Nat /\ Cur \in Nat /\ Part \in Nat
  BY Sizes DEF Inv
<1>4. TypeOK'
  BY <1>1 DEF Inv, TypeOK
<1>5. InFrame'
  <2>1. Cur <= N + 1
    BY DEF Inv, InFrame
  <2> QED
    BY <1>1, <1>2, <2>1 DEF InFrame
<1>6. PICK at \in [1..(N + 1) -> Nat] :
           /\ Offsets(written, at) /\ OnTape(at) /\ at[Cur] \in Nat /\ at[N + 1] \in Nat
  BY Position
<1>7. OnTape(at)'
  <2>1. at[Cur] + Part + Len(pipe) <= at[N + 1] /\ Len(pipe) = 0
    BY <1>1, <1>6 DEF OnTape
  <2>2. at[Cur'] + Part' + Len(pipe') <= at[Len(written') + 1]
    BY <1>1, <1>2, <1>3, <1>6, <2>1
  <2>3. Follows(written', at, at[Cur'] + Part', pipe')
    BY <1>1 DEF Follows
  <2> QED
    BY <1>1, <2>2, <2>3 DEF OnTape
<1> QED
  BY <1>1, <1>4, <1>5, <1>6, <1>7 DEF Inv

\* The bytes that a broken connection still delivers are a beginning of those that
\* were on their way.
LEMMA ConnBreaksStep ==
    ASSUME Inv, ConnBreaks
    PROVE  Inv'
<1> DEFINE N == Len(written)
<1>1. /\ conn' \in {"eof", "reset"}
      /\ UNCHANGED <<written, frame, rpc, have, length, msg, side, cpc, view, got>>
  BY DEF ConnBreaks, writeVars, readVars, useVars
<1>2. PICK n \in 0..Len(pipe) : pipe' = SubSeq(pipe, 1, n)
  BY DEF ConnBreaks
<1>3. pipe \in Seq(Byte) /\ Len(pipe) \in Nat /\ Part \in Nat
  BY Sizes DEF Inv, TypeOK
<1>4. pipe' \in Seq(Byte) /\ Len(pipe') = n /\ n \in Nat /\ n <= Len(pipe)
  BY <1>2, <1>3, Cut
<1>5. Cur' = Cur /\ Part' = Part
  BY <1>1 DEF Cur, Taken, Part
<1>6. TypeOK'
  BY <1>1, <1>4 DEF Inv, TypeOK
<1>7. InFrame'
  <2>1. Taken' = Taken
    BY <1>1 DEF Taken
  <2> QED
    BY <1>1, <1>5, <2>1 DEF Inv, InFrame, Keep
<1>8. PICK at \in [1..(N + 1) -> Nat] :
           /\ Offsets(written, at) /\ OnTape(at) /\ at[Cur] \in Nat
           /\ at[Cur] + Part \in Nat /\ at[N + 1] \in Nat
  BY Position
<1>9. OnTape(at)'
  <2>1. at[Cur] + Part + n <= at[N + 1]
    <3>1. at[Cur] + Part + Len(pipe) <= at[N + 1]
      BY <1>8 DEF OnTape
    <3> QED
      BY <1>3, <1>4, <1>8, <3>1
  <2>2. Follows(written, at, at[Cur] + Part, pipe')
    BY <1>2, <1>3, <1>8, Advance DEF OnTape
  <2> QED
    BY <1>1, <1>4, <1>5, <2>1, <2>2 DEF OnTape
<1> QED
  BY <1>1, <1>6, <1>7, <1>8, <1>9 DEF Inv

\* The consumer is handed the message that follows those it has.
LEMMA ConsumeStep ==
    ASSUME Inv, Consume
    PROVE  Inv' /\ Handed'
<1> DEFINE N == Len(written)
<1>1. /\ rpc = "offer" /\ rpc' = "prefix" /\ cpc = "select" /\ cpc' = "use" /\ view' = msg
      /\ stale' = FALSE
      /\ UNCHANGED <<written, frame, pipe, conn, have, length, msg, side, got>>
  BY DEF Consume, writeVars, netVars
<1>2. /\ N \in Nat /\ Len(got) \in Nat
  BY Sizes DEF Inv
<1>3. Taken = Len(got) /\ Taken' = Len(got) + 1 /\ Cur = Len(got) + 2 /\ Part = 0
  BY <1>1 DEF Taken, Cur, Part
<1>4. Cur <= N + 1 /\ msg = Keep(written[Len(got) + 1]) /\ have = <<>>
  BY <1>1, <1>3 DEF Inv, InFrame
<1>5. Len(got) + 1 <= N
  BY <1>2, <1>3, <1>4
<1>6. Cur' = Cur /\ Part' = 0
  BY <1>1, <1>2, <1>3, <1>4 DEF Cur, Part
<1>7. TypeOK'
  BY <1>1 DEF Inv, TypeOK
<1>8. InFrame'
  BY <1>1, <1>4, <1>6 DEF InFrame
<1>9. PICK at \in [1..(N + 1) -> Nat] : Offsets(written, at) /\ OnTape(at)
  BY DEF Inv
<1>10. OnTape(at)'
  BY <1>1, <1>3, <1>6, <1>9 DEF OnTape
<1>11. Inv'
  BY <1>1, <1>7, <1>8, <1>9, <1>10 DEF Inv
<1>12. Handed'
  BY <1>1, <1>4, <1>5 DEF Handed, Keep
<1> QED
  BY <1>11, <1>12

\* The consumer reads the message that it was handed, or what a later one has made
\* of it.
LEMMA UseStep ==
    ASSUME Inv, Handed, Use
    PROVE  Inv' /\ Handed' /\ Channel!Deliver
<1> DEFINE n == Len(got) + 1
<1>1. /\ cpc = "use" /\ cpc' = "select" /\ view' = <<>> /\ stale' = FALSE
      /\ UNCHANGED <<written, netVars, readVars, frame, side>>
  BY DEF Use, writeVars
<1>2. PICK m \in {view} \union (IF stale THEN {msg, Torn} ELSE {}) : got' = Append(got, m)
  BY DEF Use
<1>3. m \in Seq(Int) /\ got \in Seq(Seq(Int)) /\ Len(got) \in Nat
  <2>1. Torn \in Seq(Int)
    BY DEF Torn
  <2>2. view \in Seq(Int) /\ msg \in Seq(Int) /\ got \in Seq(Seq(Int))
    BY DEF Inv, TypeOK
  <2> QED
    BY <2>1, <2>2
<1>4. /\ got' \in Seq(Seq(Int)) /\ Len(got') = n
      /\ \A i \in 1..Len(got) : got'[i] = got[i]
  BY <1>2, <1>3
<1>5. Taken' = Taken
  BY <1>1, <1>4 DEF Taken
<1>6. Inv'
  <2>1. TypeOK'
    BY <1>1, <1>4 DEF Inv, TypeOK, netVars, readVars
  <2>2. UNCHANGED <<Cur, Part>>
    BY <1>1, <1>5 DEF Cur, Part, readVars
  <2>3. InFrame'
    BY <1>1, <1>5, <2>2 DEF Inv, InFrame, Keep, readVars
  <2>4. PICK at \in [1..(Len(written) + 1) -> Nat] : Offsets(written, at) /\ OnTape(at)
    BY DEF Inv
  <2>5. OnTape(at)'
    BY <1>1, <2>2, <2>4 DEF OnTape, netVars
  <2> QED
    BY <1>1, <2>1, <2>3, <2>4, <2>5 DEF Inv
<1>7. Handed'
  BY <1>1 DEF Handed
<1>8. n <= Len(written) /\ view = Keep(written[n])
  BY <1>1 DEF Handed
<1>9. CASE m = view
  <2>1. got' = Append(got, Channel!Clip(written[n]))
    BY <1>2, <1>8, <1>9 DEF Keep, Channel!Clip
  <2> QED
    BY <1>1, <1>6, <1>7, <1>8, <2>1 DEF Channel!Deliver
<1>10. CASE m # view
  <2>1. side = "sender" /\ n < Len(written)
    BY <1>1, <1>10 DEF Handed
  <2> QED
    BY <1>1, <1>4, <1>6, <1>7, <1>8, <2>1 DEF Channel!Deliver
<1> QED
  BY <1>9, <1>10

\* The steps of the others leave what the consumer holds as it is, except that the
\* sender's reader may write over it with a message that comes later.
LEMMA HandedStep ==
    ASSUME Inv, Handed, UNCHANGED <<side, cpc, view, got>>,
           written' = written \/ \E m \in Msgs : written' = Append(written, m),
           stale' = stale \/ BodyDone
    PROVE  Handed'
<1>1. /\ Len(written) \in Nat /\ Len(got) \in Nat /\ written \in Seq(Msgs)
  BY Sizes DEF Inv, TypeOK
<1>2. /\ Len(written) <= Len(written') /\ Len(written') \in Nat
      /\ \A i \in 1..Len(written) : written'[i] = written[i]
  BY <1>1
<1>3. cpc = "use" => /\ Len(got) + 1 \in 1..Len(written)
                     /\ view = Keep(written[Len(got) + 1])
  BY <1>1 DEF Handed
<1>4. cpc' = "use" => /\ Len(got') + 1 <= Len(written')
                      /\ view' = Keep(written[Len(got) + 1])'
  BY <1>1, <1>2, <1>3 DEF Keep
<1>5. CASE stale' = stale
  BY <1>1, <1>2, <1>4, <1>5 DEF Handed
<1>6. CASE BodyDone
  <2>1. rpc = "body" /\ stale' = (stale \/ (side = "sender" /\ cpc = "use"))
    BY <1>6 DEF BodyDone
  <2>2. cpc = "use" => Len(got) + 2 <= Len(written)
    BY <1>1, <2>1 DEF Inv, InFrame, Cur, Taken
  <2>3. cpc' = "use" => Len(got') + 1 < Len(written')
    BY <1>1, <1>2, <2>2
  <2>4. stale => side = "sender"
    BY DEF Handed
  <2>5. stale' => side' = "sender" /\ (cpc' = "use" => Len(got') + 1 < Len(written'))
    BY <2>1, <2>3, <2>4, Zenon
  <2> QED
    BY <1>4, <2>5 DEF Handed
<1> QED
  BY <1>5, <1>6

-----------------------------------------------------------------------------
(* The theorems.                                                           *)

\* Nothing has been written and nothing has been read.
LEMMA InvInit ==
    ASSUME Init
    PROVE  Inv /\ Handed
<1> DEFINE at == [i \in 1..1 |-> 0]
<1>1. TypeOK
  BY DEF Init, TypeOK
<1>2. Cur = 1 /\ Part = 0 /\ Len(written) = 0 /\ Len(pipe) = 0 /\ written = <<>>
  BY DEF Init, Cur, Taken, Part
<1>3. InFrame
  BY <1>2 DEF Init, InFrame
<1>4. at \in [1..(Len(written) + 1) -> Nat] /\ at[1] = 0
  BY <1>2
<1> HIDE DEF at
<1>5. Offsets(written, at)
  BY <1>2, <1>4 DEF Offsets
<1>6. OnTape(at)
  BY <1>2, <1>4 DEF OnTape, Follows
<1>7. Handed
  BY DEF Init, Handed
<1> QED
  BY <1>1, <1>3, <1>4, <1>5, <1>6, <1>7 DEF Inv

\* Every step keeps the invariant, and is a step of FrameChannel or leaves its
\* variables alone.
LEMMA InvNext ==
    ASSUME Inv, Handed, [Next]_vars
    PROVE  Inv' /\ Handed' /\ [Channel!Send \/ Channel!Deliver]_<<side, written, got>>
<1>1. frame \in [Writers -> {<<>>} \union {Frame(m) : m \in Msgs}]
  BY DEF Inv, TypeOK
<1>2. ASSUME UNCHANGED <<written, netVars, readVars, side, cpc, view, got, stale>>,
             frame' \in [Writers -> {<<>>} \union {Frame(m) : m \in Msgs}]
      PROVE  Inv' /\ Handed' /\ UNCHANGED <<side, written, got>>
  <2>1. Taken' = Taken
    BY <1>2 DEF Taken
  <2> QED
    BY <1>2, <2>1, StillStep, HandedStep
<1>3. ASSUME NEW w \in Writers, NEW m \in Msgs, Marshal(w, m)
      PROVE  Inv' /\ Handed' /\ UNCHANGED <<side, written, got>>
  <2>1. frame' \in [Writers -> {<<>>} \union {Frame(mm) : mm \in Msgs}]
    BY <1>1, <1>3 DEF Marshal
  <2>2. UNCHANGED <<written, netVars, readVars, side, cpc, view, got, stale>>
    BY <1>3 DEF Marshal, useVars
  <2> QED
    BY <1>2, <2>1, <2>2
<1>4. ASSUME NEW w \in Writers, ConnWriteFails(w)
      PROVE  Inv' /\ Handed' /\ UNCHANGED <<side, written, got>>
  <2>1. frame' \in [Writers -> {<<>>} \union {Frame(mm) : mm \in Msgs}]
    BY <1>1, <1>4 DEF ConnWriteFails
  <2>2. UNCHANGED <<written, netVars, readVars, side, cpc, view, got, stale>>
    BY <1>4 DEF ConnWriteFails, useVars
  <2> QED
    BY <1>2, <2>1, <2>2
<1>5. CASE Cancel \/ UNCHANGED vars
  <2>1. UNCHANGED <<written, netVars, readVars, side, cpc, view, got, stale>> /\ frame' = frame
    BY <1>5 DEF Cancel, vars, writeVars, useVars
  <2> QED
    BY <1>1, <1>2, <2>1
<1>6. CASE ConsumerExits
  <2>1. /\ cpc = "select" /\ cpc' = "exited" /\ frame' = frame
        /\ UNCHANGED <<written, netVars, readVars, side, view, got, stale>>
    BY <1>6 DEF ConsumerExits, writeVars
  <2>2. Taken' = Taken
    BY <2>1 DEF Taken
  <2>3. Inv'
    BY <1>1, <2>1, <2>2, StillStep
  <2>4. Handed'
    BY <2>1 DEF Handed
  <2> QED
    BY <2>1, <2>3, <2>4
<1>7. ASSUME NEW w \in Writers, ConnWrite(w)
      PROVE  Inv' /\ Handed' /\ Channel!Send
  <2>1. UNCHANGED <<side, cpc, view, got, stale>>
    BY <1>7 DEF ConnWrite, useVars
  <2>2. Inv' /\ \E m \in Msgs : written' = Append(written, m)
    BY <1>7, ConnWriteStep
  <2>3. Handed'
    BY <2>1, <2>2, HandedStep
  <2> QED
    BY <2>1, <2>2, <2>3 DEF Channel!Send
<1>8. ASSUME ReadSome \/ PrefixDone \/ BodyDone \/ ReadFails \/ ConnBreaks
      PROVE  Inv' /\ Handed' /\ UNCHANGED <<side, written, got>>
  <2>1. UNCHANGED <<side, cpc, view, got, written>> /\ (stale' = stale \/ BodyDone)
    BY <1>8 DEF ReadSome, PrefixDone, BodyDone, ReadFails, ConnBreaks, writeVars, useVars
  <2>2. Inv'
    BY <1>8, ReadSomeStep, PrefixDoneStep, BodyDoneStep, ReadFailsStep, ConnBreaksStep
  <2> QED
    BY <2>1, <2>2, HandedStep
<1>9. CASE Consume
  <2>1. UNCHANGED <<side, written, got>>
    BY <1>9 DEF Consume, writeVars
  <2> QED
    BY <1>9, <2>1, ConsumeStep
<1>10. CASE Use
  BY <1>10, UseStep
<1> QED
  BY <1>3, <1>4, <1>5, <1>6, <1>7, <1>8, <1>9, <1>10 DEF Next

\* The types of the variables, the reader's place in the frames, and what the
\* consumer holds.
LEMMA InvHolds == Spec => [](Inv /\ Handed)
<1>1. Init => Inv /\ Handed
  BY InvInit
<1>2. Inv /\ Handed /\ [Next]_vars => Inv' /\ Handed'
  BY InvNext
<1> QED
  BY <1>1, <1>2, PTL DEF Spec

\* TcpFrames implements FrameChannel: for any writers, any messages whose length the
\* prefix holds and any buffer, however reads split the stream and wherever the
\* connection breaks, the consumer reads the messages one by one in the order of
\* writing: the server's handler exactly as they were written; the sender cut to
\* its buffer, and as long as no later message has been written
\* (tcp/sender.go:105-127, tcp/receiver.go:116-139).
THEOREM Refinement == Spec => ImplementsChannel
<1>1. Init => Channel!Init
  BY DEF Init, Channel!Init
<1>2. Inv /\ Handed /\ [Next]_vars
        => [Channel!Send \/ Channel!Deliver]_<<side, written, got>>
  BY InvNext
<1> QED
  BY <1>1, <1>2, InvHolds, PTL DEF Spec, ImplementsChannel, Channel!Spec

==============================================================================

---------------------------- MODULE ReceiveProofs ----------------------------
(***************************************************************************)
(* Proofs about the receiving program: Unwrapper, for any first numbers,   *)
(* any distances between packets and any number of packets, and            *)
(* ReceiveCommand, whose packet log unwraps the numbers that it prints,    *)
(* for any peers on any hosts and any number of packets.                   *)
(***************************************************************************)
EXTENDS Unwrapper, ReceiveCommand, TLAPS

-----------------------------------------------------------------------------
(* Unwrapper: the arithmetic of 16 bits.                                   *)

U16 == {n \in Nat : n < W}

\* The remainder modulo 2^16 is the number in 0..65535 at a multiple of 2^16.
LEMMA ModW ==
    ASSUME NEW a \in Int
    PROVE  /\ a % W \in U16
           /\ \E k \in Int : a = k * W + (a % W)
<1>1. a % 65536 \in U16
  BY DEF U16, W
<1>2. a \div 65536 \in Int /\ a = (a \div 65536) * 65536 + (a % 65536)
  OBVIOUS
<1> QED
  BY <1>1, <1>2 DEF W, U16

\* A number in 0..65535 at a multiple of 2^16 is the remainder.
LEMMA ModUnique ==
    ASSUME NEW a \in Int, NEW k \in Int, NEW r \in U16, a = k * W + r
    PROVE  a % W = r
BY DEF W, U16

\* What delta computes from the wrapped last number l and the distance d.
LEMMA DeltaCases ==
    ASSUME NEW last \in Nat, NEW i \in U16
    PROVE  \E l \in U16, d \in U16, k \in Int, m \in {0, 1} :
              /\ last = k * W + l
              /\ d = i - l + m * W
              /\ delta(last, i) =
                    IF IF d = Half THEN i > l ELSE i # l /\ d < Half
                    THEN d
                    ELSE IF d > 0 /\ last + d - W >= 0 THEN d - W ELSE d
<1> DEFINE l == last % W
           d == Sub16(i, l)
<1>1. l \in U16 /\ \E k \in Int : last = k * W + l
  BY ModW
<1>2. i - l \in Int
  BY <1>1 DEF U16
<1>3. d \in U16 /\ \E k \in Int : i - l = k * W + d
  BY <1>2, ModW DEF Sub16
<1> HIDE DEF l
<1>4. \E m \in {0, 1} : d = i - l + m * W
  <2> HIDE DEF d
  <2> QED
    BY <1>1, <1>3 DEF W, U16
<1>5. delta(last, i) = IF IF d = Half THEN i > l ELSE i # l /\ d < Half
                       THEN d
                       ELSE IF d > 0 /\ last + d - W >= 0 THEN d - W ELSE d
  <2>1. delta(last, i) = IF isNewer(i, l) THEN IF d < 0 THEN d + W ELSE d
                         ELSE IF d > 0 /\ last + d - W >= 0 THEN d - W ELSE d
    BY DEF delta, l
  <2>2. isNewer(i, l) <=> IF d = Half THEN i > l ELSE i # l /\ d < Half
    BY DEF isNewer
  <2> HIDE DEF d
  <2>3. ~(d < 0)
    BY <1>3 DEF U16
  <2> QED
    BY <2>1, <2>2, <2>3
<1> HIDE DEF d
<1> QED
  BY <1>1, <1>3, <1>4, <1>5

\* unwrap leads to a number with the low 16 bits i, which is not negative.
LEMMA DeltaLowBits ==
    ASSUME NEW last \in Nat, NEW i \in U16
    PROVE  /\ delta(last, i) \in Int
           /\ last + delta(last, i) >= 0
           /\ \E n \in Int : last + delta(last, i) = n * W + i
<1>1. PICK l \in U16, d \in U16, k \in Int, m \in {0, 1} :
              /\ last = k * W + l
              /\ d = i - l + m * W
              /\ delta(last, i) =
                    IF IF d = Half THEN i > l ELSE i # l /\ d < Half
                    THEN d
                    ELSE IF d > 0 /\ last + d - W >= 0 THEN d - W ELSE d
  BY DeltaCases
<1>2. \/ delta(last, i) = d
      \/ delta(last, i) = d - W /\ last + d - W >= 0
  BY <1>1
<1>3. /\ last + d = (k + m) * W + i
      /\ last + d - W = (k + m - 1) * W + i
  BY <1>1 DEF W, U16
<1>4. k + m \in Int /\ k + m - 1 \in Int /\ d \in Int
  BY <1>1 DEF U16
<1>5. CASE delta(last, i) = d
  <2>1. last + d >= 0
    BY <1>1 DEF U16
  <2> QED
    BY <1>3, <1>4, <1>5, <2>1
<1>6. CASE delta(last, i) = d - W /\ last + d - W >= 0
  <2>1. d - W \in Int /\ last + (d - W) = last + d - W
    BY <1>4 DEF W
  <2> QED
    BY <1>3, <1>4, <1>6, <2>1
<1> QED
  BY <1>2, <1>5, <1>6

\* Within half the number space, and not before number 0, unwrap finds the number
\* that is meant.
LEMMA DeltaExact ==
    ASSUME NEW last \in Nat, NEW j \in Int, j < Half, j > -Half, last + j >= 0
    PROVE  delta(last, (last + j) % W) = j
<1> DEFINE i == (last + j) % W
<1>1. i \in U16 /\ \E n \in Int : last + j = n * W + i
  BY ModW
<1> HIDE DEF i
<1>2. PICK n \in Int : last + j = n * W + i
  BY <1>1
<1>3. PICK l \in U16, d \in U16, k \in Int, m \in {0, 1} :
              /\ last = k * W + l
              /\ d = i - l + m * W
              /\ delta(last, i) =
                    IF IF d = Half THEN i > l ELSE i # l /\ d < Half
                    THEN d
                    ELSE IF d > 0 /\ last + d - W >= 0 THEN d - W ELSE d
  BY <1>1, DeltaCases
<1>4. d = j \/ d = j + W
  BY <1>1, <1>2, <1>3 DEF U16, W, Half
<1>5. CASE d = j
  <2>1. d < Half /\ d >= 0
    BY <1>3, <1>5 DEF U16
  <2>2. i = l => d = 0
    BY <1>1, <1>3, <2>1 DEF U16, W, Half
  <2> QED
    BY <1>3, <1>5, <2>1, <2>2 DEF i, Half
<1>6. CASE d = j + W
  <2>1. d > Half /\ d > 0 /\ last + d - W >= 0 /\ d - W = j
    BY <1>3, <1>6 DEF U16, W, Half
  <2> QED
    BY <1>3, <2>1 DEF i, Half
<1> QED
  BY <1>4, <1>5, <1>6

-----------------------------------------------------------------------------
(* The invariants.                                                         *)

\* Low bits, written with a multiple instead of a remainder.
LowInv == lastUnwrapped >= 0 /\ \E n \in Int : lastUnwrapped - true = n * W

Inv == TypeOK /\ LowInv /\ Recovers

\* The invariant holds before the first packet.
LEMMA InvInit == UnwrapInit => Inv
<1> SUFFICES ASSUME UnwrapInit PROVE Inv
  OBVIOUS
<1>1. lastUnwrapped = 0 /\ true = 0
  BY DEF UnwrapInit
<1>2. 0 - 0 = 0 * W
  BY DEF W
<1> QED
  BY <1>1, <1>2 DEF UnwrapInit, Inv, TypeOK, LowInv, Recovers

\* unwrap keeps the invariant, for the first packet and for every other.
LEMMA InvStep == Inv /\ [UnwrapNext]_unwrapVars => Inv'
<1> SUFFICES ASSUME Inv, [UnwrapNext]_unwrapVars PROVE Inv'
  OBVIOUS
<1>1. CASE UnwrapFirst
  <2>1. PICK i \in Firsts : lastUnwrapped' = i /\ true' = i
    BY <1>1 DEF UnwrapFirst
  <2>2. i \in Nat /\ i - i = 0 * W
    BY FirstsAre16Bit DEF W
  <2> QED
    BY <1>1, <2>1, <2>2 DEF UnwrapFirst, Inv, TypeOK, LowInv, Recovers
<1>2. ASSUME NEW j \in Jumps, Unwrap(j)
      PROVE  Inv'
  <2> DEFINE i == (true + j) % W
             u == lastUnwrapped + delta(lastUnwrapped, i)
  <2>1. lastUnwrapped \in Nat /\ true \in Int /\ j \in Int /\ true + j \in Int
    BY JumpsAreInts DEF Inv, TypeOK, LowInv
  <2>2. i \in U16 /\ \E n \in Int : true + j = n * W + i
    BY <2>1, ModW
  <2>3. /\ delta(lastUnwrapped, i) \in Int
        /\ u >= 0
        /\ \E n \in Int : u = n * W + i
    BY <2>1, <2>2, DeltaLowBits
  <2>4. ASSUME plausible, j < Half, j > -Half, true + j >= 0
        PROVE  u = true + j
    <3>1. lastUnwrapped = true
      BY <2>4 DEF Inv, Recovers
    <3>2. delta(lastUnwrapped, i) = j
      BY <2>1, <2>4, <3>1, DeltaExact
    <3> QED
      BY <3>1, <3>2
  <2>5. lastUnwrapped' = u /\ true' = true + j /\ seen' = seen + 1
    BY <1>2 DEF Unwrap
  <2>6. plausible' = (plausible /\ j < Half /\ j > -Half /\ true + j >= 0)
    BY <1>2 DEF Unwrap
  <2>7. Recovers'
    BY <2>4, <2>5, <2>6 DEF Recovers
  <2>8. u \in Int
    BY <2>1, <2>3
  <2> HIDE DEF u, i
  <2>9. LowInv'
    <3>1. PICK n \in Int : true + j = n * W + i
      BY <2>2
    <3>2. PICK p \in Int : u = p * W + i
      BY <2>3
    <3>3. p - n \in Int /\ u - (true + j) = (p - n) * W
      BY <2>2, <3>1, <3>2 DEF U16, W
    <3> QED
      BY <2>3, <2>5, <3>3 DEF LowInv
  <2>10. TypeOK'
    <3>1. plausible' \in BOOLEAN
      BY Zenon, <2>6
    <3>2. seen' \in Nat
      BY <2>5 DEF Inv, TypeOK
    <3> QED
      BY <2>1, <2>5, <2>8, <3>1, <3>2 DEF TypeOK
  <2> QED
    BY <2>7, <2>9, <2>10 DEF Inv
<1>3. CASE UNCHANGED unwrapVars
  BY <1>3 DEF unwrapVars, Inv, TypeOK, LowInv, Recovers
<1> QED
  BY <1>1, <1>2, <1>3 DEF UnwrapNext

\* The invariant holds in every behaviour.
LEMMA InvHolds == UnwrapSpec => []Inv
BY InvInit, InvStep, PTL DEF UnwrapSpec

\* unwrap returns the sender's extended number (Recovers) for every sequence of
\* arrivals whose consecutive distances stay below 2^15 and that never reach
\* back before number 0.
THEOREM RecoversHolds == UnwrapSpec => []Recovers
<1>1. Inv => Recovers
  BY DEF Inv
<1> QED
  BY <1>1, InvHolds, PTL

\* For every sequence of arrivals the extended number is not negative and keeps
\* the low 16 bits of the packet's sequence number (KeepsLowBits).
THEOREM KeepsLowBitsHolds == UnwrapSpec => []KeepsLowBits
<1>1. Inv => KeepsLowBits
  <2> SUFFICES ASSUME Inv PROVE KeepsLowBits
    OBVIOUS
  <2>1. PICK n \in Int : lastUnwrapped - true = n * W
    BY DEF Inv, LowInv
  <2>2. lastUnwrapped - true \in Int
    BY DEF Inv, TypeOK
  <2>3. 0 \in U16 /\ n * W = n * W + 0
    BY DEF U16, W
  <2>4. (lastUnwrapped - true) % W = 0
    BY <2>1, <2>2, <2>3, ModUnique
  <2> QED
    BY <2>4 DEF Inv, LowInv, KeepsLowBits
<1> QED
  BY <1>1, InvHolds, PTL

-----------------------------------------------------------------------------
(* ReceiveCommand: the inductive invariant.                                *)

\* A packet, with its sender and its number.
Packets == Peers \X Nat

\* The types of the variables.
CommandTypeOK ==
    /\ sent \in [Peers -> Nat] /\ got \in [Peers -> SUBSET Nat]
    /\ hpc \in [Peers -> {"none", "sink", "build", "bind", "idle", "play", "dump", "exited"}]
    /\ hand \in [Peers -> {<<>>} \union Packets] /\ dump \in [Peers -> {<<>>} \union Packets]
    /\ played \in [Peers -> Seq(Packets)]
    /\ offset \in [Peers -> Int] /\ file \in Seq({<<>>} \union Packets)

\* A handler opens the log before it is bound, and plays packets only after that.
Fresh(p) ==
    /\ IF hpc[p] \in {"none", "sink", "build"} THEN offset[p] = -1 ELSE offset[p] >= 0
    /\ hpc[p] \in {"none", "sink", "build", "bind"} => dump[p] = <<>> /\ played[p] = <<>>

\* The packet that a handler deals with was read from its own peer.
InHand(p) ==
    /\ hpc[p] \in {"none", "idle", "exited"} => hand[p] = <<>>
    /\ hpc[p] \in {"play", "dump"} => hand[p] # <<>>
    /\ hand[p] # <<>> => hand[p][1] = p /\ hand[p][2] \in got[p]

\* The order in which the transport lets packets a and b be read.
Before(a, b) == a # b /\ (transport = "tcp" => a < b)

\* Those that were read were sent, and over TCP they are the first of them.
Oldest(p) ==
    \A k \in got[p] : /\ k <= sent[p]
                      /\ \A n \in (1..sent[p]) \ got[p] : Before(k, n)

\* The packets that were played were read, in that order, before the one at hand.
Ordered(p) ==
    \A i \in 1..Len(played[p]) :
        /\ played[p][i][1] = p /\ played[p][i][2] \in got[p]
        /\ hpc[p] = "play" => Before(played[p][i][2], hand[p][2])
        /\ \A j \in 1..Len(played[p]) : i < j => Before(played[p][i][2], played[p][j][2])

\* p is the only peer whose handler has opened the log.
Solo(p) == \A q \in Peers : offset[q] >= 0 <=> q = p

\* Its packets are in the file, then with the log's goroutine, then with the reader.
Logged(p) ==
    Solo(p) => /\ offset[p] = Len(file)
               /\ Len(played[p]) = Len(file) + (IF dump[p] = <<>> THEN 0 ELSE 1)
                                             + (IF hpc[p] = "dump" THEN 1 ELSE 0)
               /\ \A i \in 1..Len(file) : file[i] = played[p][i]
               /\ dump[p] # <<>> => dump[p] = played[p][Len(file) + 1]
               /\ hpc[p] = "dump" => hand[p] = played[p][Len(played[p])]

\* The inductive invariant.
CommandInv ==
    /\ CommandTypeOK
    /\ \A p \in Peers : Fresh(p) /\ InHand(p) /\ Oldest(p) /\ Ordered(p) /\ Logged(p)

-----------------------------------------------------------------------------
(* ReceiveCommand: every action keeps the invariant.                       *)

\* The parts of CommandTypeOK, peer by peer.
LEMMA Typed ==
    ASSUME CommandTypeOK, NEW p \in Peers
    PROVE  /\ sent[p] \in Nat /\ got[p] \in SUBSET Nat /\ Len(file) \in Nat
           /\ hpc[p] \in {"none", "sink", "build", "bind", "idle", "play", "dump", "exited"}
           /\ hand[p] = <<>> \/ hand[p] \in Packets
           /\ dump[p] = <<>> \/ dump[p] \in Packets
           /\ played[p] \in Seq(Packets) /\ Len(played[p]) \in Nat
           /\ offset[p] \in Int
BY DEF CommandTypeOK

\* A packet is not NoPkt.
LEMMA PacketIsOne ==
    ASSUME NEW x \in Packets
    PROVE  x # <<>> /\ x[1] \in Peers /\ x[2] \in Nat
BY DEF Packets

\* A step that leaves the handlers and the log alone.
LEMMA StillStep ==
    ASSUME CommandInv, UNCHANGED <<transport, sent, got, hpc, hand, played, dump, offset, file>>
    PROVE  CommandInv'
<1>1. CommandTypeOK'
  BY DEF CommandInv, CommandTypeOK
<1>2. ASSUME NEW p \in Peers
      PROVE  (Fresh(p) /\ InHand(p) /\ Oldest(p) /\ Ordered(p) /\ Logged(p))'
  <2>1. (Fresh(p) /\ InHand(p) /\ Logged(p))'
    BY DEF CommandInv, Fresh, InHand, Logged, Solo
  <2>2. (Oldest(p) /\ Ordered(p))'
    BY DEF CommandInv, Oldest, Ordered, Before
  <2> QED
    BY <2>1, <2>2
<1> QED
  BY <1>1, <1>2 DEF CommandInv

\* A peer that a step leaves alone keeps its place.
LEMMA OtherStep ==
    ASSUME CommandInv, NEW q \in Peers,
           UNCHANGED transport, got'[q] = got[q], hpc'[q] = hpc[q], hand'[q] = hand[q],
           played'[q] = played[q], dump'[q] = dump[q], offset'[q] = offset[q]
    PROVE  (Fresh(q) /\ InHand(q) /\ Ordered(q))'
<1>1. Fresh(q) /\ InHand(q) /\ Ordered(q)
  BY DEF CommandInv
<1>2. Fresh(q)'
  BY <1>1 DEF Fresh
<1>3. InHand(q)'
  BY <1>1 DEF InHand
<1>4. Ordered(q)'
  BY <1>1 DEF Ordered, Before
<1> QED
  BY <1>2, <1>3, <1>4

\* What was read keeps its place before the rest when nothing more is.
LEMMA OldestStill ==
    ASSUME CommandInv, UNCHANGED <<transport, sent, got>>, NEW q \in Peers
    PROVE  Oldest(q)'
BY DEF CommandInv, Oldest, Before

\* It also keeps its log when nobody opens or writes the file.
LEMMA LogStep ==
    ASSUME CommandInv, NEW q \in Peers, UNCHANGED <<offset, file>>,
           played'[q] = played[q], dump'[q] = dump[q],
           hpc'[q] = "dump" <=> hpc[q] = "dump", hpc[q] = "dump" => hand'[q] = hand[q]
    PROVE  Logged(q)'
<1>1. Logged(q)
  BY DEF CommandInv
<1> QED
  BY <1>1 DEF Logged, Solo

\* A handler is created, gets its sink, is bound, or leaves.
LEMMA MoveStep ==
    ASSUME CommandInv, NEW p \in Peers,
           \/ hpc[p] = "none" /\ hpc' = [hpc EXCEPT ![p] = "sink"]
           \/ hpc[p] = "sink" /\ hpc' = [hpc EXCEPT ![p] = "build"]
           \/ hpc[p] = "bind" /\ hand[p] = <<>> /\ hpc' = [hpc EXCEPT ![p] = "idle"]
           \/ hpc[p] = "bind" /\ hand[p] # <<>> /\ hpc' = [hpc EXCEPT ![p] = "play"]
           \/ hpc[p] = "idle" /\ hpc' = [hpc EXCEPT ![p] = "exited"],
           UNCHANGED <<transport, sent, got, hand, played, dump, offset, file>>
    PROVE  CommandInv'
<1>1. CommandTypeOK'
  BY DEF CommandInv, CommandTypeOK
<1>2. /\ \/ hpc[p] = "none" /\ hpc'[p] = "sink"
         \/ hpc[p] = "sink" /\ hpc'[p] = "build"
         \/ hpc[p] = "bind" /\ hand[p] = <<>> /\ hpc'[p] = "idle"
         \/ hpc[p] = "bind" /\ hand[p] # <<>> /\ hpc'[p] = "play"
         \/ hpc[p] = "idle" /\ hpc'[p] = "exited"
      /\ \A q \in Peers : q # p => hpc'[q] = hpc[q]
  BY DEF CommandInv, CommandTypeOK
<1>3. ASSUME NEW q \in Peers
      PROVE  (Fresh(q) /\ InHand(q) /\ Ordered(q))'
  <2>1. CASE q # p
    BY <1>2, <2>1, OtherStep
  <2>2. CASE q = p
    <3>1. Fresh(p) /\ InHand(p) /\ Ordered(p)
      BY DEF CommandInv
    <3>2. Fresh(p)'
      BY <1>2, <3>1 DEF Fresh
    <3>3. InHand(p)'
      BY <1>2, <3>1 DEF InHand
    <3>4. Ordered(p)'
      <4>1. CASE hpc[p] = "bind"
        BY <3>1, <4>1 DEF Fresh, Ordered
      <4>2. CASE hpc[p] # "bind"
        BY <1>2, <3>1, <4>2 DEF Ordered, Before
      <4> QED
        BY <4>1, <4>2
    <3> QED
      BY <2>2, <3>2, <3>3, <3>4
  <2> QED
    BY <2>1, <2>2
<1>4. ASSUME NEW q \in Peers
      PROVE  Logged(q)'
  <2>1. hpc'[q] = "dump" <=> hpc[q] = "dump"
    BY <1>2
  <2> QED
    BY <2>1, LogStep
<1> QED
  BY <1>1, <1>3, <1>4, OldestStill DEF CommandInv

\* The handler of p is given a packet of p that can be read next.
LEMMA TakeStep ==
    ASSUME CommandInv, NEW p \in Peers, NEW n \in Arriving(p),
           \/ hpc[p] = "idle" /\ hpc' = [hpc EXCEPT ![p] = "play"]
           \/ hpc[p] = "none" /\ hpc' = [hpc EXCEPT ![p] = "sink"],
           got' = [got EXCEPT ![p] = @ \union {n}], hand' = [hand EXCEPT ![p] = <<p, n>>],
           UNCHANGED <<transport, sent, played, dump, offset, file>>
    PROVE  CommandInv'
<1>1. sent[p] \in Nat /\ got[p] \in SUBSET Nat
  BY Typed DEF CommandInv
<1>2. /\ n \in (1..sent[p]) \ got[p] /\ n \in Nat /\ n <= sent[p]
      /\ \A k \in (1..sent[p]) \ got[p] : k # n => Before(n, k)
  <2>1. n \in (1..sent[p]) \ got[p]
    BY DEF Arriving
  <2>2. transport = "tcp" => \A k \in (1..sent[p]) \ got[p] : n <= k
    BY DEF Arriving
  <2> QED
    BY <1>1, <2>1, <2>2 DEF Before
<1>3. <<p, n>> \in Packets /\ <<p, n>> # <<>>
  BY <1>2 DEF Packets
<1>4. CommandTypeOK'
  <2>1. got[p] \union {n} \in SUBSET Nat
    BY <1>1, <1>2
  <2> QED
    BY <1>3, <2>1 DEF CommandInv, CommandTypeOK
<1>5. /\ \/ hpc[p] = "idle" /\ hpc'[p] = "play"
         \/ hpc[p] = "none" /\ hpc'[p] = "sink"
      /\ hand'[p] = <<p, n>> /\ got'[p] = got[p] \union {n}
      /\ \A q \in Peers : q # p => hpc'[q] = hpc[q] /\ hand'[q] = hand[q] /\ got'[q] = got[q]
  BY DEF CommandInv, CommandTypeOK
<1>6. ASSUME NEW q \in Peers
      PROVE  (Fresh(q) /\ InHand(q) /\ Ordered(q))'
  <2>1. CASE q # p
    BY <1>5, <2>1, OtherStep
  <2>2. CASE q = p
    <3>1. Fresh(p) /\ InHand(p) /\ Oldest(p) /\ Ordered(p)
      BY DEF CommandInv
    <3>2. Fresh(p)'
      <4>1. CASE hpc[p] = "idle" /\ hpc'[p] = "play"
        BY <3>1, <4>1 DEF Fresh
      <4>2. CASE hpc[p] = "none" /\ hpc'[p] = "sink"
        BY <3>1, <4>2 DEF Fresh
      <4> QED
        BY <1>5, <4>1, <4>2
    <3>3. InHand(p)'
      <4>1. hpc'[p] \notin {"none", "idle", "exited"} /\ hand'[p] # <<>>
        BY <1>3, <1>5
      <4>2. hand'[p][1] = p /\ hand'[p][2] = n /\ n \in got'[p]
        BY <1>5
      <4> QED
        BY <4>1, <4>2 DEF InHand
    <3>4. Ordered(p)'
      <4>1. \A i \in 1..Len(played[p]) : Before(played[p][i][2], n)
        BY <1>2, <3>1 DEF Ordered, Oldest
      <4> QED
        BY <1>5, <3>1, <4>1 DEF Ordered, Before
    <3> QED
      BY <2>2, <3>2, <3>3, <3>4
  <2> QED
    BY <2>1, <2>2
<1>7. ASSUME NEW q \in Peers
      PROVE  Oldest(q)'
  <2>1. Oldest(q)
    BY DEF CommandInv
  <2>2. CASE q # p
    BY <1>5, <2>1, <2>2 DEF Oldest, Before
  <2>3. CASE q = p
    <3>1. \A k \in got[p] \union {n} :
              /\ k <= sent[p]
              /\ \A m \in (1..sent[p]) \ (got[p] \union {n}) : Before(k, m)
      BY <1>2, <2>1, <2>3 DEF Oldest
    <3> QED
      BY <1>5, <2>3, <3>1 DEF Oldest, Before
  <2> QED
    BY <2>2, <2>3
<1>8. ASSUME NEW q \in Peers
      PROVE  Logged(q)'
  <2>1. (hpc'[q] = "dump" <=> hpc[q] = "dump") /\ (hpc[q] = "dump" => hand'[q] = hand[q])
    BY <1>5
  <2> QED
    BY <2>1, LogStep
<1> QED
  BY <1>4, <1>6, <1>7, <1>8 DEF CommandInv

\* A packet that is sent comes after those that were read.
LEMMA SendStep ==
    ASSUME CommandInv, NEW p \in Peers, sent' = [sent EXCEPT ![p] = @ + 1],
           UNCHANGED <<transport, got, hpc, hand, played, dump, offset, file>>
    PROVE  CommandInv'
<1>1. sent[p] \in Nat /\ \A q \in Peers : got[q] \in SUBSET Nat
  BY Typed DEF CommandInv
<1>2. CommandTypeOK'
  BY <1>1 DEF CommandInv, CommandTypeOK
<1>3. sent'[p] = sent[p] + 1 /\ \A q \in Peers : q # p => sent'[q] = sent[q]
  BY DEF CommandInv, CommandTypeOK
<1>4. ASSUME NEW q \in Peers
      PROVE  (Fresh(q) /\ InHand(q) /\ Ordered(q))' /\ Logged(q)'
  BY OtherStep, LogStep
<1>5. ASSUME NEW q \in Peers
      PROVE  Oldest(q)'
  <2>1. Oldest(q)
    BY DEF CommandInv
  <2>2. CASE q # p
    BY <1>3, <2>1, <2>2 DEF Oldest, Before
  <2>3. CASE q = p
    <3>1. \A k \in got[p] : k \in Nat /\ k <= sent[p] /\ k <= sent[p] + 1
      BY <1>1, <2>1, <2>3 DEF Oldest
    <3>2. \A k \in got[p] : Before(k, sent[p] + 1)
      BY <1>1, <3>1 DEF Before
    <3>3. \A n \in (1..(sent[p] + 1)) \ got[p] : n \in (1..sent[p]) \ got[p] \/ n = sent[p] + 1
      BY <1>1
    <3>4. \A k \in got[p] : \A n \in (1..(sent[p] + 1)) \ got[p] : Before(k, n)
      BY <2>1, <2>3, <3>2, <3>3 DEF Oldest
    <3> QED
      BY <1>3, <2>3, <3>1, <3>4 DEF Oldest, Before
  <2> QED
    BY <2>2, <2>3
<1> QED
  BY <1>2, <1>4, <1>5 DEF CommandInv

\* A handler opens the log: it is the only one from then on, or nobody is.
LEMMA OpenStep ==
    ASSUME CommandInv, NEW p \in Peers, hpc[p] = "build", file' = <<>>,
           offset' = [offset EXCEPT ![p] = 0],
           hpc' = [hpc EXCEPT ![p] = "bind"],
           UNCHANGED <<transport, sent, got, hand, played, dump>>
    PROVE  CommandInv'
<1>1. CommandTypeOK'
  BY DEF CommandInv, CommandTypeOK
<1>2. /\ hpc'[p] = "bind" /\ offset'[p] = 0
      /\ \A q \in Peers : q # p => hpc'[q] = hpc[q] /\ offset'[q] = offset[q]
  BY DEF CommandInv, CommandTypeOK
<1>3. Fresh(p) /\ InHand(p) /\ dump[p] = <<>> /\ played[p] = <<>>
  BY DEF CommandInv, Fresh
<1>4. ASSUME NEW q \in Peers
      PROVE  (Fresh(q) /\ InHand(q) /\ Ordered(q))'
  <2>1. CASE q # p
    BY <1>2, <2>1, OtherStep
  <2>2. CASE q = p
    <3>1. Fresh(p)'
      BY <1>2, <1>3 DEF Fresh
    <3>2. InHand(p)'
      BY <1>2, <1>3 DEF InHand
    <3>3. Ordered(p)'
      BY <1>3 DEF Ordered, Before
    <3> QED
      BY <2>2, <3>1, <3>2, <3>3
  <2> QED
    BY <2>1, <2>2
<1>5. ASSUME NEW q \in Peers
      PROVE  Logged(q)'
  <2>1. CASE q # p
    <3>1. ~Solo(q)'
      BY <1>2, <2>1 DEF Solo
    <3> QED
      BY <3>1 DEF Logged
  <2>2. CASE q = p
    BY <1>2, <1>3, <2>2 DEF Logged
  <2> QED
    BY <2>1, <2>2
<1> QED
  BY <1>1, <1>4, <1>5, OldestStill DEF CommandInv

\* The sink takes the packet; it waits to be logged behind those before it.
LEMMA PlayStep ==
    ASSUME CommandInv, NEW p \in Peers, hpc[p] = "play",
           played' = [played EXCEPT ![p] = Append(@, hand[p])],
           hpc' = [hpc EXCEPT ![p] = "dump"],
           UNCHANGED <<transport, sent, got, hand, dump, offset, file>>
    PROVE  CommandInv'
<1>1. Fresh(p) /\ InHand(p) /\ Ordered(p) /\ Logged(p) /\ hand[p] # <<>>
  BY DEF CommandInv, InHand
<1>2. /\ hand[p] \in Packets /\ played[p] \in Seq(Packets) /\ Len(played[p]) \in Nat
      /\ Len(file) \in Nat
  BY <1>1, Typed DEF CommandInv
<1>3. CommandTypeOK'
  BY <1>2 DEF CommandInv, CommandTypeOK
<1>4. /\ hpc'[p] = "dump" /\ played'[p] = Append(played[p], hand[p])
      /\ \A q \in Peers : q # p => hpc'[q] = hpc[q] /\ played'[q] = played[q]
  BY DEF CommandInv, CommandTypeOK
<1> DEFINE n == Len(played[p])
<1>5. /\ Len(played'[p]) = n + 1 /\ played'[p][n + 1] = hand[p]
      /\ \A i \in 1..n : played'[p][i] = played[p][i]
      /\ \A i \in 1..(n + 1) : i \in 1..n \/ i = n + 1
  <2>1. /\ Len(Append(played[p], hand[p])) = n + 1 /\ Append(played[p], hand[p])[n + 1] = hand[p]
        /\ \A i \in 1..n : Append(played[p], hand[p])[i] = played[p][i]
    BY <1>2
  <2> QED
    BY <1>2, <1>4, <2>1
<1>6. ASSUME NEW q \in Peers
      PROVE  (Fresh(q) /\ InHand(q) /\ Ordered(q))'
  <2>1. CASE q # p
    BY <1>4, <2>1, OtherStep
  <2>2. CASE q = p
    <3>1. Fresh(p)'
      BY <1>1, <1>4 DEF Fresh
    <3>2. InHand(p)'
      BY <1>1, <1>4 DEF InHand
    <3>3. Ordered(p)'
      <4>1. \A i \in 1..n : /\ played[p][i][1] = p /\ played[p][i][2] \in got[p]
                            /\ Before(played[p][i][2], hand[p][2])
                            /\ \A j \in 1..n : i < j => Before(played[p][i][2], played[p][j][2])
        BY <1>1 DEF Ordered
      <4>2. hand[p][1] = p /\ hand[p][2] \in got[p]
        BY <1>1 DEF InHand
      <4>3. \A i \in 1..(n + 1) : played'[p][i][1] = p /\ played'[p][i][2] \in got[p]
        BY <1>5, <4>1, <4>2
      <4>4. ASSUME NEW i \in 1..(n + 1), NEW j \in 1..(n + 1), i < j
            PROVE  Before(played'[p][i][2], played'[p][j][2])
        <5>1. i \in 1..n
          BY <1>2, <4>4
        <5> QED
          BY <1>5, <4>1, <4>4, <5>1
      <4> QED
        BY <1>4, <1>5, <4>3, <4>4 DEF Ordered, Before
    <3> QED
      BY <2>2, <3>1, <3>2, <3>3
  <2> QED
    BY <2>1, <2>2
<1>7. ASSUME NEW q \in Peers
      PROVE  Logged(q)'
  <2>1. CASE q # p
    BY <1>4, <2>1, LogStep
  <2>2. CASE q = p
    <3> SUFFICES ASSUME Solo(p)'
                 PROVE  Logged(p)'
      BY <2>2 DEF Logged
    <3>1. Solo(p)
      BY DEF Solo
    <3>2. /\ offset[p] = Len(file) /\ n = Len(file) + (IF dump[p] = <<>> THEN 0 ELSE 1)
          /\ \A i \in 1..Len(file) : file[i] = played[p][i]
          /\ dump[p] # <<>> => dump[p] = played[p][Len(file) + 1]
      BY <1>1, <1>2, <3>1 DEF Logged
    <3>3. Len(played'[p]) = Len(file) + (IF dump[p] = <<>> THEN 0 ELSE 1) + 1
      BY <1>5, <3>2
    <3>4. \A i \in 1..Len(file) : i \in 1..n
      BY <1>2, <3>2
    <3>5. \A i \in 1..Len(file) : file[i] = played'[p][i]
      BY <1>5, <3>2, <3>4
    <3>6. dump[p] # <<>> => dump[p] = played'[p][Len(file) + 1]
      <4>1. dump[p] # <<>> => Len(file) + 1 \in 1..n
        BY <1>2, <3>2
      <4> QED
        BY <1>5, <3>2, <4>1
    <3> QED
      BY <1>4, <1>5, <3>2, <3>3, <3>5, <3>6 DEF Logged
  <2> QED
    BY <2>1, <2>2
<1> QED
  BY <1>3, <1>6, <1>7, OldestStill DEF CommandInv

\* The sink refuses the packet, which is dropped.
LEMMA SkipStep ==
    ASSUME CommandInv, NEW p \in Peers, hpc[p] = "play",
           hpc' = [hpc EXCEPT ![p] = "idle"], hand' = [hand EXCEPT ![p] = <<>>],
           UNCHANGED <<transport, sent, got, played, dump, offset, file>>
    PROVE  CommandInv'
<1>1. CommandTypeOK'
  BY DEF CommandInv, CommandTypeOK
<1>2. /\ hpc'[p] = "idle" /\ hand'[p] = <<>>
      /\ \A q \in Peers : q # p => hpc'[q] = hpc[q] /\ hand'[q] = hand[q]
  BY DEF CommandInv, CommandTypeOK
<1>3. ASSUME NEW q \in Peers
      PROVE  (Fresh(q) /\ InHand(q) /\ Ordered(q))'
  <2>1. CASE q # p
    BY <1>2, <2>1, OtherStep
  <2>2. CASE q = p
    <3>1. Fresh(p) /\ InHand(p) /\ Ordered(p)
      BY DEF CommandInv
    <3>2. Fresh(p)'
      BY <1>2, <3>1 DEF Fresh
    <3>3. InHand(p)'
      BY <1>2, <3>1 DEF InHand
    <3>4. Ordered(p)'
      BY <1>2, <3>1 DEF Ordered, Before
    <3> QED
      BY <2>2, <3>2, <3>3, <3>4
  <2> QED
    BY <2>1, <2>2
<1>4. ASSUME NEW q \in Peers
      PROVE  Logged(q)'
  <2>1. (hpc'[q] = "dump" <=> hpc[q] = "dump") /\ (hpc[q] = "dump" => hand'[q] = hand[q])
    BY <1>2
  <2> QED
    BY <2>1, LogStep
<1> QED
  BY <1>1, <1>3, <1>4, OldestStill DEF CommandInv

\* The log's goroutine takes the packet from the reader.
LEMMA DumpStep ==
    ASSUME CommandInv, NEW p \in Peers, hpc[p] = "dump", dump[p] = <<>>,
           dump' = [dump EXCEPT ![p] = hand[p]], hand' = [hand EXCEPT ![p] = <<>>],
           hpc' = [hpc EXCEPT ![p] = "idle"],
           UNCHANGED <<transport, sent, got, played, offset, file>>
    PROVE  CommandInv'
<1>1. CommandTypeOK'
  BY DEF CommandInv, CommandTypeOK
<1>2. /\ hpc'[p] = "idle" /\ hand'[p] = <<>> /\ dump'[p] = hand[p]
      /\ \A q \in Peers : q # p => hpc'[q] = hpc[q] /\ hand'[q] = hand[q] /\ dump'[q] = dump[q]
  BY DEF CommandInv, CommandTypeOK
<1>3. Fresh(p) /\ InHand(p) /\ Ordered(p) /\ Logged(p) /\ hand[p] # <<>>
  BY DEF CommandInv, InHand
<1>4. ASSUME NEW q \in Peers
      PROVE  (Fresh(q) /\ InHand(q) /\ Ordered(q))'
  <2>1. CASE q # p
    BY <1>2, <2>1, OtherStep
  <2>2. CASE q = p
    <3>1. Fresh(p)'
      BY <1>2, <1>3 DEF Fresh
    <3>2. InHand(p)'
      BY <1>2, <1>3 DEF InHand
    <3>3. Ordered(p)'
      BY <1>2, <1>3 DEF Ordered, Before
    <3> QED
      BY <2>2, <3>1, <3>2, <3>3
  <2> QED
    BY <2>1, <2>2
<1>5. ASSUME NEW q \in Peers
      PROVE  Logged(q)'
  <2>1. CASE q # p
    BY <1>2, <2>1, LogStep
  <2>2. CASE q = p
    <3> SUFFICES ASSUME Solo(p)'
                 PROVE  Logged(p)'
      BY <2>2 DEF Logged
    <3>1. Solo(p)
      BY DEF Solo
    <3>2. Len(file) \in Nat
      BY Typed DEF CommandInv
    <3>3. /\ offset[p] = Len(file) /\ Len(played[p]) = Len(file) + 1
          /\ \A i \in 1..Len(file) : file[i] = played[p][i]
          /\ hand[p] = played[p][Len(played[p])]
      BY <1>3, <3>1, <3>2 DEF Logged
    <3>4. Len(played[p]) = Len(file) + 1 + 0
      BY <3>2, <3>3
    <3> QED
      BY <1>2, <1>3, <3>2, <3>3, <3>4 DEF Logged
  <2> QED
    BY <2>1, <2>2
<1> QED
  BY <1>1, <1>4, <1>5, OldestStill DEF CommandInv

\* A function on 1..n is a sequence.
LEMMA ListOf ==
    ASSUME NEW S, NEW n \in Nat, NEW f \in [1..n -> S]
    PROVE  f \in Seq(S) /\ Len(f) = n
OBVIOUS

\* The larger of two lengths.
LEMMA MaxOfTwo ==
    ASSUME NEW a \in Int, NEW b \in Int
    PROVE  Max({a, b}) = IF a >= b THEN a ELSE b
<1> DEFINE m == IF a >= b THEN a ELSE b
<1>1. m \in {a, b} /\ \A y \in {a, b} : m >= y
  OBVIOUS
<1>2. \A x \in {a, b} : (\A y \in {a, b} : x >= y) => x = m
  BY <1>1
<1> QED
  BY <1>1, <1>2 DEF Max

\* A line is written behind those of the same peer, or somewhere in a file that
\* several peers have opened.
LEMMA WriteLineStep ==
    ASSUME CommandInv, NEW p \in Peers, dump[p] # <<>>,
           file' = [i \in 1..Max({Len(file), offset[p] + 1}) |->
                        IF i = offset[p] + 1 THEN dump[p]
                        ELSE IF i <= Len(file) THEN file[i] ELSE <<>>],
           offset' = [offset EXCEPT ![p] = @ + 1], dump' = [dump EXCEPT ![p] = <<>>],
           UNCHANGED <<transport, sent, got, hpc, hand, played>>
    PROVE  CommandInv'
<1>1. Fresh(p) /\ InHand(p) /\ Ordered(p) /\ Logged(p)
  BY DEF CommandInv
<1>2. offset[p] \in Int /\ offset[p] >= 0 /\ Len(file) \in Nat /\ dump[p] \in Packets
  BY <1>1, Typed DEF CommandInv, Fresh
<1> DEFINE M == Max({Len(file), offset[p] + 1})
<1>3. M = (IF Len(file) >= offset[p] + 1 THEN Len(file) ELSE offset[p] + 1) /\ M \in Nat
  <2>1. Len(file) \in Int /\ offset[p] + 1 \in Int
    BY <1>2
  <2>2. M = IF Len(file) >= offset[p] + 1 THEN Len(file) ELSE offset[p] + 1
    BY <2>1, MaxOfTwo
  <2> QED
    BY <1>2, <2>2
<1> HIDE DEF M
<1>4. file' = [i \in 1..M |-> IF i = offset[p] + 1 THEN dump[p]
                              ELSE IF i <= Len(file) THEN file[i] ELSE <<>>]
  BY DEF M
<1>5. \A i \in 1..M : (IF i = offset[p] + 1 THEN dump[p]
                       ELSE IF i <= Len(file) THEN file[i] ELSE <<>>) \in {<<>>} \union Packets
  <2>1. file \in Seq({<<>>} \union Packets)
    BY DEF CommandInv, CommandTypeOK
  <2>2. \A i \in 1..Len(file) : file[i] \in {<<>>} \union Packets
    BY <2>1
  <2>3. \A i \in 1..M : i <= Len(file) => i \in 1..Len(file)
    BY <1>2, <1>3
  <2> QED
    BY <1>2, <2>2, <2>3
<1>6. file' \in Seq({<<>>} \union Packets) /\ Len(file') = M
  <2>1. file' \in [1..M -> {<<>>} \union Packets]
    BY <1>4, <1>5
  <2> QED
    BY <1>3, <2>1, ListOf
<1>7. CommandTypeOK'
  BY <1>2, <1>6 DEF CommandInv, CommandTypeOK
<1>8. /\ offset'[p] = offset[p] + 1 /\ dump'[p] = <<>>
      /\ \A q \in Peers : q # p => offset'[q] = offset[q] /\ dump'[q] = dump[q]
  BY DEF CommandInv, CommandTypeOK
<1>9. ASSUME NEW q \in Peers
      PROVE  (Fresh(q) /\ InHand(q) /\ Ordered(q))'
  <2>1. CASE q # p
    BY <1>8, <2>1, OtherStep
  <2>2. CASE q = p
    <3>1. Fresh(p)'
      <4>1. hpc[p] \notin {"none", "sink", "build", "bind"}
        BY <1>1 DEF Fresh
      <4>2. offset'[p] >= 0
        BY <1>2, <1>8
      <4> QED
        BY <4>1, <4>2 DEF Fresh
    <3>2. InHand(p)'
      BY <1>1 DEF InHand
    <3>3. Ordered(p)'
      BY <1>1 DEF Ordered, Before
    <3> QED
      BY <2>2, <3>1, <3>2, <3>3
  <2> QED
    BY <2>1, <2>2
<1>10. ASSUME NEW q \in Peers, Solo(q)'
       PROVE  q = p
  <2>1. offset'[p] >= 0
    BY <1>2, <1>8
  <2> QED
    BY <1>10, <2>1 DEF Solo
<1>11. ASSUME Solo(p)'
       PROVE  Logged(p)'
  <2>1. Solo(p)
    <3>1. \A q \in Peers : q # p => ~(offset[q] >= 0)
      BY <1>8, <1>11 DEF Solo
    <3> QED
      BY <1>2, <3>1 DEF Solo
  <2>2. /\ offset[p] = Len(file)
        /\ Len(played[p]) = Len(file) + 1 + (IF hpc[p] = "dump" THEN 1 ELSE 0)
        /\ \A i \in 1..Len(file) : file[i] = played[p][i]
        /\ dump[p] = played[p][Len(file) + 1]
        /\ hpc[p] = "dump" => hand[p] = played[p][Len(played[p])]
    BY <1>1, <2>1 DEF Logged
  <2>3. M = Len(file) + 1
    BY <1>2, <1>3, <2>2
  <2>4. Len(file') = Len(file) + 1 /\ offset'[p] = Len(file')
    BY <1>6, <1>8, <2>2, <2>3
  <2>5. Len(played[p]) = Len(file') + 0 + (IF hpc[p] = "dump" THEN 1 ELSE 0)
    <3>1. Len(file) + 1 \in Nat /\ \A x \in Nat : x = x + 0
      BY <1>2
    <3> QED
      BY <2>2, <2>4, <3>1
  <2>6. \A i \in 1..Len(file') : file'[i] = played[p][i]
    <3> SUFFICES ASSUME NEW i \in 1..Len(file')
                 PROVE  file'[i] = played[p][i]
      OBVIOUS
    <3>1. i \in 1..M
      BY <1>6
    <3>2. CASE i = Len(file) + 1
      BY <1>4, <2>2, <3>1, <3>2
    <3>3. CASE i # Len(file) + 1
      <4>1. i \in 1..Len(file) /\ i <= Len(file) /\ i # offset[p] + 1
        BY <1>2, <2>2, <2>3, <3>1, <3>3
      <4>2. file'[i] = file[i]
        BY <1>4, <3>1, <4>1
      <4> QED
        BY <2>2, <4>1, <4>2
    <3> QED
      BY <3>2, <3>3
  <2> QED
    BY <1>8, <2>2, <2>4, <2>5, <2>6 DEF Logged
<1>12. ASSUME NEW q \in Peers
       PROVE  Logged(q)'
  BY <1>10, <1>11 DEF Logged
<1> QED
  BY <1>7, <1>9, <1>12, OldestStill DEF CommandInv

\* A packet read from the UDP socket goes to the handler of its own sender.
LEMMA OwnHandler ==
    ASSUME NEW p \in Peers
    PROVE  HandlerOf(p) = p
<1> DEFINE known == {q \in Peers : Key(q) = Key(p) /\ hpc[q] # "none"}
<1>1. known = {} \/ known = {p}
  BY DEF Key
<1>2. known = {p} => (CHOOSE q \in known : TRUE) = p
  OBVIOUS
<1> QED
  BY <1>1, <1>2 DEF HandlerOf

\* Every step of the command keeps the invariant.
LEMMA CommandStep == CommandInv /\ [Next]_vars => CommandInv'
<1> SUFFICES ASSUME CommandInv, [Next]_vars
             PROVE  CommandInv'
  OBVIOUS
<1> USE DEF startVars, peerVars, hndVars, logVars, NoPkt
<1>1. CASE Listen
  BY <1>1, StillStep DEF Listen
<1>2. CASE Cancel
  BY <1>2, StillStep DEF Cancel
<1>3. CASE CloseConn
  BY <1>3, StillStep DEF CloseConn
<1>4. CASE ReadFails
  BY <1>4, StillStep DEF ReadFails
<1>5. CASE AcceptFails
  BY <1>5, StillStep DEF AcceptFails
<1>6. CASE StartReturns
  BY <1>6, StillStep DEF StartReturns
<1>7. CASE UNCHANGED vars
  BY <1>7, StillStep DEF vars
<1>8. ASSUME NEW p \in Peers, PeerSends(p)
      PROVE  CommandInv'
  BY <1>8, SendStep DEF PeerSends
<1>9. ASSUME NEW p \in Peers, Panics(p)
      PROVE  CommandInv'
  BY <1>9, StillStep DEF Panics
<1>10. ASSUME NEW p \in Peers, Accept(p)
       PROVE  CommandInv'
  <2>1. /\ hpc[p] = "none" /\ hpc' = [hpc EXCEPT ![p] = "sink"]
        /\ UNCHANGED <<transport, sent, got, hand, played, dump, offset, file>>
    BY <1>10 DEF Accept
  <2> QED
    BY <2>1, MoveStep
<1>11. ASSUME NEW p \in Peers, NewSink(p)
       PROVE  CommandInv'
  BY <1>11, MoveStep DEF NewSink
<1>12. ASSUME NEW p \in Peers, HandlerExits(p)
       PROVE  CommandInv'
  BY <1>12, MoveStep DEF HandlerExits
<1>13. ASSUME NEW p \in Peers, Take(p)
       PROVE  CommandInv'
  <2>1. PICK n \in Arriving(p) : /\ got' = [got EXCEPT ![p] = @ \union {n}]
                                 /\ hand' = [hand EXCEPT ![p] = <<p, n>>]
    BY <1>13 DEF Take
  <2>2. /\ hpc[p] = "idle" /\ hpc' = [hpc EXCEPT ![p] = "play"]
        /\ UNCHANGED <<transport, sent, played, dump, offset, file>>
    BY <1>13 DEF Take
  <2> QED
    BY <2>1, <2>2, TakeStep
<1>14. ASSUME NEW p \in Peers, ReadFromUDP(p)
       PROVE  CommandInv'
  <2>1. PICK n \in Arriving(p) : /\ got' = [got EXCEPT ![p] = @ \union {n}]
                                 /\ hand' = [hand EXCEPT ![p] = <<p, n>>]
    BY <1>14, OwnHandler DEF ReadFromUDP
  <2>2. /\ hpc[p] \in {"none", "idle"}
        /\ hpc' = [hpc EXCEPT ![p] = IF @ = "none" THEN "sink" ELSE "play"]
        /\ UNCHANGED <<transport, sent, played, dump, offset, file>>
    BY <1>14, OwnHandler DEF ReadFromUDP
  <2>3. CASE hpc[p] = "none"
    <3>1. hpc' = [hpc EXCEPT ![p] = "sink"]
      BY <2>2, <2>3
    <3> QED
      BY <2>1, <2>2, <2>3, <3>1, TakeStep
  <2>4. CASE hpc[p] = "idle"
    <3>1. hpc' = [hpc EXCEPT ![p] = "play"]
      BY <2>2, <2>4
    <3> QED
      BY <2>1, <2>2, <2>4, <3>1, TakeStep
  <2> QED
    BY <2>2, <2>3, <2>4
<1>15. ASSUME NEW p \in Peers, RegisterReceiverPacketLog(p)
       PROVE  CommandInv'
  BY <1>15, OpenStep DEF RegisterReceiverPacketLog
<1>16. ASSUME NEW p \in Peers, BuildStream(p)
       PROVE  CommandInv'
  <2>1. /\ hpc[p] = "bind" /\ UNCHANGED <<transport, sent, got, hand, played, dump, offset, file>>
        /\ hpc' = [hpc EXCEPT ![p] = IF hand[p] = <<>> THEN "idle" ELSE "play"]
    BY <1>16 DEF BuildStream
  <2>2. CASE hand[p] = <<>>
    BY <2>1, <2>2, MoveStep
  <2>3. CASE hand[p] # <<>>
    BY <2>1, <2>3, MoveStep
  <2> QED
    BY <2>2, <2>3
<1>17. ASSUME NEW p \in Peers, Play(p)
       PROVE  CommandInv'
  <2>1. hpc[p] = "play" /\ UNCHANGED <<transport, sent, got, dump, offset, file>>
    BY <1>17 DEF Play
  <2>2. \/ /\ played' = [played EXCEPT ![p] = Append(@, hand[p])]
           /\ hpc' = [hpc EXCEPT ![p] = "dump"] /\ UNCHANGED hand
        \/ /\ hpc' = [hpc EXCEPT ![p] = "idle"]
           /\ hand' = [hand EXCEPT ![p] = <<>>] /\ UNCHANGED played
    BY <1>17 DEF Play
  <2> QED
    BY <2>1, <2>2, PlayStep, SkipStep
<1>18. ASSUME NEW p \in Peers, Dump(p)
       PROVE  CommandInv'
  BY <1>18, DumpStep DEF Dump
<1>19. ASSUME NEW p \in Peers, WriteLine(p)
       PROVE  CommandInv'
  <2>1. /\ dump[p] # <<>>
        /\ file' = [i \in 1..Max({Len(file), offset[p] + 1}) |->
                        IF i = offset[p] + 1 THEN dump[p]
                        ELSE IF i <= Len(file) THEN file[i] ELSE <<>>]
        /\ offset' = [offset EXCEPT ![p] = @ + 1] /\ dump' = [dump EXCEPT ![p] = <<>>]
        /\ UNCHANGED <<transport, sent, got, hpc, hand, played>>
    BY <1>19 DEF WriteLine
  <2> QED
    BY <2>1, WriteLineStep
<1> QED
  BY <1>1, <1>2, <1>3, <1>4, <1>5, <1>6, <1>7, <1>8, <1>9, <1>10, <1>11, <1>12, <1>13,
     <1>14, <1>15, <1>16, <1>17, <1>18, <1>19 DEF Next, Handler

\* The invariant of the command holds.
LEMMA CommandInvHolds == Spec => []CommandInv
<1>1. Init => CommandInv
  <2> SUFFICES ASSUME Init
               PROVE  CommandInv
    OBVIOUS
  <2> USE DEF Init, NoPkt
  <2>1. CommandTypeOK
    BY DEF CommandTypeOK
  <2>2. ASSUME NEW p \in Peers
        PROVE  Fresh(p) /\ InHand(p) /\ Oldest(p) /\ Ordered(p) /\ Logged(p)
    <3>1. /\ got[p] = {} /\ hpc[p] = "none" /\ hand[p] = <<>> /\ played[p] = <<>>
          /\ dump[p] = <<>> /\ offset[p] = -1
      OBVIOUS
    <3>2. ~Solo(p)
      BY <3>1 DEF Solo
    <3> QED
      BY <3>1, <3>2 DEF Fresh, InHand, Oldest, Ordered, Logged
  <2> QED
    BY <2>1, <2>2 DEF CommandInv
<1> QED
  BY <1>1, CommandStep, PTL DEF Spec

\* A sink plays the packets of its own peer only and none of them twice, and over TCP
\* in the order of sending (OwnSink; udp/receiver.go:67-79).
THEOREM SinksAreOwn == Spec => []OwnSink
<1>1. CommandInv => OwnSink
  <2> SUFFICES ASSUME CommandInv, NEW p \in Peers
               PROVE  /\ \A i \in DOMAIN played[p] : played[p][i][1] = p
                      /\ \A i, j \in DOMAIN played[p] :
                            i < j => /\ played[p][i] # played[p][j]
                                     /\ transport = "tcp" => played[p][i][2] < played[p][j][2]
    BY DEF OwnSink
  <2>1. DOMAIN played[p] = 1..Len(played[p])
    BY Typed DEF CommandInv
  <2>2. Ordered(p)
    BY DEF CommandInv
  <2> QED
    BY <2>1, <2>2 DEF Ordered, Before
<1> QED
  BY <1>1, CommandInvHolds, PTL

\* The log of a receiver with one peer is a beginning of what was played, and at
\* most two packets behind (LogKept; logging/logging.go:81-83).
THEOREM LogIsKept == Spec => []LogKept
<1>1. CommandInv => LogKept
  <2> SUFFICES ASSUME CommandInv, NEW p \in Peers, {q \in Peers : offset[q] >= 0} = {p}
               PROVE  /\ Len(played[p]) - Len(file) \in 0..2
                      /\ file = SubSeq(played[p], 1, Len(file))
    BY DEF LogKept
  <2>1. Solo(p) /\ Logged(p)
    BY DEF Solo, CommandInv
  <2>2. /\ Len(played[p]) = Len(file) + (IF dump[p] = <<>> THEN 0 ELSE 1)
                                      + (IF hpc[p] = "dump" THEN 1 ELSE 0)
        /\ \A i \in 1..Len(file) : file[i] = played[p][i]
    BY <2>1 DEF Logged
  <2>3. /\ played[p] \in Seq(Packets) /\ Len(played[p]) \in Nat
        /\ Len(file) \in Nat /\ file \in Seq({<<>>} \union Packets)
    BY Typed DEF CommandInv, CommandTypeOK
  <2>4. Len(played[p]) - Len(file) \in 0..2 /\ Len(file) <= Len(played[p])
    <3> DEFINE a == IF dump[p] = <<>> THEN 0 ELSE 1
               b == IF hpc[p] = "dump" THEN 1 ELSE 0
    <3>1. a \in 0..1 /\ b \in 0..1 /\ Len(played[p]) = Len(file) + a + b
      BY <2>2
    <3> HIDE DEF a, b
    <3> QED
      BY <2>3, <3>1
  <2> DEFINE s == SubSeq(played[p], 1, Len(file))
  <2>5. s \in Seq(Packets) /\ Len(s) = Len(file) /\ \A i \in 1..Len(file) : s[i] = played[p][i]
    BY <2>3, <2>4
  <2> HIDE DEF s
  <2>6. file = s
    BY <2>2, <2>3, <2>5
  <2> QED
    BY <2>4, <2>6 DEF s
<1> QED
  BY <1>1, CommandInvHolds, PTL
=============================================================================

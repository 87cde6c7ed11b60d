------------------------------ MODULE Unwrapper ------------------------------
(***************************************************************************)
(* rtp/unwrapper.go: RTP sequence numbers of 16 bits are extended to int64 *)
(* by comparing each one with the last one seen.                           *)
(*                                                                         *)
(* `true` is a history variable: the extended number that the sender of    *)
(* the packet meant.  `plausible` says that so far no packet was further   *)
(* than half the number space from the one before, and none was from       *)
(* before the start of the numbering.                                      *)
(***************************************************************************)
EXTENDS Integers

CONSTANTS
    Firsts,   \* sequence numbers of the first packet
    Jumps,    \* distances between packets that arrive one after the other
    MaxSeen   \* bound: packets that arrive

W    == 65536   \* maxSequenceNumberPlusOne
Half == 32768   \* breakpoint

ASSUME FirstsAre16Bit == \A i \in Firsts : i \in Nat /\ i < W
ASSUME JumpsAreInts   == Jumps \subseteq Int

VARIABLES
    seen,          \* packets unwrapped so far; the field init is seen > 0
    lastUnwrapped,
    true, plausible
unwrapVars == <<seen, lastUnwrapped, true, plausible>>

\* Subtraction of two uint16.
Sub16(a, b) == (a - b) % W

\* Mutant: a distance of exactly half the space is older, but so is less.
isNewer_OffByOne(value, previous) ==
    value # previous /\ Sub16(value, previous) < Half - 1

isNewer(value, previous) ==
    IF Sub16(value, previous) = Half
    THEN value > previous
    ELSE value # previous /\ Sub16(value, previous) < Half

\* Mutant: an older packet is always moved one cycle down.
delta_NoFloor(last, i) ==
    LET d == Sub16(i, last % W)
    IN  IF isNewer(i, last % W) THEN d ELSE IF d > 0 THEN d - W ELSE d

\* How far unwrap(i) moves from the last number.  The difference of two uint16
\* is never negative, so the first correction never applies.
delta(last, i) ==
    LET d == Sub16(i, last % W)
    IN  IF isNewer(i, last % W)
        THEN IF d < 0 THEN d + W ELSE d
        ELSE IF d > 0 /\ last + d - W >= 0 THEN d - W ELSE d

UnwrapInit == seen = 0 /\ lastUnwrapped = 0 /\ true = 0 /\ plausible = TRUE

\* unwrap of the first packet.
UnwrapFirst ==
    /\ seen = 0
    /\ \E i \in Firsts : lastUnwrapped' = i /\ true' = i
    /\ seen' = 1
    /\ UNCHANGED plausible

\* unwrap of a packet that is j numbers after (before) the previous one.
Unwrap(j) ==
    /\ seen > 0 /\ seen < MaxSeen
    /\ seen' = seen + 1
    /\ true' = true + j
    /\ lastUnwrapped' = lastUnwrapped + delta(lastUnwrapped, (true + j) % W)
    /\ plausible' = (plausible /\ j < Half /\ j > -Half /\ true + j >= 0)

UnwrapNext == UnwrapFirst \/ \E j \in Jumps : Unwrap(j)

UnwrapSpec == UnwrapInit /\ [][UnwrapNext]_unwrapVars
-----------------------------------------------------------------------------
\* The types of the unwrapper's fields.
TypeOK == /\ seen \in Nat /\ plausible \in BOOLEAN
          /\ lastUnwrapped \in Int /\ true \in Int

\* As long as loss and reordering stay within half the number space and never
\* reach back before the first cycle, unwrap returns the number that the sender
\* meant (lines 26-38).
Recovers == plausible => lastUnwrapped = true

\* Whatever arrives, the extended number is never negative and its low 16 bits
\* are the sequence number of the packet (lines 26-38).
KeepsLowBits == lastUnwrapped >= 0 /\ (lastUnwrapped - true) % W = 0
=============================================================================

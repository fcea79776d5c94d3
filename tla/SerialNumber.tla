---------------------------- MODULE SerialNumber ----------------------------
(***************************************************************************)
(* Transmission sequence numbers: the type Tsn of packet.rs, its wrapping  *)
(* successor and predecessor, and its comparison.  In the code TsnMod is   *)
(* 2^32 and WrapRad is u32::MAX / 128; the same text with 2^16 is the type *)
(* Sequence.                                                               *)
(***************************************************************************)
EXTENDS Integers

CONSTANTS TsnMod,   \* how many numbers there are before the counter wraps
          WrapRad   \* the distance from the wrap within which Ord compares across it

(* Between the two wrap zones there are at least as many other numbers. *)
ASSUME TsnAssumption ==
    /\ TsnMod \in Nat /\ WrapRad \in Nat
    /\ 0 < WrapRad /\ 3 * WrapRad <= TsnMod

Tsn == 0 .. TsnMod - 1

increase(t) == IF t = TsnMod - 1 THEN 0 ELSE t + 1
decrease(t) == IF t = 0 THEN TsnMod - 1 ELSE t - 1

(* u32 addition and subtraction as a release build performs them. *)
WrappingAdd(t, n) == (t + n) % TsnMod
WrappingSub(t, u) == (t - u) % TsnMod

WRAP_HI == TsnMod - 1 - WrapRad
WRAP_LO == WrapRad

(* Ord::cmp(a, b) = Less.  The two wrap tests come before the plain one.  *)
TsnLT(a, b) ==
    IF a < WRAP_LO /\ b > WRAP_HI THEN FALSE
    ELSE IF b < WRAP_LO /\ a > WRAP_HI THEN TRUE
    ELSE a < b

TsnGT(a, b) == TsnLT(b, a)
TsnLE(a, b) == ~ TsnGT(a, b)

-----------------------------------------------------------------------------
(* The number k steps after t, computed without a division. *)
Ahead(t, k) == IF t + k < TsnMod THEN t + k ELSE t + k - TsnMod

(***************************************************************************)
(* What the code relies on: numbers that are at most WrapRad apart compare *)
(* in the order in which they are assigned, also across the wrap.          *)
(***************************************************************************)
OrderedWithinRadius ==
    \A t \in Tsn, k \in 1 .. WrapRad :
        /\ TsnLT(t, Ahead(t, k))
        /\ TsnGT(Ahead(t, k), t)
        /\ ~ TsnLT(Ahead(t, k), t)
=============================================================================

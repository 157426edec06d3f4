---------------------------- MODULE VectorLanes ----------------------------
(***************************************************************************)
(* The tables of algorithms_amd.hpp.  A vector has W lanes; a comparison   *)
(* of all of them gives a mask, the set of lanes where it holds.           *)
(***************************************************************************)
EXTENDS Integers, FiniteSets, Sequences

CONSTANT W                  \* lanes of a vector: 4 or 8 in the code

ASSUME WAssumption == W \in Nat \ {0}

Lanes == 0 .. W - 1

\* The lanes of the mask in ascending order.
InOrder(mask) ==
    [b \in 1 .. Cardinality(mask) |->
        CHOOSE lane \in mask : Cardinality({x \in mask : x < lane}) = b - 1]

\* W bytes: those of s, and zeros.
Padded(s) == [b \in 1 .. W |-> IF b <= Len(s) THEN s[b] ELSE 0]

\* pos[mask]: the lanes of the mask in ascending order.
LutPos(mask) == Padded(InOrder(mask))

\* roff[mask]: the lanes of the mask counted from the end of the vector, so that
\* a lane's number is the distance from the vector's end: ascending as well.
LutROff(mask) == Padded(InOrder({W - lane : lane \in mask}))

\* A slip: the clear lanes are gathered to the front.
LutPerm_Clear(mask) == InOrder(Lanes \ mask) \o InOrder(mask)

\* v[mask]: the lanes of the mask gathered to the front, the others behind them.
LutPerm(mask) == InOrder(mask) \o InOrder(Lanes \ mask)
=============================================================================

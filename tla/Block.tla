------------------------------- MODULE Block -------------------------------
(***************************************************************************)
(* algo::block (BlockQuicksort).  [l, r) is the window not yet settled.    *)
(* Two buffers hold the positions of the misplaced elements of its first   *)
(* and of its last B cells; pairs are exchanged, and an end of the window  *)
(* moves by a whole block when its buffer has run empty.  A window of at   *)
(* most 2 * B cells is left to hoare, block partly done or not.            *)
(***************************************************************************)
EXTENDS PartitionCall

CONSTANT B

\* Assumed where the module is instantiated.
BAssumption == B \in Nat \ {0}

VARIABLES
    v,                      \* the array
    below,                  \* the elements x with comp(proj(x), pivot)
    first, last,            \* arguments of the call
    l, r,                   \* the window
    offL, numL, startL,     \* off_l, num_l, start_l
    offR, numR, startR,
    k,                      \* the counter of the fill and exchange loops
    ret,                    \* the returned boundary
    pc

args  == <<below, first, last>>
left  == <<offL, numL, startL>>
right == <<offR, numR, startR>>
vars  == <<v, args, l, r, left, right, k, ret, pc>>

Init ==
    /\ v = [p \in Pos |-> p]
    /\ below \in SUBSET Pos
    /\ first \in 0 .. N
    /\ last \in first .. N
    /\ l = first /\ r = last
    /\ offL = [s \in 0 .. B - 1 |-> 0] /\ numL = 0 /\ startL = 0
    /\ offR = [s \in 0 .. B - 1 |-> 0] /\ numR = 0 /\ startR = 0
    /\ k = 0
    /\ ret = first
    /\ pc = "loop"
-----------------------------------------------------------------------------
\* while (r - l > 2 * B) { if (num_l == 0) { start_l = 0; fill }
Wide == r - l > 2 * B

\* A slip: start_l is not reset.
RefillLeft_KeepsStart ==
    /\ pc = "loop"
    /\ Wide
    /\ numL = 0
    /\ k' = 0
    /\ pc' = "fillL"
    /\ UNCHANGED <<v, args, l, r, left, right, ret>>

RefillLeft ==
    /\ pc = "loop"
    /\ Wide
    /\ numL = 0
    /\ startL' = 0
    /\ k' = 0
    /\ pc' = "fillL"
    /\ UNCHANGED <<v, args, l, r, offL, numL, right, ret>>

\* off_l[num_l] = k; num_l += !below(l + k);
FillLeft ==
    /\ pc = "fillL"
    /\ k < B
    /\ offL' = [offL EXCEPT ![numL] = k]
    /\ numL' = IF v[l + k] \in below THEN numL ELSE numL + 1
    /\ k' = k + 1
    /\ UNCHANGED <<v, args, l, r, startL, right, ret, pc>>

LeftReady ==
    /\ \/ pc = "loop" /\ Wide /\ numL > 0
       \/ pc = "fillL" /\ k = B
    /\ pc' = "right"
    /\ UNCHANGED <<v, args, l, r, left, right, k, ret>>

\* if (num_r == 0) { start_r = 0; fill }
RefillRight ==
    /\ pc = "right"
    /\ numR = 0
    /\ startR' = 0
    /\ k' = 0
    /\ pc' = "fillR"
    /\ UNCHANGED <<v, args, l, r, left, offR, numR, ret>>

\* A slip: the position of the next cell is recorded.
FillRight_PostIncrement ==
    /\ pc = "fillR"
    /\ k < B
    /\ offR' = [offR EXCEPT ![numR] = k]
    /\ numR' = IF v[r - (k + 1)] \in below THEN numR + 1 ELSE numR
    /\ k' = k + 1
    /\ UNCHANGED <<v, args, l, r, left, startR, ret, pc>>

\* off_r[num_r] = k + 1; num_r += below(r - (k + 1));
FillRight ==
    /\ pc = "fillR"
    /\ k < B
    /\ offR' = [offR EXCEPT ![numR] = k + 1]
    /\ numR' = IF v[r - (k + 1)] \in below THEN numR + 1 ELSE numR
    /\ k' = k + 1
    /\ UNCHANGED <<v, args, l, r, left, startR, ret, pc>>

RightReady ==
    /\ \/ pc = "right" /\ numR > 0
       \/ pc = "fillR" /\ k = B
    /\ k' = 0
    /\ pc' = "swap"
    /\ UNCHANGED <<v, args, l, r, left, right, ret>>

Num == IF numL < numR THEN numL ELSE numR

CellL(s) == l + offL[startL + s]
CellR(s) == r - offR[startR + s]

\* iter_swap(l + off_l[start_l + k], r - off_r[start_r + k])
SwapPair ==
    /\ pc = "swap"
    /\ k < Num
    /\ v' = Swap(v, CellL(k), CellR(k))
    /\ k' = k + 1
    /\ UNCHANGED <<args, l, r, left, right, ret, pc>>

\* Slips: the window moves past a block that still has misplaced elements; it
\* does not move past an empty one.
Advance_Unfinished ==
    /\ pc = "swap"
    /\ k = Num
    /\ numL' = numL - Num /\ startL' = startL + Num
    /\ numR' = numR - Num /\ startR' = startR + Num
    /\ l' = l + B
    /\ r' = IF numR = Num THEN r - B ELSE r
    /\ pc' = "loop"
    /\ UNCHANGED <<v, args, offL, offR, k, ret>>

Advance_Stuck ==
    /\ pc = "swap"
    /\ k = Num
    /\ numL' = numL - Num /\ startL' = startL + Num
    /\ numR' = numR - Num /\ startR' = startR + Num
    /\ l' = IF numL = Num /\ numL > 0 THEN l + B ELSE l
    /\ r' = IF numR = Num /\ numR > 0 THEN r - B ELSE r
    /\ pc' = "loop"
    /\ UNCHANGED <<v, args, offL, offR, k, ret>>

\* num_l -= num; start_l += num; if (num_l == 0) l += B; and so on the right
Advance ==
    /\ pc = "swap"
    /\ k = Num
    /\ numL' = numL - Num /\ startL' = startL + Num
    /\ numR' = numR - Num /\ startR' = startR + Num
    /\ l' = IF numL = Num THEN l + B ELSE l
    /\ r' = IF numR = Num THEN r - B ELSE r
    /\ pc' = "loop"
    /\ UNCHANGED <<v, args, offL, offR, k, ret>>

\* return hoare{}(l, r, pivot, comp, proj);
FinishWindow ==
    /\ pc = "loop"
    /\ ~Wide
    /\ \E o \in PartitionOutcomes(v, below, l, r) :
          v' = o.array /\ ret' = o.boundary
    /\ pc' = "done"
    /\ UNCHANGED <<args, l, r, left, right, k>>

Next ==
    \/ RefillLeft \/ FillLeft \/ LeftReady \/ RefillRight \/ FillRight
    \/ RightReady \/ SwapPair \/ Advance \/ FinishWindow

Spec == Init /\ [][Next]_vars
-----------------------------------------------------------------------------
TypeOK ==
    /\ v \in [Pos -> Pos]
    /\ below \in SUBSET Pos
    /\ first \in 0 .. N
    /\ last \in first .. N
    /\ l \in first .. last
    /\ r \in l .. last
    /\ offL \in [0 .. B - 1 -> 0 .. B - 1]
    /\ offR \in [0 .. B - 1 -> 0 .. B]
    /\ numL \in 0 .. B /\ startL \in 0 .. B - numL
    /\ numR \in 0 .. B /\ startR \in 0 .. B - numR
    /\ k \in 0 .. B
    /\ ret \in first .. last
    /\ pc \in {"loop", "fillL", "right", "fillR", "swap", "done"}

\* "every element in [first, l) is below pivot and every element in [r, last)
\* is not" (algorithms.hpp:253-258), at every step and not only on exit.
Settled ==
    /\ AllIn(v, below, first, l)
    /\ NoneIn(v, below, r, last)

\* The positions left in a buffer, across rounds, are those of the elements of
\* its block that are still misplaced, and the two blocks do not overlap.
Exch == IF pc = "swap" THEN k ELSE 0

PendingL == {CellL(s) : s \in Exch .. numL - 1}
PendingR == {CellR(s) : s \in Exch .. numR - 1}

BufferedExactly ==
    /\ pc \in {"right", "fillR", "swap"} \/ (pc = "loop" /\ numL > 0) =>
          PendingL = {p \in l .. l + B - 1 : v[p] \notin below}
    /\ pc = "swap" \/ (pc \in {"loop", "fillL", "right"} /\ numR > 0) =>
          PendingR = {p \in r - B .. r - 1 : v[p] \in below}
    /\ pc = "loop" => numL = 0 \/ numR = 0
    /\ numL > 0 /\ numR > 0 => l + B <= r - B

\* "Any partially-consumed block lies entirely within [l, r)"
\* (algorithms.hpp:256-257), where hoare looks at it again.
PartialBlockInside ==
    numL + numR > 0 => r - l >= B

\* The invariant of the block loop: the parts above, at every step.
WindowInvariant == TypeOK /\ Settled /\ BufferedExactly /\ PartialBlockInside

\* The promise of concepts.hpp.
Contract == INSTANCE PartitionContract WITH
    goesLeft <- below,
    done     <- pc = "done"

Implements == Contract!Spec
=============================================================================

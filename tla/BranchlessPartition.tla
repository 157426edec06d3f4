------------------------ MODULE BranchlessPartition ------------------------
(***************************************************************************)
(* The branchless block partition behind boost_block and sized:            *)
(* algo::detail::branchless_partition (with and without the bound on its   *)
(* first scan), algo_rev's mirror image of it, the prefix-aware            *)
(* algo_off::branchless_partition_off, and branchless_partition_amd, which *)
(* fills a full block W elements at a time.                                *)
(*                                                                         *)
(* Two buffers hold the offsets of elements found on the wrong side of the *)
(* range, at most B on each side.  When one buffer is empty it is refilled *)
(* from the unknown middle [first, last); then as many pairs as both hold  *)
(* are exchanged.  When the middle is used up, one buffer may still hold   *)
(* offsets; its elements are drained to the boundary.                      *)
(*                                                                         *)
(* The vector fills compare with the key converted to the elements' type.  *)
(* Here it is of that type, so `below` is theirs too.                      *)
(***************************************************************************)
EXTENDS Ranges, FiniteSets, VectorLanes

CONSTANT B                 \* boost_block_size

ASSUME BAssumption == B \in Nat \ {0} /\ B % W = 0

Hole == -1                 \* the contents of a cell that was moved from

VARIABLES
    v,                     \* the array
    below,                 \* the elements x with comp(proj(x), pivot)
    form,                  \* which of the six functions was called
    begin, end,            \* the call's range is [begin, end)
    pfxEnd,                \* "off": nothing in [begin, pfxEnd) goes left
    first, last,           \* the middle not yet looked at
    offL, numL, startL,    \* offsets_l, num_l, start_l
    baseL,                 \* offsets_l_base
    offR, numR, startR,
    baseR,
    splitL, splitR,        \* elements to look at on each side this round
    i,                     \* the counter of the fill loops
    k,                     \* the pairs exchanged so far this round
    tmp,                   \* the temporary of the rotation
    pc                     \* the next statement

args  == <<below, form, begin, end, pfxEnd>>
left  == <<offL, numL, startL, baseL>>
right == <<offR, numR, startR, baseR>>
round == <<splitL, splitR, i, k, tmp>>
vars  == <<v, args, first, last, left, right, round, pc>>

Vectorised == {"simd", "simdUnguarded"}
Unguarded  == {"unguarded", "simdUnguarded"}

Forms == {"guarded", "rev", "off"} \cup Unguarded \cup Vectorised

\* `below` on the left scans, except in branchless_partition_rev
GoesLeft == IF form = "rev" THEN Pos \ below ELSE below

Lesser(a, b) == IF a < b THEN a ELSE b

Init ==
    /\ v = [p \in Pos |-> p]
    /\ below \in SUBSET Pos
    /\ form \in Forms
    /\ begin \in 0 .. N
    /\ end \in begin .. N
    /\ pfxEnd \in begin .. end
    /\ form # "off" => pfxEnd = begin
    /\ NoneIn(v, GoesLeft, begin, pfxEnd)
    \* the position form is only called with a pivot inside the range, and the
    \* pivot is not below itself
    /\ form \in Unguarded => \E p \in begin .. end - 1 : v[p] \notin GoesLeft
    /\ first = begin
    /\ last = end
    /\ offL = [s \in 0 .. B - 1 |-> 0] /\ numL = 0 /\ startL = 0 /\ baseL = begin
    /\ offR = [s \in 0 .. B - 1 |-> 0] /\ numR = 0 /\ startR = 0 /\ baseR = end
    /\ splitL = 0 /\ splitR = 0 /\ i = 0 /\ k = 0
    /\ tmp = Hole
    /\ pc = "scanL"
-----------------------------------------------------------------------------
(***************************************************************************)
(* The two scans that find the first pair.                                 *)
(***************************************************************************)
\* A slip: the bound is dropped from the value form too.
LeftScans_NoBound ==
    /\ form = "off" => begin = pfxEnd
    /\ first \in Pos
    /\ v[first] \in GoesLeft

\* while (first < last && below(first)) ++first;  without its bound in the
\* unguarded form, and not entered when there is a prefix
LeftScans ==
    /\ form = "off" => begin = pfxEnd
    /\ form \notin Unguarded => first < last
    /\ v[first] \in GoesLeft

SkipLeft ==
    /\ pc = "scanL"
    /\ LeftScans
    /\ first' = first + 1
    /\ UNCHANGED <<v, args, last, left, right, round, pc>>

LeftStops ==
    /\ pc = "scanL"
    /\ ~LeftScans
    /\ pc' = "scanR"
    /\ UNCHANGED <<v, args, first, last, left, right, round>>

\* while (!below(--last)), bounded by begin < last if nothing was skipped
RightScans == first = begin => begin < last

SkipRight ==
    /\ pc = "scanR"
    /\ RightScans
    /\ v[last - 1] \notin GoesLeft
    /\ last' = last - 1
    /\ UNCHANGED <<v, args, first, left, right, round, pc>>

RightStops ==
    /\ pc = "scanR"
    /\ \/ ~RightScans /\ last' = last
       \/ RightScans /\ v[last - 1] \in GoesLeft /\ last' = last - 1
    /\ pc' = "pair"
    /\ UNCHANGED <<v, args, first, left, right, round>>

\* the scans met: the input was already partitioned, return first
AlreadyPartitioned ==
    /\ pc = "pair"
    /\ first >= last
    /\ pc' = "done"
    /\ UNCHANGED <<v, args, first, last, left, right, round>>

\* iter_swap(first, last); ++first; and the buffers start empty
FirstPair ==
    /\ pc = "pair"
    /\ first < last
    /\ v' = Swap(v, first, last)
    /\ first' = first + 1
    /\ baseL' = first + 1
    /\ baseR' = last
    /\ pc' = "round"
    /\ UNCHANGED <<args, last, offL, numL, startL, offR, numR, startR, round>>
-----------------------------------------------------------------------------
(***************************************************************************)
(* while (first < last): fill the empty buffers ...                        *)
(***************************************************************************)
\* A slip: each side gets half of what is left, the odd element neither.
NewRound_HalfEach ==
    /\ pc = "round"
    /\ first < last
    /\ LET half == Lesser((last - first) \div 2, B)
       IN  /\ splitL' = IF numL = 0 THEN half ELSE 0
           /\ splitR' = IF numR = 0 THEN half ELSE 0
    /\ i' = 0
    /\ k' = 0
    /\ pc' = "fillL"
    /\ UNCHANGED <<v, args, first, last, left, right, tmp>>

\* left_split, right_split; a fill never exceeds a block
NewRound ==
    /\ pc = "round"
    /\ first < last
    /\ LET unknown == last - first
           l == CASE numL # 0              -> 0
                  [] numL = 0 /\ numR # 0  -> unknown
                  [] OTHER                 -> unknown \div 2
           r == IF numR = 0 THEN unknown - l ELSE 0
       IN  /\ splitL' = Lesser(l, B)
           /\ splitR' = Lesser(r, B)
    /\ i' = 0
    /\ k' = 0
    /\ pc' = "fillL"
    /\ UNCHANGED <<v, args, first, last, left, right, tmp>>

\* An element of the prefix is taken to be misplaced without a compare.
Misplaced == first < pfxEnd \/ v[first] \notin GoesLeft

\* A full block of an integer range is filled by vectors.
ByVector(split) == form \in Vectorised /\ split = B

\* offsets_l[num_l] = i++; num_l += !below(first); ++first;
FillLeft ==
    /\ pc = "fillL"
    /\ i < splitL
    /\ ~ByVector(splitL)
    /\ offL' = [offL EXCEPT ![numL] = i]
    /\ numL' = IF Misplaced THEN numL + 1 ELSE numL
    /\ first' = first + 1
    /\ i' = i + 1
    /\ UNCHANGED <<v, args, last, startL, baseL, right, splitL, splitR, k, tmp, pc>>

\* A slip: the bytes are those of the lanes below the pivot.
LeftMask_Below == {lane \in Lanes : v[first + lane] \in GoesLeft}

\* ge: the lanes that are not below.
LeftMask == {lane \in Lanes : v[first + lane] \notin GoesLeft}

\* memcpy of W bytes at num; those beyond the count are overwritten by the next.
Stored(off, num, bytes, add) ==
    [s \in DOMAIN off \cup num .. num + W - 1 |->
        IF s \in num .. num + W - 1 THEN bytes[s - num + 1] + add ELSE off[s]]

\* vfill_left: offsets_l + num_l receives pos[ge] + i; num_l += cnt[ge];
VectorFillLeft ==
    /\ pc = "fillL"
    /\ i < splitL
    /\ ByVector(splitL)
    /\ offL' = Stored(offL, numL, LutPos(LeftMask), i)
    /\ numL' = numL + Cardinality(LeftMask)
    /\ first' = first + W
    /\ i' = i + W
    /\ UNCHANGED <<v, args, last, startL, baseL, right, splitL, splitR, k, tmp, pc>>

LeftFilled ==
    /\ pc = "fillL"
    /\ i = splitL
    /\ i' = 0
    /\ pc' = "fillR"
    /\ UNCHANGED <<v, args, first, last, left, right, splitL, splitR, k, tmp>>

\* A slip: offsets_r[num_r] = i++, as on the left side.
FillRight_PostIncrement ==
    /\ pc = "fillR"
    /\ i < splitR
    /\ offR' = [offR EXCEPT ![numR] = i]
    /\ numR' = IF v[last - 1] \in GoesLeft THEN numR + 1 ELSE numR
    /\ last' = last - 1
    /\ i' = i + 1
    /\ UNCHANGED <<v, args, first, left, startR, baseR, splitL, splitR, k, tmp, pc>>

\* offsets_r[num_r] = ++i; num_r += below(--last);
FillRight ==
    /\ pc = "fillR"
    /\ i < splitR
    /\ ~ByVector(splitR)
    /\ offR' = [offR EXCEPT ![numR] = i + 1]
    /\ numR' = IF v[last - 1] \in GoesLeft THEN numR + 1 ELSE numR
    /\ last' = last - 1
    /\ i' = i + 1
    /\ UNCHANGED <<v, args, first, left, startR, baseR, splitL, splitR, k, tmp, pc>>

RightMask == {lane \in Lanes : v[last - W + lane] \in GoesLeft}

\* A slip: the table of the left side, whose offsets start at 0.
VectorFillRight_Pos ==
    /\ pc = "fillR"
    /\ i < splitR
    /\ ByVector(splitR)
    /\ offR' = Stored(offR, numR, LutPos(RightMask), i)
    /\ numR' = numR + Cardinality(RightMask)
    /\ last' = last - W
    /\ i' = i + W
    /\ UNCHANGED <<v, args, first, left, startR, baseR, splitL, splitR, k, tmp, pc>>

\* vfill_right: the vector that ends g elements before the block's end; lane b
\* has offset g + (W - b).
VectorFillRight ==
    /\ pc = "fillR"
    /\ i < splitR
    /\ ByVector(splitR)
    /\ offR' = Stored(offR, numR, LutROff(RightMask), i)
    /\ numR' = numR + Cardinality(RightMask)
    /\ last' = last - W
    /\ i' = i + W
    /\ UNCHANGED <<v, args, first, left, startR, baseR, splitL, splitR, k, tmp, pc>>

\* swap_offsets(..., num_l == num_r)
RightFilled ==
    /\ pc = "fillR"
    /\ i = splitR
    /\ pc' = IF numL = numR THEN "swap" ELSE "rotate"
    /\ UNCHANGED <<v, args, first, last, left, right, round>>
-----------------------------------------------------------------------------
(***************************************************************************)
(* ... and exchange the pairs: swap_offsets, then the bookkeeping.         *)
(***************************************************************************)
Num == Lesser(numL, numR)

CellL(s) == baseL + offL[startL + s]
CellR(s) == baseR - offR[startR + s]

\* use_swaps: iter_swap(first + offsets_l[i], last - offsets_r[i])
SwapPair ==
    /\ pc = "swap"
    /\ k < Num
    /\ v' = Swap(v, CellL(k), CellR(k))
    /\ k' = k + 1
    /\ UNCHANGED <<args, first, last, left, right, splitL, splitR, i, tmp, pc>>

\* otherwise a rotation: tmp = move(*l); *l = move(*r);
RotateOpen ==
    /\ pc = "rotate"
    /\ k = 0 /\ k < Num
    /\ tmp' = v[CellL(0)]
    /\ v' = [v EXCEPT ![CellL(0)] = v[CellR(0)], ![CellR(0)] = Hole]
    /\ k' = 1
    /\ UNCHANGED <<args, first, last, left, right, splitL, splitR, i, pc>>

\* A slip: r is advanced before *r = move(*l), so the vacant cell is never filled.
RotateStep_EarlyR ==
    /\ pc = "rotate"
    /\ 0 < k /\ k < Num
    /\ v' = [v EXCEPT ![CellR(k)] = Hole]
    /\ k' = k + 1
    /\ UNCHANGED <<args, first, last, left, right, splitL, splitR, i, tmp, pc>>

\* *r = move(*l); with the next l, *l = move(*r); with the next r
RotateStep ==
    /\ pc = "rotate"
    /\ 0 < k /\ k < Num
    /\ v' = [v EXCEPT ![CellR(k - 1)] = v[CellL(k)],
                      ![CellL(k)]     = v[CellR(k)],
                      ![CellR(k)]     = Hole]
    /\ k' = k + 1
    /\ UNCHANGED <<args, first, last, left, right, splitL, splitR, i, tmp, pc>>

\* *r = move(tmp);
RotateClose ==
    /\ pc = "rotate"
    /\ k = Num /\ k > 0
    /\ v' = [v EXCEPT ![CellR(k - 1)] = tmp]
    /\ tmp' = Hole
    /\ pc' = "consume"
    /\ UNCHANGED <<args, first, last, left, right, splitL, splitR, i, k>>

Exchanged ==
    /\ \/ pc = "swap" /\ k = Num
       \/ pc = "rotate" /\ Num = 0
    /\ pc' = "consume"
    /\ UNCHANGED <<v, args, first, last, left, right, round>>

\* Slips: an empty left buffer keeps its start, or its base.
Consume_KeepsStart ==
    /\ pc = "consume"
    /\ numL' = numL - Num
    /\ numR' = numR - Num
    /\ startL' = startL + Num
    /\ baseL' = IF numL = Num THEN first ELSE baseL
    /\ IF numR = Num THEN startR' = 0 /\ baseR' = last
                     ELSE startR' = startR + Num /\ baseR' = baseR
    /\ pc' = "round"
    /\ UNCHANGED <<v, args, first, last, offL, offR, round>>

Consume_KeepsBase ==
    /\ pc = "consume"
    /\ numL' = numL - Num
    /\ numR' = numR - Num
    /\ startL' = IF numL = Num THEN 0 ELSE startL + Num
    /\ IF numR = Num THEN startR' = 0 /\ baseR' = last
                     ELSE startR' = startR + Num /\ baseR' = baseR
    /\ pc' = "round"
    /\ UNCHANGED <<v, args, first, last, offL, offR, baseL, round>>

\* num_l -= num; start_l += num; if (num_l == 0) { start_l = 0; base = first; }
Consume ==
    /\ pc = "consume"
    /\ numL' = numL - Num
    /\ numR' = numR - Num
    /\ IF numL = Num THEN startL' = 0 /\ baseL' = first
                     ELSE startL' = startL + Num /\ baseL' = baseL
    /\ IF numR = Num THEN startR' = 0 /\ baseR' = last
                     ELSE startR' = startR + Num /\ baseR' = baseR
    /\ pc' = "round"
    /\ UNCHANGED <<v, args, first, last, offL, offR, round>>
-----------------------------------------------------------------------------
(***************************************************************************)
(* The middle is used up: drain what is left in a buffer.                  *)
(***************************************************************************)
RoundsEnd ==
    /\ pc = "round"
    /\ first >= last
    /\ pc' = "drainL"
    /\ UNCHANGED <<v, args, first, last, left, right, round>>

\* A slip: the buffer is drained from its first offset.
DrainLeft_Ascending ==
    /\ pc = "drainL"
    /\ numL > 0
    /\ v' = Swap(v, CellL(0), last - 1)
    /\ last' = last - 1
    /\ numL' = numL - 1
    /\ startL' = startL + 1
    /\ first' = IF numL = 1 THEN last - 1 ELSE first
    /\ UNCHANGED <<args, offL, baseL, right, round, pc>>

\* while (num_l--) iter_swap(base + offsets_l[num_l], --last);  first = last;
DrainLeft ==
    /\ pc = "drainL"
    /\ numL > 0
    /\ v' = Swap(v, CellL(numL - 1), last - 1)
    /\ last' = last - 1
    /\ numL' = numL - 1
    /\ first' = IF numL = 1 THEN last - 1 ELSE first
    /\ UNCHANGED <<args, offL, startL, baseL, right, round, pc>>

LeftDrained ==
    /\ pc = "drainL"
    /\ numL = 0
    /\ pc' = "drainR"
    /\ UNCHANGED <<v, args, first, last, left, right, round>>

\* while (num_r--) { iter_swap(base - offsets_r[num_r], first); ++first; }
\* last = first;
DrainRight ==
    /\ pc = "drainR"
    /\ numR > 0
    /\ v' = Swap(v, CellR(numR - 1), first)
    /\ first' = first + 1
    /\ numR' = numR - 1
    /\ last' = IF numR = 1 THEN first + 1 ELSE last
    /\ UNCHANGED <<args, left, offR, startR, baseR, round, pc>>

RightDrained ==
    /\ pc = "drainR"
    /\ numR = 0
    /\ pc' = "done"
    /\ UNCHANGED <<v, args, first, last, left, right, round>>

Terminating == pc = "done" /\ UNCHANGED vars
-----------------------------------------------------------------------------
Next ==
    \/ SkipLeft \/ LeftStops \/ SkipRight \/ RightStops
    \/ AlreadyPartitioned \/ FirstPair
    \/ NewRound
    \/ FillLeft \/ VectorFillLeft \/ LeftFilled
    \/ FillRight \/ VectorFillRight \/ RightFilled
    \/ SwapPair \/ RotateOpen \/ RotateStep \/ RotateClose \/ Exchanged
    \/ Consume \/ RoundsEnd
    \/ DrainLeft \/ LeftDrained \/ DrainRight \/ RightDrained
    \/ Terminating

Spec == Init /\ [][Next]_vars
-----------------------------------------------------------------------------
TypeOK ==
    /\ v \in [Pos -> Pos \cup {Hole}]
    /\ below \in SUBSET Pos
    /\ form \in Forms
    /\ begin \in 0 .. N
    /\ end \in begin .. N
    /\ pfxEnd \in begin .. end
    /\ first \in begin .. end
    /\ last \in begin .. end
    /\ offL \in [0 .. B - 1 -> 0 .. B - 1]
    /\ offR \in [0 .. B - 1 -> 0 .. B]
    /\ numL \in 0 .. B /\ startL \in 0 .. B - numL /\ baseL \in begin .. end
    /\ numR \in 0 .. B /\ startR \in 0 .. B - numR /\ baseR \in begin .. end
    /\ splitL \in 0 .. B /\ splitR \in 0 .. B
    /\ i \in 0 .. B
    /\ k \in 0 .. B
    /\ tmp \in Pos \cup {Hole}
    /\ pc \in {"scanL", "scanR", "pair", "round", "fillL", "fillR", "swap",
               "rotate", "consume", "drainL", "drainR", "done"}

Filling    == pc \in {"round", "fillL", "fillR"}
Exchanging == pc \in {"swap", "rotate", "consume"}
Rotating   == pc = "rotate" /\ k > 0

\* The array with the lifted element put back into the vacant cell.
Restored == IF Rotating THEN [v EXCEPT ![CellR(k - 1)] = tmp] ELSE v

\* The rotation never overwrites an element that is in no other cell, and
\* nothing is left moved-from when it ends.
OneGap ==
    /\ IsArrangement(Restored)
    /\ Rotating => v[CellR(k - 1)] = Hole /\ tmp # Hole

\* Neither opening scan leaves the range: the unguarded left scan is stopped by
\* the pivot (algorithms.hpp:290-293), the unbounded right scan by an element
\* the left scan skipped.
ScansInside ==
    /\ pc \in {"scanL", "scanR"} => first <= last
    /\ pc = "scanL" /\ form \in Unguarded => first < last
    /\ pc = "scanR" /\ first > begin => AllIn(v, GoesLeft, begin, first) /\ last > begin

\* The cells whose offsets are still in the buffers.
Exch == IF Exchanging THEN k ELSE 0

PendingL == {CellL(s) : s \in Exch .. numL - 1}
PendingR == {CellR(s) : s \in Exch .. numR - 1}

\* Offsets ascend, so that pairs never collide and a drain, which starts with
\* the last one, never moves an element a pending offset still points to
\* (algorithms_amd.hpp requires it of the vectorised fills).
Ascending ==
    pc \notin {"scanL", "scanR", "pair", "done"} =>
        /\ \A s \in 1 .. numL - 1 : CellL(s - 1) < CellL(s)
        /\ \A s \in 1 .. numR - 1 : CellR(s) < CellR(s - 1)
        /\ Filling \/ Exchanging =>
              /\ \A s \in 0 .. numL - 1 : CellL(s) < first
              /\ \A s \in 0 .. numR - 1 : CellR(s) >= last

\* Outside the middle, the elements on the wrong side are exactly those whose
\* offsets are pending; between rounds only one side has any.
Buffers ==
    /\ Filling \/ Exchanging =>
          /\ first <= last
          /\ \A p \in begin .. first - 1 :
                Restored[p] \in GoesLeft <=> p \notin PendingL
          /\ \A p \in last .. end - 1 :
                Restored[p] \in GoesLeft <=> p \in PendingR
    /\ pc \in {"round", "drainL", "drainR"} => numL = 0 \/ numR = 0
    /\ pc = "drainL" =>
          /\ \A p \in begin .. last - 1 : v[p] \in GoesLeft <=> p \notin PendingL
          /\ \A p \in last .. end - 1 : v[p] \in GoesLeft <=> p \in PendingR
    /\ pc = "drainR" =>
          /\ first = last \/ numR > 0
          /\ \A p \in begin .. first - 1 : v[p] \in GoesLeft
          /\ \A p \in first .. end - 1 : v[p] \in GoesLeft <=> p \in PendingR

\* The invariant of the scans and of the block loop: the parts above, at every
\* step of a call.
BlockInvariant == TypeOK /\ ScansInside /\ OneGap /\ Ascending /\ Buffers

\* The promise of concepts.hpp.
Contract == INSTANCE PartitionContract WITH
    v        <- Restored,
    goesLeft <- GoesLeft,
    first    <- begin,
    last     <- end,
    done     <- pc = "done",
    ret      <- IF pc = "done" THEN first ELSE begin

Implements == Contract!Spec

\* Every call returns: each round looks at part of the middle.
Termination == <>(pc = "done")
=============================================================================

------------------------------ MODULE SlotFill ------------------------------
(***************************************************************************)
(* The slot machinery of the offset and the cyclic partitions              *)
(* (prefix_fill_off, part_swap_off; cyclic::cross_fill2, cyclic::bridge).  *)
(*                                                                         *)
(* Some cells hold elements known not to go left: they are slots, in up to *)
(* two contiguous runs [lo, loEnd) and then [r2lo, r2end).  The suffix     *)
(* [sfirst, slast) follows them in the order of the range, though not      *)
(* necessarily in memory.  Whole blocks of B elements are looked at from   *)
(* the suffix's end and the elements that go left are rotated into the     *)
(* next slots; what is left of the suffix is partitioned by the flat       *)
(* partition (one step, any outcome of its contract) and exchanged with    *)
(* the slots that are left.  The flat kernels have one run of slots, and   *)
(* the kernels that only bridge look at no block.                          *)
(* The key is of the elements' type, so a vector fill compares alike.      *)
(***************************************************************************)
EXTENDS PartitionCall

CONSTANT B

ASSUME BAssumption == B \in Nat \ {0}

Hole == -1                  \* the contents of a cell that was moved from

VARIABLES
    v,                      \* the array
    below,                  \* the elements x with comp(proj(x), key)
    lo, loEnd,              \* the current run of slots
    r2lo, r2end,            \* the second run, until it becomes the current one
    sfirst, slast,          \* the suffix not yet looked at
    fused,                  \* blocks are taken from it
    slotsRem,               \* slots_rem
    found,                  \* elements moved into slots so far
    offR, numR,             \* offsets_r, num_r
    run,                    \* the call of fill_slots for the block, 1 or 2
    at, cnt,                \* its first offset and their number
    k,                      \* the counter of the scan and of the rotation
    tmp,                    \* the lifted element
    m,                      \* the boundary that the flat partition returned
    pc

slots    == <<lo, loEnd, r2lo, r2end>>
tally    == <<slotsRem, found>>
buf      == <<offR, numR>>
piece    == <<run, at, cnt>>
fillVars == <<slots, tally, buf, piece, sfirst, slast, fused, k, m>>

Least(a, b) == IF a <= b THEN a ELSE b

\* What cross_fill2 sets up: an empty first run is skipped.
SlotsFrom(r1lo, r1end, r2b, r2e) ==
    IF r1lo = r1end THEN [lo |-> r2b, loEnd |-> r2e, r2lo |-> r2e, r2end |-> r2e]
    ELSE [lo |-> r1lo, loEnd |-> r1end, r2lo |-> r2b, r2end |-> r2e]

\* The state in which the machine is entered with the slots s and the suffix
\* [a, b).
Enter(s, a, b, phase1) ==
    /\ lo' = s.lo /\ loEnd' = s.loEnd /\ r2lo' = s.r2lo /\ r2end' = s.r2end
    /\ slotsRem' = (s.loEnd - s.lo) + (s.r2end - s.r2lo)
    /\ sfirst' = a
    /\ slast' = b
    /\ fused' = phase1
    /\ pc' = "loop"
    /\ UNCHANGED <<found, buf, piece, k, m>>

Idle ==
    /\ lo = 0 /\ loEnd = 0 /\ r2lo = 0 /\ r2end = 0
    /\ sfirst = 0 /\ slast = 0 /\ fused = FALSE
    /\ slotsRem = 0 /\ found = 0
    /\ offR = [s \in 0 .. B - 1 |-> 0] /\ numR = 0
    /\ run = 1 /\ at = 0 /\ cnt = 0
    /\ k = 0 /\ m = 0
-----------------------------------------------------------------------------
\* while (slots_rem >= B && slast - sfirst >= B)
WholeBlock ==
    /\ fused
    /\ slotsRem >= B
    /\ slast - sfirst >= B

StartBlock ==
    /\ pc = "loop"
    /\ WholeBlock
    /\ numR' = 0
    /\ k' = 0
    /\ run' = 1
    /\ pc' = "scan"
    /\ UNCHANGED <<v, below, slots, tally, offR, at, cnt, sfirst, slast, fused, tmp, m>>

\* offsets_r[num_r] = ++i; num_r += below(--slast);
Scan ==
    /\ pc = "scan"
    /\ k < B
    /\ slast' = slast - 1
    /\ k' = k + 1
    /\ offR' = [offR EXCEPT ![numR] = k + 1]
    /\ numR' = IF v[slast - 1] \in below THEN numR + 1 ELSE numR
    /\ UNCHANGED <<v, below, slots, tally, piece, sfirst, fused, tmp, m, pc>>

\* The cell of the s-th offset: slast + B is where the block ended.
CellR(s) == slast + B - offR[s]

\* fill_slots(lo, slast + B, offsets_r + a, c): if (num == 0) return; otherwise
\* tmp = move(*lo); *lo = move(*r);
FillSlots(a, c) ==
    /\ at' = a
    /\ cnt' = c
    /\ k' = 1
    /\ IF c = 0
       THEN pc' = "filled" /\ UNCHANGED <<v, tmp>>
       ELSE /\ tmp' = v[lo]
            /\ v' = [v EXCEPT ![lo] = v[CellR(a)], ![CellR(a)] = Hole]
            /\ pc' = "rotate"

\* A slip: one too many goes into the current run.
FirstRun_RoomOffByOne ==
    /\ pc = "scan"
    /\ k = B
    /\ FillSlots(0, Least(numR, loEnd - lo + 1))
    /\ UNCHANGED <<below, slots, tally, buf, run, sfirst, slast, fused, m>>

\* k1 = min(rem, run1_room): as many as the current run has room for
FirstRun ==
    /\ pc = "scan"
    /\ k = B
    /\ FillSlots(0, Least(numR, loEnd - lo))
    /\ UNCHANGED <<below, slots, tally, buf, run, sfirst, slast, fused, m>>

\* A slip: the cell just emptied stays the target (r is not advanced).
RotateStep_SameCell ==
    /\ pc = "rotate"
    /\ k < cnt
    /\ v' = [v EXCEPT ![CellR(at)] = v[lo + k], ![lo + k] = v[CellR(at + k)],
                      ![CellR(at + k)] = Hole]
    /\ k' = k + 1
    /\ UNCHANGED <<below, slots, tally, buf, piece, sfirst, slast, fused, tmp, m, pc>>

\* *r = move(lo[i]); r2 = r_base - offsets_r[i]; lo[i] = move(*r2); r = r2;
RotateStep ==
    /\ pc = "rotate"
    /\ k < cnt
    /\ v' = [v EXCEPT ![CellR(at + k - 1)] = v[lo + k], ![lo + k] = v[CellR(at + k)],
                      ![CellR(at + k)] = Hole]
    /\ k' = k + 1
    /\ UNCHANGED <<below, slots, tally, buf, piece, sfirst, slast, fused, tmp, m, pc>>

\* *r = move(tmp);
RotateClose ==
    /\ pc = "rotate"
    /\ k = cnt
    /\ v' = [v EXCEPT ![CellR(at + k - 1)] = tmp]
    /\ tmp' = Hole
    /\ pc' = "filled"
    /\ UNCHANGED <<below, slots, tally, buf, piece, sfirst, slast, fused, k, m>>
-----------------------------------------------------------------------------
\* A slip: the second run is never taken up.
RunDone_NoSwitch ==
    /\ pc = "filled"
    /\ run = 1
    /\ lo' = lo + cnt
    /\ run' = 2
    /\ pc' = "second"
    /\ UNCHANGED <<v, below, loEnd, r2lo, r2end, tally, buf, at, cnt, sfirst, slast,
                   fused, k, tmp, m>>

\* lo += k1; if (lo == lo_end) { lo = r2lo; lo_end = r2end; r2lo = r2end; }
RunDone ==
    /\ pc = "filled"
    /\ run = 1
    /\ IF lo + cnt = loEnd
       THEN lo' = r2lo /\ loEnd' = r2end /\ r2lo' = r2end
       ELSE lo' = lo + cnt /\ UNCHANGED <<loEnd, r2lo>>
    /\ run' = 2
    /\ pc' = "second"
    /\ UNCHANGED <<v, below, r2end, tally, buf, at, cnt, sfirst, slast, fused, k, tmp, m>>

\* A slip: the offsets of the second call start from the first one again.
SecondRun_FromFirst ==
    /\ pc = "second"
    /\ cnt < numR
    /\ FillSlots(0, numR - cnt)
    /\ UNCHANGED <<below, slots, tally, buf, run, sfirst, slast, fused, m>>

\* if (k1 < rem) fill_slots(lo, slast + B, offsets_r + k1, rem - k1);
SecondRun ==
    /\ pc = "second"
    /\ cnt < numR
    /\ FillSlots(cnt, numR - cnt)
    /\ UNCHANGED <<below, slots, tally, buf, run, sfirst, slast, fused, m>>

\* slots_rem -= rem; found += rem;
Tally ==
    /\ slotsRem' = slotsRem - numR
    /\ found' = found + numR
    /\ pc' = "loop"
    /\ UNCHANGED <<v, below, loEnd, r2lo, r2end, buf, piece, sfirst, fused, k, tmp, m>>

\* A slip: a block in which nothing was found is given back.
BlockDone_GivenBack ==
    /\ pc = "second"
    /\ cnt = numR
    /\ slast' = IF numR = 0 THEN slast + B ELSE slast
    /\ UNCHANGED lo
    /\ Tally

BlockDone ==
    /\ pc = "second"
    /\ cnt = numR
    /\ UNCHANGED <<lo, slast>>
    /\ Tally

\* lo += rem - k1; the block is done
StraddleDone ==
    /\ pc = "filled"
    /\ run = 2
    /\ lo' = lo + cnt
    /\ UNCHANGED slast
    /\ Tally
-----------------------------------------------------------------------------
\* m = sized_partition(sfirst, slast, key, comp, proj);
PartitionRest ==
    /\ pc = "loop"
    /\ ~WholeBlock
    /\ \E o \in PartitionOutcomes(v, below, sfirst, slast) :
          v' = o.array /\ m' = o.boundary
    /\ pc' = "bridge"
    /\ UNCHANGED <<below, slots, tally, buf, piece, sfirst, slast, fused, k, tmp>>

\* std::swap_ranges(x, x + n, y) on runs of w that do not overlap
SwapRanges(w, x, y, n) ==
    [p \in Pos |-> IF p \in x .. x + n - 1 THEN w[y + (p - x)]
                   ELSE IF p \in y .. y + n - 1 THEN w[x + (p - y)]
                   ELSE w[p]]

\* Slips: the last slots of the current run are filled; the slots are
\* exchanged with the first elements of the run.
Joined_LastSlots ==
    LET s1 == loEnd - lo
        s2 == r2end - r2lo
        c  == m - sfirst
    IN  IF c <= s1 + s2
        THEN LET k1 == Least(c, s1)
             IN  SwapRanges(SwapRanges(v, sfirst, loEnd - k1, k1), sfirst + k1, r2lo, c - k1)
        ELSE SwapRanges(SwapRanges(v, lo, m - (s1 + s2), s1), r2lo, m - s2, s2)

Joined_FrontOfRun ==
    LET s1 == loEnd - lo
        s2 == r2end - r2lo
        c  == m - sfirst
        k1 == Least(c, s1)
        k2 == Least(c - k1, s2)
    IN  SwapRanges(SwapRanges(v, sfirst, lo, k1), sfirst + k1, r2lo, k2)

\* The run that goes left into the first slots, or every slot against the last
\* elements of the run.
Joined ==
    LET s1 == loEnd - lo
        s2 == r2end - r2lo
        c  == m - sfirst
    IN  IF c <= s1 + s2
        THEN LET k1 == Least(c, s1)
             IN  SwapRanges(SwapRanges(v, sfirst, lo, k1), sfirst + k1, r2lo, c - k1)
        ELSE SwapRanges(SwapRanges(v, lo, m - (s1 + s2), s1), r2lo, m - s2, s2)

\* ... return found + c_rem;
Bridge ==
    /\ pc = "bridge"
    /\ v' = Joined
    /\ found' = found + (m - sfirst)
    /\ pc' = "return"
    /\ UNCHANGED <<below, slots, slotsRem, buf, piece, sfirst, slast, fused, k, tmp, m>>

FillStep ==
    \/ StartBlock \/ Scan \/ FirstRun \/ RotateStep \/ RotateClose
    \/ RunDone \/ SecondRun \/ BlockDone \/ StraddleDone
    \/ PartitionRest \/ Bridge
-----------------------------------------------------------------------------
\* The array with the lifted element put back into the vacant cell.
Refilled == IF pc = "rotate" THEN [v EXCEPT ![CellR(at + k - 1)] = tmp] ELSE v

\* The rotation lifts one element and leaves one vacant cell: the slots it
\* fills and the cells it empties never meet, so nothing is overwritten.
OneCellVacant ==
    /\ IsArrangement(Refilled)
    /\ pc = "rotate" => v[CellR(at + k - 1)] = Hole /\ tmp # Hole
=============================================================================

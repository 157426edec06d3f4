---------------------------- MODULE QuicksortLR ----------------------------
(***************************************************************************)
(* quicksort_lr_impl: the quicksort that sorts every left block to the end *)
(* before it touches the right one, with a stack of its own that holds     *)
(* only where each postponed right block begins.  A block of at most       *)
(* Threshold cells is sorted by selection.  The call of algo::sized is one *)
(* step that ends in any outcome its contract allows.                      *)
(***************************************************************************)
EXTENDS KeyArrays

CONSTANTS
    Threshold,          \* qslr_threshold
    NintherCutoff       \* qslr_pivot_ninther_cutoff

\* Assumed where the module is instantiated.
ParameterAssumption ==
    /\ Keys \subseteq Int
    /\ Threshold \in Nat
    /\ Threshold >= 2           \* three cells to take a median of
    /\ NintherCutoff \in Nat

VARIABLES
    v,                  \* the array of keys
    first, last,        \* arguments of the call
    lo, hi,             \* the block at hand
    stack,              \* where the postponed right blocks begin
    i,                  \* the cursor of selection_sort
    pc

args == <<first, last>>
vars == <<v, args, lo, hi, stack, i, pc>>

Init ==
    /\ v \in [Pos -> Keys]
    /\ first \in 0 .. N
    /\ last \in first .. N
    /\ lo = first /\ hi = last
    /\ stack = <<>>
    /\ i = first
    /\ pc = "descend"
-----------------------------------------------------------------------------
\* A slip: the operands of the second selection swapped.
Median3_MaxOfMax(a, b, c) ==
    LET small == IF v[a] < v[b] THEN a ELSE b
        large == IF v[a] < v[b] THEN b ELSE a
        m1    == IF v[large] < v[c] THEN c ELSE large
    IN  IF v[small] < v[m1] THEN m1 ELSE small

\* median3_pos: the position of the median key; on ties the one that its
\* compare-and-select sequence ends with.
Median3(a, b, c) ==
    LET small == IF v[a] < v[b] THEN a ELSE b
        large == IF v[a] < v[b] THEN b ELSE a
        m1    == IF v[large] < v[c] THEN large ELSE c
    IN  IF v[small] < v[m1] THEN m1 ELSE small

Ninther ==
    LET n == hi - lo
        e == n \div 8
    IN  Median3(Median3(lo, lo + e, lo + 2 * e),
                Median3(lo + n \div 2 - e, lo + n \div 2, lo + n \div 2 + e),
                Median3(hi - 1 - 2 * e, hi - 1 - e, hi - 1))

PivotPos ==
    IF hi - lo <= NintherCutoff
    THEN Median3(lo, lo + (hi - lo) \div 2, hi - 1)
    ELSE Ninther

\* The outcomes of algo::sized on [lo + 1, hi) of a, whose pivot is at lo.
SizedCall(a) ==
    LET less == {x \in Keys : x < a[lo]}
    IN  {o \in PartitionOutcomes(a, less, lo + 1, hi) : IsOutcome(o, a, less, lo + 1, hi)}

\* A slip: the pivot stays at the front of the block.
Partition_PivotInFront ==
    /\ pc = "descend"
    /\ hi - lo > Threshold
    /\ \E a \in {Swap(v, lo, PivotPos)} : \E o \in SizedCall(a) :
          /\ v' = o.array
          /\ stack' = Append(stack, o.boundary)
          /\ hi' = o.boundary - 1
    /\ UNCHANGED <<args, lo, i, pc>>

\* One turn of the descent: choose the pivot, partition, place the pivot,
\* postpone the right block, go on with the left one.
Partition ==
    /\ pc = "descend"
    /\ hi - lo > Threshold
    /\ \E a \in {Swap(v, lo, PivotPos)} : \E o \in SizedCall(a) :
          /\ v' = Swap(o.array, lo, o.boundary - 1)
          /\ stack' = Append(stack, o.boundary)
          /\ hi' = o.boundary - 1
    /\ UNCHANGED <<args, lo, i, pc>>

StartSelection ==
    /\ pc = "descend"
    /\ hi - lo <= Threshold
    /\ i' = lo
    /\ pc' = "select"
    /\ UNCHANGED <<v, args, lo, hi, stack>>

\* The first of the least keys among the cells of s.
FirstMin(s) ==
    CHOOSE p \in s :
        \A q \in s : v[p] < v[q] \/ (v[p] = v[q] /\ p <= q)

\* min_scan_wide
MinScanWide == FirstMin(i .. hi - 1)

\* A slip: the odd cell at the end is left out.
MinScanNarrow_NoTail ==
    LET end   == i + 2 * ((hi - i - 1) \div 2)
        lane0 == FirstMin({i} \cup {p \in i .. end : (p - i) % 2 = 1})
        lane1 == FirstMin({p \in i .. end : (p - i) % 2 = 0})
    IN  IF v[lane1] < v[lane0] THEN lane1 ELSE lane0

\* min_scan_narrow: two accumulators, one for the odd offsets (and the odd cell
\* at the end), one for the even ones; both start with the first cell.
MinScanNarrow ==
    LET lane0 == FirstMin({i} \cup {p \in i .. hi - 1 : (p - i) % 2 = 1})
        lane1 == FirstMin({p \in i .. hi - 1 : (p - i) % 2 = 0})
    IN  IF v[lane1] < v[lane0] THEN lane1 ELSE lane0

\* A slip: the cursor only moves when a swap was needed.
SelectMin_Stuck ==
    /\ pc = "select"
    /\ hi - i > 1
    /\ \E m \in {MinScanWide, MinScanNarrow} :
          /\ v' = Swap(v, i, m)
          /\ i' = IF m # i THEN i + 1 ELSE i
    /\ UNCHANGED <<args, lo, hi, stack, pc>>

\* One turn of selection_sort, with either minimum scan.
SelectMin ==
    /\ pc = "select"
    /\ hi - i > 1
    /\ \E m \in {MinScanWide, MinScanNarrow} : v' = Swap(v, i, m)
    /\ i' = i + 1
    /\ UNCHANGED <<args, lo, hi, stack, pc>>

DerivedHi(s) == IF s = <<>> THEN last ELSE s[Len(s)] - 1

\* Slips: the end is derived before the entry is popped; the pivot between two
\* blocks is forgotten.
Pop_DerivesFirst ==
    /\ pc = "select"
    /\ hi - i <= 1
    /\ stack # <<>>
    /\ lo' = stack[Len(stack)]
    /\ stack' = SubSeq(stack, 1, Len(stack) - 1)
    /\ hi' = DerivedHi(stack)
    /\ pc' = "descend"
    /\ UNCHANGED <<v, args, i>>

Pop_TakesPivot ==
    /\ pc = "select"
    /\ hi - i <= 1
    /\ stack # <<>>
    /\ lo' = stack[Len(stack)]
    /\ stack' = SubSeq(stack, 1, Len(stack) - 1)
    /\ hi' = IF stack' = <<>> THEN last ELSE stack'[Len(stack')]
    /\ pc' = "descend"
    /\ UNCHANGED <<v, args, i>>

\* lo = stack[--sp]; hi = (sp == 0) ? last : stack[sp - 1] - 1;
Pop ==
    /\ pc = "select"
    /\ hi - i <= 1
    /\ stack # <<>>
    /\ lo' = stack[Len(stack)]
    /\ stack' = SubSeq(stack, 1, Len(stack) - 1)
    /\ hi' = DerivedHi(stack')
    /\ pc' = "descend"
    /\ UNCHANGED <<v, args, i>>

\* if (sp == 0) break;
Finish ==
    /\ pc = "select"
    /\ hi - i <= 1
    /\ stack = <<>>
    /\ pc' = "done"
    /\ UNCHANGED <<v, args, lo, hi, stack, i>>

Next == Partition \/ StartSelection \/ SelectMin \/ Pop \/ Finish

Spec == Init /\ [][Next]_vars
-----------------------------------------------------------------------------
\* The state is of the expected kind, and every block lies inside the range.
TypeOK ==
    /\ v \in [Pos -> Keys]
    /\ first \in 0 .. N
    /\ last \in first .. N
    /\ lo \in first .. last
    /\ hi \in lo .. last
    /\ stack \in Seq(first .. last)
    /\ i \in first .. last
    /\ pc \in {"descend", "select", "done"}

\* "the deferred rights tile the suffix adjacently (separated by the in-place
\* pivots)" (quicksort_lr.hpp:291-294): the end the code does not store is at
\* every moment the one it derives, and popping goes up the array.
Tiling ==
    /\ hi = DerivedHi(stack)
    /\ \A s \in 1 .. Len(stack) :
          stack[s] - 1 \in hi .. (IF s = 1 THEN last ELSE stack[s - 1] - 1) - 1

\* The cell in front of every postponed block holds a pivot that separates the
\* whole array: nothing before it is greater, nothing after it is less.
PivotsPlaced ==
    \A s \in 1 .. Len(stack) :
        LET p == stack[s] - 1
        IN  /\ \A q \in first .. p - 1 : v[q] <= v[p]
            /\ \A q \in p + 1 .. last - 1 : v[p] <= v[q]

\* The invariant of the loop and its stack of pivots.
StackInvariant == TypeOK /\ Tiling /\ PivotsPlaced

\* A median leaves a cell beside the pivot out of the left block, so the spine
\* loses two cells with every postponed block and is at most half as deep as the
\* range is long: the assertion on the fixed stack (quicksort_lr.hpp:319)
\* cannot fail on a range of up to 2 * qslr_stack_cap + Threshold cells,
\* whatever the order of its keys.
SpineBound ==
    stack # <<>> => 2 * Len(stack) <= last - first - Threshold + 1

\* "the array is finalised strictly front-to-back" (quicksort_lr.hpp:15-19),
\* and sorted when the call returns.
FrontToBack == INSTANCE FrontToBackSort WITH
    final <- CASE pc = "descend" -> lo
               [] pc = "select"  -> i
               [] pc = "done"    -> last

SortsFrontToBack == FrontToBack!Spec
=============================================================================

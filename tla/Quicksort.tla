----------------------------- MODULE Quicksort -----------------------------
(***************************************************************************)
(* quicksort and quicksort_rev: blocks of more than HalveCutoff elements   *)
(* are partitioned around a pivot, the smaller side by a recursive call    *)
(* and the larger by the loop; the rest is sorted by halve_sort, which     *)
(* halves a block and calls itself on the two halves.                      *)
(*                                                                         *)
(* The call stack is explicit: an entry is a block its frame goes on with  *)
(* when the call above it returns.  The call of algo::sized (sized_rev) is *)
(* one step that ends in any outcome its contract allows, and the pivot is *)
(* any element of the block, whatever the sampling strategy of pivot.hpp   *)
(* would choose.                                                           *)
(***************************************************************************)
EXTENDS KeyArrays, HalvingNetworks

CONSTANTS
    HalveCutoff,        \* qs_halve_cutoff
    Forms               \* which of the two sorts are called

ASSUME ParameterAssumption ==
    /\ Keys \subseteq Int
    /\ HalveCutoff \in 1 .. LargestHalver
    /\ Forms \subseteq {"forward", "reverse"}

\* The list of n cells exchanges cells of the block, and halves every block of
\* zeros and ones, in both directions (verify_small_halve.cpp:1-13).
Halves(n) ==
    /\ Networks[n - 1] \in Seq((0 .. n - 1) \X (0 .. n - 1))
    /\ \A bits \in [0 .. n - 1 -> {0, 1}] :
          LET up   == Halve("forward", bits, 0, n)
              down == Halve("reverse", bits, 0, n)
          IN  \A p \in 0 .. Half(0, n) - 1 : \A q \in Half(0, n) .. n - 1 :
                 up[p] <= up[q] /\ down[q] <= down[p]

ASSUME HalversHalve == \A n \in 2 .. HalveCutoff : Halves(n)

VARIABLES
    form,
    v,                  \* the array of keys
    first, last,        \* arguments of the outermost call
    lo, hi,             \* first and last in the innermost frame
    frames,             \* what the frames below go on with
    pc                  \* the function the innermost frame is in

args == <<form, first, last>>
vars == <<args, v, lo, hi, frames, pc>>

Init ==
    /\ form \in Forms
    /\ v \in [Pos -> Keys]
    /\ first \in 0 .. N
    /\ last \in first .. N
    /\ lo = first /\ hi = last
    /\ frames = <<>>
    /\ pc = "quicksort"
-----------------------------------------------------------------------------
\* Of the keys, those algo::sized (sized_rev) is to put before the pivot x.
KeysLeft(x) == {y \in Keys : IF form = "forward" THEN y < x ELSE y >= x}

\* Partitioning [lo + 1, hi) of a by the key at lo may result in o.
SizedCall(o, a) == IsOutcome(o, a, KeysLeft(a[lo]), lo + 1, hi)

\* Slips: the larger side is called on; the loop goes on with the whole block;
\* the pivot stays in the block the frame goes on with.
Descend_Larger(pp) ==
    \/ /\ pp - lo >= hi - (pp + 1)
       /\ frames' = Append(frames, [first |-> pp + 1, last |-> hi, in |-> "quicksort"])
       /\ hi' = pp
       /\ lo' = lo
    \/ /\ pp - lo < hi - (pp + 1)
       /\ frames' = Append(frames, [first |-> lo, last |-> pp, in |-> "quicksort"])
       /\ lo' = pp + 1
       /\ hi' = hi

Descend_WholeBlock(pp) ==
    \/ /\ pp - lo < hi - (pp + 1)
       /\ frames' = Append(frames, [first |-> lo, last |-> hi, in |-> "quicksort"])
       /\ hi' = pp
       /\ lo' = lo
    \/ /\ pp - lo >= hi - (pp + 1)
       /\ frames' = Append(frames, [first |-> lo, last |-> pp, in |-> "quicksort"])
       /\ lo' = pp + 1
       /\ hi' = hi

Descend_KeepsPivot(pp) ==
    \/ /\ pp - lo < hi - (pp + 1)
       /\ frames' = Append(frames, [first |-> pp, last |-> hi, in |-> "quicksort"])
       /\ hi' = pp
       /\ lo' = lo
    \/ /\ pp - lo >= hi - (pp + 1)
       /\ frames' = Append(frames, [first |-> lo, last |-> pp, in |-> "quicksort"])
       /\ lo' = pp + 1
       /\ hi' = hi

\* Call quicksort on the smaller side of the pivot at pp, and go on with the
\* larger one when that call returns.
Descend(pp) ==
    \/ /\ pp - lo < hi - (pp + 1)
       /\ frames' = Append(frames, [first |-> pp + 1, last |-> hi, in |-> "quicksort"])
       /\ hi' = pp
       /\ lo' = lo
    \/ /\ pp - lo >= hi - (pp + 1)
       /\ frames' = Append(frames, [first |-> lo, last |-> pp, in |-> "quicksort"])
       /\ lo' = pp + 1
       /\ hi' = hi

\* A slip: the pivot is put behind the elements that go left.
Partition_PivotBehind ==
    /\ pc = "quicksort"
    /\ hi - lo > HalveCutoff
    /\ \E p \in lo .. hi - 1 : LET a == Swap(v, lo, p) IN
          \E o \in PartitionOutcomes(a, KeysLeft(a[lo]), lo + 1, hi) :
             LET pp == IF o.boundary < hi THEN o.boundary ELSE hi - 1
             IN  v' = Swap(o.array, lo, pp) /\ Descend(pp) /\ SizedCall(o, a)
    /\ UNCHANGED <<args, pc>>

\* One turn of the loop of quicksort: choose the pivot, partition, place the
\* pivot at its rank, descend.
Partition ==
    /\ pc = "quicksort"
    /\ hi - lo > HalveCutoff
    /\ \E p \in lo .. hi - 1 : LET a == Swap(v, lo, p) IN
          \E o \in PartitionOutcomes(a, KeysLeft(a[lo]), lo + 1, hi) :
             LET pp == o.boundary - 1
             IN  v' = Swap(o.array, lo, pp) /\ Descend(pp) /\ SizedCall(o, a)
    /\ UNCHANGED <<args, pc>>

StartHalving ==
    /\ pc = "quicksort"
    /\ hi - lo <= HalveCutoff
    /\ pc' = "halve_sort"
    /\ UNCHANGED <<args, v, lo, hi, frames>>

\* A slip: the halves are cut one cell too high.
HalveSort_RoundsUp ==
    /\ pc = "halve_sort"
    /\ hi - lo > 1
    /\ v' = Halve(form, v, lo, hi)
    /\ \E mid \in {lo + (hi - lo + 1) \div 2} :
          /\ frames' = Append(frames, [first |-> mid, last |-> hi, in |-> "halve_sort"])
          /\ hi' = mid
    /\ UNCHANGED <<args, lo, pc>>

\* halve_sort on two elements or more: halve, call on the lower half, go on
\* with the upper one when that call returns.
HalveSort ==
    /\ pc = "halve_sort"
    /\ hi - lo > 1
    /\ v' = Halve(form, v, lo, hi)
    /\ frames' = Append(frames, [first |-> Half(lo, hi), last |-> hi, in |-> "halve_sort"])
    /\ hi' = Half(lo, hi)
    /\ UNCHANGED <<args, lo, pc>>

\* halve_sort on at most one element returns; so do all frames that have
\* nothing left to go on with.
Return ==
    /\ pc = "halve_sort"
    /\ hi - lo <= 1
    /\ frames # <<>>
    /\ \E f \in {frames[Len(frames)]} :
          /\ lo' = f.first
          /\ hi' = f.last
          /\ pc' = f.in
    /\ frames' = SubSeq(frames, 1, Len(frames) - 1)
    /\ UNCHANGED <<args, v>>

Finish ==
    /\ pc = "halve_sort"
    /\ hi - lo <= 1
    /\ frames = <<>>
    /\ pc' = "done"
    /\ UNCHANGED <<args, v, lo, hi, frames>>

Terminating == pc = "done" /\ UNCHANGED vars

Next ==
    \/ Partition \/ StartHalving \/ HalveSort \/ Return \/ Finish
    \/ Terminating

Spec == Init /\ [][Next]_vars

FairSpec == Spec /\ WF_vars(Next)
-----------------------------------------------------------------------------
Block == [first : Pos \cup {N}, last : Pos \cup {N}, in : {"quicksort", "halve_sort"}]

\* The state is of the expected kind, and every block lies inside the range.
TypeOK ==
    /\ form \in Forms
    /\ v \in [Pos -> Keys]
    /\ first \in 0 .. N
    /\ last \in first .. N
    /\ lo \in first .. last
    /\ hi \in lo .. last
    /\ frames \in Seq(Block)
    /\ pc \in {"quicksort", "halve_sort", "done"}

\* The blocks still to be sorted: the one at hand and those of the frames.
Pending ==
    {[first |-> lo, last |-> hi]} \cup
    {[first |-> frames[k].first, last |-> frames[k].last] : k \in DOMAIN frames}

\* What is left to do never overlaps, and the frames that halve lie above the
\* frames that partition, so a block is never sorted twice.
Disjoint ==
    /\ \A k \in DOMAIN frames :
          /\ first <= frames[k].first
          /\ frames[k].first <= frames[k].last
          /\ frames[k].last <= last
          /\ hi <= frames[k].first \/ frames[k].last <= lo
    /\ \A j, k \in DOMAIN frames : j < k =>
          /\ \/ frames[j].last <= frames[k].first
             \/ frames[k].last <= frames[j].first
          /\ frames[j].in = "halve_sort" => frames[k].in = "halve_sort"

\* The invariant of the call stack.
StackInvariant == TypeOK /\ Disjoint

\* "Recursion is on the smaller side with a loop on the larger (bounded stack)"
\* (quicksort.hpp:30-31): a block at depth d has less than a 2^d-th of the range,
\* so the frames of quicksort are at most logarithmically many, on every input
\* and with every pivot.
BoundedStack ==
    LET depth == Cardinality({k \in DOMAIN frames : frames[k].in = "quicksort"})
    IN  2 ^ depth * (hi - lo + 1) <= last - first + 1

\* Both sorts implement the abstract one.  The cuts are the cell boundaries
\* that lie inside no pending block: every partition and every halving adds
\* some, nothing ever moves an element across one, and when the call returns
\* the range is sorted.
Sorting == INSTANCE SortByCuts WITH
    cuts <- {c \in first .. last :
                ~ \E b \in Pending : b.first < c /\ c < b.last},
    returned <- (pc = "done")

Implements == Sorting!Spec

\* Every call returns, on heavily repeated keys too: a partition takes the
\* pivot out of both sides.
Termination == <>(pc = "done")
=============================================================================

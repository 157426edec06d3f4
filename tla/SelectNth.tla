----------------------------- MODULE SelectNth -----------------------------
(***************************************************************************)
(* detail::select_nth of pivot.hpp, the in-place quickselect behind the    *)
(* pivot strategy median_of_medians_5_inplace: groups are sorted, their    *)
(* medians gathered in front, a recursive call selects the median of them, *)
(* and a three-way partition around it keeps the side the rank is on.      *)
(* The recursion is the stack of the invocations that wait for their pivot.*)
(***************************************************************************)
EXTENDS KeyArrays

LOCAL INSTANCE TLC          \* SortSeq

CONSTANTS
    Group,                  \* 5: elements of a group
    LeafMax                 \* 16: the longest range that is sorted at once

\* Assumed where the module is instantiated.
GroupAssumption == {Group, LeafMax} \subseteq Nat \ {0} /\ Group > 1

VARIABLES
    v,                      \* the array of keys
    first, last, rank,      \* arguments of the call
    lo, hi, nth,            \* the range and the rank in it
    stack,                  \* the callers' <<lo, hi, nth>>, the last one innermost
    i,                      \* the cursor: of the groups, then of the partition
    store,                  \* the cells before it hold the medians so far
    lt, gt,                 \* the cells of [lt, i) hold the pivot key, gt on greater ones
    key,                    \* the pivot key
    ret,                    \* the selected cell
    pc

args == <<first, last, rank>>
cursors == <<i, store, lt, gt>>
vars == <<v, args, lo, hi, nth, stack, cursors, key, ret, pc>>

\* median_of_medians_5_inplace asks for the middle; the rank may be any.
Init ==
    /\ v \in [Pos -> Keys]
    /\ first \in 0 .. N
    /\ last \in first + 1 .. N
    /\ lo = first /\ hi = last
    /\ rank \in 0 .. last - first - 1
    /\ nth = rank
    /\ stack = <<>>
    /\ i = first /\ store = first /\ lt = first /\ gt = first
    /\ key \in Keys
    /\ ret = first
    /\ pc = "select"
-----------------------------------------------------------------------------
\* small_sort: cells [from, to) of a, sorted.
SortedIn(a, from, to) ==
    LET s == SortSeq([q \in 1 .. to - from |-> a[from + q - 1]], LAMBDA x, y : x < y)
    IN  [p \in Pos |-> IF p \in from .. to - 1 THEN s[p - from + 1] ELSE a[p]]

\* What select_nth relies on of small_sort: b is a with [from, to) in order.  What it
\* does meets this contract, or the call would be stuck.
InOrder(b, a, from, to) ==
    /\ b \in [Pos -> Keys]
    /\ Rearranged(b, a, from, to)
    /\ \A p, q \in from .. to - 1 : p < q => b[p] <= b[q]

\* The invocation returns cell p: to the caller of select_nth, or to an outer
\* invocation, which takes a copy of the key there and partitions around it.
ReturnCell(p) ==
    IF stack = <<>>
    THEN /\ ret' = p /\ pc' = "done"
         /\ UNCHANGED <<lo, hi, nth, stack, cursors, key>>
    ELSE LET f == stack[Len(stack)]
         IN  /\ stack' = SubSeq(stack, 1, Len(stack) - 1)
             /\ lo' = f[1] /\ hi' = f[2] /\ nth' = f[3]
             /\ lt' = f[1] /\ i' = f[1] /\ gt' = f[2]
             /\ key' = v'[p]
             /\ pc' = "flag"
             /\ UNCHANGED <<store, ret>>

\* n <= 1
SelectOnly ==
    /\ pc = "select"
    /\ hi - lo <= 1
    /\ v' = v
    /\ ReturnCell(lo)
    /\ UNCHANGED args

\* n <= 16
SortAndSelect ==
    /\ pc = "select"
    /\ hi - lo \in 2 .. LeafMax
    /\ LET b == SortedIn(v, lo, hi) IN InOrder(b, v, lo, hi) /\ v' = b
    /\ ReturnCell(lo + nth)
    /\ UNCHANGED args

StartGroups ==
    /\ pc = "select"
    /\ hi - lo > LeafMax /\ hi - lo > 1
    /\ store' = lo /\ i' = lo
    /\ pc' = "group"
    /\ UNCHANGED <<v, args, lo, hi, nth, stack, lt, gt, key, ret>>

\* A slip: the last group is taken to be as long as the others, as far as the
\* memory goes.
GroupEnd_Full(g) == IF g + Group <= N THEN g + Group ELSE hi

GroupEnd(g) == IF hi - g >= Group THEN g + Group ELSE hi

\* iter_swap(store, g + (ge - g) / 2); ++store;
GatherMedian ==
    /\ pc = "group"
    /\ i < hi
    /\ LET ge == GroupEnd(i)
           b  == SortedIn(v, i, ge)
       IN  InOrder(b, v, i, ge) /\ v' = Swap(b, store, i + (ge - i) \div 2)
    /\ store' = store + 1
    /\ i' = i + Group
    /\ UNCHANGED <<args, lo, hi, nth, stack, lt, gt, key, ret, pc>>

\* mom = select_nth(first, store, (store - first) / 2)
MedianOfMedians ==
    /\ pc = "group"
    /\ i >= hi
    /\ stack' = Append(stack, <<lo, hi, nth>>)
    /\ hi' = store
    /\ nth' = (store - lo) \div 2
    /\ pc' = "select"
    /\ UNCHANGED <<v, args, lo, cursors, key, ret>>
-----------------------------------------------------------------------------
FlagLess ==
    /\ pc = "flag"
    /\ i < gt /\ v[i] < key
    /\ v' = Swap(v, lt, i)
    /\ lt' = lt + 1 /\ i' = i + 1
    /\ UNCHANGED <<args, lo, hi, nth, stack, store, gt, key, ret, pc>>

\* A slip: the element that comes from the back is passed without a comparison.
NextAfterGreater_Skips == i + 1

\* The cursor stays: what came from the back has not been compared.
NextAfterGreater == i

FlagGreater ==
    /\ pc = "flag"
    /\ i < gt /\ key < v[i]
    /\ gt' = gt - 1
    /\ v' = Swap(v, i, gt - 1)
    /\ i' = NextAfterGreater
    /\ UNCHANGED <<args, lo, hi, nth, stack, store, lt, key, ret, pc>>

FlagEqual ==
    /\ pc = "flag"
    /\ i < gt /\ v[i] = key
    /\ i' = i + 1
    /\ UNCHANGED <<v, args, lo, hi, nth, stack, store, lt, gt, key, ret, pc>>

KeepLess ==
    /\ pc = "flag"
    /\ i >= gt
    /\ nth < lt - lo
    /\ hi' = lt
    /\ pc' = "select"
    /\ UNCHANGED <<v, args, lo, nth, stack, cursors, key, ret>>

SelectEqual ==
    /\ pc = "flag"
    /\ i >= gt
    /\ nth \in lt - lo .. gt - lo - 1
    /\ v' = v
    /\ ReturnCell(lo + nth)
    /\ UNCHANGED args

\* A slip: the rank is not made relative to the shorter range.
RankAbove_Kept == nth

RankAbove == nth - (gt - lo)

KeepGreater ==
    /\ pc = "flag"
    /\ i >= gt
    /\ nth >= gt - lo
    /\ lo' = gt
    /\ nth' = RankAbove
    /\ pc' = "select"
    /\ UNCHANGED <<v, args, hi, stack, cursors, key, ret>>

Next ==
    \/ SelectOnly \/ SortAndSelect \/ StartGroups \/ GatherMedian \/ MedianOfMedians
    \/ FlagLess \/ FlagGreater \/ FlagEqual
    \/ KeepLess \/ SelectEqual \/ KeepGreater

Spec == Init /\ [][Next]_vars
-----------------------------------------------------------------------------
TypeOK ==
    /\ v \in [Pos -> Keys]
    /\ lo \in first .. last /\ hi \in lo .. last
    /\ nth \in 0 .. hi - lo - 1
    /\ ret \in first .. last - 1
    /\ pc \in {"select", "group", "flag", "done"}

\* The outermost range, in which the rank of the call is looked for.
Outer == IF stack = <<>> THEN <<lo, hi>> ELSE <<stack[1][1], stack[1][2]>>

\* What has been cut off the outermost range is on its side of what is left.
CutOff ==
    /\ \A p \in first .. Outer[1] - 1 : \A q \in Outer[1] .. last - 1 : v[p] <= v[q]
    /\ \A p \in first .. Outer[2] - 1 : \A q \in Outer[2] .. last - 1 : v[p] <= v[q]

\* A waiting invocation's range holds those of the ones it waits for, and its
\* own rank.
Nested ==
    \A d \in DOMAIN stack :
        LET inner == IF d = Len(stack) THEN <<lo, hi>> ELSE stack[d + 1]
        IN  /\ stack[d][1] <= inner[1] /\ inner[2] <= stack[d][2]
            /\ inner[2] - inner[1] < stack[d][2] - stack[d][1]
            /\ stack[d][3] \in 0 .. stack[d][2] - stack[d][1] - 1

ThreeWay ==
    pc = "flag" =>
        /\ lo <= lt /\ lt <= i /\ i <= gt /\ gt <= hi
        /\ \A p \in lo .. lt - 1 : v[p] < key
        /\ \A p \in lt .. i - 1 : v[p] = key
        /\ \A p \in gt .. hi - 1 : v[p] > key

\* The pivot is the median of the medians: the groups on either side of it
\* contribute half of their elements, so no round is wasted on a bad pivot.
\* (The last group may be short and is counted with one element.)
PivotIsCentral ==
    pc = "flag" =>
        LET groups == (hi - lo + Group - 1) \div Group
            above  == groups - groups \div 2
            atMost == Cardinality({p \in lo .. hi - 1 : v[p] <= key})
            atLeast == Cardinality({p \in lo .. hi - 1 : v[p] >= key})
        IN  /\ atMost >= (groups \div 2) * (Group \div 2 + 1) + 1
            /\ atLeast >= (above - 1) * (Group - Group \div 2) + 1

\* "the returned iterator holds the element of sorted rank k, with everything
\* before it <= and everything after >= it" (pivot.hpp:137-139).
RankSelected ==
    pc = "done" =>
        /\ ret = first + rank
        /\ \A p \in first .. ret : \A q \in ret .. last - 1 : v[p] <= v[ret] /\ v[ret] <= v[q]

\* The invariant of select_nth, the parts above.
RankInvariant == TypeOK /\ CutOff /\ Nested /\ ThreeWay /\ PivotIsCentral /\ RankSelected
=============================================================================

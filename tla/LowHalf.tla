------------------------------ MODULE LowHalf ------------------------------
(***************************************************************************)
(* move_low_half, offset_low_half and their exact forms.  The exact forms  *)
(* partition by the key and split what is below it with a quickselect.     *)
(* The others estimate the middle one of the elements below the key from a *)
(* sample and partition once around the estimate; a range that is short,   *)
(* or has few samples below the key, is left to the exact form.            *)
(*                                                                         *)
(* A call of a partitioner is one step that ends in any outcome its        *)
(* contract allows, and the pivot of a quickselect is any element: the     *)
(* promises rest neither on the kernel nor on the choice of ninther_pos.   *)
(***************************************************************************)
EXTENDS KeyArrays

LOCAL INSTANCE TLC          \* SortSeq

CONSTANTS
    LeafMax,                \* 24: the longest block of a small sort
    MinHalf,                \* 16: the least half, the fewest samples below
    SampleMin,              \* 1024: the shortest range that is sampled
    SampleDiv, SampleMax    \* 4, 512: samples of n elements, at most

\* Assumed where the module is instantiated.
SampleAssumption ==
    /\ Keys \subseteq Int
    /\ LeafMax \in Nat \ {0}
    /\ {MinHalf, SampleMin, SampleDiv, SampleMax} \subseteq Nat \ {0}
    /\ SampleMin >= SampleDiv

VARIABLES
    v,                      \* the array of keys
    call,                   \* which of the four functions was called
    first, last,            \* arguments of the call
    offset,                 \* "offset": nothing in the first offset cells is below key
    key,
    samp,                   \* the sample, in its first cells, while it is in use
    lo, hi, nth,            \* quickselect's range and rank
    ret,                    \* the returned k
    pc

args == <<call, first, last, offset, key>>
vars == <<v, args, samp, lo, hi, nth, ret, pc>>

Moves == call \in {"move", "move_exact"}    \* else they are offset_low_half's
Exact == call \in {"move_exact", "offset_exact"}

Lesser(a, b) == IF a < b THEN a ELSE b

\* Nothing in the known prefix is below the key: the precondition of the offset
\* calls, and of the exact one they fall back on.
PrefixKnown == \A p \in first .. first + offset - 1 : v[p] >= key

\* The contents of the buffer when nothing is read from it.
NoSample == [p \in Pos |-> CHOOSE x \in Keys : TRUE]

\* The outcomes of a partitioner: of [from, to) of a, the keys of s to the left.
Call(a, s, from, to) ==
    {o \in PartitionOutcomes(a, s, from, to) : IsOutcome(o, a, s, from, to)}

Init ==
    /\ v \in [Pos -> Keys]
    /\ call \in {"move", "move_exact", "offset", "offset_exact"}
    /\ first \in 0 .. N
    /\ last \in first .. N
    /\ offset \in 0 .. last - first
    /\ Moves => offset = 0
    /\ key \in Keys \cup {x + 1 : x \in Keys}
    /\ PrefixKnown
    /\ samp = NoSample
    /\ lo = first /\ hi = first /\ nth = first
    /\ ret = 0
    /\ pc = "start"
-----------------------------------------------------------------------------
Suffix == last - first - offset

ShortOrExact ==
    /\ pc = "start"
    /\ Exact \/ Suffix < SampleMin
    /\ pc' = "exact"
    /\ UNCHANGED <<v, args, samp, lo, hi, nth, ret>>

SampleCount == Lesser(Suffix \div SampleDiv, SampleMax)

Stride == Suffix \div SampleCount

\* A slip: the number of samples below the key instead of half of it.
RankOf_Count(count) == count

\* r, the sample rank that stands for the middle one of the elements below
RankOf(count) == count \div 2

\* samp[i] = first[i * stride]; below += samp[i] < key;
TakeSample ==
    /\ pc = "start"
    /\ ~Exact /\ Suffix >= SampleMin
    /\ LET s     == [p \in Pos |-> IF p < SampleCount THEN v[first + offset + p * Stride]
                                                      ELSE samp[p]]
           count == Cardinality({p \in 0 .. SampleCount - 1 : s[p] < key})
       IN  IF count < MinHalf
           THEN pc' = "exact" /\ UNCHANGED <<samp, lo, hi, nth>>
           ELSE /\ pc' = "rank"
                /\ samp' = s
                /\ lo' = 0 /\ hi' = SampleCount /\ nth' = RankOf(count)
    /\ UNCHANGED <<v, args, ret>>
-----------------------------------------------------------------------------
(***************************************************************************)
(* quickselect, on the sample (pc = "rank") and on the block in front, and *)
(* quickselect_rev on the block at the end (pc = "select").                *)
(***************************************************************************)
Reverse == pc = "select" /\ Moves

Array == IF pc = "rank" THEN samp ELSE v

Write(a) ==
    IF pc = "rank" THEN samp' = a /\ v' = v ELSE v' = a /\ samp' = samp

GoesLeft(x, pivot) == IF Reverse THEN x >= pivot ELSE x < pivot

Selected == IF pc = "rank" THEN "route" ELSE "done"

\* A slip: the reversed form accepts the split before the pivot's left neighbour.
Found_OneEarly(pp) == nth = pp \/ (Reverse /\ nth = pp - 1)

\* nth == pp, or nth == pp + 1 in the reversed form
Found(pp) == nth = pp \/ (Reverse /\ nth = pp + 1)

\* Slips: the pivot stays in the block on its right; the two sides are confused.
Narrow_KeepsPivot(pp) ==
    IF nth < pp THEN hi' = pp /\ lo' = lo ELSE lo' = pp /\ hi' = hi

Narrow_OtherSide(pp) ==
    IF nth > pp THEN hi' = pp /\ lo' = lo ELSE lo' = pp + 1 /\ hi' = hi

\* if (nth < pp) last = pp; else first = pp + 1;
Narrow(pp) ==
    IF nth < pp THEN hi' = pp /\ lo' = lo ELSE lo' = pp + 1 /\ hi' = hi

\* One turn of the loop: pivot to the front, partition the rest, pivot to m - 1.
SelectTurn ==
    /\ pc \in {"rank", "select"}
    /\ hi - lo > LeafMax
    /\ \E p \in lo .. hi - 1 : \E a \in {Swap(Array, lo, p)} :
       \E o \in Call(a, {x \in Keys : GoesLeft(x, a[lo])}, lo + 1, hi) :
          LET pp == o.boundary - 1
          IN  /\ Write(Swap(o.array, lo, pp))
              /\ IF Found(pp)
                 THEN pc' = Selected /\ UNCHANGED <<lo, hi>>
                 ELSE pc' = pc /\ Narrow(pp)
    /\ UNCHANGED <<args, nth, ret>>

\* What a selection relies on of small_sort::sort: b is a with [lo, hi) in order.
Ordered(b, a) ==
    /\ b \in [Pos -> Keys]
    /\ Rearranged(b, a, lo, hi)
    /\ \A p, q \in lo .. hi - 1 :
          p < q => IF Reverse THEN b[q] <= b[p] ELSE b[p] <= b[q]

\* small_sort::sort, by the comparator with its arguments swapped if reversed.  What
\* it does meets its contract, or the call would be stuck here.
SelectLeaf ==
    /\ pc \in {"rank", "select"}
    /\ hi - lo <= LeafMax
    /\ LET s == SortSeq([q \in 1 .. hi - lo |-> Array[lo + q - 1]],
                        LAMBDA x, y : IF Reverse THEN y < x ELSE x < y)
           b == [p \in Pos |-> IF p \in lo .. hi - 1 THEN s[p - lo + 1] ELSE Array[p]]
       IN  Ordered(b, Array) /\ Write(b)
    /\ pc' = Selected
    /\ UNCHANGED <<args, lo, hi, nth, ret>>
-----------------------------------------------------------------------------
\* The outcomes of algo_rev::sized_rev: the elements below t at the end.
SizedRev(t) == Call(v, {x \in Keys : x >= t}, first, last)

\* A slip: the kernel may rearrange the prefix.
PrefixFill_AnyOrder(t) == Call(v, {x \in Keys : x < t}, first, last)

\* The outcomes of prefix_fill_off: the elements below t in front, and of the
\* prefix no cell touched behind them.
PrefixFill(t) ==
    {o \in Call(v, {x \in Keys : x < t}, first, last) :
        \A p \in o.boundary .. first + offset - 1 : o.array[p] = v[p]}

\* The outcomes of sized_off, whichever kernel it dispatches to.
SizedOff(t) == Call(v, {x \in Keys : x < t}, first, last)

\* Slips: the half is not rounded down; a small half is not replaced.
HalfOf_RoundsUp(s) == IF s \div 2 < MinHalf THEN s ELSE s - s \div 2
HalfOf_Always(s)   == s \div 2

\* (S / 2 < 16) ? S : S / 2
HalfOf(s) == IF s \div 2 < MinHalf THEN s ELSE s \div 2

\* The exact forms: partition by key, then split the block of the elements below.
ExactByKey ==
    /\ pc = "exact"
    /\ \E o \in IF Moves THEN SizedRev(key) ELSE SizedOff(key) :
          LET m == o.boundary
              s == IF Moves THEN last - m ELSE m - first
              k == HalfOf(s)
          IN  /\ v' = o.array
              /\ ret' = k
              /\ IF 0 < k /\ k < s
                 THEN /\ lo'  = IF Moves THEN m ELSE first
                      /\ hi'  = IF Moves THEN last ELSE m
                      /\ nth' = IF Moves THEN last - k ELSE first + k
                      /\ pc'  = "select"
                 ELSE pc' = "done" /\ UNCHANGED <<lo, hi, nth>>
    /\ UNCHANGED <<args, samp>>

\* move_low_half: one reversed partition around t = samp[r].
RouteToEnd ==
    /\ pc = "route"
    /\ Moves
    /\ \E o \in SizedRev(samp[nth]) : v' = o.array /\ ret' = last - o.boundary
    /\ pc' = "done"
    /\ samp' = NoSample
    /\ UNCHANGED <<args, lo, hi, nth>>

\* offset_low_half: one prefix fill around t; nothing below t leaves the exact form.
RouteToFront ==
    /\ pc = "route"
    /\ ~Moves
    /\ \E o \in PrefixFill(samp[nth]) :
          /\ v' = o.array
          /\ ret' = o.boundary - first
          /\ pc' = IF o.boundary = first THEN "exact" ELSE "done"
    /\ samp' = NoSample
    /\ UNCHANGED <<args, lo, hi, nth>>

Next ==
    \/ ShortOrExact \/ TakeSample \/ SelectTurn \/ SelectLeaf
    \/ ExactByKey \/ RouteToEnd \/ RouteToFront

Spec == Init /\ [][Next]_vars
-----------------------------------------------------------------------------
TypeOK ==
    /\ v \in [Pos -> Keys]
    /\ call \in {"move", "move_exact", "offset", "offset_exact"}
    /\ first \in 0 .. N
    /\ last \in first .. N
    /\ offset \in 0 .. last - first
    /\ samp \in [Pos -> Keys]
    /\ lo \in Pos \cup {N} /\ hi \in lo .. N /\ nth \in Pos \cup {N}
    /\ ret \in 0 .. last - first
    /\ pc \in {"start", "exact", "rank", "route", "select", "done"}

Belows == Cardinality({p \in first .. last - 1 : v[p] < key})

\* The cells quickselect was called on.
From == CASE pc = "rank" -> 0
          [] pc = "select" /\ Moves -> last - Belows
          [] OTHER -> first

To == CASE pc = "rank" -> SampleCount
        [] pc = "select" /\ Moves -> last
        [] OTHER -> first + Belows

MayPrecede(x, y) == IF Reverse THEN x >= y ELSE x <= y

\* What the selection has cut off on either side is in its place, and the rank
\* looked for is never cut off with it.
CutOff ==
    pc \in {"rank", "select"} =>
        /\ From <= lo /\ hi <= To
        /\ nth \in lo .. hi - 1
        /\ \A p \in From .. lo - 1 : \A q \in lo .. To - 1 : MayPrecede(Array[p], Array[q])
        /\ \A p \in From .. hi - 1 : \A q \in hi .. To - 1 : MayPrecede(Array[p], Array[q])

\* "estimate of the (S/2)-th value (< key, guaranteed ...)" (move_low_half.hpp:
\* 173-174): however the sample falls, the estimate is below the key, so the
\* partition around it never takes an element that is not.
EstimateBelow == pc = "route" => samp[nth] < key

\* The invariant of the four calls: the parts above, and the precondition of the
\* exact offset form, which has to survive the prefix fill before a fallback.
SelectInvariant ==
    TypeOK /\ CutOff /\ EstimateBelow /\ (pc = "exact" => PrefixKnown)

\* The promise of the two headers.
Contract == INSTANCE LowHalfContract WITH
    side     <- IF Moves THEN "end" ELSE "start",
    exact    <- Exact \/ Suffix < SampleMin,
    returned <- pc = "done",
    ret      <- IF pc = "done" THEN ret ELSE 0

Implements == Contract!Spec

\* move_low_half.hpp:4-9: k is "approximately HALF of the elements below `key`",
\* "k ~= S/2 (approximate, within a few %)"; so it is not 0 when there are
\* enough of them for a half to be taken.
SomethingTaken ==
    pc = "done" /\ Belows \div 2 >= MinHalf => ret > 0
=============================================================================

---------------------------- MODULE HoareGuarded ----------------------------
(***************************************************************************)
(* algo::hoare_guarded::at, the position-aware Hoare partition: the pivot  *)
(* is an element of the range, is moved to its end and stops the ascending *)
(* scan, which therefore has no bound of its own.                          *)
(*                                                                         *)
(* Called through reverse iterators (reverse_by_position) it is the same   *)
(* function on the mirrored array.                                         *)
(***************************************************************************)
EXTENDS Ranges

VARIABLES
    v,          \* the array
    below,      \* the elements x with comp(proj(x), pivot_key)
    first,      \* arguments of the call
    last,
    pivot,      \* the pivot's position
    lo,
    hi,
    pc          \* the next statement

vars == <<v, below, first, last, pivot, lo, hi, pc>>
args == <<below, first, last, pivot>>

\* The pivot is an element of the range and, comp being strict, not below
\* itself.
Init ==
    /\ v = [p \in Pos |-> p]
    /\ below \in SUBSET Pos
    /\ first \in 0 .. N
    /\ last \in first .. N
    /\ pivot \in first .. last - 1
    /\ v[pivot] \notin below
    /\ lo = first
    /\ hi = last
    /\ pc = "guard"
-----------------------------------------------------------------------------
\* Slips: the pivot is left where it is; the descending scan has no bound;
\* the other cursor is returned; the exchange without its ++lo.
Guard_NotMoved ==
    /\ pc = "guard"
    /\ hi' = last - 1
    /\ pc' = "up"
    /\ UNCHANGED <<v, args, lo>>

SkipDown_NoBound ==
    /\ pc = "down"
    /\ hi \in Pos
    /\ v[hi] \notin below
    /\ hi' = hi - 1
    /\ UNCHANGED <<v, args, lo, pc>>

Return_TakesHi ==
    /\ pc = "down"
    /\ lo >= hi
    /\ lo' = hi
    /\ pc' = "done"
    /\ UNCHANGED <<v, args, hi>>

Exchange_KeepsLo ==
    /\ pc = "down"
    /\ hi > lo
    /\ v[hi] \in below
    /\ v' = Swap(v, lo, hi)
    /\ pc' = "down"
    /\ UNCHANGED <<args, lo, hi>>
-----------------------------------------------------------------------------
\* iter_swap(pivot, last - 1); lo = first; hi = last - 1;
Guard ==
    /\ pc = "guard"
    /\ v' = Swap(v, pivot, last - 1)
    /\ hi' = last - 1
    /\ pc' = "up"
    /\ UNCHANGED <<args, lo>>

\* while (below(lo)) ++lo;
SkipUp ==
    /\ pc = "up"
    /\ v[lo] \in below
    /\ lo' = lo + 1
    /\ UNCHANGED <<v, args, hi, pc>>

\* ... the sentinel, or an earlier element, stops it; --hi;
UpStops ==
    /\ pc = "up"
    /\ v[lo] \notin below
    /\ hi' = hi - 1
    /\ pc' = "down"
    /\ UNCHANGED <<v, args, lo>>

\* while (hi > lo && !below(hi)) --hi;
SkipDown ==
    /\ pc = "down"
    /\ hi > lo
    /\ v[hi] \notin below
    /\ hi' = hi - 1
    /\ UNCHANGED <<v, args, lo, pc>>

\* if (lo >= hi) break;
Return ==
    /\ pc = "down"
    /\ lo >= hi
    /\ pc' = "done"
    /\ UNCHANGED <<v, args, lo, hi>>

\* iter_swap(lo, hi); ++lo;
Exchange ==
    /\ pc = "down"
    /\ hi > lo
    /\ v[hi] \in below
    /\ v' = Swap(v, lo, hi)
    /\ lo' = lo + 1
    /\ pc' = "up"
    /\ UNCHANGED <<args, hi>>

Terminating == pc = "done" /\ UNCHANGED vars

Next ==
    Guard \/ SkipUp \/ UpStops \/ SkipDown \/ Return \/ Exchange \/ Terminating

Spec == Init /\ [][Next]_vars
-----------------------------------------------------------------------------
\* hi may be decremented to one before the range; it is not read there.
TypeOK ==
    /\ v \in [Pos -> Pos]
    /\ below \in SUBSET Pos
    /\ first \in 0 .. N
    /\ last \in first .. N
    /\ pivot \in first .. last - 1
    /\ lo \in first .. last - 1
    /\ hi \in first - 1 .. last
    /\ pc \in {"guard", "up", "down", "done"}

\* The guard "holds throughout" (algorithms.hpp:146-148): whenever the scan
\* without a bound starts or continues, the cell hi, at or after lo and inside
\* the range, holds an element that stops it.
Guarded ==
    pc = "up" => lo <= hi /\ hi < last /\ v[hi] \notin below

\* The loop invariant: [first, lo) goes left, [hi + 1, last) does not, nor does
\* the cell hi while it is the guard.
Sandwich ==
    /\ AllIn(v, below, first, lo)
    /\ pc = "up"   => NoneIn(v, below, hi, last)
    /\ pc = "down" => NoneIn(v, below, hi + 1, last) /\ v[lo] \notin below
    /\ pc = "done" => NoneIn(v, below, lo, last)

\* hoare_guarded::at keeps the promise of concepts.hpp: only the range is
\* rearranged, nothing is lost, the boundary is right.
Contract == INSTANCE PartitionContract WITH
    goesLeft <- below,
    done     <- pc = "done",
    ret      <- IF pc = "done" THEN lo ELSE first

Implements == Contract!Spec
=============================================================================

------------------------------- MODULE Hoare -------------------------------
(***************************************************************************)
(* algo::hoare and its mirror image algo_rev::hoare_rev: two cursors       *)
(* converge from the ends of [first, last); the left one stops at an       *)
(* element that does not go left, the right one at an element that does,   *)
(* and the two are exchanged.                                              *)
(*                                                                         *)
(* Each step is one evaluation of the predicate together with what the     *)
(* code does on its outcome.                                               *)
(***************************************************************************)
EXTENDS Ranges, FiniteSets

VARIABLES
    v,          \* the array
    below,      \* the elements x with comp(proj(x), pivot)
    rev,        \* the call is to hoare_rev
    first,      \* arguments of the call
    last,
    lo,         \* the left cursor
    hi,         \* the right cursor
    pc          \* "left": the ascending scan, "right": the descending scan

vars == <<v, below, rev, first, last, lo, hi, pc>>
args == <<below, rev, first, last>>

\* `below` in hoare, `keep` in hoare_rev
GoesLeft == IF rev THEN Pos \ below ELSE below

Init ==
    /\ v = [i \in Pos |-> i]
    /\ below \in SUBSET Pos
    /\ rev \in BOOLEAN
    /\ first \in 0 .. N
    /\ last \in first .. N
    /\ lo = first
    /\ hi = last
    /\ pc = "left"
-----------------------------------------------------------------------------
(***************************************************************************)
(* Slips of the code that the properties below must notice.                *)
(***************************************************************************)
\* the exchange takes the cell before lo, which the scan has passed
Exchange_OffByOne ==
    /\ pc = "right"
    /\ lo # hi
    /\ v[hi - 1] \in GoesLeft
    /\ v' = Swap(v, IF lo > first THEN lo - 1 ELSE lo, hi - 1)
    /\ lo' = lo + 1
    /\ hi' = hi - 1
    /\ pc' = "left"
    /\ UNCHANGED args

\* the descending scan tests the cell before it decrements
ScanRight_Stuck ==
    /\ pc = "right"
    /\ lo # hi
    /\ v[hi - 1] \notin GoesLeft
    /\ pc' = "left"
    /\ UNCHANGED <<v, args, lo, hi>>
-----------------------------------------------------------------------------
\* while (lo != hi && below(lo)) ++lo;
ScanLeft ==
    /\ pc = "left"
    /\ lo # hi
    /\ v[lo] \in GoesLeft
    /\ lo' = lo + 1
    /\ UNCHANGED <<v, args, hi, pc>>

\* ... the loop ends
LeftStops ==
    /\ pc = "left"
    /\ \/ lo = hi
       \/ lo # hi /\ v[lo] \notin GoesLeft
    /\ pc' = "right"
    /\ UNCHANGED <<v, args, lo, hi>>

\* do { if (lo == hi) return lo; --hi; } while (!below(hi));
ScanRight ==
    /\ pc = "right"
    /\ lo # hi
    /\ v[hi - 1] \notin GoesLeft
    /\ hi' = hi - 1
    /\ UNCHANGED <<v, args, lo, pc>>

Return ==
    /\ pc = "right"
    /\ lo = hi
    /\ pc' = "done"
    /\ UNCHANGED <<v, args, lo, hi>>

\* ... --hi found an element for the left: iter_swap(lo, hi); ++lo;
Exchange ==
    /\ pc = "right"
    /\ lo # hi
    /\ v[hi - 1] \in GoesLeft
    /\ v' = Swap(v, lo, hi - 1)
    /\ lo' = lo + 1
    /\ hi' = hi - 1
    /\ pc' = "left"
    /\ UNCHANGED args

Terminating == pc = "done" /\ UNCHANGED vars

Next == ScanLeft \/ LeftStops \/ ScanRight \/ Return \/ Exchange \/ Terminating

Spec == Init /\ [][Next]_vars
-----------------------------------------------------------------------------
\* The cursors stay in the range and never cross (algorithms.hpp:126-136): no
\* element of the caller's array outside [first, last) is ever read.
TypeOK ==
    /\ v \in [Pos -> Pos]
    /\ below \in SUBSET Pos
    /\ rev \in BOOLEAN
    /\ first \in 0 .. N
    /\ last \in first .. N
    /\ hi \in first .. last
    /\ lo \in first .. hi
    /\ pc \in {"left", "right", "done"}

\* The loop invariant: what the ascending scan and the exchanges left behind
\* goes left, what the descending scan and the exchanges left behind does
\* not, and the element the ascending scan stopped at is out of place.
Sandwich ==
    /\ AllIn(v, GoesLeft, first, lo)
    /\ NoneIn(v, GoesLeft, hi, last)
    /\ pc = "right" /\ lo # hi => v[lo] \notin GoesLeft
    /\ pc = "done" => lo = hi

\* An element is moved at most once, and only to the side it ends on: a step
\* that changes a cell puts into it an element of that cell's final side.
\* The final boundary is first + the number of elements of the range that go
\* left, a number no step changes.
Boundary ==
    first + Cardinality({i \in first .. last - 1 : v[i] \in GoesLeft})

MovesHome ==
    [][\A p \in Pos :
          v'[p] # v[p] => /\ p \in first .. last - 1
                          /\ v'[p] \in GoesLeft <=> p < Boundary
                          /\ ~(v[p] \in GoesLeft <=> p < Boundary)]_vars

\* hoare and hoare_rev keep the promise of concepts.hpp (partition contract):
\* only the range is rearranged, nothing is lost, the boundary is right.
Contract == INSTANCE PartitionContract WITH
    goesLeft <- GoesLeft,
    done     <- pc = "done",
    ret      <- IF pc = "done" THEN lo ELSE first

Implements == Contract!Spec
=============================================================================

----------------------------- MODULE SortByCuts -----------------------------
(***************************************************************************)
(* What the quicksorts promise.  A cut is a place such that every element  *)
(* before it belongs before every element behind it.  A step may rearrange *)
(* the elements between two neighbouring cuts and make new cuts; it never  *)
(* moves an element across a cut.  The call may return when there is a cut *)
(* between any two cells: the range is sorted, and holds what it held.     *)
(* quicksort sorts ascending ("forward"), quicksort_rev descending         *)
(* ("reverse").                                                            *)
(***************************************************************************)
EXTENDS KeyArrays

VARIABLES
    form,           \* "forward" or "reverse"
    v,              \* the array of keys
    first, last,    \* the range to sort
    cuts,           \* the cuts made so far
    returned        \* the call has returned

vars == <<form, v, first, last, cuts, returned>>

MayPrecede(x, y) == IF form = "forward" THEN x <= y ELSE y <= x

IsCut(a, c) ==
    \A p \in first .. c - 1 : \A q \in c .. last - 1 : MayPrecede(a[p], a[q])

Init ==
    /\ form \in {"forward", "reverse"}
    /\ v \in [Pos -> Keys]
    /\ first \in 0 .. N
    /\ last \in first .. N
    /\ cuts \in SUBSET (first .. last)
    /\ \A c \in cuts : IsCut(v, c)
    /\ {first, last} \subseteq cuts
    /\ returned = FALSE

Next ==
    /\ ~returned
    /\ v' \in [Pos -> Keys]
    /\ SameOutside(v, v', first, last)
    /\ \A c \in cuts : SameKeys(v, v', first, c)
    /\ cuts \subseteq cuts'
    /\ \A c \in cuts' : IsCut(v', c)
    /\ returned' \in BOOLEAN
    /\ returned' => cuts' = first .. last
    /\ UNCHANGED <<form, first, last>>

Spec == Init /\ [][Next]_vars
=============================================================================

-------------------------- MODULE FrontToBackSort --------------------------
(***************************************************************************)
(* What quicksort_lr promises: "the array is finalised strictly front-to-  *)
(* back" (quicksort_lr.hpp:15).  At every moment the cells before final    *)
(* hold what they hold when the call returns; a step may rearrange only    *)
(* the cells from final on, and may then declare more of them final.       *)
(***************************************************************************)
EXTENDS KeyArrays

VARIABLES
    v,              \* the array of keys
    first, last,    \* the range to sort
    final           \* the cells of [first, final) never change again

vars == <<v, first, last, final>>

\* The cells before f are sorted and hold the least elements of the range.
SortedUpTo(a, f) ==
    \A p \in first .. f - 1 : \A q \in p .. last - 1 : a[p] <= a[q]

Init ==
    /\ v \in [Pos -> Keys]
    /\ first \in 0 .. N
    /\ last \in first .. N
    /\ final = first

Next ==
    /\ v' \in [Pos -> Keys]
    /\ Rearranged(v', v, final, last)
    /\ final' \in final .. last
    /\ SortedUpTo(v', final')
    /\ UNCHANGED <<first, last>>

Spec == Init /\ [][Next]_vars
=============================================================================

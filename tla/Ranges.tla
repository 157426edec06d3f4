------------------------------- MODULE Ranges -------------------------------
(***************************************************************************)
(* The data every partition kernel of the library works on.                *)
(*                                                                         *)
(* The memory is an array of N cells, numbered from 0.  A kernel is called *)
(* on a subrange [first, last) of it, as the quicksort drivers do, so a    *)
(* cursor that leaves its range runs into the caller's other elements.     *)
(* An element is named by the cell it was in when the call was made, so    *)
(* the contents of the array are a permutation of Pos whatever the keys.   *)
(*                                                                         *)
(* A kernel only learns about an element through                           *)
(* below(x) == comp(proj(x), pivot): the comparator, the projection, the   *)
(* element type and the pivot are all abstracted to the set of elements    *)
(* for which it holds.                                                     *)
(***************************************************************************)
EXTENDS Integers

CONSTANT N                 \* cells of the array

ASSUME NAssumption == N \in Nat

Pos == 0 .. N - 1

\* std::iter_swap(i, j)
Swap(a, i, j) == [a EXCEPT ![i] = a[j], ![j] = a[i]]

\* Every (no) element of a[lo..hi-1] is in the set s.
AllIn(a, s, lo, hi)  == \A i \in lo .. hi - 1 : a[i] \in s
NoneIn(a, s, lo, hi) == \A i \in lo .. hi - 1 : a[i] \notin s

\* The contract of concepts.hpp: [first, m) goes left, [m, last) does not.
Partitioned(a, s, first, m, last) ==
    /\ m \in first .. last
    /\ AllIn(a, s, first, m)
    /\ NoneIn(a, s, m, last)

\* Nothing is lost or duplicated: the array still holds each element once.
IsArrangement(a) ==
    /\ a \in [Pos -> Pos]
    /\ \A i, j \in Pos : a[i] = a[j] => i = j

\* b differs from a inside [first, last) only.
SameOutside(a, b, first, last) ==
    \A i \in Pos : i \notin first .. last - 1 => a[i] = b[i]
=============================================================================

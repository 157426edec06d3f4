------------------------- MODULE PartitionContract -------------------------
(***************************************************************************)
(* What every partition kernel promises its caller (concepts.hpp): it      *)
(* rearranges [first, last) and nothing else, neither losing nor           *)
(* duplicating an element, and returns a boundary m such that the elements *)
(* of [first, m) go left and those of [m, last) do not.                    *)
(*                                                                         *)
(* `goesLeft` is the set of elements the predicate sends left: `below` for *)
(* the forward family, its complement for the reversed one.  The range and *)
(* the set are arguments of the call and never change.                     *)
(***************************************************************************)
EXTENDS Ranges

VARIABLES
    v,          \* the array
    goesLeft,   \* the elements for which the predicate holds
    first,      \* the call's range is [first, last)
    last,
    done,       \* the call has returned
    ret         \* the returned boundary, meaningful once done

vars == <<v, goesLeft, first, last, done, ret>>

Init ==
    /\ v = [i \in Pos |-> i]
    /\ goesLeft \in SUBSET Pos
    /\ first \in 0 .. N
    /\ last \in first .. N
    /\ done = FALSE
    /\ ret = first

Rearranges == IsArrangement(v') /\ SameOutside(v, v', first, last)

\* A step of the kernel that does not return.
Work ==
    /\ ~done
    /\ Rearranges
    /\ UNCHANGED <<goesLeft, first, last, done, ret>>

\* The kernel returns, its last moves included.
Return ==
    /\ ~done
    /\ Rearranges
    /\ done' = TRUE
    /\ Partitioned(v', goesLeft, first, ret', last)
    /\ UNCHANGED <<goesLeft, first, last>>

Next == Work \/ Return

Spec == Init /\ [][Next]_vars
=============================================================================

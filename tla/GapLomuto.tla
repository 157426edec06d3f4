----------------------------- MODULE GapLomuto -----------------------------
(***************************************************************************)
(* The branchless Lomuto partition ("gap" method): algo::lomuto_branchless *)
(* (off = 0), its mirror image algo_rev::lomuto_branchless_rev and         *)
(* algo_off::gap_off, which starts at `off` because the caller promises    *)
(* that nothing in [first, first + off) goes left.                         *)
(*                                                                         *)
(* An element is lifted out of the array; the resulting gap travels to the *)
(* right, and each iteration moves one element into the gap and the next   *)
(* element of the scan into the cell that the first one left.              *)
(*                                                                         *)
(* The cursors i and j of the code are offsets from first; here they are   *)
(* cells of the array.                                                     *)
(***************************************************************************)
EXTENDS Ranges

Hole == -1      \* the contents of a cell that was moved from: unspecified

VARIABLES
    v,          \* the array
    below,      \* the elements x with comp(proj(x), pivot)
    rev,        \* the call is to lomuto_branchless_rev
    first,      \* arguments of the call
    last,
    off,
    tmp,        \* the lifted element
    i,          \* the boundary so far: [first, i) goes left
    j,          \* the scan: [first, j) has been looked at
    pc          \* the next statement

vars == <<v, below, rev, first, last, off, tmp, i, j, pc>>
args == <<below, rev, first, last, off>>

GoesLeft == IF rev THEN Pos \ below ELSE below

Advance(x) == IF x \in GoesLeft THEN 1 ELSE 0

\* The offset form exists for the forward family only.
Init ==
    /\ v = [k \in Pos |-> k]
    /\ below \in SUBSET Pos
    /\ rev \in BOOLEAN
    /\ first \in 0 .. N
    /\ last \in first .. N
    /\ off \in 0 .. last - first
    /\ rev => off = 0
    /\ NoneIn(v, GoesLeft, first, first + off)
    /\ tmp = Hole
    /\ i = first
    /\ j = first
    /\ pc = "start"
-----------------------------------------------------------------------------
\* Slips: the last element of the prefix is lifted, not the first after it; the
\* two moves of an iteration are in the wrong order; the lifted element is
\* not counted; ++j is missing.
Lift_OneEarly ==
    /\ pc = "start"
    /\ first + off < last
    /\ LET g == IF off > 0 THEN first + off - 1 ELSE first
       IN  /\ tmp' = v[g]
           /\ v' = [v EXCEPT ![g] = Hole]
           /\ j' = g
    /\ pc' = "close"
    /\ UNCHANGED <<args, i>>

CloseGap_WrongOrder ==
    /\ pc = "close"
    /\ j < last - 1
    /\ v' = [v EXCEPT ![i] = v[j + 1], ![j] = v[i]]
    /\ pc' = "pull"
    /\ UNCHANGED <<args, tmp, i, j>>

PutBack_Uncounted ==
    /\ pc = "putback"
    /\ v' = [v EXCEPT ![i] = tmp]
    /\ tmp' = Hole
    /\ i' = i
    /\ pc' = "done"
    /\ UNCHANGED <<args, j>>

Pull_Stuck ==
    /\ pc = "pull"
    /\ v' = [v EXCEPT ![i] = v[j + 1], ![j + 1] = v[j]]
    /\ pc' = "close"
    /\ UNCHANGED <<args, tmp, i, j>>
-----------------------------------------------------------------------------
\* if (offset >= n) return first;
Empty ==
    /\ pc = "start"
    /\ first + off >= last
    /\ pc' = "done"
    /\ UNCHANGED <<v, args, tmp, i, j>>

\* tmp = move(v[offset]); i = 0; j = offset;
Lift ==
    /\ pc = "start"
    /\ first + off < last
    /\ tmp' = v[first + off]
    /\ v' = [v EXCEPT ![first + off] = Hole]
    /\ j' = first + off
    /\ pc' = "close"
    /\ UNCHANGED <<args, i>>

\* for (; j < n - 1; ++j) { v[j] = move(v[i]); ... : the gap is now at i
CloseGap ==
    /\ pc = "close"
    /\ j < last - 1
    /\ v' = [v EXCEPT ![j] = v[i], ![i] = Hole]
    /\ pc' = "pull"
    /\ UNCHANGED <<args, tmp, i, j>>

\* ... v[i] = move(v[j + 1]); i += below(i); } : the gap is at the next j
Pull ==
    /\ pc = "pull"
    /\ v' = [v EXCEPT ![i] = v[j + 1], ![j + 1] = Hole]
    /\ i' = i + Advance(v[j + 1])
    /\ j' = j + 1
    /\ pc' = "close"
    /\ UNCHANGED <<args, tmp>>

\* v[n - 1] = move(v[i]);
CloseLast ==
    /\ pc = "close"
    /\ j = last - 1
    /\ v' = [v EXCEPT ![j] = v[i], ![i] = Hole]
    /\ pc' = "putback"
    /\ UNCHANGED <<args, tmp, i, j>>

\* v[i] = move(tmp); i += below(i); return first + i;
PutBack ==
    /\ pc = "putback"
    /\ v' = [v EXCEPT ![i] = tmp]
    /\ tmp' = Hole
    /\ i' = i + Advance(tmp)
    /\ pc' = "done"
    /\ UNCHANGED <<args, j>>

Terminating == pc = "done" /\ UNCHANGED vars

Next ==
    \/ Empty \/ Lift \/ CloseGap \/ Pull \/ CloseLast \/ PutBack
    \/ Terminating

Spec == Init /\ [][Next]_vars
-----------------------------------------------------------------------------
Open == pc \in {"close", "pull", "putback"}     \* an element is in tmp

\* The cell that is vacant while an element is lifted.
Gap == IF pc = "close" THEN j ELSE i

TypeOK ==
    /\ v \in [Pos -> Pos \cup {Hole}]
    /\ below \in SUBSET Pos
    /\ rev \in BOOLEAN
    /\ first \in 0 .. N
    /\ last \in first .. N
    /\ off \in 0 .. last - first
    /\ tmp \in Pos \cup {Hole}
    /\ i \in first .. last
    /\ j \in first .. last
    /\ pc \in {"start", "close", "pull", "putback", "done"}

\* The array with the lifted element put back into the gap.
Restored == IF Open THEN [v EXCEPT ![Gap] = tmp] ELSE v

\* No element is lost or overwritten while it is in nobody's hands: the gap is
\* the only vacant cell, and the lifted element is what is missing from the
\* array (algorithms.hpp:98-105).
OneGap ==
    /\ IsArrangement(Restored)
    /\ Open => v[Gap] = Hole /\ tmp # Hole
    /\ ~Open => \A k \in Pos : v[k] # Hole

\* offset_partition.hpp:33: "[0,i) below, [i,j) not-below, gap at j", and the
\* part of it that still holds between the two moves of an iteration.
GapInvariant ==
    /\ AllIn(v, GoesLeft, first, i)
    /\ pc = "close" => i <= j /\ j < last /\ NoneIn(v, GoesLeft, i, j)
    /\ pc = "pull" =>
          i <= j /\ j < last - 1 /\ NoneIn(v, GoesLeft, i + 1, j + 1)
    /\ pc = "putback" =>
          i <= j /\ j = last - 1 /\ NoneIn(v, GoesLeft, i + 1, last)
    /\ pc = "done" => NoneIn(v, GoesLeft, i, last)

\* refactored_partitions_with_permutation.hpp:826-827, which gap_off_perm
\* relies on to repair its index: with c elements going left, only the cells of
\* [first, first + min(c + 1, offset)) and [first + offset, last) change.
Footprint ==
    pc = "done" =>
        \A k \in Pos :
            v[k] # k => \/ k \in first + off .. last - 1
                        \/ k \in first .. first + off - 1 /\ k <= i

\* The promise of concepts.hpp.
Contract == INSTANCE PartitionContract WITH
    v        <- Restored,
    goesLeft <- GoesLeft,
    done     <- pc = "done",
    ret      <- IF pc = "done" THEN i ELSE first

Implements == Contract!Spec
=============================================================================

------------------------------- MODULE Lomuto -------------------------------
(***************************************************************************)
(* algo::lomuto (off = 0) and algo_off::scan_swap_off, which starts its    *)
(* scan at `off` because the caller promises that nothing in               *)
(* [first, first + off) goes left: one scan, one exchange per element that *)
(* goes left.                                                              *)
(***************************************************************************)
EXTENDS Ranges

VARIABLES
    v,          \* the array
    below,      \* the elements x with comp(proj(x), pivot)
    first,      \* arguments of the call
    last,
    off,
    store,      \* the boundary so far
    cur,        \* the scan
    pc

vars == <<v, below, first, last, off, store, cur, pc>>
args == <<below, first, last, off>>

Init ==
    /\ v = [p \in Pos |-> p]
    /\ below \in SUBSET Pos
    /\ first \in 0 .. N
    /\ last \in first .. N
    /\ off \in 0 .. last - first
    /\ NoneIn(v, below, first, first + off)
    /\ store = first
    /\ cur = first + off
    /\ pc = "scan"
-----------------------------------------------------------------------------
\* Slips: the exchange without ++store; always with the first cell; no ++cur.
Keep_NotCounted ==
    /\ pc = "scan"
    /\ cur # last
    /\ v[cur] \in below
    /\ v' = Swap(v, store, cur)
    /\ cur' = cur + 1
    /\ UNCHANGED <<args, store, pc>>

Keep_SwapsFirst ==
    /\ pc = "scan"
    /\ cur # last
    /\ v[cur] \in below
    /\ v' = Swap(v, first, cur)
    /\ store' = store + 1
    /\ cur' = cur + 1
    /\ UNCHANGED <<args, pc>>

Skip_Stuck ==
    /\ pc = "scan"
    /\ cur # last
    /\ v[cur] \notin below
    /\ cur' = IF cur > store THEN cur - 1 ELSE cur + 1
    /\ UNCHANGED <<v, args, store, pc>>
-----------------------------------------------------------------------------
\* if (below(cur)) { iter_swap(store, cur); ++store; } ++cur
Keep ==
    /\ pc = "scan"
    /\ cur # last
    /\ v[cur] \in below
    /\ v' = Swap(v, store, cur)
    /\ store' = store + 1
    /\ cur' = cur + 1
    /\ UNCHANGED <<args, pc>>

Skip ==
    /\ pc = "scan"
    /\ cur # last
    /\ v[cur] \notin below
    /\ cur' = cur + 1
    /\ UNCHANGED <<v, args, store, pc>>

Return ==
    /\ pc = "scan"
    /\ cur = last
    /\ pc' = "done"
    /\ UNCHANGED <<v, args, store, cur>>

Terminating == pc = "done" /\ UNCHANGED vars

Next == Keep \/ Skip \/ Return \/ Terminating

Spec == Init /\ [][Next]_vars
-----------------------------------------------------------------------------
TypeOK ==
    /\ v \in [Pos -> Pos]
    /\ below \in SUBSET Pos
    /\ first \in 0 .. N
    /\ last \in first .. N
    /\ off \in 0 .. last - first
    /\ store \in first .. last
    /\ cur \in store .. last
    /\ pc \in {"scan", "done"}

\* "[first, store) < key, [store, cur) >= key holds initially ... by the
\* precondition" (offset_partition.hpp:97-99), and is kept.
LoopInvariant ==
    AllIn(v, below, first, store) /\ NoneIn(v, below, store, cur)

\* The one scheme of the library that keeps the order of the elements that go
\* left: an element is named by the cell it came from.
KeptInOrder ==
    \A p, q \in first .. store - 1 : p < q => v[p] < v[q]

\* lomuto and scan_swap_off keep the promise of concepts.hpp: only the range is
\* rearranged, nothing is lost, the boundary is right.
Contract == INSTANCE PartitionContract WITH
    goesLeft <- below,
    done     <- pc = "done",
    ret      <- IF pc = "done" THEN store ELSE first

Implements == Contract!Spec
=============================================================================

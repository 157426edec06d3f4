----------------------------- MODULE SmallMerge -----------------------------
(***************************************************************************)
(* small_merge.hpp: completing a block whose first k cells are sorted.     *)
(* The extend forms insert the other elements one by one and differ in how *)
(* they find the place and when they move; the merge forms take a sorted   *)
(* tail, copy it out and merge from the back.                              *)
(*                                                                         *)
(* The elements are numbered by the cell they come from, so that what      *)
(* happens to elements with equal keys can be seen.  All moves are copies: *)
(* a cell that was moved from still holds its element.                     *)
(***************************************************************************)
EXTENDS Ranges

CONSTANT Keys              \* a finite set of integers

VARIABLES
    entry,      \* the function that was called
    key,        \* the key of each element
    v,          \* the array, of elements
    n, k,       \* arguments of the call (a sort has no k)
    i, j,       \* the element to insert and the cell it would go to; in the
                \* merge forms the elements left in the prefix, and dst
    lo, hi,     \* the binary search
    tmp, t,     \* the copied tail or element, and how many of it are left
    pc

cursors == <<i, j, lo, hi, tmp, t>>

Less(x, y) == key[x] < key[y]

\* The forms that insert, and the forms that merge.
Extends == {"extend_sorted", "extend_sorted_bsearch", "extend_sorted_scan"}
Merges  == {"merge_sorted", "merge_sorted_branchless"}

SortedFrom(a, b) == \A p, q \in a .. b - 1 : p < q => ~ Less(v[q], v[p])
-----------------------------------------------------------------------------
\* if (k < 1) k = 1; for (i = k; ...)
StartExtend ==
    /\ pc = "call"
    /\ entry \in Extends
    /\ i' = IF k < 1 THEN 1 ELSE k
    /\ pc' = "next"
    /\ UNCHANGED <<entry, key, v, n, k, j, lo, hi, tmp, t>>

\* key = first[i]; j = i; and the interval [0, i) of the binary search
TakeKey ==
    /\ pc = "next"
    /\ i < n
    /\ tmp' = <<v[i]>> /\ t' = 1
    /\ j' = i
    /\ lo' = 0 /\ hi' = i
    /\ pc' = "find"
    /\ UNCHANGED <<entry, key, v, n, k, i>>

AllInserted ==
    /\ pc = "next"
    /\ i >= n
    /\ pc' = "done"
    /\ UNCHANGED <<entry, key, v, n, k, cursors>>

\* A slip: an element is moved past one with the same key.
Passes_Equal == j > 0 /\ ~ Less(v[j - 1], tmp[1])

\* while (j > 0 && comp(kp, proj(first[j - 1])))
Passes == j > 0 /\ Less(tmp[1], v[j - 1])

\* { first[j] = first[j - 1]; --j; } of extend_sorted
ShiftOne ==
    /\ pc = "find"
    /\ entry = "extend_sorted"
    /\ Passes
    /\ v' = [v EXCEPT ![j] = v[j - 1]]
    /\ j' = j - 1
    /\ UNCHANGED <<entry, key, n, k, i, lo, hi, tmp, t, pc>>

\* --j of extend_sorted_scan
ScanOne ==
    /\ pc = "find"
    /\ entry = "extend_sorted_scan"
    /\ Passes
    /\ j' = j - 1
    /\ UNCHANGED <<entry, key, v, n, k, i, lo, hi, tmp, t, pc>>

\* A slip: the interval keeps mid when the key does not go before it.
Probe_KeepsMid ==
    /\ pc = "find"
    /\ entry = "extend_sorted_bsearch"
    /\ lo < hi
    /\ LET mid == (lo + hi) \div 2
       IN  IF Less(tmp[1], v[mid]) THEN hi' = mid /\ UNCHANGED lo
                                   ELSE lo' = mid /\ UNCHANGED hi
    /\ UNCHANGED <<entry, key, v, n, k, i, j, tmp, t, pc>>

\* one turn of the binary search for the first element behind the key
Probe ==
    /\ pc = "find"
    /\ entry = "extend_sorted_bsearch"
    /\ lo < hi
    /\ LET mid == (lo + hi) \div 2
       IN  IF Less(tmp[1], v[mid]) THEN hi' = mid /\ UNCHANGED lo
                                   ELSE lo' = mid + 1 /\ UNCHANGED hi
    /\ UNCHANGED <<entry, key, v, n, k, i, j, tmp, t, pc>>

\* memmove(&first[to + 1], &first[to], i - to); first[to] = key;
Inserted(to) ==
    [p \in Pos |-> IF p = to THEN tmp[1]
                   ELSE IF p \in to + 1 .. i THEN v[p - 1]
                   ELSE v[p]]

\* The place is found: extend_sorted has made room, the others do it now.
Drop ==
    /\ pc = "find"
    /\ IF entry = "extend_sorted_bsearch"
       THEN lo = hi /\ v' = Inserted(lo)
       ELSE ~Passes /\ v' = IF entry = "extend_sorted" THEN [v EXCEPT ![j] = tmp[1]]
                                                       ELSE Inserted(j)
    /\ i' = i + 1
    /\ t' = 0
    /\ pc' = "next"
    /\ UNCHANGED <<entry, key, n, k, j, lo, hi, tmp>>
-----------------------------------------------------------------------------
\* if (m == 0 || k == 0) return;
NothingToMerge ==
    /\ pc = "call"
    /\ entry \in Merges
    /\ n - k = 0 \/ k = 0
    /\ pc' = "done"
    /\ UNCHANGED <<entry, key, v, n, k, cursors>>

\* tmp[x] = first[k + x]; i = k; t = m; dst = n.  (The branchless form counts
\* the three from one less.)
CopyTail ==
    /\ pc = "call"
    /\ entry \in Merges
    /\ n - k > 0 /\ k > 0
    /\ tmp' = [x \in 1 .. n - k |-> v[k + x - 1]]
    /\ t' = n - k
    /\ i' = k
    /\ j' = n
    /\ pc' = "merge"
    /\ UNCHANGED <<entry, key, v, n, k, lo, hi>>

\* A slip: on a tie the element of the prefix is placed.
FromPrefix_OnTie == i > 0 /\ ~ Less(v[i - 1], tmp[t])

\* if (i > 0 && comp(proj(tmp[t - 1]), proj(first[i - 1])))
FromPrefix == i > 0 /\ Less(tmp[t], v[i - 1])

\* A slip: the two elements are compared the other way round.
TakesPrefix_Swapped ==
    t = 0 \/ (~(i = 0) /\ ~ Less(tmp[IF t = 0 THEN 1 ELSE t], v[IF i = 0 THEN 0 ELSE i - 1]))

\* tmp_done | (!pre_done & !comp(proj(vp), proj(vt))), the indices clamped
TakesPrefix ==
    t = 0 \/ (~(i = 0) /\ ~ Less(v[IF i = 0 THEN 0 ELSE i - 1], tmp[IF t = 0 THEN 1 ELSE t]))

\* first[--dst] = first[--i] or first[--dst] = tmp[--t]
PlaceLarger(fromPrefix) ==
    /\ v' = [v EXCEPT ![j - 1] = IF fromPrefix THEN v[i - 1] ELSE tmp[t]]
    /\ i' = IF fromPrefix THEN i - 1 ELSE i
    /\ t' = IF fromPrefix THEN t ELSE t - 1
    /\ j' = j - 1
    /\ UNCHANGED <<entry, key, n, k, lo, hi, tmp, pc>>

\* while (t > 0)
MergeStep ==
    /\ pc = "merge"
    /\ entry = "merge_sorted"
    /\ t > 0
    /\ PlaceLarger(FromPrefix)

\* for (s = 0; s < n; ++s): s is n - dst
SelectStep ==
    /\ pc = "merge"
    /\ entry = "merge_sorted_branchless"
    /\ j > 0
    /\ PlaceLarger(TakesPrefix)

Merged ==
    /\ pc = "merge"
    /\ IF entry = "merge_sorted" THEN t = 0 ELSE j = 0
    /\ pc' = "done"
    /\ UNCHANGED <<entry, key, v, n, k, cursors>>

MergeNext ==
    \/ StartExtend \/ TakeKey \/ AllInserted \/ ShiftOne \/ ScanOne \/ Probe \/ Drop
    \/ NothingToMerge \/ CopyTail \/ MergeStep \/ SelectStep \/ Merged
-----------------------------------------------------------------------------
\* While an element or the tail is in tmp, the array and tmp together hold every
\* element once: what is overwritten is a stale copy.  In the merge forms the
\* writes keep exactly as far ahead of the prefix as the tail is long.
NothingOverwritten ==
    /\ pc = "find" =>
          IsArrangement([v EXCEPT ![IF entry = "extend_sorted" THEN j ELSE i] = tmp[1]])
    /\ pc = "merge" =>
          /\ j = i + t
          /\ IsArrangement([p \in Pos |-> IF p \in i .. j - 1 THEN tmp[p - i + 1] ELSE v[p]])
    /\ pc \in {"call", "next", "done"} => IsArrangement(v)

\* The cells that an insertion has left behind are sorted, and the interval of
\* the binary search still holds the place: everything before it may precede
\* the element and everything behind it must follow.
InsertionPoint ==
    /\ pc = "next" => SortedFrom(0, i)
    /\ pc = "find" =>
          /\ \A p \in 0 .. lo - 1 : ~ Less(tmp[1], v[p])
          /\ entry = "extend_sorted_bsearch" => \A p \in hi .. i - 1 : Less(tmp[1], v[p])
          /\ entry # "extend_sorted_bsearch" =>
                \A p \in j .. i - 1 : Less(tmp[1], v[IF entry = "extend_sorted" THEN p + 1 ELSE p])
=============================================================================

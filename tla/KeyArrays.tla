----------------------------- MODULE KeyArrays -----------------------------
(***************************************************************************)
(* Arrays of keys, for the sorts: there the elements are told apart by     *)
(* their keys only, and keys repeat.                                       *)
(***************************************************************************)
EXTENDS Ranges, FiniteSets, Sequences

CONSTANT Keys              \* a finite set of integers

\* How often each key of s occurs in [lo, hi).
KeyCounts(a, s, lo, hi) ==
    [x \in Keys |->
        IF x \in s THEN Cardinality({p \in lo .. hi - 1 : a[p] = x}) ELSE 0]

\* a and b hold the same keys, each as often, in [lo, hi).
SameKeys(a, b, lo, hi) == KeyCounts(a, Keys, lo, hi) = KeyCounts(b, Keys, lo, hi)

\* b is a with the elements of [lo, hi) rearranged.
Rearranged(b, a, lo, hi) == SameOutside(a, b, lo, hi) /\ SameKeys(a, b, lo, hi)

\* The sequences in which each key x occurs c[x] times.
Orders[c \in [Keys -> 0 .. N]] ==
    IF \A x \in Keys : c[x] = 0 THEN {<<>>}
    ELSE UNION {{<<x>> \o s : s \in Orders[[c EXCEPT ![x] = @ - 1]]} :
                    x \in {y \in Keys : c[y] > 0}}

\* The outcomes of partitioning [lo, hi) of a so that the keys of s go left, each
\* side in any order: the resulting array and the returned boundary.  The sorts
\* rely on no more than this contract of the kernel they call.
PartitionOutcomes(a, s, lo, hi) ==
    {[array    |-> [p \in Pos |-> IF p \in lo .. hi - 1
                                  THEN (l \o r)[p - lo + 1] ELSE a[p]],
      boundary |-> lo + Len(l)] :
        l \in Orders[KeyCounts(a, s, lo, hi)],
        r \in Orders[KeyCounts(a, Keys \ s, lo, hi)]}

\* The contract itself, which every one of these outcomes meets: what a proof
\* about a caller may use, where Orders only serves to list them.
IsOutcome(o, a, s, lo, hi) ==
    /\ o.array \in [Pos -> Keys]
    /\ Rearranged(o.array, a, lo, hi)
    /\ Partitioned(o.array, s, lo, o.boundary, hi)
=============================================================================

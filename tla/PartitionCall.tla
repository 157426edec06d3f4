--------------------------- MODULE PartitionCall ---------------------------
(***************************************************************************)
(* Calling a partition kernel.  The callers (the drivers of the block      *)
(* kernels and the sorts) only rely on what PartitionContract promises, so *)
(* for them a call is one step that ends in any of the outcomes the        *)
(* contract allows; each kernel's module shows that it implements it.      *)
(***************************************************************************)
EXTENDS Ranges, TLC

\* The outcomes of partitioning [lo, hi) of a so that the elements of s go left:
\* the resulting array and the returned boundary.  Of the arrays that differ from
\* a in the order of the range, those that PartitionContract allows.
PartitionOutcomes(a, s, lo, hi) ==
    LET cells  == lo .. hi - 1
        arrays == {[p \in Pos |-> IF p \in cells THEN a[f[p]] ELSE a[p]] :
                      f \in Permutations(cells)}
    IN  {o \in [array : arrays, boundary : lo .. hi] :
            /\ Partitioned(o.array, s, lo, o.boundary, hi)
            /\ IsArrangement(o.array)}
=============================================================================

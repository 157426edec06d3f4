------------------------------ MODULE MCScalar ------------------------------
(***************************************************************************)
(* The two kernels that the others of the library end in, for model        *)
(* checking: Hoare's and, when it has returned, the gap kernel are called  *)
(* on copies of the same array, with the same range and comparator.        *)
(***************************************************************************)
EXTENDS Hoare

VARIABLES
    gv,                 \* the array of the gap kernel
    off, tmp, i, j,     \* what the gap kernel has beside Hoare's
    gpc                 \* its next statement

G == INSTANCE GapLomuto WITH v <- gv, pc <- gpc

ScalarInit == Init /\ G!Init

RunHoare == Next /\ UNCHANGED <<gv, off, tmp, i, j, gpc>>
RunGap   == pc = "done" /\ G!Next /\ UNCHANGED <<v, lo, hi, pc>>

ScalarNext == RunHoare \/ RunGap

ScalarSpec == ScalarInit /\ [][ScalarNext]_<<vars, gv, off, tmp, i, j, gpc>>
-----------------------------------------------------------------------------
\* While an element is lifted the gap is the only vacant cell, and the lifted
\* element is what is missing from the array (algorithms.hpp:98-105).
OneGap == G!OneGap

\* "[0,i) below, [i,j) not-below, gap at j" (offset_partition.hpp:33), and what of
\* it holds between the two moves of an iteration.
GapInvariant == G!GapInvariant

\* The cells gap_off may change, which gap_off_perm repairs its index from
\* (refactored_partitions_with_permutation.hpp:826-827).
Footprint == G!Footprint

\* The promise of concepts.hpp, which the gap kernel keeps.
GapImplements == G!Implements
=============================================================================

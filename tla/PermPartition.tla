--------------------------- MODULE PermPartition ---------------------------
(***************************************************************************)
(* The block partition with and without an index.                          *)
(* branchless_partition_perm of refactored_partitions_with_permutation is  *)
(* BranchlessPartition, guarded or unguarded, that also maintains the      *)
(* caller's inverse index perm[id(x)] == the cell x is in: index writes    *)
(* are added to the steps that move elements, both cells of an exchange    *)
(* right after it, all the cells of a rotation after its last move.        *)
(***************************************************************************)
EXTENDS BranchlessPartition

VARIABLES
    indexed,    \* the call is to branchless_partition_perm
    perm        \* perm_first[id(x)], an element being its own id

index    == <<indexed, perm>>
permVars == <<vars, index>>

PermInit ==
    /\ Init
    /\ indexed \in IF form \in {"guarded", "unguarded"} THEN BOOLEAN ELSE {FALSE}
    /\ perm = [x \in Pos |-> x]
-----------------------------------------------------------------------------
\* perm[id(*p)] = em(p) for each of the cells, after they were written
FixAt(cells) ==
    /\ indexed' = indexed
    /\ perm' = [x \in Pos |->
                   IF indexed /\ \E p \in cells : v'[p] = x
                   THEN CHOOSE p \in cells : v'[p] = x
                   ELSE perm[x]]

\* The cells of the pairs the current round exchanges.
PairCells ==
    {CellL(s) : s \in 0 .. Num - 1} \cup {CellR(s) : s \in 0 .. Num - 1}

\* A slip: the rotation's entries are mirrored by exchanging perm[id(*l)] and
\* perm[id(*r)] for every pair, the alternative refused at lines 321-328.
FixRotation_SlotSwaps ==
    /\ indexed' = indexed
    /\ perm' = [x \in Pos |->
                   IF indexed /\ \E s \in 0 .. Num - 1 : v'[CellL(s)] = x
                   THEN perm[v'[CellR(CHOOSE s \in 0 .. Num - 1 : v'[CellL(s)] = x)]]
                   ELSE IF indexed /\ \E s \in 0 .. Num - 1 : v'[CellR(s)] = x
                   THEN perm[v'[CellL(CHOOSE s \in 0 .. Num - 1 : v'[CellR(s)] = x)]]
                   ELSE perm[x]]

\* ... after the rotation, over all of its cells
FixRotation == FixAt(PairCells)

\* The steps that move no element, and those inside a rotation, write no entry.
NoEntry ==
    \/ SkipLeft \/ LeftStops \/ SkipRight \/ RightStops \/ AlreadyPartitioned
    \/ NewRound \/ FillLeft \/ VectorFillLeft \/ LeftFilled
    \/ FillRight \/ VectorFillRight \/ RightFilled
    \/ RotateOpen \/ RotateStep \/ Exchanged \/ Consume \/ RoundsEnd
    \/ LeftDrained \/ RightDrained \/ Terminating

FirstPairPerm  == FirstPair /\ FixAt({first, last})
SwapPairPerm   == SwapPair /\ FixAt({CellL(k), CellR(k)})
RotatePerm     == RotateClose /\ FixRotation
DrainLeftPerm  == DrainLeft /\ FixAt({CellL(numL - 1), last - 1})
DrainRightPerm == DrainRight /\ FixAt({CellR(numR - 1), first})

PermNext ==
    \/ NoEntry /\ UNCHANGED index
    \/ FirstPairPerm \/ SwapPairPerm \/ RotatePerm
    \/ DrainLeftPerm \/ DrainRightPerm

PermSpec == PermInit /\ [][PermNext]_permVars

\* Sequential code that never blocks: its next step is always taken.
PermFairSpec == PermSpec /\ WF_permVars(PermNext)
-----------------------------------------------------------------------------
\* "perm[id(x)] == position of x" holds after every exchange, drain and
\* rotation, not only on return: the index is exact whenever no rotation is in
\* progress (refactored_partitions_with_permutation.hpp:348-382, 640-661).
PermInverse ==
    indexed /\ pc # "rotate" => \A p \in Pos : perm[v[p]] = p
=============================================================================

------------------------------ MODULE ZeroOne ------------------------------
(***************************************************************************)
(* What a list of compare-exchanges does to every array of zeros and ones. *)
(* By the 0-1 principle a network that sorts, halves or selects for all of *)
(* these does so for every array.  The cells that no exchange has          *)
(* connected yet are independent of one another, so the arrays that can    *)
(* still occur are kept for each connected group of cells and multiplied   *)
(* out only when two groups are joined: this reaches 24 cells and more,    *)
(* where there are 2^24 inputs.                                            *)
(***************************************************************************)
EXTENDS Integers, Sequences, FiniteSets, TLC

\* Cells about which nothing is known, each a group of its own.
Unknown(cells) == {[cells |-> {c}, arrays |-> [{c} -> {0, 1}]] : c \in cells}

GroupOf(groups, c) == CHOOSE g \in groups : c \in g.cells

\* The groups of the cells in s made one.
Join(groups, s) ==
    LET joined == {g \in groups : g.cells \cap s # {}}
        all[rest \in SUBSET joined] ==
            IF rest = {} THEN {<<>>}
            ELSE LET g == CHOOSE x \in rest : TRUE
                 IN  {x @@ y : x \in g.arrays, y \in all[rest \ {g}]}
    IN  IF Cardinality(joined) = 1 THEN groups
        ELSE (groups \ joined) \cup
             {[cells |-> UNION {g.cells : g \in joined}, arrays |-> all[joined]]}

\* Op done to the cells in s, whichever arrays there are.
Step(groups, s, Op(_)) ==
    LET after == Join(groups, s)
        g     == GroupOf(after, CHOOSE c \in s : TRUE)
    IN  (after \ {g}) \cup {[cells |-> g.cells, arrays |-> {Op(x) : x \in g.arrays}]}

CompareExchange(a, i, j) == IF a[j] < a[i] THEN [a EXCEPT ![i] = a[j], ![j] = a[i]] ELSE a

Exchange(groups, i, j) ==
    LET op(x) == CompareExchange(x, i, j)
    IN  Step(groups, {i, j}, op)
=============================================================================

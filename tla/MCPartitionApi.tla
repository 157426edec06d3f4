--------------------------- MODULE MCPartitionApi ---------------------------
(***************************************************************************)
(* Calls for model checking: ranges that leave out at most one cell on     *)
(* either side, and ranges of at most one cell; foreign cells all go left  *)
(* or all do not.                                                          *)
(***************************************************************************)
EXTENDS PartitionApi

Calls ==
    /\ Init
    /\ \/ first <= 1 /\ last >= N - 1
       \/ first = 1 /\ last <= 2
    /\ \A p, q \in Pos \ (first .. last - 1) : p \in below <=> q \in below

\* A key that is converted compares as before; one that is not may compare in
\* whatever way after a conversion.
MCInit == Calls /\ KeyPreserved

MCSpec == MCInit /\ [][Next]_vars /\ WF_vars(Next)

\* ... any key
AnyKeySpec == Calls /\ [][Next]_vars
=============================================================================

----------------------- MODULE MCBranchlessPartition -----------------------
(***************************************************************************)
(* Ranges for model checking: a range of at least 2 * B + 3 elements makes *)
(* a second round refill one buffer while the other still holds offsets;   *)
(* short ranges cover the cases that never fill a block.  The range starts *)
(* at the array's first cell or after a foreign one, and may be followed   *)
(* by foreign cells, which all go left or all do not.                      *)
(***************************************************************************)
EXTENDS PermPartition

MCInit ==
    /\ PermInit
    /\ begin <= 1
    /\ end = N \/ end <= 4
    /\ \A p, q \in Pos \ (begin .. end - 1) : p \in below <=> q \in below

MCSpec == MCInit /\ [][PermNext]_permVars /\ WF_permVars(PermNext)
=============================================================================

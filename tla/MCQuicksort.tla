---------------------------- MODULE MCQuicksort ----------------------------
(***************************************************************************)
(* Calls for model checking.  The whole array, which is long enough for    *)
(* two frames of quicksort, gets the keys of FewKeys; the array without    *)
(* the foreign cells at its two ends gets every key, and the foreign cells *)
(* one that is not in FewKeys.                                             *)
(***************************************************************************)
EXTENDS Quicksort

CONSTANT FewKeys

MCInit ==
    /\ \/ first = 0 /\ last = N /\ v \in [Pos -> FewKeys]
       \/ /\ first = 1 /\ last = N - 2
          /\ v \in [Pos -> Keys] /\ v[0] \notin FewKeys /\ v[N - 2] = v[0] /\ v[N - 1] = v[0]
    /\ Init

MCSpec == MCInit /\ [][Next]_vars /\ WF_vars(Next)

\* The halvers of 2 to 14 cells, whichever of them HalveCutoff admits.
ASSUME HalversHalveTo14 == \A n \in 2 .. 14 : Halves(n)
=============================================================================

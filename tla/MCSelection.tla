---------------------------- MODULE MCSelection ----------------------------
(***************************************************************************)
(* quicksort_lr, the low-half extractions and select_nth, for model        *)
(* checking: a behaviour is one call, and the variables of the others keep *)
(* their initial values.  A long array gets the keys of FewKeys; an array  *)
(* without the foreign cells at its ends gets more, and the foreign cells  *)
(* a key that is not in FewKeys.                                           *)
(***************************************************************************)
EXTENDS Ranges, FiniteSets, Sequences

CONSTANTS
    Keys, FewKeys, HalfKeys,
    Threshold, NintherCutoff,
    LeafMax, MinHalf, SampleMin, SampleDiv, SampleMax,
    Group

VARIABLES
    algorithm, v, first, last, lo, hi, pc,
    stack, i,
    call, offset, key, samp, nth, ret,
    rank, store, lt, gt

Q == INSTANCE QuicksortLR
H == INSTANCE LowHalf
R == INSTANCE SelectNth

ASSUME SelectionParameters ==
    Q!ParameterAssumption /\ H!SampleAssumption /\ R!GroupAssumption

ofStack  == <<stack, i>>
ofSelect == <<key, nth, ret>>
ofHalf   == <<call, offset, samp>>
ofRank   == <<rank, store, lt, gt>>

allVars == <<algorithm, v, first, last, lo, hi, pc, ofStack, ofSelect, ofHalf, ofRank>>

Sorting == algorithm = "quicksort_lr"

Halving == algorithm = "low_half"
Ranking == algorithm = "select_nth"

sorts  == Sorting /\ UNCHANGED <<algorithm, ofSelect, ofHalf, ofRank>>
halves == Halving /\ UNCHANGED <<algorithm, ofStack, ofRank>>
ranks  == Ranking /\ UNCHANGED <<algorithm, ofHalf>>

\* An array that is not looked at: of the other algorithm, for a promise of one.
Still == [p \in Pos |-> CHOOSE x \in Keys : TRUE]

Arrays ==
    \/ first = 0 /\ last = N /\ v \in [Pos -> FewKeys]
    \/ first = 1 /\ last = N - 1 /\ v \in [Pos -> Keys] /\ v[0] = v[N - 1] /\ v[0] \notin FewKeys

NoHalf == call = "move" /\ offset = 0 /\ samp = Still
NoRank == rank = 0 /\ store = 0 /\ lt = 0 /\ gt = 0

SortCalls ==
    /\ algorithm = "quicksort_lr"
    /\ Arrays
    /\ NoHalf /\ NoRank /\ key = 0 /\ nth = 0 /\ ret = 0
    /\ Q!Init

\* The cells outside the range get a key that is not in HalfKeys.
Inner ==
    {[p \in Pos |-> IF p \in 1 .. N - 2 THEN s[p] ELSE 4] : s \in [1 .. N - 2 -> HalfKeys]}

\* What is not sampled is partitioned by contract first, so its order makes no
\* difference.
HalfCalls ==
    /\ algorithm = "low_half"
    /\ first = 1 /\ last = N - 1
    /\ v \in Inner
    /\ key \in {3, 4}
    /\ NoRank /\ stack = <<>> /\ i = 0
    /\ H!Init
    /\ H!Moves \/ offset \in {1, 3}
    /\ H!Exact \/ H!Suffix < SampleMin =>
          \A p, q \in 1 .. N - 2 : p < q => v[p] >= v[q]

RankCalls ==
    /\ algorithm = "select_nth"
    /\ \/ first = 0 /\ last = N /\ v \in [Pos -> FewKeys]
       \/ first = 1 /\ last = N - 1 /\ v \in Inner
    /\ NoHalf /\ key = 1
    /\ R!Init

MCInit == SortCalls \/ HalfCalls \/ RankCalls

MCNext ==
    \/ sorts /\ Q!Partition
    \/ sorts /\ Q!StartSelection
    \/ sorts /\ Q!SelectMin
    \/ sorts /\ Q!Pop
    \/ sorts /\ Q!Finish
    \/ halves /\ H!ShortOrExact
    \/ halves /\ H!TakeSample
    \/ halves /\ H!SelectTurn
    \/ halves /\ H!SelectLeaf
    \/ halves /\ H!ExactByKey
    \/ halves /\ H!RouteToEnd
    \/ halves /\ H!RouteToFront
    \/ ranks /\ R!SelectOnly
    \/ ranks /\ R!SortAndSelect
    \/ ranks /\ R!StartGroups
    \/ ranks /\ R!GatherMedian
    \/ ranks /\ R!MedianOfMedians
    \/ ranks /\ R!FlagLess
    \/ ranks /\ R!FlagGreater
    \/ ranks /\ R!FlagEqual
    \/ ranks /\ R!KeepLess
    \/ ranks /\ R!SelectEqual
    \/ ranks /\ R!KeepGreater
    \/ pc = "done" /\ UNCHANGED allVars

MCSpec == MCInit /\ [][MCNext]_allVars /\ WF_allVars(MCNext)
-----------------------------------------------------------------------------
\* The invariants of the three algorithms, stated in their modules.
StackInvariant  == Sorting => Q!StackInvariant
SpineBound      == Sorting => Q!SpineBound
SelectInvariant == (Halving => H!SelectInvariant) /\ (Ranking => R!RankInvariant)

\* "the array is finalised strictly front-to-back" (quicksort_lr.hpp:15-19).
\* select_nth finalises nothing, but rearranges its range and loses no element.
FrontToBack == INSTANCE FrontToBackSort WITH
    v     <- IF Halving THEN Still ELSE v,
    final <- IF ~Sorting THEN first
             ELSE CASE pc = "descend" -> lo
                    [] pc = "select"  -> i
                    [] OTHER          -> last

SortsFrontToBack == FrontToBack!Spec

\* The promise of move_low_half.hpp and offset_low_half.hpp: the k least elements
\* are brought to the end or to the front, k is half of those below the key in
\* the exact forms, and the call loses nothing.
Half == INSTANCE LowHalfContract WITH
    v        <- IF Halving THEN v ELSE Still,
    key      <- IF Halving THEN key ELSE 0,
    side     <- IF H!Moves THEN "end" ELSE "start",
    exact    <- Halving /\ (H!Exact \/ H!Suffix < SampleMin),
    returned <- Halving /\ pc = "done",
    ret      <- IF Halving /\ pc = "done" THEN ret ELSE 0

TakesLowHalf == Half!Spec

\* move_low_half takes something when a half is worth taking.
SomethingTaken == Halving => H!SomethingTaken

\* Every call returns, on heavily repeated keys too: a partition takes its pivot
\* out of what is looked at next.
Termination == <>(pc = "done")
=============================================================================

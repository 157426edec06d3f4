------------------------------ MODULE MCSmall -------------------------------
(***************************************************************************)
(* The small sorts and completions, and the pivot strategies, beside       *)
(* quicksort, for model checking: in a behaviour of MCSpec a call of one   *)
(* or of the other runs, and what only quicksort has keeps its initial     *)
(* values.                                                                 *)
(*                                                                         *)
(* Blocks of up to ZeroOneBound cells are sorted with every key of {0, 1}; *)
(* the completions and blocks of up to KeyBound cells get every key.  One  *)
(* cell of the array lies behind the longest block.                        *)
(***************************************************************************)
EXTENDS Quicksort, ZeroOne

CONSTANTS ZeroOneBound, KeyBound, PivotBlock

VARIABLES entry, key, n, k, i, j, tmp, t, gates, buf

S == INSTANCE SmallSort

VARIABLES strategy, len, samples, groups, wires, pick, at

P == INSTANCE Pivots WITH MaxBlock <- PivotBlock, n <- len, gates <- wires, pc <- at

smallVars == <<entry, key, v, n, k, i, j, lo, hi, tmp, t, gates, buf, pc>>

pivotVars == <<strategy, len, samples, groups, wires, pick, at>>

ASSUME SmallParameters == S!GatesAssumption /\ P!MaxBlockAssumption

idle == form = "forward" /\ first = 0 /\ last = 0 /\ frames = <<>>

idleVars == <<form, first, last, frames>>

allVars == <<smallVars, pivotVars, idleVars>>

\* The elements behind the block have a key that would be moved first.
SmallInit ==
    /\ entry \in S!Sorts \cup S!Extends \cup S!Merges
    /\ n \in 0 .. IF entry \in S!Sorts THEN ZeroOneBound ELSE KeyBound
    /\ \E f \in [0 .. n - 1 -> IF n <= KeyBound THEN Keys ELSE {0, 1}] :
          key = [p \in Pos |-> IF p < n THEN f[p] ELSE 0]
    /\ S!Init

NoSmall ==
    /\ entry = "sort" /\ n = 0 /\ k = 0 /\ key = [p \in Pos |-> 0] /\ v = [p \in Pos |-> p]
    /\ i = 0 /\ j = 0 /\ lo = 0 /\ hi = 0 /\ tmp = <<>> /\ t = 0
    /\ gates = <<>> /\ buf = <<>> /\ pc = "idle"

NoPivot ==
    /\ strategy = "first" /\ len = 1 /\ samples = <<>> /\ groups = {} /\ wires = <<>>
    /\ pick = 0 /\ at = "idle"

MCInit == ((SmallInit /\ NoPivot) \/ (P!Init /\ NoSmall)) /\ idle

MCNext ==
    \/ S!StartSort /\ UNCHANGED <<pivotVars, idleVars>>
    \/ S!RunGate /\ UNCHANGED <<pivotVars, idleVars>>
    \/ S!FinishSort /\ UNCHANGED <<pivotVars, idleVars>>
    \/ S!StartExtend /\ UNCHANGED <<gates, buf, pivotVars, idleVars>>
    \/ S!TakeKey /\ UNCHANGED <<gates, buf, pivotVars, idleVars>>
    \/ S!AllInserted /\ UNCHANGED <<gates, buf, pivotVars, idleVars>>
    \/ S!ShiftOne /\ UNCHANGED <<gates, buf, pivotVars, idleVars>>
    \/ S!ScanOne /\ UNCHANGED <<gates, buf, pivotVars, idleVars>>
    \/ S!Probe /\ UNCHANGED <<gates, buf, pivotVars, idleVars>>
    \/ S!Drop /\ UNCHANGED <<gates, buf, pivotVars, idleVars>>
    \/ S!NothingToMerge /\ UNCHANGED <<gates, buf, pivotVars, idleVars>>
    \/ S!CopyTail /\ UNCHANGED <<gates, buf, pivotVars, idleVars>>
    \/ S!MergeStep /\ UNCHANGED <<gates, buf, pivotVars, idleVars>>
    \/ S!SelectStep /\ UNCHANGED <<gates, buf, pivotVars, idleVars>>
    \/ S!Merged /\ UNCHANGED <<gates, buf, pivotVars, idleVars>>
    \/ P!FallBack /\ UNCHANGED <<smallVars, idleVars>>
    \/ P!Sample /\ UNCHANGED <<smallVars, idleVars>>
    \/ P!RunGate /\ UNCHANGED <<smallVars, idleVars>>
    \/ P!Return /\ UNCHANGED <<smallVars, idleVars>>
    \/ (pc = "done" \/ at = "done") /\ UNCHANGED allVars

MCSpec == MCInit /\ [][MCNext]_allVars /\ WF_allVars(MCNext)

-----------------------------------------------------------------------------
\* What the exchanges of net make of the groups, one after the other.
After(groups0, net) ==
    LET after[c \in 0 .. Len(net)] ==
            IF c = 0 THEN groups0
            ELSE UNION {Exchange(before, net[c][1], net[c][2]) : before \in {after[c - 1]}}
    IN  after[Len(net)]

\* Whatever net is given, it turns out a sorted array.
SortsZeroOne(net, size) ==
    \A g \in After(Unknown(0 .. size - 1), net) :
        /\ g.cells = 0 .. size - 1
        /\ \A a \in g.arrays : \A c \in 1 .. size - 1 : a[c - 1] <= a[c]

\* Every listed network, and the odd-even merge sort of as many cells (or one
\* more), sorts every array of zeros and ones, and so every array.
ASSUME NetworksSort ==
    /\ \A size \in 2 .. S!LargestNetwork : SortsZeroOne(S!Network(size), size)
    /\ \A size \in 2 .. S!LargestNetwork + 1 : SortsZeroOne(S!OemsSort(size), size)

\* While an element or a tail is copied out nothing is lost, an insertion leaves
\* no unsorted cell behind, and a block in registers keeps its elements.
SmallInvariant == S!SmallInvariant

\* Every small sort and completion returns a sorted block with the elements it had,
\* in stable order where that is promised.
SortsTheBlock == S!SortsTheBlock

\* Every sample a pivot strategy takes is in the block, and none is taken twice
\* from a block that is long enough.
SamplesInside == P!SamplesInside

\* The pivot that is returned has a middle rank among the samples.
RankBand == P!RankBand

\* Every sort, completion and choice of a pivot returns.
Returns == <>(pc = "done" \/ at = "done")
=============================================================================

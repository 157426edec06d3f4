------------------------ MODULE ScalarKernels_proofs ------------------------
(***************************************************************************)
(* Theorems about the kernels that move elements one at a time: hoare and  *)
(* hoare_rev, hoare_guarded::at, lomuto and scan_swap_off, and the gap     *)
(* kernels lomuto_branchless, lomuto_branchless_rev and gap_off, for an    *)
(* array of any size, any range, any predicate, any pivot position and any *)
(* prefix the caller promises.                                             *)
(***************************************************************************)
EXTENDS MCScalar, Ranges_proofs

VARIABLES pivot, store, cur

HG == INSTANCE HoareGuarded
LM == INSTANCE Lomuto

\* The cells of the instances are the cells of the array.
LEMMA GuardedCells == HG!Pos = Pos
BY DEF HG!Pos, Pos

LEMMA LomutoCells == LM!Pos = Pos
BY DEF LM!Pos, Pos
-----------------------------------------------------------------------------
(***************************************************************************)
(* hoare and hoare_rev.  Sandwich is inductive together with TypeOK: a     *)
(* step that moves a cursor has just learned the side of the element it    *)
(* passes, and the exchange puts on either side an element whose side the  *)
(* two scans have learned.                                                 *)
(***************************************************************************)
\* The inductive invariant.
IInv ==
    /\ TypeOK
    /\ IsArrangement(v)
    /\ Sandwich

\* The calls the specification starts with satisfy the invariant.
LEMMA InitIInv == Init => IInv
<1> SUFFICES ASSUME Init PROVE IInv
  OBVIOUS
<1> USE NAssumption DEF Init
<1>1. TypeOK
  BY DEF TypeOK, Pos
<1>2. IsArrangement(v)
  BY DEF IsArrangement, Pos
<1>3. Sandwich
  BY DEF Sandwich, AllIn, NoneIn
<1> QED
  BY <1>1, <1>2, <1>3 DEF IInv

\* Every step keeps the cursors in the range (no foreign element is read).
LEMMA TypeStep == TypeOK /\ Sandwich /\ [Next]_vars => TypeOK'
<1> SUFFICES ASSUME TypeOK, Sandwich, [Next]_vars PROVE TypeOK'
  OBVIOUS
<1> USE NAssumption DEF TypeOK, args
<1>1. CASE ScanLeft
  BY <1>1 DEF ScanLeft
<1>2. CASE LeftStops
  BY <1>2 DEF LeftStops
<1>3. CASE ScanRight
  BY <1>3 DEF ScanRight
<1>4. CASE Return
  BY <1>4 DEF Return
<1>5. CASE Exchange
  <2>1. lo \in Pos /\ hi - 1 \in Pos
    BY <1>5 DEF Exchange, Pos
  <2>2. v' \in [Pos -> Pos]
    BY <2>1, <1>5, SwapCells DEF Exchange
  \* the two cursors stopped at different elements
  <2>3. lo < hi - 1
    BY <1>5 DEF Exchange, Sandwich
  <2> QED
    BY <2>2, <2>3, <1>5 DEF Exchange
<1>6. CASE Terminating
  BY <1>6 DEF Terminating, vars
<1>7. CASE UNCHANGED vars
  BY <1>7 DEF vars
<1> QED
  BY <1>1, <1>2, <1>3, <1>4, <1>5, <1>6, <1>7 DEF Next

\* The exchange, the one step that moves elements: the array stays an
\* arrangement, and only the two cells at the cursors, both in the range, change.
LEMMA ExchangeMoves ==
    ASSUME TypeOK, IsArrangement(v), Exchange
    PROVE  /\ IsArrangement(v')
           /\ lo \in Pos /\ hi - 1 \in Pos
           /\ lo \in first .. last - 1 /\ hi - 1 \in first .. last - 1
           /\ v'[lo] = v[hi - 1] /\ v'[hi - 1] = v[lo]
           /\ \A p \in Pos : p # lo /\ p # hi - 1 => v'[p] = v[p]
<1>1. lo \in Pos /\ hi - 1 \in Pos
  BY NAssumption DEF Exchange, Pos, TypeOK
<1>2. lo \in first .. last - 1 /\ hi - 1 \in first .. last - 1
  BY NAssumption DEF Exchange, TypeOK
<1>3. v' = Swap(v, lo, hi - 1) /\ v \in [Pos -> Pos]
  BY DEF Exchange, TypeOK
<1>4. IsArrangement(v')
  BY <1>1, <1>3, SwapArrangement
<1>5. /\ v'[lo] = v[hi - 1] /\ v'[hi - 1] = v[lo]
      /\ \A p \in Pos : p # lo /\ p # hi - 1 => v'[p] = v[p]
  BY <1>1, <1>3, SwapCells
<1> QED
  BY <1>1, <1>2, <1>4, <1>5

\* The elements that go left are an argument of the call.
LEMMA GoesLeftFixed == ASSUME [Next]_vars PROVE GoesLeft' = GoesLeft
BY DEF GoesLeft, Next, vars, args, ScanLeft, LeftStops, ScanRight, Return,
       Exchange, Terminating

\* Every step keeps the loop invariant.
LEMMA SandwichStep == IInv /\ [Next]_vars => Sandwich'
<1> SUFFICES ASSUME IInv, [Next]_vars PROVE Sandwich'
  OBVIOUS
<1>0. GoesLeft' = GoesLeft
  BY GoesLeftFixed
<1>t. TypeOK /\ Sandwich /\ IsArrangement(v)
  BY DEF IInv
<1> USE NAssumption DEF TypeOK, Sandwich, AllIn, NoneIn, args
<1>1. CASE ScanLeft
  BY <1>0, <1>t, <1>1 DEF ScanLeft
<1>2. CASE LeftStops
  BY <1>0, <1>t, <1>2 DEF LeftStops
<1>3. CASE ScanRight
  BY <1>0, <1>t, <1>3 DEF ScanRight
<1>4. CASE Return
  BY <1>0, <1>t, <1>4 DEF Return
<1>5. CASE Exchange
  <2>1. /\ lo \in Int /\ hi \in Int /\ first \in Int /\ last \in Int
        /\ 0 <= first /\ first <= lo /\ lo < hi /\ hi <= last /\ last <= N
        /\ v[lo] \notin GoesLeft /\ v[hi - 1] \in GoesLeft
        /\ lo' = lo + 1 /\ hi' = hi - 1 /\ first' = first /\ last' = last
        /\ pc' = "left"
    BY <1>t, <1>5 DEF Exchange
  <2>2. /\ v'[lo] = v[hi - 1] /\ v'[hi - 1] = v[lo]
        /\ \A p \in Pos : p # lo /\ p # hi - 1 => v'[p] = v[p]
    BY <1>t, <1>5, ExchangeMoves
  <2>3. ASSUME NEW p \in first .. lo PROVE v'[p] \in GoesLeft
    <3>1. CASE p = lo
      BY <2>1, <2>2, <3>1
    <3>2. CASE p # lo
      BY <1>t, <2>1, <2>2, <3>2 DEF Pos
    <3> QED
      BY <3>1, <3>2
  <2>4. ASSUME NEW p \in hi - 1 .. last - 1 PROVE v'[p] \notin GoesLeft
    <3>1. CASE p = hi - 1
      BY <2>1, <2>2, <3>1
    <3>2. CASE p # hi - 1
      <4>1. p \in hi .. last - 1 /\ p \in Pos /\ p # lo
        BY <2>1, <3>2 DEF Pos
      <4>2. v[p] \notin GoesLeft
        BY <1>t, <4>1
      <4> QED
        BY <2>2, <3>2, <4>1, <4>2
    <3> QED
      BY <3>1, <3>2
  <2> QED
    BY <1>0, <2>1, <2>3, <2>4
<1>6. CASE Terminating
  BY <1>0, <1>t, <1>6 DEF Terminating, vars
<1>7. CASE UNCHANGED vars
  BY <1>0, <1>t, <1>7 DEF vars
<1> QED
  BY <1>1, <1>2, <1>3, <1>4, <1>5, <1>6, <1>7 DEF Next

\* No step loses or duplicates an element.
LEMMA ArrangementStep == IInv /\ [Next]_vars => IsArrangement(v)'
<1> SUFFICES ASSUME IInv, [Next]_vars PROVE IsArrangement(v')
  BY DEF IsArrangement, Pos
<1>1. CASE Exchange
  BY <1>1, ExchangeMoves DEF IInv
<1>2. CASE ~Exchange
  <2>1. v' = v
    BY <1>2 DEF Next, vars, ScanLeft, LeftStops, ScanRight, Return, Terminating
  <2> QED
    BY <2>1 DEF IInv
<1> QED
  BY <1>1, <1>2

\* The conjunction is inductive, so it is an invariant of every call.
LEMMA IInvStep == IInv /\ [Next]_vars => IInv'
BY TypeStep, SandwichStep, ArrangementStep DEF IInv

LEMMA Invariance == Spec => []IInv
<1>1. Init => IInv
  BY InitIInv
<1>2. IInv /\ [Next]_vars => IInv'
  BY IInvStep
<1> QED
  BY <1>1, <1>2, PTL DEF Spec
-----------------------------------------------------------------------------
\* hoare and hoare_rev never move a cursor out of the range they were called
\* on, so they read no element outside it, whatever the input.
THEOREM TypeCorrect == Spec => []TypeOK
<1>1. IInv => TypeOK
  BY DEF IInv
<1> QED
  BY <1>1, Invariance, PTL

\* At every moment what the cursors have passed is on its side of the boundary,
\* whatever the input.
THEOREM SandwichHolds == Spec => []Sandwich
<1>1. IInv => Sandwich
  BY DEF IInv
<1> QED
  BY <1>1, Invariance, PTL
-----------------------------------------------------------------------------
\* Where the two cursors stand at an exchange, the final boundary lies behind the
\* cell at lo and not behind the one at hi - 1: the cells up to lo are filled
\* with elements that go left, and those that go left fit before hi - 1.
LEMMA BoundaryBetween ==
    ASSUME IInv, Exchange
    PROVE  Boundary \in Int /\ lo < Boundary /\ Boundary <= hi - 1
<1> DEFINE left == {p \in first .. last - 1 : v[p] \in GoesLeft}
           got  == (first .. lo - 1) \cup {hi - 1}
           room == (first .. hi - 1) \ {lo}
<1>1. /\ first \in Int /\ lo \in Int /\ hi \in Int /\ last \in Int
      /\ first <= lo /\ lo < hi - 1 /\ hi <= last
      /\ v[lo] \notin GoesLeft /\ v[hi - 1] \in GoesLeft
  BY NAssumption DEF IInv, TypeOK, Sandwich, Exchange
<1>2. IsFiniteSet(left)
  <2>1. IsFiniteSet(first .. last - 1) /\ left \in SUBSET (first .. last - 1)
    BY <1>1, FS_Interval
  <2> QED
    BY <2>1, FS_Subset
<1>3. got \subseteq left
  BY <1>1 DEF IInv, Sandwich, AllIn
<1>4. left \subseteq room
  BY <1>1 DEF IInv, Sandwich, NoneIn
<1>5. IsFiniteSet(got) /\ Cardinality(got) = lo - first + 1
  <2>1. IsFiniteSet(first .. lo - 1) /\ Cardinality(first .. lo - 1) = lo - first
    BY <1>1, FS_Interval
  <2>2. hi - 1 \notin first .. lo - 1
    BY <1>1
  <2> QED
    BY <2>1, <2>2, FS_AddElement
<1>6. IsFiniteSet(room) /\ Cardinality(room) = hi - first - 1
  <2>1. IsFiniteSet(first .. hi - 1) /\ Cardinality(first .. hi - 1) = hi - first
    BY <1>1, FS_Interval
  <2>2. lo \in first .. hi - 1
    BY <1>1
  <2> QED
    BY <1>1, <2>1, <2>2, FS_RemoveElement
<1>7. Cardinality(got) <= Cardinality(left) /\ Cardinality(left) <= Cardinality(room)
  BY <1>2, <1>3, <1>4, <1>6, FS_Subset
<1>8. Cardinality(left) \in Nat
  BY <1>2, FS_CardinalityType
<1>9. Boundary = first + Cardinality(left)
  BY DEF Boundary
<1> QED
  BY <1>1, <1>5, <1>6, <1>7, <1>8, <1>9

\* A step that changes a cell exchanges two elements that are both out of place.
LEMMA MovesHomeStep ==
    ASSUME IInv, Exchange, NEW p \in Pos, v'[p] # v[p]
    PROVE  /\ p \in first .. last - 1
           /\ v'[p] \in GoesLeft <=> p < Boundary
           /\ ~(v[p] \in GoesLeft <=> p < Boundary)
<1>1. Boundary \in Int /\ lo < Boundary /\ Boundary <= hi - 1
  BY BoundaryBetween
<1>2. /\ lo \in first .. last - 1 /\ hi - 1 \in first .. last - 1
      /\ v'[lo] = v[hi - 1] /\ v'[hi - 1] = v[lo]
      /\ p = lo \/ p = hi - 1
  BY ExchangeMoves DEF IInv
<1>3. v[lo] \notin GoesLeft /\ v[hi - 1] \in GoesLeft
  BY DEF IInv, Sandwich, Exchange
<1>4. CASE p = lo
  <2>1. p < Boundary
    BY <1>1, <1>4
  <2> QED
    BY <1>2, <1>3, <1>4, <2>1
<1>5. CASE p = hi - 1
  <2>1. ~(p < Boundary)
    BY <1>1, <1>2, <1>5
  <2> QED
    BY <1>2, <1>3, <1>5, <2>1
<1> QED
  BY <1>2, <1>4, <1>5

\* An element is moved at most once, and only to the side it ends on: hoare does
\* not exchange more elements than are on the wrong side.
THEOREM MovesHomeHolds == Spec => MovesHome
<1>1. IInv /\ [Next]_vars =>
        [\A p \in Pos :
            v'[p] # v[p] => /\ p \in first .. last - 1
                            /\ v'[p] \in GoesLeft <=> p < Boundary
                            /\ ~(v[p] \in GoesLeft <=> p < Boundary)]_vars
  <2> SUFFICES ASSUME IInv, Next, NEW p \in Pos, v'[p] # v[p]
               PROVE  /\ p \in first .. last - 1
                      /\ v'[p] \in GoesLeft <=> p < Boundary
                      /\ ~(v[p] \in GoesLeft <=> p < Boundary)
    OBVIOUS
  <2>1. Exchange
    BY DEF Next, ScanLeft, LeftStops, ScanRight, Return, Terminating, vars
  <2> QED
    BY <2>1, MovesHomeStep
<1> QED
  BY <1>1, Invariance, PTL DEF Spec, MovesHome
-----------------------------------------------------------------------------
\* A call begins as a call of the abstract partition.
LEMMA RefineInit == Init => Contract!Init
<1> SUFFICES ASSUME Init PROVE Contract!Init
  OBVIOUS
<1>1. GoesLeft \in SUBSET Pos
  BY DEF Init, GoesLeft
<1> QED
  BY <1>1 DEF Init, Contract!Init, Contract!Pos, Pos

\* A step of a call is a step of the abstract partition, or invisible to it.
LEMMA RefineStep == IInv /\ IInv' /\ [Next]_vars => [Contract!Next]_Contract!vars
<1> SUFFICES ASSUME IInv, IInv', [Next]_vars
             PROVE  Contract!Next \/ UNCHANGED Contract!vars
  OBVIOUS
<1>0. GoesLeft' = GoesLeft
  BY GoesLeftFixed
<1>1. CASE Exchange
  <2>1. IsArrangement(v')
    BY <1>1, ExchangeMoves DEF IInv
  <2>2. ASSUME NEW p \in Pos, p \notin first .. last - 1 PROVE v[p] = v'[p]
    BY <1>1, <2>2, ExchangeMoves DEF IInv
  <2>3. Contract!Rearranges
    BY <2>1, <2>2 DEF Contract!Rearranges, Contract!IsArrangement,
       Contract!SameOutside, Contract!Pos, IsArrangement, Pos
  <2>4. pc # "done" /\ pc' # "done" /\ UNCHANGED <<first, last>>
    BY <1>1 DEF Exchange, args
  <2> QED
    BY <1>0, <2>3, <2>4 DEF Contract!Next, Contract!Work
<1>2. CASE Return
  <2>1. pc # "done" /\ pc' = "done" /\ UNCHANGED <<v, first, last, lo, hi>> /\ lo = hi
    BY <1>2 DEF Return, args
  <2>2. Contract!Rearranges
    BY <2>1 DEF Contract!Rearranges, Contract!IsArrangement,
       Contract!SameOutside, Contract!Pos, IsArrangement, Pos, IInv
  <2>3. Contract!Partitioned(v', GoesLeft, first, lo', last)
    BY <2>1 DEF Contract!Partitioned, Contract!AllIn, Contract!NoneIn,
       IInv, TypeOK, Sandwich, AllIn, NoneIn
  <2> QED
    BY <1>0, <2>1, <2>2, <2>3 DEF Contract!Next, Contract!Return
<1>3. CASE ScanLeft \/ LeftStops \/ ScanRight \/ Terminating \/ UNCHANGED vars
  <2>1. UNCHANGED <<v, first, last>> /\ ((pc = "done") <=> (pc' = "done"))
        /\ (pc = "done" => lo' = lo)
    BY <1>3 DEF ScanLeft, LeftStops, ScanRight, Terminating, vars, args
  <2> QED
    BY <1>0, <2>1 DEF Contract!vars
<1> QED
  BY <1>1, <1>2, <1>3 DEF Next

\* hoare and hoare_rev implement the abstract partition of concepts.hpp: only
\* the range is rearranged, nothing is lost, and when the call returns the
\* elements before the boundary go left and those after it do not.
THEOREM Implementation == Spec => Implements
<1>1. Init => Contract!Init
  BY RefineInit
<1>2. IInv /\ IInv' /\ [Next]_vars => [Contract!Next]_Contract!vars
  BY RefineStep
<1> QED
  BY <1>1, <1>2, Invariance, PTL DEF Spec, Implements, Contract!Spec
-----------------------------------------------------------------------------
(***************************************************************************)
(* hoare_guarded::at.  The ascending scan has no bound.  What stops it is  *)
(* the pivot, which is not below itself and is moved behind everything     *)
(* else, and after each exchange the element that was just put at hi.      *)
(***************************************************************************)
\* The pivot, until it is moved, is still what its position names.
GuardedAtPivot == pc = "guard" => lo = first /\ v[pivot] \notin below

\* The descending cursor has left the end of the range for good.
GuardedLeftEnd == pc = "down" => hi < last

\* The inductive invariant.
GuardedIInv ==
    /\ HG!TypeOK
    /\ IsArrangement(v)
    /\ HG!Guarded
    /\ HG!Sandwich
    /\ GuardedAtPivot /\ GuardedLeftEnd

\* The calls the specification starts with satisfy the invariant.
LEMMA GuardedInitIInv == HG!Init => GuardedIInv
<1> SUFFICES ASSUME HG!Init PROVE GuardedIInv
  OBVIOUS
<1> USE NAssumption
<1>1. HG!TypeOK
  BY DEF HG!Init, HG!TypeOK, HG!Pos
<1>2. IsArrangement(v)
  BY DEF HG!Init, IsArrangement, Pos, HG!Pos
<1>3. HG!Guarded /\ GuardedAtPivot /\ GuardedLeftEnd
  BY DEF HG!Init, HG!Guarded, GuardedAtPivot, GuardedLeftEnd
<1>4. HG!Sandwich
  <2>1. lo = first /\ first \in Int /\ pc = "guard"
    BY DEF HG!Init
  <2> QED
    BY <2>1 DEF HG!Sandwich, HG!AllIn
<1> QED
  BY <1>1, <1>2, <1>3, <1>4 DEF GuardedIInv

\* What the two steps that move elements do to the array.
LEMMA GuardedGuardMoves ==
    ASSUME HG!TypeOK, IsArrangement(v), HG!Guard
    PROVE  /\ IsArrangement(v') /\ v' \in [Pos -> Pos]
           /\ pivot \in first .. last - 1 /\ last - 1 \in first .. last - 1
           /\ v'[last - 1] = v[pivot]
           /\ \A p \in Pos : p # pivot /\ p # last - 1 => v'[p] = v[p]
<1>1. pivot \in first .. last - 1 /\ last - 1 \in first .. last - 1
  BY NAssumption DEF HG!TypeOK, Pos, HG!Pos
<1>2. pivot \in Pos /\ last - 1 \in Pos
  BY <1>1, NAssumption DEF HG!TypeOK, Pos, HG!Pos
<1>3. v' = Swap(v, pivot, last - 1) /\ v \in [Pos -> Pos]
  BY DEF HG!Guard, HG!TypeOK, Swap, HG!Swap, Pos, HG!Pos
<1>4. IsArrangement(v')
  BY <1>2, <1>3, SwapArrangement
<1>5. /\ v' \in [Pos -> Pos]
      /\ v'[last - 1] = v[pivot]
      /\ \A p \in Pos : p # pivot /\ p # last - 1 => v'[p] = v[p]
  BY <1>2, <1>3, SwapCells
<1> QED
  BY <1>1, <1>4, <1>5

LEMMA GuardedExchangeMoves ==
    ASSUME HG!TypeOK, IsArrangement(v), GuardedLeftEnd, HG!Exchange
    PROVE  /\ IsArrangement(v') /\ v' \in [Pos -> Pos]
           /\ lo \in first .. last - 1 /\ hi \in lo + 1 .. last - 1
           /\ v'[lo] = v[hi] /\ v'[hi] = v[lo]
           /\ \A p \in Pos : p # lo /\ p # hi => v'[p] = v[p]
<1>1. lo \in first .. last - 1 /\ hi \in lo + 1 .. last - 1
  BY NAssumption DEF HG!Exchange, HG!TypeOK, GuardedLeftEnd, Pos, HG!Pos
<1>2. lo \in Pos /\ hi \in Pos
  BY <1>1, NAssumption DEF HG!TypeOK, Pos, HG!Pos
<1>3. v' = Swap(v, lo, hi) /\ v \in [Pos -> Pos]
  BY DEF HG!Exchange, HG!TypeOK, Swap, HG!Swap, Pos, HG!Pos
<1>4. IsArrangement(v')
  BY <1>2, <1>3, SwapArrangement
<1>5. /\ v' \in [Pos -> Pos]
      /\ v'[lo] = v[hi] /\ v'[hi] = v[lo]
      /\ \A p \in Pos : p # lo /\ p # hi => v'[p] = v[p]
  BY <1>2, <1>3, SwapCells
<1> QED
  BY <1>1, <1>4, <1>5

\* The scan that reads an element of the left side is not at the guard: it
\* cannot pass it.
LEMMA GuardedSkipStaysBelowGuard == GuardedIInv /\ HG!SkipUp => lo < hi
<1> SUFFICES ASSUME GuardedIInv, HG!SkipUp PROVE lo < hi
  OBVIOUS
<1>1. lo <= hi /\ v[hi] \notin below /\ v[lo] \in below
  BY DEF GuardedIInv, HG!Guarded, HG!SkipUp
<1>2. lo \in Int /\ hi \in Int
  BY NAssumption DEF GuardedIInv, HG!TypeOK, Pos, HG!Pos
<1> QED
  BY <1>1, <1>2

\* Every step keeps the cursors in the range.
LEMMA GuardedTypeStep == GuardedIInv /\ [HG!Next]_HG!vars => HG!TypeOK'
<1> SUFFICES ASSUME GuardedIInv, [HG!Next]_HG!vars PROVE HG!TypeOK'
  OBVIOUS
<1>t. HG!TypeOK /\ IsArrangement(v) /\ HG!Guarded /\ GuardedLeftEnd
  BY DEF GuardedIInv
<1> USE NAssumption DEF HG!args
<1>1. CASE HG!Guard
  <2>1. v' \in [Pos -> Pos]
    BY <1>t, <1>1, GuardedGuardMoves
  <2> QED
    BY <1>t, <1>1, <2>1, GuardedCells DEF HG!Guard, HG!TypeOK
<1>2. CASE HG!SkipUp
  <2>1. lo < hi
    BY <1>2, GuardedSkipStaysBelowGuard
  <2> QED
    BY <1>t, <1>2, <2>1 DEF HG!SkipUp, HG!TypeOK, HG!Guarded
<1>3. CASE HG!UpStops
  BY <1>t, <1>3 DEF HG!UpStops, HG!TypeOK, HG!Guarded
<1>4. CASE HG!SkipDown
  BY <1>t, <1>4 DEF HG!SkipDown, HG!TypeOK
<1>5. CASE HG!Return
  BY <1>t, <1>5 DEF HG!Return, HG!TypeOK
<1>6. CASE HG!Exchange
  <2>1. v' \in [Pos -> Pos] /\ lo \in first .. last - 1 /\ hi \in lo + 1 .. last - 1
    BY <1>t, <1>6, GuardedExchangeMoves
  <2> QED
    BY <1>t, <1>6, <2>1, GuardedCells DEF HG!Exchange, HG!TypeOK
<1>7. CASE HG!Terminating \/ UNCHANGED HG!vars
  BY <1>t, <1>7 DEF HG!Terminating, HG!vars, HG!TypeOK
<1> QED
  BY <1>1, <1>2, <1>3, <1>4, <1>5, <1>6, <1>7 DEF HG!Next

\* Whenever the scan without a bound goes on, something stops it.
LEMMA GuardedGuardStep == GuardedIInv /\ [HG!Next]_HG!vars => HG!Guarded' /\ GuardedAtPivot' /\ GuardedLeftEnd'
<1> SUFFICES ASSUME GuardedIInv, [HG!Next]_HG!vars PROVE HG!Guarded' /\ GuardedAtPivot' /\ GuardedLeftEnd'
  OBVIOUS
<1>t. /\ HG!TypeOK /\ IsArrangement(v)
      /\ HG!Guarded /\ HG!Sandwich /\ GuardedAtPivot /\ GuardedLeftEnd
  BY DEF GuardedIInv
<1> USE NAssumption DEF HG!args
<1>1. CASE HG!Guard
  <2>1. v'[last - 1] = v[pivot]
    BY <1>t, <1>1, GuardedGuardMoves
  <2> QED
    BY <1>t, <1>1, <2>1 DEF HG!Guard, HG!Guarded, GuardedAtPivot, GuardedLeftEnd,
       HG!TypeOK, Pos, HG!Pos
<1>2. CASE HG!SkipUp
  <2>1. lo < hi
    BY <1>2, GuardedSkipStaysBelowGuard
  <2> QED
    BY <1>t, <1>2, <2>1 DEF HG!SkipUp, HG!Guarded, GuardedAtPivot, GuardedLeftEnd,
       HG!TypeOK, Pos, HG!Pos
<1>3. CASE HG!UpStops
  BY <1>t, <1>3 DEF HG!UpStops, HG!Guarded, GuardedAtPivot, GuardedLeftEnd,
     HG!TypeOK, Pos, HG!Pos
<1>4. CASE HG!SkipDown
  BY <1>t, <1>4 DEF HG!SkipDown, HG!Guarded, GuardedAtPivot, GuardedLeftEnd,
     HG!TypeOK, Pos, HG!Pos
<1>5. CASE HG!Return
  BY <1>t, <1>5 DEF HG!Return, HG!Guarded, GuardedAtPivot, GuardedLeftEnd
<1>6. CASE HG!Exchange
  <2>1. lo \in first .. last - 1 /\ hi \in lo + 1 .. last - 1 /\ v'[hi] = v[lo]
    BY <1>t, <1>6, GuardedExchangeMoves
  <2>2. v[lo] \notin below
    BY <1>t, <1>6 DEF HG!Exchange, HG!Sandwich, AllIn, HG!AllIn, NoneIn, HG!NoneIn
  <2> QED
    BY <1>t, <1>6, <2>1, <2>2 DEF HG!Exchange, HG!Guarded, GuardedAtPivot,
       GuardedLeftEnd, HG!TypeOK, Pos, HG!Pos
<1>7. CASE HG!Terminating \/ UNCHANGED HG!vars
  BY <1>t, <1>7 DEF HG!Terminating, HG!vars, HG!Guarded, GuardedAtPivot,
     GuardedLeftEnd
<1> QED
  BY <1>1, <1>2, <1>3, <1>4, <1>5, <1>6, <1>7 DEF HG!Next

\* Every step keeps what the cursors have passed on its side.
LEMMA GuardedSandwichStep == GuardedIInv /\ [HG!Next]_HG!vars => HG!Sandwich'
<1> SUFFICES ASSUME GuardedIInv, [HG!Next]_HG!vars PROVE HG!Sandwich'
  OBVIOUS
<1>t. /\ HG!TypeOK /\ IsArrangement(v)
      /\ HG!Guarded /\ HG!Sandwich /\ GuardedAtPivot /\ GuardedLeftEnd
  BY DEF GuardedIInv
<1> USE NAssumption DEF HG!args, AllIn, NoneIn, HG!AllIn, HG!NoneIn
<1>1. CASE HG!Guard
  <2>1. v'[last - 1] = v[pivot]
    BY <1>t, <1>1, GuardedGuardMoves
  <2> QED
    BY <1>t, <1>1, <2>1 DEF HG!Guard, HG!Sandwich, GuardedAtPivot, HG!TypeOK, AllIn,
       HG!AllIn, NoneIn, HG!NoneIn, Pos, HG!Pos
<1>2. CASE HG!SkipUp
  BY <1>t, <1>2 DEF HG!SkipUp, HG!Sandwich, HG!TypeOK, AllIn, HG!AllIn, NoneIn,
     HG!NoneIn, Pos, HG!Pos
<1>3. CASE HG!UpStops
  BY <1>t, <1>3 DEF HG!UpStops, HG!Sandwich, HG!TypeOK, AllIn, HG!AllIn, NoneIn,
     HG!NoneIn, Pos, HG!Pos
<1>4. CASE HG!SkipDown
  BY <1>t, <1>4 DEF HG!SkipDown, HG!Sandwich, HG!TypeOK, AllIn, HG!AllIn, NoneIn,
     HG!NoneIn, Pos, HG!Pos
<1>5. CASE HG!Return
  BY <1>t, <1>5 DEF HG!Return, HG!Sandwich, HG!TypeOK, AllIn, HG!AllIn, NoneIn,
     HG!NoneIn, Pos, HG!Pos
<1>6. CASE HG!Exchange
  <2>1. /\ first \in Int /\ last \in Int /\ lo \in Int /\ hi \in Int
        /\ 0 <= first /\ first <= lo /\ lo < hi /\ hi < last /\ last <= N
        /\ v[hi] \in below /\ v[lo] \notin below
        /\ UNCHANGED <<below, first, last, hi>> /\ lo' = lo + 1 /\ pc' = "up"
    BY <1>t, <1>6 DEF HG!Exchange, HG!TypeOK, HG!Sandwich, GuardedLeftEnd, Pos,
       HG!Pos, AllIn, HG!AllIn, NoneIn, HG!NoneIn
  <2>2. /\ v'[lo] = v[hi] /\ v'[hi] = v[lo]
        /\ \A p \in Pos : p # lo /\ p # hi => v'[p] = v[p]
    BY <1>t, <1>6, GuardedExchangeMoves
  <2>3. ASSUME NEW p \in first .. lo PROVE v'[p] \in below
    <3>1. CASE p = lo
      BY <2>1, <2>2, <3>1
    <3>2. CASE p # lo
      BY <1>t, <2>1, <2>2, <3>2 DEF Pos, HG!Sandwich, HG!Pos, AllIn, HG!AllIn,
         NoneIn, HG!NoneIn
    <3> QED
      BY <3>1, <3>2
  <2>4. ASSUME NEW p \in hi .. last - 1 PROVE v'[p] \notin below
    <3>1. CASE p = hi
      BY <2>1, <2>2, <3>1
    <3>2. CASE p # hi
      BY <1>t, <1>6, <2>1, <2>2, <3>2 DEF HG!Exchange, Pos, HG!Sandwich, HG!Pos,
         AllIn, HG!AllIn, NoneIn, HG!NoneIn
    <3> QED
      BY <3>1, <3>2
  <2> QED
    BY <2>1, <2>3, <2>4 DEF HG!Sandwich, AllIn, HG!AllIn, NoneIn, HG!NoneIn
<1>7. CASE HG!Terminating \/ UNCHANGED HG!vars
  BY <1>t, <1>7 DEF HG!Terminating, HG!vars, HG!Sandwich, AllIn, HG!AllIn, NoneIn,
     HG!NoneIn
<1> QED
  BY <1>1, <1>2, <1>3, <1>4, <1>5, <1>6, <1>7 DEF HG!Next

\* No step loses or duplicates an element.
LEMMA GuardedArrangementStep == GuardedIInv /\ [HG!Next]_HG!vars => IsArrangement(v)'
<1> SUFFICES ASSUME GuardedIInv, [HG!Next]_HG!vars PROVE IsArrangement(v')
  BY DEF IsArrangement, Pos, HG!IsArrangement, HG!Pos
<1>1. CASE HG!Guard
  BY <1>1, GuardedGuardMoves DEF GuardedIInv
<1>2. CASE HG!Exchange
  BY <1>2, GuardedExchangeMoves DEF GuardedIInv
<1>3. CASE ~HG!Guard /\ ~HG!Exchange
  <2>1. v' = v
    BY <1>3 DEF HG!Next, HG!vars, HG!SkipUp, HG!UpStops, HG!SkipDown, HG!Return,
       HG!Terminating
  <2> QED
    BY <2>1 DEF GuardedIInv
<1> QED
  BY <1>1, <1>2, <1>3

\* The conjunction is inductive, so it is an invariant of every call.
LEMMA GuardedIInvStep == GuardedIInv /\ [HG!Next]_HG!vars => GuardedIInv'
BY GuardedTypeStep, GuardedGuardStep, GuardedSandwichStep, GuardedArrangementStep DEF
   GuardedIInv

LEMMA GuardedInvariance == HG!Spec => []GuardedIInv
<1>1. HG!Init => GuardedIInv
  BY GuardedInitIInv
<1>2. GuardedIInv /\ [HG!Next]_HG!vars => GuardedIInv'
  BY GuardedIInvStep
<1> QED
  BY <1>1, <1>2, PTL DEF HG!Spec
-----------------------------------------------------------------------------
\* The cursors stay in the range and the two sides grow towards each other.
THEOREM GuardedSandwichHolds == HG!Spec => [](HG!TypeOK /\ HG!Sandwich)
<1>1. GuardedIInv => HG!TypeOK /\ HG!Sandwich
  BY DEF GuardedIInv
<1> QED
  BY <1>1, GuardedInvariance, PTL

\* The guard "holds throughout": the scan that has no bound never reads a cell
\* outside the range, and the element that stops it is there.
THEOREM GuardedScan ==
    HG!Spec => [](pc = "up" => /\ lo \in first .. hi
                            /\ hi < last
                            /\ v[hi] \notin below)
<1>1. GuardedIInv => (pc = "up" => lo \in first .. hi /\ hi < last /\ v[hi] \notin below)
  BY NAssumption DEF GuardedIInv, HG!TypeOK, HG!Guarded, Pos, HG!Pos
<1> QED
  BY <1>1, GuardedInvariance, PTL
-----------------------------------------------------------------------------
\* A call begins as a call of the abstract partition.
LEMMA GuardedRefineInit == HG!Init => HG!Contract!Init
BY DEF HG!Init, HG!Contract!Init, HG!Contract!Pos, Pos, HG!Pos

\* A step of a call is a step of the abstract partition, or invisible to it.
LEMMA GuardedRefineStep == GuardedIInv /\ [HG!Next]_HG!vars => [HG!Contract!Next]_HG!Contract!vars
<1> SUFFICES ASSUME GuardedIInv, [HG!Next]_HG!vars
             PROVE  HG!Contract!Next \/ UNCHANGED HG!Contract!vars
  OBVIOUS
<1>1. ASSUME NEW x \in first .. last - 1, NEW y \in first .. last - 1,
             IsArrangement(v'), pc # "done", pc' # "done",
             UNCHANGED <<below, first, last>>,
             \A p \in Pos : p # x /\ p # y => v'[p] = v[p]
      PROVE  HG!Contract!Next
  <2>1. ASSUME NEW p \in Pos, p \notin first .. last - 1 PROVE v[p] = v'[p]
    BY <1>1, <2>1
  <2>2. HG!Contract!Rearranges
    BY <1>1, <2>1 DEF HG!Contract!Rearranges, HG!Contract!IsArrangement,
       HG!Contract!SameOutside, HG!Contract!Pos, IsArrangement, Pos
  <2> QED
    BY <1>1, <2>2 DEF HG!Contract!Next, HG!Contract!Work
<1>2. CASE HG!Guard
  <2>1. pc # "done" /\ pc' # "done" /\ UNCHANGED <<below, first, last>>
    BY <1>2 DEF HG!Guard, HG!args
  <2> QED
    BY <1>1, <1>2, <2>1, GuardedGuardMoves DEF GuardedIInv
<1>3. CASE HG!Exchange
  <2>1. pc # "done" /\ pc' # "done" /\ UNCHANGED <<below, first, last>>
    BY <1>3 DEF HG!Exchange, HG!args
  <2>2. /\ IsArrangement(v')
        /\ lo \in first .. last - 1 /\ hi \in lo + 1 .. last - 1
        /\ \A p \in Pos : p # lo /\ p # hi => v'[p] = v[p]
    BY <1>3, GuardedExchangeMoves DEF GuardedIInv
  <2>3. hi \in first .. last - 1
    BY <2>2, NAssumption DEF GuardedIInv, HG!TypeOK, Pos, HG!Pos
  <2> QED
    BY <1>1, <2>1, <2>2, <2>3
<1>4. CASE HG!Return
  <2>1. /\ pc = "down" /\ pc' = "done" /\ hi <= lo
        /\ UNCHANGED <<v, below, first, last, lo>>
    BY <1>4, NAssumption DEF HG!Return, HG!args, GuardedIInv, HG!TypeOK, Pos, HG!Pos
  <2>2. HG!Contract!Rearranges
    BY <2>1 DEF HG!Contract!Rearranges, HG!Contract!IsArrangement,
       HG!Contract!SameOutside, HG!Contract!Pos, IsArrangement, Pos, GuardedIInv
  <2>3. ASSUME NEW p \in lo .. last - 1 PROVE v[p] \notin below
    <3>1. v[lo] \notin below /\ \A q \in hi + 1 .. last - 1 : v[q] \notin below
      BY <2>1 DEF GuardedIInv, HG!Sandwich, NoneIn, AllIn, HG!AllIn, HG!NoneIn
    <3>2. p = lo \/ p \in hi + 1 .. last - 1
      BY <2>1, NAssumption DEF GuardedIInv, HG!TypeOK, Pos, HG!Pos
    <3> QED
      BY <3>1, <3>2
  <2>4. lo \in first .. last /\ AllIn(v, below, first, lo)
    BY NAssumption DEF GuardedIInv, HG!TypeOK, HG!Sandwich, Pos, HG!Pos, AllIn,
       HG!AllIn, NoneIn, HG!NoneIn
  <2>5. HG!Contract!Partitioned(v', below, first, lo', last)
    BY <2>1, <2>3, <2>4 DEF HG!Contract!Partitioned, HG!Contract!AllIn,
       HG!Contract!NoneIn, AllIn, NoneIn
  <2> QED
    BY <2>1, <2>2, <2>5 DEF HG!Contract!Next, HG!Contract!Return
<1>5. CASE HG!SkipUp \/ HG!UpStops \/ HG!SkipDown \/ HG!Terminating \/ UNCHANGED HG!vars
  <2>1. UNCHANGED <<v, below, first, last>> /\ ((pc = "done") <=> (pc' = "done"))
        /\ (pc = "done" => lo' = lo)
    BY <1>5 DEF HG!SkipUp, HG!UpStops, HG!SkipDown, HG!Terminating, HG!vars, HG!args
  <2> QED
    BY <2>1 DEF HG!Contract!vars
<1> QED
  BY <1>2, <1>3, <1>4, <1>5 DEF HG!Next

\* hoare_guarded::at implements the abstract partition of concepts.hpp.
THEOREM GuardedImplementation == HG!Spec => HG!Implements
<1>1. HG!Init => HG!Contract!Init
  BY GuardedRefineInit
<1>2. GuardedIInv /\ [HG!Next]_HG!vars => [HG!Contract!Next]_HG!Contract!vars
  BY GuardedRefineStep
<1> QED
  BY <1>1, <1>2, GuardedInvariance, PTL DEF HG!Spec, HG!Implements, HG!Contract!Spec
-----------------------------------------------------------------------------
(***************************************************************************)
(* lomuto and scan_swap_off.  The order of the elements that go left       *)
(* follows from what the loop has not touched: the cells from the cursor   *)
(* on hold their own elements, and every element that was kept came from a *)
(* cell before the cursor.                                                 *)
(***************************************************************************)
\* What the scan has not reached is in its place.
LomutoUntouched == \A p \in cur .. last - 1 : v[p] = p

\* What has been kept came from a cell the scan has passed.
LomutoPassed == \A p \in first .. store - 1 : v[p] < cur

\* The call returns at the end of the scan.
LomutoAtEnd == pc = "done" => cur = last

\* The inductive invariant.
LomutoIInv ==
    /\ LM!TypeOK
    /\ IsArrangement(v)
    /\ LM!LoopInvariant
    /\ LM!KeptInOrder
    /\ LomutoUntouched /\ LomutoPassed /\ LomutoAtEnd

\* The calls the specification starts with satisfy the invariant.
LEMMA LomutoInitIInv == LM!Init => LomutoIInv
<1> SUFFICES ASSUME LM!Init PROVE LomutoIInv
  OBVIOUS
<1> USE NAssumption
<1>0. /\ \A p \in Pos : v[p] = p
      /\ first \in 0 .. N /\ last \in first .. N /\ off \in 0 .. last - first
      /\ store = first /\ cur = first + off /\ pc = "scan"
  BY DEF LM!Init, LM!Pos, Pos
<1>1. LM!TypeOK
  <2>1. v \in [LM!Pos -> LM!Pos] /\ below \in SUBSET LM!Pos
    BY DEF LM!Init
  <2> QED
    BY <1>0, <2>1 DEF LM!TypeOK
<1>2. IsArrangement(v)
  BY DEF LM!Init, IsArrangement, Pos, LM!Pos
<1>3. LM!LoopInvariant
  <2>1. \A p \in first .. first + off - 1 : v[p] \notin below
    BY DEF LM!Init, LM!NoneIn
  <2> QED
    BY <1>0, <2>1 DEF LM!LoopInvariant, LM!AllIn, LM!NoneIn
<1>4. LM!KeptInOrder /\ LomutoPassed
  BY <1>0 DEF LM!KeptInOrder, LomutoPassed
<1>5. LomutoUntouched
  <2>1. /\ first \in Int /\ last \in Int /\ off \in Int
        /\ 0 <= first /\ last <= N /\ 0 <= off /\ cur = first + off
    BY <1>0
  <2>2. ASSUME NEW p \in cur .. last - 1 PROVE p \in Pos
    BY <2>1 DEF Pos, LM!Pos
  <2> QED
    BY <1>0, <2>2 DEF LomutoUntouched
<1>6. LomutoAtEnd
  BY <1>0 DEF LomutoAtEnd
<1> QED
  BY <1>1, <1>2, <1>3, <1>4, <1>5, <1>6 DEF LomutoIInv

\* The one step that moves elements: the two cells are in the range, the first
\* one not behind the second, and only they change.
LEMMA LomutoKeepMoves ==
    ASSUME LM!TypeOK, IsArrangement(v), LM!Keep
    PROVE  /\ IsArrangement(v') /\ v' \in [Pos -> Pos]
           /\ store \in Pos /\ cur \in Pos
           /\ store \in first .. last - 1 /\ cur \in store .. last - 1
           /\ v'[store] = v[cur] /\ v'[cur] = v[store]
           /\ \A p \in Pos : p # store /\ p # cur => v'[p] = v[p]
<1>1. store \in first .. last - 1 /\ cur \in store .. last - 1
  BY NAssumption DEF LM!Keep, LM!TypeOK, Pos, LM!Pos
<1>2. store \in Pos /\ cur \in Pos
  BY <1>1, NAssumption DEF LM!TypeOK, Pos, LM!Pos
<1>3. v' = Swap(v, store, cur) /\ v \in [Pos -> Pos]
  BY DEF LM!Keep, LM!TypeOK, Swap, LM!Swap, Pos, LM!Pos
<1>4. IsArrangement(v')
  BY <1>2, <1>3, SwapArrangement
<1>5. /\ v' \in [Pos -> Pos]
      /\ v'[store] = v[cur] /\ v'[cur] = v[store]
      /\ \A p \in Pos : p # store /\ p # cur => v'[p] = v[p]
  BY <1>2, <1>3, SwapCells
<1> QED
  BY <1>1, <1>2, <1>4, <1>5

\* Every step keeps the cursors in the range, and the boundary not behind the scan.
LEMMA LomutoTypeStep == LomutoIInv /\ [LM!Next]_LM!vars => LM!TypeOK'
<1> SUFFICES ASSUME LomutoIInv, [LM!Next]_LM!vars PROVE LM!TypeOK'
  OBVIOUS
<1>t. LM!TypeOK /\ IsArrangement(v)
  BY DEF LomutoIInv
<1> USE NAssumption DEF LM!args
<1>1. CASE LM!Keep
  <2>1. v' \in [Pos -> Pos] /\ store \in first .. last - 1 /\ cur \in store .. last - 1
    BY <1>t, <1>1, LomutoKeepMoves
  <2> QED
    BY <1>t, <1>1, <2>1, LomutoCells DEF LM!Keep, LM!TypeOK
<1>2. CASE LM!Skip
  BY <1>t, <1>2 DEF LM!Skip, LM!TypeOK
<1>3. CASE LM!Return
  BY <1>t, <1>3 DEF LM!Return, LM!TypeOK
<1>4. CASE LM!Terminating \/ UNCHANGED LM!vars
  BY <1>t, <1>4 DEF LM!Terminating, LM!vars, LM!TypeOK
<1> QED
  BY <1>1, <1>2, <1>3, <1>4 DEF LM!Next

\* Every step keeps what the boundary and the scan have passed on its side.
LEMMA LomutoLoopStep == LomutoIInv /\ [LM!Next]_LM!vars => LM!LoopInvariant'
<1> SUFFICES ASSUME LomutoIInv, [LM!Next]_LM!vars PROVE LM!LoopInvariant'
  OBVIOUS
<1>t. LM!TypeOK /\ IsArrangement(v) /\ LM!LoopInvariant
  BY DEF LomutoIInv
<1> USE NAssumption DEF LM!LoopInvariant, AllIn, NoneIn, LM!args, LM!AllIn,
   LM!NoneIn
<1>1. CASE LM!Keep
  <2>1. /\ first \in Int /\ last \in Int /\ store \in Int /\ cur \in Int
        /\ 0 <= first /\ first <= store /\ store <= cur /\ cur < last /\ last <= N
        /\ v[cur] \in below /\ below' = below /\ first' = first
        /\ store' = store + 1 /\ cur' = cur + 1
    BY <1>t, <1>1 DEF LM!Keep, LM!TypeOK, Pos, LM!Pos
  <2>2. /\ v'[store] = v[cur] /\ v'[cur] = v[store]
        /\ \A p \in Pos : p # store /\ p # cur => v'[p] = v[p]
    BY <1>t, <1>1, LomutoKeepMoves
  <2>3. ASSUME NEW p \in first .. store PROVE v'[p] \in below
    <3>1. CASE p = store
      BY <2>1, <2>2, <3>1
    <3>2. CASE p # store
      BY <1>t, <2>1, <2>2, <3>2 DEF Pos
    <3> QED
      BY <3>1, <3>2
  <2>4. ASSUME NEW p \in store + 1 .. cur PROVE v'[p] \notin below
    <3>1. CASE p = cur
      <4>1. CASE store = cur
        BY <2>1, <3>1, <4>1
      <4>2. CASE store # cur
        <5>1. v[store] \notin below
          BY <1>t, <2>1, <4>2
        <5> QED
          BY <2>2, <3>1, <5>1
      <4> QED
        BY <4>1, <4>2
    <3>2. CASE p # cur
      <4>1. v[p] \notin below
        BY <1>t, <2>1, <3>2
      <4>2. p \in Pos /\ p # store
        BY <2>1, <3>2 DEF Pos
      <4> QED
        BY <2>2, <3>2, <4>1, <4>2
    <3> QED
      BY <3>1, <3>2
  <2> QED
    BY <2>1, <2>3, <2>4
<1>2. CASE LM!Skip
  BY <1>t, <1>2 DEF LM!Skip, LM!TypeOK, Pos, LM!Pos
<1>3. CASE LM!Return
  BY <1>t, <1>3 DEF LM!Return
<1>4. CASE LM!Terminating \/ UNCHANGED LM!vars
  BY <1>t, <1>4 DEF LM!Terminating, LM!vars
<1> QED
  BY <1>1, <1>2, <1>3, <1>4 DEF LM!Next

\* Every step keeps the order: the element that is kept comes from the cursor,
\* behind everything kept so far.
LEMMA LomutoOrderStep ==
    LomutoIInv /\ [LM!Next]_LM!vars => LM!KeptInOrder' /\ LomutoUntouched' /\ LomutoPassed' /\ LomutoAtEnd'
<1> SUFFICES ASSUME LomutoIInv, [LM!Next]_LM!vars
             PROVE  LM!KeptInOrder' /\ LomutoUntouched' /\ LomutoPassed' /\ LomutoAtEnd'
  OBVIOUS
<1>t. /\ LM!TypeOK /\ IsArrangement(v)
      /\ LM!KeptInOrder /\ LomutoUntouched /\ LomutoPassed /\ LomutoAtEnd
  BY DEF LomutoIInv
<1> USE NAssumption DEF LM!args
<1>1. CASE LM!Keep
  <2>1. /\ first \in Int /\ last \in Int /\ store \in Int /\ cur \in Int
        /\ 0 <= first /\ first <= store /\ store <= cur /\ cur < last /\ last <= N
        /\ first' = first /\ last' = last
        /\ store' = store + 1 /\ cur' = cur + 1 /\ pc' = "scan"
    BY <1>t, <1>1 DEF LM!Keep, LM!TypeOK, Pos, LM!Pos
  <2>2. /\ v'[store] = v[cur]
        /\ \A p \in Pos : p # store /\ p # cur => v'[p] = v[p]
    BY <1>t, <1>1, LomutoKeepMoves
  <2>3. v'[store] = cur
    BY <1>t, <2>1, <2>2 DEF LomutoUntouched
  <2>4. ASSUME NEW p \in first .. store - 1 PROVE v'[p] = v[p] /\ v[p] < cur
    <3>1. p \in Pos /\ p # store /\ p # cur
      BY <2>1 DEF Pos, LM!Pos
    <3> QED
      BY <1>t, <2>2, <3>1 DEF LomutoPassed
  <2>5. ASSUME NEW p \in cur + 1 .. last - 1 PROVE v'[p] = p
    <3>1. p \in Pos /\ p # store /\ p # cur /\ p \in cur .. last - 1
      BY <2>1 DEF Pos, LM!Pos
    <3> QED
      BY <1>t, <2>2, <3>1 DEF LomutoUntouched
  <2>6. ASSUME NEW p \in first .. store, NEW q \in first .. store, p < q
        PROVE  v'[p] < v'[q]
    <3>1. CASE q = store
      <4>1. p \in first .. store - 1
        BY <2>1, <2>6, <3>1
      <4> QED
        BY <2>3, <2>4, <3>1, <4>1
    <3>2. CASE q # store
      <4>1. p \in first .. store - 1 /\ q \in first .. store - 1
        BY <2>1, <2>6, <3>2
      <4>2. v[p] < v[q]
        BY <1>t, <2>6, <4>1 DEF LM!KeptInOrder
      <4> QED
        BY <2>4, <4>1, <4>2
    <3> QED
      BY <3>1, <3>2
  <2>7. ASSUME NEW p \in first .. store PROVE v'[p] < cur + 1
    <3>1. CASE p = store
      BY <2>1, <2>3, <3>1
    <3>2. CASE p # store
      <4>1. p \in first .. store - 1 /\ p \in Pos
        BY <2>1, <3>2 DEF Pos, LM!Pos
      <4>2. v[p] \in Int
        BY <1>t, <4>1 DEF LM!TypeOK, Pos, LM!Pos
      <4> QED
        BY <2>1, <2>4, <4>1, <4>2
    <3> QED
      BY <3>1, <3>2
  <2> QED
    BY <2>1, <2>5, <2>6, <2>7 DEF LM!KeptInOrder, LomutoUntouched, LomutoPassed,
       LomutoAtEnd
<1>2. CASE LM!Skip
  <2>1. /\ UNCHANGED <<v, first, last, store>> /\ cur' = cur + 1 /\ pc' = "scan"
        /\ cur \in Int
    BY <1>t, <1>2 DEF LM!Skip, LM!TypeOK, Pos, LM!Pos
  <2>2. ASSUME NEW p \in first .. store - 1 PROVE v[p] < cur + 1
    <3>1. v[p] \in Int
      BY <1>t DEF LM!TypeOK, Pos, LM!Pos
    <3> QED
      BY <1>t, <2>1, <3>1 DEF LomutoPassed
  <2> QED
    BY <1>t, <2>1, <2>2 DEF LM!KeptInOrder, LomutoUntouched, LomutoPassed,
       LomutoAtEnd
<1>3. CASE LM!Return
  BY <1>t, <1>3 DEF LM!Return, LM!KeptInOrder, LomutoUntouched, LomutoPassed,
     LomutoAtEnd
<1>4. CASE LM!Terminating \/ UNCHANGED LM!vars
  BY <1>t, <1>4 DEF LM!Terminating, LM!vars, LM!KeptInOrder, LomutoUntouched,
     LomutoPassed, LomutoAtEnd
<1> QED
  BY <1>1, <1>2, <1>3, <1>4 DEF LM!Next

\* No step loses or duplicates an element.
LEMMA LomutoArrangementStep == LomutoIInv /\ [LM!Next]_LM!vars => IsArrangement(v)'
<1> SUFFICES ASSUME LomutoIInv, [LM!Next]_LM!vars PROVE IsArrangement(v')
  BY DEF IsArrangement, Pos, LM!IsArrangement, LM!Pos
<1>1. CASE LM!Keep
  BY <1>1, LomutoKeepMoves DEF LomutoIInv
<1>2. CASE ~LM!Keep
  <2>1. v' = v
    BY <1>2 DEF LM!Next, LM!vars, LM!Skip, LM!Return, LM!Terminating
  <2> QED
    BY <2>1 DEF LomutoIInv
<1> QED
  BY <1>1, <1>2

\* The conjunction is inductive, so it is an invariant of every call.
LEMMA LomutoIInvStep == LomutoIInv /\ [LM!Next]_LM!vars => LomutoIInv'
BY LomutoTypeStep, LomutoLoopStep, LomutoOrderStep, LomutoArrangementStep DEF
   LomutoIInv

LEMMA LomutoInvariance == LM!Spec => []LomutoIInv
<1>1. LM!Init => LomutoIInv
  BY LomutoInitIInv
<1>2. LomutoIInv /\ [LM!Next]_LM!vars => LomutoIInv'
  BY LomutoIInvStep
<1> QED
  BY <1>1, <1>2, PTL DEF LM!Spec
-----------------------------------------------------------------------------
\* The boundary and the scan stay in the range, and what they have passed is on
\* its side, whatever the input.
THEOREM LomutoLoopInvariantHolds == LM!Spec => [](LM!TypeOK /\ LM!LoopInvariant)
<1>1. LomutoIInv => LM!TypeOK /\ LM!LoopInvariant
  BY DEF LomutoIInv
<1> QED
  BY <1>1, LomutoInvariance, PTL

\* The elements that go left keep their order, at every moment of every call.
THEOREM LomutoOrderHolds == LM!Spec => []LM!KeptInOrder
<1>1. LomutoIInv => LM!KeptInOrder
  BY DEF LomutoIInv
<1> QED
  BY <1>1, LomutoInvariance, PTL
-----------------------------------------------------------------------------
\* A call begins as a call of the abstract partition.
LEMMA LomutoRefineInit == LM!Init => LM!Contract!Init
BY DEF LM!Init, LM!Contract!Init, LM!Contract!Pos, Pos, LM!Pos

\* A step of a call is a step of the abstract partition, or invisible to it.
LEMMA LomutoRefineStep == LomutoIInv /\ [LM!Next]_LM!vars => [LM!Contract!Next]_LM!Contract!vars
<1> SUFFICES ASSUME LomutoIInv, [LM!Next]_LM!vars
             PROVE  LM!Contract!Next \/ UNCHANGED LM!Contract!vars
  OBVIOUS
<1>1. CASE LM!Keep
  <2>1. /\ IsArrangement(v')
        /\ store \in first .. last - 1 /\ cur \in first .. last - 1
        /\ \A p \in Pos : p # store /\ p # cur => v'[p] = v[p]
    BY <1>1, LomutoKeepMoves, NAssumption DEF LomutoIInv, LM!TypeOK, Pos, LM!Pos
  <2>2. ASSUME NEW p \in Pos, p \notin first .. last - 1 PROVE v[p] = v'[p]
    BY <2>1, <2>2
  <2>3. LM!Contract!Rearranges
    BY <2>1, <2>2 DEF LM!Contract!Rearranges, LM!Contract!IsArrangement,
       LM!Contract!SameOutside, LM!Contract!Pos, IsArrangement, Pos
  <2>4. pc # "done" /\ pc' # "done" /\ UNCHANGED <<below, first, last>>
    BY <1>1 DEF LM!Keep, LM!args
  <2> QED
    BY <2>3, <2>4 DEF LM!Contract!Next, LM!Contract!Work
<1>2. CASE LM!Return
  <2>1. /\ pc # "done" /\ pc' = "done" /\ cur = last
        /\ UNCHANGED <<v, below, first, last, store>>
    BY <1>2 DEF LM!Return, LM!args
  <2>2. LM!Contract!Rearranges
    BY <2>1 DEF LM!Contract!Rearranges, LM!Contract!IsArrangement,
       LM!Contract!SameOutside, LM!Contract!Pos, IsArrangement, Pos, LomutoIInv
  <2>3. LM!Contract!Partitioned(v', below, first, store', last)
    <3>1. store \in first .. last /\ \A p \in first .. store - 1 : v[p] \in below
      BY DEF LomutoIInv, LM!TypeOK, LM!LoopInvariant, LM!AllIn
    <3>2. \A p \in store .. last - 1 : v[p] \notin below
      BY <2>1 DEF LomutoIInv, LM!LoopInvariant, LM!NoneIn
    <3> QED
      BY <2>1, <3>1, <3>2
      DEF LM!Contract!Partitioned, LM!Contract!AllIn, LM!Contract!NoneIn
  <2> QED
    BY <2>1, <2>2, <2>3 DEF LM!Contract!Next, LM!Contract!Return
<1>3. CASE LM!Skip \/ LM!Terminating \/ UNCHANGED LM!vars
  <2>1. UNCHANGED <<v, below, first, last>> /\ ((pc = "done") <=> (pc' = "done"))
        /\ (pc = "done" => store' = store)
    BY <1>3 DEF LM!Skip, LM!Terminating, LM!vars, LM!args
  <2> QED
    BY <2>1 DEF LM!Contract!vars
<1> QED
  BY <1>1, <1>2, <1>3 DEF LM!Next

\* lomuto and scan_swap_off implement the abstract partition of concepts.hpp.
THEOREM LomutoImplementation == LM!Spec => LM!Implements
<1>1. LM!Init => LM!Contract!Init
  BY LomutoRefineInit
<1>2. LomutoIInv /\ [LM!Next]_LM!vars => [LM!Contract!Next]_LM!Contract!vars
  BY LomutoRefineStep
<1> QED
  BY <1>1, <1>2, LomutoInvariance, PTL DEF LM!Spec, LM!Implements, LM!Contract!Spec
-----------------------------------------------------------------------------
(***************************************************************************)
(* The gap kernels.  The array alone is no arrangement while an element is *)
(* lifted: the argument follows the array with the lifted element put back *)
(* into the gap (Restored), of which every step exchanges two cells or     *)
(* none.                                                                   *)
(***************************************************************************)
LEMMA GapCells == G!Pos = Pos
BY DEF G!Pos, Pos

\* Before the lift the prefix is what the caller promised, and the boundary is
\* at the start of the range.
GapPromised == gpc = "start" => i = first /\ NoneIn(gv, G!GoesLeft, first, first + off)

\* The inductive invariant.
GapIInv ==
    /\ G!TypeOK
    /\ G!OneGap
    /\ G!GapInvariant
    /\ GapPromised

LEMMA HoleIsNoElement == G!Hole \notin Pos
BY NAssumption DEF G!Hole, Pos, G!Pos

\* The calls the specification starts with satisfy the invariant.
LEMMA GapInitIInv == G!Init => GapIInv
<1> SUFFICES ASSUME G!Init PROVE GapIInv
  OBVIOUS
<1> USE NAssumption DEF G!Init
<1>1. G!TypeOK
  BY DEF G!TypeOK, Pos, G!Pos
<1>2. G!OneGap
  BY HoleIsNoElement, GapCells DEF G!OneGap, G!Restored, G!Open, IsArrangement,
     G!IsArrangement
<1>3. G!GapInvariant
  BY DEF G!GapInvariant, AllIn, G!AllIn, NoneIn, G!NoneIn
<1>4. GapPromised
  BY GapCells DEF GapPromised, G!Init, NoneIn, G!NoneIn
<1> QED
  BY <1>1, <1>2, <1>3, <1>4 DEF GapIInv

\* While an element is lifted the gap is a cell of the range, every other cell
\* holds an element, and the lifted element is one too.
LEMMA GapInRange ==
    ASSUME GapIInv, G!Open
    PROVE  /\ G!Gap \in first .. last - 1 /\ G!Gap \in Pos
           /\ i \in first .. last - 1 /\ i \in Pos
           /\ gv[G!Gap] = G!Hole
           /\ tmp \in Pos
           /\ \A p \in Pos : p # G!Gap => gv[p] \in Pos
<1> USE NAssumption
<1>0. G!TypeOK /\ G!OneGap /\ G!GapInvariant
  BY DEF GapIInv
<1>1. i \in first .. last - 1 /\ G!Gap \in first .. last - 1
  BY <1>0 DEF G!Open, G!Gap, G!TypeOK, G!GapInvariant
<1>2. i \in Pos /\ G!Gap \in Pos
  BY <1>0, <1>1 DEF G!TypeOK, Pos, G!Pos
<1>3. gv[G!Gap] = G!Hole /\ tmp \in Pos
  BY <1>0, GapCells DEF G!OneGap, G!TypeOK, IsArrangement, G!IsArrangement
<1>4. ASSUME NEW p \in Pos, p # G!Gap PROVE gv[p] \in Pos
  <2>1. G!Restored[p] = gv[p] /\ G!Restored \in [Pos -> Pos]
    BY <1>0, <1>4, GapCells DEF G!Restored, G!OneGap, IsArrangement, G!IsArrangement,
       G!TypeOK
  <2> QED
    BY <2>1
<1> QED
  BY <1>1, <1>2, <1>3, <1>4

\* The elements that go left are an argument of the call.
LEMMA GapGoesLeftFixed ==
    ASSUME [G!Next]_G!vars
    PROVE  G!GoesLeft' = G!GoesLeft /\ UNCHANGED <<first, last, off>>
BY DEF G!GoesLeft, G!Next, G!vars, G!args, G!Empty, G!Lift, G!CloseGap, G!Pull, G!CloseLast,
       G!PutBack, G!Terminating

\* Every step exchanges two cells of the restored array, or leaves it alone.
LEMMA GapRestoredStep ==
    ASSUME GapIInv, [G!Next]_G!vars
    PROVE  \/ G!Restored' = G!Restored
           \/ \E p, q \in first .. last - 1 : G!Restored' = Swap(G!Restored, p, q)
<1> USE NAssumption
<1>0. G!TypeOK /\ G!OneGap /\ G!GapInvariant
  BY DEF GapIInv
<1>1. CASE G!Lift
  <2>1. first + off \in Pos
    BY <1>0, <1>1 DEF G!Lift, G!TypeOK, Pos, G!Pos
  <2>2. G!Restored = gv /\ G!Restored' = [gv' EXCEPT ![first + off] = gv[first + off]]
    BY <1>1 DEF G!Lift, G!Restored, G!Open, G!Gap
  <2> QED
    BY <1>0, <1>1, <2>1, <2>2 DEF G!Lift, G!TypeOK
<1>2. CASE G!CloseGap \/ G!CloseLast
  <2>1. G!Open /\ G!Gap = j /\ G!Open' /\ G!Gap' = i
    BY <1>2 DEF G!CloseGap, G!CloseLast, G!Open, G!Gap
  <2>2. i \in first .. last - 1 /\ j \in first .. last - 1 /\ i \in Pos /\ j \in Pos
    BY <2>1, GapInRange
  <2>3. /\ G!Restored = [gv EXCEPT ![j] = tmp]
        /\ G!Restored' = [[gv EXCEPT ![j] = gv[i], ![i] = G!Hole] EXCEPT ![i] = tmp]
    BY <1>2, <2>1 DEF G!Restored, G!CloseGap, G!CloseLast
  <2>4. G!Restored' = Swap(G!Restored, i, j)
    BY <1>0, <2>2, <2>3, GapCells DEF Swap, G!Swap, G!TypeOK
  <2> QED
    BY <2>2, <2>4
<1>3. CASE G!Pull
  <2>1. G!Open /\ G!Gap = i /\ G!Open' /\ G!Gap' = j + 1
    BY <1>3 DEF G!Pull, G!Open, G!Gap
  <2>2. i \in first .. last - 1 /\ i \in Pos /\ i # j + 1
    BY <1>0, <1>3, <2>1, GapInRange DEF G!Pull, G!GapInvariant, G!TypeOK
  <2>3. j + 1 \in first .. last - 1 /\ j + 1 \in Pos
    BY <1>0, <1>3 DEF G!Pull, G!GapInvariant, G!TypeOK, Pos, G!Pos
  <2>4. /\ G!Restored = [gv EXCEPT ![i] = tmp]
        /\ G!Restored' = [[gv EXCEPT ![i] = gv[j + 1], ![j + 1] = G!Hole]
                            EXCEPT ![j + 1] = tmp]
    BY <1>3, <2>1 DEF G!Restored, G!Pull
  <2>5. G!Restored' = Swap(G!Restored, i, j + 1)
    BY <1>0, <2>2, <2>3, <2>4, GapCells DEF Swap, G!Swap, G!TypeOK
  <2> QED
    BY <2>2, <2>3, <2>5
<1>4. CASE G!PutBack
  <2>1. G!Open /\ G!Gap = i /\ ~G!Open'
    BY <1>4 DEF G!PutBack, G!Open, G!Gap
  <2> QED
    BY <1>4, <2>1 DEF G!Restored, G!PutBack
<1>5. CASE G!Empty \/ G!Terminating \/ UNCHANGED G!vars
  <2>1. UNCHANGED <<gv, tmp, i, j>> /\ (G!Open <=> G!Open') /\ (G!Open => UNCHANGED gpc)
    BY <1>5 DEF G!Empty, G!Terminating, G!vars, G!Open
  <2> QED
    BY <2>1 DEF G!Restored, G!Gap
<1> QED
  BY <1>1, <1>2, <1>3, <1>4, <1>5 DEF G!Next

\* The cursors stay in the range, and no step writes outside the array.
LEMMA GapTypeStep == GapIInv /\ [G!Next]_G!vars => G!TypeOK'
<1> SUFFICES ASSUME GapIInv, [G!Next]_G!vars PROVE G!TypeOK'
  OBVIOUS
<1> USE NAssumption
<1>0. G!TypeOK /\ G!GapInvariant
  BY DEF GapIInv
<1>a. \A x : G!Advance(x) \in {0, 1}
  BY DEF G!Advance
<1>1. CASE G!Empty
  BY <1>0, <1>1 DEF G!Empty, G!TypeOK, G!args
<1>2. CASE G!Lift
  <2>1. first + off \in Pos /\ first + off \in first .. last
    BY <1>0, <1>2 DEF G!Lift, G!TypeOK, Pos, G!Pos
  <2> QED
    BY <1>0, <1>2, <2>1, GapCells DEF G!Lift, G!TypeOK, G!args
<1>3. CASE G!CloseGap
  <2>1. i \in Pos
    BY <1>3, GapInRange DEF G!CloseGap, G!Open
  <2> QED
    BY <1>0, <1>3, <2>1, GapCells DEF G!CloseGap, G!TypeOK, G!args
<1>4. CASE G!Pull
  <2>1. /\ i \in first .. last - 1 /\ i \in Pos /\ j + 1 \in first .. last - 1
        /\ j + 1 \in Pos /\ i <= j
    BY <1>0, <1>4, GapInRange DEF G!Pull, G!Open, G!GapInvariant, G!TypeOK, Pos, G!Pos
  <2>2. gv[j + 1] \in Pos
    BY <1>0, <1>4, <2>1, GapInRange DEF G!Pull, G!Open, G!Gap, G!TypeOK
  <2>3. i' \in first .. last
    BY <1>0, <1>4, <1>a, <2>1 DEF G!Pull, G!TypeOK
  <2>4. gv' \in [Pos -> Pos \cup {G!Hole}]
    BY <1>0, <1>4, <2>1, <2>2, GapCells DEF G!Pull, G!TypeOK
  <2> QED
    BY <1>0, <1>4, <2>1, <2>3, <2>4 DEF G!Pull, G!TypeOK, G!args
<1>5. CASE G!CloseLast
  <2>1. i \in Pos
    BY <1>5, GapInRange DEF G!CloseLast, G!Open
  <2> QED
    BY <1>0, <1>5, <2>1, GapCells DEF G!CloseLast, G!TypeOK, G!args
<1>6. CASE G!PutBack
  <2>1. i \in first .. last - 1 /\ i \in Pos /\ tmp \in Pos
    BY <1>6, GapInRange DEF G!PutBack, G!Open
  <2>2. i' \in first .. last
    BY <1>0, <1>6, <1>a, <2>1 DEF G!PutBack, G!TypeOK
  <2> QED
    BY <1>0, <1>6, <2>1, <2>2 DEF G!PutBack, G!TypeOK, G!args
<1>7. CASE G!Terminating \/ UNCHANGED G!vars
  BY <1>0, <1>7 DEF G!Terminating, G!vars, G!TypeOK
<1> QED
  BY <1>1, <1>2, <1>3, <1>4, <1>5, <1>6, <1>7 DEF G!Next

\* The gap stays the only vacant cell, and no element is lost.
LEMMA OneGapStep == GapIInv /\ [G!Next]_G!vars => G!OneGap'
<1> SUFFICES ASSUME GapIInv, [G!Next]_G!vars PROVE G!OneGap'
  OBVIOUS
<1> USE NAssumption
<1>0. G!TypeOK /\ G!OneGap /\ G!GapInvariant /\ G!TypeOK'
  BY GapTypeStep DEF GapIInv
<1>1. IsArrangement(G!Restored')
  <2>1. CASE G!Restored' = G!Restored
    BY <1>0, <2>1, GapCells DEF G!OneGap, IsArrangement, G!IsArrangement
  <2>2. ASSUME NEW p \in first .. last - 1, NEW q \in first .. last - 1,
               G!Restored' = Swap(G!Restored, p, q)
        PROVE  IsArrangement(G!Restored')
    <3>1. p \in Pos /\ q \in Pos
      BY <1>0 DEF G!TypeOK, Pos, G!Pos
    <3> QED
      BY <1>0, <2>2, <3>1, SwapArrangement, GapCells DEF G!OneGap, IsArrangement,
         G!IsArrangement
  <2> QED
    BY <2>1, <2>2, GapRestoredStep
<1>2. IsArrangement(G!Restored)'
  BY <1>1 DEF IsArrangement, G!IsArrangement, Pos, G!Pos
<1>3. G!Open' => gv'[G!Gap'] = G!Hole /\ tmp' # G!Hole
  <2>1. CASE G!Lift
    <3>1. first + off \in Pos
      BY <1>0, <2>1 DEF G!Lift, G!TypeOK, Pos, G!Pos
    <3>2. tmp' \in Pos
      <4>1. ~G!Open
        BY <2>1 DEF G!Lift, G!Open
      <4>2. G!Restored = gv
        BY <4>1 DEF G!Restored
      <4> QED
        BY <1>0, <2>1, <3>1, <4>2, GapCells DEF G!Lift, G!OneGap, IsArrangement,
           G!IsArrangement
    <3> QED
      BY <1>0, <2>1, <3>1, <3>2, HoleIsNoElement DEF G!Lift, G!Gap, G!TypeOK
  <2>2. CASE G!CloseGap \/ G!CloseLast
    <3>1. G!Open /\ G!Gap' = i
      BY <2>2 DEF G!CloseGap, G!CloseLast, G!Open, G!Gap
    <3>2. i \in Pos /\ tmp \in Pos
      BY <3>1, GapInRange
    <3> QED
      BY <1>0, <2>2, <3>1, <3>2, HoleIsNoElement, GapCells DEF G!CloseGap, G!CloseLast,
         G!TypeOK
  <2>3. CASE G!Pull
    <3>1. G!Open /\ G!Gap' = j + 1
      BY <2>3 DEF G!Pull, G!Open, G!Gap
    <3>2. j + 1 \in Pos /\ tmp \in Pos
      BY <1>0, <2>3, <3>1, GapInRange DEF G!Pull, G!GapInvariant, G!TypeOK, Pos, G!Pos
    <3> QED
      BY <1>0, <2>3, <3>1, <3>2, HoleIsNoElement DEF G!Pull, G!TypeOK
  <2>4. CASE G!PutBack \/ G!Empty \/ G!Terminating
    BY <2>4 DEF G!PutBack, G!Empty, G!Terminating, G!vars, G!Open
  <2>5. CASE UNCHANGED G!vars
    BY <1>0, <2>5 DEF G!vars, G!Open, G!Gap, G!OneGap
  <2> QED
    BY <2>1, <2>2, <2>3, <2>4, <2>5 DEF G!Next
<1>4. ~G!Open' => \A k \in Pos : gv'[k] # G!Hole
  BY <1>2, HoleIsNoElement DEF G!Restored, IsArrangement, G!IsArrangement
<1> QED
  BY <1>2, <1>3, <1>4, GapCells DEF G!OneGap, Pos, G!Pos, IsArrangement,
     G!IsArrangement

\* What the scan has looked at stays on its side.
LEMMA GapInvariantStep == GapIInv /\ [G!Next]_G!vars => G!GapInvariant'
<1> SUFFICES ASSUME GapIInv, [G!Next]_G!vars PROVE G!GapInvariant'
  OBVIOUS
<1> USE NAssumption
<1>0. /\ G!TypeOK /\ G!OneGap /\ G!GapInvariant /\ GapPromised
      /\ G!GoesLeft' = G!GoesLeft /\ UNCHANGED <<first, last, off>>
  BY GapGoesLeftFixed DEF GapIInv
<1>1. CASE G!Empty
  BY <1>0, <1>1 DEF G!Empty, G!GapInvariant, GapPromised, G!TypeOK, AllIn, G!AllIn, NoneIn, G!NoneIn
<1>2. CASE G!Lift
  BY <1>0, <1>2 DEF G!Lift, G!GapInvariant, GapPromised, G!TypeOK, AllIn, G!AllIn, NoneIn,
     G!NoneIn, Pos, G!Pos, G!args
<1>3. CASE G!CloseGap
  BY <1>0, <1>3 DEF G!CloseGap, G!GapInvariant, G!TypeOK, AllIn, G!AllIn, NoneIn, G!NoneIn,
     Pos, G!Pos, G!args
<1>4. CASE G!Pull
  <2>1. CASE gv[j + 1] \in G!GoesLeft
    BY <1>0, <1>4, <2>1 DEF G!Pull, G!Advance, G!GapInvariant, G!TypeOK, AllIn, G!AllIn,
       NoneIn, G!NoneIn, Pos, G!Pos, G!args
  <2>2. CASE gv[j + 1] \notin G!GoesLeft
    BY <1>0, <1>4, <2>2 DEF G!Pull, G!Advance, G!GapInvariant, G!TypeOK, AllIn, G!AllIn,
       NoneIn, G!NoneIn, Pos, G!Pos, G!args
  <2> QED
    BY <2>1, <2>2
<1>5. CASE G!CloseLast
  <2>1. /\ i <= j /\ j = last - 1 /\ i \in Pos /\ j \in Pos
        /\ AllIn(gv, G!GoesLeft, first, i) /\ NoneIn(gv, G!GoesLeft, i, j)
        /\ gv' = [gv EXCEPT ![j] = gv[i], ![i] = G!Hole] /\ i' = i /\ j' = j
        /\ gpc' = "putback"
    BY <1>0, <1>5, GapCells DEF G!CloseLast, G!GapInvariant, G!TypeOK, Pos, G!Pos,
       AllIn, G!AllIn, NoneIn, G!NoneIn
  <2>2. AllIn(gv', G!GoesLeft, first, i)
    BY <1>0, <2>1 DEF AllIn, G!AllIn, G!TypeOK, Pos, G!Pos
  <2>3. ASSUME NEW p \in i + 1 .. last - 1 PROVE gv'[p] \notin G!GoesLeft
    <3>1. CASE p = j
      BY <1>0, <2>1, <2>3, <3>1 DEF NoneIn, G!NoneIn, G!TypeOK, Pos, G!Pos
    <3>2. CASE p # j
      BY <1>0, <2>1, <2>3, <3>2 DEF NoneIn, G!NoneIn, G!TypeOK, Pos, G!Pos
    <3> QED
      BY <3>1, <3>2
  <2>4. /\ first' = first /\ last' = last /\ G!GoesLeft' = G!GoesLeft
        /\ i' = i /\ i' <= j' /\ j' = last' - 1
    BY <1>0, <2>1
  <2>5. AllIn(gv, G!GoesLeft, first, i)'
    BY <2>2, <2>4 DEF AllIn, G!AllIn
  <2>6. NoneIn(gv, G!GoesLeft, i + 1, last)'
    BY <2>3, <2>4 DEF NoneIn, G!NoneIn
  <2> QED
    BY <2>1, <2>4, <2>5, <2>6, GapCells DEF G!GapInvariant, AllIn, G!AllIn, NoneIn,
       G!NoneIn
<1>6. CASE G!PutBack
  BY <1>0, <1>6 DEF G!PutBack, G!Advance, G!GapInvariant, G!TypeOK, AllIn, G!AllIn, NoneIn,
     G!NoneIn, Pos, G!Pos, G!args
<1>7. CASE G!Terminating \/ UNCHANGED G!vars
  BY <1>0, <1>7 DEF G!Terminating, G!vars, G!GapInvariant, G!TypeOK, AllIn, G!AllIn, NoneIn,
     G!NoneIn
<1> QED
  BY <1>1, <1>2, <1>3, <1>4, <1>5, <1>6, <1>7 DEF G!Next

LEMMA GapPromisedStep == GapIInv /\ [G!Next]_G!vars => GapPromised'
<1> SUFFICES ASSUME GapIInv, [G!Next]_G!vars PROVE GapPromised'
  OBVIOUS
<1>1. CASE UNCHANGED G!vars
  BY <1>1 DEF G!vars, GapIInv, GapPromised, NoneIn, G!NoneIn, G!GoesLeft
<1>2. CASE ~UNCHANGED G!vars
  BY <1>2 DEF G!Next, G!Empty, G!Lift, G!CloseGap, G!Pull, G!CloseLast, G!PutBack,
     G!Terminating, GapPromised
<1> QED
  BY <1>1, <1>2

\* The conjunction is inductive, so it is an invariant of every call.
LEMMA GapIInvStep == GapIInv /\ [G!Next]_G!vars => GapIInv'
BY GapTypeStep, OneGapStep, GapInvariantStep, GapPromisedStep DEF GapIInv

LEMMA GapInvariance == G!Spec => []GapIInv
<1>1. G!Init => GapIInv
  BY GapInitIInv
<1>2. GapIInv /\ [G!Next]_G!vars => GapIInv'
  BY GapIInvStep
<1> QED
  BY <1>1, <1>2, PTL DEF G!Spec
-----------------------------------------------------------------------------
\* The gap kernels never move a cursor out of the range they were called on.
THEOREM GapTypeCorrect == G!Spec => []G!TypeOK
<1>1. GapIInv => G!TypeOK
  BY DEF GapIInv
<1> QED
  BY <1>1, GapInvariance, PTL

\* While an element is lifted exactly one cell is vacant, and the lifted element
\* is the one missing from the array: no write destroys an element.
THEOREM OneGapHolds == G!Spec => []OneGap
<1>1. GapIInv => OneGap
  BY DEF GapIInv, OneGap
<1> QED
  BY <1>1, GapInvariance, PTL

\* The loop invariant of gap_off holds on every input, offset 0 included.
THEOREM GapInvariantHolds == G!Spec => []GapInvariant
<1>1. GapIInv => GapInvariant
  BY DEF GapIInv, GapInvariant
<1> QED
  BY <1>1, GapInvariance, PTL
-----------------------------------------------------------------------------
\* The cells a call may change: those behind the promised prefix, and as many of
\* the prefix as the boundary has passed, the cell at the boundary included.
GapReached(c) == \/ c \in first + off .. last - 1
                 \/ c \in first .. first + off - 1 /\ c <= i

\* Every other cell still holds what it held when the call was made.
GapTouched ==
    /\ \A c \in Pos : gv[c] # c => GapReached(c)
    /\ G!Open => j \in first + off .. last - 1

LEMMA GapTouchedInit == G!Init => GapTouched
BY DEF G!Init, GapTouched, G!Open, Pos, G!Pos

\* The boundary does not move back, and a step writes at the boundary, at the
\* scan or behind it.
LEMMA GapTouchedStep == GapIInv /\ GapTouched /\ [G!Next]_G!vars => GapTouched'
<1> SUFFICES ASSUME GapIInv, GapTouched, [G!Next]_G!vars PROVE GapTouched'
  OBVIOUS
<1> USE NAssumption
<1>0. /\ G!TypeOK /\ G!GapInvariant /\ GapTouched
      /\ UNCHANGED <<first, last, off>>
  BY GapGoesLeftFixed DEF GapIInv
<1>1. /\ first \in Int /\ last \in Int /\ off \in Int /\ i \in Int /\ j \in Int
      /\ 0 <= first /\ 0 <= off /\ first <= i
  BY <1>0 DEF G!TypeOK
<1>2. CASE G!Lift
  BY <1>0, <1>1, <1>2 DEF G!Lift, GapTouched, GapReached, G!TypeOK, G!Open, Pos, G!Pos
<1>3. CASE G!CloseGap \/ G!CloseLast
  <2>1. /\ j \in first + off .. last - 1 /\ i \in first .. last - 1
        /\ gv' = [gv EXCEPT ![j] = gv[i], ![i] = G!Hole] /\ UNCHANGED <<i, j>>
    BY <1>0, <1>3, GapInRange DEF G!CloseGap, G!CloseLast, GapTouched, G!Open
  <2>2. ASSUME NEW c \in Pos, gv'[c] # c PROVE GapReached(c)
    <3>1. CASE c = i \/ c = j
      BY <1>1, <2>1, <3>1 DEF GapReached
    <3>2. CASE c # i /\ c # j
      BY <1>0, <2>1, <2>2, <3>2, GapCells DEF GapTouched, G!TypeOK
    <3> QED
      BY <3>1, <3>2
  <2> QED
    BY <1>0, <2>1, <2>2 DEF GapTouched, GapReached
<1>4. CASE G!Pull
  <2>1. /\ j \in first + off .. last - 1 /\ i \in first .. last - 1 /\ j < last - 1
        /\ gv' = [gv EXCEPT ![i] = gv[j + 1], ![j + 1] = G!Hole]
        /\ i' \in {i, i + 1} /\ j' = j + 1
    BY <1>0, <1>4, GapInRange DEF G!Pull, G!Advance, GapTouched, G!Open, G!GapInvariant
  <2>2. ASSUME NEW c \in Pos, gv'[c] # c PROVE GapReached(c)
    <3>1. CASE c = i \/ c = j + 1
      BY <1>1, <2>1, <3>1 DEF GapReached
    <3>2. CASE c # i /\ c # j + 1
      BY <1>0, <2>1, <2>2, <3>2, GapCells DEF GapTouched, G!TypeOK
    <3> QED
      BY <3>1, <3>2
  <2>3. ASSUME NEW c \in Pos, GapReached(c) PROVE GapReached(c)'
    BY <1>0, <1>1, <2>1, <2>3 DEF GapReached, Pos, G!Pos
  <2>4. j' \in first' + off' .. last' - 1
    BY <1>0, <1>1, <2>1
  <2> QED
    BY <2>2, <2>3, <2>4 DEF GapTouched, Pos, G!Pos
<1>5. CASE G!PutBack
  <2>1. /\ i \in first .. last - 1 /\ gv' = [gv EXCEPT ![i] = tmp]
        /\ i' \in {i, i + 1} /\ gpc' = "done"
    BY <1>0, <1>5, GapInRange DEF G!PutBack, G!Advance, G!Open
  <2>2. ASSUME NEW c \in Pos, gv'[c] # c PROVE GapReached(c)
    <3>1. CASE c = i
      BY <1>1, <2>1, <3>1 DEF GapReached
    <3>2. CASE c # i
      BY <1>0, <2>1, <2>2, <3>2 DEF GapTouched, G!TypeOK
    <3> QED
      BY <3>1, <3>2
  <2>3. ASSUME NEW c \in Pos, GapReached(c) PROVE GapReached(c)'
    BY <1>0, <1>1, <2>1, <2>3 DEF GapReached, Pos, G!Pos
  <2> QED
    BY <2>1, <2>2, <2>3 DEF GapTouched, G!Open, Pos, G!Pos
<1>6. CASE G!Empty
  BY <1>0, <1>6 DEF G!Empty, G!args, GapTouched, GapReached, G!Open
<1>7. CASE G!Terminating \/ UNCHANGED G!vars
  BY <1>0, <1>7 DEF G!Terminating, G!vars, GapTouched, GapReached, G!Open
<1> QED
  BY <1>2, <1>3, <1>4, <1>5, <1>6, <1>7 DEF G!Next

\* With c elements going left, only [first, first + min(c + 1, off)) and
\* [first + off, last) change, on every input: what gap_off_perm repairs its
\* index from.
THEOREM FootprintHolds == G!Spec => []Footprint
<1>1. G!Init => GapTouched
  BY GapTouchedInit
<1>2. GapIInv /\ GapTouched /\ [G!Next]_G!vars => GapTouched'
  BY GapTouchedStep
<1>3. GapTouched => Footprint
  BY DEF GapTouched, GapReached, Footprint, G!Footprint, Pos, G!Pos
<1> QED
  BY <1>1, <1>2, <1>3, GapInvariance, PTL DEF G!Spec
-----------------------------------------------------------------------------
\* A call begins as a call of the abstract partition.
LEMMA GapRefineInit == G!Init => G!Contract!Init
<1> SUFFICES ASSUME G!Init PROVE G!Contract!Init
  OBVIOUS
<1>1. G!GoesLeft \in SUBSET Pos
  BY GapCells DEF G!Init, G!GoesLeft
<1>2. G!Restored = gv
  BY DEF G!Init, G!Restored, G!Open
<1> QED
  BY <1>1, <1>2 DEF G!Init, G!Contract!Init, G!Contract!Pos, Pos, G!Pos

\* No step disturbs an element outside the range or loses one.
LEMMA GapRearranges ==
    ASSUME GapIInv, GapIInv', [G!Next]_G!vars
    PROVE  G!Contract!Rearranges
<1> USE NAssumption
<1>0. G!TypeOK /\ G!OneGap /\ G!OneGap'
  BY DEF GapIInv
<1>1. ASSUME NEW p \in Pos, p \notin first .. last - 1
      PROVE  G!Restored[p] = G!Restored'[p]
  <2>1. ASSUME NEW q \in first .. last - 1, NEW r \in first .. last - 1,
               G!Restored' = Swap(G!Restored, q, r)
        PROVE  G!Restored[p] = G!Restored'[p]
    <3>1. q \in Pos /\ r \in Pos /\ p # q /\ p # r
      BY <1>0, <1>1 DEF G!TypeOK, Pos, G!Pos
    <3> QED
      BY <1>0, <2>1, <3>1, SwapCells, GapCells DEF G!OneGap, IsArrangement,
         G!IsArrangement
  <2> QED
    BY <2>1, GapRestoredStep
<1> QED
  BY <1>0, <1>1 DEF G!Contract!Rearranges, G!Contract!IsArrangement,
     G!Contract!SameOutside, G!Contract!Pos, G!OneGap, IsArrangement, G!IsArrangement, Pos, G!Pos

\* A step of a call is a step of the abstract partition, or invisible to it.
LEMMA GapRefineStep == GapIInv /\ GapIInv' /\ [G!Next]_G!vars => [G!Contract!Next]_G!Contract!vars
<1> SUFFICES ASSUME GapIInv, GapIInv', [G!Next]_G!vars
             PROVE  G!Contract!Next \/ UNCHANGED G!Contract!vars
  OBVIOUS
<1>0. G!GoesLeft' = G!GoesLeft /\ UNCHANGED <<first, last>> /\ G!Contract!Rearranges
  BY GapGoesLeftFixed, GapRearranges
<1>1. CASE G!Empty \/ G!PutBack
  <2>1. gpc # "done" /\ gpc' = "done" /\ G!Restored' = gv'
    BY <1>1 DEF G!Empty, G!PutBack, G!Restored, G!Open
  <2>2. G!Contract!Partitioned(gv', G!GoesLeft, first, i', last)
    BY <1>0, <2>1 DEF G!Contract!Partitioned, G!Contract!AllIn, G!Contract!NoneIn,
       GapIInv, G!TypeOK, G!GapInvariant, AllIn, G!AllIn, NoneIn, G!NoneIn
  <2> QED
    BY <1>0, <2>1, <2>2 DEF G!Contract!Next, G!Contract!Return
<1>2. CASE G!Lift \/ G!CloseGap \/ G!Pull \/ G!CloseLast
  <2>1. gpc # "done" /\ gpc' # "done"
    BY <1>2 DEF G!Lift, G!CloseGap, G!Pull, G!CloseLast
  <2> QED
    BY <1>0, <2>1 DEF G!Contract!Next, G!Contract!Work
<1>3. CASE G!Terminating \/ UNCHANGED G!vars
  <2>1. UNCHANGED G!vars
    BY <1>3 DEF G!Terminating
  <2>2. G!Restored' = G!Restored
    BY <2>1 DEF G!vars, G!Restored, G!Open, G!Gap
  <2> QED
    BY <1>0, <2>1, <2>2 DEF G!Contract!vars, G!vars
<1> QED
  BY <1>1, <1>2, <1>3 DEF G!Next

\* lomuto_branchless, its mirror image and gap_off (given the promise about the
\* prefix) implement the abstract partition of concepts.hpp, on every input.
THEOREM GapImplementation == G!Spec => GapImplements
<1>1. G!Init => G!Contract!Init
  BY GapRefineInit
<1>2. GapIInv /\ GapIInv' /\ [G!Next]_G!vars => [G!Contract!Next]_G!Contract!vars
  BY GapRefineStep
<1> QED
  BY <1>1, <1>2, GapInvariance, PTL
     DEF G!Spec, GapImplements, G!Implements, G!Contract!Spec
=============================================================================

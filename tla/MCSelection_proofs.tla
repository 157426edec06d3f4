------------------------- MODULE MCSelection_proofs -------------------------
(***************************************************************************)
(* Theorems about quicksort_lr: the invariant of its loop and of the stack *)
(* it derives the block ends from, the bound on that stack, and that it    *)
(* finalises the array front to back; about the low-half extractions: what *)
(* their selections cut off, the estimate from the sample, and that the k  *)
(* least elements are brought to their end; and about select_nth: what     *)
(* every waiting invocation may count on, how central its pivots are, and  *)
(* that it returns the element of its rank.  They hold for an array of any *)
(* size, any keys and any range.                                           *)
(***************************************************************************)
EXTENDS MCSelection, Ranges_proofs, SequenceTheorems, FunctionTheorems

\* What finalised means, in the words of FrontToBackSort.
Final == CASE pc = "descend" -> lo
           [] pc = "select"  -> i
           [] pc = "done"    -> last

InPlace == \A p \in first .. Final - 1 : \A q \in p .. last - 1 : v[p] <= v[q]

CursorInside == pc = "select" => i \in lo .. hi

\* The postponed blocks lie above each other, and each costs two cells.
Descending == \A s, t \in 1 .. Len(stack) : s < t => stack[t] < stack[s]

TwoPerBlock == \A s \in 1 .. Len(stack) : 2 * s <= last - stack[s] + 1

\* The inductive invariant of quicksort_lr.
QIInv ==
    /\ Q!TypeOK
    /\ Q!Tiling
    /\ Q!PivotsPlaced
    /\ Q!SpineBound
    /\ InPlace
    /\ CursorInside
    /\ Descending
    /\ TwoPerBlock
-----------------------------------------------------------------------------
LEMMA SameOperators ==
    /\ Q!Pos = Pos
    /\ \A a, p, q : Q!Swap(a, p, q) = Swap(a, p, q)
BY DEF Q!Pos, Pos, Q!Swap, Swap

LEMMA SameCardinality == ASSUME NEW s PROVE Q!Cardinality(s) = Cardinality(s)
BY DEF Q!Cardinality, Cardinality

LEMMA QNumbers ==
    ASSUME QIInv
    PROVE  /\ N \in Nat /\ Keys \subseteq Int /\ Threshold \in Nat /\ Threshold >= 2
           /\ v \in [Pos -> Keys]
           /\ first \in 0 .. N /\ last \in first .. N /\ lo \in first .. last /\ hi \in lo .. last
           /\ {first, last, lo, hi} \subseteq Int
           /\ \A p \in first .. last - 1 : p \in Pos /\ v[p] \in Keys /\ v[p] \in Int
<1>1. N \in Nat /\ Keys \subseteq Int /\ Threshold \in Nat /\ Threshold >= 2
  BY NAssumption, SelectionParameters DEF Q!ParameterAssumption
<1>2. /\ v \in [Pos -> Keys]
      /\ first \in 0 .. N /\ last \in first .. N /\ lo \in first .. last /\ hi \in lo .. last
  BY SameOperators DEF QIInv, Q!TypeOK
<1>3. {first, last, lo, hi} \subseteq Int
  BY <1>1, <1>2
<1>4. \A p \in first .. last - 1 : p \in Pos
  BY <1>1, <1>2 DEF Pos
<1> QED
  BY <1>1, <1>2, <1>3, <1>4

\* median3_pos picks one of the three cells, and another one of them has a key
\* that is not less.
LEMMA Median3Among ==
    ASSUME NEW a, NEW b, NEW c
    PROVE  Q!Median3(a, b, c) \in {a, b, c}
BY DEF Q!Median3

LEMMA Median3Dominated ==
    ASSUME NEW a, NEW b, NEW c, a # b, b # c, a # c,
           v[a] \in Int, v[b] \in Int, v[c] \in Int
    PROVE  \E d \in {a, b, c} : d # Q!Median3(a, b, c) /\ v[Q!Median3(a, b, c)] <= v[d]
BY DEF Q!Median3

\* So there is such a cell for the pivot of a block that is partitioned.
Dominated(m) == \E d \in lo .. hi - 1 : d # m /\ v[m] <= v[d]

LEMMA GroupMedian ==
    ASSUME QIInv, NEW a \in lo .. hi - 1, NEW b \in lo .. hi - 1, NEW c \in lo .. hi - 1,
           a # b, b # c, a # c
    PROVE  Q!Median3(a, b, c) \in lo .. hi - 1 /\ Dominated(Q!Median3(a, b, c))
<1>1. {a, b, c} \subseteq lo .. hi - 1
  OBVIOUS
<1>2. v[a] \in Int /\ v[b] \in Int /\ v[c] \in Int
  BY QNumbers
<1>3. \E d \in {a, b, c} : d # Q!Median3(a, b, c) /\ v[Q!Median3(a, b, c)] <= v[d]
  BY <1>2, Median3Dominated
<1> QED
  BY <1>1, <1>3, Median3Among DEF Dominated

LEMMA PivotDominated ==
    ASSUME QIInv, hi - lo > Threshold
    PROVE  Q!PivotPos \in lo .. hi - 1 /\ Dominated(Q!PivotPos)
<1> DEFINE n == hi - lo
           h == n \div 2
           e == n \div 8
<1>1. lo \in Int /\ hi \in Int /\ n \in Nat /\ n >= 3
  BY QNumbers
<1> HIDE DEF n
<1>2. h \in Nat /\ n - 2 * h \in 0 .. 1
  <2>1. n % 2 \in 0 .. 2 - 1 /\ h \in Nat /\ n = 2 * h + (n % 2)
    BY ONLY <1>1, DivisionFacts DEF h
  <2> QED
    BY <1>1, <2>1
<1>3. e \in Nat /\ n - 8 * e \in 0 .. 7
  <2>1. n % 8 \in 0 .. 8 - 1 /\ e \in Nat /\ n = 8 * e + (n % 8)
    BY <1>1, DivisionFacts
  <2> QED
    BY <1>1, <2>1
<1> HIDE DEF h, e
<1>4. /\ lo \in lo .. hi - 1 /\ lo + h \in lo .. hi - 1 /\ hi - 1 \in lo .. hi - 1
      /\ lo # lo + h /\ lo + h # hi - 1 /\ lo # hi - 1
  BY <1>1, <1>2 DEF n
<1> DEFINE m == Q!Median3(lo, lo + h, hi - 1)
<1>5. m \in lo .. hi - 1 /\ Dominated(m)
  BY <1>4, GroupMedian
<1> HIDE DEF m
<1>6. Q!Ninther \in lo .. hi - 1 /\ Dominated(Q!Ninther)
  <2> DEFINE m1 == Q!Median3(lo, lo + e, lo + 2 * e)
             m2 == Q!Median3(lo + h - e, lo + h, lo + h + e)
             m3 == Q!Median3(hi - 1 - 2 * e, hi - 1 - e, hi - 1)
  <2>1. Q!Ninther = Q!Median3(m1, m2, m3)
    BY DEF Q!Ninther, n, h, e
  <2>2. CASE e = 0
    <3>1. m1 \in {lo, lo + e, lo + 2 * e} /\ m2 \in {lo + h - e, lo + h, lo + h + e}
          /\ m3 \in {hi - 1 - 2 * e, hi - 1 - e, hi - 1}
      BY Median3Among
    <3>2. m1 = lo /\ m2 = lo + h /\ m3 = hi - 1
      BY <1>1, <1>2, <2>2, <3>1
    <3> QED
      BY <1>5, <2>1, <3>2 DEF m
  <2>3. CASE e # 0
    <3>1. /\ lo + e \in lo .. hi - 1 /\ lo + 2 * e \in lo .. hi - 1
          /\ lo # lo + e /\ lo + e # lo + 2 * e /\ lo # lo + 2 * e
      BY <1>1, <1>3, <2>3 DEF n
    <3>2. m1 \in lo .. hi - 1 /\ Dominated(m1)
      BY <1>4, <3>1, GroupMedian
    <3>3. /\ lo + h - e \in lo .. hi - 1 /\ lo + h + e \in lo .. hi - 1
          /\ lo + h - e # lo + h /\ lo + h # lo + h + e /\ lo + h - e # lo + h + e
      BY <1>1, <1>2, <1>3, <2>3 DEF n
    <3>4. m2 \in lo .. hi - 1 /\ Dominated(m2)
      BY <1>4, <3>3, GroupMedian
    <3>5. /\ hi - 1 - 2 * e \in lo .. hi - 1 /\ hi - 1 - e \in lo .. hi - 1
          /\ hi - 1 - 2 * e # hi - 1 - e /\ hi - 1 - e # hi - 1 /\ hi - 1 - 2 * e # hi - 1
      BY <1>1, <1>3, <2>3 DEF n
    <3>6. m3 \in lo .. hi - 1 /\ Dominated(m3)
      BY <1>4, <3>5, GroupMedian
    <3> HIDE DEF m1, m2, m3
    <3>7. Q!Ninther \in {m1, m2, m3}
      BY <2>1, Median3Among
    <3> QED
      BY <3>2, <3>4, <3>6, <3>7
  <2> QED
    BY <2>2, <2>3
<1>7. Q!PivotPos \in {m, Q!Ninther}
  BY DEF Q!PivotPos, m, h, n
<1> QED
  BY <1>5, <1>6, <1>7
-----------------------------------------------------------------------------
\* The two ways of saying that a range is rearranged.
LEMMA RearrangedIsShuffled ==
    ASSUME NEW a, NEW b \in [Pos -> Keys], NEW l, NEW h, Q!Rearranged(b, a, l, h)
    PROVE  Shuffled(Keys, a, b, l, h)
<1>1. Q!KeyCounts(b, Keys, l, h) = Q!KeyCounts(a, Keys, l, h)
  BY DEF Q!Rearranged, Q!SameKeys
<1>2. ASSUME NEW c, NEW x \in Keys
      PROVE  Q!KeyCounts(c, Keys, l, h)[x] = Cardinality(Occurrences(c, x, l, h))
  <2>1. Q!KeyCounts(c, Keys, l, h)[x] = Q!Cardinality(Occurrences(c, x, l, h))
    BY DEF Q!KeyCounts, Occurrences
  <2> QED
    BY <2>1, SameCardinality
<1>3. SameCounts(Keys, a, b, l, h)
  BY <1>1, <1>2 DEF SameCounts
<1>4. SameOutside(a, b, l, h)
  BY DEF Q!Rearranged, Q!SameOutside, SameOutside, Q!Pos, Pos
<1> QED
  BY <1>3, <1>4 DEF Shuffled

\* What quicksort_lr relies on of a partition.
LEMMA OutcomeFacts ==
    ASSUME NEW a, NEW o \in Q!SizedCall(a)
    PROVE  /\ o.array \in [Pos -> Keys]
           /\ Shuffled(Keys, a, o.array, lo + 1, hi)
           /\ o.boundary \in lo + 1 .. hi
           /\ \A p \in lo + 1 .. o.boundary - 1 : o.array[p] < a[lo]
           /\ \A p \in o.boundary .. hi - 1 : o.array[p] \in Keys => ~ (o.array[p] < a[lo])
<1> DEFINE less == {x \in Keys : x < a[lo]}
<1>1. Q!IsOutcome(o, a, less, lo + 1, hi)
  BY DEF Q!SizedCall
<1>2. /\ o.array \in [Pos -> Keys]
      /\ Q!Rearranged(o.array, a, lo + 1, hi)
      /\ Q!Partitioned(o.array, less, lo + 1, o.boundary, hi)
  BY <1>1, SameOperators DEF Q!IsOutcome
<1>3. Shuffled(Keys, a, o.array, lo + 1, hi)
  BY <1>2, RearrangedIsShuffled
<1> QED
  BY <1>2, <1>3 DEF Q!Partitioned, Q!AllIn, Q!NoneIn

\* One turn of the descent: the block is rearranged around its pivot, which lands
\* at least one cell before its end.
LEMMA PartitionStep ==
    ASSUME QIInv, Q!Partition
    PROVE  \E b \in lo + 1 .. hi - 1 :
              /\ stack' = Append(stack, b)
              /\ hi' = b - 1
              /\ Shuffled(Keys, v, v', lo, hi)
              /\ \A q \in lo .. b - 1 : v'[q] <= v'[b - 1]
              /\ \A q \in b .. hi - 1 : v'[b - 1] <= v'[q]
<1> DEFINE m == Q!PivotPos
           a == Swap(v, lo, m)
<1>1. hi - lo > Threshold
  BY DEF Q!Partition
<1>2. m \in lo .. hi - 1 /\ Dominated(m)
  BY <1>1, PivotDominated
<1>3. PICK o \in Q!SizedCall(a) :
          /\ v' = Swap(o.array, lo, o.boundary - 1)
          /\ stack' = Append(stack, o.boundary)
          /\ hi' = o.boundary - 1
  BY SameOperators DEF Q!Partition
<1> DEFINE b == o.boundary
           w == o.array
<1>4. /\ w \in [Pos -> Keys] /\ Shuffled(Keys, a, w, lo + 1, hi)
      /\ b \in lo + 1 .. hi
      /\ \A p \in lo + 1 .. b - 1 : w[p] < a[lo]
      /\ \A p \in b .. hi - 1 : w[p] \in Keys => ~ (w[p] < a[lo])
  BY OutcomeFacts
<1>5. /\ v' = Swap(w, lo, b - 1) /\ stack' = Append(stack, b) /\ hi' = b - 1
  BY <1>3
<1> HIDE DEF m, b, w
<1>6. /\ lo \in 0 .. N /\ hi \in 0 .. N /\ lo \in Int /\ hi \in Int /\ N \in Nat
      /\ v \in [Pos -> Keys] /\ Keys \subseteq Int
      /\ \A p \in lo .. hi - 1 : p \in Pos
  BY QNumbers
<1>7. lo \in Pos /\ m \in Pos /\ lo \in lo .. hi - 1 /\ b - 1 \in lo .. hi - 1
  BY <1>2, <1>4, <1>6
<1>8. /\ a \in [Pos -> Keys] /\ a[lo] = v[m] /\ a[m] = v[lo]
      /\ \A p \in Pos : p # lo /\ p # m => a[p] = v[p]
  BY <1>6, <1>7 DEF Swap
<1>9. Shuffled(Keys, v, a, lo, hi)
  BY <1>2, <1>6, <1>7, SwapShuffles
<1> HIDE DEF a
<1>10. \E d \in lo + 1 .. hi - 1 : a[lo] <= a[d]
  <2>1. PICK d \in lo .. hi - 1 : d # m /\ v[m] <= v[d]
    BY <1>2 DEF Dominated
  <2>2. CASE d = lo
    <3>1. m \in lo + 1 .. hi - 1
      BY <1>2, <1>6, <2>1, <2>2
    <3> QED
      BY <1>8, <2>1, <2>2, <3>1
  <2>3. CASE d # lo
    <3>1. d \in lo + 1 .. hi - 1
      BY <1>6, <2>3
    <3>2. a[d] = v[d]
      BY <1>6, <1>8, <2>1, <2>3
    <3> QED
      BY <1>8, <2>1, <3>1, <3>2
  <2> QED
    BY <2>2, <2>3
<1>11. b \in lo + 1 .. hi - 1
  <2>1. PICK d \in lo + 1 .. hi - 1 : a[lo] <= a[d]
    BY <1>10
  <2>2. PICK p \in lo + 1 .. hi - 1 : w[p] = a[d]
    BY <1>4, <1>6, <1>8, ShuffledTo
  <2>3. w[p] \in Int /\ a[lo] \in Int
    <3>1. p \in lo .. hi - 1
      BY <1>6
    <3> QED
      BY <1>4, <1>6, <1>7, <1>8, <3>1
  <2>4. ~ (w[p] < a[lo])
    BY <2>1, <2>2, <2>3
  <2>5. p \notin lo + 1 .. b - 1
    BY <1>4, <2>4
  <2> QED
    BY <1>4, <1>6, <2>5
<1>12. Shuffled(Keys, a, w, lo, hi)
  BY <1>4, <1>6, <1>8, ShuffledWider
<1>13. Shuffled(Keys, w, v', lo, hi)
  BY <1>4, <1>5, <1>6, <1>7, SwapShuffles
<1>14. Shuffled(Keys, v, v', lo, hi)
  BY <1>9, <1>12, <1>13, ShuffledTwice
<1>15. w[lo] = a[lo]
  BY <1>4, <1>6, <1>7 DEF Shuffled, SameOutside
<1>16. /\ v'[b - 1] = a[lo] /\ v'[lo] = w[b - 1]
       /\ \A p \in Pos : p # lo /\ p # b - 1 => v'[p] = w[p]
  BY <1>4, <1>5, <1>6, <1>7, <1>15 DEF Swap
<1>17. a[lo] \in Int /\ \A p \in lo .. hi - 1 : w[p] \in Keys /\ w[p] \in Int
  BY <1>4, <1>6, <1>7, <1>8
<1>18. ASSUME NEW q \in lo .. b - 1 PROVE v'[q] <= v'[b - 1]
  <2>1. CASE q = b - 1
    BY <1>16, <1>17, <2>1
  <2>2. CASE q = lo /\ q # b - 1
    <3>1. b - 1 \in lo + 1 .. b - 1
      BY <1>4, <1>6, <2>2
    <3> QED
      BY <1>4, <1>7, <1>16, <1>17, <2>2, <3>1
  <2>3. CASE q # lo /\ q # b - 1
    <3>1. q \in lo + 1 .. b - 1 /\ q \in lo .. hi - 1
      BY <1>4, <1>6, <2>3
    <3> QED
      BY <1>4, <1>6, <1>16, <1>17, <2>3, <3>1
  <2> QED
    BY <2>1, <2>2, <2>3
<1>19. ASSUME NEW q \in b .. hi - 1 PROVE v'[b - 1] <= v'[q]
  <2>1. q \in lo .. hi - 1 /\ q # lo /\ q # b - 1
    BY <1>4, <1>6
  <2> QED
    BY <1>4, <1>6, <1>16, <1>17, <2>1
<1> QED
  BY <1>5, <1>11, <1>14, <1>18, <1>19
-----------------------------------------------------------------------------
\* The stack in plain numbers.
LEMMA StackNumbers ==
    ASSUME QIInv
    PROVE  /\ stack \in Seq(Int) /\ Len(stack) \in Nat
           /\ stack \in Seq(first .. last)
           /\ \A s \in 1 .. Len(stack) :
                 /\ stack[s] \in first .. last /\ stack[s] \in Int
                 /\ hi + 1 <= stack[s] /\ stack[s] < last + 1
                 /\ stack[s] - 1 \in first .. last - 1
           /\ stack = <<>> <=> Len(stack) = 0
           /\ Len(stack) = 0 => hi = last
           /\ Len(stack) > 0 => Len(stack) \in 1 .. Len(stack) /\ hi = stack[Len(stack)] - 1
           /\ 2 * Len(stack) <= last - hi
<1>1. stack \in Seq(first .. last) /\ first \in Int /\ last \in Int /\ hi \in Int /\ first <= hi
  BY QNumbers DEF QIInv, Q!TypeOK
<1>2. stack \in Seq(Int) /\ Len(stack) \in Nat /\ (stack = <<>> <=> Len(stack) = 0)
  BY <1>1, EmptySeq, LenProperties
<1>3. \A s \in 1 .. Len(stack) : stack[s] \in first .. last /\ stack[s] \in Int
  BY <1>1, ElementOfSeq
<1>4. Len(stack) > 0 => Len(stack) \in 1 .. Len(stack)
  BY <1>2
<1>5. /\ Len(stack) = 0 => hi = last
      /\ Len(stack) > 0 => hi = stack[Len(stack)] - 1
  BY <1>2 DEF QIInv, Q!Tiling, Q!DerivedHi
<1>6. ASSUME NEW s \in 1 .. Len(stack)
      PROVE  /\ hi + 1 <= stack[s] /\ stack[s] < last + 1
             /\ stack[s] - 1 \in first .. last - 1
  <2>1. stack[s] - 1 \in hi .. (IF s = 1 THEN last ELSE stack[s - 1] - 1) - 1
    BY DEF QIInv, Q!Tiling
  <2>2. hi <= stack[s] - 1 /\ stack[s] - 1 <= last - 1
    BY <1>1, <1>2, <1>3, <2>1
  <2> QED
    BY <1>1, <1>3, <2>2
<1>7. 2 * Len(stack) <= last - hi
  <2>1. CASE Len(stack) = 0
    BY <1>1, <1>5, <2>1
  <2>2. CASE Len(stack) > 0
    <3>1. 2 * Len(stack) <= last - stack[Len(stack)] + 1
      BY <1>4, <2>2 DEF QIInv, TwoPerBlock
    <3> QED
      BY <1>1, <1>3, <1>4, <1>5, <2>2, <3>1
  <2> QED
    BY <1>2, <2>1, <2>2
<1> QED
  BY <1>1, <1>2, <1>3, <1>4, <1>5, <1>6, <1>7

\* Nothing behind the block is less than anything before its end.
LEMMA AboveBlock ==
    ASSUME QIInv, NEW p \in first .. hi - 1, NEW q \in hi .. last - 1
    PROVE  v[p] <= v[q]
<1> DEFINE s == Len(stack)
<1>1. /\ s \in Nat /\ s # 0 /\ s \in 1 .. s /\ hi = stack[s] - 1
  BY QNumbers, StackNumbers
<1>2. /\ \A r \in first .. hi - 1 : v[r] <= v[hi]
      /\ \A r \in hi + 1 .. last - 1 : v[hi] <= v[r]
  BY <1>1 DEF QIInv, Q!PivotsPlaced
<1>3. /\ first \in Int /\ hi \in Int /\ last \in Int /\ first <= hi
      /\ p \in first .. last - 1 /\ q \in first .. last - 1 /\ hi \in first .. last - 1
  BY QNumbers
<1>4. v[p] \in Int /\ v[q] \in Int /\ v[hi] \in Int
  BY <1>3, QNumbers
<1>5. v[p] <= v[hi]
  BY <1>2
<1>6. q = hi \/ v[hi] <= v[q]
  BY <1>2, <1>3
<1> QED
  BY <1>4, <1>5, <1>6

\* Rearranging what is not yet final of the block disturbs neither the final cells
\* nor the pivots, nor the order of the block and what is behind it.
LEMMA BlockRearranged ==
    ASSUME QIInv, NEW from \in lo .. hi, Final = from, NEW w, Shuffled(Keys, v, w, from, hi)
    PROVE  /\ w \in [Pos -> Keys]
           /\ \A p \in first .. last - 1 : w[p] \in Int
           /\ \A p \in first .. from - 1 : \A q \in p .. last - 1 : w[p] <= w[q]
           /\ \A p \in first .. hi - 1 : \A q \in hi .. last - 1 : w[p] <= w[q]
           /\ \A s \in 1 .. Len(stack) :
                 /\ \A q \in first .. stack[s] - 2 : w[q] <= w[stack[s] - 1]
                 /\ \A q \in stack[s] .. last - 1 : w[stack[s] - 1] <= w[q]
<1>1. /\ first \in Int /\ hi \in Int /\ last \in Int /\ lo \in Int /\ from \in Int /\ 0 <= from
      /\ first <= lo /\ lo <= from /\ from <= hi /\ hi <= last
      /\ from \in Int /\ hi \in 0 .. N /\ N \in Nat
      /\ \A p \in first .. last - 1 : p \in Pos /\ v[p] \in Int
      /\ Keys \subseteq Int
  BY QNumbers
<1>2. w \in [Pos -> Keys] /\ SameOutside(v, w, from, hi)
  BY DEF Shuffled
<1>3. \A p \in first .. last - 1 : w[p] \in Int
  BY <1>1, <1>2
<1>4. \A p \in first .. last - 1 : p \notin from .. hi - 1 => w[p] = v[p]
  BY <1>1, <1>2 DEF SameOutside
<1>5. \A p \in from .. hi - 1 : \E r \in from .. hi - 1 : v[r] = w[p]
  <2>1. from \in Int /\ hi \in 0 .. N /\ 0 <= from
    BY <1>1
  <2>2. \A y \in Int, z \in 0 .. N :
           0 <= y /\ Shuffled(Keys, v, w, y, z)
               => \A p \in y .. z - 1 : \E r \in y .. z - 1 : v[r] = w[p]
    BY ShuffledFrom
  <2> QED
    BY <2>1, <2>2
<1>6. ASSUME NEW p \in first .. from - 1, NEW q \in p .. last - 1 PROVE w[p] <= w[q]
  <2>1. /\ p \in first .. last - 1 /\ q \in first .. last - 1 /\ p \notin from .. hi - 1
    BY <1>1
  <2>2. w[p] = v[p] /\ \A r \in p .. last - 1 : v[p] <= v[r]
    BY <1>4, <2>1 DEF QIInv, InPlace
  <2>3. CASE q \in from .. hi - 1
    <3>1. PICK r \in from .. hi - 1 : v[r] = w[q]
      BY <1>5, <2>3
    <3>2. r \in p .. last - 1
      BY <1>1
    <3> QED
      BY <2>2, <3>1, <3>2
  <2>4. CASE q \notin from .. hi - 1
    BY <1>4, <2>1, <2>2, <2>4
  <2> QED
    BY <2>3, <2>4
<1>7. ASSUME NEW p \in first .. hi - 1, NEW q \in hi .. last - 1 PROVE w[p] <= w[q]
  <2>1. p \in first .. last - 1 /\ q \in first .. last - 1 /\ q \notin from .. hi - 1
    BY <1>1
  <2>2. w[q] = v[q]
    BY <1>4, <2>1
  <2>3. CASE p \in from .. hi - 1
    <3>1. PICK r \in from .. hi - 1 : v[r] = w[p]
      BY <1>5, <2>3
    <3>2. r \in first .. hi - 1
      BY <1>1
    <3> QED
      BY <2>2, <3>1, <3>2, AboveBlock
  <2>4. CASE p \notin from .. hi - 1
    BY <1>4, <2>1, <2>2, <2>4, AboveBlock
  <2> QED
    BY <2>3, <2>4
<1>8. ASSUME NEW s \in 1 .. Len(stack)
      PROVE  /\ \A q \in first .. stack[s] - 2 : w[q] <= w[stack[s] - 1]
             /\ \A q \in stack[s] .. last - 1 : w[stack[s] - 1] <= w[q]
  <2> DEFINE t == stack[s] - 1
  <2>1. t \in Int /\ hi <= t /\ t \in first .. last - 1 /\ stack[s] \in Int
    BY <1>1, StackNumbers
  <2>2. /\ \A q \in first .. t - 1 : v[q] <= v[t]
        /\ \A q \in t + 1 .. last - 1 : v[t] <= v[q]
    BY DEF QIInv, Q!PivotsPlaced
  <2>3. t - 1 = stack[s] - 2 /\ t + 1 = stack[s]
    BY <2>1
  <2> HIDE DEF t
  <2>4. w[t] = v[t]
    BY <1>1, <1>4, <2>1
  <2>5. ASSUME NEW q \in first .. t - 1 PROVE w[q] <= w[t]
    <3>1. q \in first .. last - 1
      BY <1>1, <2>1
    <3>2. CASE q \in from .. hi - 1
      <4>1. PICK r \in from .. hi - 1 : v[r] = w[q]
        BY <1>5, <3>2
      <4>2. r \in first .. t - 1
        BY <1>1, <2>1
      <4> QED
        BY <2>2, <2>4, <4>1, <4>2
    <3>3. CASE q \notin from .. hi - 1
      BY <1>4, <2>2, <2>4, <3>1, <3>3
    <3> QED
      BY <3>2, <3>3
  <2>6. ASSUME NEW q \in t + 1 .. last - 1 PROVE w[t] <= w[q]
    <3>1. q \in first .. last - 1 /\ q \notin from .. hi - 1
      BY <1>1, <2>1
    <3> QED
      BY <1>4, <2>2, <2>4, <3>1
  <2> QED
    BY <2>3, <2>5, <2>6 DEF t
<1> QED
  BY <1>2, <1>3, <1>6, <1>7, <1>8
-----------------------------------------------------------------------------
(***************************************************************************)
(* One lemma per action: the step keeps the invariant, rearranges only     *)
(* cells that were not final, and takes none of the final ones back.       *)
(***************************************************************************)
Advances ==
    /\ first' = first /\ last' = last
    /\ Final' \in Final .. last
    /\ Shuffled(Keys, v, v', Final, last)

LEMMA QPartition == ASSUME QIInv, Q!Partition PROVE QIInv' /\ Advances
<1> DEFINE k == Len(stack)
<1>1. /\ first \in Int /\ hi \in Int /\ last \in Int /\ lo \in Int /\ N \in Nat
      /\ first <= lo /\ lo <= hi /\ hi <= last
      /\ first \in 0 .. N /\ last \in first .. N /\ hi \in lo .. last /\ hi \in 0 .. N /\ lo \in 0 .. N
      /\ Threshold \in Nat /\ v \in [Pos -> Keys]
  BY QNumbers
<1>2. /\ pc = "descend" /\ hi - lo > Threshold
      /\ first' = first /\ last' = last /\ lo' = lo /\ i' = i /\ pc' = pc
  BY DEF Q!Partition, Q!args
<1>3. Final = lo /\ Final' = lo'
  BY <1>2 DEF Final
<1>4. PICK b \in lo + 1 .. hi - 1 :
         /\ stack' = Append(stack, b)
         /\ hi' = b - 1
         /\ Shuffled(Keys, v, v', lo, hi)
         /\ \A q \in lo .. b - 1 : v'[q] <= v'[b - 1]
         /\ \A q \in b .. hi - 1 : v'[b - 1] <= v'[q]
  BY PartitionStep
<1>5. /\ v' \in [Pos -> Keys]
      /\ \A p \in first .. last - 1 : v'[p] \in Int
      /\ \A p \in first .. lo - 1 : \A q \in p .. last - 1 : v'[p] <= v'[q]
      /\ \A p \in first .. hi - 1 : \A q \in hi .. last - 1 : v'[p] <= v'[q]
      /\ \A s \in 1 .. k :
            /\ \A q \in first .. stack[s] - 2 : v'[q] <= v'[stack[s] - 1]
            /\ \A q \in stack[s] .. last - 1 : v'[stack[s] - 1] <= v'[q]
  <2>1. lo \in lo .. hi
    BY <1>1
  <2> QED
    BY <1>3, <1>4, <2>1, BlockRearranged
<1>6. /\ k \in Nat /\ stack \in Seq(first .. last)
      /\ \A s \in 1 .. k : stack[s] \in Int /\ hi + 1 <= stack[s] /\ stack[s] < last + 1
      /\ (k = 0 => hi = last) /\ (k > 0 => k \in 1 .. k /\ hi = stack[k] - 1)
      /\ 2 * k <= last - hi
  BY StackNumbers
<1>7. b \in Int /\ b \in first .. last /\ first < b /\ lo < b /\ b < hi
  BY <1>1
<1>8. /\ stack' \in Seq(first .. last) /\ Len(stack') = k + 1 /\ stack'[k + 1] = b
      /\ \A s \in 1 .. k : stack'[s] = stack[s]
      /\ stack' # <<>>
  <2>1. stack' \in Seq(first .. last) /\ Len(stack') = k + 1 /\ stack'[k + 1] = b
        /\ \A s \in 1 .. k : stack'[s] = stack[s]
    BY <1>4, <1>6, <1>7, AppendProperties
  <2> QED
    BY <1>6, <2>1, EmptySeq
<1> HIDE DEF k
<1>9. \A s \in 1 .. k + 1 : s \in 1 .. k \/ s = k + 1
  BY <1>6
<1>10. Q!TypeOK'
  <2>1. lo' \in first' .. last' /\ hi' \in lo' .. last'
    BY <1>1, <1>2, <1>4, <1>7
  <2>2. i' \in first' .. last' /\ pc' \in {"descend", "select", "done"}
    BY <1>2 DEF QIInv, Q!TypeOK
  <2>3. v' \in [Q!Pos -> Keys]
    BY <1>5, SameOperators
  <2> QED
    BY <1>1, <1>2, <1>8, <2>1, <2>2, <2>3 DEF Q!TypeOK
<1>11. Q!Tiling'
  <2>1. hi' = Q!DerivedHi(stack)'
    BY <1>4, <1>8 DEF Q!DerivedHi
  <2>2. ASSUME NEW s \in 1 .. k + 1
        PROVE  stack'[s] - 1 \in hi' .. (IF s = 1 THEN last' ELSE stack'[s - 1] - 1) - 1
    <3>1. CASE s \in 1 .. k
      <4>1. stack[s] - 1 \in hi .. (IF s = 1 THEN last ELSE stack[s - 1] - 1) - 1
        BY <3>1 DEF QIInv, Q!Tiling, k
      <4>2. s # 1 => s - 1 \in 1 .. k
        BY <1>6, <3>1
      <4>3. stack[s] \in Int /\ (s # 1 => stack[s - 1] \in Int)
        BY <1>6, <3>1, <4>2
      <4>4. stack'[s] = stack[s] /\ (s # 1 => stack'[s - 1] = stack[s - 1])
        BY <1>8, <3>1, <4>2
      <4>5. CASE s = 1
        BY <1>1, <1>2, <1>4, <1>7, <4>1, <4>3, <4>4, <4>5
      <4>6. CASE s # 1
        <5>1. stack[s] - 1 \in hi .. stack[s - 1] - 1 - 1
          BY <4>1, <4>6
        <5>2. stack[s] - 1 \in hi' .. stack[s - 1] - 1 - 1
          BY <1>1, <1>4, <1>7, <4>3, <4>6, <5>1
        <5>3. stack'[s] - 1 \in hi' .. stack'[s - 1] - 1 - 1
          BY <4>4, <4>6, <5>2
        <5> QED
          BY <4>6, <5>3
      <4> QED
        BY <4>5, <4>6
    <3>2. CASE s = k + 1
      <4>1. stack'[s] = b
        BY <1>8, <3>2
      <4>2. CASE k = 0
        BY <1>1, <1>2, <1>4, <1>6, <1>7, <3>2, <4>1, <4>2
      <4>3. CASE k > 0
        <5>1. s # 1 /\ s - 1 = k /\ stack'[k] - 1 = hi
          BY <1>6, <1>8, <3>2, <4>3
        <5> QED
          <6>1. b - 1 \in hi' .. hi - 1
            BY <1>1, <1>4, <1>7
          <6>2. stack'[s] - 1 \in hi' .. stack'[s - 1] - 1 - 1
            BY <4>1, <5>1, <6>1
          <6> QED
            BY <5>1, <6>2
      <4> QED
        BY <1>6, <4>2, <4>3
    <3> QED
      BY <1>9, <3>1, <3>2
  <2> QED
    BY <1>8, <2>1, <2>2 DEF Q!Tiling
<1>12. Q!PivotsPlaced'
  <2> SUFFICES ASSUME NEW s \in 1 .. k + 1
               PROVE  /\ \A q \in first .. stack'[s] - 1 - 1 : v'[q] <= v'[stack'[s] - 1]
                      /\ \A q \in stack'[s] - 1 + 1 .. last - 1 : v'[stack'[s] - 1] <= v'[q]
    BY <1>2, <1>8 DEF Q!PivotsPlaced
  <2>1. CASE s \in 1 .. k
    <3>1. stack'[s] = stack[s] /\ stack[s] \in Int
      BY <1>6, <1>8, <2>1
    <3>2. stack[s] - 1 - 1 = stack[s] - 2 /\ stack[s] - 1 + 1 = stack[s]
      BY <3>1
    <3> QED
      BY <1>5, <2>1, <3>1, <3>2
  <2>2. CASE s = k + 1
    <3>1. stack'[s] = b
      BY <1>8, <2>2
    <3>2. ASSUME NEW q \in first .. b - 2 PROVE v'[q] <= v'[b - 1]
      <4>1. CASE q < lo
        <5>1. q \in first .. lo - 1 /\ b - 1 \in q .. last - 1
          BY <1>1, <1>7, <4>1
        <5> QED
          BY <1>5, <5>1
      <4>2. CASE ~ (q < lo)
        <5>1. q \in lo .. b - 1
          BY <1>1, <1>7, <4>2
        <5> QED
          BY <1>4, <5>1
      <4> QED
        BY <4>1, <4>2
    <3>3. ASSUME NEW q \in b .. last - 1 PROVE v'[b - 1] <= v'[q]
      <4>1. CASE q < hi
        <5>1. q \in b .. hi - 1
          BY <1>1, <1>7, <4>1
        <5> QED
          BY <1>4, <5>1
      <4>2. CASE ~ (q < hi)
        <5>1. q \in hi .. last - 1 /\ b - 1 \in first .. hi - 1
          BY <1>1, <1>7, <4>2
        <5> QED
          BY <1>5, <5>1
      <4> QED
        BY <4>1, <4>2
    <3>4. b - 1 - 1 = b - 2 /\ b - 1 + 1 = b
      BY <1>7
    <3> QED
      BY <3>1, <3>2, <3>3, <3>4
  <2> QED
    BY <1>9, <2>1, <2>2
<1>13. Q!SpineBound'
  <2>1. 2 * (k + 1) <= last - first - Threshold + 1
    BY <1>1, <1>2, <1>6
  <2> QED
    BY <1>2, <1>8, <2>1 DEF Q!SpineBound
<1>14. InPlace'
  BY <1>2, <1>3, <1>5 DEF InPlace
<1>15. CursorInside'
  BY <1>2 DEF CursorInside
<1>16. Descending'
  <2>1. \A s, t \in 1 .. k : s < t => stack[t] < stack[s]
    BY DEF QIInv, Descending, k
  <2>2. \A s \in 1 .. k : b < stack[s]
    BY <1>1, <1>6, <1>7
  <2>3. ASSUME NEW s \in 1 .. k + 1, NEW t \in 1 .. k + 1, s < t PROVE stack'[t] < stack'[s]
    <3>1. s \in 1 .. k
      BY <1>6, <2>3
    <3>2. CASE t = k + 1
      BY <1>8, <2>2, <3>1, <3>2
    <3>3. CASE t \in 1 .. k
      BY <1>8, <2>1, <2>3, <3>1, <3>3
    <3> QED
      BY <1>9, <3>2, <3>3
  <2> QED
    BY <1>8, <2>3 DEF Descending
<1>17. TwoPerBlock'
  <2>1. \A s \in 1 .. k : 2 * s <= last - stack[s] + 1
    BY DEF QIInv, TwoPerBlock, k
  <2>2. 2 * (k + 1) <= last - b + 1
    BY <1>1, <1>6, <1>7
  <2>3. ASSUME NEW s \in 1 .. k + 1 PROVE 2 * s <= last' - stack'[s] + 1
    <3>1. CASE s \in 1 .. k
      BY <1>2, <1>8, <2>1, <3>1
    <3>2. CASE s = k + 1
      BY <1>2, <1>8, <2>2, <3>2
    <3> QED
      BY <1>9, <3>1, <3>2
  <2> QED
    BY <1>8, <2>3 DEF TwoPerBlock
<1>18. Advances
  <2>1. Shuffled(Keys, v, v', lo, last)
    <3>1. lo \in 0 .. lo /\ last \in hi .. N
      BY <1>1
    <3> QED
      BY <1>1, <1>4, <3>1, ShuffledWider
  <2>2. lo \in lo .. last
    BY <1>1
  <2> QED
    BY <1>2, <1>3, <2>1, <2>2 DEF Advances
<1> QED
  BY <1>10, <1>11, <1>12, <1>13, <1>14, <1>15, <1>16, <1>17, <1>18 DEF QIInv

\* Both minimum scans find a least key of the cells that are left.
LEMMA FirstMinLeast ==
    ASSUME QIInv, NEW s, s \subseteq first .. last - 1, s # {}
    PROVE  Q!FirstMin(s) \in s /\ \A q \in s : v[Q!FirstMin(s)] <= v[q]
<1>1. first \in Int /\ last \in Int /\ \A p \in first .. last - 1 : v[p] \in Int
  BY QNumbers
<1>2. IsFiniteSet(first .. last - 1)
  BY <1>1, FS_Interval
<1>3. IsFiniteSet(s) /\ s \subseteq Int /\ \A p \in s : v[p] \in Int
  <2>1. IsFiniteSet(s)
    BY <1>2, FS_Subset
  <2> QED
    BY <1>1, <2>1
<1>4. \E p \in s : \A q \in s : v[p] < v[q] \/ (v[p] = v[q] /\ p <= q)
  BY <1>3, FirstLeastKey
<1> DEFINE m == Q!FirstMin(s)
<1>5. m \in s /\ \A q \in s : v[m] < v[q] \/ (v[m] = v[q] /\ m <= q)
  BY <1>4 DEF Q!FirstMin
<1> HIDE DEF m
<1>6. \A q \in s : v[m] <= v[q]
  BY <1>3, <1>5
<1> QED
  BY <1>5, <1>6 DEF m

LEMMA MinScans ==
    ASSUME QIInv, pc = "select", hi - i > 1, NEW m \in {Q!MinScanWide, Q!MinScanNarrow}
    PROVE  m \in i .. hi - 1 /\ \A q \in i .. hi - 1 : v[m] <= v[q]
<1>1. /\ first \in Int /\ last \in Int /\ hi \in Int /\ i \in Int
      /\ first <= i /\ hi <= last
      /\ \A p \in first .. last - 1 : v[p] \in Int
  <2>1. i \in lo .. hi
    BY DEF QIInv, CursorInside
  <2> QED
    BY <2>1, QNumbers
<1> DEFINE all  == i .. hi - 1
           odd  == {i} \cup {p \in i .. hi - 1 : (p - i) % 2 = 1}
           even == {p \in i .. hi - 1 : (p - i) % 2 = 0}
<1>2. i \in all /\ i \in odd /\ (i - i) % 2 = 0
  BY <1>1
<1>3. all \subseteq first .. last - 1 /\ odd \subseteq all /\ even \subseteq all /\ i \in even
  BY <1>1, <1>2
<1>4. \A q \in all : q \in odd \/ q \in even
  <2> SUFFICES ASSUME NEW q \in all PROVE q \in odd \/ q \in even
    OBVIOUS
  <2>1. q - i \in Nat
    BY <1>1
  <2>2. (q - i) % 2 \in 0 .. 2 - 1
    BY <2>1, DivisionFacts
  <2> QED
    BY <2>2
<1>5. Q!MinScanWide = Q!FirstMin(all)
  BY DEF Q!MinScanWide
<1> DEFINE lane0 == Q!FirstMin(odd)
           lane1 == Q!FirstMin(even)
<1>6. Q!MinScanNarrow = IF v[lane1] < v[lane0] THEN lane1 ELSE lane0
  BY DEF Q!MinScanNarrow
<1> HIDE DEF all, odd, even
<1>7. /\ odd \subseteq first .. last - 1 /\ odd # {}
      /\ even \subseteq first .. last - 1 /\ even # {} /\ all # {}
  BY <1>2, <1>3
<1>8. /\ lane0 \in odd /\ \A q \in odd : v[lane0] <= v[q]
      /\ lane1 \in even /\ \A q \in even : v[lane1] <= v[q]
  BY <1>7, FirstMinLeast
<1> HIDE DEF lane0, lane1
<1>9. CASE m = Q!MinScanWide
  <2>1. m \in all /\ \A q \in all : v[m] <= v[q]
    BY <1>3, <1>5, <1>7, <1>9, FirstMinLeast
  <2> QED
    BY <2>1 DEF all
<1>10. CASE m = Q!MinScanNarrow
  <2>1. m \in all /\ \A q \in odd \cup even : v[q] \in Int
    BY <1>1, <1>3, <1>6, <1>8, <1>10
  <2>2. \A q \in odd : v[m] <= v[q]
    BY <1>6, <1>8, <1>10, <2>1
  <2>3. \A q \in even : v[m] <= v[q]
    BY <1>6, <1>8, <1>10, <2>1
  <2> QED
    BY <1>4, <2>1, <2>2, <2>3 DEF all
<1> QED
  BY <1>9, <1>10

LEMMA QSelectMin == ASSUME QIInv, Q!SelectMin PROVE QIInv' /\ Advances
<1>1. /\ pc = "select" /\ hi - i > 1 /\ i' = i + 1
      /\ first' = first /\ last' = last /\ lo' = lo /\ hi' = hi /\ stack' = stack /\ pc' = pc
  BY DEF Q!SelectMin, Q!args
<1>2. PICK m \in {Q!MinScanWide, Q!MinScanNarrow} : v' = Swap(v, i, m)
  BY SameOperators DEF Q!SelectMin
<1>3. m \in i .. hi - 1 /\ \A q \in i .. hi - 1 : v[m] <= v[q]
  BY <1>1, MinScans
<1>4. i \in lo .. hi
  BY <1>1 DEF QIInv, CursorInside
<1>5. /\ first \in Int /\ hi \in Int /\ last \in Int /\ lo \in Int /\ i \in Int /\ N \in Nat
      /\ first <= lo /\ lo <= i /\ lo <= hi /\ hi <= last /\ 0 <= i
      /\ hi \in 0 .. N /\ last \in 0 .. N /\ i \in 0 .. N
      /\ v \in [Pos -> Keys]
      /\ \A p \in first .. last - 1 : p \in Pos
  BY <1>4, QNumbers
<1>6. Final = i /\ Final' = i + 1
  BY <1>1 DEF Final
<1>7. i \in i .. hi - 1 /\ i \in Pos /\ m \in Pos
  BY <1>1, <1>3, <1>5
<1>8. Shuffled(Keys, v, v', i, hi)
  BY <1>2, <1>3, <1>5, <1>7, SwapShuffles
<1>9. v'[i] = v[m]
  BY <1>2, <1>5, <1>7 DEF Swap
<1>10. /\ v' \in [Pos -> Keys]
       /\ \A p \in first .. i - 1 : \A q \in p .. last - 1 : v'[p] <= v'[q]
       /\ \A p \in first .. hi - 1 : \A q \in hi .. last - 1 : v'[p] <= v'[q]
       /\ \A s \in 1 .. Len(stack) :
             /\ \A q \in first .. stack[s] - 2 : v'[q] <= v'[stack[s] - 1]
             /\ \A q \in stack[s] .. last - 1 : v'[stack[s] - 1] <= v'[q]
  BY <1>4, <1>6, <1>8, BlockRearranged
<1>11. \A q \in i .. last - 1 : v'[i] <= v'[q]
  <2> SUFFICES ASSUME NEW q \in i .. last - 1 PROVE v'[i] <= v'[q]
    OBVIOUS
  <2>1. CASE q < hi
    <3>1. q \in i .. hi - 1
      BY <1>5, <2>1
    <3>2. PICK r \in i .. hi - 1 : v[r] = v'[q]
      <4>1. i \in Int /\ hi \in 0 .. N /\ 0 <= i
        BY <1>5
      <4> QED
        BY <1>8, <3>1, <4>1, ShuffledFrom
    <3> QED
      BY <1>3, <1>9, <3>2
  <2>2. CASE ~ (q < hi)
    <3>1. i \in first .. hi - 1 /\ q \in hi .. last - 1
      BY <1>1, <1>5, <2>2
    <3> QED
      BY <1>10, <3>1
  <2> QED
    BY <2>1, <2>2
<1>12. Q!TypeOK'
  <2>1. v' \in [Q!Pos -> Keys]
    BY <1>10, SameOperators
  <2>2. i' \in first .. last
    BY <1>1, <1>5
  <2> QED
    BY <1>1, <2>1, <2>2 DEF QIInv, Q!TypeOK
<1>13. Q!Tiling' /\ Q!SpineBound' /\ Descending' /\ TwoPerBlock'
  BY <1>1 DEF QIInv, Q!Tiling, Q!DerivedHi, Q!SpineBound, Descending, TwoPerBlock
<1>14. Q!PivotsPlaced'
  <2>1. \A s \in 1 .. Len(stack) :
           stack[s] - 1 - 1 = stack[s] - 2 /\ stack[s] - 1 + 1 = stack[s]
    <3>1. \A s \in 1 .. Len(stack) : stack[s] \in Int
      BY StackNumbers
    <3> QED
      BY <3>1
  <2> QED
    BY <1>1, <1>10, <2>1 DEF Q!PivotsPlaced
<1>15. InPlace'
  <2>1. first' = first /\ last' = last /\ Final' - 1 = i
    BY <1>1, <1>5, <1>6
  <2> SUFFICES ASSUME NEW p \in first .. i, NEW q \in p .. last - 1 PROVE v'[p] <= v'[q]
    BY <2>1 DEF InPlace
  <2>2. p \in first .. i - 1 \/ p = i
    BY <1>5
  <2> QED
    BY <1>10, <1>11, <2>2
<1>16. CursorInside'
  BY <1>1, <1>5 DEF CursorInside
<1>17. Advances
  <2>1. Shuffled(Keys, v, v', i, last)
    <3>1. i \in 0 .. i /\ last \in hi .. N
      BY <1>5
    <3> QED
      BY <1>5, <1>8, <3>1, ShuffledWider
  <2>2. i + 1 \in i .. last
    BY <1>1, <1>5
  <2> QED
    BY <1>1, <1>6, <2>1, <2>2 DEF Advances
<1> QED
  BY <1>12, <1>13, <1>14, <1>15, <1>16, <1>17 DEF QIInv

LEMMA QStay ==
    ASSUME QIInv, v' = v, first' = first, last' = last, Final' \in Final .. last
    PROVE  Advances
<1>1. v \in [Pos -> Keys]
  BY QNumbers
<1>2. Shuffled(Keys, v, v, Final, last)
  BY <1>1, NotShuffled
<1> QED
  BY <1>2 DEF Advances

LEMMA QStartSelection == ASSUME QIInv, Q!StartSelection PROVE QIInv' /\ Advances
<1>1. /\ pc = "descend" /\ pc' = "select" /\ i' = lo
      /\ v' = v /\ first' = first /\ last' = last /\ lo' = lo /\ hi' = hi /\ stack' = stack
  BY DEF Q!StartSelection, Q!args
<1>2. Final = lo /\ Final' = lo
  BY <1>1 DEF Final
<1>3. /\ first \in Int /\ hi \in Int /\ last \in Int /\ lo \in Int
      /\ first <= lo /\ lo <= hi /\ hi <= last
  BY QNumbers
<1>4. Q!TypeOK'
  <2>1. i' \in first .. last
    BY <1>1, <1>3
  <2> QED
    BY <1>1, <2>1 DEF QIInv, Q!TypeOK
<1>5. Q!Tiling' /\ Q!PivotsPlaced' /\ Q!SpineBound' /\ Descending' /\ TwoPerBlock'
  BY <1>1 DEF QIInv, Q!Tiling, Q!DerivedHi, Q!PivotsPlaced, Q!SpineBound, Descending, TwoPerBlock
<1>6. InPlace'
  BY <1>1, <1>2 DEF QIInv, InPlace
<1>7. CursorInside'
  BY <1>1, <1>3 DEF CursorInside
<1>8. Advances
  <2>1. Final' \in Final .. last
    BY <1>2, <1>3
  <2> QED
    BY <1>1, <2>1, QStay
<1> QED
  BY <1>4, <1>5, <1>6, <1>7, <1>8 DEF QIInv

\* A block of one cell at most is final, and so is the pivot behind it.
LEMMA LastCellFinal ==
    ASSUME QIInv, pc = "select", hi - i <= 1, NEW p \in first .. hi - 1, NEW q \in p .. last - 1
    PROVE  v[p] <= v[q]
<1>1. i \in lo .. hi /\ Final = i
  BY DEF QIInv, CursorInside, Final
<1>2. /\ first \in Int /\ hi \in Int /\ last \in Int /\ lo \in Int /\ i \in Int
      /\ first <= i /\ i <= hi /\ hi <= last
      /\ \A r \in first .. last - 1 : v[r] \in Int
  BY <1>1, QNumbers
<1>3. CASE p < i
  <2>1. p \in first .. i - 1
    BY <1>2, <1>3
  <2> QED
    BY <1>1, <2>1 DEF QIInv, InPlace
<1>4. CASE ~ (p < i) /\ q = p
  BY <1>2, <1>4
<1>5. CASE ~ (p < i) /\ q # p
  <2>1. q \in hi .. last - 1
    BY <1>2, <1>5
  <2> QED
    BY <2>1, AboveBlock
<1> QED
  BY <1>3, <1>4, <1>5

LEMMA QPop == ASSUME QIInv, Q!Pop PROVE QIInv' /\ Advances
<1> DEFINE k == Len(stack)
<1>1. /\ pc = "select" /\ pc' = "descend" /\ hi - i <= 1 /\ stack # <<>>
      /\ lo' = stack[k] /\ stack' = SubSeq(stack, 1, k - 1) /\ hi' = Q!DerivedHi(stack')
      /\ v' = v /\ first' = first /\ last' = last /\ i' = i
  BY DEF Q!Pop, Q!args
<1>2. /\ first \in Int /\ hi \in Int /\ last \in Int /\ lo \in Int /\ i \in Int /\ N \in Nat
      /\ first <= lo /\ lo <= i /\ i <= hi /\ hi <= last
  <2>1. i \in lo .. hi
    BY <1>1 DEF QIInv, CursorInside
  <2> QED
    BY <2>1, QNumbers
<1>3. Final = i /\ Final' = lo'
  BY <1>1 DEF Final
<1>4. /\ k \in Nat /\ k > 0 /\ k \in 1 .. k /\ stack \in Seq(first .. last)
      /\ \A s \in 1 .. k : stack[s] \in first .. last /\ stack[s] \in Int
      /\ hi = stack[k] - 1 /\ stack[k] < last + 1
  BY <1>1, StackNumbers
<1>5. /\ stack' \in Seq(first .. last) /\ Len(stack') = k - 1
      /\ \A s \in 1 .. k - 1 : stack'[s] = stack[s]
  <2> DEFINE n == k - 1
             t == SubSeq(stack, 1, n)
  <2>1. n \in Int /\ 0 <= n /\ \A s \in 1 .. n : stack[s] \in first .. last
    BY <1>4
  <2> HIDE DEF n
  <2>2. /\ t \in Seq(first .. last)
        /\ Len(t) = IF 1 <= n THEN n - 1 + 1 ELSE 0
        /\ \A s \in 1 .. n - 1 + 1 : t[s] = stack[1 + s - 1]
    BY <2>1, SubSeqProperties
  <2>3. stack' = t
    BY <1>1 DEF n
  <2> HIDE DEF t
  <2>4. Len(t) = n /\ \A s \in 1 .. n : t[s] = stack[s]
    BY <2>1, <2>2
  <2> QED
    BY <2>2, <2>3, <2>4 DEF n
<1>6. Descending /\ TwoPerBlock /\ InPlace
  BY DEF QIInv
<1>7. /\ k = 1 => hi' = last
      /\ k > 1 => hi' = stack[k - 1] - 1
  <2>1. CASE k = 1
    <3>1. stack' = <<>>
      BY <1>4, <1>5, <2>1, EmptySeq
    <3> QED
      BY <1>1, <2>1, <3>1 DEF Q!DerivedHi
  <2>2. CASE k > 1
    <3>1. stack' # <<>> /\ k - 1 \in 1 .. k - 1
      BY <1>4, <1>5, <2>2, EmptySeq
    <3> QED
      BY <1>1, <1>5, <2>2, <3>1 DEF Q!DerivedHi
  <2> QED
    BY <1>4, <2>1, <2>2
<1> HIDE DEF k
<1>8. hi' \in Int /\ lo' \in Int /\ first <= lo' /\ lo' <= hi' /\ hi' <= last /\ hi < lo'
  <2>1. lo' = hi + 1 /\ lo' \in first .. last
    <3>1. lo' = stack[k] /\ hi = stack[k] - 1 /\ stack[k] \in first .. last /\ stack[k] \in Int
      BY <1>1, <1>4
    <3> QED
      BY <3>1
  <2>2. CASE k = 1
    <3>1. hi' = last
      BY <1>7, <2>2
    <3> QED
      BY <1>2, <2>1, <3>1
  <2>3. CASE k > 1
    <3>1. k - 1 \in 1 .. k /\ k \in 1 .. k /\ k - 1 < k
      BY <1>4, <2>3
    <3>2. stack[k] < stack[k - 1] /\ stack[k - 1] \in first .. last
      BY <1>4, <1>6, <3>1 DEF Descending, k
    <3>3. hi' = stack[k - 1] - 1 /\ lo' = stack[k]
      BY <1>1, <1>7, <2>3
    <3> HIDE DEF k
    <3> QED
      BY <1>2, <2>1, <3>2, <3>3
  <2>4. k = 1 \/ k > 1
    BY <1>4
  <2> QED
    BY <2>2, <2>3, <2>4
<1>9. Q!TypeOK'
  <2>1. /\ v' \in [Q!Pos -> Keys] /\ i' \in first .. last
        /\ first \in 0 .. N /\ last \in first .. N
    BY <1>1 DEF QIInv, Q!TypeOK
  <2>2. lo' \in first .. last /\ hi' \in lo' .. last
    BY <1>2, <1>8
  <2> QED
    BY <1>1, <1>5, <2>1, <2>2 DEF Q!TypeOK
<1>10. Q!Tiling'
  <2>1. hi' = Q!DerivedHi(stack)'
    BY <1>1 DEF Q!DerivedHi
  <2>2. ASSUME NEW s \in 1 .. k - 1
        PROVE  stack'[s] - 1 \in hi' .. (IF s = 1 THEN last' ELSE stack'[s - 1] - 1) - 1
    <3> DEFINE end == IF s = 1 THEN last ELSE stack[s - 1] - 1
    <3>1. s \in 1 .. k /\ k > 1 /\ (s # 1 => s - 1 \in 1 .. k - 1 /\ s - 1 \in 1 .. k)
      BY <1>4
    <3>2. stack[s] - 1 \in hi .. end - 1
      BY <3>1 DEF QIInv, Q!Tiling, k
    <3>3. end = IF s = 1 THEN last' ELSE stack'[s - 1] - 1
      BY <1>1, <1>5, <3>1
    <3>4. end \in Int
      BY <1>2, <1>4, <3>1
    <3> HIDE DEF end
    <3>5. k - 1 \in 1 .. k /\ (s = k - 1 \/ s < k - 1)
      BY <1>4, <3>1
    <3>6. stack[k - 1] <= stack[s] /\ stack[s] \in Int /\ stack[k - 1] \in Int
      BY <1>4, <1>6, <3>1, <3>5 DEF Descending, k
    <3>7. stack[s] - 1 \in hi' .. end - 1
      BY <1>2, <1>7, <3>1, <3>2, <3>4, <3>6
    <3> QED
      BY <1>5, <3>3, <3>7
  <2> QED
    BY <1>5, <2>1, <2>2 DEF Q!Tiling
<1>11. Q!PivotsPlaced'
  <2> SUFFICES ASSUME NEW s \in 1 .. k - 1
               PROVE  /\ \A q \in first .. stack[s] - 1 - 1 : v[q] <= v[stack[s] - 1]
                      /\ \A q \in stack[s] - 1 + 1 .. last - 1 : v[stack[s] - 1] <= v[q]
    BY <1>1, <1>5 DEF Q!PivotsPlaced
  <2>1. s \in 1 .. Len(stack)
    BY <1>4 DEF k
  <2> QED
    BY <2>1 DEF QIInv, Q!PivotsPlaced
<1>12. Q!SpineBound'
  <2>1. 2 * k <= last - first - Threshold + 1
    BY <1>1 DEF QIInv, Q!SpineBound, k
  <2>2. Threshold \in Nat
    BY QNumbers
  <2>3. 2 * (k - 1) <= last - first - Threshold + 1
    BY <1>2, <1>4, <2>1, <2>2
  <2> QED
    BY <1>1, <1>5, <2>3 DEF Q!SpineBound
<1>13. InPlace'
  <2>1. first' = first /\ last' = last /\ v' = v /\ Final' - 1 = hi
    BY <1>1, <1>2, <1>3, <1>4 DEF k
  <2> SUFFICES ASSUME NEW p \in first .. hi, NEW q \in p .. last - 1 PROVE v[p] <= v[q]
    BY <2>1 DEF InPlace
  <2>2. CASE p \in first .. hi - 1
    BY <1>1, <2>2, LastCellFinal
  <2>3. CASE p = hi
    <3>1. k \in 1 .. Len(stack) /\ hi = stack[k] - 1
      BY <1>4 DEF k
    <3>2. \A r \in hi + 1 .. last - 1 : v[hi] <= v[r]
      BY <3>1 DEF QIInv, Q!PivotsPlaced
    <3>3. CASE q = hi
      <4>1. hi \in first .. last - 1
        BY <1>2, <1>4
      <4>2. v[hi] \in Int
        BY <4>1, QNumbers
      <4> QED
        BY <2>3, <3>3, <4>2
    <3>4. CASE q # hi
      BY <1>2, <2>3, <3>2, <3>4
    <3> QED
      BY <3>3, <3>4
  <2> QED
    BY <1>2, <2>2, <2>3
<1>14. CursorInside'
  BY <1>1 DEF CursorInside
<1>15. Descending'
  <2>1. \A s \in 1 .. k - 1 : s \in 1 .. k
    BY <1>4
  <2> QED
    BY <1>5, <1>6, <2>1 DEF Descending, k
<1>16. TwoPerBlock'
  <2>1. \A s \in 1 .. k - 1 : s \in 1 .. k
    BY <1>4
  <2> QED
    BY <1>1, <1>5, <1>6, <2>1 DEF TwoPerBlock, k
<1>17. Advances
  <2>1. Final' \in Final .. last
    BY <1>2, <1>3, <1>8
  <2> QED
    BY <1>1, <2>1, QStay
<1> QED
  BY <1>9, <1>10, <1>11, <1>12, <1>13, <1>14, <1>15, <1>16, <1>17 DEF QIInv

LEMMA QFinish == ASSUME QIInv, Q!Finish PROVE QIInv' /\ Advances
<1>1. /\ pc = "select" /\ pc' = "done" /\ hi - i <= 1 /\ stack = <<>> /\ i' = i
      /\ v' = v /\ first' = first /\ last' = last /\ lo' = lo /\ hi' = hi /\ stack' = stack
  BY DEF Q!Finish, Q!args
<1>2. Final = i /\ Final' = last
  BY <1>1 DEF Final
<1>3. hi = last /\ last \in Int /\ i \in Int /\ i <= last
  <2>1. i \in lo .. hi
    BY <1>1 DEF QIInv, CursorInside
  <2> QED
    BY <1>1, <2>1, QNumbers, StackNumbers
<1>4. Q!TypeOK'
  BY <1>1 DEF QIInv, Q!TypeOK
<1>5. Q!Tiling' /\ Q!PivotsPlaced' /\ Q!SpineBound' /\ Descending' /\ TwoPerBlock'
  BY <1>1 DEF QIInv, Q!Tiling, Q!DerivedHi, Q!PivotsPlaced, Q!SpineBound, Descending, TwoPerBlock
<1>6. InPlace'
  <2>1. \A p \in first .. last - 1 : \A q \in p .. last - 1 : v[p] <= v[q]
    BY <1>1, <1>3, LastCellFinal
  <2> QED
    BY <1>1, <1>2, <2>1 DEF InPlace
<1>7. CursorInside'
  BY <1>1 DEF CursorInside
<1>8. Advances
  <2>1. Final' \in Final .. last
    BY <1>2, <1>3
  <2> QED
    BY <1>1, <2>1, QStay
<1> QED
  BY <1>4, <1>5, <1>6, <1>7, <1>8 DEF QIInv
-----------------------------------------------------------------------------
LEMMA QInit == ASSUME Q!Init PROVE QIInv
<1>1. /\ v \in [Q!Pos -> Keys] /\ first \in 0 .. N /\ last \in first .. N
      /\ lo = first /\ hi = last /\ stack = <<>> /\ i = first /\ pc = "descend"
  BY DEF Q!Init
<1>2. N \in Nat /\ first \in Int /\ last \in Int /\ first <= last
  BY <1>1, NAssumption
<1>3. stack \in Seq(first .. last) /\ Len(stack) = 0
  BY <1>1, EmptySeq
<1>4. Final = first
  BY <1>1 DEF Final
<1>5. Q!TypeOK
  BY <1>1, <1>2, <1>3 DEF Q!TypeOK
<1>6. Q!Tiling
  BY <1>1, <1>3 DEF Q!Tiling, Q!DerivedHi
<1>7. Q!PivotsPlaced /\ Q!SpineBound /\ CursorInside /\ Descending /\ TwoPerBlock
  BY <1>1, <1>3 DEF Q!PivotsPlaced, Q!SpineBound, CursorInside, Descending, TwoPerBlock
<1>8. InPlace
  BY <1>2, <1>4 DEF InPlace
<1> QED
  BY <1>5, <1>6, <1>7, <1>8 DEF QIInv

LEMMA QQuiet == ASSUME QIInv, UNCHANGED Q!vars PROVE QIInv' /\ Advances
<1>1. /\ v' = v /\ first' = first /\ last' = last /\ lo' = lo /\ hi' = hi
      /\ stack' = stack /\ i' = i /\ pc' = pc
  BY DEF Q!vars, Q!args
<1>2. QIInv'
  BY <1>1 DEF QIInv, Q!TypeOK, Q!Tiling, Q!DerivedHi, Q!PivotsPlaced, Q!SpineBound, InPlace, Final,
     CursorInside, Descending, TwoPerBlock
<1>3. Final \in Final .. last
  <2>1. pc \in {"descend", "select", "done"}
    BY DEF QIInv, Q!TypeOK
  <2>2. lo \in first .. last /\ i \in first .. last /\ first \in Int /\ last \in first .. N
    BY QNumbers DEF QIInv, Q!TypeOK
  <2>3. Final \in {lo, i, last}
    BY <2>1 DEF Final
  <2> QED
    BY <2>2, <2>3, NAssumption
<1>4. Final' = Final
  BY <1>1 DEF Final
<1> QED
  BY <1>1, <1>2, <1>3, <1>4, QStay

LEMMA QNext == QIInv /\ [Q!Next]_Q!vars => QIInv' /\ Advances
BY QPartition, QStartSelection, QSelectMin, QPop, QFinish, QQuiet DEF Q!Next

\* In a behaviour of the composed runs that is a call of quicksort_lr.
SIInv == Sorting => QIInv

LEMMA SNext == SIInv /\ [MCNext]_allVars => SIInv'
<1> SUFFICES ASSUME SIInv, [MCNext]_allVars, Sorting' PROVE QIInv'
  BY DEF SIInv
<1>1. Sorting /\ [Q!Next]_Q!vars
  <2>1. CASE UNCHANGED allVars
    BY <2>1 DEF allVars, ofStack, Q!vars, Q!args, Sorting
  <2>2. CASE MCNext /\ ~ UNCHANGED allVars
    BY <2>2 DEF MCNext, sorts, halves, ranks, Sorting, Halving, Ranking, Q!Next
  <2> QED
    BY <2>1, <2>2
<1> QED
  BY <1>1, QNext DEF SIInv

LEMMA SInit == MCInit => SIInv
BY QInit DEF MCInit, SortCalls, HalfCalls, RankCalls, Sorting, SIInv

\* The inductive invariant of quicksort_lr holds in every state of its calls.
THEOREM SelectionInvariance == (Q!Spec => []QIInv) /\ (MCSpec => []SIInv)
<1>1. Q!Init => QIInv
  BY QInit
<1>2. QIInv /\ [Q!Next]_Q!vars => QIInv'
  BY QNext
<1>3. Q!Spec => []QIInv
  BY <1>1, <1>2, PTL DEF Q!Spec
<1>4. MCSpec => []SIInv
  BY SInit, SNext, PTL DEF MCSpec
<1> QED
  BY <1>3, <1>4

\* quicksort_lr: the ends that its stack does not store are the ones it derives,
\* and the pivots between the postponed blocks separate the whole array, for
\* every range, whatever the keys and the outcomes of the partitions.
THEOREM StackInvariantHolds ==
    (Q!Spec => []Q!StackInvariant) /\ (MCSpec => []StackInvariant)
<1>1. QIInv => Q!StackInvariant
  BY DEF QIInv, Q!StackInvariant
<1>2. SIInv => StackInvariant
  BY <1>1 DEF SIInv, StackInvariant
<1> QED
  BY <1>1, <1>2, SelectionInvariance, PTL

\* quicksort_lr: the stack is at most half as deep as the range is long, so that the
\* assertion on its fixed size (quicksort_lr.hpp:319) cannot fail on a range of
\* up to 2 * qslr_stack_cap + Threshold cells.
THEOREM SpineBoundHolds ==
    (Q!Spec => []Q!SpineBound) /\ (MCSpec => []SpineBound)
<1>1. QIInv => Q!SpineBound
  BY DEF QIInv
<1>2. SIInv => SpineBound
  BY <1>1 DEF SIInv, SpineBound
<1> QED
  BY <1>1, <1>2, SelectionInvariance, PTL
-----------------------------------------------------------------------------
LEMMA ShuffledIsRearranged ==
    ASSUME NEW a, NEW b, NEW l, NEW h, Shuffled(Keys, a, b, l, h)
    PROVE  Q!FrontToBack!Rearranged(b, a, l, h)
<1>1. \A x \in Keys : Cardinality(Occurrences(a, x, l, h)) = Cardinality(Occurrences(b, x, l, h))
  BY DEF Shuffled, SameCounts
<1>2. ASSUME NEW c, NEW x \in Keys
      PROVE  Q!FrontToBack!KeyCounts(c, Keys, l, h)[x] = Cardinality(Occurrences(c, x, l, h))
  <2>1. Q!FrontToBack!Cardinality(Occurrences(c, x, l, h)) = Cardinality(Occurrences(c, x, l, h))
    BY DEF Q!FrontToBack!Cardinality, Cardinality
  <2>2. Q!FrontToBack!KeyCounts(c, Keys, l, h)[x]
            = Q!FrontToBack!Cardinality(Occurrences(c, x, l, h))
    BY DEF Q!FrontToBack!KeyCounts, Occurrences
  <2> QED
    BY <2>1, <2>2
<1>3. Q!FrontToBack!KeyCounts(b, Keys, l, h) = Q!FrontToBack!KeyCounts(a, Keys, l, h)
  <2>1. \A x \in Keys : Q!FrontToBack!KeyCounts(b, Keys, l, h)[x]
                            = Q!FrontToBack!KeyCounts(a, Keys, l, h)[x]
    BY <1>1, <1>2
  <2> QED
    BY <2>1 DEF Q!FrontToBack!KeyCounts
<1>4. SameOutside(a, b, l, h)
  BY DEF Shuffled
<1> QED
  BY <1>3, <1>4 DEF Q!FrontToBack!Rearranged, Q!FrontToBack!SameKeys, Q!FrontToBack!SameOutside,
     SameOutside, Q!FrontToBack!Pos, Pos

LEMMA QAbstractInit == Q!Init => Q!FrontToBack!Init
BY DEF Q!Init, Q!FrontToBack!Init, Q!Pos, Q!FrontToBack!Pos

LEMMA QAbstractStep ==
    QIInv /\ QIInv' /\ [Q!Next]_Q!vars => Q!FrontToBack!Next
<1> SUFFICES ASSUME QIInv, QIInv', [Q!Next]_Q!vars PROVE Q!FrontToBack!Next
  OBVIOUS
<1> DEFINE final == CASE pc = "descend" -> lo
                      [] pc = "select"  -> i
                      [] pc = "done"    -> last
<1>1. Advances
  BY QNext
<1>2. final = Final /\ final' = Final'
  BY DEF Final
<1>3. first' = first /\ last' = last /\ final' \in final .. last
  BY <1>1, <1>2 DEF Advances
<1>4. v' \in [Q!FrontToBack!Pos -> Keys]
  BY <1>1 DEF Advances, Shuffled, Q!FrontToBack!Pos, Pos
<1>5. Q!FrontToBack!Rearranged(v', v, final, last)
  BY <1>1, <1>2, ShuffledIsRearranged DEF Advances
<1>6. \A p \in first .. final' - 1 : \A q \in p .. last - 1 : v'[p] <= v'[q]
  BY <1>2, <1>3 DEF QIInv, InPlace
<1>7. Q!FrontToBack!SortedUpTo(v', final')
  BY <1>6 DEF Q!FrontToBack!SortedUpTo
<1> QED
  BY <1>3, <1>4, <1>5, <1>7 DEF Q!FrontToBack!Next

\* quicksort_lr finalises the array strictly front to back, and has sorted the whole
\* range when it returns, for every range and whatever the keys.
THEOREM QuicksortLRSortsFrontToBack == Q!Spec => Q!SortsFrontToBack
<1>1. Q!Init => Q!FrontToBack!Init
  BY QAbstractInit
<1>2. QIInv /\ QIInv' /\ [Q!Next]_Q!vars => [Q!FrontToBack!Next]_Q!FrontToBack!vars
  BY QAbstractStep
<1>3. Q!Spec => []QIInv
  BY SelectionInvariance
<1> QED
  BY <1>1, <1>2, <1>3, PTL DEF Q!Spec, Q!SortsFrontToBack, Q!FrontToBack!Spec
-----------------------------------------------------------------------------
(***************************************************************************)
(* move_low_half, offset_low_half and their exact forms.                   *)
(***************************************************************************)
\* The cells of [l, h) whose keys are less than x, and those whose keys are in s.
LessCells(a, l, h, x) == {p \in l .. h - 1 : a[p] < x}
KeyCells(a, l, h, s)  == {p \in l .. h - 1 : a[p] \in s}

\* How many of the sample are below the key.
SampleBelow == Cardinality(LessCells(samp, 0, H!SampleCount, key))

\* The sample is only looked at when the range is long enough, and the rank sought
\* in it is that of an element below the key.
Sampled ==
    /\ pc \in {"rank", "route"} => ~ H!Exact /\ H!Suffix >= SampleMin
    /\ pc = "rank" => nth < SampleBelow
    /\ pc = "route" => nth \in Pos

\* The split of the exact forms: the elements below the key are next to each other,
\* and the half that is sought is not the whole of them.
Halved ==
    pc = "select" =>
        /\ first <= H!From /\ H!To <= last
        /\ \A p \in H!From .. H!To - 1 : v[p] < key
        /\ \A p \in first .. H!From - 1 : ~ (v[p] < key)
        /\ \A p \in H!To .. last - 1 : ~ (v[p] < key)
        /\ nth = IF H!Moves THEN last - ret ELSE first + ret
        /\ 0 < ret /\ ret < H!Belows /\ ret = H!HalfOf(H!Belows)

\* The inductive invariant of the four calls.
HIInv ==
    /\ H!TypeOK
    /\ H!CutOff
    /\ H!EstimateBelow
    /\ key \in Int
    /\ pc \in {"start", "exact", "rank", "route"} => H!PrefixKnown
    /\ Sampled
    /\ Halved
    /\ pc = "done" => H!Contract!Taken(v, ret)

\* What a step does to the array and to the arguments.
HAdvances ==
    /\ pc # "done"
    /\ Shuffled(Keys, v, v', first, last)
    /\ UNCHANGED <<call, first, last, offset, key>>
-----------------------------------------------------------------------------
LEMMA HOperators ==
    /\ H!Pos = Pos
    /\ \A a, p, q : H!Swap(a, p, q) = Swap(a, p, q)
BY DEF H!Pos, Pos, H!Swap, Swap

LEMMA HCardinality == ASSUME NEW s PROVE H!Cardinality(s) = Cardinality(s)
BY DEF H!Cardinality, Cardinality

LEMMA HParameters ==
    /\ N \in Nat /\ Keys \subseteq Int
    /\ LeafMax \in Int /\ 0 < LeafMax /\ MinHalf \in Int /\ 0 < MinHalf
    /\ SampleMin \in Int /\ 0 < SampleMin /\ SampleDiv \in Int /\ 0 < SampleDiv
    /\ SampleMax \in Int /\ 0 < SampleMax /\ SampleMin >= SampleDiv
BY NAssumption, SelectionParameters DEF H!SampleAssumption

LEMMA HNumbers ==
    ASSUME H!TypeOK
    PROVE  /\ N \in Nat /\ Keys \subseteq Int
           /\ v \in [Pos -> Keys] /\ samp \in [Pos -> Keys]
           /\ {first, last, lo, hi, nth, offset, ret} \subseteq Int
           /\ 0 <= first /\ first <= last /\ last <= N /\ 0 <= offset /\ offset <= last - first
           /\ 0 <= lo /\ lo <= hi /\ hi <= N /\ 0 <= nth /\ nth <= N
           /\ 0 <= ret /\ ret <= last - first
           /\ \A p \in 0 .. N - 1 : p \in Pos
<1>1. N \in Nat /\ Keys \subseteq Int
  BY HParameters
<1>2. /\ v \in [Pos -> Keys] /\ samp \in [Pos -> Keys]
      /\ first \in 0 .. N /\ last \in first .. N /\ offset \in 0 .. last - first
      /\ lo \in Pos \cup {N} /\ hi \in lo .. N /\ nth \in Pos \cup {N} /\ ret \in 0 .. last - first
  BY HOperators DEF H!TypeOK
<1>3. \A p : p \in Pos <=> p \in 0 .. N - 1
  BY DEF Pos
<1>4. lo \in 0 .. N /\ nth \in 0 .. N
  BY <1>1, <1>2, <1>3
<1> QED
  BY <1>1, <1>2, <1>3, <1>4

LEMMA HRearrangedIsShuffled ==
    ASSUME NEW a, NEW b \in [Pos -> Keys], NEW l, NEW h, H!Rearranged(b, a, l, h)
    PROVE  Shuffled(Keys, a, b, l, h)
<1>1. H!KeyCounts(b, Keys, l, h) = H!KeyCounts(a, Keys, l, h)
  BY DEF H!Rearranged, H!SameKeys
<1>2. ASSUME NEW c, NEW x \in Keys
      PROVE  H!KeyCounts(c, Keys, l, h)[x] = Cardinality(Occurrences(c, x, l, h))
  <2>1. H!KeyCounts(c, Keys, l, h)[x] = H!Cardinality(Occurrences(c, x, l, h))
    BY DEF H!KeyCounts, Occurrences
  <2> QED
    BY <2>1, HCardinality
<1>3. SameCounts(Keys, a, b, l, h)
  BY <1>1, <1>2 DEF SameCounts
<1>4. SameOutside(a, b, l, h)
  BY DEF H!Rearranged, H!SameOutside, SameOutside, H!Pos, Pos
<1> QED
  BY <1>3, <1>4 DEF Shuffled

\* What the calls rely on of a partition.
LEMMA CallFacts ==
    ASSUME NEW a, NEW s, NEW l, NEW h, NEW o \in H!Call(a, s, l, h)
    PROVE  /\ o.array \in [Pos -> Keys]
           /\ Shuffled(Keys, a, o.array, l, h)
           /\ o.boundary \in l .. h
           /\ \A p \in l .. o.boundary - 1 : o.array[p] \in s
           /\ \A p \in o.boundary .. h - 1 : o.array[p] \notin s
<1>1. H!IsOutcome(o, a, s, l, h)
  BY DEF H!Call
<1>2. /\ o.array \in [Pos -> Keys]
      /\ H!Rearranged(o.array, a, l, h)
      /\ H!Partitioned(o.array, s, l, o.boundary, h)
  BY <1>1, HOperators DEF H!IsOutcome
<1>3. Shuffled(Keys, a, o.array, l, h)
  BY <1>2, HRearrangedIsShuffled
<1> QED
  BY <1>2, <1>3 DEF H!Partitioned, H!AllIn, H!NoneIn

\* The order that a selection works in.
LEMMA Precedence ==
    ASSUME NEW x \in Int, NEW y \in Int
    PROVE  /\ H!MayPrecede(x, x)
           /\ \A z \in Int : H!MayPrecede(x, y) /\ H!MayPrecede(y, z) => H!MayPrecede(x, z)
           /\ H!GoesLeft(x, y) => H!MayPrecede(x, y)
           /\ ~ H!GoesLeft(x, y) => H!MayPrecede(y, x)
BY DEF H!MayPrecede, H!GoesLeft
-----------------------------------------------------------------------------
\* Rearranging a range does not change how many of its keys are in a set.
LEMMA ShuffledCounts ==
    ASSUME NEW s, NEW a \in [Pos -> s], NEW b, NEW l \in Int, NEW h \in 0 .. N, 0 <= l,
           Shuffled(s, a, b, l, h), NEW t \in SUBSET s
    PROVE  Cardinality(KeyCells(a, l, h, t)) = Cardinality(KeyCells(b, l, h, t))
<1> DEFINE A == KeyCells(a, l, h, t)
           B == KeyCells(b, l, h, t)
           OA(x) == Occurrences(a, x, l, h)
           OB(x) == Occurrences(b, x, l, h)
           g == [x \in t |-> CHOOSE k : k \in Bijection(OA(x), OB(x))]
           f == [p \in A |-> g[a[p]][p]]
<1>1. ASSUME NEW x \in t PROVE g[x] \in Bijection(OA(x), OB(x))
  <2>1. IsFiniteSet(OA(x)) /\ IsFiniteSet(OB(x))
    BY OccurrencesFinite
  <2>2. Cardinality(OA(x)) = Cardinality(OB(x))
    BY DEF Shuffled, SameCounts
  <2>3. PICK n \in Nat : ExistsBijection(1 .. n, OA(x)) /\ n = Cardinality(OA(x))
    BY <2>1, FS_CardinalityType
  <2>4. ExistsBijection(1 .. n, OB(x))
    BY <2>1, <2>2, <2>3, FS_CardinalityType
  <2>5. ExistsBijection(OA(x), OB(x))
    BY <2>3, <2>4, Fun_ExistsBijSymmetric, Fun_ExistsBijTransitive
  <2>6. \E k : k \in Bijection(OA(x), OB(x))
    BY <2>5 DEF ExistsBijection
  <2> HIDE DEF OA, OB
  <2> QED
    BY <2>6
<1>2. \A x \in t : \A p : /\ p \in OA(x) <=> p \in l .. h - 1 /\ a[p] = x
                          /\ p \in OB(x) <=> p \in l .. h - 1 /\ b[p] = x
  BY DEF Occurrences
<1>3. \A p : p \in A <=> p \in l .. h - 1 /\ a[p] \in t
  BY DEF KeyCells
<1>4. \A p : p \in B <=> p \in l .. h - 1 /\ b[p] \in t
  BY DEF KeyCells
<1> HIDE DEF A, B, OA, OB, g
<1>5. ASSUME NEW x \in t
      PROVE  /\ \A p \in OA(x) : g[x][p] \in OB(x)
             /\ \A p, q \in OA(x) : g[x][p] = g[x][q] => p = q
             /\ \A q \in OB(x) : \E p \in OA(x) : g[x][p] = q
  <2> DEFINE k == g[x]
  <2>1. k \in Bijection(OA(x), OB(x))
    BY <1>1
  <2> HIDE DEF k
  <2>2. /\ \A p \in OA(x) : k[p] \in OB(x)
        /\ \A p, q \in OA(x) : k[p] = k[q] => p = q
        /\ \A q \in OB(x) : \E p \in OA(x) : k[p] = q
    BY <2>1 DEF Bijection, Injection, IsInjective, Surjection
  <2> QED
    BY <2>2 DEF k
<1>6. ASSUME NEW p \in A PROVE f[p] \in B /\ f[p] = g[a[p]][p] /\ b[f[p]] = a[p]
  <2>1. a[p] \in t /\ p \in OA(a[p])
    BY <1>2, <1>3
  <2>2. g[a[p]][p] \in OB(a[p])
    BY <1>5, <2>1
  <2> QED
    BY <1>2, <1>4, <2>1, <2>2
<1>7. \A p, q \in A : f[p] = f[q] => p = q
  <2> SUFFICES ASSUME NEW p \in A, NEW q \in A, f[p] = f[q] PROVE p = q
    OBVIOUS
  <2>1. a[p] = a[q] /\ a[p] \in t /\ p \in OA(a[p]) /\ q \in OA(a[p])
    BY <1>2, <1>3, <1>6
  <2>2. g[a[p]][p] = g[a[p]][q]
    BY <1>6, <2>1
  <2> QED
    BY <1>5, <2>1, <2>2
<1>8. \A q \in B : \E p \in A : f[p] = q
  <2> SUFFICES ASSUME NEW q \in B PROVE \E p \in A : f[p] = q
    OBVIOUS
  <2>1. b[q] \in t /\ q \in OB(b[q])
    BY <1>2, <1>4
  <2>2. PICK p \in OA(b[q]) : g[b[q]][p] = q
    BY <1>5, <2>1
  <2>3. p \in A /\ a[p] = b[q]
    BY <1>2, <1>3, <2>1, <2>2
  <2> QED
    BY <1>6, <2>2, <2>3
<1> DEFINE F == f
<1>9. F \in [A -> B]
  BY <1>6
<1> HIDE DEF f
<1>10. F \in Bijection(A, B)
  BY <1>7, <1>8, <1>9 DEF Bijection, Injection, IsInjective, Surjection
<1>11. IsFiniteSet(A)
  <2>1. IsFiniteSet(l .. h - 1)
    BY FS_Interval
  <2> QED
    BY <1>3, <2>1, FS_Subset
<1>12. Cardinality(B) = Cardinality(A)
  BY <1>10, <1>11, FS_Bijection DEF ExistsBijection
<1> QED
  BY <1>12 DEF A, B
-----------------------------------------------------------------------------
\* One turn of a selection: the range is rearranged around an element of it.
LEMMA TurnStep ==
    ASSUME HIInv, H!SelectTurn
    PROVE  \E b \in [Pos -> Keys], m \in lo .. hi - 1 :
              /\ Shuffled(Keys, H!Array, b, lo, hi)
              /\ \A p \in lo .. m : H!MayPrecede(b[p], b[m])
              /\ \A p \in m .. hi - 1 : H!MayPrecede(b[m], b[p])
              /\ H!Write(b)
              /\ IF H!Found(m) THEN pc' = H!Selected /\ lo' = lo /\ hi' = hi
                               ELSE pc' = pc /\ H!Narrow(m)
<1> DEFINE z == H!Array
           left(d) == {x \in Keys : H!GoesLeft(x, d[lo])}
<1>1. /\ N \in Nat /\ Keys \subseteq Int /\ lo \in Int /\ hi \in Int
      /\ 0 <= lo /\ lo < hi /\ hi <= N /\ hi \in 0 .. N /\ lo \in 0 .. N
      /\ \A p \in 0 .. N - 1 : p \in Pos
      /\ z \in [Pos -> Keys]
  <2>1. LeafMax < hi - lo /\ 0 < LeafMax /\ LeafMax \in Int
    BY HParameters, HNumbers DEF HIInv, H!SelectTurn
  <2> QED
    BY <2>1, HNumbers DEF HIInv, H!Array
<1>2. PICK c \in lo .. hi - 1 : \E a \in {H!Swap(z, lo, c)} : \E o \in H!Call(a, left(a), lo + 1, hi) :
          /\ H!Write(H!Swap(o.array, lo, o.boundary - 1))
          /\ IF H!Found(o.boundary - 1) THEN pc' = H!Selected /\ UNCHANGED <<lo, hi>>
                                        ELSE pc' = pc /\ H!Narrow(o.boundary - 1)
  BY DEF H!SelectTurn
<1> HIDE DEF z
<1> DEFINE a == Swap(z, lo, c)
<1>3. PICK o \in H!Call(a, left(a), lo + 1, hi) :
          /\ H!Write(Swap(o.array, lo, o.boundary - 1))
          /\ IF H!Found(o.boundary - 1) THEN pc' = H!Selected /\ UNCHANGED <<lo, hi>>
                                        ELSE pc' = pc /\ H!Narrow(o.boundary - 1)
  BY <1>2, HOperators
<1> DEFINE m == o.boundary - 1
           w == o.array
           b == Swap(w, lo, m)
<1>4. /\ w \in [Pos -> Keys] /\ Shuffled(Keys, a, w, lo + 1, hi)
      /\ o.boundary \in lo + 1 .. hi
      /\ \A p \in lo + 1 .. o.boundary - 1 : w[p] \in left(a)
      /\ \A p \in o.boundary .. hi - 1 : w[p] \notin left(a)
  BY CallFacts
<1>5. m \in lo .. hi - 1 /\ m \in Int /\ o.boundary = m + 1
  BY <1>1, <1>4
<1>6. H!Write(b) /\ IF H!Found(m) THEN pc' = H!Selected /\ lo' = lo /\ hi' = hi
                                  ELSE pc' = pc /\ H!Narrow(m)
  BY <1>3
<1> HIDE DEF m, w
<1>7. lo \in Pos /\ c \in Pos /\ m \in Pos /\ lo \in lo .. hi - 1
  BY <1>1, <1>2, <1>5
<1>8. a \in [Pos -> Keys] /\ Shuffled(Keys, z, a, lo, hi)
  <2>1. Shuffled(Keys, z, Swap(z, lo, c), lo, hi)
    BY <1>1, <1>2, <1>7, SwapShuffles
  <2> QED
    BY <2>1 DEF Shuffled
<1> HIDE DEF a
<1>9. Shuffled(Keys, a, w, lo, hi)
  BY <1>1, <1>4, <1>8, ShuffledWider
<1>10. b \in [Pos -> Keys] /\ Shuffled(Keys, w, b, lo, hi)
  <2>1. Shuffled(Keys, w, b, lo, hi)
    BY <1>1, <1>4, <1>5, <1>7, SwapShuffles
  <2> QED
    BY <2>1 DEF Shuffled
<1>11. Shuffled(Keys, z, b, lo, hi)
  BY <1>8, <1>9, <1>10, ShuffledTwice
<1>12. w[lo] = a[lo] /\ a[lo] \in Int /\ \A p \in Pos : w[p] \in Keys /\ w[p] \in Int
  <2>1. lo \notin lo + 1 .. hi - 1
    BY <1>1
  <2>2. w[lo] = a[lo]
    BY <1>4, <1>7, <2>1 DEF Shuffled, SameOutside
  <2>3. a[lo] \in Int
    BY <1>1, <1>7, <1>8
  <2>4. \A p \in Pos : w[p] \in Keys /\ w[p] \in Int
    BY <1>1, <1>4
  <2> QED
    BY <2>2, <2>3, <2>4
<1>13. /\ b[m] = a[lo] /\ b[lo] = w[m]
       /\ \A p \in Pos : p # lo /\ p # m => b[p] = w[p]
  BY <1>4, <1>7, <1>12 DEF Swap
<1> HIDE DEF b
<1>14. /\ \A p \in lo + 1 .. m : H!GoesLeft(w[p], a[lo])
       /\ \A p \in m + 1 .. hi - 1 : ~ H!GoesLeft(w[p], a[lo])
  <2>1. \A p \in lo + 1 .. m : w[p] \in left(a)
    BY <1>4 DEF m, w
  <2>2. \A p \in m + 1 .. hi - 1 : w[p] \notin left(a) /\ p \in Pos
    BY <1>1, <1>4, <1>5 DEF w
  <2> QED
    BY <1>12, <2>1, <2>2
<1>15. ASSUME NEW p \in lo .. m PROVE H!MayPrecede(b[p], b[m])
  <2>1. CASE p = m
    BY <1>12, <1>13, <2>1, Precedence
  <2>2. CASE p = lo /\ p # m
    <3>1. m \in lo + 1 .. m
      BY <1>1, <1>5, <2>2
    <3> QED
      BY <1>7, <1>12, <1>13, <1>14, <2>2, <3>1, Precedence
  <2>3. CASE p # lo /\ p # m
    <3>1. p \in lo + 1 .. m /\ p \in Pos
      BY <1>1, <1>5, <2>3
    <3> QED
      BY <1>12, <1>13, <1>14, <2>3, <3>1, Precedence
  <2> QED
    BY <2>1, <2>2, <2>3
<1>16. ASSUME NEW p \in m .. hi - 1 PROVE H!MayPrecede(b[m], b[p])
  <2>1. CASE p = m
    BY <1>12, <1>13, <2>1, Precedence
  <2>2. CASE p # m
    <3>1. p \in m + 1 .. hi - 1 /\ p \in Pos /\ p # lo
      BY <1>1, <1>5, <2>2
    <3> QED
      BY <1>12, <1>13, <1>14, <2>2, <3>1, Precedence
  <2> QED
    BY <2>1, <2>2
<1> QED
  BY <1>5, <1>6, <1>10, <1>11, <1>15, <1>16 DEF z

\* What has been cut off stays on its side while the range between is rearranged.
CutAt(a, f, t, l, h) ==
    /\ \A p \in f .. l - 1 : \A q \in l .. t - 1 : H!MayPrecede(a[p], a[q])
    /\ \A p \in f .. h - 1 : \A q \in h .. t - 1 : H!MayPrecede(a[p], a[q])

LEMMA CutStays ==
    ASSUME NEW a \in [Pos -> Keys], NEW b, NEW f \in 0 .. N, NEW t \in 0 .. N,
           NEW l \in f .. t, NEW h \in l .. t, CutAt(a, f, t, l, h), Shuffled(Keys, a, b, l, h)
    PROVE  CutAt(b, f, t, l, h)
<1>1. N \in Nat /\ f \in Int /\ t \in Int /\ l \in Int /\ h \in Int /\ 0 <= l /\ h \in 0 .. N
      /\ \A p \in f .. t - 1 : p \in Pos
  BY NAssumption DEF Pos
<1>2. \A p \in l .. h - 1 : \E q \in l .. h - 1 : a[q] = b[p]
  <2>1. l \in Int /\ h \in 0 .. N /\ 0 <= l /\ Shuffled(Keys, a, b, l, h)
    BY <1>1
  <2> SUFFICES ASSUME NEW p \in l .. h - 1 PROVE \E q \in l .. h - 1 : a[q] = b[p]
    OBVIOUS
  <2> QED
    BY <2>1, ShuffledFrom
<1>3. \A p \in f .. t - 1 : p \notin l .. h - 1 => a[p] = b[p]
  BY <1>1 DEF Shuffled, SameOutside
<1>4. ASSUME NEW p \in f .. l - 1, NEW q \in l .. t - 1 PROVE H!MayPrecede(b[p], b[q])
  <2>1. b[p] = a[p]
    BY <1>1, <1>3
  <2>2. \E r \in l .. t - 1 : a[r] = b[q]
    <3>1. CASE q \in l .. h - 1
      <4>1. PICK r \in l .. h - 1 : a[r] = b[q]
        BY <1>2, <3>1
      <4> QED
        BY <1>1, <4>1
    <3>2. CASE q \notin l .. h - 1
      BY <1>1, <1>3, <3>2
    <3> QED
      BY <3>1, <3>2
  <2> QED
    BY <2>1, <2>2 DEF CutAt
<1>5. ASSUME NEW p \in f .. h - 1, NEW q \in h .. t - 1 PROVE H!MayPrecede(b[p], b[q])
  <2>1. b[q] = a[q]
    BY <1>1, <1>3
  <2>2. \E r \in f .. h - 1 : a[r] = b[p]
    <3>1. CASE p \in l .. h - 1
      <4>1. PICK r \in l .. h - 1 : a[r] = b[p]
        BY <1>2, <3>1
      <4> QED
        BY <1>1, <4>1
    <3>2. CASE p \notin l .. h - 1
      BY <1>1, <1>3, <3>2
    <3> QED
      BY <3>1, <3>2
  <2> QED
    BY <2>1, <2>2 DEF CutAt
<1> QED
  BY <1>4, <1>5 DEF CutAt

\* A turn around cell m cuts there too: on either side of it, and before it.
LEMMA CutAround ==
    ASSUME NEW b \in [Pos -> Keys], NEW f \in 0 .. N, NEW t \in 0 .. N,
           NEW l \in f .. t, NEW h \in l .. t, CutAt(b, f, t, l, h), NEW m \in l .. h - 1,
           \A p \in l .. m : H!MayPrecede(b[p], b[m]),
           \A p \in m .. h - 1 : H!MayPrecede(b[m], b[p])
    PROVE  /\ \A p \in f .. m : H!MayPrecede(b[p], b[m])
           /\ \A q \in m .. t - 1 : H!MayPrecede(b[m], b[q])
           /\ \A p \in f .. m - 1 : \A q \in m .. t - 1 : H!MayPrecede(b[p], b[q])
           /\ \A p \in f .. m : \A q \in m + 1 .. t - 1 : H!MayPrecede(b[p], b[q])
<1>1. N \in Nat /\ f \in Int /\ t \in Int /\ l \in Int /\ h \in Int /\ m \in Int
      /\ \A p \in f .. t - 1 : p \in Pos /\ b[p] \in Int
  <2>1. N \in Nat /\ f \in Int /\ t \in Int /\ l \in Int /\ h \in Int /\ m \in Int
    BY HParameters
  <2>2. \A p \in f .. t - 1 : p \in Pos
    BY <2>1 DEF Pos
  <2>3. \A p \in Pos : b[p] \in Int
    BY HParameters
  <2> QED
    BY <2>1, <2>2, <2>3
<1>2. ASSUME NEW p \in f .. m PROVE H!MayPrecede(b[p], b[m])
  <2>1. p \in f .. l - 1 \/ p \in l .. m
    BY <1>1
  <2>2. m \in l .. t - 1
    BY <1>1
  <2> QED
    BY <2>1, <2>2 DEF CutAt
<1>3. ASSUME NEW q \in m .. t - 1 PROVE H!MayPrecede(b[m], b[q])
  <2>1. q \in h .. t - 1 \/ q \in m .. h - 1
    BY <1>1
  <2>2. m \in f .. h - 1
    BY <1>1
  <2> QED
    BY <2>1, <2>2 DEF CutAt
<1>4. ASSUME NEW p \in f .. m, NEW q \in m .. t - 1 PROVE H!MayPrecede(b[p], b[q])
  <2>1. b[p] \in Int /\ b[q] \in Int /\ b[m] \in Int
    BY <1>1
  <2> QED
    BY <1>2, <1>3, <2>1, Precedence
<1> QED
  BY <1>1, <1>2, <1>3, <1>4
-----------------------------------------------------------------------------
LEMMA DivisionBounds ==
    ASSUME NEW s \in Nat, NEW d \in Nat, 0 < d
    PROVE  /\ s \div d \in Nat /\ s \div d <= s
           /\ d <= s => /\ 1 <= s \div d
                        /\ \A p \in 0 .. d - 1 : p * (s \div d) \in Nat /\ p * (s \div d) < s
<1> DEFINE q == s \div d
<1>1. PICK r \in Nat : q \in Nat /\ s = d * q + r /\ r < d
  <2>1. s % d \in 0 .. d - 1 /\ q \in Nat /\ s = d * q + (s % d)
    BY DivisionFacts
  <2> QED
    BY <2>1
<1> HIDE DEF q
<1>2. q <= d * q
  <2>1. (d - 1) * q >= 0 /\ d * q = (d - 1) * q + q
    BY <1>1
  <2> QED
    BY <1>1, <2>1
<1>3. q <= s
  BY <1>1, <1>2
<1>4. ASSUME d <= s PROVE 1 <= q
  <2>1. q = 0 => d * q = 0
    OBVIOUS
  <2> QED
    BY <1>1, <1>4, <2>1
<1>5. ASSUME d <= s, NEW p \in 0 .. d - 1 PROVE p * q \in Nat /\ p * q < s
  <2>1. 1 <= q /\ p \in Nat /\ d - p >= 1 /\ d - p \in Nat
    BY <1>4, <1>5
  <2>2. (d - p) * q >= 1 /\ d * q = p * q + (d - p) * q /\ p * q \in Nat
    <3>1. (d - p) * q \in Nat /\ (d - p) * q # 0 /\ p * q \in Nat
      BY <1>1, <2>1
    <3>2. d * q = p * q + (d - p) * q
      BY <1>1, <2>1
    <3> QED
      BY <3>1, <3>2
  <2>3. p * q < d * q
    BY <1>1, <2>2
  <2> QED
    BY <1>1, <2>2, <2>3
<1> QED
  BY <1>1, <1>3, <1>4, <1>5 DEF q

\* The sample is taken from the suffix, and is not longer than it.
LEMMA SampleNumbers ==
    ASSUME H!TypeOK, H!Suffix >= SampleMin
    PROVE  /\ H!SampleCount \in Nat /\ 1 <= H!SampleCount /\ H!SampleCount <= N
           /\ \A p \in 0 .. H!SampleCount - 1 : first + offset + p * H!Stride \in first .. last - 1
<1> DEFINE s == H!Suffix
           c == H!SampleCount
<1>1. s \in Nat /\ s = last - first - offset /\ s <= N /\ SampleDiv <= s
  BY HNumbers, HParameters DEF H!Suffix
<1>2. s \div SampleDiv \in Nat /\ 1 <= s \div SampleDiv /\ s \div SampleDiv <= s
  <2>1. SampleDiv \in Nat /\ 0 < SampleDiv
    BY HParameters
  <2> HIDE DEF s
  <2> QED
    BY <1>1, <2>1, DivisionBounds
<1>3. c \in {s \div SampleDiv, SampleMax} /\ c <= s \div SampleDiv
  <2>1. c = H!Lesser(s \div SampleDiv, SampleMax)
    BY DEF H!SampleCount
  <2> HIDE DEF s, c
  <2> QED
    BY <1>2, <2>1, HParameters DEF H!Lesser
<1> HIDE DEF c
<1>4. c \in Nat /\ 1 <= c /\ c <= s /\ c <= N
  BY <1>1, <1>2, <1>3, HParameters
<1>5. ASSUME NEW p \in 0 .. c - 1 PROVE first + offset + p * H!Stride \in first .. last - 1
  <2>1. H!Stride = s \div c
    BY DEF H!Stride, c
  <2> HIDE DEF s
  <2>2. p * (s \div c) \in Nat /\ p * (s \div c) < s
    BY <1>1, <1>4, DivisionBounds
  <2>3. PICK k \in Nat : k = p * H!Stride /\ k < s
    BY <2>1, <2>2
  <2> QED
    BY <1>1, <2>3, HNumbers
<1> QED
  BY <1>4, <1>5 DEF c

LEMMA IntervalCount ==
    ASSUME NEW l \in Int, NEW h \in Int, l <= h
    PROVE  IsFiniteSet(l .. h - 1) /\ Cardinality(l .. h - 1) = h - l
<1>1. IsFiniteSet(l .. h - 1)
      /\ Cardinality(l .. h - 1) = IF l > h - 1 THEN 0 ELSE h - 1 - l + 1
  BY FS_Interval
<1> QED
  BY <1>1

LEMMA CountNumbers ==
    ASSUME NEW a, NEW l \in Int, NEW h \in Int, l <= h, NEW x
    PROVE  IsFiniteSet(LessCells(a, l, h, x)) /\ Cardinality(LessCells(a, l, h, x)) \in 0 .. h - l
<1>1. IsFiniteSet(l .. h - 1) /\ Cardinality(l .. h - 1) = h - l
  BY IntervalCount
<1> DEFINE A == LessCells(a, l, h, x)
<1>2. A \subseteq l .. h - 1
  BY DEF LessCells
<1> HIDE DEF A
<1>3. IsFiniteSet(A) /\ Cardinality(A) <= h - l /\ Cardinality(A) \in Nat
  BY <1>1, <1>2, FS_Subset, FS_CardinalityType
<1> QED
  BY <1>3 DEF A

\* The elements below x are those of [f, t).
LEMMA CountOfBlock ==
    ASSUME NEW a, NEW l \in Int, NEW h \in Int, NEW x, NEW f \in Int, NEW t \in Int,
           l <= f, f <= t, t <= h,
           \A p \in f .. t - 1 : a[p] < x, \A p \in l .. f - 1 : ~ (a[p] < x),
           \A p \in t .. h - 1 : ~ (a[p] < x)
    PROVE  Cardinality(LessCells(a, l, h, x)) = t - f
<1>1. \A p \in l .. h - 1 : a[p] < x <=> p \in f .. t - 1
  <2> SUFFICES ASSUME NEW p \in l .. h - 1 PROVE a[p] < x <=> p \in f .. t - 1
    OBVIOUS
  <2>1. p \in l .. f - 1 \/ p \in f .. t - 1 \/ p \in t .. h - 1
    OBVIOUS
  <2>2. p \in f .. t - 1 => p \notin l .. f - 1 /\ p \notin t .. h - 1
    OBVIOUS
  <2> QED
    BY <2>1, <2>2
<1>2. LessCells(a, l, h, x) = f .. t - 1
  <2>1. f .. t - 1 \subseteq l .. h - 1
    OBVIOUS
  <2> QED
    BY <1>1, <2>1 DEF LessCells
<1>3. Cardinality(f .. t - 1) = t - f
  BY IntervalCount
<1> QED
  BY <1>2, <1>3, Zenon

LEMMA BelowsNumber ==
    ASSUME H!TypeOK
    PROVE  /\ H!Belows = Cardinality(LessCells(v, first, last, key))
           /\ H!Belows \in Nat /\ H!Belows <= last - first
<1>1. H!Belows = Cardinality(LessCells(v, first, last, key))
  BY HCardinality DEF H!Belows, LessCells
<1>2. first \in Int /\ last \in Int /\ first <= last
  BY HNumbers
<1>3. Cardinality(LessCells(v, first, last, key)) \in 0 .. last - first
  BY <1>2, CountNumbers
<1> QED
  BY <1>1, <1>2, <1>3

\* What a selection works on.
LEMMA SelectRange ==
    ASSUME HIInv, pc \in {"rank", "select"}
    PROVE  /\ H!From \in 0 .. N /\ H!To \in 0 .. N /\ lo \in H!From .. H!To /\ hi \in lo .. H!To
           /\ nth \in lo .. hi - 1 /\ {H!From, H!To, lo, hi, nth, N} \subseteq Int
           /\ CutAt(H!Array, H!From, H!To, lo, hi)
           /\ H!Array \in [Pos -> Keys]
           /\ pc = "rank" => H!From = 0 /\ H!To = H!SampleCount /\ H!Array = samp /\ ~ H!Reverse
           /\ pc = "select" => /\ first <= H!From /\ H!To <= last /\ H!Array = v
                               /\ H!To - H!From = H!Belows
                               /\ H!Reverse = H!Moves
                               /\ H!Moves => H!To = last
                               /\ ~ H!Moves => H!From = first
<1>1. H!TypeOK /\ H!CutOff /\ Sampled /\ Halved
  BY DEF HIInv
<1>2. /\ H!From <= lo /\ hi <= H!To /\ nth \in lo .. hi - 1
      /\ CutAt(H!Array, H!From, H!To, lo, hi)
  BY <1>1 DEF H!CutOff, CutAt
<1>3. /\ H!Array \in [Pos -> Keys] /\ H!Array = IF pc = "rank" THEN samp ELSE v
      /\ H!Reverse = (pc = "select" /\ H!Moves)
  BY <1>1, HNumbers DEF H!Array, H!Reverse
<1>4. CASE pc = "rank"
  <2>1. H!From = 0 /\ H!To = H!SampleCount
    BY <1>4 DEF H!From, H!To
  <2>2. H!SampleCount \in Nat /\ H!SampleCount <= N
    BY <1>1, <1>4, SampleNumbers DEF Sampled
  <2>3. /\ H!From \in 0 .. N /\ H!To \in 0 .. N /\ lo \in H!From .. H!To /\ hi \in lo .. H!To
        /\ {H!From, H!To, lo, hi, nth, N} \subseteq Int
    BY <1>1, <1>2, <2>1, <2>2, HNumbers
  <2>4. H!Array = samp /\ ~ H!Reverse
    BY <1>3, <1>4
  <2> QED
    BY <1>2, <1>3, <1>4, <2>1, <2>3, <2>4
<1>5. CASE pc = "select"
  <2>1. /\ H!From = IF H!Moves THEN last - H!Belows ELSE first
        /\ H!To = IF H!Moves THEN last ELSE first + H!Belows
    BY <1>5 DEF H!From, H!To
  <2>2. H!Belows \in Nat /\ H!Belows <= last - first /\ first <= H!From /\ H!To <= last
    BY <1>1, <1>5, BelowsNumber DEF Halved
  <2>3. H!To - H!From = H!Belows /\ H!From \in Int /\ H!To \in Int
    BY <1>1, <2>1, <2>2, HNumbers
  <2>4. /\ H!From \in 0 .. N /\ H!To \in 0 .. N /\ lo \in H!From .. H!To /\ hi \in lo .. H!To
        /\ {H!From, H!To, lo, hi, nth, N} \subseteq Int
    BY <1>1, <1>2, <2>2, <2>3, HNumbers
  <2>5. H!Array = v /\ H!Reverse = H!Moves
    BY <1>3, <1>5 DEF H!Reverse, H!Moves
  <2>6. /\ H!Moves => H!To = last
        /\ ~ H!Moves => H!From = first
    BY <2>1
  <2> QED
    BY <1>2, <1>3, <1>5, <2>2, <2>3, <2>4, <2>5, <2>6
<1> QED
  BY <1>4, <1>5
-----------------------------------------------------------------------------
\* The sample keeps its elements while it is rearranged, and at the end of the
\* selection the one at the rank sought is below the key.
LEMMA RankEnds ==
    ASSUME HIInv, pc = "rank", NEW b, Shuffled(Keys, samp, b, lo, hi)
    PROVE  /\ Cardinality(LessCells(b, 0, H!SampleCount, key)) = SampleBelow
           /\ (\A q \in nth .. H!To - 1 : b[nth] <= b[q]) => b[nth] < key
<1> DEFINE c == H!SampleCount
           less == {x \in Keys : x < key}
           A == LessCells(samp, 0, c, key)
           B == LessCells(b, 0, c, key)
<1>1. /\ N \in Nat /\ Keys \subseteq Int /\ key \in Int /\ c \in Nat /\ c <= N /\ H!To = c
      /\ lo \in 0 .. c /\ hi \in lo .. c /\ nth \in 0 .. c - 1 /\ nth \in Int
      /\ samp \in [Pos -> Keys]
      /\ \A p \in 0 .. N - 1 : p \in Pos
  <2>1. H!TypeOK /\ key \in Int /\ ~ H!Exact /\ H!Suffix >= SampleMin
    BY DEF HIInv, Sampled
  <2>2. c \in Nat /\ c <= N
    BY <2>1, SampleNumbers
  <2>3. H!To = c /\ H!From = 0
    BY SelectRange
  <2> HIDE DEF c
  <2> QED
    BY <2>1, <2>2, <2>3, SelectRange, HNumbers
<1>2. b \in [Pos -> Keys]
  BY DEF Shuffled
<1> HIDE DEF c
<1>3. Shuffled(Keys, samp, b, 0, c)
  <2>1. lo \in Int /\ hi \in 0 .. N /\ 0 \in 0 .. lo /\ c \in hi .. N
    BY <1>1
  <2> QED
    BY <1>1, <2>1, ShuffledWider
<1>4. \A p \in 0 .. c - 1 : (samp[p] < key <=> samp[p] \in less) /\ (b[p] < key <=> b[p] \in less)
  BY <1>1, <1>2
<1>5. Cardinality(KeyCells(samp, 0, c, less)) = Cardinality(KeyCells(b, 0, c, less))
  <2>1. less \in SUBSET Keys
    OBVIOUS
  <2>2. 0 \in Int /\ c \in 0 .. N /\ 0 <= 0
    BY <1>1
  <2>3. samp \in [Pos -> Keys]
    BY <1>1
  <2> HIDE DEF less
  <2> QED
    BY ONLY <1>3, <2>1, <2>2, <2>3, ShuffledCounts
<1>6. A = KeyCells(samp, 0, c, less) /\ B = KeyCells(b, 0, c, less)
  BY <1>4 DEF LessCells, KeyCells
<1>7. Cardinality(B) = SampleBelow
  <2>1. SampleBelow = Cardinality(A)
    BY DEF SampleBelow, c
  <2> HIDE DEF A, B, less
  <2> QED
    BY <1>5, <1>6, <2>1
<1>8. ASSUME \A q \in nth .. c - 1 : b[nth] <= b[q], ~ (b[nth] < key) PROVE FALSE
  <2>1. \A p \in 0 .. c - 1 : b[p] \in Int
    <3>1. \A p \in Pos : b[p] \in Int
      BY <1>1, <1>2
    <3>2. \A p \in 0 .. c - 1 : p \in Pos
      BY <1>1
    <3> QED
      BY <3>1, <3>2
  <2>2. \A q \in nth .. c - 1 : ~ (b[q] < key)
    <3> SUFFICES ASSUME NEW q \in nth .. c - 1 PROVE ~ (b[q] < key)
      OBVIOUS
    <3>1. q \in 0 .. c - 1
      BY <1>1
    <3>2. b[q] \in Int /\ b[nth] \in Int /\ b[nth] <= b[q]
      BY <1>1, <1>8, <2>1, <3>1
    <3> QED
      BY <1>1, <1>8, <3>2
  <2>3. \A p \in B : p \in 0 .. nth - 1
    BY <1>1, <2>2 DEF LessCells
  <2>4. IsFiniteSet(0 .. nth - 1) /\ Cardinality(0 .. nth - 1) = nth
    <3>1. 0 \in Int /\ nth \in Int /\ 0 <= nth /\ nth - 0 = nth
      BY <1>1
    <3>2. IsFiniteSet(0 .. nth - 1) /\ Cardinality(0 .. nth - 1) = nth - 0
      BY <3>1, IntervalCount
    <3> QED
      BY <3>1, <3>2
  <2> HIDE DEF B
  <2>5. Cardinality(B) <= nth /\ Cardinality(B) \in Nat
    BY <2>3, <2>4, FS_Subset, FS_CardinalityType
  <2>6. nth < SampleBelow
    BY DEF HIInv, Sampled
  <2> QED
    BY <1>1, <1>7, <2>5, <2>6
<1> QED
  BY <1>1, <1>7, <1>8 DEF c, B

\* The block that is split keeps its elements while it is rearranged.
LEMMA HalfStays ==
    ASSUME HIInv, pc = "select", NEW b, Shuffled(Keys, v, b, lo, hi)
    PROVE  /\ \A p \in H!From .. H!To - 1 : b[p] < key
           /\ \A p \in first .. H!From - 1 : ~ (b[p] < key)
           /\ \A p \in H!To .. last - 1 : ~ (b[p] < key)
           /\ Cardinality(LessCells(b, first, last, key)) = H!Belows
<1> DEFINE f == H!From
           t == H!To
<1>1. /\ \A p \in f .. t - 1 : v[p] < key
      /\ \A p \in first .. f - 1 : ~ (v[p] < key)
      /\ \A p \in t .. last - 1 : ~ (v[p] < key)
  BY DEF HIInv, Halved
<1>2. /\ f \in Int /\ t \in Int /\ first <= f /\ f <= lo /\ lo <= hi /\ hi <= t /\ t <= last
      /\ {lo, hi} \subseteq Int /\ t - f = H!Belows
  BY SelectRange
<1>3. N \in Nat /\ first \in Int /\ last \in Int /\ 0 <= first /\ last <= N
      /\ \A p \in 0 .. N - 1 : p \in Pos
  BY HNumbers DEF HIInv
<1> HIDE DEF f, t
<1>4. \A p \in first .. last - 1 : p \notin lo .. hi - 1 => b[p] = v[p]
  BY <1>2, <1>3 DEF Shuffled, SameOutside
<1>5. ASSUME NEW p \in f .. t - 1 PROVE b[p] < key
  <2>1. CASE p \in lo .. hi - 1
    <3>1. lo \in Int /\ hi \in 0 .. N /\ 0 <= lo
      BY <1>2, <1>3
    <3>2. \E q \in lo .. hi - 1 : v[q] = b[p]
      BY <2>1, <3>1, ShuffledFrom
    <3>3. PICK q \in lo .. hi - 1 : v[q] = b[p]
      BY <3>2
    <3>4. q \in f .. t - 1
      BY <1>2
    <3> QED
      BY <1>1, <3>3, <3>4
  <2>2. CASE p \notin lo .. hi - 1
    <3>1. p \in first .. last - 1
      BY <1>2, <1>3
    <3> QED
      BY <1>1, <1>4, <2>2, <3>1
  <2> QED
    BY <2>1, <2>2
<1>6. ASSUME NEW p \in first .. f - 1 PROVE ~ (b[p] < key)
  <2>1. p \in first .. last - 1 /\ p \notin lo .. hi - 1
    BY <1>2, <1>3
  <2> QED
    BY <1>1, <1>4, <2>1
<1>7. ASSUME NEW p \in t .. last - 1 PROVE ~ (b[p] < key)
  <2>1. p \in first .. last - 1 /\ p \notin lo .. hi - 1
    BY <1>2, <1>3
  <2> QED
    BY <1>1, <1>4, <2>1
<1>8. /\ first \in Int /\ last \in Int /\ f \in Int /\ t \in Int
      /\ first <= f /\ f <= t /\ t <= last
  BY <1>2, <1>3
<1>9. Cardinality(LessCells(b, first, last, key)) = t - f
  BY ONLY <1>5, <1>6, <1>7, <1>8, CountOfBlock
<1> QED
  BY <1>2, <1>5, <1>6, <1>7, <1>9 DEF f, t
-----------------------------------------------------------------------------
\* The half that was sought is in its place: the promise of the headers.
LEMMA HalfEnds ==
    ASSUME HIInv, pc = "select", NEW b, Shuffled(Keys, v, b, lo, hi),
           \A p \in H!From .. nth - 1 : \A q \in nth .. H!To - 1 : H!MayPrecede(b[p], b[q])
    PROVE  H!Contract!Taken(b, ret)
<1> DEFINE f == H!From
           t == H!To
           block == H!Contract!Block(ret)
<1>1. /\ f \in Int /\ t \in Int /\ nth \in Int /\ ret \in Int /\ first \in Int /\ last \in Int
      /\ N \in Nat /\ 0 <= first /\ last <= N
      /\ first <= f /\ f <= nth /\ nth < t /\ t <= last /\ t - f = H!Belows
      /\ H!Reverse = H!Moves
      /\ H!Moves => t = last
      /\ ~ H!Moves => f = first
      /\ key \in Int /\ Keys \subseteq Int
  BY SelectRange, HNumbers DEF HIInv
<1>2. /\ nth = IF H!Moves THEN last - ret ELSE first + ret
      /\ 0 < ret /\ ret < H!Belows /\ ret = H!HalfOf(H!Belows)
  BY DEF HIInv, Halved
<1>3. /\ \A p \in f .. t - 1 : b[p] < key
      /\ \A p \in first .. f - 1 : ~ (b[p] < key)
      /\ \A p \in t .. last - 1 : ~ (b[p] < key)
      /\ Cardinality(LessCells(b, first, last, key)) = H!Belows
  BY HalfStays
<1>4. \A p \in f .. nth - 1 : \A q \in nth .. t - 1 : H!MayPrecede(b[p], b[q])
  OBVIOUS
<1>5. \A p \in first .. last - 1 : b[p] \in Int
  <2>1. \A p \in first .. last - 1 : p \in Pos
    BY <1>1 DEF Pos
  <2> QED
    BY <1>1, <2>1 DEF Shuffled
<1>6. H!Contract!Belows(b) = H!Belows
  <2>1. H!Contract!Belows(b) = H!Contract!Cardinality(LessCells(b, first, last, key))
    BY DEF H!Contract!Belows, LessCells
  <2>2. H!Contract!Cardinality(LessCells(b, first, last, key))
           = Cardinality(LessCells(b, first, last, key))
    BY DEF H!Contract!Cardinality, Cardinality
  <2> QED
    BY <1>3, <2>1, <2>2
<1> HIDE DEF f, t
<1>7. block = IF H!Moves THEN nth .. t - 1 ELSE f .. nth - 1
  <2>1. block = IF H!Moves THEN last - ret .. last - 1 ELSE first .. first + ret - 1
    BY DEF H!Contract!Block
  <2> HIDE DEF block
  <2> QED
    BY <1>1, <1>2, <2>1
<1> HIDE DEF block
<1>8. ASSUME NEW p \in block PROVE b[p] < key
  <2>1. p \in f .. t - 1
    BY <1>1, <1>7
  <2> QED
    BY <1>3, <2>1
<1>9. ASSUME NEW p \in block, NEW q \in (first .. last - 1) \ block PROVE b[p] <= b[q]
  <2>1. p \in f .. t - 1 /\ p \in first .. last - 1 /\ q \in first .. last - 1 /\ q \in Int
    BY <1>1, <1>7
  <2>2. b[p] \in Int /\ b[q] \in Int
    BY <1>5, <2>1
  <2>3. CASE q \notin f .. t - 1
    <3>1. q \in first .. f - 1 \/ q \in t .. last - 1
      BY <1>1, <2>1, <2>3
    <3> QED
      BY <1>1, <1>3, <2>1, <2>2, <3>1
  <2>4. CASE q \in f .. t - 1
    <3>1. CASE H!Moves
      <4>1. q \in f .. nth - 1 /\ p \in nth .. t - 1
        BY <1>1, <1>7, <2>4, <3>1
      <4> QED
        BY <1>1, <1>4, <3>1, <4>1 DEF H!MayPrecede
    <3>2. CASE ~ H!Moves
      <4>1. p \in f .. nth - 1 /\ q \in nth .. t - 1
        BY <1>1, <1>7, <2>4, <3>2
      <4> QED
        BY <1>1, <1>4, <3>2, <4>1 DEF H!MayPrecede
    <3> QED
      BY <3>1, <3>2
  <2> QED
    BY <2>3, <2>4
<1>10. ret \in 0 .. H!Belows
  BY <1>1, <1>2
<1>11. ret = H!Contract!ExactHalf(H!Belows)
  BY <1>2 DEF H!HalfOf, H!Contract!ExactHalf
<1> QED
  BY <1>6, <1>8, <1>9, <1>10, <1>11 DEF H!Contract!Taken, block

\* The step that ends a selection.
LEMMA SelectEnds ==
    ASSUME HIInv, pc \in {"rank", "select"}, NEW b, Shuffled(Keys, H!Array, b, lo, hi),
           H!Write(b), pc' = H!Selected, UNCHANGED <<lo, hi, nth, ret>>,
           UNCHANGED <<call, first, last, offset, key>>,
           \A p \in H!From .. nth - 1 : \A q \in nth .. H!To - 1 : H!MayPrecede(b[p], b[q]),
           pc = "rank" => \A q \in nth .. H!To - 1 : H!MayPrecede(b[nth], b[q])
    PROVE  HIInv' /\ HAdvances
<1>1. H!TypeOK /\ key \in Int /\ Sampled
  BY DEF HIInv
<1>2. b \in [Pos -> Keys]
  BY DEF Shuffled
<1>3. CASE pc = "rank"
  <2>1. v' = v /\ samp' = b /\ pc' = "route"
    BY <1>3 DEF H!Write, H!Selected
  <2>2. b[nth] < key
    <3>1. \A q \in nth .. H!To - 1 : b[nth] <= b[q]
      BY <1>3, SelectRange DEF H!MayPrecede
    <3> QED
      BY <1>3, <3>1, RankEnds, SelectRange
  <2>3. H!TypeOK'
    BY <1>1, <1>2, <2>1, HOperators DEF H!TypeOK
  <2>4. H!CutOff' /\ H!EstimateBelow' /\ Halved' /\ (pc' # "done" /\ pc # "done")
    BY <1>3, <2>1, <2>2 DEF H!CutOff, H!EstimateBelow, Halved
  <2>5. H!PrefixKnown'
    BY <1>3, <2>1 DEF HIInv, H!PrefixKnown
  <2>6. Sampled'
    <3>1. lo \in Int /\ hi \in Int /\ 0 <= lo /\ hi <= N /\ nth \in lo .. hi - 1 /\ N \in Int
      BY <1>1, SelectRange, HNumbers
    <3>2. nth \in Pos
      BY <3>1 DEF Pos
    <3> QED
      BY <1>1, <1>3, <2>1, <3>2, HOperators DEF Sampled, H!Exact, H!Suffix
  <2>7. key' \in Int
    BY <1>1
  <2>8. HAdvances
    <3>1. v \in [Pos -> Keys]
      BY <1>1, HNumbers
    <3> QED
      BY <2>1, <2>4, <3>1, NotShuffled DEF HAdvances
  <2> QED
    BY <2>3, <2>4, <2>5, <2>6, <2>7, <2>8 DEF HIInv
<1>4. CASE pc = "select"
  <2>1. v' = b /\ samp' = samp /\ pc' = "done"
    BY <1>4 DEF H!Write, H!Selected
  <2>2. Shuffled(Keys, v, b, lo, hi)
    BY <1>4, SelectRange
  <2>3. H!Contract!Taken(b, ret)
    BY <1>4, <2>2, HalfEnds
  <2>4. H!Contract!Taken(v, ret)'
    BY <2>1, <2>3 DEF H!Contract!Taken, H!Contract!Belows, H!Contract!Block, H!Moves, H!Exact, H!Suffix
  <2>5. H!TypeOK'
    BY <1>1, <1>2, <2>1, HOperators DEF H!TypeOK
  <2>6. H!CutOff' /\ H!EstimateBelow' /\ Halved' /\ Sampled' /\ pc # "done"
    BY <1>4, <2>1 DEF H!CutOff, H!EstimateBelow, Halved, Sampled
  <2>7. HAdvances
    <3>1. v \in [Pos -> Keys] /\ lo \in Int /\ hi \in 0 .. N /\ first \in 0 .. lo /\ last \in hi .. N
      BY <1>1, <1>4, SelectRange, HNumbers
    <3>2. Shuffled(Keys, v, b, first, last)
      BY <2>2, <3>1, ShuffledWider
    <3> QED
      BY <2>1, <2>6, <3>2 DEF HAdvances
  <2> QED
    BY <1>1, <2>1, <2>4, <2>5, <2>6, <2>7 DEF HIInv
<1> QED
  BY <1>3, <1>4
-----------------------------------------------------------------------------
\* A step after which the selection goes on in [l, h).
LEMMA SelectGoesOn ==
    ASSUME HIInv, pc \in {"rank", "select"}, NEW b, Shuffled(Keys, H!Array, b, lo, hi),
           H!Write(b), pc' = pc, UNCHANGED <<nth, ret, call, first, last, offset, key>>,
           NEW l \in lo .. hi, NEW h \in l .. hi, lo' = l, hi' = h, nth \in l .. h - 1,
           CutAt(b, H!From, H!To, l, h)
    PROVE  HIInv' /\ HAdvances
<1>1. H!TypeOK /\ key \in Int /\ Sampled /\ Halved
  BY DEF HIInv
<1>2. b \in [Pos -> Keys]
  BY DEF Shuffled
<1>3. /\ H!From \in 0 .. N /\ H!To \in 0 .. N /\ {H!From, H!To, lo, hi, nth, N, l, h} \subseteq Int
      /\ H!From <= lo /\ lo <= l /\ l <= h /\ h <= hi /\ hi <= H!To /\ H!To <= N /\ 0 <= lo
      /\ l \in Pos
  <2>1. /\ H!From \in 0 .. N /\ H!To \in 0 .. N /\ {H!From, H!To, lo, hi, nth, N, l, h} \subseteq Int
        /\ H!From <= lo /\ lo <= l /\ l <= h /\ h <= hi /\ hi <= H!To /\ H!To <= N /\ 0 <= lo
        /\ l < h
    BY SelectRange
  <2>2. l \in Pos
    BY <2>1 DEF Pos
  <2> QED
    BY <2>1, <2>2
<1>t. H!TypeOK'
  <2>1. v' \in [Pos -> Keys] /\ samp' \in [Pos -> Keys]
    BY <1>1, <1>2, HNumbers DEF H!Write
  <2>2. lo' \in Pos \cup {N} /\ hi' \in lo' .. N
    BY <1>3
  <2> QED
    BY <1>1, <2>1, <2>2, HOperators DEF H!TypeOK
<1>4. CASE pc = "rank"
  <2>1. v' = v /\ samp' = b /\ pc' = "rank"
    BY <1>4 DEF H!Write
  <2>2. /\ H!From' = H!From /\ H!To' = H!To /\ H!Array' = b /\ H!SampleCount' = H!SampleCount
        /\ H!Reverse' = H!Reverse
    BY <1>4, <2>1 DEF H!From, H!To, H!Array, H!SampleCount, H!Suffix, H!Reverse
  <2>3. H!CutOff'
    <3>1. CutAt(b, H!From, H!To, l, h)'
      BY <2>2 DEF CutAt, H!MayPrecede
    <3> QED
      BY <1>3, <2>2 DEF H!CutOff, CutAt, H!MayPrecede
  <2>4. H!EstimateBelow' /\ Halved' /\ (pc' # "done" /\ pc # "done")
    BY <1>4, <2>1 DEF H!EstimateBelow, Halved
  <2>5. H!PrefixKnown'
    BY <1>4, <2>1 DEF HIInv, H!PrefixKnown
  <2>6. Sampled'
    <3>1. Cardinality(LessCells(b, 0, H!SampleCount, key)) = SampleBelow
      BY <1>4, SelectRange, RankEnds
    <3>2. SampleBelow' = SampleBelow
      BY <2>1, <2>2, <3>1 DEF SampleBelow
    <3> QED
      BY <1>1, <1>4, <2>1, <3>2 DEF Sampled, H!Exact, H!Suffix
  <2>7. HAdvances
    <3>1. v \in [Pos -> Keys]
      BY <1>1, HNumbers
    <3> QED
      BY <2>1, <2>4, <3>1, NotShuffled DEF HAdvances
  <2> QED
    BY <1>1, <1>t, <2>3, <2>4, <2>5, <2>6, <2>7 DEF HIInv
<1>5. CASE pc = "select"
  <2>1. v' = b /\ samp' = samp /\ pc' = "select"
    BY <1>5 DEF H!Write
  <2>2. Shuffled(Keys, v, b, lo, hi)
    BY <1>5, SelectRange
  <2>3. /\ \A p \in H!From .. H!To - 1 : b[p] < key
        /\ \A p \in first .. H!From - 1 : ~ (b[p] < key)
        /\ \A p \in H!To .. last - 1 : ~ (b[p] < key)
        /\ Cardinality(LessCells(b, first, last, key)) = H!Belows
    BY <1>5, <2>2, HalfStays
  <2>4. H!Belows' = H!Belows
    BY <2>1, <2>3, HCardinality DEF H!Belows, LessCells
  <2>5. H!From' = H!From /\ H!To' = H!To /\ H!Array' = b /\ H!Reverse' = H!Reverse
    BY <1>5, <2>1, <2>4 DEF H!From, H!To, H!Array, H!Reverse, H!Moves
  <2>6. H!CutOff'
    <3>1. CutAt(b, H!From, H!To, l, h)'
      BY <2>5 DEF CutAt, H!MayPrecede
    <3> QED
      BY <1>3, <2>5 DEF H!CutOff, CutAt, H!MayPrecede
  <2>7. H!EstimateBelow' /\ Sampled' /\ pc' = "select" /\ pc # "done"
    BY <1>5, <2>1 DEF H!EstimateBelow, Sampled
  <2>8. Halved'
    BY <1>1, <1>5, <2>1, <2>3, <2>4, <2>5 DEF Halved, H!Moves, H!HalfOf
  <2>9. HAdvances
    <3>1. v \in [Pos -> Keys] /\ lo \in Int /\ hi \in 0 .. N /\ first \in 0 .. lo /\ last \in hi .. N
      BY <1>1, <1>5, SelectRange, HNumbers
    <3>2. Shuffled(Keys, v, b, first, last)
      BY <2>2, <3>1, ShuffledWider
    <3> QED
      BY <2>1, <2>7, <3>2 DEF HAdvances
  <2> QED
    BY <1>1, <1>t, <2>6, <2>7, <2>8, <2>9 DEF HIInv
<1> QED
  BY <1>4, <1>5

\* quickselect, quickselect_rev: a turn of the loop.
LEMMA HTurn == ASSUME HIInv, H!SelectTurn PROVE HIInv' /\ HAdvances
<1>1. /\ pc \in {"rank", "select"} /\ UNCHANGED <<nth, ret, call, first, last, offset, key>>
  BY DEF H!SelectTurn, H!args
<1>2. PICK b \in [Pos -> Keys], m \in lo .. hi - 1 :
              /\ Shuffled(Keys, H!Array, b, lo, hi)
              /\ \A p \in lo .. m : H!MayPrecede(b[p], b[m])
              /\ \A p \in m .. hi - 1 : H!MayPrecede(b[m], b[p])
              /\ H!Write(b)
              /\ IF H!Found(m) THEN pc' = H!Selected /\ lo' = lo /\ hi' = hi
                               ELSE pc' = pc /\ H!Narrow(m)
  BY TurnStep
<1> DEFINE f == H!From
           t == H!To
<1>3. /\ f \in 0 .. N /\ t \in 0 .. N /\ lo \in f .. t /\ hi \in lo .. t
      /\ {f, t, lo, hi, nth, N, m} \subseteq Int /\ nth \in lo .. hi - 1
      /\ CutAt(H!Array, f, t, lo, hi) /\ H!Array \in [Pos -> Keys]
      /\ pc = "rank" => ~ H!Reverse
  BY <1>1, SelectRange
<1>4. CutAt(b, f, t, lo, hi)
  BY <1>2, <1>3, CutStays
<1> HIDE DEF f, t
<1>5. /\ \A p \in f .. m : H!MayPrecede(b[p], b[m])
      /\ \A q \in m .. t - 1 : H!MayPrecede(b[m], b[q])
      /\ \A p \in f .. m - 1 : \A q \in m .. t - 1 : H!MayPrecede(b[p], b[q])
      /\ \A p \in f .. m : \A q \in m + 1 .. t - 1 : H!MayPrecede(b[p], b[q])
  BY <1>2, <1>3, <1>4, CutAround
<1>6. CASE H!Found(m)
  <2>1. pc' = H!Selected /\ lo' = lo /\ hi' = hi
    BY <1>2, <1>6
  <2>2. nth = m \/ (H!Reverse /\ nth = m + 1)
    BY <1>6 DEF H!Found
  <2>3. \A p \in f .. nth - 1 : \A q \in nth .. t - 1 : H!MayPrecede(b[p], b[q])
    <3>1. CASE nth = m
      BY <1>5, <3>1
    <3>2. CASE nth = m + 1
      <4>1. nth - 1 = m
        BY <1>3, <3>2
      <4> QED
        BY <1>5, <3>2, <4>1
    <3> QED
      BY <2>2, <3>1, <3>2
  <2>4. pc = "rank" => \A q \in nth .. t - 1 : H!MayPrecede(b[nth], b[q])
    BY <1>3, <1>5, <2>2
  <2> QED
    BY <1>1, <1>2, <2>1, <2>3, <2>4, SelectEnds DEF f, t
<1>7. CASE ~ H!Found(m)
  <2>1. pc' = pc /\ H!Narrow(m) /\ nth # m
    BY <1>2, <1>7 DEF H!Found
  <2>2. CASE nth < m
    <3>1. lo' = lo /\ hi' = m
      BY <2>1, <2>2 DEF H!Narrow
    <3>2. lo \in lo .. hi /\ m \in lo .. hi /\ nth \in lo .. m - 1
      BY <1>2, <1>3, <2>2
    <3>3. CutAt(b, f, t, lo, m)
      BY <1>4, <1>5 DEF CutAt
    <3> QED
      BY <1>1, <1>2, <2>1, <3>1, <3>2, <3>3, SelectGoesOn DEF f, t
  <2>3. CASE ~ (nth < m)
    <3>1. lo' = m + 1 /\ hi' = hi
      BY <2>1, <2>3 DEF H!Narrow
    <3>2. m + 1 \in lo .. hi /\ hi \in m + 1 .. hi /\ nth \in m + 1 .. hi - 1
      BY <1>2, <1>3, <2>1, <2>3
    <3>3. CutAt(b, f, t, m + 1, hi)
      <4>1. \A p \in f .. (m + 1) - 1 : p \in f .. m
        BY <1>3
      <4> QED
        BY <1>4, <1>5, <4>1 DEF CutAt
    <3> QED
      BY <1>1, <1>2, <2>1, <3>1, <3>2, <3>3, SelectGoesOn DEF f, t
  <2> QED
    BY <2>2, <2>3
<1> QED
  BY <1>6, <1>7

\* A block that is short enough is sorted.
LEMMA HLeaf == ASSUME HIInv, H!SelectLeaf PROVE HIInv' /\ HAdvances
<1>1. /\ pc \in {"rank", "select"} /\ pc' = H!Selected
      /\ UNCHANGED <<lo, hi, nth, ret>> /\ UNCHANGED <<call, first, last, offset, key>>
  BY DEF H!SelectLeaf, H!args
<1>2. PICK b : H!Ordered(b, H!Array) /\ H!Write(b)
  BY DEF H!SelectLeaf
<1>3. b \in [Pos -> Keys] /\ Shuffled(Keys, H!Array, b, lo, hi)
  <2>1. b \in [Pos -> Keys] /\ H!Rearranged(b, H!Array, lo, hi)
    BY <1>2, HOperators DEF H!Ordered
  <2> QED
    BY <2>1, HRearrangedIsShuffled
<1> DEFINE f == H!From
           t == H!To
<1>4. /\ f \in 0 .. N /\ t \in 0 .. N /\ lo \in f .. t /\ hi \in lo .. t
      /\ {f, t, lo, hi, nth, N} \subseteq Int /\ nth \in lo .. hi - 1
      /\ CutAt(H!Array, f, t, lo, hi) /\ H!Array \in [Pos -> Keys]
      /\ pc = "rank" => ~ H!Reverse
  BY <1>1, SelectRange
<1>5. CutAt(b, f, t, lo, hi)
  BY <1>3, <1>4, CutStays
<1> HIDE DEF f, t
<1>6. \A p \in Pos : b[p] \in Int
  BY <1>3, HParameters
<1>7. \A p \in lo .. hi - 1 : b[p] \in Int
  BY <1>4, <1>6 DEF Pos
<1>8. \A p, q \in lo .. hi - 1 : p <= q => H!MayPrecede(b[p], b[q])
  <2> SUFFICES ASSUME NEW p \in lo .. hi - 1, NEW q \in lo .. hi - 1, p <= q
               PROVE  H!MayPrecede(b[p], b[q])
    OBVIOUS
  <2>1. p < q => IF H!Reverse THEN b[q] <= b[p] ELSE b[p] <= b[q]
    BY <1>2 DEF H!Ordered
  <2>2. b[p] \in Int /\ b[q] \in Int /\ (p < q \/ p = q)
    BY <1>4, <1>7
  <2> QED
    BY <2>1, <2>2 DEF H!MayPrecede
<1>9. /\ \A p \in lo .. nth : H!MayPrecede(b[p], b[nth])
      /\ \A p \in nth .. hi - 1 : H!MayPrecede(b[nth], b[p])
  BY <1>4, <1>8
<1>10. /\ \A q \in nth .. t - 1 : H!MayPrecede(b[nth], b[q])
       /\ \A p \in f .. nth - 1 : \A q \in nth .. t - 1 : H!MayPrecede(b[p], b[q])
  BY <1>3, <1>4, <1>5, <1>9, CutAround
<1> QED
  BY <1>1, <1>2, <1>3, <1>10, SelectEnds DEF f, t
-----------------------------------------------------------------------------
LEMMA HShortOrExact == ASSUME HIInv, H!ShortOrExact PROVE HIInv' /\ HAdvances
<1>1. /\ pc = "start" /\ pc' = "exact"
      /\ UNCHANGED <<v, call, first, last, offset, key, samp, lo, hi, nth, ret>>
  BY DEF H!ShortOrExact, H!args
<1>2. H!TypeOK /\ H!PrefixKnown /\ key \in Int
  BY <1>1 DEF HIInv
<1>3. H!TypeOK'
  BY <1>1, <1>2 DEF H!TypeOK
<1>4. H!PrefixKnown'
  BY <1>1, <1>2 DEF H!PrefixKnown
<1>5. H!CutOff' /\ H!EstimateBelow' /\ Sampled' /\ Halved'
  BY <1>1 DEF H!CutOff, H!EstimateBelow, Sampled, Halved
<1>6. HAdvances
  BY <1>1, <1>2, HNumbers, NotShuffled DEF HAdvances
<1> QED
  BY <1>1, <1>2, <1>3, <1>4, <1>5, <1>6 DEF HIInv

\* The sample is elements of the suffix; the rank is that of one below the key.
LEMMA HTakeSample == ASSUME HIInv, H!TakeSample PROVE HIInv' /\ HAdvances
<1> DEFINE c == H!SampleCount
           s == [p \in Pos |-> IF p < c THEN v[first + offset + p * H!Stride] ELSE samp[p]]
           count == Cardinality(LessCells(s, 0, c, key))
<1>1. /\ pc = "start" /\ ~ H!Exact /\ H!Suffix >= SampleMin
      /\ UNCHANGED <<v, call, first, last, offset, key, ret>>
  BY DEF H!TakeSample, H!args
<1>2. H!TypeOK /\ H!PrefixKnown /\ key \in Int
  BY <1>1 DEF HIInv
<1>3. /\ c \in Nat /\ 1 <= c /\ c <= N
      /\ \A p \in 0 .. c - 1 : first + offset + p * H!Stride \in first .. last - 1
  BY <1>1, <1>2, SampleNumbers
<1>4. IF count < MinHalf
      THEN pc' = "exact" /\ UNCHANGED <<samp, lo, hi, nth>>
      ELSE pc' = "rank" /\ samp' = s /\ lo' = 0 /\ hi' = c /\ nth' = count \div 2
  <2> DEFINE z == [p \in H!Pos |-> IF p < c THEN v[first + offset + p * H!Stride] ELSE samp[p]]
  <2>1. z = s
    BY HOperators
  <2>2. H!Cardinality({p \in 0 .. c - 1 : z[p] < key}) = count
    BY <2>1, HCardinality DEF LessCells
  <2>3. LET d == H!Cardinality({p \in 0 .. c - 1 : z[p] < key})
        IN  IF d < MinHalf
            THEN pc' = "exact" /\ UNCHANGED <<samp, lo, hi, nth>>
            ELSE pc' = "rank" /\ samp' = z /\ lo' = 0 /\ hi' = c /\ nth' = H!RankOf(d)
    BY DEF H!TakeSample
  <2> HIDE DEF z, s, c, count
  <2> QED
    BY <2>1, <2>2, <2>3 DEF H!RankOf
<1>5. s \in [Pos -> Keys]
  <2> SUFFICES ASSUME NEW p \in Pos
               PROVE  (IF p < c THEN v[first + offset + p * H!Stride] ELSE samp[p]) \in Keys
    OBVIOUS
  <2>1. CASE p < c
    <3>1. p \in 0 .. c - 1
      BY <1>3, <2>1 DEF Pos
    <3>2. first + offset + p * H!Stride \in first .. last - 1
      BY <1>3, <3>1
    <3>3. PICK g \in first .. last - 1 : g = first + offset + p * H!Stride
      BY <3>2
    <3>4. g \in Pos
      BY <1>2, HNumbers
    <3> QED
      BY <1>2, <2>1, <3>3, <3>4, HNumbers
  <2>2. CASE ~ (p < c)
    BY <1>2, <2>2, HNumbers
  <2> QED
    BY <2>1, <2>2
<1> HIDE DEF s
<1>6. count \in 0 .. c
  <2>1. 0 \in Int /\ c \in Int /\ 0 <= c /\ c - 0 = c
    BY <1>3
  <2> HIDE DEF c
  <2> QED
    BY <2>1, CountNumbers
<1>7. v \in [Pos -> Keys] /\ HAdvances
  BY <1>1, <1>2, HNumbers, NotShuffled DEF HAdvances
<1>8. CASE count < MinHalf
  <2>1. pc' = "exact" /\ UNCHANGED <<samp, lo, hi, nth>>
    BY <1>4, <1>8
  <2>2. H!TypeOK'
    BY <1>1, <1>2, <2>1 DEF H!TypeOK
  <2>3. H!PrefixKnown'
    BY <1>1, <1>2 DEF H!PrefixKnown
  <2>4. H!CutOff' /\ H!EstimateBelow' /\ Sampled' /\ Halved'
    BY <2>1 DEF H!CutOff, H!EstimateBelow, Sampled, Halved
  <2> QED
    BY <1>1, <1>2, <1>7, <2>1, <2>2, <2>3, <2>4 DEF HIInv
<1>9. CASE ~ (count < MinHalf)
  <2>1. pc' = "rank" /\ samp' = s /\ lo' = 0 /\ hi' = c /\ nth' = count \div 2
    BY <1>4, <1>9
  <2> HIDE DEF c, count
  <2>2. PICK k \in Nat : k = count \div 2 /\ k < count /\ k < c
    <3>1. count \in Nat /\ 0 < count
      BY <1>3, <1>6, <1>9, HParameters
    <3>2. count % 2 \in 0 .. 2 - 1 /\ count \div 2 \in Nat /\ count = 2 * (count \div 2) + (count % 2)
      BY <3>1, DivisionFacts
    <3> QED
      BY <1>3, <1>6, <3>1, <3>2
  <2>3. nth' = k /\ k \in Int /\ 0 \in Pos /\ k \in Pos /\ 0 \in 0 .. N /\ c \in 0 .. N
    BY <1>3, <2>1, <2>2, HParameters DEF Pos
  <2>4. H!TypeOK'
    <3>1. v' \in [Pos -> Keys] /\ samp' \in [Pos -> Keys]
      BY <1>1, <1>5, <1>7, <2>1
    <3>2. lo' \in Pos \cup {N} /\ hi' \in lo' .. N /\ nth' \in Pos \cup {N}
      BY <1>3, <2>1, <2>3
    <3> QED
      BY <1>1, <1>2, <2>1, <3>1, <3>2, HOperators DEF H!TypeOK
  <2>5. H!PrefixKnown'
    BY <1>1, <1>2 DEF H!PrefixKnown
  <2>6. H!SampleCount' = c /\ H!From' = 0 /\ H!To' = c
    <3>1. H!SampleCount' = c
      BY <1>1 DEF H!SampleCount, H!Suffix, c
    <3> QED
      BY <2>1, <3>1 DEF H!From, H!To
  <2>7. H!CutOff'
    <3>1. nth' \in lo' .. hi' - 1
      BY <1>3, <2>1, <2>2, <2>3
    <3>2. 0 .. 0 - 1 = {} /\ c .. c - 1 = {}
      BY <1>3
    <3>3. H!From' <= lo' /\ hi' <= H!To'
      BY <1>3, <2>1, <2>6
    <3> QED
      BY <2>1, <2>6, <3>1, <3>2, <3>3 DEF H!CutOff
  <2>8. Sampled'
    <3>1. SampleBelow' = count
      BY <1>1, <2>1, <2>6 DEF SampleBelow, count
    <3> QED
      BY <1>1, <2>1, <2>2, <2>3, <3>1 DEF Sampled, H!Exact, H!Suffix
  <2>9. H!EstimateBelow' /\ Halved'
    BY <2>1 DEF H!EstimateBelow, Halved
  <2> QED
    BY <1>1, <1>2, <1>7, <2>1, <2>4, <2>5, <2>7, <2>8, <2>9 DEF HIInv
<1> QED
  BY <1>8, <1>9
-----------------------------------------------------------------------------
\* [f, t) is the end or the start of the range and holds k elements below the key,
\* none of them above an element of the rest: k is an answer the headers allow.
LEMMA BlockTaken ==
    ASSUME H!TypeOK, NEW b, NEW f \in Int, NEW t \in Int, first <= f, f <= t, t <= last,
           IF H!Moves THEN t = last ELSE f = first,
           \A p \in f .. t - 1 : b[p] < key,
           \A p \in f .. t - 1 : \A q \in first .. last - 1 : q \notin f .. t - 1 => b[p] <= b[q],
           H!Exact \/ H!Suffix < SampleMin
               => t - f = H!HalfOf(Cardinality(LessCells(b, first, last, key)))
    PROVE  H!Contract!Taken(b, t - f)
<1> DEFINE k == t - f
           block == H!Contract!Block(k)
           s == Cardinality(LessCells(b, first, last, key))
<1>1. first \in Int /\ last \in Int /\ first <= last /\ k \in Int /\ 0 <= k
  BY HNumbers
<1>2. H!Contract!Belows(b) = s
  <2>1. H!Contract!Belows(b) = H!Contract!Cardinality(LessCells(b, first, last, key))
    BY DEF H!Contract!Belows, LessCells
  <2> QED
    BY <2>1 DEF H!Contract!Cardinality, Cardinality
<1>3. block = f .. t - 1
  <2>1. block = IF H!Moves THEN last - k .. last - 1 ELSE first .. first + k - 1
    BY DEF H!Contract!Block
  <2>2. IF H!Moves THEN last - k = f /\ last = t ELSE first = f /\ first + k = t
    BY <1>1
  <2> HIDE DEF block, k
  <2>3. CASE H!Moves
    BY <1>1, <2>1, <2>2, <2>3
  <2>4. CASE ~ H!Moves
    <3>1. PICK j \in Int : j = first + k /\ j = t /\ first = f
      BY <1>1, <2>2, <2>4
    <3> QED
      BY <1>1, <2>1, <2>4, <3>1
  <2> QED
    BY <2>3, <2>4
<1>4. k \in 0 .. s
  <2>1. IsFiniteSet(LessCells(b, first, last, key)) /\ s \in 0 .. last - first
    BY <1>1, CountNumbers
  <2>2. f .. t - 1 \subseteq LessCells(b, first, last, key)
    BY <1>1 DEF LessCells
  <2>3. Cardinality(f .. t - 1) = k
    BY IntervalCount
  <2>4. Cardinality(f .. t - 1) <= s
    BY <2>1, <2>2, FS_Subset
  <2> HIDE DEF k, s
  <2> QED
    BY <1>1, <2>1, <2>3, <2>4
<1>5. (H!Exact \/ H!Suffix < SampleMin) => k = H!Contract!ExactHalf(s)
  BY DEF H!HalfOf, H!Contract!ExactHalf
<1> HIDE DEF block, s, k
<1>6. H!Contract!Taken(b, k)
  BY <1>2, <1>3, <1>4, <1>5 DEF H!Contract!Taken, block
<1> QED
  BY <1>6 DEF k

LEMMA HalfBounds == ASSUME NEW s \in Nat PROVE H!HalfOf(s) \in 0 .. s
<1>1. s % 2 \in 0 .. 2 - 1 /\ s \div 2 \in Nat /\ s = 2 * (s \div 2) + (s % 2)
  BY DivisionFacts
<1>2. s \div 2 \in 0 .. s
  BY <1>1
<1> QED
  BY <1>2 DEF H!HalfOf

\* The exact forms: the elements below the key are brought together, and what is
\* asked of the selection is half of them.
LEMMA HExactByKey == ASSUME HIInv, H!ExactByKey PROVE HIInv' /\ HAdvances
<1>1. pc = "exact" /\ UNCHANGED <<call, first, last, offset, key, samp>>
  BY DEF H!ExactByKey, H!args
<1>2. H!TypeOK /\ key \in Int
  BY DEF HIInv
<1>3. /\ N \in Nat /\ Keys \subseteq Int /\ v \in [Pos -> Keys] /\ first \in Int /\ last \in Int
      /\ 0 <= first /\ first <= last /\ last <= N /\ first \in 0 .. N /\ last \in 0 .. N
      /\ \A p \in 0 .. N - 1 : p \in Pos
  BY <1>2, HNumbers
<1>4. PICK w, m, f, t, k :
          /\ v' = w /\ ret' = k
          /\ w \in [Pos -> Keys] /\ Shuffled(Keys, v, w, first, last) /\ m \in first .. last
          /\ f = IF H!Moves THEN m ELSE first
          /\ t = IF H!Moves THEN last ELSE m
          /\ k = H!HalfOf(t - f)
          /\ \A p \in f .. t - 1 : w[p] < key
          /\ \A p \in first .. f - 1 : ~ (w[p] < key)
          /\ \A p \in t .. last - 1 : ~ (w[p] < key)
          /\ IF 0 < k /\ k < t - f
             THEN /\ lo' = f /\ hi' = t /\ pc' = "select"
                  /\ nth' = IF H!Moves THEN last - k ELSE first + k
             ELSE pc' = "done" /\ UNCHANGED <<lo, hi, nth>>
  <2>1. CASE H!Moves
    <3>1. PICK o \in H!SizedRev(key) :
              /\ v' = o.array /\ ret' = H!HalfOf(last - o.boundary)
              /\ IF 0 < H!HalfOf(last - o.boundary) /\ H!HalfOf(last - o.boundary) < last - o.boundary
                 THEN /\ lo' = o.boundary /\ hi' = last /\ pc' = "select"
                      /\ nth' = last - H!HalfOf(last - o.boundary)
                 ELSE pc' = "done" /\ UNCHANGED <<lo, hi, nth>>
      BY <2>1 DEF H!ExactByKey
    <3>2. /\ o.array \in [Pos -> Keys] /\ Shuffled(Keys, v, o.array, first, last)
          /\ o.boundary \in first .. last
          /\ \A p \in first .. o.boundary - 1 : o.array[p] \in {x \in Keys : x >= key}
          /\ \A p \in o.boundary .. last - 1 : o.array[p] \notin {x \in Keys : x >= key}
      BY CallFacts DEF H!SizedRev
    <3>3. \A p \in first .. last - 1 : o.array[p] \in Keys /\ o.array[p] \in Int
      <4>1. \A p \in Pos : o.array[p] \in Keys /\ o.array[p] \in Int
        BY <1>3, <3>2
      <4> QED
        BY <1>3, <4>1
    <3>4. /\ \A p \in o.boundary .. last - 1 : o.array[p] < key
          /\ \A p \in first .. o.boundary - 1 : ~ (o.array[p] < key)
          /\ \A p \in last .. last - 1 : ~ (o.array[p] < key)
      BY <1>2, <1>3, <3>2, <3>3
    <3> QED
      BY <2>1, <3>1, <3>2, <3>4
  <2>2. CASE ~ H!Moves
    <3>1. PICK o \in H!SizedOff(key) :
              /\ v' = o.array /\ ret' = H!HalfOf(o.boundary - first)
              /\ IF 0 < H!HalfOf(o.boundary - first) /\ H!HalfOf(o.boundary - first) < o.boundary - first
                 THEN /\ lo' = first /\ hi' = o.boundary /\ pc' = "select"
                      /\ nth' = first + H!HalfOf(o.boundary - first)
                 ELSE pc' = "done" /\ UNCHANGED <<lo, hi, nth>>
      BY <2>2 DEF H!ExactByKey
    <3>2. /\ o.array \in [Pos -> Keys] /\ Shuffled(Keys, v, o.array, first, last)
          /\ o.boundary \in first .. last
          /\ \A p \in first .. o.boundary - 1 : o.array[p] \in {x \in Keys : x < key}
          /\ \A p \in o.boundary .. last - 1 : o.array[p] \notin {x \in Keys : x < key}
      BY CallFacts DEF H!SizedOff
    <3>3. \A p \in first .. last - 1 : o.array[p] \in Keys /\ o.array[p] \in Int
      <4>1. \A p \in Pos : o.array[p] \in Keys /\ o.array[p] \in Int
        BY <1>3, <3>2
      <4> QED
        BY <1>3, <4>1
    <3>4. /\ \A p \in first .. o.boundary - 1 : o.array[p] < key
          /\ \A p \in first .. first - 1 : ~ (o.array[p] < key)
          /\ \A p \in o.boundary .. last - 1 : ~ (o.array[p] < key)
      BY <1>2, <1>3, <3>2, <3>3
    <3> QED
      BY <2>2, <3>1, <3>2, <3>4
  <2> QED
    BY <2>1, <2>2
<1>5. /\ f \in Int /\ t \in Int /\ first <= f /\ f <= t /\ t <= last /\ t - f \in Nat
      /\ IF H!Moves THEN t = last ELSE f = first
  BY <1>3, <1>4
<1>6. k \in Int /\ 0 <= k /\ k <= t - f
  BY <1>4, <1>5, HalfBounds
<1>7. Cardinality(LessCells(w, first, last, key)) = t - f
  <2>1. /\ \A p \in f .. t - 1 : w[p] < key
        /\ \A p \in first .. f - 1 : ~ (w[p] < key)
        /\ \A p \in t .. last - 1 : ~ (w[p] < key)
    BY <1>4
  <2>2. first \in Int /\ last \in Int
    BY <1>3
  <2> QED
    BY ONLY <1>5, <2>1, <2>2, CountOfBlock
<1>8. HAdvances
  BY <1>1, <1>4 DEF HAdvances
<1>9. H!Belows' = t - f
  BY <1>1, <1>4, <1>7, HCardinality DEF H!Belows, LessCells
<1>10. CASE 0 < k /\ k < t - f
  <2>1. /\ lo' = f /\ hi' = t /\ pc' = "select"
        /\ nth' = IF H!Moves THEN last - k ELSE first + k
    BY <1>4, <1>10
  <2>2. H!From' = f /\ H!To' = t
    <3>1. /\ H!From' = IF H!Moves THEN last - (t - f) ELSE first
          /\ H!To' = IF H!Moves THEN last ELSE first + (t - f)
      BY <1>1, <1>9, <2>1 DEF H!From, H!To, H!Moves
    <3> QED
      BY <1>3, <1>5, <3>1
  <2>3. nth' \in f .. t - 1 /\ f \in Pos /\ nth' \in Pos /\ f \in 0 .. N /\ t \in f .. N
    <3>1. PICK j \in Int : j = nth' /\ f <= j /\ j < t
      BY <1>3, <1>5, <1>6, <1>10, <2>1
    <3>2. f \in 0 .. N - 1 /\ j \in 0 .. N - 1
      BY <1>3, <1>5, <3>1
    <3> QED
      BY <1>3, <1>5, <3>1, <3>2
  <2>4. H!TypeOK'
    <3>1. ret' \in 0 .. last - first
      BY <1>3, <1>4, <1>5, <1>6
    <3> QED
      BY <1>1, <1>2, <1>4, <2>1, <2>3, <3>1, HOperators DEF H!TypeOK
  <2>5. H!CutOff'
    <3>1. f .. f - 1 = {} /\ t .. t - 1 = {}
      BY <1>5
    <3> QED
      BY <1>5, <2>1, <2>2, <2>3, <3>1 DEF H!CutOff
  <2>6. Halved'
    BY <1>1, <1>4, <1>5, <1>9, <1>10, <2>1, <2>2 DEF Halved, H!Moves, H!HalfOf
  <2>7. H!EstimateBelow' /\ Sampled'
    BY <2>1 DEF H!EstimateBelow, Sampled
  <2> QED
    BY <1>1, <1>2, <1>8, <2>1, <2>4, <2>5, <2>6, <2>7 DEF HIInv
<1>11. CASE ~ (0 < k /\ k < t - f)
  <2>1. pc' = "done" /\ UNCHANGED <<lo, hi, nth>> /\ (k = 0 \/ k = t - f)
    BY <1>4, <1>5, <1>6, <1>11
  <2>2. H!TypeOK'
    <3>1. ret' \in 0 .. last - first
      BY <1>3, <1>4, <1>5, <1>6
    <3> QED
      BY <1>1, <1>2, <1>4, <2>1, <3>1, HOperators DEF H!TypeOK
  <2>3. H!Contract!Taken(w, k)
    <3>1. CASE k = t - f
      <4>1. ASSUME NEW p \in f .. t - 1, NEW q \in first .. last - 1, q \notin f .. t - 1
            PROVE  w[p] <= w[q]
        <5>1. q \in first .. f - 1 \/ q \in t .. last - 1
          BY <1>3, <1>5, <4>1
        <5>2. w[p] < key /\ ~ (w[q] < key)
          BY <1>4, <5>1
        <5>3. p \in 0 .. N - 1 /\ q \in 0 .. N - 1
          BY <1>3, <1>5
        <5>4. w[p] \in Int /\ w[q] \in Int
          BY <1>3, <1>4, <5>3
        <5> QED
          BY <1>2, <5>2, <5>4
      <4> QED
        BY <1>2, <1>4, <1>5, <1>7, <3>1, <4>1, BlockTaken
    <3>2. CASE k = 0
      <4>1. PICK e \in Int : e = (IF H!Moves THEN last ELSE first)
        BY <1>3
      <4>2. /\ e - e = 0 /\ first <= e /\ e <= e /\ e <= last /\ e .. e - 1 = {}
            /\ IF H!Moves THEN e = last ELSE e = first
        BY <1>3, <4>1
      <4>3. e - e = H!HalfOf(Cardinality(LessCells(w, first, last, key)))
        BY <1>4, <1>7, <3>2, <4>2
      <4>4. H!Contract!Taken(w, e - e)
        BY ONLY <1>2, <4>2, <4>3, BlockTaken
      <4> QED
        BY <3>2, <4>2, <4>4
    <3> QED
      BY <2>1, <3>1, <3>2
  <2>4. H!Contract!Taken(v, ret)'
    BY <1>1, <1>4, <2>3 DEF H!Contract!Taken, H!Contract!Belows, H!Contract!Block, H!Moves, H!Exact, H!Suffix
  <2>5. H!CutOff' /\ H!EstimateBelow' /\ Halved' /\ Sampled'
    BY <2>1 DEF H!CutOff, H!EstimateBelow, Halved, Sampled
  <2> QED
    BY <1>1, <1>2, <1>8, <2>1, <2>2, <2>4, <2>5 DEF HIInv
<1> QED
  BY <1>10, <1>11
-----------------------------------------------------------------------------
\* What is left in the buffer, and the estimate as a number.
LEMMA EstimateNumber ==
    ASSUME HIInv, pc = "route"
    PROVE  samp[nth] \in Int /\ samp[nth] < key /\ H!NoSample \in [Pos -> Keys]
<1>1. nth \in Pos /\ samp[nth] < key /\ H!TypeOK
  BY DEF HIInv, Sampled, H!EstimateBelow
<1>2. v[nth] \in Keys /\ samp[nth] \in Keys
  BY <1>1, HNumbers
<1>3. (CHOOSE x \in Keys : TRUE) \in Keys
  BY <1>2
<1>4. H!NoSample = [p \in Pos |-> CHOOSE x \in Keys : TRUE]
  BY HOperators DEF H!NoSample
<1>5. H!NoSample \in [Pos -> Keys]
  BY <1>3, <1>4
<1> QED
  BY <1>1, <1>2, <1>5, HParameters

\* What one partition around the estimate brings to the side is an answer.
LEMMA RoutedTaken ==
    ASSUME HIInv, pc = "route", NEW w \in [Pos -> Keys], NEW f \in Int, NEW t \in Int,
           first <= f, f <= t, t <= last,
           IF H!Moves THEN t = last ELSE f = first,
           \A p \in f .. t - 1 : w[p] < samp[nth],
           \A p \in first .. f - 1 : w[p] >= samp[nth],
           \A p \in t .. last - 1 : w[p] >= samp[nth]
    PROVE  H!Contract!Taken(w, t - f)
<1>1. H!TypeOK /\ key \in Int /\ ~ H!Exact /\ H!Suffix >= SampleMin
  BY DEF HIInv, Sampled
<1>2. PICK x \in Int : x = samp[nth] /\ x < key
  BY EstimateNumber
<1>3. /\ first \in Int /\ last \in Int /\ 0 <= first /\ last <= N /\ N \in Int /\ Keys \subseteq Int
      /\ offset \in Int
      /\ \A p \in 0 .. N - 1 : p \in Pos
  BY <1>1, HNumbers
<1>4. \A p \in Pos : w[p] \in Int
  BY <1>3
<1>5. \A p \in first .. last - 1 : w[p] \in Int
  BY <1>3, <1>4
<1>6. \A p \in f .. t - 1 : w[p] < key
  BY <1>1, <1>2, <1>3, <1>5
<1>7. \A p \in f .. t - 1 : \A q \in first .. last - 1 : q \notin f .. t - 1 => w[p] <= w[q]
  <2> SUFFICES ASSUME NEW p \in f .. t - 1, NEW q \in first .. last - 1, q \notin f .. t - 1
               PROVE  w[p] <= w[q]
    OBVIOUS
  <2>1. q \in first .. f - 1 \/ q \in t .. last - 1
    BY <1>3
  <2>2. w[p] < x /\ w[q] >= x
    BY <1>2, <2>1
  <2>3. w[p] \in Int /\ w[q] \in Int
    BY <1>3, <1>5
  <2> QED
    BY <1>2, <2>2, <2>3
<1>8. ~ (H!Exact \/ H!Suffix < SampleMin)
  <2>1. H!Suffix \in Int
    BY <1>3 DEF H!Suffix
  <2> QED
    BY <1>1, <2>1, HParameters
<1>9. (H!Exact \/ H!Suffix < SampleMin)
          => t - f = H!HalfOf(Cardinality(LessCells(w, first, last, key)))
  BY <1>8
<1>10. H!TypeOK
  BY <1>1
<1>11. /\ first <= f /\ f <= t /\ t <= last
       /\ IF H!Moves THEN t = last ELSE f = first
  OBVIOUS
<1> QED
  BY ONLY <1>6, <1>7, <1>9, <1>10, <1>11, f \in Int, t \in Int, BlockTaken

\* A step that returns.
LEMMA HReturns ==
    ASSUME HIInv, pc # "done", NEW w, Shuffled(Keys, v, w, first, last), NEW k \in 0 .. last - first,
           v' = w, ret' = k, samp' \in [Pos -> Keys], pc' = "done",
           UNCHANGED <<call, first, last, offset, key, lo, hi, nth>>,
           H!Contract!Taken(w, k)
    PROVE  HIInv' /\ HAdvances
<1>1. H!TypeOK /\ key \in Int /\ w \in [Pos -> Keys]
  BY DEF HIInv, Shuffled
<1>2. H!TypeOK'
  BY <1>1, HOperators DEF H!TypeOK
<1>3. H!Contract!Taken(v, ret)'
  BY DEF H!Contract!Taken, H!Contract!Belows, H!Contract!Block, H!Moves, H!Exact, H!Suffix
<1>4. H!CutOff' /\ H!EstimateBelow' /\ Halved' /\ Sampled'
  BY DEF H!CutOff, H!EstimateBelow, Halved, Sampled
<1>5. HAdvances
  BY DEF HAdvances
<1> QED
  BY <1>1, <1>2, <1>3, <1>4, <1>5 DEF HIInv

\* move_low_half with a sample.
LEMMA HRouteToEnd == ASSUME HIInv, H!RouteToEnd PROVE HIInv' /\ HAdvances
<1>1. /\ pc = "route" /\ H!Moves /\ pc' = "done" /\ samp' = H!NoSample
      /\ UNCHANGED <<call, first, last, offset, key, lo, hi, nth>>
  BY DEF H!RouteToEnd, H!args
<1>2. PICK o \in H!SizedRev(samp[nth]) : v' = o.array /\ ret' = last - o.boundary
  BY DEF H!RouteToEnd
<1>3. /\ o.array \in [Pos -> Keys] /\ Shuffled(Keys, v, o.array, first, last)
      /\ o.boundary \in first .. last
      /\ \A p \in first .. o.boundary - 1 : o.array[p] \in {x \in Keys : x >= samp[nth]}
      /\ \A p \in o.boundary .. last - 1 : o.array[p] \notin {x \in Keys : x >= samp[nth]}
  BY CallFacts DEF H!SizedRev
<1>4. /\ first \in Int /\ last \in Int /\ 0 <= first /\ last <= N /\ N \in Int /\ Keys \subseteq Int
      /\ \A p \in 0 .. N - 1 : p \in Pos
  BY HNumbers DEF HIInv
<1>5. samp[nth] \in Int /\ H!NoSample \in [Pos -> Keys]
  BY <1>1, EstimateNumber
<1>6. PICK m \in first .. last : m = o.boundary
  BY <1>3
<1>7. \A p \in first .. last - 1 : o.array[p] \in Keys /\ o.array[p] \in Int
  <2>1. \A p \in Pos : o.array[p] \in Keys /\ o.array[p] \in Int
    BY <1>3, <1>4
  <2> QED
    BY <1>4, <2>1
<1>8. /\ \A p \in m .. last - 1 : o.array[p] < samp[nth]
      /\ \A p \in first .. m - 1 : o.array[p] >= samp[nth]
      /\ \A p \in last .. last - 1 : o.array[p] >= samp[nth]
  BY <1>3, <1>4, <1>5, <1>6, <1>7
<1>9. m \in Int /\ first <= m /\ m <= last /\ last - m \in 0 .. last - first
  BY <1>4, <1>6
<1>10. H!Contract!Taken(o.array, last - m)
  BY <1>1, <1>3, <1>4, <1>8, <1>9, RoutedTaken
<1>11. ret' = last - m
  BY <1>2, <1>6
<1> QED
  BY <1>1, <1>2, <1>3, <1>5, <1>9, <1>10, <1>11, HReturns

\* offset_low_half with a sample.  Nothing below the estimate leaves the range to the
\* exact form, and the prefix as it was.
LEMMA HRouteToFront == ASSUME HIInv, H!RouteToFront PROVE HIInv' /\ HAdvances
<1>1. /\ pc = "route" /\ ~ H!Moves /\ samp' = H!NoSample
      /\ UNCHANGED <<call, first, last, offset, key, lo, hi, nth>>
  BY DEF H!RouteToFront, H!args
<1>2. PICK o \in H!PrefixFill(samp[nth]) :
          /\ v' = o.array /\ ret' = o.boundary - first
          /\ pc' = IF o.boundary = first THEN "exact" ELSE "done"
  BY DEF H!RouteToFront
<1>3. /\ o \in H!Call(v, {x \in Keys : x < samp[nth]}, first, last)
      /\ \A p \in o.boundary .. first + offset - 1 : o.array[p] = v[p]
  BY DEF H!PrefixFill
<1>4. /\ o.array \in [Pos -> Keys] /\ Shuffled(Keys, v, o.array, first, last)
      /\ o.boundary \in first .. last
      /\ \A p \in first .. o.boundary - 1 : o.array[p] \in {x \in Keys : x < samp[nth]}
      /\ \A p \in o.boundary .. last - 1 : o.array[p] \notin {x \in Keys : x < samp[nth]}
  BY <1>3, CallFacts
<1>5. /\ first \in Int /\ last \in Int /\ 0 <= first /\ last <= N /\ N \in Int /\ Keys \subseteq Int
      /\ \A p \in 0 .. N - 1 : p \in Pos
  BY HNumbers DEF HIInv
<1>6. samp[nth] \in Int /\ H!NoSample \in [Pos -> Keys]
  BY <1>1, EstimateNumber
<1>7. PICK m \in first .. last : m = o.boundary
  BY <1>4
<1>8. \A p \in first .. last - 1 : o.array[p] \in Keys /\ o.array[p] \in Int
  <2>1. \A p \in Pos : o.array[p] \in Keys /\ o.array[p] \in Int
    BY <1>4, <1>5
  <2> QED
    BY <1>5, <2>1
<1>9. /\ \A p \in first .. m - 1 : o.array[p] < samp[nth]
      /\ \A p \in m .. last - 1 : o.array[p] >= samp[nth]
      /\ \A p \in first .. first - 1 : o.array[p] >= samp[nth]
  BY <1>4, <1>5, <1>6, <1>7, <1>8
<1>10. m \in Int /\ first <= m /\ m <= last /\ m - first \in 0 .. last - first
  BY <1>5, <1>7
<1>11. ret' = m - first
  BY <1>2, <1>7
<1>12. CASE m = first
  <2>1. pc' = "exact" /\ ret' \in 0 .. last - first
    BY <1>2, <1>7, <1>10, <1>11, <1>12
  <2>2. H!TypeOK /\ key \in Int /\ H!PrefixKnown
    BY <1>1 DEF HIInv
  <2>3. H!TypeOK'
    <3>1. v' \in [Pos -> Keys] /\ samp' \in [Pos -> Keys]
      BY <1>1, <1>2, <1>4, <1>6
    <3> QED
      BY <1>1, <2>1, <2>2, <3>1, HOperators DEF H!TypeOK
  <2>4. H!PrefixKnown'
    <3>1. \A p \in first .. first + offset - 1 : v'[p] = v[p]
      BY <1>2, <1>3, <1>7, <1>12
    <3> QED
      BY <1>1, <2>2, <3>1 DEF H!PrefixKnown
  <2>5. H!CutOff' /\ H!EstimateBelow' /\ Halved' /\ Sampled' /\ pc' # "done"
    BY <2>1 DEF H!CutOff, H!EstimateBelow, Halved, Sampled
  <2>6. HAdvances
    BY <1>1, <1>2, <1>4 DEF HAdvances
  <2> QED
    BY <1>1, <2>2, <2>3, <2>4, <2>5, <2>6 DEF HIInv
<1>13. CASE m # first
  <2>1. pc' = "done"
    BY <1>2, <1>7, <1>13
  <2>2. H!Contract!Taken(o.array, m - first)
    <3>1. o.array \in [Pos -> Keys] /\ first \in Int /\ m \in Int /\ pc = "route"
      BY <1>1, <1>4, <1>5, <1>10
    <3>2. /\ first <= first /\ first <= m /\ m <= last
          /\ IF H!Moves THEN m = last ELSE first = first
      BY <1>1, <1>5, <1>10
    <3> QED
      BY ONLY HIInv, <1>9, <3>1, <3>2, RoutedTaken
  <2> QED
    BY <1>1, <1>2, <1>4, <1>6, <1>10, <1>11, <2>1, <2>2, HReturns
<1> QED
  BY <1>12, <1>13
-----------------------------------------------------------------------------
LEMMA HInit == ASSUME H!Init PROVE HIInv
<1>1. /\ v \in [Pos -> Keys] /\ first \in 0 .. N /\ last \in first .. N
      /\ call \in {"move", "move_exact", "offset", "offset_exact"}
      /\ offset \in 0 .. last - first /\ H!PrefixKnown
      /\ key \in Keys \cup {x + 1 : x \in Keys}
      /\ samp = H!NoSample /\ lo = first /\ hi = first /\ nth = first /\ ret = 0 /\ pc = "start"
  BY HOperators DEF H!Init
<1>2. key \in Int
  BY <1>1, HParameters
<1>3. samp \in [Pos -> Keys]
  <2>1. (CHOOSE x \in Keys : TRUE) \in Keys
    BY <1>1
  <2>2. samp = [p \in Pos |-> CHOOSE x \in Keys : TRUE]
    BY <1>1, HOperators DEF H!NoSample
  <2> QED
    BY <2>1, <2>2
<1>4. H!TypeOK
  <2>1. N \in Nat /\ first \in Int /\ last \in Int /\ first <= last
    BY <1>1, HParameters
  <2>2. first \in Pos \cup {N} /\ first \in first .. N /\ 0 \in 0 .. last - first
    BY <1>1, <2>1 DEF Pos
  <2> QED
    BY <1>1, <1>3, <2>2, HOperators DEF H!TypeOK
<1>5. H!CutOff /\ H!EstimateBelow /\ Sampled /\ Halved
  BY <1>1 DEF H!CutOff, H!EstimateBelow, Sampled, Halved
<1> QED
  BY <1>1, <1>2, <1>4, <1>5 DEF HIInv

LEMMA HQuiet == ASSUME HIInv, UNCHANGED H!vars PROVE HIInv'
<1>1. /\ v' = v /\ call' = call /\ first' = first /\ last' = last /\ offset' = offset /\ key' = key
      /\ samp' = samp /\ lo' = lo /\ hi' = hi /\ nth' = nth /\ ret' = ret /\ pc' = pc
  BY DEF H!vars, H!args
<1>2. H!TypeOK' /\ key' \in Int
  BY <1>1 DEF HIInv, H!TypeOK
<1>3. H!Belows' = H!Belows /\ H!Moves' = H!Moves /\ H!SampleCount' = H!SampleCount
  BY <1>1 DEF H!Belows, H!Moves, H!SampleCount, H!Suffix
<1>4. H!From' = H!From /\ H!To' = H!To /\ H!Array' = H!Array /\ H!Reverse' = H!Reverse
  BY <1>1, <1>3 DEF H!From, H!To, H!Array, H!Reverse
<1>5. H!CutOff'
  BY <1>1, <1>4 DEF HIInv, H!CutOff, H!MayPrecede
<1>6. H!EstimateBelow'
  BY <1>1 DEF HIInv, H!EstimateBelow
<1>7. (pc \in {"start", "exact", "rank", "route"} => H!PrefixKnown)'
  BY <1>1 DEF HIInv, H!PrefixKnown
<1>8. Sampled'
  <2>1. SampleBelow' = SampleBelow
    BY <1>1, <1>3 DEF SampleBelow, LessCells
  <2> QED
    BY <1>1, <2>1 DEF HIInv, Sampled, H!Exact, H!Suffix
<1>9. Halved'
  BY <1>1, <1>3, <1>4 DEF HIInv, Halved, H!HalfOf
<1>10. (pc = "done" => H!Contract!Taken(v, ret))'
  BY <1>1 DEF HIInv, H!Contract!Taken, H!Contract!Belows, H!Contract!Block, H!Moves, H!Exact, H!Suffix
<1> QED
  BY <1>2, <1>5, <1>6, <1>7, <1>8, <1>9, <1>10 DEF HIInv

LEMMA HStep == ASSUME HIInv, H!Next PROVE HIInv' /\ HAdvances
BY HShortOrExact, HTakeSample, HTurn, HLeaf, HExactByKey, HRouteToEnd, HRouteToFront DEF H!Next

\* In a behaviour of the composed runs that is a low-half call.
HalvingInv == Halving => HIInv

LEMMA HalvingStep == ASSUME MCNext, Halving PROVE [H!Next]_H!vars
<1>1. CASE UNCHANGED allVars
  BY <1>1 DEF allVars, ofSelect, ofHalf, H!vars, H!args
<1>2. CASE ~ UNCHANGED allVars
  BY <1>2 DEF MCNext, sorts, halves, ranks, Sorting, Halving, Ranking, H!Next
<1> QED
  BY <1>1, <1>2

LEMMA SameAlgorithm == [MCNext]_allVars => algorithm' = algorithm
BY DEF MCNext, allVars, sorts, halves, ranks

LEMMA HalvingNext == HalvingInv /\ [MCNext]_allVars => HalvingInv'
<1> SUFFICES ASSUME HalvingInv, [MCNext]_allVars, Halving' PROVE HIInv'
  BY DEF HalvingInv
<1>1. Halving
  BY SameAlgorithm DEF Halving
<1>2. [H!Next]_H!vars
  <2>1. CASE UNCHANGED allVars
    BY <2>1 DEF allVars, ofSelect, ofHalf, H!vars, H!args
  <2> QED
    BY <1>1, <2>1, HalvingStep
<1> QED
  BY <1>1, <1>2, HStep, HQuiet DEF HalvingInv

LEMMA HalvingInit == MCInit => HalvingInv
BY HInit DEF MCInit, SortCalls, HalfCalls, RankCalls, Halving, HalvingInv

\* The inductive invariant of the low-half calls holds in every state of them.
THEOREM HalvingInvariance == (H!Spec => []HIInv) /\ (MCSpec => []HalvingInv)
<1>1. H!Init => HIInv
  BY HInit
<1>2. HIInv /\ [H!Next]_H!vars => HIInv'
  BY HStep, HQuiet
<1>3. H!Spec => []HIInv
  BY <1>1, <1>2, PTL DEF H!Spec
<1>4. MCSpec => []HalvingInv
  BY HalvingInit, HalvingNext, PTL DEF MCSpec
<1> QED
  BY <1>3, <1>4

\* The low-half calls: whatever the partitions and the pivots of quickselect are, what a
\* selection cuts off is in its place and never holds the rank it looks for, the
\* estimate a sample gives is below the key, and a fallback finds the prefix of the
\* exact form as it has to be.
THEOREM LowHalfInvariantHolds ==
    (H!Spec => []H!SelectInvariant) /\ (MCSpec => [](Halving => H!SelectInvariant))
<1>1. HIInv => H!SelectInvariant
  BY DEF HIInv, H!SelectInvariant
<1>2. HalvingInv => (Halving => H!SelectInvariant)
  BY <1>1 DEF HalvingInv
<1> QED
  BY <1>1, <1>2, HalvingInvariance, PTL
-----------------------------------------------------------------------------
LEMMA ShuffledIsHalfRearranged ==
    ASSUME NEW a, NEW b, NEW l, NEW h, Shuffled(Keys, a, b, l, h)
    PROVE  /\ H!Contract!Rearranged(b, a, l, h)
           /\ Half!Rearranged(b, a, l, h)
<1>1. \A x \in Keys : Cardinality(Occurrences(a, x, l, h)) = Cardinality(Occurrences(b, x, l, h))
  BY DEF Shuffled, SameCounts
<1>2. ASSUME NEW c, NEW x \in Keys
      PROVE  /\ H!Contract!KeyCounts(c, Keys, l, h)[x] = Cardinality(Occurrences(c, x, l, h))
             /\ Half!KeyCounts(c, Keys, l, h)[x] = Cardinality(Occurrences(c, x, l, h))
  <2>1. /\ H!Contract!Cardinality(Occurrences(c, x, l, h)) = Cardinality(Occurrences(c, x, l, h))
        /\ Half!Cardinality(Occurrences(c, x, l, h)) = Cardinality(Occurrences(c, x, l, h))
    BY DEF H!Contract!Cardinality, Half!Cardinality, Cardinality
  <2>2. /\ H!Contract!KeyCounts(c, Keys, l, h)[x] = H!Contract!Cardinality(Occurrences(c, x, l, h))
        /\ Half!KeyCounts(c, Keys, l, h)[x] = Half!Cardinality(Occurrences(c, x, l, h))
    BY DEF H!Contract!KeyCounts, Half!KeyCounts, Occurrences
  <2> QED
    BY <2>1, <2>2
<1>3. H!Contract!KeyCounts(b, Keys, l, h) = H!Contract!KeyCounts(a, Keys, l, h)
  <2>1. \A x \in Keys : H!Contract!KeyCounts(b, Keys, l, h)[x] = H!Contract!KeyCounts(a, Keys, l, h)[x]
    BY <1>1, <1>2
  <2> QED
    BY <2>1 DEF H!Contract!KeyCounts
<1>4. Half!KeyCounts(b, Keys, l, h) = Half!KeyCounts(a, Keys, l, h)
  <2>1. \A x \in Keys : Half!KeyCounts(b, Keys, l, h)[x] = Half!KeyCounts(a, Keys, l, h)[x]
    BY <1>1, <1>2
  <2> QED
    BY <2>1 DEF Half!KeyCounts
<1>5. SameOutside(a, b, l, h)
  BY DEF Shuffled
<1>6. H!Contract!Rearranged(b, a, l, h)
  BY <1>3, <1>5 DEF H!Contract!Rearranged, H!Contract!SameKeys, H!Contract!SameOutside, SameOutside,
     H!Contract!Pos, Pos
<1>7. Half!Rearranged(b, a, l, h)
  BY <1>4, <1>5 DEF Half!Rearranged, Half!SameKeys, Half!SameOutside, SameOutside, Half!Pos, Pos
<1> QED
  BY <1>6, <1>7

\* The contract of the composed runs is that of the calls while one is made.
LEMMA SamePromise ==
    ASSUME Halving, NEW a, NEW k
    PROVE  Half!Taken(a, k) <=> H!Contract!Taken(a, k)
<1>1. Half!Belows(a) = H!Contract!Belows(a)
  BY DEF Half!Belows, H!Contract!Belows, Half!Cardinality, H!Contract!Cardinality
<1>2. Half!Block(k) = H!Contract!Block(k)
  BY DEF Half!Block, H!Contract!Block
<1>3. \A s : Half!ExactHalf(s) = H!Contract!ExactHalf(s)
  BY DEF Half!ExactHalf, H!Contract!ExactHalf
<1> QED
  BY <1>1, <1>2, <1>3 DEF Half!Taken, H!Contract!Taken

LEMMA HContractStep ==
    ASSUME HIInv', HAdvances
    PROVE  /\ pc # "done" /\ v' \in [Pos -> Keys] /\ Shuffled(Keys, v, v', first, last)
           /\ pc' = "done" => H!Contract!Taken(v', ret')
           /\ UNCHANGED <<call, first, last, offset, key>>
<1>1. /\ pc # "done" /\ Shuffled(Keys, v, v', first, last)
      /\ UNCHANGED <<call, first, last, offset, key>>
  BY DEF HAdvances
<1>2. v' \in [Pos -> Keys]
  BY <1>1 DEF Shuffled
<1>3. pc' = "done" => H!Contract!Taken(v, ret)'
  BY DEF HIInv
<1>4. H!Contract!Taken(v, ret)' => H!Contract!Taken(v', ret')
  BY <1>1 DEF H!Contract!Taken, H!Contract!Belows, H!Contract!Block, H!Moves, H!Exact, H!Suffix
<1> QED
  BY <1>1, <1>2, <1>3, <1>4

LEMMA HAbstractInit == H!Init => H!Contract!Init
<1> SUFFICES ASSUME H!Init PROVE H!Contract!Init
  OBVIOUS
<1>1. v \in [H!Contract!Pos -> Keys] /\ first \in 0 .. N /\ last \in first .. N /\ pc = "start"
  BY DEF H!Init, H!Pos, H!Contract!Pos
<1>2. key \in Int
  BY HInit DEF HIInv
<1> QED
  BY <1>1, <1>2 DEF H!Contract!Init, H!Moves, H!Exact

LEMMA HAbstractStep == HIInv /\ [H!Next]_H!vars => [H!Contract!Next]_H!Contract!vars
<1> SUFFICES ASSUME HIInv, [H!Next]_H!vars PROVE [H!Contract!Next]_H!Contract!vars
  OBVIOUS
<1>1. CASE UNCHANGED H!vars
  BY <1>1 DEF H!vars, H!args, H!Contract!vars, H!Moves, H!Exact, H!Suffix
<1>2. CASE H!Next
  <2>1. HIInv' /\ HAdvances
    BY <1>2, HStep
  <2>2. /\ pc # "done" /\ v' \in [Pos -> Keys] /\ Shuffled(Keys, v, v', first, last)
        /\ pc' = "done" => H!Contract!Taken(v', ret')
        /\ UNCHANGED <<call, first, last, offset, key>>
    BY <2>1, HContractStep
  <2>3. H!Contract!Rearranged(v', v, first, last) /\ v' \in [H!Contract!Pos -> Keys]
    BY <2>2, ShuffledIsHalfRearranged DEF H!Contract!Pos, Pos
  <2>4. pc' = "done" => H!Contract!Taken(v', IF pc' = "done" THEN ret' ELSE 0)
    BY <2>2
  <2> QED
    BY <2>2, <2>3, <2>4 DEF H!Contract!Next, H!Moves, H!Exact, H!Suffix
<1> QED
  BY <1>1, <1>2

LEMMA HalfAbstractInit == MCInit => Half!Init
<1> SUFFICES ASSUME MCInit PROVE Half!Init
  OBVIOUS
<1>1. v \in [Pos -> Keys] /\ first \in 0 .. N /\ last \in first .. N
  <2>1. CASE SortCalls
    BY <2>1 DEF SortCalls, Q!Init, Q!Pos, Pos
  <2>2. CASE HalfCalls
    BY <2>2 DEF HalfCalls, H!Init, H!Pos, Pos
  <2>3. CASE RankCalls
    BY <2>3 DEF RankCalls, R!Init, R!Pos, Pos
  <2> QED
    BY <2>1, <2>2, <2>3 DEF MCInit
<1>2. Still \in [Pos -> Keys]
  <2>1. ASSUME NEW p \in Pos PROVE (CHOOSE x \in Keys : TRUE) \in Keys
    BY <1>1, <2>1
  <2> QED
    BY <2>1 DEF Still
<1>3. Halving => key \in Int
  BY HalvingInit DEF HalvingInv, HIInv
<1>4. Halving => pc = "start"
  BY DEF MCInit, SortCalls, HalfCalls, RankCalls, Halving, H!Init
<1> QED
  BY <1>1, <1>2, <1>3, <1>4 DEF Half!Init, Half!Pos, Pos, H!Moves, H!Exact

LEMMA HalfAbstractStep == HalvingInv /\ [MCNext]_allVars => [Half!Next]_Half!vars
<1> SUFFICES ASSUME HalvingInv, [MCNext]_allVars PROVE [Half!Next]_Half!vars
  OBVIOUS
<1>1. CASE UNCHANGED allVars
  BY <1>1 DEF allVars, ofSelect, ofHalf, Half!vars, H!Moves, H!Exact, H!Suffix, Halving, Still
<1>2. CASE MCNext /\ ~ Halving
  <2>1. algorithm' = algorithm /\ ~ Halving'
    BY <1>2, SameAlgorithm DEF Halving
  <2>2. call' = call /\ first' = first /\ last' = last
    BY <1>2 DEF MCNext, sorts, halves, ranks, ofHalf, allVars, Q!Partition, Q!StartSelection,
       Q!SelectMin, Q!Pop, Q!Finish, Q!args, R!SelectOnly, R!SortAndSelect, R!StartGroups,
       R!GatherMedian, R!MedianOfMedians, R!FlagLess, R!FlagGreater, R!FlagEqual, R!KeepLess,
       R!SelectEqual, R!KeepGreater, R!args
  <2> QED
    BY <1>2, <2>1, <2>2 DEF Half!vars, H!Moves
<1>3. CASE MCNext /\ Halving
  <2>1. Halving'
    BY <1>3, SameAlgorithm DEF Halving
  <2>2. HIInv /\ [H!Next]_H!vars
    BY <1>3, HalvingStep DEF HalvingInv
  <2>3. CASE UNCHANGED H!vars
    BY <1>3, <2>1, <2>3 DEF H!vars, H!args, Half!vars, H!Moves, H!Exact, H!Suffix
  <2>4. CASE H!Next
    <3>1. HIInv' /\ HAdvances
      BY <2>2, <2>4, HStep
    <3>2. /\ pc # "done" /\ v' \in [Pos -> Keys] /\ Shuffled(Keys, v, v', first, last)
          /\ pc' = "done" => H!Contract!Taken(v', ret')
          /\ UNCHANGED <<call, first, last, offset, key>>
      BY <3>1, HContractStep
    <3>3. Half!Rearranged(v', v, first, last) /\ v' \in [Half!Pos -> Keys]
      BY <3>2, ShuffledIsHalfRearranged DEF Half!Pos, Pos
    <3>4. pc' = "done" => Half!Taken(v', ret')
      BY <1>3, <3>2, SamePromise
    <3> QED
      BY <1>3, <2>1, <3>2, <3>3, <3>4 DEF Half!Next, H!Moves, H!Exact, H!Suffix
  <2> QED
    BY <2>2, <2>3, <2>4
<1> QED
  BY <1>1, <1>2, <1>3

\* move_low_half, offset_low_half and their exact forms bring the k least elements of
\* those below the key to their end of the range, k is half of them in the exact
\* forms, and no element is lost: for every range, key and sample, whatever the
\* partitions do within their contract and whichever pivots quickselect takes.
THEOREM TakesLowHalfHolds == (H!Spec => H!Implements) /\ (MCSpec => TakesLowHalf)
<1>1. H!Spec => H!Implements
  BY HAbstractInit, HAbstractStep, HalvingInvariance, PTL
     DEF H!Spec, H!Implements, H!Contract!Spec
<1>2. MCSpec => TakesLowHalf
  BY HalfAbstractInit, HalfAbstractStep, HalvingInvariance, PTL
     DEF MCSpec, TakesLowHalf, Half!Spec
<1> QED
  BY <1>1, <1>2
-----------------------------------------------------------------------------
(***************************************************************************)
(* select_nth.                                                             *)
(***************************************************************************)
\* The waiting invocations are numbered from the outside; the last number is the
\* running one's.
Depth == Len(stack) + 1

LevelLo(d)   == IF d = Depth THEN lo ELSE stack[d][1]
LevelHi(d)   == IF d = Depth THEN hi ELSE stack[d][2]
LevelRank(d) == IF d = Depth THEN nth ELSE stack[d][3]

\* How many groups n elements make, and so how many medians there are of them.
Groups(n) == (n + Group - 1) \div Group

\* The range that an invocation was called on, and the cell whose element it is to
\* find: the middle of the medians of the next outer one.
LevelBase(d) == IF d = 1 THEN first ELSE LevelLo(d - 1)
LevelTop(d)  ==
    IF d = 1 THEN last ELSE LevelLo(d - 1) + Groups(LevelHi(d - 1) - LevelLo(d - 1))
LevelGoal(d) ==
    IF d = 1 THEN first + rank
             ELSE LevelLo(d - 1) + Groups(LevelHi(d - 1) - LevelLo(d - 1)) \div 2

\* The elements of [l, m) come before those of [m, h).
Cut(a, l, m, h) == \A p \in l .. m - 1 : \A q \in m .. h - 1 : a[p] <= a[q]

\* Where an invocation looks, what it has cut off, and the rank in what is left.
LevelPlaced(d) ==
    /\ LevelLo(d) \in Int /\ LevelHi(d) \in Int /\ LevelRank(d) \in Int
    /\ first <= LevelBase(d) /\ LevelBase(d) <= LevelLo(d)
    /\ LevelHi(d) <= LevelTop(d) /\ LevelTop(d) <= last
    /\ LevelLo(d) + LevelRank(d) = LevelGoal(d)
    /\ 0 <= LevelRank(d) /\ LevelRank(d) < LevelHi(d) - LevelLo(d)

LevelCut(a, d) ==
    Cut(a, LevelBase(d), LevelLo(d), LevelTop(d)) /\ Cut(a, LevelBase(d), LevelHi(d), LevelTop(d))

\* How many keys of the set t are in [l, h).
Count(a, l, h, t) == Cardinality(KeyCells(a, l, h, t))

UpTo(x)   == {y \in Keys : y <= x}
DownTo(x) == {y \in Keys : y >= x}

\* The elements of a group that are at most, or at least, its median.
FewerThanHalf == Group \div 2 + 1
OtherHalf     == Group - Group \div 2

\* Every median in [l, s) stands for w elements of [l, h), one of them for one at least.
StandsFor(a, l, s, h, t, w) ==
    Count(a, l, s, t) > 0 => Count(a, l, h, t) >= (Count(a, l, s, t) - 1) * w + 1

Represented(a, l, s, h) ==
    \A x \in Keys : /\ StandsFor(a, l, s, h, UpTo(x), FewerThanHalf)
                    /\ StandsFor(a, l, s, h, DownTo(x), OtherHalf)

\* The medians of a waiting invocation.
LevelCounted(a, d) ==
    Represented(a, LevelLo(d), LevelLo(d) + Groups(LevelHi(d) - LevelLo(d)), LevelHi(d))

\* As long as the groups are whole, each of the medians stands for as many.
Gathered(a, l, s, h) ==
    \A x \in Keys : /\ Count(a, l, h, UpTo(x)) >= Count(a, l, s, UpTo(x)) * FewerThanHalf
                    /\ Count(a, l, h, DownTo(x)) >= Count(a, l, s, DownTo(x)) * OtherHalf

Gathering ==
    pc = "group" =>
        /\ store \in Int /\ lo <= store /\ i = lo + Group * (store - lo)
        /\ i < hi + Group /\ hi - lo > 1
        /\ IF i <= hi THEN Gathered(v, lo, store, i) ELSE Represented(v, lo, store, hi)

RTyped ==
    /\ v \in [Pos -> Keys]
    /\ {first, last, rank, lo, hi, nth, i, lt, gt, ret} \subseteq Int
    /\ 0 <= first /\ first < last /\ last <= N
    /\ key \in Keys /\ pc \in {"select", "group", "flag", "done"}
    /\ ret \in first .. last - 1
    /\ stack \in Seq(Int \X Int \X Int)

RLevels ==
    /\ \A d \in 1 .. Depth : LevelPlaced(d)
    /\ \A d, e \in 1 .. Depth : d < e =>
          /\ LevelLo(d) <= LevelLo(e) /\ LevelHi(e) <= LevelHi(d)
          /\ LevelHi(e) - LevelLo(e) < LevelHi(d) - LevelLo(d)

RContents(a) ==
    /\ \A d \in 1 .. Depth : LevelCut(a, d)
    /\ \A d \in 1 .. Len(stack) : LevelCounted(a, d)

\* What the medians say of the pivot, in counts of the keys.
PivotCentral ==
    pc = "flag" =>
        LET groups == Groups(hi - lo)
        IN  /\ Count(v, lo, hi, UpTo(key)) >= (groups \div 2) * FewerThanHalf + 1
            /\ Count(v, lo, hi, DownTo(key)) >= (groups - groups \div 2 - 1) * OtherHalf + 1

\* The inductive invariant of select_nth.
RIInv ==
    /\ RTyped /\ RLevels /\ RContents(v)
    /\ Gathering
    /\ R!ThreeWay /\ PivotCentral /\ R!RankSelected

\* What a step does to the array and to the arguments.
RAdvances ==
    /\ Shuffled(Keys, v, v', first, last)
    /\ UNCHANGED <<first, last, rank>>
-----------------------------------------------------------------------------
LEMMA ROperators ==
    /\ R!Pos = Pos
    /\ \A a, p, q : R!Swap(a, p, q) = Swap(a, p, q)
BY DEF R!Pos, Pos, R!Swap, Swap

LEMMA RCardinality == ASSUME NEW s PROVE R!Cardinality(s) = Cardinality(s)
BY DEF R!Cardinality, Cardinality

LEMMA RParameters ==
    N \in Nat /\ Keys \subseteq Int /\ Group \in Nat /\ Group > 1 /\ LeafMax \in Nat /\ 0 < LeafMax
BY NAssumption, SelectionParameters DEF H!SampleAssumption, R!GroupAssumption

LEMMA RRearrangedIsShuffled ==
    ASSUME NEW a, NEW b \in [Pos -> Keys], NEW l, NEW h, R!Rearranged(b, a, l, h)
    PROVE  Shuffled(Keys, a, b, l, h)
<1>1. R!KeyCounts(b, Keys, l, h) = R!KeyCounts(a, Keys, l, h)
  BY DEF R!Rearranged, R!SameKeys
<1>2. ASSUME NEW c, NEW x \in Keys
      PROVE  R!KeyCounts(c, Keys, l, h)[x] = Cardinality(Occurrences(c, x, l, h))
  <2>1. R!KeyCounts(c, Keys, l, h)[x] = R!Cardinality(Occurrences(c, x, l, h))
    BY DEF R!KeyCounts, Occurrences
  <2> QED
    BY <2>1, RCardinality
<1>3. SameCounts(Keys, a, b, l, h)
  BY <1>1, <1>2 DEF SameCounts
<1>4. SameOutside(a, b, l, h)
  BY DEF R!Rearranged, R!SameOutside, SameOutside, R!Pos, Pos
<1> QED
  BY <1>3, <1>4 DEF Shuffled

\* s groups cover n elements and s - 1 do not: there are s.
LEMMA GroupsReached ==
    ASSUME NEW n \in Int, 1 <= n, NEW s \in Int, n <= Group * s, Group * (s - 1) < n
    PROVE  Groups(n) = s
<1> DEFINE q == (n + Group - 1) \div Group
           G == Group
<1>1. G \in Nat /\ G > 1
  BY RParameters
<1>2. PICK r \in Int : q \in Nat /\ 0 <= r /\ r < G /\ n + G - 1 = G * q + r
  <2>1. PICK c \in Nat : c = n + Group - 1
    BY <1>1
  <2>2. c % G \in 0 .. G - 1 /\ c \div G \in Nat /\ c = G * (c \div G) + (c % G)
    <3>1. G \in Nat \ {0}
      BY <1>1
    <3> HIDE DEF G, q
    <3> QED
      BY ONLY <3>1, c \in Nat, DivisionFacts
  <2>3. q = c \div G
    BY <2>1
  <2> HIDE DEF q
  <2>4. PICK r \in Int : r = c % G /\ 0 <= r /\ r < G
    BY <1>1, <2>2
  <2> QED
    BY <1>1, <2>1, <2>2, <2>3, <2>4
<1> HIDE DEF q, G
<1>3. G * (s - 1) = G * s - G /\ n <= G * s /\ G * (s - 1) < n /\ G * s \in Int /\ G * q \in Int
  BY <1>1, <1>2 DEF G
<1>4. ASSUME q < s PROVE FALSE
  <2>1. G * (s - 1 - q) >= 0 /\ G * (s - 1 - q) = G * s - G - G * q
    BY <1>1, <1>2, <1>4
  <2> QED
    BY <1>1, <1>2, <1>3, <2>1
<1>5. ASSUME s < q PROVE FALSE
  <2>1. G * (q - s - 1) >= 0 /\ G * (q - s - 1) = G * q - G * s - G
    BY <1>1, <1>2, <1>5
  <2> QED
    BY <1>1, <1>2, <1>3, <2>1
<1> QED
  BY <1>2, <1>4, <1>5 DEF Groups, q, G

\* There is a group, and they are fewer than the elements unless there is only one.
LEMMA GroupNumbers ==
    ASSUME NEW n \in Int, 1 <= n
    PROVE  /\ Groups(n) \in Nat /\ 1 <= Groups(n) /\ Groups(n) <= n
           /\ n > 1 => Groups(n) < n
           /\ Groups(n) \div 2 \in Nat /\ Groups(n) \div 2 < Groups(n)
<1> DEFINE q == (n + Group - 1) \div Group
           G == Group
<1>1. G \in Nat /\ G > 1
  BY RParameters
<1>2. PICK r \in Int : q \in Nat /\ 0 <= r /\ r < G /\ n + G - 1 = G * q + r
  <2>1. PICK c \in Nat : c = n + Group - 1
    BY <1>1
  <2>2. c % G \in 0 .. G - 1 /\ c \div G \in Nat /\ c = G * (c \div G) + (c % G)
    <3>1. G \in Nat \ {0}
      BY <1>1
    <3> HIDE DEF G, q
    <3> QED
      BY ONLY <3>1, c \in Nat, DivisionFacts
  <2>3. q = c \div G
    BY <2>1
  <2> HIDE DEF q
  <2>4. PICK r \in Int : r = c % G /\ 0 <= r /\ r < G
    BY <1>1, <2>2
  <2> QED
    BY <1>1, <2>1, <2>2, <2>3, <2>4
<1>3. Groups(n) = q
  BY DEF Groups
<1> HIDE DEF q, G
<1>4. 1 <= q
  <2>1. q = 0 => G * q = 0
    BY <1>1
  <2> QED
    BY <1>1, <1>2, <2>1
<1>5. q <= n /\ (n > 1 => q < n)
  <2>1. G * q <= n + G - 1
    BY <1>1, <1>2
  <2>2. (G - 2) * (q - 1) >= 0 /\ (G - 2) * (q - 1) = G * q - G - 2 * q + 2
    BY <1>1, <1>2, <1>4
  <2>3. 2 * q <= n + 1
    BY <1>1, <1>2, <2>1, <2>2
  <2> QED
    BY <1>2, <2>3
<1>6. q % 2 \in 0 .. 2 - 1 /\ q \div 2 \in Nat /\ q = 2 * (q \div 2) + (q % 2)
  BY <1>2, DivisionFacts
<1> QED
  BY <1>2, <1>3, <1>4, <1>5, <1>6

\* The weights of a median.
LEMMA Weights ==
    /\ FewerThanHalf \in Nat /\ 1 <= FewerThanHalf /\ OtherHalf \in Nat /\ 1 <= OtherHalf
    /\ FewerThanHalf + OtherHalf = Group + 1
<1>1. Group \in Nat /\ Group > 1
  BY RParameters
<1>2. Group % 2 \in 0 .. 2 - 1 /\ Group \div 2 \in Nat /\ Group = 2 * (Group \div 2) + (Group % 2)
  BY <1>1, DivisionFacts
<1> QED
  BY <1>1, <1>2 DEF FewerThanHalf, OtherHalf
-----------------------------------------------------------------------------
LEMMA CountFinite ==
    ASSUME NEW a, NEW l \in Int, NEW h \in Int, NEW t
    PROVE  IsFiniteSet(KeyCells(a, l, h, t)) /\ Count(a, l, h, t) \in Nat
<1>1. IsFiniteSet(l .. h - 1) /\ KeyCells(a, l, h, t) \subseteq l .. h - 1
  BY FS_Interval DEF KeyCells
<1>2. IsFiniteSet(KeyCells(a, l, h, t))
  BY <1>1, FS_Subset
<1> QED
  BY <1>2, FS_CardinalityType DEF Count

LEMMA CountSplit ==
    ASSUME NEW a, NEW l \in Int, NEW m \in Int, NEW h \in Int, l <= m, m <= h, NEW t
    PROVE  Count(a, l, h, t) = Count(a, l, m, t) + Count(a, m, h, t)
<1> DEFINE A == KeyCells(a, l, m, t)
           B == KeyCells(a, m, h, t)
<1>1. KeyCells(a, l, h, t) = A \cup B
  BY DEF KeyCells
<1>2. A \cap B = {}
  BY DEF KeyCells
<1>3. IsFiniteSet(A) /\ IsFiniteSet(B) /\ Cardinality(A) \in Nat /\ Cardinality(B) \in Nat
  BY CountFinite DEF Count
<1> HIDE DEF A, B
<1>4. Cardinality(A \cup B) = Cardinality(A) + Cardinality(B) - Cardinality(A \cap B)
  BY <1>3, FS_Union
<1>5. Cardinality(A \cap B) = 0
  BY <1>2, FS_EmptySet
<1> QED
  BY <1>1, <1>3, <1>4, <1>5 DEF Count, A, B

LEMMA CountSame ==
    ASSUME NEW a, NEW b, NEW l \in Int, NEW h \in Int, NEW t, \A p \in l .. h - 1 : b[p] = a[p]
    PROVE  Count(b, l, h, t) = Count(a, l, h, t)
<1>1. KeyCells(b, l, h, t) = KeyCells(a, l, h, t)
  BY DEF KeyCells
<1> QED
  BY <1>1 DEF Count

\* A block of which all keys are in the set.
LEMMA CountAtLeast ==
    ASSUME NEW a, NEW l \in Int, NEW h \in Int, NEW t, NEW f \in Int, NEW e \in Int,
           l <= f, f <= e, e <= h, \A p \in f .. e - 1 : a[p] \in t
    PROVE  Count(a, l, h, t) >= e - f
<1>1. f .. e - 1 \subseteq KeyCells(a, l, h, t)
  BY DEF KeyCells
<1>2. Cardinality(f .. e - 1) = e - f
  BY IntervalCount
<1>3. Cardinality(f .. e - 1) <= Cardinality(KeyCells(a, l, h, t))
  BY <1>1, CountFinite, FS_Subset
<1> QED
  BY <1>2, <1>3, CountFinite DEF Count

LEMMA CountShuffled ==
    ASSUME NEW a \in [Pos -> Keys], NEW b, NEW l \in Int, NEW h \in Int, 0 <= l, l <= h, h <= N,
           Shuffled(Keys, a, b, l, h), NEW f \in Int, NEW e \in Int, 0 <= f, f <= l, h <= e, e <= N,
           NEW t \in SUBSET Keys
    PROVE  Count(b, f, e, t) = Count(a, f, e, t)
<1>1. N \in Nat
  BY RParameters
<1>2. h \in 0 .. N /\ f \in 0 .. l /\ e \in h .. N /\ e \in 0 .. N
  BY <1>1
<1>3. Shuffled(Keys, a, b, f, e)
  BY <1>2, ShuffledWider
<1> QED
  BY <1>2, <1>3, ShuffledCounts DEF Count

\* What is cut off a range stays so when one side is rearranged.
LEMMA CutKept ==
    ASSUME NEW a \in [Pos -> Keys], NEW b, NEW l \in Int, NEW h \in Int, 0 <= l, l <= h, h <= N,
           Shuffled(Keys, a, b, l, h), NEW f \in Int, NEW m \in Int, NEW e \in Int,
           0 <= f, f <= l, h <= e, e <= N, h <= m \/ m <= l, Cut(a, f, m, e)
    PROVE  Cut(b, f, m, e)
<1>1. N \in Nat /\ h \in 0 .. N
  BY RParameters
<1>2. \A p \in Pos : p \notin l .. h - 1 => b[p] = a[p]
  BY DEF Shuffled, SameOutside
<1>3. \A p \in l .. h - 1 : \E q \in l .. h - 1 : a[q] = b[p]
  BY <1>1, ShuffledFrom
<1>4. ASSUME NEW p \in f .. m - 1, p \in f .. e - 1
      PROVE  \E q \in f .. m - 1 : a[q] = b[p]
  <2>1. CASE p \in l .. h - 1
    <3>1. PICK q \in l .. h - 1 : a[q] = b[p]
      BY <1>3, <2>1
    <3>2. q \in f .. m - 1
      BY <1>4, <2>1
    <3> QED
      BY <3>1, <3>2
  <2>2. CASE p \notin l .. h - 1
    <3>1. p \in Pos
      BY <1>1, <1>4 DEF Pos
    <3> QED
      BY <1>2, <1>4, <2>2, <3>1
  <2> QED
    BY <2>1, <2>2
<1>5. ASSUME NEW p \in m .. e - 1, p \in f .. e - 1
      PROVE  \E q \in m .. e - 1 : a[q] = b[p]
  <2>1. CASE p \in l .. h - 1
    <3>1. PICK q \in l .. h - 1 : a[q] = b[p]
      BY <1>3, <2>1
    <3>2. q \in m .. e - 1
      BY <1>5, <2>1
    <3> QED
      BY <3>1, <3>2
  <2>2. CASE p \notin l .. h - 1
    <3>1. p \in Pos
      BY <1>1, <1>5 DEF Pos
    <3> QED
      BY <1>2, <1>5, <2>2, <3>1
  <2> QED
    BY <2>1, <2>2
<1>6. ASSUME NEW p \in f .. m - 1, NEW q \in m .. e - 1, f <= m, m <= e PROVE b[p] <= b[q]
  <2>1. p \in f .. e - 1 /\ q \in f .. e - 1
    BY <1>6
  <2>2. PICK g \in f .. m - 1 : a[g] = b[p]
    BY <1>4, <1>6, <2>1
  <2>3. PICK k \in m .. e - 1 : a[k] = b[q]
    BY <1>5, <1>6, <2>1
  <2>4. a[g] <= a[k]
    BY DEF Cut
  <2> QED
    BY <2>2, <2>3, <2>4
<1>7. (f <= m /\ m <= e) \/ f .. m - 1 = {} \/ m .. e - 1 = {}
  OBVIOUS
<1> QED
  BY <1>6, <1>7 DEF Cut
-----------------------------------------------------------------------------
LEMMA DepthNumbers ==
    ASSUME RTyped
    PROVE  /\ Len(stack) \in Nat /\ Depth \in Nat /\ 1 <= Depth /\ Depth = Len(stack) + 1
           /\ Depth \in 1 .. Depth
           /\ (stack = <<>> <=> Depth = 1)
           /\ LevelLo(Depth) = lo /\ LevelHi(Depth) = hi /\ LevelRank(Depth) = nth
<1>1. stack \in Seq(Int \X Int \X Int)
  BY DEF RTyped
<1>2. Len(stack) \in Nat /\ (stack = <<>> <=> Len(stack) = 0)
  BY <1>1, EmptySeq, LenProperties
<1> QED
  BY <1>2 DEF Depth, LevelLo, LevelHi, LevelRank

LEMMA LevelNumbers ==
    ASSUME RTyped, RLevels, NEW d \in 1 .. Depth
    PROVE  /\ {LevelLo(d), LevelHi(d), LevelRank(d), LevelBase(d), LevelTop(d), LevelGoal(d)}
                  \subseteq Int
           /\ {first, last, lo, hi, nth, N} \subseteq Int
           /\ 0 <= first /\ first <= LevelBase(d) /\ LevelBase(d) <= LevelLo(d)
           /\ LevelLo(d) <= LevelGoal(d) /\ LevelGoal(d) < LevelHi(d)
           /\ LevelLo(d) + LevelRank(d) = LevelGoal(d)
           /\ LevelHi(d) <= LevelTop(d) /\ LevelTop(d) <= last /\ last <= N
           /\ LevelLo(d) <= lo /\ hi <= LevelHi(d)
<1>1. Depth \in Nat /\ LevelLo(Depth) = lo /\ LevelHi(Depth) = hi /\ 1 <= Depth /\ Depth \in 1 .. Depth
  BY DepthNumbers
<1>2. LevelPlaced(d) /\ (d > 1 => d - 1 \in 1 .. Depth /\ LevelPlaced(d - 1))
  <2>1. d > 1 => d - 1 \in 1 .. Depth
    BY <1>1
  <2> QED
    BY <2>1 DEF RLevels
<1>3. d < Depth => LevelLo(d) <= LevelLo(Depth) /\ LevelHi(Depth) <= LevelHi(d)
  BY <1>1 DEF RLevels
<1>4. d = Depth \/ d < Depth
  BY <1>1
<1>5. N \in Int /\ {first, last, lo, hi, nth, rank} \subseteq Int /\ 0 <= first /\ last <= N
  BY RParameters DEF RTyped
<1>6. LevelBase(d) \in Int /\ LevelTop(d) \in Int /\ LevelGoal(d) \in Int
  <2>1. CASE d = 1
    BY <1>5, <2>1 DEF LevelBase, LevelTop, LevelGoal
  <2>2. CASE d # 1
    <3>1. d > 1
      BY <2>2
    <3>2. PICK x \in Int, y \in Int : x = LevelLo(d - 1) /\ y = LevelHi(d - 1) /\ y - x >= 1
      BY <1>2, <3>1 DEF LevelPlaced
    <3>3. Groups(y - x) \in Nat /\ Groups(y - x) \div 2 \in Nat
      BY <3>2, GroupNumbers
    <3> QED
      BY <2>2, <3>2, <3>3 DEF LevelBase, LevelTop, LevelGoal
  <2> QED
    BY <2>1, <2>2
<1>7. /\ LevelLo(d) \in Int /\ LevelHi(d) \in Int /\ LevelRank(d) \in Int
      /\ first <= LevelBase(d) /\ LevelBase(d) <= LevelLo(d)
      /\ LevelHi(d) <= LevelTop(d) /\ LevelTop(d) <= last
      /\ LevelLo(d) + LevelRank(d) = LevelGoal(d)
      /\ 0 <= LevelRank(d) /\ LevelRank(d) < LevelHi(d) - LevelLo(d)
  BY <1>2 DEF LevelPlaced
<1>8. LevelLo(d) <= LevelGoal(d) /\ LevelGoal(d) < LevelHi(d)
  BY <1>6, <1>7
<1>9. LevelLo(d) <= lo /\ hi <= LevelHi(d)
  BY <1>1, <1>3, <1>4, <1>5, <1>7
<1> QED
  BY <1>5, <1>6, <1>7, <1>8, <1>9

\* The medians of a waiting invocation are around the range that is worked on.
LEMMA MedianNumbers ==
    ASSUME RTyped, RLevels, NEW d \in 1 .. Len(stack)
    PROVE  /\ d \in 1 .. Depth /\ d + 1 \in 1 .. Depth
           /\ LevelLo(d) + Groups(LevelHi(d) - LevelLo(d)) = LevelTop(d + 1)
           /\ LevelLo(d) = LevelBase(d + 1)
           /\ hi <= LevelTop(d + 1) /\ LevelTop(d + 1) <= LevelHi(d)
<1>1. d \in 1 .. Depth /\ d + 1 \in 1 .. Depth
  BY DepthNumbers
<1>2. /\ LevelLo(d) + Groups(LevelHi(d) - LevelLo(d)) = LevelTop(d + 1)
      /\ LevelLo(d) = LevelBase(d + 1)
  <2>1. d + 1 # 1 /\ (d + 1) - 1 = d
    BY <1>1
  <2> QED
    BY <2>1 DEF LevelTop, LevelBase
<1>3. PICK x \in Int, y \in Int : x = LevelLo(d) /\ y = LevelHi(d) /\ y - x >= 1
  <2>1. /\ LevelLo(d) \in Int /\ LevelHi(d) \in Int /\ LevelGoal(d) \in Int
        /\ LevelLo(d) <= LevelGoal(d) /\ LevelGoal(d) < LevelHi(d)
    BY <1>1, LevelNumbers
  <2> QED
    BY <2>1
<1>4. Groups(y - x) \in Nat /\ Groups(y - x) <= y - x
  BY <1>3, GroupNumbers
<1>5. /\ hi <= LevelHi(d + 1) /\ LevelHi(d + 1) <= LevelTop(d + 1)
      /\ LevelTop(d + 1) \in Int /\ hi \in Int /\ LevelHi(d + 1) \in Int
  BY <1>1, LevelNumbers
<1>6. LevelTop(d + 1) = x + Groups(y - x)
  BY <1>2, <1>3
<1> QED
  BY <1>1, <1>2, <1>3, <1>4, <1>5, <1>6

\* Rearranging what the innermost invocation has left disturbs no invocation.
LEMMA ContentsKept ==
    ASSUME RTyped, RLevels, RContents(v), NEW b, NEW l \in Int, NEW h \in Int,
           lo <= l, l <= h, h <= hi, Shuffled(Keys, v, b, l, h)
    PROVE  RContents(b)
<1>1. v \in [Pos -> Keys]
  BY DEF RTyped
<1>2. ASSUME NEW d \in 1 .. Depth PROVE LevelCut(b, d)
  <2>1. LevelCut(v, d)
    BY DEF RContents
  <2>2. /\ LevelLo(d) \in Int /\ LevelHi(d) \in Int /\ LevelBase(d) \in Int /\ LevelTop(d) \in Int
        /\ 0 <= LevelBase(d) /\ LevelBase(d) <= l /\ h <= LevelTop(d) /\ LevelTop(d) <= N
        /\ LevelLo(d) <= l /\ h <= LevelHi(d) /\ 0 <= l /\ h <= N
    BY LevelNumbers
  <2>3. Cut(b, LevelBase(d), LevelLo(d), LevelTop(d))
    BY <1>1, <2>1, <2>2, CutKept DEF LevelCut
  <2>4. Cut(b, LevelBase(d), LevelHi(d), LevelTop(d))
    BY <1>1, <2>1, <2>2, CutKept DEF LevelCut
  <2> QED
    BY <2>3, <2>4 DEF LevelCut
<1>3. ASSUME NEW d \in 1 .. Len(stack) PROVE LevelCounted(b, d)
  <2>1. LevelCounted(v, d) /\ d \in 1 .. Depth
    BY MedianNumbers DEF RContents
  <2>2. PICK f \in Int, m \in Int, e \in Int :
            /\ f = LevelLo(d) /\ m = LevelLo(d) + Groups(LevelHi(d) - LevelLo(d)) /\ e = LevelHi(d)
            /\ 0 <= f /\ f <= l /\ h <= m /\ m <= e /\ e <= N /\ 0 <= l /\ h <= N
    <3>1. d + 1 \in 1 .. Depth
      BY MedianNumbers
    <3>2. LevelTop(d + 1) \in Int
      BY <3>1, LevelNumbers
    <3>3. /\ LevelLo(d) \in Int /\ LevelHi(d) \in Int /\ 0 <= LevelLo(d) /\ LevelHi(d) <= N
          /\ LevelLo(d) <= lo /\ lo \in Int /\ hi \in Int /\ N \in Int
      <4>1. /\ {LevelLo(d), LevelHi(d), LevelBase(d), LevelTop(d), first, last, lo, hi, N} \subseteq Int
            /\ 0 <= first /\ first <= LevelBase(d) /\ LevelBase(d) <= LevelLo(d)
            /\ LevelHi(d) <= LevelTop(d) /\ LevelTop(d) <= last /\ last <= N
            /\ LevelLo(d) <= lo
        BY <2>1, LevelNumbers
      <4> QED
        BY <4>1
    <3>4. /\ LevelLo(d) + Groups(LevelHi(d) - LevelLo(d)) = LevelTop(d + 1)
          /\ hi <= LevelTop(d + 1) /\ LevelTop(d + 1) <= LevelHi(d)
      BY MedianNumbers
    <3>5. PICK m \in Int : m = LevelLo(d) + Groups(LevelHi(d) - LevelLo(d)) /\ hi <= m /\ m <= LevelHi(d)
      BY <3>2, <3>4
    <3> QED
      BY <3>3, <3>5
  <2>3. ASSUME NEW t \in SUBSET Keys
        PROVE  Count(b, f, m, t) = Count(v, f, m, t) /\ Count(b, f, e, t) = Count(v, f, e, t)
    <3>1. m <= N
      BY <2>2, RParameters
    <3> QED
      BY <1>1, <2>2, <3>1, CountShuffled
  <2>4. \A x : UpTo(x) \in SUBSET Keys /\ DownTo(x) \in SUBSET Keys
    BY DEF UpTo, DownTo
  <2>5. Represented(v, f, m, e)
    BY <2>1, <2>2 DEF LevelCounted
  <2>6. Represented(b, f, m, e)
    BY <2>3, <2>4, <2>5 DEF Represented, StandsFor
  <2> QED
    BY <2>2, <2>6 DEF LevelCounted
<1> QED
  BY <1>2, <1>3 DEF RContents
-----------------------------------------------------------------------------
LEMMA LevelsFrom ==
    ASSUME NEW k \in Nat, UNCHANGED <<first, last, rank>>,
           \A d \in 1 .. k : LevelLo(d)' = LevelLo(d) /\ LevelHi(d)' = LevelHi(d)
    PROVE  \A d \in 1 .. k + 1 : /\ LevelBase(d)' = LevelBase(d)
                                 /\ LevelTop(d)' = LevelTop(d)
                                 /\ LevelGoal(d)' = LevelGoal(d)
<1> SUFFICES ASSUME NEW d \in 1 .. k + 1
             PROVE  /\ LevelBase(d)' = LevelBase(d)
                    /\ LevelTop(d)' = LevelTop(d)
                    /\ LevelGoal(d)' = LevelGoal(d)
  OBVIOUS
<1>1. CASE d = 1
  BY <1>1 DEF LevelBase, LevelTop, LevelGoal
<1>2. CASE d # 1
  <2>1. d - 1 \in 1 .. k
    BY <1>2
  <2> QED
    BY <1>2, <2>1 DEF LevelBase, LevelTop, LevelGoal
<1> QED
  BY <1>1, <1>2

\* A step that stays in the innermost invocation and its range.
LEMMA RStays ==
    ASSUME RTyped, RLevels, RContents(v), NEW l \in Int, NEW h \in Int, lo <= l, l <= h, h <= hi,
           Shuffled(Keys, v, v', l, h), UNCHANGED <<first, last, rank, lo, hi, nth, stack>>
    PROVE  v' \in [Pos -> Keys] /\ RLevels' /\ RContents(v)' /\ RAdvances
<1>1. PICK b : b = v'
  OBVIOUS
<1>2. RContents(b) /\ b \in [Pos -> Keys]
  BY <1>1, ContentsKept DEF Shuffled
<1>3. Depth' = Depth
  BY DEF Depth
<1>4. ASSUME NEW d
      PROVE  LevelLo(d)' = LevelLo(d) /\ LevelHi(d)' = LevelHi(d) /\ LevelRank(d)' = LevelRank(d)
  BY <1>3 DEF LevelLo, LevelHi, LevelRank
<1>5. ASSUME NEW d
      PROVE  LevelBase(d)' = LevelBase(d) /\ LevelTop(d)' = LevelTop(d) /\ LevelGoal(d)' = LevelGoal(d)
  BY <1>4 DEF LevelBase, LevelTop, LevelGoal
<1>6. RLevels'
  <2>1. ASSUME NEW d \in 1 .. Depth' PROVE LevelPlaced(d)'
    <3>1. LevelPlaced(d)
      BY <1>3 DEF RLevels
    <3> QED
      BY <1>4, <1>5, <3>1 DEF LevelPlaced
  <2>2. ASSUME NEW d \in 1 .. Depth', NEW e \in 1 .. Depth', d < e
        PROVE  /\ LevelLo(d)' <= LevelLo(e)' /\ LevelHi(e)' <= LevelHi(d)'
               /\ LevelHi(e)' - LevelLo(e)' < LevelHi(d)' - LevelLo(d)'
    BY <1>3, <1>4, <2>2 DEF RLevels
  <2> QED
    BY <2>1, <2>2 DEF RLevels
<1>7. RContents(v)'
  <2>1. ASSUME NEW d \in 1 .. Depth' PROVE LevelCut(v, d)'
    <3>1. LevelCut(b, d)
      BY <1>2, <1>3 DEF RContents
    <3> QED
      BY <1>1, <1>4, <1>5, <3>1 DEF LevelCut
  <2>2. ASSUME NEW d \in 1 .. Len(stack') PROVE LevelCounted(v, d)'
    <3>1. LevelCounted(b, d)
      BY <1>2 DEF RContents
    <3> QED
      BY <1>1, <1>4, <3>1 DEF LevelCounted
  <2> QED
    BY <2>1, <2>2 DEF RContents
<1>8. RAdvances
  <2>1. Depth \in 1 .. Depth /\ LevelLo(Depth) = lo /\ LevelHi(Depth) = hi
    BY DepthNumbers
  <2>2. /\ {lo, hi, first, last, N} \subseteq Int /\ 0 <= first /\ first <= lo /\ hi <= last /\ last <= N
    <3>1. /\ {LevelLo(Depth), LevelHi(Depth), LevelBase(Depth), LevelTop(Depth), first, last, lo, hi, N}
                 \subseteq Int
          /\ 0 <= first /\ first <= LevelBase(Depth) /\ LevelBase(Depth) <= LevelLo(Depth)
          /\ LevelHi(Depth) <= LevelTop(Depth) /\ LevelTop(Depth) <= last /\ last <= N
      BY <2>1, LevelNumbers
    <3> QED
      BY <2>1, <3>1
  <2>3. h \in 0 .. N /\ first \in 0 .. l /\ last \in h .. N /\ v \in [Pos -> Keys]
    BY <2>2 DEF RTyped
  <2>4. Shuffled(Keys, v, b, first, last)
    BY <1>1, <2>3, ShuffledWider
  <2> QED
    BY <1>1, <2>4 DEF RAdvances
<1> QED
  BY <1>1, <1>2, <1>6, <1>7, <1>8

LEMMA RunningNumbers ==
    ASSUME RTyped, RLevels
    PROVE  /\ {first, last, rank, lo, hi, nth, N} \subseteq Int
           /\ 0 <= first /\ first <= lo /\ lo <= lo + nth /\ lo + nth < hi /\ hi <= last /\ last <= N
           /\ 0 <= nth /\ nth < hi - lo /\ 1 <= hi - lo
           /\ Depth \in 1 .. Depth
           /\ LevelBase(Depth) \in Int /\ LevelTop(Depth) \in Int
           /\ first <= LevelBase(Depth) /\ LevelBase(Depth) <= lo
           /\ hi <= LevelTop(Depth) /\ LevelTop(Depth) <= last
           /\ LevelGoal(Depth) = lo + nth
           /\ \A p \in 0 .. N - 1 : p \in Pos
<1>1. /\ Depth \in 1 .. Depth /\ LevelLo(Depth) = lo /\ LevelHi(Depth) = hi /\ LevelRank(Depth) = nth
  BY DepthNumbers
<1>2. /\ {LevelLo(Depth), LevelHi(Depth), LevelRank(Depth), LevelBase(Depth), LevelTop(Depth),
          LevelGoal(Depth), first, last, N} \subseteq Int
      /\ 0 <= first /\ first <= LevelBase(Depth) /\ LevelBase(Depth) <= LevelLo(Depth)
      /\ LevelLo(Depth) <= LevelGoal(Depth) /\ LevelGoal(Depth) < LevelHi(Depth)
      /\ LevelLo(Depth) + LevelRank(Depth) = LevelGoal(Depth)
      /\ LevelHi(Depth) <= LevelTop(Depth) /\ LevelTop(Depth) <= last /\ last <= N
  BY <1>1, LevelNumbers
<1>3. rank \in Int
  BY DEF RTyped
<1>4. \A p \in 0 .. N - 1 : p \in Pos
  BY DEF Pos
<1> QED
  BY <1>1, <1>2, <1>3, <1>4

LEMMA CountNone ==
    ASSUME NEW a, NEW l \in Int, NEW t PROVE Count(a, l, l, t) = 0
<1>1. KeyCells(a, l, l, t) = {}
  BY DEF KeyCells
<1> QED
  BY <1>1, FS_EmptySet DEF Count

LEMMA CountOne ==
    ASSUME NEW a, NEW l \in Int, NEW t
    PROVE  Count(a, l, l + 1, t) = IF a[l] \in t THEN 1 ELSE 0
<1>1. l .. (l + 1) - 1 = {l}
  OBVIOUS
<1>2. CASE a[l] \in t
  <2>1. KeyCells(a, l, l + 1, t) = {l}
    BY <1>1, <1>2 DEF KeyCells
  <2> QED
    BY <1>2, <2>1, FS_Singleton DEF Count
<1>3. CASE a[l] \notin t
  <2>1. KeyCells(a, l, l + 1, t) = {}
    BY <1>1, <1>3 DEF KeyCells
  <2> QED
    BY <1>3, <2>1, FS_EmptySet DEF Count
<1> QED
  BY <1>2, <1>3

\* n elements <= an m-fold of w, and g more with one more median or none.
LEMMA OneMoreGroup ==
    ASSUME NEW m \in Nat, NEW n \in Nat, NEW w \in Nat, 1 <= w, n >= m * w, NEW g \in Nat,
           NEW e \in {0, 1}
    PROVE  /\ (e = 1 => g >= w) => n + g >= (m + e) * w
           /\ (e = 1 => g >= 1) /\ m + e > 0 => n + g >= (m + e - 1) * w + 1
<1>1. CASE e = 0
  <2>1. m + e = m
    BY <1>1
  <2>2. m > 0 => m * w = (m - 1) * w + w
    OBVIOUS
  <2>3. m > 0 => n + g >= (m - 1) * w + 1
    <3>1. m * w \in Int /\ (m - 1) * w \in Int
      OBVIOUS
    <3> QED
      BY <2>2, <3>1
  <2> QED
    BY <2>1, <2>3
<1>2. CASE e = 1
  <2>1. (m + 1) * w = m * w + w /\ m * w \in Int /\ m + 1 - 1 = m
    OBVIOUS
  <2> QED
    BY <1>2, <2>1
<1> QED
  BY <1>1, <1>2

LEMMA RStartGroups == ASSUME RIInv, R!StartGroups PROVE RIInv' /\ RAdvances
<1>1. /\ pc = "select" /\ hi - lo > 1 /\ store' = lo /\ i' = lo /\ pc' = "group"
      /\ UNCHANGED <<v, first, last, rank, lo, hi, nth, stack, lt, gt, key, ret>>
  BY DEF R!StartGroups, R!args
<1>2. RTyped /\ RLevels /\ RContents(v)
  BY DEF RIInv
<1>3. /\ {first, last, rank, lo, hi, nth, N} \subseteq Int /\ lo < hi
  BY <1>2, RunningNumbers
<1>4. RLevels' /\ RContents(v)' /\ RAdvances
  <2>1. Shuffled(Keys, v, v', lo, hi)
    BY <1>1, <1>2, NotShuffled DEF RTyped
  <2> QED
    BY <1>1, <1>2, <1>3, <2>1, RStays
<1>5. RTyped'
  BY <1>1, <1>2, <1>3 DEF RTyped
<1>6. Gathering'
  <2>1. lo + Group * (lo - lo) = lo /\ lo < hi + Group
    BY <1>3, RParameters
  <2>2. Gathered(v, lo, lo, lo)
    <3>1. \A t : Count(v, lo, lo, t) = 0
      BY <1>3, CountNone
    <3> QED
      BY <3>1, Weights DEF Gathered
  <2> QED
    BY <1>1, <1>3, <2>1, <2>2 DEF Gathering
<1>7. R!ThreeWay' /\ PivotCentral' /\ R!RankSelected'
  BY <1>1 DEF R!ThreeWay, PivotCentral, R!RankSelected
<1> QED
  BY <1>4, <1>5, <1>6, <1>7 DEF RIInv
\* A group is sorted and its median brought to the others.
LEMMA GroupStep ==
    ASSUME RTyped, RLevels, NEW s \in Int, NEW g \in Int, NEW e \in Int, lo <= s, s <= g, g < e, e <= hi,
           NEW b \in [Pos -> Keys], Shuffled(Keys, v, b, g, e),
           \A p, q \in g .. e - 1 : p < q => b[p] <= b[q],
           NEW m \in g .. e - 1, NEW c, c = Swap(b, s, m)
    PROVE  /\ Shuffled(Keys, v, c, lo, e) /\ c \in [Pos -> Keys]
           /\ \A t \in SUBSET Keys :
                /\ Count(c, lo, e, t) = Count(v, lo, g, t) + Count(b, g, e, t)
                /\ Count(c, lo, s + 1, t) = Count(v, lo, s, t) + (IF c[s] \in t THEN 1 ELSE 0)
           /\ \A x \in Keys : /\ c[s] \in UpTo(x) => Count(b, g, e, UpTo(x)) >= (m + 1) - g
                              /\ c[s] \in DownTo(x) => Count(b, g, e, DownTo(x)) >= e - m
<1>1. /\ {lo, hi, N} \subseteq Int /\ N \in Nat /\ 0 <= lo /\ hi <= N
      /\ v \in [Pos -> Keys] /\ Keys \subseteq Int
      /\ \A p \in 0 .. N - 1 : p \in Pos
  <2>1. /\ {first, last, lo, hi, N} \subseteq Int /\ 0 <= first /\ first <= lo /\ hi <= last /\ last <= N
        /\ \A p \in 0 .. N - 1 : p \in Pos
    BY RunningNumbers
  <2>2. N \in Nat /\ Keys \subseteq Int /\ v \in [Pos -> Keys]
    BY RParameters DEF RTyped
  <2> QED
    BY <2>1, <2>2
<1>2. /\ s \in lo .. e - 1 /\ m \in lo .. e - 1 /\ s \in Pos /\ m \in Pos /\ e \in 0 .. N /\ e <= N
      /\ lo \in 0 .. g /\ lo \in Int /\ e \in e .. N /\ m \in Int
  BY <1>1
<1>3. Shuffled(Keys, v, b, lo, e)
  <2>1. 0 <= g /\ g \in Int /\ e \in 0 .. N
    BY <1>1
  <2> QED
    BY <1>1, <1>2, <2>1, ShuffledWider
<1>4. Shuffled(Keys, b, c, lo, e)
  BY <1>1, <1>2, SwapShuffles
<1>5. Shuffled(Keys, v, c, lo, e)
  BY <1>3, <1>4, ShuffledTwice
<1>6. c \in [Pos -> Keys]
  BY <1>5 DEF Shuffled
<1>7. c[s] = b[m] /\ \A p \in lo .. s - 1 : c[p] = v[p]
  <2>1. c[s] = b[m]
    BY <1>2 DEF Swap
  <2>2. ASSUME NEW p \in lo .. s - 1 PROVE c[p] = v[p]
    <3>1. p \in Pos /\ p # s /\ p # m /\ p \notin g .. e - 1
      BY <1>1, <1>2
    <3>2. c[p] = b[p]
      BY <3>1 DEF Swap
    <3>3. b[p] = v[p]
      BY <3>1 DEF Shuffled, SameOutside
    <3> QED
      BY <3>2, <3>3
  <2> QED
    BY <2>1, <2>2
<1>8. ASSUME NEW t \in SUBSET Keys
      PROVE  Count(c, lo, e, t) = Count(v, lo, g, t) + Count(b, g, e, t)
  <2>1. Count(c, lo, e, t) = Count(v, lo, e, t)
    BY <1>1, <1>2, <1>5, CountShuffled
  <2>2. Count(v, lo, e, t) = Count(v, lo, g, t) + Count(v, g, e, t)
    BY <1>1, CountSplit
  <2>3. Count(b, g, e, t) = Count(v, g, e, t)
    <3>1. 0 <= g /\ g <= e /\ e <= N /\ g <= g /\ e <= e
      BY <1>1
    <3> QED
      BY <1>1, <3>1, CountShuffled
  <2> QED
    BY <2>1, <2>2, <2>3
<1>9. ASSUME NEW t \in SUBSET Keys
      PROVE  Count(c, lo, s + 1, t) = Count(v, lo, s, t) + (IF c[s] \in t THEN 1 ELSE 0)
  <2>1. Count(c, lo, s + 1, t) = Count(c, lo, s, t) + Count(c, s, s + 1, t)
    <3>1. s + 1 \in Int /\ s <= s + 1
      OBVIOUS
    <3> QED
      BY <1>1, <3>1, CountSplit
  <2>2. Count(c, lo, s, t) = Count(v, lo, s, t)
    BY <1>1, <1>7, CountSame
  <2>3. Count(c, s, s + 1, t) = IF c[s] \in t THEN 1 ELSE 0
    BY CountOne
  <2> QED
    BY <2>1, <2>2, <2>3
<1>10. \A p \in g .. e - 1 : b[p] \in Keys /\ b[p] \in Int
  <2>1. \A p \in Pos : b[p] \in Keys /\ b[p] \in Int
    BY <1>1
  <2> QED
    BY <1>1, <2>1
<1>11. ASSUME NEW x \in Keys
       PROVE  /\ c[s] \in UpTo(x) => Count(b, g, e, UpTo(x)) >= (m + 1) - g
              /\ c[s] \in DownTo(x) => Count(b, g, e, DownTo(x)) >= e - m
  <2>1. x \in Int
    BY <1>1
  <2>2. ASSUME c[s] \in UpTo(x) PROVE Count(b, g, e, UpTo(x)) >= (m + 1) - g
    <3>1. \A p \in g .. (m + 1) - 1 : b[p] \in UpTo(x)
      <4> SUFFICES ASSUME NEW p \in g .. (m + 1) - 1 PROVE b[p] \in UpTo(x)
        OBVIOUS
      <4>1. p \in g .. e - 1 /\ (p < m \/ p = m)
        BY <1>2
      <4>2. b[m] <= x /\ (p < m => b[p] <= b[m])
        BY <1>7, <2>2, <4>1 DEF UpTo
      <4> QED
        BY <1>10, <2>1, <4>1, <4>2 DEF UpTo
    <3>2. m + 1 \in Int /\ g <= g /\ g <= m + 1 /\ m + 1 <= e
      OBVIOUS
    <3> QED
      BY <3>1, <3>2, CountAtLeast
  <2>3. ASSUME c[s] \in DownTo(x) PROVE Count(b, g, e, DownTo(x)) >= e - m
    <3>1. \A p \in m .. e - 1 : b[p] \in DownTo(x)
      <4> SUFFICES ASSUME NEW p \in m .. e - 1 PROVE b[p] \in DownTo(x)
        OBVIOUS
      <4>1. p \in g .. e - 1 /\ (m < p \/ p = m)
        BY <1>2
      <4>2. b[m] >= x /\ (m < p => b[m] <= b[p])
        BY <1>7, <2>3, <4>1 DEF DownTo
      <4> QED
        BY <1>10, <2>1, <4>1, <4>2 DEF DownTo
    <3>2. m \in Int /\ g <= m /\ m <= e /\ e <= e
      OBVIOUS
    <3> QED
      BY <3>1, <3>2, CountAtLeast
  <2> QED
    BY <2>2, <2>3
<1> QED
  BY <1>5, <1>6, <1>8, <1>9, <1>11

LEMMA RGatherMedian == ASSUME RIInv, R!GatherMedian PROVE RIInv' /\ RAdvances
<1>1. /\ pc = "group" /\ i < hi /\ store' = store + 1 /\ i' = i + Group /\ pc' = "group"
      /\ UNCHANGED <<first, last, rank, lo, hi, nth, stack, lt, gt, key, ret>>
  BY DEF R!GatherMedian, R!args
<1>2. RTyped /\ RLevels /\ RContents(v)
  BY DEF RIInv
<1>3. /\ {first, last, rank, lo, hi, nth, N, i} \subseteq Int /\ 0 <= lo /\ lo < hi /\ hi <= N
      /\ Group \in Nat /\ Group > 1
  <2>1. i \in Int /\ Group \in Nat /\ Group > 1
    BY <1>2, RParameters DEF RTyped
  <2>2. /\ {first, last, rank, lo, hi, nth, N} \subseteq Int
        /\ 0 <= first /\ first <= lo /\ lo <= lo + nth /\ lo + nth < hi /\ hi <= last /\ last <= N
    BY <1>2, RunningNumbers
  <2> QED
    BY <2>1, <2>2
<1>4. /\ store \in Int /\ lo <= store /\ i = lo + Group * (store - lo) /\ hi - lo > 1
      /\ Gathered(v, lo, store, i)
  BY <1>1, <1>3 DEF RIInv, Gathering
<1>5. store <= i
  <2>1. (Group - 1) * (store - lo) >= 0
        /\ (Group - 1) * (store - lo) = Group * (store - lo) - (store - lo)
    BY <1>3, <1>4
  <2> QED
    BY <1>3, <1>4, <2>1
<1>6. PICK e \in Int, m \in Int, b \in [Pos -> Keys] :
          /\ e = (IF hi - i >= Group THEN i + Group ELSE hi)
          /\ m = i + (e - i) \div 2
          /\ R!InOrder(b, v, i, e) /\ v' = Swap(b, store, m)
  <2>1. R!GroupEnd(i) = IF hi - i >= Group THEN i + Group ELSE hi
    BY DEF R!GroupEnd
  <2>2. PICK e \in Int : e = R!GroupEnd(i)
    BY <1>3, <2>1
  <2>3. PICK b : R!InOrder(b, v, i, e) /\ v' = Swap(b, store, i + (e - i) \div 2)
    BY <2>2, ROperators DEF R!GatherMedian
  <2>4. PICK m \in Int : m = i + (e - i) \div 2
    BY <1>3
  <2>5. e = IF hi - i >= Group THEN i + Group ELSE hi
    BY <2>1, <2>2
  <2>6. b \in [Pos -> Keys]
    BY <2>3, ROperators DEF R!InOrder
  <2> QED
    BY <2>3, <2>4, <2>5, <2>6
<1>7. i < e /\ e <= hi /\ m \in i .. e - 1 /\ lo <= i
  <2>1. i < e /\ e <= hi
    BY <1>1, <1>3, <1>6
  <2>2. PICK n \in Nat : n = e - i /\ n > 0
    BY <1>3, <2>1
  <2>3. n % 2 \in 0 .. 2 - 1 /\ n \div 2 \in Nat /\ n = 2 * (n \div 2) + (n % 2)
    <3>1. 2 \in Nat \ {0}
      OBVIOUS
    <3> QED
      BY ONLY <3>1, n \in Nat, DivisionFacts
  <2>4. PICK k \in Nat : k = n \div 2 /\ k < n
    BY <2>2, <2>3
  <2>5. m = i + k
    BY <1>6, <2>2, <2>4
  <2> QED
    BY <1>3, <1>4, <1>5, <2>1, <2>2, <2>4, <2>5
<1>8. /\ b \in [Pos -> Keys] /\ Shuffled(Keys, v, b, i, e)
      /\ \A p, q \in i .. e - 1 : p < q => b[p] <= b[q]
  <2>1. b \in [Pos -> Keys] /\ R!Rearranged(b, v, i, e)
    BY <1>6, ROperators DEF R!InOrder
  <2>2. Shuffled(Keys, v, b, i, e)
    BY <2>1, RRearrangedIsShuffled
  <2> QED
    BY <1>6, <2>1, <2>2 DEF R!InOrder
<1>9. PICK c : c = v' /\ c = Swap(b, store, m)
  BY <1>6
<1>10. /\ Shuffled(Keys, v, c, lo, e) /\ c \in [Pos -> Keys]
       /\ \A t \in SUBSET Keys :
            /\ Count(c, lo, e, t) = Count(v, lo, i, t) + Count(b, i, e, t)
            /\ Count(c, lo, store + 1, t) = Count(v, lo, store, t) + (IF c[store] \in t THEN 1 ELSE 0)
       /\ \A x \in Keys : /\ c[store] \in UpTo(x) => Count(b, i, e, UpTo(x)) >= (m + 1) - i
                          /\ c[store] \in DownTo(x) => Count(b, i, e, DownTo(x)) >= e - m
  <2>1. /\ store \in Int /\ i \in Int /\ lo <= store /\ store <= i /\ i < e /\ e <= hi
        /\ RTyped /\ RLevels
    BY <1>2, <1>3, <1>4, <1>5, <1>7
  <2> QED
    BY ONLY <1>7, <1>8, <1>9, <2>1, e \in Int, GroupStep
<1>11. RLevels' /\ RContents(v)' /\ RAdvances
  <2>1. lo <= lo /\ lo <= e /\ e <= hi
    BY <1>3, <1>7
  <2> QED
    BY <1>1, <1>2, <1>3, <1>9, <1>10, <2>1, RStays
<1>12. RTyped'
  <2>1. v' \in [Pos -> Keys] /\ i' \in Int
    BY <1>1, <1>3, <1>9, <1>10
  <2> QED
    BY <1>1, <1>2, <2>1 DEF RTyped
<1> DEFINE M(t) == Count(v, lo, store, t)
           A(t) == Count(v, lo, i, t)
           G(t) == Count(b, i, e, t)
           E(t) == IF c[store] \in t THEN 1 ELSE 0
<1>13. \A t \in SUBSET Keys : M(t) \in Nat /\ A(t) \in Nat /\ G(t) \in Nat /\ E(t) \in {0, 1}
  BY <1>3, <1>4, CountFinite
<1>14. \A x : UpTo(x) \in SUBSET Keys /\ DownTo(x) \in SUBSET Keys
  BY DEF UpTo, DownTo
<1>15. \A x \in Keys : /\ A(UpTo(x)) >= M(UpTo(x)) * FewerThanHalf
                       /\ A(DownTo(x)) >= M(DownTo(x)) * OtherHalf
  BY <1>4 DEF Gathered
<1>16. \A x \in Keys : /\ E(UpTo(x)) = 1 => G(UpTo(x)) >= (m + 1) - i
                       /\ E(DownTo(x)) = 1 => G(DownTo(x)) >= e - m
  BY <1>10
<1>17. \A t \in SUBSET Keys : /\ Count(c, lo, e, t) = A(t) + G(t)
                              /\ Count(c, lo, store + 1, t) = M(t) + E(t)
  BY <1>10
<1> HIDE DEF M, A, G, E
<1>18. ASSUME hi - i >= Group PROVE Gathered(c, lo, store + 1, e)
  <2>1. e = i + Group /\ i' = e /\ i' <= hi
    BY <1>1, <1>3, <1>6, <1>18
  <2>2. (m + 1) - i = FewerThanHalf /\ e - m = OtherHalf
    <3>1. e - i = Group
      BY <1>3, <2>1
    <3>2. Group \div 2 \in Int
      BY <1>3
    <3> QED
      BY <1>3, <1>6, <2>1, <3>1, <3>2 DEF FewerThanHalf, OtherHalf
  <2>3. Gathered(c, lo, store + 1, e)
    <3> SUFFICES ASSUME NEW x \in Keys
                 PROVE  /\ Count(c, lo, e, UpTo(x)) >= Count(c, lo, store + 1, UpTo(x)) * FewerThanHalf
                        /\ Count(c, lo, e, DownTo(x)) >= Count(c, lo, store + 1, DownTo(x)) * OtherHalf
      BY DEF Gathered
    <3>1. A(UpTo(x)) + G(UpTo(x)) >= (M(UpTo(x)) + E(UpTo(x))) * FewerThanHalf
      <4>1. /\ M(UpTo(x)) \in Nat /\ A(UpTo(x)) \in Nat /\ G(UpTo(x)) \in Nat /\ E(UpTo(x)) \in {0, 1}
            /\ A(UpTo(x)) >= M(UpTo(x)) * FewerThanHalf
            /\ E(UpTo(x)) = 1 => G(UpTo(x)) >= FewerThanHalf
        BY <1>13, <1>14, <1>15, <1>16, <2>2
      <4>2. FewerThanHalf \in Nat /\ 1 <= FewerThanHalf
        BY Weights
      <4> QED
        BY ONLY <4>1, <4>2, OneMoreGroup
    <3>2. A(DownTo(x)) + G(DownTo(x)) >= (M(DownTo(x)) + E(DownTo(x))) * OtherHalf
      <4>1. /\ M(DownTo(x)) \in Nat /\ A(DownTo(x)) \in Nat /\ G(DownTo(x)) \in Nat
            /\ E(DownTo(x)) \in {0, 1}
            /\ A(DownTo(x)) >= M(DownTo(x)) * OtherHalf
            /\ E(DownTo(x)) = 1 => G(DownTo(x)) >= OtherHalf
        BY <1>13, <1>14, <1>15, <1>16, <2>2
      <4>2. OtherHalf \in Nat /\ 1 <= OtherHalf
        BY Weights
      <4> QED
        BY ONLY <4>1, <4>2, OneMoreGroup
    <3> QED
      BY <1>14, <1>17, <3>1, <3>2
  <2> QED
    BY <2>3
<1>19. ASSUME ~ (hi - i >= Group) PROVE Represented(c, lo, store + 1, hi)
  <2>1. e = hi /\ i' > hi
    BY <1>1, <1>3, <1>6, <1>19
  <2>2. (m + 1) - i >= 1 /\ e - m >= 1
    BY <1>3, <1>7
  <2>3. Represented(c, lo, store + 1, hi)
    <3> SUFFICES ASSUME NEW x \in Keys
                 PROVE  /\ StandsFor(c, lo, store + 1, hi, UpTo(x), FewerThanHalf)
                        /\ StandsFor(c, lo, store + 1, hi, DownTo(x), OtherHalf)
      BY DEF Represented
    <3>1. M(UpTo(x)) + E(UpTo(x)) > 0
              => A(UpTo(x)) + G(UpTo(x)) >= (M(UpTo(x)) + E(UpTo(x)) - 1) * FewerThanHalf + 1
      <4>1. /\ M(UpTo(x)) \in Nat /\ A(UpTo(x)) \in Nat /\ G(UpTo(x)) \in Nat /\ E(UpTo(x)) \in {0, 1}
            /\ A(UpTo(x)) >= M(UpTo(x)) * FewerThanHalf
        BY <1>13, <1>14, <1>15
      <4>2. E(UpTo(x)) = 1 => G(UpTo(x)) >= 1
        BY <1>3, <1>7, <1>16, <2>2, <4>1
      <4>3. FewerThanHalf \in Nat /\ 1 <= FewerThanHalf
        BY Weights
      <4> QED
        BY ONLY <4>1, <4>2, <4>3, OneMoreGroup
    <3>2. M(DownTo(x)) + E(DownTo(x)) > 0
              => A(DownTo(x)) + G(DownTo(x)) >= (M(DownTo(x)) + E(DownTo(x)) - 1) * OtherHalf + 1
      <4>1. /\ M(DownTo(x)) \in Nat /\ A(DownTo(x)) \in Nat /\ G(DownTo(x)) \in Nat
            /\ E(DownTo(x)) \in {0, 1}
            /\ A(DownTo(x)) >= M(DownTo(x)) * OtherHalf
        BY <1>13, <1>14, <1>15
      <4>2. E(DownTo(x)) = 1 => G(DownTo(x)) >= 1
        BY <1>3, <1>7, <1>16, <2>2, <4>1
      <4>3. OtherHalf \in Nat /\ 1 <= OtherHalf
        BY Weights
      <4> QED
        BY ONLY <4>1, <4>2, <4>3, OneMoreGroup
    <3>3. /\ Count(c, lo, hi, UpTo(x)) = A(UpTo(x)) + G(UpTo(x))
          /\ Count(c, lo, store + 1, UpTo(x)) = M(UpTo(x)) + E(UpTo(x))
          /\ Count(c, lo, hi, DownTo(x)) = A(DownTo(x)) + G(DownTo(x))
          /\ Count(c, lo, store + 1, DownTo(x)) = M(DownTo(x)) + E(DownTo(x))
      BY <1>14, <1>17, <2>1
    <3>4. /\ M(UpTo(x)) \in Nat /\ E(UpTo(x)) \in Int /\ M(DownTo(x)) \in Nat /\ E(DownTo(x)) \in Int
          /\ FewerThanHalf \in Nat /\ OtherHalf \in Nat
      BY <1>13, <1>14, Weights
    <3>5. StandsFor(c, lo, store + 1, hi, UpTo(x), FewerThanHalf)
      BY <3>1, <3>3, <3>4 DEF StandsFor
    <3>6. StandsFor(c, lo, store + 1, hi, DownTo(x), OtherHalf)
      BY <3>2, <3>3, <3>4 DEF StandsFor
    <3> QED
      BY <3>5, <3>6
  <2> QED
    BY <2>3
<1>20. Gathering'
  <2>1. IF i' <= hi' THEN Gathered(v', lo', store', i') ELSE Represented(v', lo', store', hi')
    <3>1. CASE hi - i >= Group
      <4>1. i' = e /\ i' <= hi
        BY <1>1, <1>3, <1>6, <3>1
      <4> QED
        BY <1>1, <1>9, <1>18, <3>1, <4>1
    <3>2. CASE ~ (hi - i >= Group)
      <4>1. ~ (i' <= hi)
        BY <1>1, <1>3, <3>2
      <4> QED
        BY <1>1, <1>9, <1>19, <3>2, <4>1
    <3> QED
      BY <3>1, <3>2
  <2>2. i' = lo + Group * ((store + 1) - lo) /\ i' < hi + Group /\ store + 1 \in Int /\ lo <= store + 1
    <3>1. Group * ((store + 1) - lo) = Group * (store - lo) + Group /\ Group * (store - lo) \in Int
      BY <1>3, <1>4
    <3> QED
      BY <1>1, <1>3, <1>4, <3>1
  <2> QED
    BY <1>1, <1>4, <2>1, <2>2 DEF Gathering
<1>21. R!ThreeWay' /\ PivotCentral' /\ R!RankSelected'
  BY <1>1 DEF R!ThreeWay, PivotCentral, R!RankSelected
<1> QED
  BY <1>11, <1>12, <1>20, <1>21 DEF RIInv
-----------------------------------------------------------------------------
LEMMA TimesMonotone ==
    ASSUME NEW x \in Int, NEW y \in Int, x <= y, NEW w \in Nat
    PROVE  x * w <= y * w
<1>1. (y - x) * w >= 0 /\ (y - x) * w = y * w - x * w
  OBVIOUS
<1> QED
  BY <1>1

\* The cell looked for separates the range its invocation was called on.
LEMMA GoalSeparates ==
    ASSUME RTyped, RLevels, NEW b, RContents(b),
           \A q \in lo .. lo + nth : b[q] <= b[lo + nth],
           \A q \in lo + nth .. hi - 1 : b[lo + nth] <= b[q]
    PROVE  /\ \A q \in LevelBase(Depth) .. lo + nth : b[q] <= b[lo + nth]
           /\ \A q \in lo + nth .. LevelTop(Depth) - 1 : b[lo + nth] <= b[q]
<1>1. /\ {first, last, rank, lo, hi, nth, N} \subseteq Int
      /\ LevelBase(Depth) \in Int /\ LevelTop(Depth) \in Int /\ Depth \in 1 .. Depth
      /\ LevelBase(Depth) <= lo /\ hi <= LevelTop(Depth)
      /\ lo <= lo + nth /\ lo + nth < hi
  BY RunningNumbers
<1>2. LevelLo(Depth) = lo /\ LevelHi(Depth) = hi
  BY DepthNumbers
<1>3. Cut(b, LevelBase(Depth), lo, LevelTop(Depth)) /\ Cut(b, LevelBase(Depth), hi, LevelTop(Depth))
  BY <1>1, <1>2 DEF RContents, LevelCut
<1>4. lo + nth \in lo .. LevelTop(Depth) - 1 /\ lo + nth \in LevelBase(Depth) .. hi - 1
  BY <1>1
<1>5. ASSUME NEW q \in LevelBase(Depth) .. lo + nth PROVE b[q] <= b[lo + nth]
  <2>1. CASE q \in LevelBase(Depth) .. lo - 1
    BY <1>3, <1>4, <2>1 DEF Cut
  <2>2. CASE q \in lo .. lo + nth
    BY <2>2
  <2> QED
    BY <1>1, <2>1, <2>2
<1>6. ASSUME NEW q \in lo + nth .. LevelTop(Depth) - 1 PROVE b[lo + nth] <= b[q]
  <2>1. CASE q \in hi .. LevelTop(Depth) - 1
    BY <1>3, <1>4, <2>1 DEF Cut
  <2>2. CASE q \in lo + nth .. hi - 1
    BY <2>2
  <2> QED
    BY <1>1, <2>1, <2>2
<1> QED
  BY <1>5, <1>6

\* An invocation that was not called by another one returns.
LEMMA RReturnsOutermost ==
    ASSUME RTyped, RLevels, RContents(v), NEW b, Shuffled(Keys, v, b, lo, hi), v' = b,
           UNCHANGED <<first, last, rank>>, stack = <<>>,
           \A q \in lo .. lo + nth : b[q] <= b[lo + nth],
           \A q \in lo + nth .. hi - 1 : b[lo + nth] <= b[q],
           R!ReturnCell(lo + nth)
    PROVE  RIInv' /\ RAdvances
<1>1. ret' = lo + nth /\ pc' = "done" /\ UNCHANGED <<lo, hi, nth, stack, i, store, lt, gt, key>>
  BY DEF R!ReturnCell, R!cursors
<1>2. /\ {first, last, rank, lo, hi, nth, N} \subseteq Int /\ first <= lo /\ hi <= last
      /\ lo <= lo + nth /\ lo + nth < hi /\ LevelGoal(Depth) = lo + nth
  BY RunningNumbers
<1>3. Depth = 1
  BY DepthNumbers
<1>4. v' \in [Pos -> Keys] /\ RLevels' /\ RContents(v)' /\ RAdvances
  <2>1. lo <= lo /\ lo <= hi /\ hi <= hi
    BY <1>2
  <2> QED
    BY <1>1, <1>2, <2>1, RStays
<1>5. RTyped'
  <2>1. ret' \in first .. last - 1 /\ ret' \in Int
    BY <1>1, <1>2
  <2> QED
    BY <1>1, <1>2, <1>4, <2>1 DEF RTyped
<1>6. R!RankSelected'
  <2>1. RContents(b)
    BY <1>2, ContentsKept
  <2>2. /\ \A q \in LevelBase(Depth) .. lo + nth : b[q] <= b[lo + nth]
        /\ \A q \in lo + nth .. LevelTop(Depth) - 1 : b[lo + nth] <= b[q]
    BY <2>1, GoalSeparates
  <2>3. LevelBase(Depth) = first /\ LevelTop(Depth) = last /\ LevelGoal(Depth) = first + rank
    BY <1>3 DEF LevelBase, LevelTop, LevelGoal
  <2>4. PICK g \in Int : g = lo + nth /\ g = ret' /\ g = first + rank
    BY <1>1, <1>2, <2>3
  <2>5. /\ \A p \in first .. g : b[p] <= b[g]
        /\ \A q \in g .. last - 1 : b[g] <= b[q]
    BY <2>2, <2>3, <2>4
  <2>6. g = first + rank /\ \A p \in first .. g : \A q \in g .. last - 1 : b[p] <= b[g] /\ b[g] <= b[q]
    BY <2>4, <2>5
  <2>7. ret' = g /\ v' = b /\ first' = first /\ last' = last /\ rank' = rank
    BY <2>4
  <2> QED
    BY <2>6, <2>7 DEF R!RankSelected
<1>7. Gathering' /\ R!ThreeWay' /\ PivotCentral'
  BY <1>1 DEF Gathering, R!ThreeWay, PivotCentral
<1> QED
  BY <1>4, <1>5, <1>6, <1>7 DEF RIInv

\* The median of the medians in [l, e), as many as there are below and above it each
\* standing for its weight.
LEMMA MedianCentral ==
    ASSUME NEW b \in [Pos -> Keys], NEW l \in Int, NEW h \in Int, NEW e \in Int, NEW g \in Int,
           0 <= l, l <= g, g < e, e <= h, h <= N,
           \A q \in l .. g : b[q] <= b[g],
           \A q \in g .. e - 1 : b[g] <= b[q],
           Represented(b, l, e, h)
    PROVE  /\ Count(b, l, h, UpTo(b[g])) >= (g - l) * FewerThanHalf + 1
           /\ Count(b, l, h, DownTo(b[g])) >= ((e - g) - 1) * OtherHalf + 1
<1>1. \A q \in l .. e - 1 : b[q] \in Keys
  <2> SUFFICES ASSUME NEW q \in l .. e - 1 PROVE b[q] \in Keys
    OBVIOUS
  <2>1. q \in Pos
    BY RParameters DEF Pos
  <2> QED
    BY <2>1
<1>2. b[g] \in Keys
  <2>1. g \in l .. e - 1
    OBVIOUS
  <2> QED
    BY <1>1, <2>1
<1>3. PICK m \in Nat, n \in Nat : m = Count(b, l, e, UpTo(b[g])) /\ n = Count(b, l, e, DownTo(b[g]))
  BY CountFinite
<1>4. m >= (g + 1) - l
  <2>1. \A q \in l .. (g + 1) - 1 : b[q] \in UpTo(b[g])
    <3> SUFFICES ASSUME NEW q \in l .. (g + 1) - 1 PROVE b[q] \in UpTo(b[g])
      OBVIOUS
    <3>1. q \in l .. g /\ q \in l .. e - 1
      OBVIOUS
    <3> QED
      BY <1>1, <3>1 DEF UpTo
  <2>2. g + 1 \in Int /\ l <= l /\ l <= g + 1 /\ g + 1 <= e
    OBVIOUS
  <2> QED
    BY <1>3, <2>1, <2>2, CountAtLeast
<1>5. n >= e - g
  <2>1. \A q \in g .. e - 1 : b[q] \in DownTo(b[g])
    <3> SUFFICES ASSUME NEW q \in g .. e - 1 PROVE b[q] \in DownTo(b[g])
      OBVIOUS
    <3>1. q \in l .. e - 1 /\ b[g] <= b[q]
      OBVIOUS
    <3>2. b[q] \in Int /\ b[g] \in Int
      BY <1>1, <1>2, <3>1, RParameters
    <3> QED
      BY <1>1, <3>1, <3>2 DEF DownTo
  <2>2. g <= e /\ e <= e
    OBVIOUS
  <2> QED
    BY <1>3, <2>1, <2>2, CountAtLeast
<1>6. PICK x \in Nat, z \in Nat : x = Count(b, l, h, UpTo(b[g])) /\ z = Count(b, l, h, DownTo(b[g]))
  BY CountFinite
<1>7. x >= (m - 1) * FewerThanHalf + 1 /\ z >= (n - 1) * OtherHalf + 1
  <2>1. m > 0 /\ n > 0
    BY <1>4, <1>5
  <2>2. StandsFor(b, l, e, h, UpTo(b[g]), FewerThanHalf) /\ StandsFor(b, l, e, h, DownTo(b[g]), OtherHalf)
    BY <1>2 DEF Represented
  <2> QED
    BY <1>3, <1>6, <2>1, <2>2 DEF StandsFor
<1>8. (g - l) * FewerThanHalf <= (m - 1) * FewerThanHalf
  <2>1. g - l <= m - 1 /\ m - 1 \in Int /\ g - l \in Int
    BY <1>4
  <2> QED
    BY <2>1, Weights, TimesMonotone
<1>9. ((e - g) - 1) * OtherHalf <= (n - 1) * OtherHalf
  <2>1. (e - g) - 1 <= n - 1 /\ n - 1 \in Int /\ (e - g) - 1 \in Int
    BY <1>5
  <2> QED
    BY <2>1, Weights, TimesMonotone
<1>10. /\ (g - l) * FewerThanHalf \in Int /\ (m - 1) * FewerThanHalf \in Int
       /\ ((e - g) - 1) * OtherHalf \in Int /\ (n - 1) * OtherHalf \in Int
  BY Weights
<1> QED
  BY <1>6, <1>7, <1>8, <1>9, <1>10

\* An inner invocation returns the median of the medians to the one that waits for it.
LEMMA RReturnsInner ==
    ASSUME RTyped, RLevels, RContents(v), NEW b, Shuffled(Keys, v, b, lo, hi), v' = b,
           UNCHANGED <<first, last, rank>>, stack # <<>>,
           \A q \in lo .. lo + nth : b[q] <= b[lo + nth],
           \A q \in lo + nth .. hi - 1 : b[lo + nth] <= b[q],
           R!ReturnCell(lo + nth)
    PROVE  RIInv' /\ RAdvances
<1> DEFINE k == Len(stack)
           g == lo + nth
<1>1. /\ stack' = SubSeq(stack, 1, k - 1)
      /\ lo' = stack[k][1] /\ hi' = stack[k][2] /\ nth' = stack[k][3]
      /\ lt' = stack[k][1] /\ i' = stack[k][1] /\ gt' = stack[k][2]
      /\ key' = v'[g] /\ pc' = "flag" /\ store' = store /\ ret' = ret
  BY DEF R!ReturnCell, R!cursors
<1>2. k \in Nat /\ k # 0 /\ Depth = k + 1 /\ k \in 1 .. k /\ k \in 1 .. Depth /\ Depth \in 1 .. Depth
  <2>1. k \in Nat /\ Depth = k + 1 /\ (stack = <<>> <=> Depth = 1) /\ Depth \in 1 .. Depth
    BY DepthNumbers
  <2> QED
    BY <2>1
<1>3. /\ stack' \in Seq(Int \X Int \X Int) /\ Len(stack') = k - 1
      /\ \A d \in 1 .. k - 1 : stack'[d] = stack[d]
  <2>1. stack \in Seq(Int \X Int \X Int)
    BY DEF RTyped
  <2>2. 1 \in Int /\ k - 1 \in Int /\ \A d \in 1 .. k - 1 : stack[d] \in Int \X Int \X Int
    BY <1>2, <2>1, ElementOfSeq
  <2>3. /\ SubSeq(stack, 1, k - 1) \in Seq(Int \X Int \X Int)
        /\ Len(SubSeq(stack, 1, k - 1)) = IF 1 <= k - 1 THEN (k - 1) - 1 + 1 ELSE 0
        /\ \A d \in 1 .. (k - 1) - 1 + 1 : SubSeq(stack, 1, k - 1)[d] = stack[1 + d - 1]
    BY <2>2, SubSeqProperties
  <2>4. Len(stack') = k - 1
    <3>1. PICK n \in Nat : n = k /\ n # 0
      BY <1>2
    <3>2. (IF 1 <= n - 1 THEN (n - 1) - 1 + 1 ELSE 0) = n - 1
      BY <3>1
    <3> HIDE DEF k
    <3>3. Len(stack') = IF 1 <= k - 1 THEN (k - 1) - 1 + 1 ELSE 0
      BY <1>1, <2>3
    <3> QED
      BY <3>1, <3>2, <3>3
  <2>5. \A d \in 1 .. k - 1 : d \in 1 .. (k - 1) - 1 + 1 /\ 1 + d - 1 = d
    BY <1>2
  <2> QED
    BY <1>1, <2>3, <2>4, <2>5
<1>4. Depth' = k
  BY <1>2, <1>3 DEF Depth
<1>5. ASSUME NEW d \in 1 .. k
      PROVE  LevelLo(d)' = LevelLo(d) /\ LevelHi(d)' = LevelHi(d) /\ LevelRank(d)' = LevelRank(d)
  <2>1. d # Depth
    BY <1>2
  <2>2. CASE d = k
    BY <1>1, <1>4, <2>1, <2>2 DEF LevelLo, LevelHi, LevelRank
  <2>3. CASE d # k
    <3>1. d \in 1 .. k - 1
      BY <1>2, <2>3
    <3> QED
      BY <1>3, <1>4, <2>1, <2>3, <3>1 DEF LevelLo, LevelHi, LevelRank
  <2> QED
    BY <2>2, <2>3
<1>6. \A d \in 1 .. k + 1 : /\ LevelBase(d)' = LevelBase(d)
                            /\ LevelTop(d)' = LevelTop(d)
                            /\ LevelGoal(d)' = LevelGoal(d)
  BY <1>2, <1>5, LevelsFrom
<1> HIDE DEF k, g
<1>7. \A d \in 1 .. k : d \in 1 .. Depth /\ d \in 1 .. k + 1
  BY <1>2
<1>8. RLevels'
  <2>1. ASSUME NEW d \in 1 .. Depth' PROVE LevelPlaced(d)'
    <3>1. LevelPlaced(d) /\ d \in 1 .. k
      BY <1>4, <1>7 DEF RLevels
    <3> QED
      BY <1>5, <1>6, <1>7, <3>1 DEF LevelPlaced
  <2>2. ASSUME NEW d \in 1 .. Depth', NEW e \in 1 .. Depth', d < e
        PROVE  /\ LevelLo(d)' <= LevelLo(e)' /\ LevelHi(e)' <= LevelHi(d)'
               /\ LevelHi(e)' - LevelLo(e)' < LevelHi(d)' - LevelLo(d)'
    <3>1. d \in 1 .. k /\ e \in 1 .. k /\ d \in 1 .. Depth /\ e \in 1 .. Depth
      BY <1>4, <1>7
    <3> QED
      BY <1>5, <2>2, <3>1 DEF RLevels
  <2> QED
    BY <2>1, <2>2 DEF RLevels
<1>9. RContents(b) /\ b \in [Pos -> Keys]
  <2>1. {lo, hi} \subseteq Int /\ lo <= hi
    BY RunningNumbers
  <2> QED
    BY <2>1, ContentsKept DEF Shuffled
<1>10. RContents(v)'
  <2>1. ASSUME NEW d \in 1 .. Depth' PROVE LevelCut(v, d)'
    <3>1. LevelCut(b, d) /\ d \in 1 .. k
      BY <1>4, <1>7, <1>9 DEF RContents
    <3> QED
      BY <1>5, <1>6, <1>7, <3>1 DEF LevelCut
  <2>2. ASSUME NEW d \in 1 .. Len(stack') PROVE LevelCounted(v, d)'
    <3>1. d \in 1 .. k
      BY <1>2, <1>3
    <3>2. LevelCounted(b, d)
      BY <1>9, <3>1 DEF RContents, k
    <3> QED
      BY <1>5, <3>1, <3>2 DEF LevelCounted
  <2> QED
    BY <2>1, <2>2 DEF RContents
<1>11. /\ LevelLo(k) \in Int /\ LevelHi(k) \in Int /\ LevelRank(k) \in Int
       /\ lo' = LevelLo(k) /\ hi' = LevelHi(k) /\ nth' = LevelRank(k)
       /\ LevelLo(k) < LevelHi(k) /\ 0 <= LevelLo(k) /\ LevelHi(k) <= N
  <2>1. /\ {LevelLo(k), LevelHi(k), LevelRank(k), LevelBase(k), LevelTop(k), LevelGoal(k), N, first, last}
               \subseteq Int
        /\ 0 <= first /\ first <= LevelBase(k) /\ LevelBase(k) <= LevelLo(k)
        /\ LevelLo(k) <= LevelGoal(k) /\ LevelGoal(k) < LevelHi(k)
        /\ LevelHi(k) <= LevelTop(k) /\ LevelTop(k) <= last /\ last <= N
    BY <1>2, LevelNumbers
  <2>2. lo' = LevelLo(k) /\ hi' = LevelHi(k) /\ nth' = LevelRank(k)
    <3>1. k # Depth
      BY <1>2
    <3> QED
      BY <1>1, <3>1 DEF LevelLo, LevelHi, LevelRank
  <2> QED
    BY <2>1, <2>2
<1>12. /\ g \in Int /\ b[g] \in Keys /\ key' = b[g] /\ LevelGoal(Depth) = g
       /\ LevelBase(Depth) <= g /\ g < LevelTop(Depth)
  <2>1. /\ {first, last, rank, lo, hi, nth, N} \subseteq Int /\ 0 <= first /\ first <= lo
        /\ lo <= lo + nth /\ lo + nth < hi /\ hi <= last /\ last <= N
        /\ LevelGoal(Depth) = lo + nth /\ \A p \in 0 .. N - 1 : p \in Pos
        /\ LevelBase(Depth) <= lo /\ hi <= LevelTop(Depth)
        /\ LevelBase(Depth) \in Int /\ LevelTop(Depth) \in Int
    BY RunningNumbers
  <2>2. g \in Pos /\ g \in Int
    BY <2>1 DEF g
  <2>3. LevelBase(Depth) <= g /\ g < LevelTop(Depth)
    BY <2>1 DEF g
  <2> QED
    BY <1>1, <1>9, <2>1, <2>2, <2>3 DEF g
<1>13. RTyped'
  <2>1. v' \in [Pos -> Keys] /\ key' \in Keys
    BY <1>9, <1>12
  <2>2. {lo', hi', nth', i', lt', gt'} \subseteq Int
    BY <1>1, <1>11
  <2>3. stack' \in Seq(Int \X Int \X Int) /\ pc' = "flag" /\ ret' = ret
        /\ UNCHANGED <<first, last, rank>>
    BY <1>1, <1>3
  <2>4. {first', last', rank', ret'} \subseteq Int /\ 0 <= first' /\ first' < last' /\ last' <= N
        /\ ret' \in first' .. last' - 1
    BY <2>3 DEF RTyped
  <2> QED
    BY <2>1, <2>2, <2>3, <2>4 DEF RTyped
<1>14. R!ThreeWay'
  <2>1. PICK x \in Int, y \in Int : x = LevelLo(k) /\ y = LevelHi(k) /\ x < y
    BY <1>11
  <2>2. lo' = x /\ hi' = y /\ lt' = x /\ i' = x /\ gt' = y
    BY <1>1, <1>11, <2>1
  <2>3. x .. x - 1 = {} /\ y .. y - 1 = {} /\ x <= x /\ x <= y /\ y <= y
    BY <2>1
  <2> QED
    BY <2>2, <2>3 DEF R!ThreeWay
<1>15. /\ \A q \in LevelBase(Depth) .. g : b[q] <= b[g]
       /\ \A q \in g .. LevelTop(Depth) - 1 : b[g] <= b[q]
  BY <1>9, GoalSeparates DEF g
<1>16. PivotCentral'
  <2>1. PICK l \in Int, h \in Int : l = LevelLo(k) /\ h = LevelHi(k) /\ l < h /\ 0 <= l /\ h <= N
    BY <1>11
  <2>2. PICK c \in Nat, y \in Nat : c = Groups(h - l) /\ y = c \div 2 /\ 1 <= c /\ y < c /\ c <= h - l
    <3>1. h - l \in Int /\ 1 <= h - l
      BY <2>1
    <3>2. Groups(h - l) \in Nat /\ Groups(h - l) \div 2 \in Nat /\ 1 <= Groups(h - l)
          /\ Groups(h - l) \div 2 < Groups(h - l) /\ Groups(h - l) <= h - l
      BY <3>1, GroupNumbers
    <3> QED
      BY <3>2
  <2>3. LevelBase(Depth) = l /\ LevelTop(Depth) = l + c /\ g = l + y
    <3>1. Depth # 1 /\ Depth - 1 = k
      BY <1>2
    <3> QED
      BY <1>12, <2>1, <2>2, <3>1 DEF LevelBase, LevelTop, LevelGoal
  <2>4. PICK e \in Int : e = l + c /\ l <= g /\ g < e /\ e <= h /\ g - l = y /\ (e - g) - 1 = c - y - 1
    <3>1. g = l + y /\ g \in Int
      BY <1>12, <2>3
    <3>2. PICK e \in Int : e = l + c
      BY <2>1, <2>2
    <3>3. l \in Int /\ h \in Int /\ c \in Int /\ y \in Int /\ 0 <= y /\ y < c /\ c <= h - l
      BY <2>1, <2>2
    <3> HIDE DEF g
    <3> QED
      BY ONLY <3>1, <3>2, <3>3
  <2>5. (\A q \in l .. g : b[q] <= b[g]) /\ (\A q \in g .. e - 1 : b[g] <= b[q])
    BY <1>15, <2>3, <2>4
  <2>6. Represented(b, l, e, h)
    <3>1. LevelCounted(b, k)
      BY <1>2, <1>9 DEF RContents, k
    <3> QED
      BY <2>1, <2>2, <2>4, <3>1 DEF LevelCounted
  <2>7. /\ Count(b, l, h, UpTo(b[g])) >= (g - l) * FewerThanHalf + 1
        /\ Count(b, l, h, DownTo(b[g])) >= ((e - g) - 1) * OtherHalf + 1
    <3>1. 0 <= l /\ h <= N /\ g \in Int /\ b \in [Pos -> Keys]
      BY <1>9, <1>12, <2>1
    <3> QED
      BY <2>4, <2>5, <2>6, <3>1, MedianCentral
  <2>8. lo' = l /\ hi' = h /\ v' = b /\ key' = b[g]
    BY <1>11, <1>12, <2>1
  <2> QED
    BY <2>2, <2>4, <2>7, <2>8 DEF PivotCentral
<1>17. Gathering' /\ R!RankSelected'
  BY <1>1 DEF Gathering, R!RankSelected
<1>18. RAdvances
  <2>1. /\ {first, last, lo, hi, N} \subseteq Int /\ 0 <= first /\ first <= lo /\ lo <= hi
        /\ hi <= last /\ last <= N
    BY RunningNumbers
  <2>2. hi \in 0 .. N /\ first \in 0 .. lo /\ last \in hi .. N /\ lo \in Int
    BY ONLY <2>1
  <2>4. v \in [Pos -> Keys]
    BY DEF RTyped
  <2>3. Shuffled(Keys, v, b, first, last)
    BY <2>2, <2>4, ShuffledWider
  <2> QED
    BY <2>3 DEF RAdvances
<1> QED
  BY <1>8, <1>10, <1>13, <1>14, <1>16, <1>17, <1>18 DEF RIInv

LEMMA RReturns ==
    ASSUME RTyped, RLevels, RContents(v), NEW b, Shuffled(Keys, v, b, lo, hi), v' = b,
           UNCHANGED <<first, last, rank>>,
           \A q \in lo .. lo + nth : b[q] <= b[lo + nth],
           \A q \in lo + nth .. hi - 1 : b[lo + nth] <= b[q],
           R!ReturnCell(lo + nth)
    PROVE  RIInv' /\ RAdvances
<1>1. CASE stack = <<>>
  BY <1>1, RReturnsOutermost
<1>2. CASE stack # <<>>
  BY <1>2, RReturnsInner
<1> QED
  BY <1>1, <1>2

LEMMA RSelectOnly == ASSUME RIInv, R!SelectOnly PROVE RIInv' /\ RAdvances
<1>1. hi - lo <= 1 /\ v' = v /\ R!ReturnCell(lo) /\ UNCHANGED <<first, last, rank>>
  BY DEF R!SelectOnly, R!args
<1>2. RTyped /\ RLevels /\ RContents(v)
  BY DEF RIInv
<1>3. {lo, hi, nth} \subseteq Int /\ lo + nth = lo /\ hi - 1 = lo /\ lo \in Pos
  BY <1>1, <1>2, RunningNumbers
<1>4. v[lo] \in Int /\ v \in [Pos -> Keys]
  BY <1>2, <1>3, RParameters DEF RTyped
<1>5. /\ \A q \in lo .. lo + nth : v[q] <= v[lo + nth]
      /\ \A q \in lo + nth .. hi - 1 : v[lo + nth] <= v[q]
  <2>1. lo .. lo = {lo} /\ v[lo] <= v[lo]
    BY <1>3, <1>4
  <2> QED
    BY <1>3, <2>1
<1>6. Shuffled(Keys, v, v, lo, hi) /\ R!ReturnCell(lo + nth)
  BY <1>1, <1>3, <1>4, NotShuffled
<1> QED
  BY <1>1, <1>2, <1>5, <1>6, RReturns

LEMMA RSortAndSelect == ASSUME RIInv, R!SortAndSelect PROVE RIInv' /\ RAdvances
<1>1. PICK b : /\ R!InOrder(b, v, lo, hi) /\ v' = b /\ R!ReturnCell(lo + nth)
               /\ UNCHANGED <<first, last, rank>>
  BY DEF R!SortAndSelect, R!args
<1>2. RTyped /\ RLevels /\ RContents(v)
  BY DEF RIInv
<1>3. /\ b \in [Pos -> Keys] /\ Shuffled(Keys, v, b, lo, hi)
      /\ \A p, q \in lo .. hi - 1 : p < q => b[p] <= b[q]
  <2>1. b \in [Pos -> Keys] /\ R!Rearranged(b, v, lo, hi)
    BY <1>1, ROperators DEF R!InOrder
  <2> QED
    BY <1>1, <2>1, RRearrangedIsShuffled DEF R!InOrder
<1>4. PICK g \in Int : g = lo + nth /\ g \in lo .. hi - 1 /\ g \in Pos /\ {lo, hi} \subseteq Int
  BY <1>2, RunningNumbers
<1>5. b[g] \in Int
  BY <1>3, <1>4, RParameters
<1>6. ASSUME NEW q \in lo .. g PROVE b[q] <= b[g]
  <2>1. q \in lo .. hi - 1 /\ (q = g \/ q < g)
    BY <1>4
  <2> QED
    BY <1>3, <1>4, <1>5, <2>1
<1>7. ASSUME NEW q \in g .. hi - 1 PROVE b[g] <= b[q]
  <2>1. q \in lo .. hi - 1 /\ (q = g \/ g < q)
    BY <1>4
  <2> QED
    BY <1>3, <1>4, <1>5, <2>1
<1> QED
  BY <1>1, <1>2, <1>3, <1>4, <1>6, <1>7, RReturns

LEMMA RSelectEqual == ASSUME RIInv, R!SelectEqual PROVE RIInv' /\ RAdvances
<1>1. /\ pc = "flag" /\ i >= gt /\ nth \in lt - lo .. (gt - lo) - 1 /\ v' = v
      /\ R!ReturnCell(lo + nth) /\ UNCHANGED <<first, last, rank>>
  BY DEF R!SelectEqual, R!args
<1>2. RTyped /\ RLevels /\ RContents(v) /\ R!ThreeWay
  BY DEF RIInv
<1>3. /\ {lo, hi, nth, i, lt, gt, N} \subseteq Int /\ 0 <= lo /\ hi <= N
      /\ lo <= lt /\ lt <= i /\ i <= gt /\ gt <= hi
      /\ \A p \in lo .. lt - 1 : v[p] < key
      /\ \A p \in lt .. i - 1 : v[p] = key
      /\ \A p \in gt .. hi - 1 : v[p] > key
  <2>1. {first, last, lo, hi, nth, N} \subseteq Int /\ 0 <= first /\ first <= lo /\ hi <= last /\ last <= N
    BY <1>2, RunningNumbers
  <2> QED
    BY <1>1, <1>2, <2>1 DEF R!ThreeWay, RTyped
<1>4. PICK g \in Int : g = lo + nth /\ g \in lt .. i - 1
  BY <1>1, <1>3
<1>5. key \in Int /\ v[g] = key /\ \A p \in lo .. hi - 1 : v[p] \in Int
  <2>1. \A p \in lo .. hi - 1 : p \in Pos
    BY <1>3 DEF Pos
  <2> QED
    BY <1>2, <1>3, <1>4, <2>1, RParameters DEF RTyped
<1>6. ASSUME NEW q \in lo .. g PROVE v[q] <= v[g]
  <2>1. q \in lo .. hi - 1 /\ (q \in lo .. lt - 1 \/ q \in lt .. i - 1)
    BY <1>3, <1>4
  <2>2. v[q] \in Int /\ (v[q] < key \/ v[q] = key)
    BY <1>3, <1>5, <2>1
  <2> QED
    BY <1>5, <2>2
<1>7. ASSUME NEW q \in g .. hi - 1 PROVE v[g] <= v[q]
  <2>1. q \in lo .. hi - 1 /\ (q \in lt .. i - 1 \/ q \in gt .. hi - 1)
    BY <1>1, <1>3, <1>4
  <2>2. v[q] \in Int /\ (v[q] = key \/ v[q] > key)
    BY <1>3, <1>5, <2>1
  <2> QED
    BY <1>5, <2>2
<1>8. Shuffled(Keys, v, v, lo, hi)
  BY <1>2, NotShuffled DEF RTyped
<1> QED
  BY <1>1, <1>2, <1>4, <1>6, <1>7, <1>8, RReturns
-----------------------------------------------------------------------------
\* The range is cut at cells l and h, and what is looked for is between them.
LEMMA RNarrows ==
    ASSUME RTyped, RLevels, RContents(v), NEW l \in Int, NEW h \in Int,
           lo <= l, l <= lo + nth, lo + nth < h, h <= hi,
           Cut(v, LevelBase(Depth), l, LevelTop(Depth)), Cut(v, LevelBase(Depth), h, LevelTop(Depth)),
           lo' = l, hi' = h, nth' = (lo + nth) - l, UNCHANGED <<v, first, last, rank, stack>>
    PROVE  RLevels' /\ RContents(v)' /\ RAdvances
<1>1. /\ {first, last, lo, hi, nth, N} \subseteq Int /\ 0 <= first /\ last <= N /\ first <= last
      /\ Depth \in 1 .. Depth /\ LevelBase(Depth) \in Int /\ LevelTop(Depth) \in Int
      /\ first <= LevelBase(Depth) /\ LevelBase(Depth) <= lo /\ hi <= LevelTop(Depth)
      /\ LevelTop(Depth) <= last /\ LevelGoal(Depth) = lo + nth
  BY RunningNumbers
<1>2. PICK k \in Nat : k = Len(stack) /\ Depth = k + 1 /\ Depth' = k + 1 /\ Len(stack') = k
  BY DepthNumbers DEF Depth
<1>3. ASSUME NEW d \in 1 .. k
      PROVE  LevelLo(d)' = LevelLo(d) /\ LevelHi(d)' = LevelHi(d) /\ LevelRank(d)' = LevelRank(d)
  <2>1. d # Depth /\ d # Depth'
    BY <1>2
  <2> QED
    BY <2>1 DEF LevelLo, LevelHi, LevelRank
<1>4. \A d \in 1 .. k + 1 : /\ LevelBase(d)' = LevelBase(d)
                            /\ LevelTop(d)' = LevelTop(d)
                            /\ LevelGoal(d)' = LevelGoal(d)
  BY <1>3, LevelsFrom
<1>5. /\ LevelLo(Depth) = lo /\ LevelHi(Depth) = hi
      /\ LevelLo(Depth)' = l /\ LevelHi(Depth)' = h /\ LevelRank(Depth)' = (lo + nth) - l
  BY <1>2, DepthNumbers DEF LevelLo, LevelHi, LevelRank
<1>6. ASSUME NEW d \in 1 .. k + 1 PROVE d \in 1 .. Depth /\ (d = k + 1 \/ d \in 1 .. k)
  BY <1>2
<1>7. RLevels'
  <2>1. ASSUME NEW d \in 1 .. k + 1 PROVE LevelPlaced(d)'
    <3>1. CASE d \in 1 .. k
      <4>1. LevelPlaced(d)
        BY <1>6 DEF RLevels
      <4> QED
        BY <1>3, <1>4, <3>1, <4>1 DEF LevelPlaced
    <3>2. CASE d = k + 1
      <4>1. /\ LevelLo(d)' = l /\ LevelHi(d)' = h /\ LevelRank(d)' = (lo + nth) - l
            /\ LevelBase(d)' = LevelBase(Depth) /\ LevelTop(d)' = LevelTop(Depth)
            /\ LevelGoal(d)' = lo + nth
        <5>1. LevelLo(k + 1)' = l /\ LevelHi(k + 1)' = h /\ LevelRank(k + 1)' = (lo + nth) - l
          BY <1>2 DEF LevelLo, LevelHi, LevelRank
        <5> QED
          BY <1>1, <1>2, <1>4, <3>2, <5>1
      <4>2. PICK x \in Int, y \in Int, g \in Int :
                /\ x = LevelBase(Depth) /\ y = LevelTop(Depth) /\ g = lo + nth
                /\ first <= x /\ x <= l /\ h <= y /\ y <= last /\ l <= g /\ g < h
        BY <1>1
      <4>3. l + (g - l) = g /\ 0 <= g - l /\ g - l < h - l /\ g - l \in Int
        BY <4>2
      <4> QED
        BY <4>1, <4>2, <4>3 DEF LevelPlaced
    <3> QED
      BY <1>6, <3>1, <3>2
  <2>2. ASSUME NEW d \in 1 .. k + 1, NEW e \in 1 .. k + 1, d < e
        PROVE  /\ LevelLo(d)' <= LevelLo(e)' /\ LevelHi(e)' <= LevelHi(d)'
               /\ LevelHi(e)' - LevelLo(e)' < LevelHi(d)' - LevelLo(d)'
    <3>1. d \in 1 .. k
      BY <2>2
    <3>2. PICK x \in Int, y \in Int : x = LevelLo(d) /\ y = LevelHi(d)
      BY <1>6, LevelNumbers
    <3>3. LevelLo(d)' = x /\ LevelHi(d)' = y
      BY <1>3, <3>1, <3>2
    <3>4. CASE e \in 1 .. k
      <4>1. x <= LevelLo(e) /\ LevelHi(e) <= y /\ LevelHi(e) - LevelLo(e) < y - x
        BY <1>6, <2>2, <3>2 DEF RLevels
      <4> QED
        BY <1>3, <3>3, <3>4, <4>1
    <3>5. CASE e = k + 1
      <4>1. d < Depth
        BY <1>2, <3>1
      <4>2. x <= lo /\ hi <= y /\ hi - lo < y - x
        BY <1>1, <1>5, <1>6, <3>2, <4>1 DEF RLevels
      <4>3. x <= l /\ h <= y /\ h - l < y - x
        BY <1>1, <4>2
      <4>4. LevelLo(e)' = l /\ LevelHi(e)' = h
        BY <1>2, <3>5 DEF LevelLo, LevelHi
      <4> QED
        BY <3>3, <4>3, <4>4
    <3> QED
      BY <1>6, <3>4, <3>5
  <2> QED
    BY <1>2, <2>1, <2>2 DEF RLevels
<1>8. RContents(v)'
  <2>1. ASSUME NEW d \in 1 .. k + 1 PROVE LevelCut(v, d)'
    <3>1. CASE d \in 1 .. k
      <4>1. LevelCut(v, d)
        BY <1>6 DEF RContents
      <4> QED
        BY <1>3, <1>4, <3>1, <4>1 DEF LevelCut
    <3>2. CASE d = k + 1
      <4>1. LevelLo(d)' = l /\ LevelHi(d)' = h
        BY <1>2, <3>2 DEF LevelLo, LevelHi
      <4>2. LevelBase(d)' = LevelBase(Depth) /\ LevelTop(d)' = LevelTop(Depth)
        BY <1>2, <1>4, <3>2
      <4> QED
        BY <4>1, <4>2 DEF LevelCut
    <3> QED
      BY <1>6, <3>1, <3>2
  <2>2. ASSUME NEW d \in 1 .. k PROVE LevelCounted(v, d)'
    <3>1. LevelCounted(v, d)
      BY <1>2 DEF RContents
    <3> QED
      BY <1>3, <3>1 DEF LevelCounted
  <2> QED
    BY <1>2, <2>1, <2>2 DEF RContents
<1>9. RAdvances
  BY NotShuffled DEF RAdvances, RTyped
<1> QED
  BY <1>7, <1>8, <1>9

\* Before the partition is done, and after.
LEMMA FlagNumbers ==
    ASSUME RIInv, pc = "flag"
    PROVE  /\ {lo, hi, nth, i, lt, gt, N} \subseteq Int /\ 0 <= lo /\ hi <= N
           /\ lo <= lt /\ lt <= i /\ i <= gt /\ gt <= hi
           /\ \A p \in lo .. lt - 1 : v[p] < key
           /\ \A p \in lt .. i - 1 : v[p] = key
           /\ \A p \in gt .. hi - 1 : v[p] > key
           /\ key \in Int /\ key \in Keys /\ v \in [Pos -> Keys]
           /\ \A p \in lo .. hi - 1 : v[p] \in Int /\ p \in Pos
<1>1. RTyped /\ RLevels /\ R!ThreeWay
  BY DEF RIInv
<1>2. /\ {first, last, lo, hi, nth, N} \subseteq Int /\ 0 <= first /\ first <= lo /\ hi <= last /\ last <= N
  BY <1>1, RunningNumbers
<1>3. {i, lt, gt} \subseteq Int /\ key \in Int /\ key \in Keys /\ v \in [Pos -> Keys]
  BY <1>1, RParameters DEF RTyped
<1>4. \A p \in lo .. hi - 1 : v[p] \in Int /\ p \in Pos
  <2> SUFFICES ASSUME NEW p \in lo .. hi - 1 PROVE v[p] \in Int /\ p \in Pos
    OBVIOUS
  <2>1. p \in Pos
    BY <1>2 DEF Pos
  <2> QED
    BY <1>3, <2>1, RParameters
<1> QED
  BY <1>1, <1>2, <1>3, <1>4 DEF R!ThreeWay

\* The partition of the range, with what is cut off it already, cuts what the
\* invocation was called on.
LEMMA PartitionCuts ==
    ASSUME RIInv, pc = "flag", i >= gt, NEW m \in Int, m = lt \/ m = gt
    PROVE  Cut(v, LevelBase(Depth), m, LevelTop(Depth))
<1>1. RTyped /\ RLevels /\ RContents(v)
  BY DEF RIInv
<1>2. /\ {lo, hi, i, lt, gt} \subseteq Int
      /\ lo <= lt /\ lt <= i /\ i <= gt /\ gt <= hi
      /\ \A p \in lo .. lt - 1 : v[p] < key
      /\ \A p \in lt .. i - 1 : v[p] = key
      /\ \A p \in gt .. hi - 1 : v[p] > key
      /\ key \in Int /\ \A p \in lo .. hi - 1 : v[p] \in Int
  BY FlagNumbers
<1>3. PICK x \in Int, y \in Int : x = LevelBase(Depth) /\ y = LevelTop(Depth) /\ x <= lo /\ hi <= y
  BY <1>1, RunningNumbers
<1>4. Cut(v, x, lo, y) /\ Cut(v, x, hi, y)
  <2>1. LevelLo(Depth) = lo /\ LevelHi(Depth) = hi /\ Depth \in 1 .. Depth
    BY <1>1, DepthNumbers
  <2> QED
    BY <1>1, <1>3, <2>1 DEF RContents, LevelCut
<1>5. m \in lo .. hi /\ i = gt
  BY <1>2
<1>6. ASSUME NEW p \in x .. m - 1, NEW q \in m .. y - 1 PROVE v[p] <= v[q]
  <2>1. CASE p < lo
    <3>1. p \in x .. lo - 1 /\ q \in lo .. y - 1
      BY <1>2, <1>5, <2>1
    <3> QED
      BY <1>4, <3>1 DEF Cut
  <2>2. CASE q >= hi
    <3>1. p \in x .. hi - 1 /\ q \in hi .. y - 1
      BY <1>2, <1>5, <2>2
    <3> QED
      BY <1>4, <3>1 DEF Cut
  <2>3. CASE ~ (p < lo) /\ ~ (q >= hi)
    <3>1. p \in lo .. m - 1 /\ q \in m .. hi - 1 /\ p \in lo .. hi - 1 /\ q \in lo .. hi - 1
      BY <1>2, <1>3, <1>5, <2>3
    <3>2. v[p] \in Int /\ v[q] \in Int /\ key \in Int
      BY <1>2, <3>1
    <3>3. CASE m = lt
      <4>1. v[p] < key
        BY <1>2, <3>1, <3>3
      <4>2. q \in lt .. i - 1 \/ q \in gt .. hi - 1
        BY <1>2, <1>5, <3>1, <3>3
      <4>3. v[q] = key \/ v[q] > key
        BY <1>2, <4>2
      <4> QED
        BY <3>2, <4>1, <4>3
    <3>4. CASE m = gt
      <4>1. v[q] > key
        BY <1>2, <3>1, <3>4
      <4>2. p \in lt .. i - 1 \/ p \in lo .. lt - 1
        BY <1>2, <1>5, <3>1, <3>4
      <4>3. v[p] = key \/ v[p] < key
        BY <1>2, <4>2
      <4> QED
        BY <3>2, <4>1, <4>3
    <3> QED
      BY <3>3, <3>4
  <2> QED
    BY <2>1, <2>2, <2>3
<1> QED
  BY <1>3, <1>6 DEF Cut

LEMMA RKeepLess == ASSUME RIInv, R!KeepLess PROVE RIInv' /\ RAdvances
<1>1. /\ pc = "flag" /\ i >= gt /\ nth < lt - lo /\ hi' = lt /\ pc' = "select"
      /\ UNCHANGED <<v, first, last, rank, lo, nth, stack, i, store, lt, gt, key, ret>>
  BY DEF R!KeepLess, R!args, R!cursors
<1>2. RTyped /\ RLevels /\ RContents(v)
  BY DEF RIInv
<1>3. /\ {lo, hi, nth, lt, gt} \subseteq Int /\ lo <= lt /\ lt <= hi /\ 0 <= nth
  BY <1>1, <1>2, FlagNumbers, RunningNumbers
<1>4. RLevels' /\ RContents(v)' /\ RAdvances
  <2>1. lo <= lo /\ lo <= lo + nth /\ lo + nth < lt /\ lt <= hi /\ (lo + nth) - lo = nth
    BY <1>1, <1>3
  <2>2. Cut(v, LevelBase(Depth), lt, LevelTop(Depth))
    BY <1>1, <1>3, PartitionCuts
  <2>3. Cut(v, LevelBase(Depth), lo, LevelTop(Depth))
    BY <1>2, DepthNumbers DEF RContents, LevelCut
  <2>4. lo' = lo /\ hi' = lt /\ nth' = (lo + nth) - lo
    BY <1>1, <2>1
  <2> QED
    BY <1>1, <1>2, <1>3, <2>1, <2>2, <2>3, <2>4, RNarrows
<1>5. RTyped'
  BY <1>1, <1>2, <1>3 DEF RTyped
<1>6. Gathering' /\ R!ThreeWay' /\ PivotCentral' /\ R!RankSelected'
  BY <1>1 DEF Gathering, R!ThreeWay, PivotCentral, R!RankSelected
<1> QED
  BY <1>4, <1>5, <1>6 DEF RIInv

LEMMA RKeepGreater == ASSUME RIInv, R!KeepGreater PROVE RIInv' /\ RAdvances
<1>1. /\ pc = "flag" /\ i >= gt /\ nth >= gt - lo /\ lo' = gt /\ nth' = nth - (gt - lo) /\ pc' = "select"
      /\ UNCHANGED <<v, first, last, rank, hi, stack, i, store, lt, gt, key, ret>>
  BY DEF R!KeepGreater, R!args, R!cursors, R!RankAbove
<1>2. RTyped /\ RLevels /\ RContents(v)
  BY DEF RIInv
<1>3. /\ {lo, hi, nth, lt, gt} \subseteq Int /\ lo <= gt /\ gt <= hi /\ 0 <= nth /\ lo + nth < hi
  BY <1>1, <1>2, FlagNumbers, RunningNumbers
<1>4. RLevels' /\ RContents(v)' /\ RAdvances
  <2>1. gt <= lo + nth /\ hi <= hi /\ (lo + nth) - gt = nth - (gt - lo)
    BY <1>1, <1>3
  <2>2. Cut(v, LevelBase(Depth), gt, LevelTop(Depth))
    BY <1>1, <1>3, PartitionCuts
  <2>3. Cut(v, LevelBase(Depth), hi, LevelTop(Depth))
    BY <1>2, DepthNumbers DEF RContents, LevelCut
  <2>4. lo' = gt /\ hi' = hi /\ nth' = (lo + nth) - gt
    BY <1>1, <2>1
  <2> QED
    BY <1>1, <1>2, <1>3, <2>1, <2>2, <2>3, <2>4, RNarrows
<1>5. RTyped'
  <2>1. nth' \in Int /\ lo' \in Int
    BY <1>1, <1>3
  <2> QED
    BY <1>1, <1>2, <2>1 DEF RTyped
<1>6. Gathering' /\ R!ThreeWay' /\ PivotCentral' /\ R!RankSelected'
  BY <1>1 DEF Gathering, R!ThreeWay, PivotCentral, R!RankSelected
<1> QED
  BY <1>4, <1>5, <1>6 DEF RIInv
-----------------------------------------------------------------------------
\* The partition exchanges cells f and t of the range, and its cursors move.
LEMMA RFlags ==
    ASSUME RIInv, pc = "flag", NEW f \in lo .. hi - 1, NEW t \in lo .. hi - 1, NEW b, b = Swap(v, f, t),
           v' = b, UNCHANGED <<first, last, rank, lo, hi, nth, stack, store, key, ret, pc>>,
           NEW k \in Int, NEW m \in Int, NEW g \in Int, lt' = k, i' = m, gt' = g,
           lo <= k, k <= m, m <= g, g <= hi,
           \A p \in lo .. k - 1 : b[p] < key,
           \A p \in k .. m - 1 : b[p] = key,
           \A p \in g .. hi - 1 : b[p] > key
    PROVE  RIInv' /\ RAdvances
<1>1. RTyped /\ RLevels /\ RContents(v) /\ PivotCentral
  BY DEF RIInv
<1>2. /\ {lo, hi, N} \subseteq Int /\ 0 <= lo /\ hi <= N /\ lo <= hi /\ key \in Keys /\ v \in [Pos -> Keys]
      /\ hi \in 0 .. N
  BY FlagNumbers
<1>3. Shuffled(Keys, v, b, lo, hi) /\ b \in [Pos -> Keys]
  <2>1. Shuffled(Keys, v, b, lo, hi)
    BY <1>2, SwapShuffles
  <2> QED
    BY <2>1 DEF Shuffled
<1>4. RLevels' /\ RContents(v)' /\ RAdvances
  <2>1. Shuffled(Keys, v, v', lo, hi) /\ lo <= lo /\ hi <= hi
    BY <1>2, <1>3
  <2> QED
    BY <1>1, <1>2, <2>1, RStays
<1>5. RTyped'
  BY <1>1, <1>3 DEF RTyped
<1>6. R!ThreeWay'
  BY DEF R!ThreeWay
<1>7. PivotCentral'
  <2>1. \A s \in SUBSET Keys : Count(b, lo, hi, s) = Count(v, lo, hi, s)
    <3>1. lo <= lo /\ hi <= hi
      BY <1>2
    <3> QED
      BY <1>2, <1>3, <3>1, CountShuffled
  <2>2. UpTo(key) \in SUBSET Keys /\ DownTo(key) \in SUBSET Keys
    BY DEF UpTo, DownTo
  <2>3. /\ Count(b, lo, hi, UpTo(key)) = Count(v, lo, hi, UpTo(key))
        /\ Count(b, lo, hi, DownTo(key)) = Count(v, lo, hi, DownTo(key))
    BY <2>1, <2>2
  <2> QED
    BY <1>1, <2>3 DEF PivotCentral
<1>8. Gathering' /\ R!RankSelected'
  BY DEF Gathering, R!RankSelected
<1> QED
  BY <1>4, <1>5, <1>6, <1>7, <1>8 DEF RIInv

LEMMA SwappedCells ==
    ASSUME NEW a \in [Pos -> Keys], NEW f \in Pos, NEW t \in Pos, NEW b, b = Swap(a, f, t)
    PROVE  b[f] = a[t] /\ b[t] = a[f] /\ \A p \in Pos : p # f /\ p # t => b[p] = a[p]
BY DEF Swap

LEMMA RFlagLess == ASSUME RIInv, R!FlagLess PROVE RIInv' /\ RAdvances
<1>1. /\ pc = "flag" /\ i < gt /\ v[i] < key /\ v' = Swap(v, lt, i) /\ lt' = lt + 1 /\ i' = i + 1
      /\ UNCHANGED <<first, last, rank, lo, hi, nth, stack, store, gt, key, ret, pc>>
  BY ROperators DEF R!FlagLess, R!args
<1>2. /\ {lo, hi, i, lt, gt} \subseteq Int
      /\ lo <= lt /\ lt <= i /\ i <= gt /\ gt <= hi
      /\ \A p \in lo .. lt - 1 : v[p] < key
      /\ \A p \in lt .. i - 1 : v[p] = key
      /\ \A p \in gt .. hi - 1 : v[p] > key
      /\ v \in [Pos -> Keys] /\ \A p \in lo .. hi - 1 : p \in Pos
  BY <1>1, FlagNumbers
<1>3. lt \in lo .. hi - 1 /\ i \in lo .. hi - 1
  BY <1>1, <1>2
<1>4. PICK b : b = Swap(v, lt, i) /\ v' = b
  BY <1>1
<1>5. /\ b[lt] = v[i] /\ b[i] = v[lt] /\ \A p \in lo .. hi - 1 : p # lt /\ p # i => b[p] = v[p]
  <2>1. lt \in Pos /\ i \in Pos
    BY <1>2, <1>3
  <2> QED
    BY <1>2, <1>4, <2>1, SwappedCells
<1>6. PICK k \in Int, m \in Int : k = lt + 1 /\ m = i + 1
  BY <1>2
<1>7. ASSUME NEW p \in lo .. k - 1 PROVE b[p] < key
  <2>1. p = lt \/ (p \in lo .. lt - 1 /\ p \in lo .. hi - 1 /\ p # lt /\ p # i)
    BY <1>2, <1>3, <1>6
  <2> QED
    BY <1>1, <1>2, <1>5, <2>1
<1>8. ASSUME NEW p \in k .. m - 1 PROVE b[p] = key
  <2>1. CASE p = i
    <3>1. lt \in lt .. i - 1
      BY <1>2, <1>6, <2>1
    <3> QED
      BY <1>2, <1>5, <2>1, <3>1
  <2>2. CASE p # i
    <3>1. p \in lt .. i - 1 /\ p \in lo .. hi - 1 /\ p # lt
      BY <1>2, <1>3, <1>6, <2>2
    <3> QED
      BY <1>2, <1>5, <2>2, <3>1
  <2> QED
    BY <2>1, <2>2
<1>9. ASSUME NEW p \in gt .. hi - 1 PROVE b[p] > key
  <2>1. p \in lo .. hi - 1 /\ p # lt /\ p # i
    BY <1>1, <1>2
  <2> QED
    BY <1>2, <1>5, <2>1
<1>10. lo <= k /\ k <= m /\ m <= gt /\ gt \in Int /\ lt' = k /\ i' = m /\ gt' = gt
  BY <1>1, <1>2, <1>6
<1> QED
  BY <1>1, <1>2, <1>3, <1>4, <1>7, <1>8, <1>9, <1>10, RFlags

LEMMA RFlagGreater == ASSUME RIInv, R!FlagGreater PROVE RIInv' /\ RAdvances
<1>1. /\ pc = "flag" /\ i < gt /\ key < v[i] /\ v' = Swap(v, i, gt - 1) /\ gt' = gt - 1 /\ i' = i
      /\ UNCHANGED <<first, last, rank, lo, hi, nth, stack, store, lt, key, ret, pc>>
  BY ROperators DEF R!FlagGreater, R!args, R!NextAfterGreater
<1>2. /\ {lo, hi, i, lt, gt} \subseteq Int
      /\ lo <= lt /\ lt <= i /\ i <= gt /\ gt <= hi
      /\ \A p \in lo .. lt - 1 : v[p] < key
      /\ \A p \in lt .. i - 1 : v[p] = key
      /\ \A p \in gt .. hi - 1 : v[p] > key
      /\ key \in Int /\ v \in [Pos -> Keys] /\ \A p \in lo .. hi - 1 : v[p] \in Int /\ p \in Pos
  BY <1>1, FlagNumbers
<1>3. PICK g \in Int : g = gt - 1 /\ g \in lo .. hi - 1 /\ i \in lo .. hi - 1 /\ i <= g
  BY <1>1, <1>2
<1>4. PICK b : b = Swap(v, i, g) /\ v' = b
  BY <1>1, <1>3
<1>5. b[g] = v[i] /\ \A p \in lo .. hi - 1 : p # i /\ p # g => b[p] = v[p]
  <2>1. g \in Pos /\ i \in Pos
    BY <1>2, <1>3
  <2> QED
    BY <1>2, <1>4, <2>1, SwappedCells
<1>6. ASSUME NEW p \in lo .. lt - 1 PROVE b[p] < key
  <2>1. p \in lo .. hi - 1 /\ p # i /\ p # g
    BY <1>2, <1>3
  <2> QED
    BY <1>2, <1>5, <2>1
<1>7. ASSUME NEW p \in lt .. i - 1 PROVE b[p] = key
  <2>1. p \in lo .. hi - 1 /\ p # i /\ p # g
    BY <1>2, <1>3
  <2> QED
    BY <1>2, <1>5, <2>1
<1>8. ASSUME NEW p \in g .. hi - 1 PROVE b[p] > key
  <2>1. CASE p = g
    <3>1. b[p] = v[i] /\ v[i] \in Int
      BY <1>2, <1>3, <1>5, <2>1
    <3> QED
      BY <1>1, <1>2, <3>1
  <2>2. CASE p # g
    <3>1. p \in gt .. hi - 1 /\ p \in lo .. hi - 1 /\ p # i
      BY <1>2, <1>3, <2>2
    <3> QED
      BY <1>2, <1>5, <2>2, <3>1
  <2> QED
    BY <2>1, <2>2
<1>9. lo <= lt /\ lt <= i /\ i <= g /\ g <= hi /\ lt \in Int /\ i \in Int /\ lt' = lt /\ i' = i /\ gt' = g
  BY <1>1, <1>2, <1>3
<1> QED
  BY <1>1, <1>3, <1>4, <1>6, <1>7, <1>8, <1>9, RFlags

LEMMA RFlagEqual == ASSUME RIInv, R!FlagEqual PROVE RIInv' /\ RAdvances
<1>1. /\ pc = "flag" /\ i < gt /\ v[i] = key /\ i' = i + 1 /\ v' = v
      /\ UNCHANGED <<first, last, rank, lo, hi, nth, stack, store, lt, gt, key, ret, pc>>
  BY DEF R!FlagEqual, R!args
<1>2. /\ {lo, hi, i, lt, gt} \subseteq Int
      /\ lo <= lt /\ lt <= i /\ i <= gt /\ gt <= hi
      /\ \A p \in lo .. lt - 1 : v[p] < key
      /\ \A p \in lt .. i - 1 : v[p] = key
      /\ \A p \in gt .. hi - 1 : v[p] > key
      /\ v \in [Pos -> Keys] /\ \A p \in lo .. hi - 1 : p \in Pos
  BY <1>1, FlagNumbers
<1>3. i \in lo .. hi - 1 /\ i \in Pos
  BY <1>1, <1>2
<1>4. v = Swap(v, i, i)
  BY <1>2, <1>3 DEF Swap
<1>5. PICK m \in Int : m = i + 1
  BY <1>2
<1>6. ASSUME NEW p \in lt .. m - 1 PROVE v[p] = key
  <2>1. p = i \/ p \in lt .. i - 1
    BY <1>2, <1>5
  <2> QED
    BY <1>1, <1>2, <2>1
<1>7. lo <= lt /\ lt <= m /\ m <= gt /\ gt <= hi /\ lt \in Int /\ gt \in Int /\ lt' = lt /\ i' = m /\ gt' = gt
  BY <1>1, <1>2, <1>5
<1> QED
  BY <1>1, <1>2, <1>3, <1>4, <1>6, <1>7, RFlags
-----------------------------------------------------------------------------
\* Medians that stand for whole groups stand for what they represent.
LEMMA GatheredRepresents ==
    ASSUME NEW a, NEW l \in Int, NEW s \in Int, NEW h \in Int, Gathered(a, l, s, h)
    PROVE  Represented(a, l, s, h)
<1> SUFFICES ASSUME NEW x \in Keys
             PROVE  /\ StandsFor(a, l, s, h, UpTo(x), FewerThanHalf)
                    /\ StandsFor(a, l, s, h, DownTo(x), OtherHalf)
  BY DEF Represented
<1>1. /\ FewerThanHalf \in Nat /\ 1 <= FewerThanHalf /\ OtherHalf \in Nat /\ 1 <= OtherHalf
  BY Weights
<1>2. ASSUME NEW t, NEW w \in Nat, 1 <= w, Count(a, l, h, t) >= Count(a, l, s, t) * w
      PROVE  StandsFor(a, l, s, h, t, w)
  <2>1. PICK m \in Nat, n \in Nat : m = Count(a, l, s, t) /\ n = Count(a, l, h, t)
    BY CountFinite
  <2>2. m * w = (m - 1) * w + w /\ (m - 1) * w \in Int /\ m * w \in Int
    OBVIOUS
  <2>3. n >= (m - 1) * w + 1
    BY <1>2, <2>1, <2>2
  <2> QED
    BY <2>1, <2>3 DEF StandsFor
<1>3. /\ Count(a, l, h, UpTo(x)) >= Count(a, l, s, UpTo(x)) * FewerThanHalf
      /\ Count(a, l, h, DownTo(x)) >= Count(a, l, s, DownTo(x)) * OtherHalf
  BY DEF Gathered
<1> QED
  BY <1>1, <1>2, <1>3

\* The medians are all gathered: the one of them is looked for.
LEMMA RMedianOfMedians == ASSUME RIInv, R!MedianOfMedians PROVE RIInv' /\ RAdvances
<1>1. /\ pc = "group" /\ i >= hi /\ stack' = Append(stack, <<lo, hi, nth>>) /\ lo' = lo /\ hi' = store
      /\ nth' = (store - lo) \div 2 /\ pc' = "select"
      /\ UNCHANGED <<v, first, last, rank, i, store, lt, gt, key, ret>>
  BY DEF R!MedianOfMedians, R!args, R!cursors
<1>2. RTyped /\ RLevels /\ RContents(v)
  BY DEF RIInv
<1>3. /\ {first, last, lo, hi, nth, N} \subseteq Int /\ 0 <= first /\ first <= lo /\ hi <= last /\ last <= N
      /\ i \in Int
  BY <1>2, RunningNumbers DEF RTyped
<1>4. /\ store \in Int /\ lo <= store /\ i = lo + Group * (store - lo)
      /\ i < hi + Group /\ hi - lo > 1
      /\ IF i <= hi THEN Gathered(v, lo, store, i) ELSE Represented(v, lo, store, hi)
  BY <1>1 DEF RIInv, Gathering
<1>5. Represented(v, lo, store, hi)
  <2>1. CASE i <= hi
    <3>1. i = hi /\ Gathered(v, lo, store, i)
      BY <1>1, <1>3, <1>4, <2>1
    <3> QED
      BY <1>3, <1>4, <3>1, GatheredRepresents
  <2>2. CASE ~ (i <= hi)
    BY <1>4, <2>2
  <2> QED
    BY <2>1, <2>2
<1>6. PICK n \in Int, s \in Int : n = hi - lo /\ s = store - lo /\ n > 1
  BY <1>3, <1>4
<1>7. Groups(n) = s
  <2>1. Group * (s - 1) = Group * s - Group /\ Group * s \in Int /\ Group \in Int
    BY RParameters
  <2>2. i = lo + Group * s
    BY <1>4, <1>6
  <2>3. 1 <= n /\ n <= Group * s /\ Group * (s - 1) < n
    <3>1. PICK x \in Int, z \in Int : x = Group * s /\ z = Group /\ i = lo + x /\ Group * (s - 1) = x - z
      BY <2>1, <2>2
    <3>2. 1 <= n /\ n = hi - lo /\ i >= hi /\ i < hi + z /\ {lo, hi, i, n} \subseteq Int
      BY <1>1, <1>3, <1>4, <1>6, <3>1
    <3>3. 1 <= n /\ n <= x /\ x - z < n
      BY ONLY <3>1, <3>2, x \in Int, z \in Int
    <3> QED
      BY <3>1, <3>3
  <2> QED
    BY <2>3, GroupsReached
<1>8. PICK y \in Nat : /\ y = s \div 2 /\ y < s /\ 1 <= s /\ s < n
                       /\ Groups(hi - lo) = s /\ Groups(hi - lo) \div 2 = y /\ nth' = y
  <2>1. Groups(n) \in Nat /\ 1 <= Groups(n) /\ Groups(n) < n
        /\ Groups(n) \div 2 \in Nat /\ Groups(n) \div 2 < Groups(n)
    BY <1>6, GroupNumbers
  <2> QED
    BY <1>1, <1>6, <1>7, <2>1
<1>9. PICK k \in Nat : k = Len(stack) /\ Depth = k + 1
  BY <1>2, DepthNumbers
<1>10. /\ stack' \in Seq(Int \X Int \X Int) /\ Len(stack') = k + 1
       /\ stack'[k + 1] = <<lo, hi, nth>> /\ \A d \in 1 .. k : stack'[d] = stack[d]
  <2>1. stack \in Seq(Int \X Int \X Int) /\ <<lo, hi, nth>> \in Int \X Int \X Int
    BY <1>2, <1>3 DEF RTyped
  <2> QED
    BY <1>1, <1>9, <2>1, AppendProperties
<1>11. Depth' = k + 2
  BY <1>10 DEF Depth
<1>12. ASSUME NEW d \in 1 .. k + 1
       PROVE  LevelLo(d)' = LevelLo(d) /\ LevelHi(d)' = LevelHi(d) /\ LevelRank(d)' = LevelRank(d)
  <2>1. d # Depth'
    BY <1>11
  <2>2. CASE d = k + 1
    <3>1. LevelLo(k + 1) = lo /\ LevelHi(k + 1) = hi /\ LevelRank(k + 1) = nth
      BY <1>2, <1>9, DepthNumbers
    <3>2. LevelLo(k + 1)' = lo /\ LevelHi(k + 1)' = hi /\ LevelRank(k + 1)' = nth
      BY <1>10, <2>1, <2>2 DEF LevelLo, LevelHi, LevelRank
    <3> QED
      BY <2>2, <3>1, <3>2
  <2>3. CASE d # k + 1
    <3>1. d \in 1 .. k /\ d # Depth
      BY <1>9, <2>3
    <3> QED
      BY <1>10, <2>1, <3>1 DEF LevelLo, LevelHi, LevelRank
  <2> QED
    BY <2>2, <2>3
<1>13. \A d \in 1 .. (k + 1) + 1 : /\ LevelBase(d)' = LevelBase(d)
                                   /\ LevelTop(d)' = LevelTop(d)
                                   /\ LevelGoal(d)' = LevelGoal(d)
  <2>1. k + 1 \in Nat /\ UNCHANGED <<first, last, rank>>
    BY <1>1
  <2> QED
    BY <1>12, <2>1, LevelsFrom
<1>14. /\ LevelLo(k + 2)' = lo /\ LevelHi(k + 2)' = store /\ LevelRank(k + 2)' = y
       /\ LevelBase(k + 2)' = lo /\ LevelTop(k + 2)' = store /\ LevelGoal(k + 2)' = lo + y
  <2>1. /\ LevelLo(k + 2)' = lo /\ LevelHi(k + 2)' = store /\ LevelRank(k + 2)' = y
    BY <1>1, <1>8, <1>11 DEF LevelLo, LevelHi, LevelRank
  <2>2. k + 2 # 1 /\ (k + 2) - 1 = k + 1 /\ k + 2 \in 1 .. (k + 1) + 1
    OBVIOUS
  <2>3. LevelLo(k + 1) = lo /\ LevelHi(k + 1) = hi
    BY <1>2, <1>9, DepthNumbers
  <2>4. LevelBase(k + 2) = lo /\ LevelTop(k + 2) = lo + s /\ LevelGoal(k + 2) = lo + y
    BY <1>8, <2>2, <2>3 DEF LevelBase, LevelTop, LevelGoal
  <2>5. lo + s = store
    BY <1>3, <1>4, <1>6
  <2> QED
    BY <1>13, <2>1, <2>2, <2>4, <2>5
<1>15. ASSUME NEW d \in 1 .. k + 2 PROVE d = k + 2 \/ (d \in 1 .. k + 1 /\ d \in 1 .. Depth)
  BY <1>9
<1>16. store = lo + s /\ s \in Int /\ lo + y \in Int /\ lo <= lo + y /\ store <= hi
  BY <1>3, <1>4, <1>6, <1>8
<1>17. RLevels'
  <2>1. ASSUME NEW d \in 1 .. k + 2 PROVE LevelPlaced(d)'
    <3>1. CASE d = k + 2
      <4>1. first <= lo /\ lo <= lo /\ store <= store /\ store <= last /\ 0 <= y /\ y < store - lo
        BY <1>3, <1>4, <1>6, <1>8, <1>16
      <4>2. y \in Int /\ first' = first /\ last' = last
        BY <1>1
      <4> QED
        BY <1>3, <1>4, <1>14, <3>1, <4>1, <4>2 DEF LevelPlaced
    <3>2. CASE d \in 1 .. k + 1
      <4>1. LevelPlaced(d)
        BY <1>2, <1>9, <3>2 DEF RLevels
      <4>2. d \in 1 .. (k + 1) + 1 /\ first' = first /\ last' = last
        BY <1>1
      <4> QED
        BY <1>12, <1>13, <3>2, <4>1, <4>2 DEF LevelPlaced
    <3> QED
      BY <1>15, <3>1, <3>2
  <2>2. ASSUME NEW d \in 1 .. k + 2, NEW e \in 1 .. k + 2, d < e
        PROVE  /\ LevelLo(d)' <= LevelLo(e)' /\ LevelHi(e)' <= LevelHi(d)'
               /\ LevelHi(e)' - LevelLo(e)' < LevelHi(d)' - LevelLo(d)'
    <3>1. d \in 1 .. k + 1 /\ d \in 1 .. Depth
      BY <1>9, <2>2
    <3>2. PICK x \in Int, z \in Int : x = LevelLo(d) /\ z = LevelHi(d) /\ x <= lo /\ hi <= z
      BY <1>2, <3>1, LevelNumbers
    <3>3. LevelLo(d)' = x /\ LevelHi(d)' = z
      BY <1>12, <3>1, <3>2
    <3>4. CASE e \in 1 .. k + 1
      <4>1. e \in 1 .. Depth
        BY <1>9, <3>4
      <4>2. x <= LevelLo(e) /\ LevelHi(e) <= z /\ LevelHi(e) - LevelLo(e) < z - x
        BY <1>2, <2>2, <3>1, <3>2, <4>1 DEF RLevels
      <4> QED
        BY <1>12, <3>3, <3>4, <4>2
    <3>5. CASE e = k + 2
      <4>1. x <= lo /\ store <= z /\ store - lo < z - x
        BY <1>3, <1>4, <1>6, <1>8, <1>16, <3>2
      <4> QED
        BY <1>14, <3>3, <3>5, <4>1
    <3> QED
      BY <1>15, <3>4, <3>5
  <2> QED
    BY <1>11, <2>1, <2>2 DEF RLevels
<1>18. RContents(v)'
  <2>1. ASSUME NEW d \in 1 .. k + 2 PROVE LevelCut(v, d)'
    <3>1. CASE d = k + 2
      <4>1. lo .. lo - 1 = {} /\ store .. store - 1 = {}
        BY <1>3, <1>4
      <4>2. Cut(v, lo, lo, store) /\ Cut(v, lo, store, store)
        BY <4>1 DEF Cut
      <4> QED
        BY <1>1, <1>14, <3>1, <4>2 DEF LevelCut
    <3>2. CASE d \in 1 .. k + 1
      <4>1. LevelCut(v, d)
        BY <1>2, <1>9, <3>2 DEF RContents
      <4>2. d \in 1 .. (k + 1) + 1
        OBVIOUS
      <4> QED
        BY <1>1, <1>12, <1>13, <3>2, <4>1, <4>2 DEF LevelCut
    <3> QED
      BY <1>15, <3>1, <3>2
  <2>2. ASSUME NEW d \in 1 .. k + 1 PROVE LevelCounted(v, d)'
    <3>1. CASE d = k + 1
      <4>1. LevelLo(k + 1)' = lo /\ LevelHi(k + 1)' = hi
        BY <1>2, <1>9, <1>12, <3>1, DepthNumbers
      <4>2. Represented(v, lo, lo + Groups(hi - lo), hi)
        BY <1>5, <1>8, <1>16
      <4> QED
        BY <1>1, <3>1, <4>1, <4>2 DEF LevelCounted
    <3>2. CASE d # k + 1
      <4>1. d \in 1 .. k
        BY <3>2
      <4>2. LevelCounted(v, d)
        BY <1>2, <1>9, <4>1 DEF RContents
      <4> QED
        BY <1>1, <1>12, <4>2 DEF LevelCounted
    <3> QED
      BY <3>1, <3>2
  <2> QED
    BY <1>10, <1>11, <2>1, <2>2 DEF RContents
<1>19. RAdvances
  BY <1>1, <1>2, NotShuffled DEF RAdvances, RTyped
<1>20. RTyped'
  <2>1. hi' \in Int /\ nth' \in Int
    BY <1>1, <1>4, <1>8
  <2> QED
    BY <1>1, <1>2, <1>10, <2>1 DEF RTyped
<1>21. Gathering' /\ R!ThreeWay' /\ PivotCentral' /\ R!RankSelected'
  BY <1>1 DEF Gathering, R!ThreeWay, PivotCentral, R!RankSelected
<1> QED
  BY <1>17, <1>18, <1>19, <1>20, <1>21 DEF RIInv
-----------------------------------------------------------------------------
LEMMA RInit == ASSUME R!Init PROVE RIInv
<1>1. /\ v \in [Pos -> Keys] /\ first \in 0 .. N /\ last \in first + 1 .. N
      /\ lo = first /\ hi = last /\ rank \in 0 .. (last - first) - 1 /\ nth = rank /\ stack = <<>>
      /\ i = first /\ lt = first /\ gt = first /\ key \in Keys /\ ret = first /\ pc = "select"
  BY ROperators DEF R!Init
<1>2. /\ {first, last, rank} \subseteq Int /\ 0 <= first /\ first < last /\ last <= N
      /\ 0 <= rank /\ rank < last - first /\ N \in Int
  BY <1>1, RParameters
<1>3. stack \in Seq(Int \X Int \X Int) /\ Len(stack) = 0
  BY <1>1, EmptySeq
<1>4. RTyped
  <2>1. first \in first .. last - 1
    BY <1>2
  <2> QED
    BY <1>1, <1>2, <1>3, <2>1 DEF RTyped
<1>5. Depth = 1
  BY <1>3 DEF Depth
<1>6. /\ LevelLo(1) = first /\ LevelHi(1) = last /\ LevelRank(1) = rank
      /\ LevelBase(1) = first /\ LevelTop(1) = last /\ LevelGoal(1) = first + rank
  BY <1>1, <1>5 DEF LevelLo, LevelHi, LevelRank, LevelBase, LevelTop, LevelGoal
<1>7. RLevels
  <2>1. LevelPlaced(1)
    BY <1>2, <1>6 DEF LevelPlaced
  <2>2. \A d, e \in 1 .. 1 : ~ (d < e)
    OBVIOUS
  <2>3. \A d \in 1 .. 1 : d = 1
    OBVIOUS
  <2> QED
    BY <1>5, <2>1, <2>2, <2>3 DEF RLevels
<1>8. RContents(v)
  <2>1. LevelCut(v, 1)
    <3>1. first .. first - 1 = {} /\ last .. last - 1 = {}
      BY <1>2
    <3> QED
      BY <1>6, <3>1 DEF LevelCut, Cut
  <2>2. 1 .. 0 = {} /\ \A d \in 1 .. 1 : d = 1
    OBVIOUS
  <2> QED
    BY <1>3, <1>5, <2>1, <2>2 DEF RContents
<1>9. Gathering /\ R!ThreeWay /\ PivotCentral /\ R!RankSelected
  BY <1>1 DEF Gathering, R!ThreeWay, PivotCentral, R!RankSelected
<1> QED
  BY <1>4, <1>7, <1>8, <1>9 DEF RIInv

LEMMA RQuiet == ASSUME RIInv, UNCHANGED R!vars PROVE RIInv'
<1>1. UNCHANGED <<v, first, last, rank, lo, hi, nth, stack, i, store, lt, gt, key, ret, pc>>
  BY DEF R!vars, R!args, R!cursors
<1>2. RTyped /\ RLevels /\ RContents(v)
  BY DEF RIInv
<1>3. {lo, hi} \subseteq Int /\ lo <= hi
  BY <1>2, RunningNumbers
<1>4. RLevels' /\ RContents(v)'
  <2>1. Shuffled(Keys, v, v', lo, hi) /\ lo <= lo /\ hi <= hi
    BY <1>1, <1>2, <1>3, NotShuffled DEF RTyped
  <2> QED
    BY <1>1, <1>2, <1>3, <2>1, RStays
<1>5. RTyped'
  BY <1>1, <1>2 DEF RTyped
<1>6. Gathering' /\ R!ThreeWay' /\ PivotCentral' /\ R!RankSelected'
  BY <1>1 DEF RIInv, Gathering, R!ThreeWay, PivotCentral, R!RankSelected
<1> QED
  BY <1>4, <1>5, <1>6 DEF RIInv

LEMMA RStep == ASSUME RIInv, R!Next PROVE RIInv' /\ RAdvances
BY RSelectOnly, RSortAndSelect, RStartGroups, RGatherMedian, RMedianOfMedians, RFlagLess,
   RFlagGreater, RFlagEqual, RKeepLess, RSelectEqual, RKeepGreater DEF R!Next
-----------------------------------------------------------------------------
\* What the parts of the inductive invariant say, in the words of select_nth.
LEMMA RCentral == ASSUME RIInv PROVE R!PivotIsCentral
<1> SUFFICES ASSUME pc = "flag" PROVE R!PivotIsCentral
  BY DEF R!PivotIsCentral
<1> DEFINE groups == Groups(hi - lo)
<1>1. \A p \in lo .. hi - 1 : v[p] \in Keys
  <2>1. v \in [Pos -> Keys] /\ \A p \in lo .. hi - 1 : p \in Pos
    BY FlagNumbers
  <2> QED
    BY <2>1
<1>2. R!Cardinality({p \in lo .. hi - 1 : v[p] <= key}) = Count(v, lo, hi, UpTo(key))
  <2>1. {p \in lo .. hi - 1 : v[p] <= key} = KeyCells(v, lo, hi, UpTo(key))
    BY <1>1 DEF KeyCells, UpTo
  <2> QED
    BY <2>1, RCardinality DEF Count
<1>3. R!Cardinality({p \in lo .. hi - 1 : v[p] >= key}) = Count(v, lo, hi, DownTo(key))
  <2>1. {p \in lo .. hi - 1 : v[p] >= key} = KeyCells(v, lo, hi, DownTo(key))
    BY <1>1 DEF KeyCells, DownTo
  <2> QED
    BY <2>1, RCardinality DEF Count
<1>4. /\ Count(v, lo, hi, UpTo(key)) >= (groups \div 2) * FewerThanHalf + 1
      /\ Count(v, lo, hi, DownTo(key)) >= (groups - groups \div 2 - 1) * OtherHalf + 1
  BY DEF RIInv, PivotCentral
<1>5. groups = (hi - lo + Group - 1) \div Group
  BY DEF Groups
<1> HIDE DEF groups
<1> QED
  BY <1>2, <1>3, <1>4, <1>5 DEF R!PivotIsCentral, FewerThanHalf, OtherHalf

LEMMA RTypes == ASSUME RIInv PROVE R!TypeOK
<1>1. RTyped /\ RLevels
  BY DEF RIInv
<1>2. /\ {first, last, lo, hi, nth} \subseteq Int /\ first <= lo /\ hi <= last /\ lo < hi
      /\ 0 <= nth /\ nth < hi - lo
  BY <1>1, RunningNumbers
<1>3. lo \in first .. last /\ hi \in lo .. last /\ nth \in 0 .. (hi - lo) - 1
  BY <1>2
<1> QED
  BY <1>1, <1>3, ROperators DEF R!TypeOK, RTyped

LEMMA RCutsOff == ASSUME RIInv PROVE R!CutOff
<1>1. RTyped /\ RLevels /\ RContents(v)
  BY DEF RIInv
<1>2. R!Outer = <<LevelLo(1), LevelHi(1)>>
  <2>1. CASE stack = <<>>
    BY <1>1, <2>1, DepthNumbers DEF R!Outer
  <2>2. CASE stack # <<>>
    <3>1. 1 # Depth
      BY <1>1, <2>2, DepthNumbers
    <3> QED
      BY <2>2, <3>1 DEF R!Outer, LevelLo, LevelHi
  <2> QED
    BY <2>1, <2>2
<1>3. LevelCut(v, 1)
  <2>1. 1 \in 1 .. Depth
    BY <1>1, DepthNumbers
  <2> QED
    BY <1>1, <2>1 DEF RContents
<1>4. LevelBase(1) = first /\ LevelTop(1) = last
  BY DEF LevelBase, LevelTop
<1> QED
  BY <1>2, <1>3, <1>4 DEF R!CutOff, LevelCut, Cut

LEMMA RNested == ASSUME RIInv PROVE R!Nested
<1>1. RTyped /\ RLevels
  BY DEF RIInv
<1>2. stack \in Seq(Int \X Int \X Int) /\ DOMAIN stack = 1 .. Len(stack)
  <2>1. stack \in Seq(Int \X Int \X Int)
    BY <1>1 DEF RTyped
  <2> QED
    BY <2>1, LenProperties
<1>3. PICK k \in Nat : k = Len(stack) /\ Depth = k + 1
  BY <1>1, DepthNumbers
<1> SUFFICES ASSUME NEW d \in 1 .. k
             PROVE  LET inner == IF d = Len(stack) THEN <<lo, hi>> ELSE stack[d + 1]
                    IN  /\ stack[d][1] <= inner[1] /\ inner[2] <= stack[d][2]
                        /\ inner[2] - inner[1] < stack[d][2] - stack[d][1]
                        /\ stack[d][3] \in 0 .. stack[d][2] - stack[d][1] - 1
  BY <1>2, <1>3 DEF R!Nested
<1>4. d \in 1 .. Depth /\ d + 1 \in 1 .. Depth /\ d < d + 1 /\ d # Depth
  BY <1>3
<1>5. LevelLo(d) = stack[d][1] /\ LevelHi(d) = stack[d][2] /\ LevelRank(d) = stack[d][3]
  BY <1>4 DEF LevelLo, LevelHi, LevelRank
<1>6. /\ LevelLo(d) <= LevelLo(d + 1) /\ LevelHi(d + 1) <= LevelHi(d)
      /\ LevelHi(d + 1) - LevelLo(d + 1) < LevelHi(d) - LevelLo(d)
  BY <1>1, <1>4 DEF RLevels
<1>7. LevelRank(d) \in 0 .. LevelHi(d) - LevelLo(d) - 1
  <2>1. LevelPlaced(d)
    BY <1>1, <1>4 DEF RLevels
  <2> QED
    BY <2>1 DEF LevelPlaced
<1>8. CASE d = Len(stack)
  <2>1. LevelLo(d + 1) = lo /\ LevelHi(d + 1) = hi
    BY <1>1, <1>3, <1>8, DepthNumbers
  <2> QED
    BY <1>5, <1>6, <1>7, <1>8, <2>1
<1>9. CASE d # Len(stack)
  <2>1. LevelLo(d + 1) = stack[d + 1][1] /\ LevelHi(d + 1) = stack[d + 1][2]
    BY <1>3, <1>9 DEF LevelLo, LevelHi
  <2> QED
    BY <1>5, <1>6, <1>7, <1>9, <2>1
<1> QED
  BY <1>8, <1>9

LEMMA RankInvariantFollows == RIInv => R!RankInvariant
BY RTypes, RCutsOff, RNested, RCentral DEF R!RankInvariant, RIInv
-----------------------------------------------------------------------------
\* In a behaviour of the composed runs that is a call of select_nth.
RankingInv == Ranking => RIInv

LEMMA RankingStep == ASSUME MCNext, Ranking PROVE [R!Next]_R!vars
<1>1. CASE UNCHANGED allVars
  BY <1>1 DEF allVars, ofStack, ofSelect, ofRank, R!vars, R!args, R!cursors
<1>2. CASE ~ UNCHANGED allVars
  BY <1>2 DEF MCNext, sorts, halves, ranks, Sorting, Halving, Ranking, R!Next
<1> QED
  BY <1>1, <1>2

LEMMA RankingNext == RankingInv /\ [MCNext]_allVars => RankingInv'
<1> SUFFICES ASSUME RankingInv, [MCNext]_allVars, Ranking' PROVE RIInv'
  BY DEF RankingInv
<1>1. Ranking
  BY SameAlgorithm DEF Ranking
<1>2. [R!Next]_R!vars
  <2>1. CASE UNCHANGED allVars
    BY <2>1 DEF allVars, ofStack, ofSelect, ofRank, R!vars, R!args, R!cursors
  <2> QED
    BY <1>1, <2>1, RankingStep
<1> QED
  BY <1>1, <1>2, RStep, RQuiet DEF RankingInv

LEMMA RankingInit == MCInit => RankingInv
BY RInit DEF MCInit, SortCalls, HalfCalls, RankCalls, Ranking, RankingInv

\* The inductive invariant of select_nth holds in every state of it.
THEOREM RankingInvariance == (R!Spec => []RIInv) /\ (MCSpec => []RankingInv)
<1>1. R!Init => RIInv
  BY RInit
<1>2. RIInv /\ [R!Next]_R!vars => RIInv'
  BY RStep, RQuiet
<1>3. R!Spec => []RIInv
  BY <1>1, <1>2, PTL DEF R!Spec
<1>4. MCSpec => []RankingInv
  BY RankingInit, RankingNext, PTL DEF MCSpec
<1> QED
  BY <1>3, <1>4

\* The selections: at every depth of the recursion of select_nth the waiting ranges
\* hold the running one, what a range was cut off is on its side, the pivot the
\* recursion returns is as central as groups of medians make it, and the cell returned
\* holds the element of its rank; and the low-half calls as above.
THEOREM SelectInvariantHolds == (R!Spec => []R!RankInvariant) /\ (MCSpec => []SelectInvariant)
<1>1. R!Spec => []R!RankInvariant
  BY RankInvariantFollows, RankingInvariance, PTL
<1>2. (Halving => H!SelectInvariant) /\ RankingInv => SelectInvariant
  BY RankInvariantFollows DEF RankingInv, SelectInvariant
<1>3. MCSpec => []SelectInvariant
  BY <1>2, LowHalfInvariantHolds, RankingInvariance, PTL
<1> QED
  BY <1>1, <1>3
-----------------------------------------------------------------------------
\* What the composed runs show of the three algorithms as FrontToBackSort.
Shown      == IF Halving THEN Still ELSE v
ShownFinal == IF ~Sorting THEN first
              ELSE CASE pc = "descend" -> lo
                     [] pc = "select"  -> i
                     [] OTHER          -> last

LEMMA ShuffledIsShownRearranged ==
    ASSUME NEW a, NEW b, NEW l, NEW h, Shuffled(Keys, a, b, l, h)
    PROVE  FrontToBack!Rearranged(b, a, l, h)
<1>1. \A x \in Keys : Cardinality(Occurrences(a, x, l, h)) = Cardinality(Occurrences(b, x, l, h))
  BY DEF Shuffled, SameCounts
<1>2. ASSUME NEW c, NEW x \in Keys
      PROVE  FrontToBack!KeyCounts(c, Keys, l, h)[x] = Cardinality(Occurrences(c, x, l, h))
  <2>1. FrontToBack!Cardinality(Occurrences(c, x, l, h)) = Cardinality(Occurrences(c, x, l, h))
    BY DEF FrontToBack!Cardinality, Cardinality
  <2>2. FrontToBack!KeyCounts(c, Keys, l, h)[x] = FrontToBack!Cardinality(Occurrences(c, x, l, h))
    BY DEF FrontToBack!KeyCounts, Occurrences
  <2> QED
    BY <2>1, <2>2
<1>3. FrontToBack!KeyCounts(b, Keys, l, h) = FrontToBack!KeyCounts(a, Keys, l, h)
  <2>1. \A x \in Keys :
            FrontToBack!KeyCounts(b, Keys, l, h)[x] = FrontToBack!KeyCounts(a, Keys, l, h)[x]
    BY <1>1, <1>2
  <2> QED
    BY <2>1 DEF FrontToBack!KeyCounts
<1>4. SameOutside(a, b, l, h)
  BY DEF Shuffled
<1> QED
  BY <1>3, <1>4 DEF FrontToBack!Rearranged, FrontToBack!SameKeys, FrontToBack!SameOutside,
     SameOutside, FrontToBack!Pos, Pos

LEMMA ShownInit == MCInit => FrontToBack!Init
<1> SUFFICES ASSUME MCInit PROVE FrontToBack!Init
  OBVIOUS
<1>1. CASE SortCalls
  <2>1. Sorting /\ ~ Halving /\ Q!Init
    BY <1>1 DEF SortCalls, Sorting, Halving
  <2> QED
    BY <2>1 DEF Q!Init, FrontToBack!Init, Q!Pos, FrontToBack!Pos
<1>2. CASE HalfCalls
  <2>1. ~ Sorting /\ Halving /\ H!Init
    BY <1>2 DEF HalfCalls, Sorting, Halving
  <2>2. first \in 0 .. N /\ last \in first .. N /\ key \in Keys \cup {x + 1 : x \in Keys}
    BY <2>1 DEF H!Init
  <2>3. Still \in [Pos -> Keys]
    <3>1. (CHOOSE x \in Keys : TRUE) \in Keys
      BY <2>2
    <3> QED
      BY <3>1 DEF Still
  <2> QED
    BY <2>1, <2>2, <2>3 DEF FrontToBack!Init, Pos, FrontToBack!Pos
<1>3. CASE RankCalls
  <2>1. ~ Sorting /\ ~ Halving /\ R!Init
    BY <1>3 DEF RankCalls, Sorting, Halving
  <2>2. v \in [Pos -> Keys] /\ first \in 0 .. N /\ last \in first + 1 .. N
    BY <2>1, ROperators DEF R!Init
  <2>3. last \in first .. N
    BY <2>2, RParameters
  <2> QED
    BY <2>1, <2>2, <2>3 DEF FrontToBack!Init, Pos, FrontToBack!Pos
<1> QED
  BY <1>1, <1>2, <1>3 DEF MCInit

LEMMA ShownStep ==
    SIInv /\ SIInv' /\ RankingInv /\ [MCNext]_allVars => [FrontToBack!Next]_FrontToBack!vars
<1> SUFFICES ASSUME SIInv, SIInv', RankingInv, [MCNext]_allVars
             PROVE  [FrontToBack!Next]_FrontToBack!vars
  OBVIOUS
<1>1. /\ FrontToBack!vars = <<Shown, first, last, ShownFinal>>
      /\ FrontToBack!vars' = <<Shown', first', last', ShownFinal'>>
  BY DEF FrontToBack!vars, Shown, ShownFinal
<1>2. algorithm' = algorithm
  BY SameAlgorithm
<1>3. CASE UNCHANGED allVars
  <2>1. UNCHANGED <<algorithm, v, first, last, lo, pc, i>>
    BY <1>3 DEF allVars, ofStack
  <2>2. Shown' = Shown /\ ShownFinal' = ShownFinal
    BY <2>1 DEF Shown, ShownFinal, Sorting, Halving
  <2> QED
    BY <1>1, <2>1, <2>2
<1>4. ASSUME NEW a, NEW b, a = Shown, b = Shown', NEW f \in Int, NEW g, f = ShownFinal, g = ShownFinal',
             Shuffled(Keys, a, b, f, last), g \in f .. last, UNCHANGED <<first, last>>,
             \A p \in first .. g - 1 : \A q \in p .. last - 1 : b[p] <= b[q]
      PROVE  FrontToBack!Next
  <2>1. b \in [FrontToBack!Pos -> Keys]
    BY <1>4 DEF Shuffled, FrontToBack!Pos, Pos
  <2>2. FrontToBack!Rearranged(b, a, f, last)
    BY <1>4, ShuffledIsShownRearranged
  <2>3. FrontToBack!SortedUpTo(b, g)
    BY <1>4 DEF FrontToBack!SortedUpTo
  <2> QED
    BY <1>4, <2>1, <2>2, <2>3 DEF FrontToBack!Next, Shown, ShownFinal
<1>5. CASE MCNext /\ Sorting
  <2>1. QIInv /\ QIInv' /\ Sorting' /\ ~ Halving /\ ~ Halving'
    BY <1>2, <1>5 DEF SIInv, Sorting, Halving
  <2>2. [Q!Next]_Q!vars
    <3>1. CASE UNCHANGED allVars
      BY <3>1 DEF allVars, ofStack, Q!vars, Q!args
    <3>2. CASE ~ UNCHANGED allVars
      BY <1>5, <3>2 DEF MCNext, sorts, halves, ranks, Sorting, Halving, Ranking, Q!Next
    <3> QED
      BY <3>1, <3>2
  <2>3. Advances
    BY <2>1, <2>2, QNext
  <2>4. ShownFinal = Final /\ ShownFinal' = Final'
    <3>1. pc \in {"descend", "select", "done"} /\ pc' \in {"descend", "select", "done"}
      BY <2>1 DEF QIInv, Q!TypeOK
    <3> QED
      BY <1>5, <2>1, <3>1 DEF ShownFinal, Final
  <2>5. Shown = v /\ Shown' = v'
    BY <2>1 DEF Shown
  <2>6. Final \in Int
    <3>1. lo \in first .. last /\ i \in first .. last /\ first \in Int /\ last \in first .. N
      BY <2>1, QNumbers DEF QIInv, Q!TypeOK
    <3>2. pc \in {"descend", "select", "done"}
      BY <2>1 DEF QIInv, Q!TypeOK
    <3>3. Final \in {lo, i, last}
      BY <3>2 DEF Final
    <3> QED
      BY <3>1, <3>3, NAssumption
  <2>7. \A p \in first .. Final' - 1 : \A q \in p .. last - 1 : v'[p] <= v'[q]
    BY <2>1, <2>3 DEF QIInv, InPlace, Advances
  <2> QED
    BY <1>4, <2>3, <2>4, <2>5, <2>6, <2>7 DEF Advances
<1>6. CASE MCNext /\ Ranking
  <2>1. RIInv /\ ~ Sorting /\ ~ Sorting' /\ ~ Halving /\ ~ Halving'
    BY <1>2, <1>6 DEF RankingInv, Ranking, Sorting, Halving
  <2>2. RAdvances
    <3>1. RTyped /\ RLevels
      BY <2>1 DEF RIInv
    <3>2. CASE UNCHANGED R!vars
      BY <3>1, <3>2, NotShuffled DEF RAdvances, RTyped, R!vars, R!args
    <3> QED
      BY <1>6, <2>1, <3>2, RankingStep, RStep
  <2>3. Shown = v /\ Shown' = v' /\ ShownFinal = first /\ ShownFinal' = first'
    BY <2>1 DEF Shown, ShownFinal
  <2>4. first \in Int /\ first \in first .. last
    BY <2>1 DEF RIInv, RTyped
  <2>5. first .. first - 1 = {}
    BY <2>4
  <2> QED
    BY <1>4, <2>2, <2>3, <2>4, <2>5 DEF RAdvances
<1>7. CASE MCNext /\ Halving
  <2>1. Halving' /\ ~ Sorting /\ ~ Sorting'
    BY <1>2, <1>7 DEF Sorting, Halving
  <2>2. UNCHANGED <<first, last>>
    <3>1. [H!Next]_H!vars
      BY <1>7, HalvingStep
    <3> QED
      BY <3>1 DEF H!Next, H!vars, H!args, H!ShortOrExact, H!TakeSample, H!SelectTurn, H!SelectLeaf,
         H!ExactByKey, H!RouteToEnd, H!RouteToFront
  <2>3. Shown' = Shown /\ ShownFinal' = ShownFinal
    BY <1>7, <2>1, <2>2 DEF Shown, ShownFinal, Still, Pos
  <2> QED
    BY <1>1, <2>2, <2>3
<1> QED
  BY <1>3, <1>5, <1>6, <1>7 DEF MCNext, sorts, halves, ranks

\* quicksort_lr finalises the array strictly front to back; select_nth finalises
\* nothing, but every step of it only rearranges the range it was given.
THEOREM SortsFrontToBackHolds == MCSpec => SortsFrontToBack
<1>1. MCSpec => []SIInv /\ []RankingInv
  BY SelectionInvariance, RankingInvariance
<1> QED
  BY <1>1, ShownInit, ShownStep, PTL DEF MCSpec, SortsFrontToBack, FrontToBack!Spec
=============================================================================

-------------------- MODULE BranchlessPartition_proofs --------------------
(***************************************************************************)
(* Theorems about the block partition in all its forms, for an array of    *)
(* any size, any range and predicate, any block size and any vector width  *)
(* that divides it.                                                        *)
(*                                                                         *)
(* A side of the range is described by its misplaced elements: Marks says  *)
(* that they are exactly those a buffer points to.  The lemmas about Marks *)
(* say how a fill, an exchange, a consumed pair and a drain change it, for *)
(* either side; each step of the code is then one of these.                *)
(***************************************************************************)
EXTENDS PermPartition, Ranges_proofs

-----------------------------------------------------------------------------
(***************************************************************************)
(* Vectors.                                                                *)
(***************************************************************************)
\* A fill by whole vectors that has not reached the end of the block has room
\* for one more, and stays at a multiple of the width.
LEMMA WholeVectors ==
    ASSUME NEW x \in Nat, x % W = 0, x < B
    PROVE  x + W <= B /\ (x + W) % W = 0
<1> DEFINE p == x \div W
           q == B \div W
           a == (x + W) \div W
           r == (x + W) % W
<1> USE WAssumption, BAssumption
<1>1. /\ p \in Nat /\ q \in Nat /\ x = W * p /\ B = W * q
  BY DivisionFacts
<1>2. a \in Nat /\ r \in 0 .. W - 1 /\ x + W = W * a + r
  BY DivisionFacts
<1> HIDE DEF p, q, a, r
<1>3. p < q
  BY <1>1
<1>4. W * (p + 1) <= W * q
  BY <1>1, <1>3
<1>5. W * (p + 1 - a) = r
  BY <1>1, <1>2
<1>6. p + 1 - a = 0
  <2>1. CASE p + 1 - a >= 1
    <3>1. W * (p + 1 - a) >= W
      BY <1>1, <1>2, <2>1
    <3> QED
      BY <1>2, <1>5, <3>1
  <2>2. CASE p + 1 - a <= -1
    <3>1. W * (p + 1 - a) <= -W
      BY <1>1, <1>2, <2>2
    <3> QED
      BY <1>2, <1>5, <3>1
  <2> QED
    BY <1>1, <1>2, <2>1, <2>2
<1>7. r = 0
  BY <1>1, <1>2, <1>5, <1>6
<1> QED
  BY <1>1, <1>4, <1>7 DEF r

\* The table of a mask lists its lanes, each once and in ascending order.
Listed(mask) ==
    /\ Cardinality(mask) \in 0 .. W
    /\ InOrder(mask) \in [1 .. Cardinality(mask) -> mask]
    /\ \A a, b \in 1 .. Cardinality(mask) : a < b => InOrder(mask)[a] < InOrder(mask)[b]
    /\ \A lane \in mask : \E b \in 1 .. Cardinality(mask) : InOrder(mask)[b] = lane

\* A table's row holds the lanes of its mask, each once and ascending.
LEMMA TableInOrder ==
    ASSUME NEW from \in Int, NEW mask, mask \subseteq from .. from + W - 1
    PROVE  Listed(mask)
<1>1. IsFiniteSet(mask) /\ Cardinality(mask) \in 0 .. W
  <2>1. IsFiniteSet(from .. from + W - 1) /\ Cardinality(from .. from + W - 1) = W
    BY WAssumption, FS_Interval
  <2>2. IsFiniteSet(mask) /\ Cardinality(mask) <= W
    BY <2>1, FS_Subset
  <2>3. Cardinality(mask) \in Nat
    BY <2>2, FS_CardinalityType
  <2> QED
    BY WAssumption, <2>2, <2>3
<1>2. mask \subseteq Int
  OBVIOUS
<1>3. InOrder(mask) = ByRank(mask)
  BY DEF InOrder, ByRank
<1> QED
  BY <1>1, <1>2, <1>3, AscendingList DEF Listed
-----------------------------------------------------------------------------
(***************************************************************************)
(* Marks: in [lo, hi) the elements of w that are in s are exactly those at *)
(* the cells c[from], ..., c[n - 1].                                       *)
(***************************************************************************)
Marks(w, s, lo, hi, c, from, n) ==
    \A p \in lo .. hi - 1 : w[p] \in s <=> \E x \in from .. n - 1 : c[x] = p

\* A fill that moves the upper end of the range on, and marks what it finds.
LEMMA MarksUp ==
    ASSUME NEW w, NEW s, NEW lo \in Int, NEW hi \in Int, NEW hi2 \in Int, hi <= hi2,
           NEW c, NEW d, NEW n \in Nat, NEW m \in Nat, n <= m,
           Marks(w, s, lo, hi, c, 0, n),
           \A x \in 0 .. n - 1 : d[x] = c[x] /\ d[x] < hi,
           \A x \in n .. m - 1 : d[x] \in hi .. hi2 - 1 /\ w[d[x]] \in s,
           \A p \in hi .. hi2 - 1 : w[p] \in s => \E x \in n .. m - 1 : d[x] = p
    PROVE  Marks(w, s, lo, hi2, d, 0, m)
<1> SUFFICES ASSUME NEW p \in lo .. hi2 - 1
             PROVE  w[p] \in s <=> \E x \in 0 .. m - 1 : d[x] = p
  BY DEF Marks
<1>1. CASE p < hi
  <2>1. w[p] \in s <=> \E x \in 0 .. n - 1 : c[x] = p
    BY <1>1 DEF Marks
  <2>2. ASSUME NEW x \in 0 .. m - 1, d[x] = p PROVE x \in 0 .. n - 1
    BY <1>1, <2>2
  <2>3. ASSUME NEW x \in 0 .. n - 1 PROVE x \in 0 .. m - 1 /\ d[x] = c[x]
    OBVIOUS
  <2> QED
    BY <2>1, <2>2, <2>3
<1>2. CASE p >= hi
  <2>1. ASSUME NEW x \in 0 .. m - 1, d[x] = p PROVE w[p] \in s
    BY <1>2, <2>1
  <2>2. ASSUME w[p] \in s PROVE \E x \in 0 .. m - 1 : d[x] = p
    <3>1. PICK x \in n .. m - 1 : d[x] = p
      BY <1>2, <2>2
    <3> QED
      BY <3>1
  <2> QED
    BY <2>1, <2>2
<1> QED
  BY <1>1, <1>2

\* A fill that moves the lower end of the range down.
LEMMA MarksDown ==
    ASSUME NEW w, NEW s, NEW lo \in Int, NEW hi \in Int, NEW lo2 \in Int, lo2 <= lo,
           NEW c, NEW d, NEW n \in Nat, NEW m \in Nat, n <= m,
           Marks(w, s, lo, hi, c, 0, n),
           \A x \in 0 .. n - 1 : d[x] = c[x] /\ d[x] >= lo,
           \A x \in n .. m - 1 : d[x] \in lo2 .. lo - 1 /\ w[d[x]] \in s,
           \A p \in lo2 .. lo - 1 : w[p] \in s => \E x \in n .. m - 1 : d[x] = p
    PROVE  Marks(w, s, lo2, hi, d, 0, m)
<1> SUFFICES ASSUME NEW p \in lo2 .. hi - 1
             PROVE  w[p] \in s <=> \E x \in 0 .. m - 1 : d[x] = p
  BY DEF Marks
<1>1. CASE p >= lo
  <2>1. w[p] \in s <=> \E x \in 0 .. n - 1 : c[x] = p
    BY <1>1 DEF Marks
  <2>2. ASSUME NEW x \in 0 .. m - 1, d[x] = p PROVE x \in 0 .. n - 1
    BY <1>1, <2>2
  <2>3. ASSUME NEW x \in 0 .. n - 1 PROVE x \in 0 .. m - 1 /\ d[x] = c[x]
    OBVIOUS
  <2> QED
    BY <2>1, <2>2, <2>3
<1>2. CASE p < lo
  <2>1. ASSUME NEW x \in 0 .. m - 1, d[x] = p PROVE w[p] \in s
    BY <1>2, <2>1
  <2>2. ASSUME w[p] \in s PROVE \E x \in 0 .. m - 1 : d[x] = p
    <3>1. PICK x \in n .. m - 1 : d[x] = p
      BY <1>2, <2>2
    <3> QED
      BY <3>1
  <2> QED
    BY <2>1, <2>2
<1> QED
  BY <1>1, <1>2

\* An exchange that puts the first marked element on its side.
LEMMA MarksPlaced ==
    ASSUME NEW w, NEW u, NEW s, NEW lo, NEW hi, NEW c, NEW a \in Nat, NEW n \in Nat,
           a < n,
           Marks(w, s, lo, hi, c, a, n),
           \A x \in a + 1 .. n - 1 : c[x] # c[a],
           u[c[a]] \notin s,
           \A p \in lo .. hi - 1 : p # c[a] => (u[p] \in s <=> w[p] \in s)
    PROVE  Marks(u, s, lo, hi, c, a + 1, n)
<1> SUFFICES ASSUME NEW p \in lo .. hi - 1
             PROVE  u[p] \in s <=> \E x \in a + 1 .. n - 1 : c[x] = p
  BY DEF Marks
<1>1. w[p] \in s <=> \E x \in a .. n - 1 : c[x] = p
  BY DEF Marks
<1>2. CASE p = c[a]
  BY <1>2
<1>3. CASE p # c[a]
  <2>1. ASSUME NEW x \in a .. n - 1, c[x] = p PROVE x \in a + 1 .. n - 1
    BY <1>3, <2>1
  <2>2. a + 1 .. n - 1 \subseteq a .. n - 1
    OBVIOUS
  <2> QED
    BY <1>1, <1>3, <2>1, <2>2
<1> QED
  BY <1>2, <1>3

\* The pairs that were exchanged are dropped from the front of the buffer.
LEMMA MarksShifted ==
    ASSUME NEW w, NEW s, NEW lo, NEW hi, NEW c, NEW d, NEW a \in Nat, NEW n \in Nat,
           a <= n,
           Marks(w, s, lo, hi, c, a, n),
           \A x \in 0 .. n - a - 1 : d[x] = c[x + a]
    PROVE  Marks(w, s, lo, hi, d, 0, n - a)
<1> SUFFICES ASSUME NEW p \in lo .. hi - 1
             PROVE  w[p] \in s <=> \E x \in 0 .. n - a - 1 : d[x] = p
  BY DEF Marks
<1>1. w[p] \in s <=> \E x \in a .. n - 1 : c[x] = p
  BY DEF Marks
<1>2. ASSUME NEW x \in a .. n - 1, c[x] = p PROVE \E y \in 0 .. n - a - 1 : d[y] = p
  <2>1. x - a \in 0 .. n - a - 1 /\ (x - a) + a = x
    OBVIOUS
  <2> QED
    BY <1>2, <2>1
<1>3. ASSUME NEW x \in 0 .. n - a - 1, d[x] = p PROVE \E y \in a .. n - 1 : c[y] = p
  <2>1. x + a \in a .. n - 1
    OBVIOUS
  <2> QED
    BY <1>3, <2>1
<1> QED
  BY <1>1, <1>2, <1>3

\* The last marked element goes to the upper end, which is then given up.
DrainedUp(u, w, s, lo, hi, d, n) ==
    /\ Marks(u, s, lo, hi - 1, d, 0, n - 1)
    /\ u[hi - 1] \in s
    /\ \A x \in 0 .. n - 2 : d[x] \in lo .. hi - 2
    /\ \A p \in Pos \ (lo .. hi - 1) : u[p] = w[p]

\* A drain of the left buffer: the last marked element goes to the upper end of
\* the range, which moves down past it; the other offsets still mark the rest.
LEMMA MarksDrainedUp ==
    ASSUME NEW w \in [Pos -> Pos], NEW s, NEW lo \in Int, NEW hi \in Int,
           0 <= lo, hi <= N,
           NEW c, NEW d, NEW n \in Nat, n > 0,
           NEW u, u = Swap(w, c[n - 1], hi - 1),
           Marks(w, s, lo, hi, c, 0, n),
           \A x \in 0 .. n - 1 : c[x] \in lo .. hi - 1,
           \A x, y \in 0 .. n - 1 : x < y => c[x] < c[y],
           \A x \in 0 .. n - 2 : d[x] = c[x]
    PROVE  DrainedUp(u, w, s, lo, hi, d, n)
<1> USE NAssumption
<1>1. /\ n - 1 \in 0 .. n - 1 /\ c[n - 1] \in lo .. hi - 1 /\ hi - 1 \in lo .. hi - 1
      /\ c[n - 1] \in Pos /\ hi - 1 \in Pos
  BY DEF Pos
<1>2. /\ u[c[n - 1]] = w[hi - 1] /\ u[hi - 1] = w[c[n - 1]]
      /\ \A p \in Pos : p # c[n - 1] /\ p # hi - 1 => u[p] = w[p]
  BY <1>1, SwapCells
<1>3. u[hi - 1] \in s
  BY <1>1, <1>2 DEF Marks
<1>4. \A x \in 0 .. n - 2 : d[x] \in lo .. hi - 2 /\ d[x] # c[n - 1]
  <2> SUFFICES ASSUME NEW x \in 0 .. n - 2
               PROVE  d[x] \in lo .. hi - 2 /\ d[x] # c[n - 1]
    OBVIOUS
  <2>1. x \in 0 .. n - 1 /\ x < n - 1 /\ c[x] < c[n - 1] /\ d[x] = c[x]
    BY <1>1
  <2> QED
    BY <1>1, <2>1
<1>5. ASSUME NEW p \in lo .. hi - 2
      PROVE  u[p] \in s <=> \E x \in 0 .. n - 2 : d[x] = p
  <2>1. p \in Pos /\ p # hi - 1 /\ p \in lo .. hi - 1
    BY DEF Pos
  <2>2. w[p] \in s <=> \E x \in 0 .. n - 1 : c[x] = p
    BY <2>1 DEF Marks
  <2>3. CASE p = c[n - 1]
    <3>1. ASSUME NEW x \in 0 .. n - 1, c[x] = hi - 1 PROVE FALSE
      <4>1. x < n - 1 => c[x] < c[n - 1]
        BY <1>1
      <4> QED
        BY <1>1, <2>3, <3>1, <4>1
    <3>2. w[hi - 1] \notin s
      BY <1>1, <3>1 DEF Marks
    <3> QED
      BY <1>2, <1>4, <2>3, <3>2
  <2>4. CASE p # c[n - 1]
    <3>1. u[p] = w[p]
      BY <1>2, <2>1, <2>4
    <3>2. ASSUME NEW x \in 0 .. n - 1, c[x] = p PROVE x \in 0 .. n - 2 /\ d[x] = p
      <4>1. x # n - 1
        BY <2>4, <3>2
      <4>2. x \in 0 .. n - 2
        BY <4>1
      <4> QED
        BY <3>2, <4>2
    <3>3. ASSUME NEW x \in 0 .. n - 2, d[x] = p PROVE x \in 0 .. n - 1 /\ c[x] = p
      BY <3>3
    <3> QED
      BY <2>2, <3>1, <3>2, <3>3
  <2> QED
    BY <2>3, <2>4
<1>6. \A p \in Pos \ (lo .. hi - 1) : u[p] = w[p]
  BY <1>1, <1>2
<1>7. Marks(u, s, lo, hi - 1, d, 0, n - 1)
  <2>1. hi - 1 - 1 = hi - 2 /\ n - 1 - 1 = n - 2
    OBVIOUS
  <2> QED
    BY <1>5, <2>1 DEF Marks
<1> QED
  BY <1>3, <1>4, <1>6, <1>7 DEF DrainedUp

\* The last marked element goes to the lower end.
DrainedDown(u, w, s, lo, hi, d, n) ==
    /\ Marks(u, s, lo + 1, hi, d, 0, n - 1)
    /\ u[lo] \in s
    /\ \A x \in 0 .. n - 2 : d[x] \in lo + 1 .. hi - 1
    /\ \A p \in Pos \ (lo .. hi - 1) : u[p] = w[p]

\* A drain of the right buffer: the last marked element goes to the lower end of
\* the range, which moves up past it.
LEMMA MarksDrainedDown ==
    ASSUME NEW w \in [Pos -> Pos], NEW s, NEW lo \in Int, NEW hi \in Int,
           0 <= lo, hi <= N,
           NEW c, NEW d, NEW n \in Nat, n > 0,
           NEW u, u = Swap(w, c[n - 1], lo),
           Marks(w, s, lo, hi, c, 0, n),
           \A x \in 0 .. n - 1 : c[x] \in lo .. hi - 1,
           \A x, y \in 0 .. n - 1 : x < y => c[y] < c[x],
           \A x \in 0 .. n - 2 : d[x] = c[x]
    PROVE  DrainedDown(u, w, s, lo, hi, d, n)
<1> USE NAssumption
<1>1. /\ n - 1 \in 0 .. n - 1 /\ c[n - 1] \in lo .. hi - 1 /\ lo \in lo .. hi - 1
      /\ c[n - 1] \in Pos /\ lo \in Pos
  BY DEF Pos
<1>2. /\ u[c[n - 1]] = w[lo] /\ u[lo] = w[c[n - 1]]
      /\ \A p \in Pos : p # c[n - 1] /\ p # lo => u[p] = w[p]
  BY <1>1, SwapCells
<1>3. u[lo] \in s
  BY <1>1, <1>2 DEF Marks
<1>4. \A x \in 0 .. n - 2 : d[x] \in lo + 1 .. hi - 1 /\ d[x] # c[n - 1]
  <2> SUFFICES ASSUME NEW x \in 0 .. n - 2
               PROVE  d[x] \in lo + 1 .. hi - 1 /\ d[x] # c[n - 1]
    OBVIOUS
  <2>1. x \in 0 .. n - 1 /\ x < n - 1 /\ c[n - 1] < c[x] /\ d[x] = c[x]
    BY <1>1
  <2> QED
    BY <1>1, <2>1
<1>5. ASSUME NEW p \in lo + 1 .. hi - 1
      PROVE  u[p] \in s <=> \E x \in 0 .. n - 2 : d[x] = p
  <2>1. p \in Pos /\ p # lo /\ p \in lo .. hi - 1
    BY DEF Pos
  <2>2. w[p] \in s <=> \E x \in 0 .. n - 1 : c[x] = p
    BY <2>1 DEF Marks
  <2>3. CASE p = c[n - 1]
    <3>1. ASSUME NEW x \in 0 .. n - 1, c[x] = lo PROVE FALSE
      <4>1. x < n - 1 => c[n - 1] < c[x]
        BY <1>1
      <4> QED
        BY <1>1, <2>3, <3>1, <4>1
    <3>2. w[lo] \notin s
      BY <1>1, <3>1 DEF Marks
    <3> QED
      BY <1>2, <1>4, <2>3, <3>2
  <2>4. CASE p # c[n - 1]
    <3>1. u[p] = w[p]
      BY <1>2, <2>1, <2>4
    <3>2. ASSUME NEW x \in 0 .. n - 1, c[x] = p PROVE x \in 0 .. n - 2 /\ d[x] = p
      <4>1. x # n - 1
        BY <2>4, <3>2
      <4>2. x \in 0 .. n - 2
        BY <4>1
      <4> QED
        BY <3>2, <4>2
    <3>3. ASSUME NEW x \in 0 .. n - 2, d[x] = p PROVE x \in 0 .. n - 1 /\ c[x] = p
      BY <3>3
    <3> QED
      BY <2>2, <3>1, <3>2, <3>3
  <2> QED
    BY <2>3, <2>4
<1>6. \A p \in Pos \ (lo .. hi - 1) : u[p] = w[p]
  BY <1>1, <1>2
<1>7. Marks(u, s, lo + 1, hi, d, 0, n - 1)
  <2>1. n - 1 - 1 = n - 2
    OBVIOUS
  <2> QED
    BY <1>5, <2>1 DEF Marks
<1> QED
  BY <1>3, <1>4, <1>6, <1>7 DEF DrainedDown
-----------------------------------------------------------------------------
(***************************************************************************)
(* The inductive invariant.                                                *)
(***************************************************************************)
\* The cells the buffers point to, as functions.
CL == [s \in 0 .. numL - 1 |-> CellL(s)]
CR == [s \in 0 .. numR - 1 |-> CellR(s)]

\* The elements that are misplaced on the left of the boundary.
GoesRight == Pos \ GoesLeft

Opening  == pc \in {"scanL", "scanR", "pair"}
InLoop   == Filling \/ Exchanging
Draining == pc \in {"drainL", "drainR"}

\* The opening scans: what they have passed is on its side, the buffers are
\* empty, and the element the left scan stopped at does not go left.
Scanned ==
    Opening =>
        /\ numL = 0 /\ numR = 0 /\ startL = 0 /\ startR = 0
        /\ AllIn(v, GoesLeft, begin, first)
        /\ pc = "scanL" =>
              /\ last = end
              /\ form \in Unguarded => \E p \in first .. end - 1 : v[p] \notin GoesLeft
              /\ form = "off" => begin = pfxEnd \/ first = begin
        /\ pc \in {"scanL", "scanR"} => first <= last /\ NoneIn(v, GoesLeft, last, end)
        /\ pc \in {"scanR", "pair"} /\ first < last => v[first] \notin GoesLeft
        /\ pc = "pair" =>
              \/ first = last /\ NoneIn(v, GoesLeft, last, end)
              \/ /\ first # last /\ first <= last + 1 /\ last < end
                 /\ v[last] \in GoesLeft
                 /\ NoneIn(v, GoesLeft, last + 1, end)

\* The prefix that is not compared is still there, as far as the middle goes.
PrefixKept ==
    Opening \/ InLoop =>
        \A p \in first .. last - 1 : p < pfxEnd => Restored[p] \notin GoesLeft

\* Where the buffers start and how far a fill has got.
Fills ==
    /\ pc = "round" =>
          /\ numL = 0 => startL = 0 /\ baseL = first
          /\ numR = 0 => startR = 0 /\ baseR = last
    /\ pc = "fillL" =>
          /\ i <= splitL
          /\ first + (splitL - i) + splitR <= last
          /\ splitL > 0 => startL = 0 /\ baseL + i = first /\ numL <= i
          /\ splitR > 0 => startR = 0 /\ baseR = last /\ numR = 0
          /\ ByVector(splitL) => i % W = 0
    /\ pc = "fillR" =>
          /\ i <= splitR
          /\ first + (splitR - i) <= last
          /\ splitR > 0 => startR = 0 /\ baseR - i = last /\ numR <= i
          /\ ByVector(splitR) => i % W = 0
    /\ pc \in {"fillL", "fillR"} => k = 0
    /\ pc \in {"swap", "rotate"} => k <= Num
    /\ pc = "consume" => k = Num

\* The cells of the buffers lie in the scanned parts of the range, in order.
Cells ==
    InLoop \/ Draining =>
        /\ \A x \in 0 .. numL - 1 : CL[x] \in begin .. end - 1
        /\ \A x \in 0 .. numR - 1 : CR[x] \in begin .. end - 1
        /\ \A x, y \in 0 .. numL - 1 : x < y => CL[x] < CL[y]
        /\ \A x, y \in 0 .. numR - 1 : x < y => CR[y] < CR[x]
        /\ pc # "drainR" => \A x \in 0 .. numL - 1 : CL[x] < IF InLoop THEN first ELSE last
        /\ \A x \in 0 .. numR - 1 : CR[x] >= IF InLoop THEN last ELSE first

\* Outside the middle the misplaced elements are those of the buffers.
Misfits ==
    /\ InLoop =>
          /\ first <= last
          /\ Marks(Restored, GoesRight, begin, first, CL, Exch, numL)
          /\ Marks(Restored, GoesLeft, last, end, CR, Exch, numR)
    /\ pc \in {"round", "drainL", "drainR"} => numL = 0 \/ numR = 0
    /\ pc = "drainL" =>
          /\ Marks(v, GoesRight, begin, last, CL, 0, numL)
          /\ Marks(v, GoesLeft, last, end, CR, 0, numR)
          /\ numL = 0 => first = last
    /\ pc = "drainR" =>
          /\ numL = 0
          /\ AllIn(v, GoesLeft, begin, first)
          /\ Marks(v, GoesLeft, first, end, CR, 0, numR)
          /\ numR = 0 => first = last

\* On return the range is partitioned.
Returned == pc = "done" => Partitioned(v, GoesLeft, begin, first, end)

IInv ==
    /\ TypeOK /\ OneGap
    /\ Scanned /\ PrefixKept /\ Fills /\ Cells /\ Misfits /\ Returned
-----------------------------------------------------------------------------
(***************************************************************************)
(* Facts about one state, and about steps that leave parts of it alone.    *)
(***************************************************************************)
LEMMA Widths == N \in Nat /\ B \in Nat \ {0} /\ W \in Nat \ {0}
BY NAssumption, BAssumption, WAssumption

\* The numbers in a state.
LEMMA Numbers ==
    ASSUME TypeOK
    PROVE  /\ begin \in Int /\ end \in Int /\ 0 <= begin /\ begin <= end /\ end <= N
           /\ first \in begin .. end /\ last \in begin .. end /\ pfxEnd \in begin .. end
           /\ first \in Int /\ last \in Int /\ pfxEnd \in Int
           /\ numL \in 0 .. B /\ numR \in 0 .. B /\ startL \in Nat /\ startR \in Nat
           /\ baseL \in begin .. end /\ baseR \in begin .. end
           /\ splitL \in 0 .. B /\ splitR \in 0 .. B /\ i \in 0 .. B /\ k \in 0 .. B
           /\ Num \in 0 .. B /\ Num <= numL /\ Num <= numR /\ (Num = numL \/ Num = numR)
           /\ GoesLeft \subseteq Pos
<1> USE Widths
<1>1. /\ begin \in Int /\ end \in Int /\ 0 <= begin /\ begin <= end /\ end <= N
      /\ first \in begin .. end /\ last \in begin .. end /\ pfxEnd \in begin .. end
      /\ baseL \in begin .. end /\ baseR \in begin .. end
  <2>1. begin \in 0 .. N /\ end \in begin .. N
    BY DEF TypeOK
  <2>2. begin \in Int /\ end \in Int /\ 0 <= begin /\ begin <= end /\ end <= N
    BY <2>1
  <2> QED
    BY <2>2 DEF TypeOK
<1>2. first \in Int /\ last \in Int /\ pfxEnd \in Int
  BY <1>1
<1>3. /\ numL \in 0 .. B /\ numR \in 0 .. B /\ startL \in Nat /\ startR \in Nat
      /\ splitL \in 0 .. B /\ splitR \in 0 .. B /\ i \in 0 .. B /\ k \in 0 .. B
  BY DEF TypeOK
<1>4. Num \in 0 .. B /\ Num <= numL /\ Num <= numR /\ (Num = numL \/ Num = numR)
  <2>1. numL \in Int /\ numR \in Int /\ 0 <= numL /\ numL <= B /\ 0 <= numR /\ numR <= B
    BY <1>3
  <2>2. CASE numL < numR
    <3>1. Num = numL
      BY <2>2 DEF Num, Lesser
    <3> QED
      BY <2>1, <2>2, <3>1
  <2>3. CASE ~ (numL < numR)
    <3>1. Num = numR
      BY <2>3 DEF Num, Lesser
    <3> QED
      BY <2>1, <2>3, <3>1
  <2> QED
    BY <2>2, <2>3
<1>5. GoesLeft \subseteq Pos
  BY DEF TypeOK, GoesLeft
<1> QED
  BY <1>1, <1>2, <1>3, <1>4, <1>5

\* The cells of the buffers.
LEMMA CellValues ==
    ASSUME TypeOK
    PROVE  /\ \A s \in 0 .. numL - 1 : CL[s] = CellL(s) /\ CL[s] = baseL + offL[startL + s]
                                       /\ CL[s] \in Int
           /\ \A s \in 0 .. numR - 1 : CR[s] = CellR(s) /\ CR[s] = baseR - offR[startR + s]
                                       /\ CR[s] \in Int
<1>1. /\ numL \in 0 .. B /\ startL \in 0 .. B - numL /\ baseL \in Int
      /\ numR \in 0 .. B /\ startR \in 0 .. B - numR /\ baseR \in Int
      /\ offL \in [0 .. B - 1 -> 0 .. B - 1] /\ offR \in [0 .. B - 1 -> 0 .. B]
  BY Numbers DEF TypeOK
<1>2. ASSUME NEW s \in 0 .. numL - 1
      PROVE  CL[s] = CellL(s) /\ CL[s] = baseL + offL[startL + s] /\ CL[s] \in Int
  <2>1. startL + s \in 0 .. B - 1
    BY <1>1, Widths
  <2>2. offL[startL + s] \in Int
    BY <1>1, <2>1, Widths
  <2> QED
    BY <1>1, <2>2 DEF CL, CellL
<1>3. ASSUME NEW s \in 0 .. numR - 1
      PROVE  CR[s] = CellR(s) /\ CR[s] = baseR - offR[startR + s] /\ CR[s] \in Int
  <2>1. startR + s \in 0 .. B - 1
    BY <1>1, Widths
  <2>2. offR[startR + s] \in Int
    BY <1>1, <2>1, Widths
  <2> QED
    BY <1>1, <2>2 DEF CR, CellR
<1> QED
  BY <1>2, <1>3

\* The cells of the left buffer depend on nothing but the buffer.
LEMMA SameLeft == ASSUME UNCHANGED left PROVE CL' = CL
BY DEF left, CL, CellL

\* The cells of the right buffer depend on nothing but the buffer.
LEMMA SameRight == ASSUME UNCHANGED right PROVE CR' = CR
BY DEF right, CR, CellR

\* The sides of the predicate and the range are part of the call's arguments.
LEMMA SameArgs ==
    ASSUME UNCHANGED args
    PROVE  /\ GoesLeft' = GoesLeft /\ GoesRight' = GoesRight
           /\ begin' = begin /\ end' = end /\ pfxEnd' = pfxEnd /\ form' = form /\ below' = below
BY DEF args, GoesLeft, GoesRight

\* Outside a rotation the array is whole.
LEMMA Whole ==
    /\ pc # "rotate" \/ k = 0 => ~Rotating /\ Restored = v
    /\ OneGap /\ (pc # "rotate" \/ k = 0) => v \in [Pos -> Pos] /\ IsArrangement(v)
<1>1. pc # "rotate" \/ k = 0 => ~Rotating /\ Restored = v
  BY DEF Rotating, Restored
<1> QED
  BY <1>1 DEF OneGap, IsArrangement

\* The same, of the next state.
LEMMA WholeNext ==
    /\ pc' # "rotate" \/ k' = 0 => ~Rotating' /\ Restored' = v'
    /\ IsArrangement(v') /\ (pc' # "rotate" \/ k' = 0) => OneGap'
<1>1. pc' # "rotate" \/ k' = 0 => ~Rotating' /\ Restored' = v'
  BY DEF Rotating, Restored
<1> QED
  BY <1>1 DEF OneGap

\* What a step may do to the array: the refinement needs no more.
Moved == IsArrangement(Restored') /\ SameOutside(Restored, Restored', begin, end)

\* A step that moves nothing.
LEMMA NothingMoved ==
    ASSUME OneGap, v' = v, pc # "rotate" \/ k = 0, pc' # "rotate" \/ k' = 0
    PROVE  OneGap' /\ Moved /\ Restored' = v /\ Restored = v
<1>1. IsArrangement(v) /\ Restored = v
  BY Whole
<1>2. Restored' = v' /\ OneGap'
  BY <1>1, WholeNext
<1> QED
  BY <1>1, <1>2 DEF Moved, SameOutside
-----------------------------------------------------------------------------
(***************************************************************************)
(* The initial states.                                                     *)
(***************************************************************************)
LEMMA InitIInv == Init => IInv
<1> SUFFICES ASSUME Init PROVE IInv
  OBVIOUS
<1> USE Widths
<1>1. TypeOK
  <2>1. /\ v \in [Pos -> Pos \cup {Hole}]
        /\ below \in SUBSET Pos /\ form \in Forms
        /\ begin \in 0 .. N /\ end \in begin .. N /\ pfxEnd \in begin .. end
    BY DEF Init
  <2>2. /\ first \in begin .. end /\ last \in begin .. end
        /\ baseL \in begin .. end /\ baseR \in begin .. end
    BY DEF Init
  <2>3. /\ offL \in [0 .. B - 1 -> 0 .. B - 1] /\ offR \in [0 .. B - 1 -> 0 .. B]
        /\ numL \in 0 .. B /\ startL \in 0 .. B - numL
        /\ numR \in 0 .. B /\ startR \in 0 .. B - numR
        /\ splitL \in 0 .. B /\ splitR \in 0 .. B /\ i \in 0 .. B /\ k \in 0 .. B
        /\ tmp = Hole /\ pc = "scanL"
    BY DEF Init
  <2> QED
    BY <2>1, <2>2, <2>3 DEF TypeOK
<1>2. IsArrangement(v) /\ pc = "scanL" /\ Restored = v /\ ~Rotating
  BY DEF Init, IsArrangement, Pos, Restored, Rotating
<1>3. OneGap
  BY <1>2 DEF OneGap
<1>4. Scanned
  <2>1. /\ first = begin /\ last = end /\ begin \in Int /\ end \in Int /\ begin <= end
        /\ numL = 0 /\ numR = 0 /\ startL = 0 /\ startR = 0
        /\ form \in Unguarded => \E p \in begin .. end - 1 : v[p] \notin GoesLeft
    BY DEF Init
  <2> QED
    BY <1>2, <2>1 DEF Scanned, AllIn, NoneIn
<1>5. PrefixKept
  <2>1. first = begin /\ NoneIn(v, GoesLeft, begin, pfxEnd) /\ begin \in Int /\ end \in Int
        /\ pfxEnd \in begin .. end /\ last = end
    BY DEF Init
  <2> QED
    BY <1>2, <2>1 DEF PrefixKept, NoneIn
<1>6. Fills /\ Cells /\ Misfits /\ Returned
  BY <1>2 DEF Fills, Cells, Misfits, Returned, InLoop, Draining, Filling, Exchanging
<1> QED
  BY <1>1, <1>3, <1>4, <1>5, <1>6 DEF IInv
-----------------------------------------------------------------------------
(***************************************************************************)
(* The opening scans.                                                      *)
(***************************************************************************)
\* What every step of the scans leaves alone.
LEMMA ScanFrame ==
    ASSUME IInv, Opening, UNCHANGED <<v, args, left, right, round>>,
           first' \in begin .. end, last' \in begin .. end,
           pc' \in {"scanL", "scanR", "pair", "done"}
    PROVE  TypeOK' /\ OneGap' /\ Moved /\ Restored' = v /\ Restored = v
<1>1. TypeOK /\ OneGap /\ pc # "rotate" /\ pc' # "rotate"
  BY DEF IInv, Opening
<1>2. OneGap' /\ Moved /\ Restored' = v /\ Restored = v
  BY <1>1, NothingMoved
<1>3. TypeOK'
  BY <1>1 DEF TypeOK, args, left, right, round
<1> QED
  BY <1>2, <1>3

\* A step that stays within the opening scans says nothing of the later phases.
LEMMA LaterPhases ==
    ASSUME pc' \in {"scanL", "scanR", "pair"}
    PROVE  Fills' /\ Cells' /\ Misfits' /\ Returned'
BY DEF Fills, Cells, Misfits, Returned, InLoop, Draining, Filling, Exchanging

\* The left scan passes an element that goes left; unguarded, one that stops it
\* is still ahead.
LEMMA SkipLeftStep == ASSUME IInv, SkipLeft PROVE IInv' /\ Moved
<1>1. TypeOK /\ Scanned /\ PrefixKept /\ Opening /\ pc = "scanL"
  BY DEF IInv, SkipLeft, Opening
<1>2. /\ v' = v /\ last' = last /\ first' = first + 1 /\ pc' = "scanL"
      /\ UNCHANGED <<args, left, right, round>>
      /\ v[first] \in GoesLeft
      /\ form \notin Unguarded => first < last
      /\ form = "off" => begin = pfxEnd
  BY DEF SkipLeft, LeftScans
<1>3. /\ begin \in Int /\ end \in Int /\ first \in Int /\ last \in Int
      /\ begin <= first /\ first <= end /\ begin <= last
  BY <1>1, Numbers
<1>4. /\ last = end /\ numL = 0 /\ numR = 0 /\ startL = 0 /\ startR = 0
      /\ AllIn(v, GoesLeft, begin, first) /\ NoneIn(v, GoesLeft, last, end)
      /\ form \in Unguarded => \E p \in first .. end - 1 : v[p] \notin GoesLeft
  BY <1>1 DEF Scanned
<1>5. /\ first < end
      /\ form \in Unguarded => \E p \in first + 1 .. end - 1 : v[p] \notin GoesLeft
  <2>1. CASE form \in Unguarded
    <3>1. PICK p \in first .. end - 1 : v[p] \notin GoesLeft
      BY <1>4, <2>1
    <3>2. p # first
      BY <1>2, <3>1
    <3>3. p \in first + 1 .. end - 1 /\ first < end
      BY <1>3, <3>2
    <3> QED
      BY <3>1, <3>3
  <2>2. CASE form \notin Unguarded
    BY <1>2, <1>4, <2>2
  <2> QED
    BY <2>1, <2>2
<1>6. TypeOK' /\ OneGap' /\ Moved /\ Restored' = v /\ Restored = v
  <2>1. first' \in begin .. end /\ last' \in begin .. end
    BY <1>2, <1>3, <1>4, <1>5
  <2> QED
    BY <1>1, <1>2, <2>1, ScanFrame
<1>7. Scanned'
  <2>1. AllIn(v, GoesLeft, begin, first + 1)
    BY <1>2, <1>3, <1>4 DEF AllIn
  <2>2. /\ numL' = 0 /\ numR' = 0 /\ startL' = 0 /\ startR' = 0
        /\ GoesLeft' = GoesLeft /\ begin' = begin /\ end' = end /\ form' = form
        /\ pfxEnd' = pfxEnd
    BY <1>2, <1>4, SameArgs DEF left, right
  <2> QED
    BY <1>2, <1>3, <1>4, <1>5, <2>1, <2>2 DEF Scanned
<1>8. PrefixKept'
  <2>1. GoesLeft' = GoesLeft /\ pfxEnd' = pfxEnd
    BY <1>2, SameArgs
  <2>2. \A p \in first .. last - 1 : p < pfxEnd => v[p] \notin GoesLeft
    BY <1>1, <1>6 DEF PrefixKept
  <2> QED
    BY <1>2, <1>3, <1>6, <2>1, <2>2 DEF PrefixKept
<1> QED
  BY <1>2, <1>6, <1>7, <1>8, LaterPhases DEF IInv

\* The left scan stops, and the right one starts from the end of the range.
LEMMA LeftStopsStep == ASSUME IInv, LeftStops PROVE IInv' /\ Moved
<1>1. TypeOK /\ Scanned /\ PrefixKept /\ Opening /\ pc = "scanL"
  BY DEF IInv, LeftStops, Opening
<1>2. /\ v' = v /\ last' = last /\ first' = first /\ pc' = "scanR"
      /\ UNCHANGED <<args, left, right, round>> /\ ~LeftScans
  BY DEF LeftStops
<1>3. /\ begin \in Int /\ end \in Int /\ first \in Int /\ last \in Int /\ pfxEnd \in Int
      /\ begin <= first /\ first <= end /\ begin <= last /\ last <= end /\ begin <= pfxEnd
      /\ first \in begin .. end /\ last \in begin .. end
  BY <1>1, Numbers
<1>4. /\ last = end /\ numL = 0 /\ numR = 0 /\ startL = 0 /\ startR = 0 /\ first <= last
      /\ AllIn(v, GoesLeft, begin, first) /\ NoneIn(v, GoesLeft, last, end)
      /\ form = "off" => begin = pfxEnd \/ first = begin
  BY <1>1 DEF Scanned
<1>5. TypeOK' /\ OneGap' /\ Moved /\ Restored' = v /\ Restored = v
  BY <1>1, <1>2, <1>3, ScanFrame
<1>6. \A p \in first .. last - 1 : p < pfxEnd => v[p] \notin GoesLeft
  BY <1>1, <1>5 DEF PrefixKept
<1>7. first < last => v[first] \notin GoesLeft
  <2> SUFFICES ASSUME first < last, v[first] \in GoesLeft PROVE FALSE
    OBVIOUS
  <2>1. form = "off" /\ begin # pfxEnd
    BY <1>2 DEF LeftScans
  <2>2. first = begin /\ first < pfxEnd
    BY <1>3, <1>4, <2>1
  <2> QED
    BY <1>3, <1>6, <2>2
<1>8. Scanned'
  <2>1. /\ numL' = 0 /\ numR' = 0 /\ startL' = 0 /\ startR' = 0
        /\ GoesLeft' = GoesLeft /\ begin' = begin /\ end' = end /\ form' = form
    BY <1>2, <1>4, SameArgs DEF left, right
  <2> QED
    BY <1>2, <1>4, <1>7, <2>1 DEF Scanned
<1>9. PrefixKept'
  <2>1. GoesLeft' = GoesLeft /\ pfxEnd' = pfxEnd
    BY <1>2, SameArgs
  <2> QED
    BY <1>2, <1>5, <1>6, <2>1 DEF PrefixKept
<1> QED
  BY <1>2, <1>5, <1>8, <1>9, LaterPhases DEF IInv

\* The right scan passes an element that goes right and never the left scan.
LEMMA SkipRightStep == ASSUME IInv, SkipRight PROVE IInv' /\ Moved
<1>1. TypeOK /\ Scanned /\ PrefixKept /\ Opening /\ pc = "scanR"
  BY DEF IInv, SkipRight, Opening
<1>2. /\ v' = v /\ last' = last - 1 /\ first' = first /\ pc' = "scanR"
      /\ UNCHANGED <<args, left, right, round>>
      /\ v[last - 1] \notin GoesLeft
      /\ first = begin => begin < last
  BY DEF SkipRight, RightScans
<1>3. /\ begin \in Int /\ end \in Int /\ first \in Int /\ last \in Int
      /\ begin <= first /\ first <= end /\ begin <= last /\ last <= end
  BY <1>1, Numbers
<1>4. /\ numL = 0 /\ numR = 0 /\ startL = 0 /\ startR = 0 /\ first <= last
      /\ AllIn(v, GoesLeft, begin, first) /\ NoneIn(v, GoesLeft, last, end)
      /\ first < last => v[first] \notin GoesLeft
  BY <1>1 DEF Scanned
<1>5. first < last
  <2>1. CASE first = begin
    BY <1>2, <2>1
  <2>2. CASE first # begin /\ first = last
    <3>1. last - 1 \in begin .. first - 1
      BY <1>3, <2>2
    <3> QED
      BY <1>2, <1>4, <3>1 DEF AllIn
  <2> QED
    BY <1>3, <1>4, <2>1, <2>2
<1>6. TypeOK' /\ OneGap' /\ Moved /\ Restored' = v /\ Restored = v
  <2>1. first' \in begin .. end /\ last' \in begin .. end
    BY <1>2, <1>3, <1>5
  <2> QED
    BY <1>1, <1>2, <2>1, ScanFrame
<1>7. Scanned'
  <2>1. NoneIn(v, GoesLeft, last - 1, end)
    BY <1>2, <1>3, <1>4 DEF NoneIn
  <2>2. /\ numL' = 0 /\ numR' = 0 /\ startL' = 0 /\ startR' = 0
        /\ GoesLeft' = GoesLeft /\ begin' = begin /\ end' = end
    BY <1>2, <1>4, SameArgs DEF left, right
  <2> QED
    BY <1>2, <1>3, <1>4, <1>5, <2>1, <2>2 DEF Scanned
<1>8. PrefixKept'
  <2>1. GoesLeft' = GoesLeft /\ pfxEnd' = pfxEnd
    BY <1>2, SameArgs
  <2>2. \A p \in first .. last - 1 : p < pfxEnd => v[p] \notin GoesLeft
    BY <1>1, <1>6 DEF PrefixKept
  <2> QED
    BY <1>2, <1>3, <1>6, <2>1, <2>2 DEF PrefixKept
<1> QED
  BY <1>2, <1>6, <1>7, <1>8, LaterPhases DEF IInv

\* The right scan stops beside the misplaced pair, or at the left scan.
LEMMA RightStopsStep == ASSUME IInv, RightStops PROVE IInv' /\ Moved
<1>1. TypeOK /\ Scanned /\ PrefixKept /\ Opening /\ pc = "scanR"
  BY DEF IInv, RightStops, Opening
<1>2. /\ v' = v /\ first' = first /\ pc' = "pair"
      /\ UNCHANGED <<args, left, right, round>>
      /\ \/ first = begin /\ ~(begin < last) /\ last' = last
         \/ /\ first = begin => begin < last
            /\ v[last - 1] \in GoesLeft /\ last' = last - 1
  BY DEF RightStops, RightScans
<1>3. /\ begin \in Int /\ end \in Int /\ first \in Int /\ last \in Int
      /\ begin <= first /\ first <= end /\ begin <= last /\ last <= end
  BY <1>1, Numbers
<1>4. /\ numL = 0 /\ numR = 0 /\ startL = 0 /\ startR = 0 /\ first <= last
      /\ AllIn(v, GoesLeft, begin, first) /\ NoneIn(v, GoesLeft, last, end)
      /\ first < last => v[first] \notin GoesLeft
  BY <1>1 DEF Scanned
<1>5. \/ first = last /\ last' = last
      \/ /\ last' = last - 1 /\ last - 1 \in begin .. end - 1 /\ first # last - 1
         /\ v[last - 1] \in GoesLeft
  <2>1. CASE first = begin /\ ~(begin < last) /\ last' = last
    BY <1>3, <2>1
  <2>2. CASE /\ first = begin => begin < last
             /\ v[last - 1] \in GoesLeft /\ last' = last - 1
    <3>1. last - 1 \in begin .. end - 1
      BY <1>3, <1>4, <2>2
    <3>2. first # last - 1
      BY <1>3, <1>4, <2>2
    <3> QED
      BY <2>2, <3>1, <3>2
  <2> QED
    BY <1>2, <2>1, <2>2
<1>6. TypeOK' /\ OneGap' /\ Moved /\ Restored' = v /\ Restored = v
  <2>1. first' \in begin .. end /\ last' \in begin .. end
    BY <1>2, <1>3, <1>5
  <2> QED
    BY <1>1, <1>2, <2>1, ScanFrame
<1>7. Scanned'
  <2>1. /\ numL' = 0 /\ numR' = 0 /\ startL' = 0 /\ startR' = 0
        /\ GoesLeft' = GoesLeft /\ begin' = begin /\ end' = end
    BY <1>2, <1>4, SameArgs DEF left, right
  <2>2. \/ first = last' /\ NoneIn(v, GoesLeft, last', end)
        \/ /\ first # last' /\ first <= last' + 1 /\ last' < end
           /\ v[last'] \in GoesLeft
           /\ NoneIn(v, GoesLeft, last' + 1, end)
    <3>1. CASE last' = last /\ first = last
      BY <1>4, <3>1
    <3>2. CASE last' = last - 1 /\ last - 1 \in begin .. end - 1 /\ first # last - 1
               /\ v[last - 1] \in GoesLeft
      <4>1. last' + 1 = last
        BY <1>3, <3>2
      <4> QED
        BY <1>3, <1>4, <3>2, <4>1
    <3> QED
      BY <1>5, <3>1, <3>2
  <2>3. first < last' => v[first] \notin GoesLeft
    BY <1>3, <1>4, <1>5
  <2> QED
    BY <1>2, <1>4, <2>1, <2>2, <2>3 DEF Scanned
<1>8. PrefixKept'
  <2>1. GoesLeft' = GoesLeft /\ pfxEnd' = pfxEnd
    BY <1>2, SameArgs
  <2>2. \A p \in first .. last - 1 : p < pfxEnd => v[p] \notin GoesLeft
    BY <1>1, <1>6 DEF PrefixKept
  <2>3. first .. last' - 1 \subseteq first .. last - 1
    BY <1>3, <1>5
  <2> QED
    BY <1>2, <1>6, <2>1, <2>2, <2>3 DEF PrefixKept
<1> QED
  BY <1>2, <1>6, <1>7, <1>8, LaterPhases DEF IInv

\* Scans that meet have found the boundary: there is nothing to exchange.
LEMMA AlreadyPartitionedStep == ASSUME IInv, AlreadyPartitioned PROVE IInv' /\ Moved
<1>1. TypeOK /\ Scanned /\ Opening /\ pc = "pair" /\ first >= last
  BY DEF IInv, AlreadyPartitioned, Opening
<1>2. /\ v' = v /\ first' = first /\ last' = last /\ pc' = "done"
      /\ UNCHANGED <<args, left, right, round>>
  BY DEF AlreadyPartitioned
<1>3. /\ begin \in Int /\ end \in Int /\ first \in Int /\ last \in Int
      /\ first \in begin .. end /\ last \in begin .. end
  BY <1>1, Numbers
<1>4. TypeOK' /\ OneGap' /\ Moved
  BY <1>1, <1>2, <1>3, ScanFrame
<1>5. AllIn(v, GoesLeft, begin, first) /\ NoneIn(v, GoesLeft, first, end)
  <2>1. /\ AllIn(v, GoesLeft, begin, first)
        /\ \/ first = last /\ NoneIn(v, GoesLeft, last, end)
           \/ first # last /\ first <= last + 1 /\ NoneIn(v, GoesLeft, last + 1, end)
    BY <1>1 DEF Scanned
  <2>2. first # last /\ first <= last + 1 => first = last + 1
    BY <1>1, <1>3
  <2> QED
    BY <2>1, <2>2
<1>6. Returned'
  <2>1. GoesLeft' = GoesLeft /\ begin' = begin /\ end' = end
    BY <1>2, SameArgs
  <2> QED
    BY <1>2, <1>3, <1>5, <2>1 DEF Returned, Partitioned
<1>7. Scanned' /\ PrefixKept' /\ Fills' /\ Cells' /\ Misfits'
  BY <1>2 DEF Scanned, PrefixKept, Fills, Cells, Misfits, Opening, InLoop, Draining,
              Filling, Exchanging
<1> QED
  BY <1>4, <1>6, <1>7 DEF IInv

\* The first pair is exchanged, and the buffers start beside it.
LEMMA FirstPairStep == ASSUME IInv, FirstPair PROVE IInv' /\ Moved
<1>1. TypeOK /\ OneGap /\ Scanned /\ PrefixKept /\ Opening /\ pc = "pair" /\ first < last
  BY DEF IInv, FirstPair, Opening
<1>2. /\ v' = Swap(v, first, last) /\ first' = first + 1 /\ last' = last
      /\ baseL' = first + 1 /\ baseR' = last /\ pc' = "round"
      /\ UNCHANGED <<args, offL, numL, startL, offR, numR, startR, round>>
  BY DEF FirstPair
<1>3. /\ begin \in Int /\ end \in Int /\ first \in Int /\ last \in Int /\ N \in Int
      /\ 0 <= begin /\ begin <= first /\ first <= end /\ begin <= last /\ last <= end /\ end <= N
  BY <1>1, Numbers, Widths
<1>4. /\ numL = 0 /\ numR = 0 /\ startL = 0 /\ startR = 0
      /\ AllIn(v, GoesLeft, begin, first) /\ v[first] \notin GoesLeft
      /\ last < end /\ v[last] \in GoesLeft /\ NoneIn(v, GoesLeft, last + 1, end)
  BY <1>1, <1>3 DEF Scanned
<1>5. first \in Pos /\ last \in Pos
  BY <1>1, <1>3, <1>4 DEF Pos
<1>6. v \in [Pos -> Pos] /\ IsArrangement(v) /\ Restored = v
  BY <1>1, Whole
<1>7. /\ IsArrangement(v')
      /\ v' \in [Pos -> Pos]
      /\ v'[first] = v[last] /\ v'[last] = v[first]
      /\ \A p \in Pos : p # first /\ p # last => v'[p] = v[p]
  <2>1. PICK u, w, l, r : u = v' /\ w = v /\ l = first /\ r = last
    OBVIOUS
  <2>2. l \in Pos /\ r \in Pos /\ u = Swap(w, l, r) /\ IsArrangement(w) /\ w \in [Pos -> Pos]
    BY <1>2, <1>5, <1>6, <2>1
  <2>3. /\ IsArrangement(u) /\ u[l] = w[r] /\ u[r] = w[l]
        /\ \A p \in Pos : p # l /\ p # r => u[p] = w[p]
    BY <2>2, ExchangeRearranges
  <2>4. u \in [Pos -> Pos]
    BY <2>3 DEF IsArrangement
  <2> QED
    BY <2>1, <2>3, <2>4
<1>8. OneGap' /\ Restored' = v'
  BY <1>2, <1>7, WholeNext
<1>9. Moved
  BY <1>1, <1>3, <1>4, <1>6, <1>7, <1>8 DEF Moved, SameOutside
<1>10. TypeOK'
  <2>1. first' \in begin .. end /\ baseL' \in begin .. end /\ baseR' \in begin .. end
    BY <1>1, <1>2, <1>3
  <2>2. v' \in [Pos -> Pos \cup {Hole}]
    BY <1>7
  <2> QED
    BY <1>1, <1>2, <2>1, <2>2 DEF TypeOK, args, round
<1>11. /\ GoesLeft' = GoesLeft /\ GoesRight' = GoesRight
       /\ begin' = begin /\ end' = end /\ pfxEnd' = pfxEnd
  BY <1>2, SameArgs
<1>12. PrefixKept'
  <2>1. \A p \in first .. last - 1 : p < pfxEnd => v[p] \notin GoesLeft
    BY <1>1, <1>6 DEF PrefixKept
  <2>2. \A p \in first + 1 .. last - 1 : p \in Pos /\ v'[p] = v[p] /\ p \in first .. last - 1
    <3>1. ASSUME NEW p \in first + 1 .. last - 1
          PROVE  p \in Pos /\ p # first /\ p # last /\ p \in first .. last - 1
      BY <1>3 DEF Pos
    <3> QED
      BY <1>7, <3>1
  <2> QED
    BY <1>2, <1>8, <1>11, <2>1, <2>2 DEF PrefixKept
<1>13. Fills'
  BY <1>2, <1>4 DEF Fills
<1>14. numL' = 0 /\ numR' = 0 /\ Exch' = 0
  BY <1>2, <1>4 DEF Exch, Exchanging
<1>15. Cells'
  BY <1>2, <1>14 DEF Cells
<1>16. Misfits'
  <2>1. Marks(v', GoesRight, begin, first + 1, CL', 0, 0)
    <3>1. ASSUME NEW p \in begin .. first PROVE v'[p] \in GoesLeft
      <4>1. CASE p = first
        BY <1>4, <1>7, <4>1
      <4>2. CASE p # first
        <5>1. p \in begin .. first - 1 /\ p \in Pos /\ p # last
          BY <1>1, <1>3, <4>2 DEF Pos
        <5> QED
          BY <1>4, <1>7, <4>2, <5>1 DEF AllIn
      <4> QED
        BY <4>1, <4>2
    <3> QED
      BY <1>3, <3>1 DEF Marks, GoesRight
  <2>2. Marks(v', GoesLeft, last, end, CR', 0, 0)
    <3>1. ASSUME NEW p \in last .. end - 1 PROVE v'[p] \notin GoesLeft
      <4>1. CASE p = last
        BY <1>4, <1>7, <4>1
      <4>2. CASE p # last
        <5>1. p \in last + 1 .. end - 1 /\ p \in Pos /\ p # first
          BY <1>1, <1>3, <4>2 DEF Pos
        <5> QED
          BY <1>4, <1>7, <4>2, <5>1 DEF NoneIn
      <4> QED
        BY <4>1, <4>2
    <3> QED
      BY <3>1 DEF Marks
  <2>3. first + 1 <= last
    BY <1>1, <1>3
  <2> QED
    BY <1>2, <1>8, <1>11, <1>14, <2>1, <2>2, <2>3 DEF Misfits
<1>17. Scanned' /\ Returned'
  BY <1>2 DEF Scanned, Returned, Opening
<1> QED
  BY <1>8, <1>9, <1>10, <1>12, <1>13, <1>15, <1>16, <1>17 DEF IInv
-----------------------------------------------------------------------------
(***************************************************************************)
(* The steps of the loop that move neither elements nor cursors.           *)
(***************************************************************************)
LEMMA QuietFrame ==
    ASSUME IInv, UNCHANGED <<v, args, first, last, left, right>>,
           pc # "rotate" \/ k = 0, pc' # "rotate" \/ k' = 0
    PROVE  /\ OneGap' /\ Moved /\ Restored' = v /\ Restored = v
           /\ CL' = CL /\ CR' = CR /\ Num' = Num
           /\ GoesLeft' = GoesLeft /\ GoesRight' = GoesRight
           /\ begin' = begin /\ end' = end /\ pfxEnd' = pfxEnd /\ form' = form
           /\ first' = first /\ last' = last
           /\ numL' = numL /\ startL' = startL /\ baseL' = baseL
           /\ numR' = numR /\ startR' = startR /\ baseR' = baseR
<1>1. OneGap' /\ Moved /\ Restored' = v /\ Restored = v
  BY NothingMoved DEF IInv
<1>2. CL' = CL /\ CR' = CR
  BY SameLeft, SameRight
<1>3. numL' = numL /\ numR' = numR
  BY DEF left, right
<1> QED
  BY <1>1, <1>2, <1>3, SameArgs DEF Num, Lesser, left, right

\* Within the loop and with nothing exchanged, the parts about the two sides
\* are kept as they are.
LEMMA QuietLoop ==
    ASSUME IInv, InLoop, UNCHANGED <<v, args, first, last, left, right>>,
           pc # "rotate" \/ k = 0, pc' # "rotate" \/ k' = 0,
           pc' \in {"fillL", "fillR", "swap", "rotate", "consume"}, Exch' = Exch,
           splitL' \in 0 .. B, splitR' \in 0 .. B, i' \in 0 .. B, k' \in 0 .. B, tmp' = tmp,
           Fills'
    PROVE  IInv' /\ Moved
<1>1. /\ OneGap' /\ Moved /\ Restored' = v /\ Restored = v
      /\ CL' = CL /\ CR' = CR
      /\ GoesLeft' = GoesLeft /\ GoesRight' = GoesRight
      /\ begin' = begin /\ end' = end /\ pfxEnd' = pfxEnd
      /\ first' = first /\ last' = last
      /\ numL' = numL /\ numR' = numR
  BY QuietFrame
<1>2. InLoop' /\ ~Opening'
  BY DEF InLoop, Opening, Filling, Exchanging
<1>3. TypeOK /\ PrefixKept /\ Cells /\ Misfits
  BY DEF IInv
<1>4. TypeOK'
  BY <1>3 DEF TypeOK, args, left, right
<1>5. PrefixKept'
  BY <1>1, <1>3 DEF PrefixKept
<1>6. Cells'
  <2> USE <1>3 DEF Cells
  <2>1. /\ \A x \in 0 .. numL - 1 : CL[x] \in begin .. end - 1 /\ CL[x] < first
        /\ \A x \in 0 .. numR - 1 : CR[x] \in begin .. end - 1 /\ CR[x] >= last
    BY DEF InLoop, Filling, Exchanging
  <2>2. /\ \A x, y \in 0 .. numL - 1 : x < y => CL[x] < CL[y]
        /\ \A x, y \in 0 .. numR - 1 : x < y => CR[y] < CR[x]
    OBVIOUS
  <2> QED
    BY <1>1, <1>2, <2>1, <2>2
<1>7. Misfits'
  <2>1. /\ first <= last
        /\ Marks(v, GoesRight, begin, first, CL, Exch, numL)
        /\ Marks(v, GoesLeft, last, end, CR, Exch, numR)
    BY <1>1, <1>3 DEF Misfits
  <2>2. /\ Marks(v, GoesRight, begin, first, CL, Exch, numL)'
        /\ Marks(v, GoesLeft, last, end, CR, Exch, numR)'
    BY <1>1, <2>1 DEF Marks
  <2>3. pc' \notin {"round", "drainL", "drainR"}
    OBVIOUS
  <2> QED
    BY <1>1, <2>1, <2>2, <2>3 DEF Misfits, Marks
<1>8. Scanned' /\ Returned'
  BY <1>2 DEF Scanned, Returned
<1> QED
  BY <1>1, <1>4, <1>5, <1>6, <1>7, <1>8 DEF IInv

\* A round's split: a buffer with offsets left in it is not filled, and the
\* blocks to be read fit both the buffers and the unknown middle.
LEMMA NewRoundStep == ASSUME IInv, NewRound PROVE IInv' /\ Moved
<1> DEFINE unknown == last - first
           l == CASE numL # 0              -> 0
                  [] numL = 0 /\ numR # 0  -> unknown
                  [] OTHER                 -> unknown \div 2
           r == IF numR = 0 THEN unknown - l ELSE 0
<1>1. /\ pc = "round" /\ first < last /\ pc' = "fillL" /\ i' = 0 /\ k' = 0 /\ tmp' = tmp
      /\ UNCHANGED <<v, args, first, last, left, right>>
      /\ splitL' = Lesser(l, B) /\ splitR' = Lesser(r, B)
  BY DEF NewRound
<1>2. TypeOK /\ Fills
  BY DEF IInv
<1>3. first \in Int /\ last \in Int /\ numL \in 0 .. B /\ numR \in 0 .. B /\ B \in Nat \ {0}
  BY <1>2, Numbers, Widths
<1>4. unknown \in Nat /\ unknown > 0
  BY <1>1, <1>3
<1>5. unknown \div 2 \in 0 .. unknown
  BY <1>4
<1> HIDE DEF unknown
<1>6. l \in 0 .. unknown /\ r \in 0 .. unknown /\ l + r <= unknown
      /\ (numL # 0 => l = 0) /\ (numR # 0 => r = 0)
  <2>1. l \in 0 .. unknown /\ (numL # 0 => l = 0)
    <3>1. CASE numL # 0
      BY <1>4, <3>1
    <3>2. CASE numL = 0 /\ numR # 0
      <4>1. l = unknown
        BY <3>2
      <4> QED
        BY <1>4, <3>2, <4>1
    <3>3. CASE numL = 0 /\ numR = 0
      <4>1. l = unknown \div 2
        BY <3>3
      <4> QED
        BY <1>5, <3>3, <4>1
    <3> QED
      BY <3>1, <3>2, <3>3
  <2> HIDE DEF l
  <2>2. r = IF numR = 0 THEN unknown - l ELSE 0
    OBVIOUS
  <2> HIDE DEF r
  <2> QED
    BY <1>4, <2>1, <2>2
<1> HIDE DEF l, r
<1>7. /\ splitL' \in 0 .. B /\ splitR' \in 0 .. B /\ splitL' <= l /\ splitR' <= r
      /\ (numL # 0 => splitL' = 0) /\ (numR # 0 => splitR' = 0)
  BY <1>1, <1>3, <1>4, <1>6 DEF Lesser
<1>8. /\ first' = first /\ last' = last
      /\ numL' = numL /\ startL' = startL /\ baseL' = baseL
      /\ numR' = numR /\ startR' = startR /\ baseR' = baseR
  BY <1>1 DEF left, right
<1>9. Fills'
  <2>1. first + splitL' + splitR' <= last
    <3>1. unknown = last - first
      BY DEF unknown
    <3>2. splitL' \in Int /\ splitR' \in Int /\ l \in Int /\ r \in Int
      BY <1>3, <1>4, <1>6, <1>7
    <3>3. ASSUME NEW f \in Int, NEW g \in Int, NEW a \in Int, NEW c \in Int,
                 NEW d \in Int, NEW e \in Int, a <= d, c <= e, d + e <= g - f
          PROVE  f + a + c <= g
      BY <3>3
    <3> QED
      BY <1>3, <1>6, <1>7, <3>1, <3>2, <3>3
  <2>2. splitL' > 0 => startL = 0 /\ baseL = first /\ numL = 0
    BY <1>1, <1>2, <1>3, <1>7 DEF Fills
  <2>3. splitR' > 0 => startR = 0 /\ baseR = last /\ numR = 0
    BY <1>1, <1>2, <1>3, <1>7 DEF Fills
  <2>4. 0 % W = 0
    BY Widths
  <2>5. splitL' - 0 = splitL' /\ baseL + 0 = baseL
    <3>1. baseL \in Int /\ splitL' \in Int
      BY <1>2, <1>3, <1>7, Numbers
    <3>2. \A a \in Int : a - 0 = a /\ a + 0 = a
      OBVIOUS
    <3> QED
      BY <3>1, <3>2
  <2> QED
    BY <1>1, <1>3, <1>7, <1>8, <2>1, <2>2, <2>3, <2>4, <2>5 DEF Fills
<1>10. Exch' = Exch
  BY <1>1 DEF Exch, Exchanging
<1>11. InLoop
  BY <1>1 DEF InLoop, Filling
<1> QED
  BY <1>1, <1>3, <1>7, <1>9, <1>10, <1>11, QuietLoop

\* A full left block hands over to the right block.
LEMMA LeftFilledStep == ASSUME IInv, LeftFilled PROVE IInv' /\ Moved
<1>1. /\ pc = "fillL" /\ i = splitL /\ i' = 0 /\ pc' = "fillR"
      /\ UNCHANGED <<v, args, first, last, left, right>>
      /\ splitL' = splitL /\ splitR' = splitR /\ k' = k /\ tmp' = tmp
  BY DEF LeftFilled
<1>2. TypeOK /\ Fills
  BY DEF IInv
<1>3. /\ first \in Int /\ last \in Int /\ numR \in 0 .. B /\ baseR \in Int
      /\ splitL \in 0 .. B /\ splitR \in 0 .. B /\ k \in 0 .. B /\ B \in Nat \ {0}
  BY <1>2, Numbers, Widths
<1>4. /\ first' = first /\ last' = last
      /\ numR' = numR /\ startR' = startR /\ baseR' = baseR
  BY <1>1 DEF right
<1>5. Fills'
  <2>1. first + (splitR - 0) <= last /\ k = 0
    BY <1>1, <1>2, <1>3 DEF Fills
  <2>2. splitR > 0 => startR = 0 /\ baseR - 0 = last /\ numR <= 0
    BY <1>1, <1>2, <1>3 DEF Fills
  <2>3. 0 % W = 0
    BY Widths
  <2> QED
    BY <1>1, <1>3, <1>4, <2>1, <2>2, <2>3 DEF Fills
<1>6. Exch' = Exch
  BY <1>1 DEF Exch, Exchanging
<1>7. InLoop
  BY <1>1 DEF InLoop, Filling
<1> QED
  BY <1>1, <1>3, <1>5, <1>6, <1>7, QuietLoop

\* Two filled blocks hand over to the exchanges.
LEMMA RightFilledStep == ASSUME IInv, RightFilled PROVE IInv' /\ Moved
<1>1. /\ pc = "fillR" /\ pc' \in {"swap", "rotate"}
      /\ UNCHANGED <<v, args, first, last, left, right, splitL, splitR, i, k, tmp>>
  BY DEF RightFilled, round
<1>2. TypeOK /\ k = 0
  BY <1>1 DEF IInv, Fills
<1>3. /\ splitL \in 0 .. B /\ splitR \in 0 .. B /\ i \in 0 .. B /\ k \in 0 .. B
      /\ Num \in 0 .. B /\ B \in Nat \ {0}
  BY <1>2, Numbers, Widths
<1>4. Num' = Num
  BY <1>1 DEF left, right, Num, Lesser
<1>5. Fills'
  BY <1>1, <1>2, <1>3, <1>4 DEF Fills
<1>6. Exch' = Exch
  BY <1>1, <1>2 DEF Exch, Exchanging
<1>7. InLoop
  BY <1>1 DEF InLoop, Filling
<1> QED
  BY <1>1, <1>2, <1>3, <1>5, <1>6, <1>7, QuietLoop

\* Every pair of the shorter buffer is exchanged.
LEMMA ExchangedStep == ASSUME IInv, Exchanged PROVE IInv' /\ Moved
<1>1. /\ (pc = "swap" /\ k = Num) \/ (pc = "rotate" /\ Num = 0)
      /\ pc' = "consume"
      /\ UNCHANGED <<v, args, first, last, left, right, splitL, splitR, i, k, tmp>>
  BY DEF Exchanged, round
<1>2. TypeOK /\ k <= Num
  BY <1>1 DEF IInv, Fills
<1>3. /\ splitL \in 0 .. B /\ splitR \in 0 .. B /\ i \in 0 .. B /\ k \in 0 .. B
      /\ Num \in 0 .. B /\ B \in Nat \ {0}
  BY <1>2, Numbers, Widths
<1>4. k = Num /\ (pc = "rotate" => k = 0)
  BY <1>1, <1>2, <1>3
<1>5. Num' = Num
  BY <1>1 DEF left, right, Num, Lesser
<1>6. Fills'
  BY <1>1, <1>4, <1>5 DEF Fills
<1>7. Exch' = Exch
  BY <1>1 DEF Exch, Exchanging
<1>8. InLoop
  BY <1>1 DEF InLoop, Exchanging
<1> QED
  BY <1>1, <1>3, <1>4, <1>6, <1>7, <1>8, QuietLoop

\* The middle is used up: what is left in one buffer is to be drained.
LEMMA RoundsEndStep == ASSUME IInv, RoundsEnd PROVE IInv' /\ Moved
<1>1. /\ pc = "round" /\ first >= last /\ pc' = "drainL"
      /\ UNCHANGED <<v, args, first, last, left, right>>
      /\ UNCHANGED round
  BY DEF RoundsEnd
<1>2. TypeOK /\ Cells /\ Misfits /\ InLoop /\ Exch = 0
  BY <1>1 DEF IInv, InLoop, Filling, Exch, Exchanging
<1>3. /\ OneGap' /\ Moved /\ Restored' = v /\ Restored = v
      /\ CL' = CL /\ CR' = CR
      /\ GoesLeft' = GoesLeft /\ GoesRight' = GoesRight
      /\ begin' = begin /\ end' = end
      /\ first' = first /\ last' = last
      /\ numL' = numL /\ numR' = numR
  BY <1>1, QuietFrame
<1>4. first = last
  BY <1>1, <1>2, Numbers DEF Misfits
<1>5. TypeOK'
  BY <1>1, <1>2 DEF TypeOK, args, left, right, round
<1>6. Cells'
  <2> USE <1>2 DEF Cells
  <2>1. /\ \A x \in 0 .. numL - 1 : CL[x] \in begin .. end - 1 /\ CL[x] < last
        /\ \A x \in 0 .. numR - 1 : CR[x] \in begin .. end - 1 /\ CR[x] >= first
    BY <1>1, <1>4
  <2>2. /\ \A x, y \in 0 .. numL - 1 : x < y => CL[x] < CL[y]
        /\ \A x, y \in 0 .. numR - 1 : x < y => CR[y] < CR[x]
    OBVIOUS
  <2>3. ~InLoop'
    BY <1>1 DEF InLoop, Filling, Exchanging
  <2> QED
    BY <1>3, <2>1, <2>2, <2>3
<1>7. Misfits'
  <2>1. /\ Marks(v, GoesRight, begin, last, CL, 0, numL)
        /\ Marks(v, GoesLeft, last, end, CR, 0, numR)
        /\ numL = 0 \/ numR = 0
    BY <1>1, <1>2, <1>3, <1>4 DEF Misfits
  <2>2. ~InLoop'
    BY <1>1 DEF InLoop, Filling, Exchanging
  <2> QED
    BY <1>1, <1>3, <1>4, <2>1, <2>2 DEF Misfits, Marks
<1>8. Scanned' /\ Returned' /\ Fills' /\ PrefixKept'
  BY <1>1 DEF Scanned, Returned, Fills, PrefixKept, Opening, InLoop, Filling, Exchanging
<1> QED
  BY <1>3, <1>5, <1>6, <1>7, <1>8 DEF IInv

\* An empty left buffer leaves the right one to be drained.
LEMMA LeftDrainedStep == ASSUME IInv, LeftDrained PROVE IInv' /\ Moved
<1>1. /\ pc = "drainL" /\ numL = 0 /\ pc' = "drainR"
      /\ UNCHANGED <<v, args, first, last, left, right>>
      /\ UNCHANGED round
  BY DEF LeftDrained
<1>2. TypeOK /\ OneGap /\ Cells /\ Misfits /\ Draining
  BY <1>1 DEF IInv, Draining
<1>3. /\ OneGap' /\ Moved /\ Restored' = v /\ Restored = v
      /\ CL' = CL /\ CR' = CR
      /\ GoesLeft' = GoesLeft
      /\ begin' = begin /\ end' = end
      /\ first' = first /\ last' = last
      /\ numL' = numL /\ numR' = numR
  BY <1>1, QuietFrame
<1>4. first = last
  BY <1>1, <1>2 DEF Misfits
<1>5. TypeOK'
  BY <1>1, <1>2 DEF TypeOK, args, left, right, round
<1>6. ~InLoop /\ ~InLoop'
  BY <1>1 DEF InLoop, Filling, Exchanging
<1>7. Cells'
  <2>1. /\ \A x \in 0 .. numR - 1 : CR[x] \in begin .. end - 1 /\ CR[x] >= first
        /\ \A x, y \in 0 .. numR - 1 : x < y => CR[y] < CR[x]
    BY <1>2, <1>6 DEF Cells
  <2>2. 0 .. numL' - 1 = {}
    BY <1>1, <1>3
  <2> QED
    BY <1>1, <1>3, <1>6, <2>1, <2>2 DEF Cells
<1>8. Misfits'
  <2>1. /\ Marks(v, GoesRight, begin, last, CL, 0, numL)
        /\ Marks(v, GoesLeft, last, end, CR, 0, numR)
    BY <1>1, <1>2 DEF Misfits
  <2>2. AllIn(v, GoesLeft, begin, first)
    <3>1. ASSUME NEW p \in begin .. first - 1 PROVE v[p] \in GoesLeft
      <4>1. ~ (v[p] \in GoesRight)
        BY <1>1, <1>4, <2>1 DEF Marks
      <4>2. p \in Pos /\ v \in [Pos -> Pos]
        <5>1. v \in [Pos -> Pos]
          BY <1>1, <1>2, Whole
        <5>2. p \in Pos
          BY <1>2, Numbers, Widths DEF Pos
        <5> QED
          BY <5>1, <5>2
      <4> QED
        BY <4>1, <4>2 DEF GoesRight
    <3> QED
      BY <3>1 DEF AllIn
  <2> QED
    BY <1>1, <1>3, <1>4, <1>6, <2>1, <2>2 DEF Misfits, Marks
<1>9. Scanned' /\ Returned' /\ Fills' /\ PrefixKept'
  BY <1>1 DEF Scanned, Returned, Fills, PrefixKept, Opening, InLoop, Filling, Exchanging
<1> QED
  BY <1>3, <1>5, <1>7, <1>8, <1>9 DEF IInv

\* Both buffers are empty and the middle is used up: the range is partitioned.
LEMMA RightDrainedStep == ASSUME IInv, RightDrained PROVE IInv' /\ Moved
<1>1. /\ pc = "drainR" /\ numR = 0 /\ pc' = "done"
      /\ UNCHANGED <<v, args, first, last, left, right>>
      /\ UNCHANGED round
  BY DEF RightDrained
<1>2. TypeOK /\ Misfits
  BY DEF IInv
<1>3. /\ OneGap' /\ Moved
      /\ GoesLeft' = GoesLeft /\ begin' = begin /\ end' = end
      /\ first' = first /\ v' = v
  BY <1>1, QuietFrame
<1>4. TypeOK'
  BY <1>1, <1>2 DEF TypeOK, args, left, right, round
<1>5. Returned'
  <2>1. AllIn(v, GoesLeft, begin, first) /\ Marks(v, GoesLeft, first, end, CR, 0, 0)
    BY <1>1, <1>2 DEF Misfits
  <2>2. NoneIn(v, GoesLeft, first, end)
    BY <2>1 DEF Marks, NoneIn
  <2>3. first \in begin .. end
    BY <1>2, Numbers
  <2> QED
    BY <1>3, <2>1, <2>2, <2>3 DEF Returned, Partitioned
<1>6. Scanned' /\ PrefixKept' /\ Fills' /\ Cells' /\ Misfits'
  BY <1>1 DEF Scanned, PrefixKept, Fills, Cells, Misfits, Opening, InLoop, Draining,
              Filling, Exchanging
<1> QED
  BY <1>3, <1>4, <1>5, <1>6 DEF IInv
-----------------------------------------------------------------------------
(***************************************************************************)
(* The fills.                                                              *)
(***************************************************************************)
\* W bytes of a table stored behind the offsets of the buffer: those of the
\* mask's lanes follow the old ones, the rest is overwritten or unused.
Appended(new, off, n, mask, g, top) ==
    /\ Cardinality(mask) \in 0 .. W
    /\ new \in [0 .. B - 1 -> 0 .. top]
    /\ \A s \in 0 .. n - 1 : new[s] = off[s]
    /\ \A s \in n .. n + Cardinality(mask) - 1 : \E lane \in mask : new[s] = lane + g
    /\ \A s, t \in n .. n + Cardinality(mask) - 1 : s < t => new[s] < new[t]
    /\ \A lane \in mask : \E s \in n .. n + Cardinality(mask) - 1 : new[s] = lane + g

\* A whole row stored behind the offsets in use appends the lanes of the mask.
LEMMA StoredOffsets ==
    ASSUME NEW from \in Int, from \in {0, 1}, NEW mask, mask \subseteq from .. from + W - 1,
           NEW off \in [0 .. B - 1 -> 0 .. B - 1 + from],
           NEW n \in Nat, NEW g \in Nat, n <= g, g + W <= B,
           NEW new, new = Stored(off, n, Padded(InOrder(mask)), g)
    PROVE  Appended(new, off, n, mask, g, B - 1 + from)
<1> DEFINE c == Cardinality(mask)
           ord == InOrder(mask)
           bytes == Padded(ord)
<1>1. /\ c \in 0 .. W
      /\ ord \in [1 .. c -> mask]
      /\ \A a, b \in 1 .. c : a < b => ord[a] < ord[b]
      /\ \A lane \in mask : \E b \in 1 .. c : ord[b] = lane
  <2>1. Listed(mask)
    BY TableInOrder
  <2> QED
    BY <2>1 DEF Listed
<1> HIDE DEF c, ord
<1> USE Widths
<1>0. \A lane \in mask : lane \in Int /\ from <= lane /\ lane <= from + W - 1
  OBVIOUS
<1>2. Len(ord) = c
  <2>1. ord \in Seq(mask) /\ DOMAIN ord = 1 .. c
    BY <1>1
  <2> QED
    BY <1>1, <2>1
<1>3. \A b \in 1 .. W : bytes[b] = IF b <= c THEN ord[b] ELSE 0
  BY <1>2 DEF Padded
<1>4. \A b \in 1 .. c : b \in 1 .. W /\ bytes[b] = ord[b] /\ ord[b] \in mask
  BY <1>1, <1>3
<1>5. \A b \in 1 .. W : bytes[b] + g \in 0 .. B - 1 + from
  <2> SUFFICES ASSUME NEW b \in 1 .. W PROVE bytes[b] + g \in 0 .. B - 1 + from
    OBVIOUS
  <2>1. CASE b <= c
    <3>1. bytes[b] \in mask
      BY <1>1, <1>4, <2>1
    <3>2. bytes[b] \in Int /\ from <= bytes[b] /\ bytes[b] <= from + W - 1
      BY <1>0, <3>1
    <3> QED
      BY <3>2
  <2>2. CASE ~ (b <= c)
    BY <1>3, <2>2
  <2> QED
    BY <2>1, <2>2
<1> HIDE DEF bytes
<1>6. new = [s \in 0 .. B - 1 \cup n .. n + W - 1 |->
                IF s \in n .. n + W - 1 THEN bytes[s - n + 1] + g ELSE off[s]]
  BY DEF Stored, bytes, ord
<1>7. 0 .. B - 1 \cup n .. n + W - 1 = 0 .. B - 1
  OBVIOUS
<1>8. /\ DOMAIN new = 0 .. B - 1
      /\ \A s \in n .. n + W - 1 : new[s] = bytes[s - n + 1] + g /\ s - n + 1 \in 1 .. W
      /\ \A s \in 0 .. B - 1 : s \notin n .. n + W - 1 => new[s] = off[s]
  BY <1>6, <1>7
<1>9. new \in [0 .. B - 1 -> 0 .. B - 1 + from]
  <2>1. \A s \in 0 .. B - 1 : new[s] \in 0 .. B - 1 + from
    BY <1>5, <1>8
  <2>2. new = [s \in 0 .. B - 1 |-> new[s]]
    BY <1>6, <1>7
  <2> QED
    BY <2>1, <2>2
<1>10. \A s \in 0 .. n - 1 : new[s] = off[s]
  BY <1>8
<1>11. \A s \in n .. n + c - 1 :
          s - n + 1 \in 1 .. c /\ new[s] = ord[s - n + 1] + g /\ ord[s - n + 1] \in mask
  <2> SUFFICES ASSUME NEW s \in n .. n + c - 1
               PROVE  s - n + 1 \in 1 .. c /\ new[s] = ord[s - n + 1] + g
                      /\ ord[s - n + 1] \in mask
    OBVIOUS
  <2>1. s - n + 1 \in 1 .. c /\ s \in n .. n + W - 1
    BY <1>1
  <2> QED
    BY <1>4, <1>8, <2>1
<1>12. ASSUME NEW s \in n .. n + c - 1, NEW t \in n .. n + c - 1, s < t
       PROVE  new[s] < new[t]
  <2>1. ord[s - n + 1] < ord[t - n + 1]
    BY <1>1, <1>11, <1>12
  <2>2. ord[s - n + 1] \in Int /\ ord[t - n + 1] \in Int
    BY <1>0, <1>11
  <2> QED
    BY <1>11, <2>1, <2>2
<1>13. ASSUME NEW lane \in mask
       PROVE  \E s \in n .. n + c - 1 : new[s] = lane + g
  <2>1. PICK b \in 1 .. c : ord[b] = lane
    BY <1>1
  <2>2. n + b - 1 \in n .. n + c - 1 /\ (n + b - 1) - n + 1 = b
    BY <1>1
  <2> QED
    BY <1>11, <2>1, <2>2
<1> QED
  BY <1>1, <1>9, <1>10, <1>11, <1>12, <1>13 DEF c, Appended

\* The next w cells of the left side are looked at, and the misplaced ones
\* among them follow in its buffer.
LeftGrows(w) ==
    /\ pc = "fillL" /\ i < splitL
    /\ UNCHANGED <<v, args, last, startL, baseL, right, splitL, splitR, k, tmp, pc>>
    /\ first' = first + w /\ i' = i + w /\ i + w <= splitL
    /\ numL' \in numL .. numL + w
    /\ offL' \in [0 .. B - 1 -> 0 .. B - 1]
    /\ \A s \in 0 .. numL - 1 : offL'[s] = offL[s]
    /\ \A s \in numL .. numL' - 1 :
          offL'[s] \in i .. i + w - 1 /\ v[baseL + offL'[s]] \notin GoesLeft
    /\ \A s, t \in numL .. numL' - 1 : s < t => offL'[s] < offL'[t]
    /\ \A p \in first .. first + w - 1 :
          v[p] \notin GoesLeft => \E s \in numL .. numL' - 1 : baseL + offL'[s] = p
    /\ ByVector(splitL) => (i + w) % W = 0

\* Any fill of the left block, by one element or by a vector, keeps the
\* invariant: the offsets it appends are those of the elements that go right.
LEMMA LeftExtended == ASSUME IInv, NEW w \in Nat, LeftGrows(w) PROVE IInv' /\ Moved
<1> DEFINE n == numL
<1>a. PICK m, g, o, d : m = numL' /\ g = first' /\ o = offL' /\ d = CL'
  OBVIOUS
<1>0. /\ pc = "fillL" /\ i < splitL /\ pc' = pc /\ v' = v /\ last' = last
      /\ first' = first + w /\ i' = i + w /\ i + w <= splitL
      /\ UNCHANGED <<args, startL, baseL, right, splitL, splitR, k, tmp>>
      /\ ByVector(splitL) => (i + w) % W = 0
  BY DEF LeftGrows
<1>1. TypeOK /\ OneGap /\ PrefixKept /\ Fills /\ Cells /\ Misfits /\ InLoop /\ InLoop' /\ Exch = 0
      /\ Exch' = 0
  BY <1>0 DEF IInv, InLoop, Filling, Exch, Exchanging
<1>2. /\ begin \in Int /\ end \in Int /\ 0 <= begin /\ end <= N
      /\ first \in Int /\ last \in Int /\ begin <= first /\ first <= end
      /\ begin <= last /\ last <= end /\ numL \in Nat /\ numL <= B /\ baseL \in Int
      /\ splitL \in Int /\ splitL <= B /\ splitR \in Int /\ 0 <= splitR /\ i \in Nat
      /\ k = 0 /\ B \in Nat \ {0} /\ N \in Nat
  BY <1>0, <1>1, Numbers, Widths DEF Fills
<1>3. /\ first + (splitL - i) + splitR <= last /\ startL = 0 /\ baseL + i = first /\ numL <= i
      /\ splitR > 0 => startR = 0 /\ baseR = last /\ numR = 0
  BY <1>0, <1>1, <1>2 DEF Fills
<1>b. /\ m \in n .. n + w /\ g = first + w /\ o \in [0 .. B - 1 -> 0 .. B - 1]
      /\ \A s \in 0 .. n - 1 : o[s] = offL[s]
      /\ \A s \in n .. m - 1 : o[s] \in i .. i + w - 1 /\ v[baseL + o[s]] \notin GoesLeft
      /\ \A s, t \in n .. m - 1 : s < t => o[s] < o[t]
      /\ \A p \in first .. first + w - 1 :
            v[p] \notin GoesLeft => \E s \in n .. m - 1 : baseL + o[s] = p
  BY <1>a DEF LeftGrows
<1>4. n \in Nat /\ m \in Nat /\ n <= m /\ m <= i + w /\ i + w <= B /\ m <= B /\ g = first + w
      /\ g \in Int /\ first <= g /\ g + (splitL - (i + w)) + splitR <= last /\ g <= last
  BY <1>0, <1>2, <1>3, <1>b
<1>5. /\ OneGap' /\ Moved /\ Restored' = v /\ Restored = v /\ v \in [Pos -> Pos]
  BY <1>0, <1>1, <1>2, NothingMoved, Whole
<1>6. /\ last' = last /\ pc' = pc /\ CR' = CR /\ numR' = numR /\ startR' = startR /\ baseR' = baseR
      /\ startL' = 0 /\ baseL' = baseL
      /\ GoesLeft' = GoesLeft /\ GoesRight' = GoesRight
      /\ begin' = begin /\ end' = end /\ pfxEnd' = pfxEnd /\ form' = form
  BY <1>0, <1>3, SameRight, SameArgs DEF right
<1>7. TypeOK'
  <2>1. first' \in begin .. end
    BY <1>0, <1>2, <1>4
  <2>2. m \in 0 .. B /\ 0 \in 0 .. B - m /\ i + w \in 0 .. B
    BY <1>2, <1>4
  <2>3. numL' \in 0 .. B /\ startL' \in 0 .. B - numL' /\ i' \in 0 .. B
    BY <1>0, <1>6, <1>a, <2>2
  <2> QED
    BY <1>0, <1>1, <1>6, <1>a, <1>b, <2>1, <2>3 DEF TypeOK, args, right
<1>8. \A s \in 0 .. m - 1 : d[s] = baseL + o[s] /\ o[s] \in Int
  <2> SUFFICES ASSUME NEW s \in 0 .. m - 1
               PROVE  d[s] = baseL + o[s] /\ o[s] \in Int
    OBVIOUS
  <2>1. d[s] = baseL' + o[startL' + s]
    BY <1>a DEF CL, CellL
  <2>2. s \in 0 .. B - 1 /\ 0 + s = s
    BY <1>2, <1>4
  <2>3. o[s] \in 0 .. B - 1
    BY <1>b, <2>2
  <2> QED
    BY <1>6, <2>1, <2>2, <2>3
<1>9. \A s \in 0 .. n - 1 : d[s] = CL[s] /\ CL[s] < first /\ CL[s] \in begin .. end - 1
                            /\ CL[s] \in Int
  <2> SUFFICES ASSUME NEW s \in 0 .. n - 1
               PROVE  d[s] = CL[s] /\ CL[s] < first /\ CL[s] \in begin .. end - 1
                      /\ CL[s] \in Int
    OBVIOUS
  <2>1. s \in 0 .. m - 1 /\ 0 + s = s
    BY <1>4
  <2>2. CL[s] = baseL + offL[startL + s] /\ CL[s] \in Int
    BY <1>1, CellValues
  <2>3. CL[s] < first /\ CL[s] \in begin .. end - 1
    BY <1>0, <1>1 DEF Cells
  <2> QED
    BY <1>3, <1>8, <1>b, <2>1, <2>2, <2>3
<1>10. \A s \in n .. m - 1 : d[s] \in first .. g - 1 /\ v[d[s]] \in GoesRight
  <2> SUFFICES ASSUME NEW s \in n .. m - 1
               PROVE  d[s] \in first .. g - 1 /\ v[d[s]] \in GoesRight
    OBVIOUS
  <2>1. s \in 0 .. m - 1
    BY <1>4
  <2>2. d[s] = baseL + o[s] /\ o[s] \in i .. i + w - 1 /\ v[d[s]] \notin GoesLeft
    BY <1>8, <1>b, <2>1
  <2>3. d[s] \in first .. g - 1
    BY <1>2, <1>3, <1>4, <2>2
  <2>4. d[s] \in Pos
    BY <1>2, <1>4, <2>3 DEF Pos
  <2> QED
    BY <1>5, <2>2, <2>3, <2>4 DEF GoesRight
<1>11. \A s, t \in 0 .. m - 1 : s < t => d[s] < d[t]
  <2> SUFFICES ASSUME NEW s \in 0 .. m - 1, NEW t \in 0 .. m - 1, s < t
               PROVE  d[s] < d[t]
    OBVIOUS
  <2>1. CASE t < n
    <3>1. s \in 0 .. n - 1 /\ t \in 0 .. n - 1
      BY <1>4, <2>1
    <3> QED
      BY <1>1, <1>9, <3>1 DEF Cells
  <2>2. CASE s < n /\ t >= n
    <3>1. s \in 0 .. n - 1 /\ t \in n .. m - 1
      BY <1>4, <2>2
    <3>2. d[s] < first /\ d[s] \in Int /\ d[t] \in first .. g - 1
      BY <1>9, <1>10, <3>1
    <3> QED
      BY <1>2, <1>4, <3>2
  <2>3. CASE s >= n
    <3>1. s \in n .. m - 1 /\ t \in n .. m - 1
      BY <1>4, <2>3
    <3>2. o[s] < o[t] /\ s \in 0 .. m - 1 /\ t \in 0 .. m - 1
      BY <1>b, <3>1
    <3> QED
      BY <1>2, <1>8, <3>2
  <2> QED
    BY <1>4, <2>1, <2>2, <2>3
<1>12. Cells'
  <2>1. \A s \in 0 .. m - 1 : d[s] < g /\ d[s] \in begin .. end - 1
    <3> SUFFICES ASSUME NEW s \in 0 .. m - 1
                 PROVE  d[s] < g /\ d[s] \in begin .. end - 1
      OBVIOUS
    <3>1. CASE s < n
      <4>1. s \in 0 .. n - 1
        BY <1>4, <3>1
      <4>2. d[s] = CL[s] /\ CL[s] \in Int /\ CL[s] < first /\ CL[s] \in begin .. end - 1
        BY <1>9, <4>1
      <4> QED
        BY <1>2, <1>4, <4>2
    <3>2. CASE s >= n
      <4>1. s \in n .. m - 1
        BY <1>4, <3>2
      <4>2. d[s] \in first .. g - 1
        BY <1>10, <4>1
      <4> QED
        BY <1>2, <1>4, <4>2
    <3> QED
      BY <1>4, <3>1, <3>2
  <2>2. /\ \A s \in 0 .. numR - 1 : CR[s] \in begin .. end - 1 /\ CR[s] >= last
        /\ \A s, t \in 0 .. numR - 1 : s < t => CR[t] < CR[s]
    BY <1>1 DEF Cells
  <2> QED
    BY <1>a, <1>1, <1>6, <1>11, <2>1, <2>2 DEF Cells
<1>13. Misfits'
  <2>1. /\ Marks(v, GoesRight, begin, first, CL, 0, n)
        /\ Marks(v, GoesLeft, last, end, CR, 0, numR)
    BY <1>1, <1>5 DEF Misfits
  <2>2. Marks(v, GoesRight, begin, g, d, 0, m)
    <3>1. \A s \in 0 .. n - 1 : d[s] = CL[s] /\ d[s] < first
      BY <1>9
    <3>2. \A p \in first .. g - 1 : v[p] \in GoesRight => \E s \in n .. m - 1 : d[s] = p
      <4> SUFFICES ASSUME NEW p \in first .. g - 1, v[p] \in GoesRight
                   PROVE  \E s \in n .. m - 1 : d[s] = p
        OBVIOUS
      <4>1. p \in first .. first + w - 1 /\ v[p] \notin GoesLeft
        <5>1. p \in first .. first + w - 1
          BY <1>2, <1>4
        <5>2. v[p] \notin GoesLeft
          BY DEF GoesRight
        <5> QED
          BY <5>1, <5>2
      <4>2. PICK s \in n .. m - 1 : baseL + o[s] = p
        BY <1>b, <4>1
      <4>3. s \in 0 .. m - 1
        BY <1>4
      <4> QED
        BY <1>8, <4>2, <4>3
    <3> HIDE DEF n
    <3> QED
      BY <1>2, <1>4, <1>10, <2>1, <3>1, <3>2, MarksUp
  <2>3. Marks(Restored, GoesRight, begin, first, CL, Exch, numL)'
    BY <1>a, <1>1, <1>5, <1>6, <2>2 DEF Marks
  <2>4. Marks(Restored, GoesLeft, last, end, CR, Exch, numR)'
    BY <1>1, <1>5, <1>6, <2>1 DEF Marks
  <2> QED
    BY <1>0, <1>a, <1>1, <1>4, <1>6, <2>3, <2>4 DEF Misfits
<1>14. PrefixKept'
  <2>1. \A p \in first .. last - 1 : p < pfxEnd => v[p] \notin GoesLeft
    BY <1>1, <1>5 DEF PrefixKept
  <2>2. g .. last - 1 \subseteq first .. last - 1
    BY <1>2, <1>4
  <2> QED
    BY <1>a, <1>5, <1>6, <2>1, <2>2 DEF PrefixKept
<1>15. Fills'
  <2>1. i + w <= splitL /\ baseL + (i + w) = g /\ m <= i + w
    BY <1>0, <1>2, <1>3, <1>4
  <2>2. ByVector(splitL)' = ByVector(splitL)
    BY <1>0, <1>6 DEF ByVector
  <2> QED
    BY <1>0, <1>a, <1>2, <1>3, <1>4, <1>6, <2>1, <2>2 DEF Fills
<1>16. Scanned' /\ Returned'
  BY <1>0 DEF Scanned, Returned, Opening
<1> QED
  BY <1>5, <1>7, <1>12, <1>13, <1>14, <1>15, <1>16 DEF IInv

\* The branchless fill by one element is such a fill.
LEMMA FillLeftStep == ASSUME IInv, FillLeft PROVE IInv' /\ Moved
<1>1. /\ pc = "fillL" /\ i < splitL /\ ~ByVector(splitL)
      /\ UNCHANGED <<v, args, last, startL, baseL, right, splitL, splitR, k, tmp, pc>>
      /\ offL' = [offL EXCEPT ![numL] = i]
      /\ numL' = IF Misplaced THEN numL + 1 ELSE numL
      /\ first' = first + 1 /\ i' = i + 1
  BY DEF FillLeft
<1>2. TypeOK /\ OneGap /\ Fills /\ PrefixKept /\ InLoop
  BY <1>1 DEF IInv, InLoop, Filling
<1>3. /\ first \in Int /\ last \in Int /\ numL \in Nat /\ numL <= i /\ i \in Nat
      /\ splitL \in Int /\ splitL <= B /\ splitR \in Int /\ 0 <= splitR
      /\ baseL \in Int /\ baseL + i = first /\ B \in Nat \ {0}
      /\ first + (splitL - i) + splitR <= last
      /\ offL \in [0 .. B - 1 -> 0 .. B - 1]
  <2>1. numL <= i /\ baseL + i = first /\ first + (splitL - i) + splitR <= last
    BY <1>1, <1>2, Numbers DEF Fills
  <2>2. offL \in [0 .. B - 1 -> 0 .. B - 1]
    BY <1>2 DEF TypeOK
  <2>3. /\ first \in Int /\ last \in Int /\ numL \in Nat /\ i \in Nat /\ baseL \in Int
        /\ splitL \in Int /\ splitL <= B /\ splitR \in Int /\ 0 <= splitR
    BY <1>2, Numbers, Widths
  <2> QED
    BY <2>1, <2>2, <2>3, Widths
<1>4. Misplaced <=> v[first] \notin GoesLeft
  <2>1. first \in first .. last - 1
    BY <1>1, <1>3
  <2>2. first < pfxEnd => v[first] \notin GoesLeft
    BY <1>1, <1>2, <2>1, Whole DEF PrefixKept
  <2> QED
    BY <2>2 DEF Misplaced
<1>a. PICK o, m : o = offL' /\ m = numL'
  OBVIOUS
<1>5. /\ o \in [0 .. B - 1 -> 0 .. B - 1]
      /\ o[numL] = i /\ \A s \in 0 .. numL - 1 : o[s] = offL[s]
  <2>1. numL \in 0 .. B - 1 /\ i \in 0 .. B - 1
    BY <1>1, <1>3
  <2>2. o = [offL EXCEPT ![numL] = i] /\ offL \in [0 .. B - 1 -> 0 .. B - 1]
    BY <1>1, <1>3, <1>a
  <2>3. \A s \in 0 .. numL - 1 : s \in 0 .. B - 1 /\ s # numL
    BY <1>3, <2>1
  <2> QED
    BY <2>1, <2>2, <2>3
<1>6. \/ Misplaced /\ m = numL + 1
      \/ ~Misplaced /\ m = numL
  BY <1>1, <1>a
<1>7. /\ m \in numL .. numL + 1
      /\ \A s \in numL .. m - 1 : s = numL /\ Misplaced
  BY <1>3, <1>6
<1>8. \A s \in numL .. m - 1 : o[s] \in i .. i + 1 - 1 /\ v[baseL + o[s]] \notin GoesLeft
  <2> SUFFICES ASSUME NEW s \in numL .. m - 1
               PROVE  o[s] \in i .. i + 1 - 1 /\ v[baseL + o[s]] \notin GoesLeft
    OBVIOUS
  <2>1. o[s] = i /\ Misplaced
    BY <1>5, <1>7
  <2>2. i \in i .. i + 1 - 1
    BY <1>3
  <2> QED
    BY <1>3, <1>4, <2>1, <2>2
<1>9. \A p \in first .. first + 1 - 1 :
         v[p] \notin GoesLeft => \E s \in numL .. m - 1 : baseL + o[s] = p
  <2> SUFFICES ASSUME NEW p \in first .. first + 1 - 1, v[p] \notin GoesLeft
               PROVE  \E s \in numL .. m - 1 : baseL + o[s] = p
    OBVIOUS
  <2>1. p = first
    BY <1>3
  <2>2. m = numL + 1
    BY <1>4, <1>6, <2>1
  <2>3. numL \in numL .. m - 1
    BY <1>3, <2>2
  <2> QED
    BY <1>3, <1>5, <2>1, <2>3
<1>10. \A s, t \in numL .. m - 1 : s < t => o[s] < o[t]
  BY <1>3, <1>7
<1>11. i + 1 <= splitL
  BY <1>1, <1>3
<1>12. LeftGrows(1)
  BY <1>1, <1>5, <1>7, <1>8, <1>9, <1>10, <1>11, <1>a DEF LeftGrows
<1> QED
  BY <1>12, LeftExtended

\* The fill by a vector is such a fill, though it stores a whole row: the
\* buffer's next W cells are there, and what is not counted is not read.
LEMMA VectorFillLeftStep == ASSUME IInv, VectorFillLeft PROVE IInv' /\ Moved
<1>1. /\ pc = "fillL" /\ i < splitL /\ ByVector(splitL)
      /\ UNCHANGED <<v, args, last, startL, baseL, right, splitL, splitR, k, tmp, pc>>
      /\ offL' = Stored(offL, numL, LutPos(LeftMask), i)
      /\ numL' = numL + Cardinality(LeftMask)
      /\ first' = first + W /\ i' = i + W
  BY DEF VectorFillLeft
<1>2. TypeOK /\ Fills
  BY DEF IInv
<1>3. /\ first \in Int /\ numL \in Nat /\ numL <= i /\ i \in Nat
      /\ splitL = B /\ i % W = 0
      /\ baseL \in Int /\ baseL + i = first /\ B \in Nat \ {0} /\ W \in Nat \ {0}
      /\ offL \in [0 .. B - 1 -> 0 .. B - 1 + 0]
  <2>1. numL <= i /\ baseL + i = first /\ i % W = 0
    BY <1>1, <1>2, Numbers DEF Fills
  <2>2. splitL = B
    BY <1>1 DEF ByVector
  <2>3. B - 1 + 0 = B - 1 /\ offL \in [0 .. B - 1 -> 0 .. B - 1]
    <3>1. B - 1 + 0 = B - 1
      BY Widths
    <3>2. offL \in [0 .. B - 1 -> 0 .. B - 1]
      BY <1>2 DEF TypeOK
    <3> QED
      BY <3>1, <3>2
  <2>4. first \in Int /\ numL \in Nat /\ i \in Nat /\ baseL \in Int
    BY <1>2, Numbers, Widths
  <2> QED
    BY <2>1, <2>2, <2>3, <2>4, Widths
<1>4. i + W <= B /\ (i + W) % W = 0
  BY <1>1, <1>3, WholeVectors
<1>a. PICK o, m, c : o = offL' /\ m = numL' /\ c = Cardinality(LeftMask)
  OBVIOUS
<1>5. LeftMask \subseteq 0 .. 0 + W - 1
  BY <1>3 DEF LeftMask, Lanes
<1>6. c \in 0 .. W /\ Appended(o, offL, numL, LeftMask, i, B - 1 + 0)
  <2>1. o = Stored(offL, numL, Padded(InOrder(LeftMask)), i)
    BY <1>1, <1>a DEF LutPos
  <2>2. 0 \in Int /\ 0 \in {0, 1}
    OBVIOUS
  <2>3. Appended(o, offL, numL, LeftMask, i, B - 1 + 0)
    BY <1>3, <1>4, <1>5, <2>1, <2>2, StoredOffsets
  <2> QED
    BY <1>a, <2>3 DEF Appended
<1>7. m = numL + c /\ m \in numL .. numL + W
  <2>1. m = numL + c
    BY <1>1, <1>a
  <2>2. numL \in Nat /\ W \in Nat /\ c \in 0 .. W
    BY <1>3, <1>6
  <2> QED
    BY <2>1, <2>2
<1>c. /\ o \in [0 .. B - 1 -> 0 .. B - 1 + 0]
      /\ \A s \in 0 .. numL - 1 : o[s] = offL[s]
      /\ \A s \in numL .. m - 1 : \E lane \in LeftMask : o[s] = lane + i
      /\ \A s, t \in numL .. m - 1 : s < t => o[s] < o[t]
      /\ \A lane \in LeftMask : \E s \in numL .. m - 1 : o[s] = lane + i
  <2>1. /\ o \in [0 .. B - 1 -> 0 .. B - 1 + 0]
        /\ \A s \in 0 .. numL - 1 : o[s] = offL[s]
        /\ \A s \in numL .. numL + c - 1 : \E lane \in LeftMask : o[s] = lane + i
        /\ \A s, t \in numL .. numL + c - 1 : s < t => o[s] < o[t]
        /\ \A lane \in LeftMask : \E s \in numL .. numL + c - 1 : o[s] = lane + i
    BY <1>6, <1>a DEF Appended
  <2>2. numL + c - 1 = m - 1
    BY <1>3, <1>6, <1>7
  <2> QED
    BY <2>1, <2>2
<1>8. \A s \in numL .. m - 1 : o[s] \in i .. i + W - 1 /\ v[baseL + o[s]] \notin GoesLeft
  <2> SUFFICES ASSUME NEW s \in numL .. m - 1
               PROVE  o[s] \in i .. i + W - 1 /\ v[baseL + o[s]] \notin GoesLeft
    OBVIOUS
  <2>1. PICK lane \in LeftMask : o[s] = lane + i
    BY <1>c
  <2>2. lane \in 0 .. W - 1 /\ v[first + lane] \notin GoesLeft
    BY DEF LeftMask, Lanes
  <2>3. baseL + o[s] = first + lane /\ lane + i \in i .. i + W - 1
    BY <1>3, <2>1, <2>2
  <2> QED
    BY <2>1, <2>2, <2>3
<1>9. \A p \in first .. first + W - 1 :
         v[p] \notin GoesLeft => \E s \in numL .. m - 1 : baseL + o[s] = p
  <2> SUFFICES ASSUME NEW p \in first .. first + W - 1, v[p] \notin GoesLeft
               PROVE  \E s \in numL .. m - 1 : baseL + o[s] = p
    OBVIOUS
  <2>1. p - first \in 0 .. W - 1 /\ first + (p - first) = p
    BY <1>3
  <2>2. p - first \in LeftMask
    BY <2>1 DEF LeftMask, Lanes
  <2>3. PICK s \in numL .. m - 1 : o[s] = (p - first) + i
    BY <1>c, <2>2
  <2>4. baseL + ((p - first) + i) = p
    <3>1. p \in Int /\ first \in Int /\ baseL \in Int /\ i \in Int /\ baseL + i = first
      BY <1>3
    <3> QED
      BY <3>1
  <2> QED
    BY <2>3, <2>4
<1>10. o \in [0 .. B - 1 -> 0 .. B - 1]
  <2>1. B - 1 + 0 = B - 1
    BY <1>3
  <2> QED
    BY <1>c, <2>1
<1>d. i + W <= splitL
  BY <1>3, <1>4
<1>11. LeftGrows(W)
  BY <1>1, <1>4, <1>c, <1>d, <1>7, <1>8, <1>9, <1>10, <1>a DEF LeftGrows
<1> QED
  BY <1>3, <1>11, LeftExtended

\* The right side is filled in the same way, towards smaller cells.
RightGrows(w) ==
    /\ pc = "fillR" /\ i < splitR
    /\ UNCHANGED <<v, args, first, left, startR, baseR, splitL, splitR, k, tmp, pc>>
    /\ last' = last - w /\ i' = i + w /\ i + w <= splitR
    /\ numR' \in numR .. numR + w
    /\ offR' \in [0 .. B - 1 -> 0 .. B]
    /\ \A s \in 0 .. numR - 1 : offR'[s] = offR[s]
    /\ \A s \in numR .. numR' - 1 :
          offR'[s] \in i + 1 .. i + w /\ v[baseR - offR'[s]] \in GoesLeft
    /\ \A s, t \in numR .. numR' - 1 : s < t => offR'[s] < offR'[t]
    /\ \A p \in last - w .. last - 1 :
          v[p] \in GoesLeft => \E s \in numR .. numR' - 1 : baseR - offR'[s] = p
    /\ ByVector(splitR) => (i + w) % W = 0

\* Any fill of the right block keeps the invariant.
LEMMA RightExtended == ASSUME IInv, NEW w \in Nat, RightGrows(w) PROVE IInv' /\ Moved
<1> DEFINE n == numR
<1>a. PICK m, g, o, d : m = numR' /\ g = last' /\ o = offR' /\ d = CR'
  OBVIOUS
<1>0. /\ pc = "fillR" /\ i < splitR /\ pc' = pc /\ v' = v /\ first' = first
      /\ last' = last - w /\ i' = i + w /\ i + w <= splitR
      /\ UNCHANGED <<args, left, startR, baseR, splitL, splitR, k, tmp>>
      /\ ByVector(splitR) => (i + w) % W = 0
  BY DEF RightGrows
<1>1. TypeOK /\ OneGap /\ PrefixKept /\ Fills /\ Cells /\ Misfits /\ InLoop /\ InLoop' /\ Exch = 0
      /\ Exch' = 0
  BY <1>0 DEF IInv, InLoop, Filling, Exch, Exchanging
<1>2. /\ begin \in Int /\ end \in Int /\ 0 <= begin /\ end <= N
      /\ first \in Int /\ last \in Int /\ begin <= first /\ first <= end
      /\ begin <= last /\ last <= end /\ numR \in Nat /\ numR <= B /\ baseR \in Int
      /\ splitR \in Int /\ splitR <= B /\ i \in Nat
      /\ k = 0 /\ B \in Nat \ {0} /\ N \in Nat
  BY <1>0, <1>1, Numbers, Widths DEF Fills
<1>3. first + (splitR - i) <= last /\ startR = 0 /\ baseR - i = last /\ numR <= i
  BY <1>0, <1>1, <1>2 DEF Fills
<1>b. /\ m \in n .. n + w /\ g = last - w /\ o \in [0 .. B - 1 -> 0 .. B]
      /\ \A s \in 0 .. n - 1 : o[s] = offR[s]
      /\ \A s \in n .. m - 1 : o[s] \in i + 1 .. i + w /\ v[baseR - o[s]] \in GoesLeft
      /\ \A s, t \in n .. m - 1 : s < t => o[s] < o[t]
      /\ \A p \in last - w .. last - 1 :
            v[p] \in GoesLeft => \E s \in n .. m - 1 : baseR - o[s] = p
  BY <1>a DEF RightGrows
<1>4. n \in Nat /\ m \in Nat /\ n <= m /\ m <= i + w /\ i + w <= B /\ m <= B /\ g = last - w
      /\ g \in Int /\ g <= last /\ first + (splitR - (i + w)) <= g /\ first <= g
  BY <1>0, <1>2, <1>3, <1>b
<1>5. /\ OneGap' /\ Moved /\ Restored' = v /\ Restored = v /\ v \in [Pos -> Pos]
  BY <1>0, <1>1, <1>2, NothingMoved, Whole
<1>6. /\ first' = first /\ pc' = pc /\ CL' = CL /\ numL' = numL
      /\ startR' = 0 /\ baseR' = baseR
      /\ GoesLeft' = GoesLeft /\ GoesRight' = GoesRight
      /\ begin' = begin /\ end' = end /\ pfxEnd' = pfxEnd /\ form' = form
  BY <1>0, <1>3, SameLeft, SameArgs DEF left
<1>7. TypeOK'
  <2>1. last' \in begin .. end
    BY <1>0, <1>2, <1>4
  <2>2. m \in 0 .. B /\ 0 \in 0 .. B - m /\ i + w \in 0 .. B
    BY <1>2, <1>4
  <2>3. numR' \in 0 .. B /\ startR' \in 0 .. B - numR' /\ i' \in 0 .. B
    BY <1>0, <1>6, <1>a, <2>2
  <2> QED
    BY <1>0, <1>1, <1>6, <1>a, <1>b, <2>1, <2>3 DEF TypeOK, args, left
<1>8. \A s \in 0 .. m - 1 : d[s] = baseR - o[s] /\ o[s] \in Int
  <2> SUFFICES ASSUME NEW s \in 0 .. m - 1
               PROVE  d[s] = baseR - o[s] /\ o[s] \in Int
    OBVIOUS
  <2>1. d[s] = baseR' - o[startR' + s]
    BY <1>a DEF CR, CellR
  <2>2. s \in 0 .. B - 1 /\ 0 + s = s
    BY <1>2, <1>4
  <2>3. o[s] \in 0 .. B
    BY <1>b, <2>2
  <2>4. o[s] \in Int
    BY <1>2, <2>3
  <2> QED
    BY <1>6, <2>1, <2>2, <2>4
<1>9. \A s \in 0 .. n - 1 : d[s] = CR[s] /\ CR[s] >= last /\ CR[s] \in begin .. end - 1
                            /\ CR[s] \in Int
  <2> SUFFICES ASSUME NEW s \in 0 .. n - 1
               PROVE  d[s] = CR[s] /\ CR[s] >= last /\ CR[s] \in begin .. end - 1
                      /\ CR[s] \in Int
    OBVIOUS
  <2>1. s \in 0 .. m - 1 /\ 0 + s = s
    BY <1>4
  <2>2. CR[s] = baseR - offR[startR + s] /\ CR[s] \in Int
    BY <1>1, CellValues
  <2>3. CR[s] >= last /\ CR[s] \in begin .. end - 1
    BY <1>0, <1>1 DEF Cells
  <2> QED
    BY <1>3, <1>8, <1>b, <2>1, <2>2, <2>3
<1>10. \A s \in n .. m - 1 : d[s] \in g .. last - 1 /\ v[d[s]] \in GoesLeft
  <2> SUFFICES ASSUME NEW s \in n .. m - 1
               PROVE  d[s] \in g .. last - 1 /\ v[d[s]] \in GoesLeft
    OBVIOUS
  <2>1. s \in 0 .. m - 1
    BY <1>4
  <2>2. d[s] = baseR - o[s] /\ o[s] \in i + 1 .. i + w /\ v[d[s]] \in GoesLeft
    BY <1>8, <1>b, <2>1
  <2>3. d[s] \in g .. last - 1
    BY <1>2, <1>3, <1>4, <2>2
  <2> QED
    BY <2>2, <2>3
<1>11. \A s, t \in 0 .. m - 1 : s < t => d[t] < d[s]
  <2> SUFFICES ASSUME NEW s \in 0 .. m - 1, NEW t \in 0 .. m - 1, s < t
               PROVE  d[t] < d[s]
    OBVIOUS
  <2>1. CASE t < n
    <3>1. s \in 0 .. n - 1 /\ t \in 0 .. n - 1
      BY <1>4, <2>1
    <3> QED
      BY <1>0, <1>1, <1>9, <3>1 DEF Cells
  <2>2. CASE s < n /\ t >= n
    <3>1. s \in 0 .. n - 1 /\ t \in n .. m - 1
      BY <1>4, <2>2
    <3>2. d[s] >= last /\ d[s] \in Int /\ d[t] \in g .. last - 1
      BY <1>9, <1>10, <3>1
    <3> QED
      BY <1>2, <1>4, <3>2
  <2>3. CASE s >= n
    <3>1. s \in n .. m - 1 /\ t \in n .. m - 1
      BY <1>4, <2>3
    <3>2. o[s] < o[t] /\ s \in 0 .. m - 1 /\ t \in 0 .. m - 1
      BY <1>b, <3>1
    <3> QED
      BY <1>2, <1>8, <3>2
  <2> QED
    BY <1>4, <2>1, <2>2, <2>3
<1>12. Cells'
  <2>1. \A s \in 0 .. m - 1 : d[s] >= g /\ d[s] \in begin .. end - 1
    <3> SUFFICES ASSUME NEW s \in 0 .. m - 1
                 PROVE  d[s] >= g /\ d[s] \in begin .. end - 1
      OBVIOUS
    <3>1. CASE s < n
      <4>1. s \in 0 .. n - 1
        BY <1>4, <3>1
      <4>2. d[s] = CR[s] /\ CR[s] \in Int /\ CR[s] >= last /\ CR[s] \in begin .. end - 1
        BY <1>9, <4>1
      <4> QED
        BY <1>2, <1>4, <4>2
    <3>2. CASE s >= n
      <4>1. s \in n .. m - 1
        BY <1>4, <3>2
      <4>2. d[s] \in g .. last - 1
        BY <1>10, <4>1
      <4> QED
        BY <1>2, <1>4, <4>2
    <3> QED
      BY <1>4, <3>1, <3>2
  <2>2. /\ \A s \in 0 .. numL - 1 : CL[s] \in begin .. end - 1 /\ CL[s] < first
        /\ \A s, t \in 0 .. numL - 1 : s < t => CL[s] < CL[t]
    BY <1>0, <1>1 DEF Cells
  <2> QED
    BY <1>a, <1>1, <1>6, <1>11, <2>1, <2>2 DEF Cells
<1>13. Misfits'
  <2>1. /\ Marks(v, GoesRight, begin, first, CL, 0, numL)
        /\ Marks(v, GoesLeft, last, end, CR, 0, n)
    BY <1>1, <1>5 DEF Misfits
  <2>2. Marks(v, GoesLeft, g, end, d, 0, m)
    <3>1. \A s \in 0 .. n - 1 : d[s] = CR[s] /\ d[s] >= last
      BY <1>9
    <3>2. \A p \in g .. last - 1 : v[p] \in GoesLeft => \E s \in n .. m - 1 : d[s] = p
      <4> SUFFICES ASSUME NEW p \in g .. last - 1, v[p] \in GoesLeft
                   PROVE  \E s \in n .. m - 1 : d[s] = p
        OBVIOUS
      <4>1. p \in last - w .. last - 1
        BY <1>2, <1>4
      <4>2. PICK s \in n .. m - 1 : baseR - o[s] = p
        BY <1>b, <4>1
      <4>3. s \in 0 .. m - 1
        BY <1>4
      <4> QED
        BY <1>8, <4>2, <4>3
    <3> HIDE DEF n
    <3> QED
      BY <1>2, <1>4, <1>10, <2>1, <3>1, <3>2, MarksDown
  <2>3. Marks(Restored, GoesRight, begin, first, CL, Exch, numL)'
    BY <1>1, <1>5, <1>6, <2>1 DEF Marks
  <2>4. Marks(Restored, GoesLeft, last, end, CR, Exch, numR)'
    BY <1>a, <1>1, <1>5, <1>6, <2>2 DEF Marks
  <2> QED
    BY <1>0, <1>a, <1>1, <1>4, <1>6, <2>3, <2>4 DEF Misfits
<1>14. PrefixKept'
  <2>1. \A p \in first .. last - 1 : p < pfxEnd => v[p] \notin GoesLeft
    BY <1>1, <1>5 DEF PrefixKept
  <2>2. first .. g - 1 \subseteq first .. last - 1
    BY <1>2, <1>4
  <2> QED
    BY <1>a, <1>5, <1>6, <2>1, <2>2 DEF PrefixKept
<1>15. Fills'
  <2>1. i + w <= splitR /\ baseR - (i + w) = g /\ m <= i + w
    BY <1>0, <1>2, <1>3, <1>4
  <2>2. ByVector(splitR)' = ByVector(splitR)
    BY <1>0, <1>6 DEF ByVector
  <2> QED
    BY <1>0, <1>a, <1>2, <1>3, <1>4, <1>6, <2>1, <2>2 DEF Fills
<1>16. Scanned' /\ Returned'
  BY <1>0 DEF Scanned, Returned, Opening
<1> QED
  BY <1>5, <1>7, <1>12, <1>13, <1>14, <1>15, <1>16 DEF IInv

\* The branchless fill of the right block by one element is such a fill.
LEMMA FillRightStep == ASSUME IInv, FillRight PROVE IInv' /\ Moved
<1>1. /\ pc = "fillR" /\ i < splitR /\ ~ByVector(splitR)
      /\ UNCHANGED <<v, args, first, left, startR, baseR, splitL, splitR, k, tmp, pc>>
      /\ offR' = [offR EXCEPT ![numR] = i + 1]
      /\ numR' = IF v[last - 1] \in GoesLeft THEN numR + 1 ELSE numR
      /\ last' = last - 1 /\ i' = i + 1
  BY DEF FillRight
<1>2. TypeOK /\ Fills
  BY DEF IInv
<1>3. /\ last \in Int /\ numR \in Nat /\ numR <= i /\ i \in Nat
      /\ splitR \in Int /\ splitR <= B
      /\ baseR \in Int /\ baseR - i = last /\ B \in Nat \ {0}
      /\ offR \in [0 .. B - 1 -> 0 .. B]
  <2>1. numR <= i /\ baseR - i = last
    BY <1>1, <1>2, Numbers DEF Fills
  <2>2. offR \in [0 .. B - 1 -> 0 .. B]
    BY <1>2 DEF TypeOK
  <2>3. /\ last \in Int /\ numR \in Nat /\ i \in Nat /\ baseR \in Int
        /\ splitR \in Int /\ splitR <= B
    BY <1>2, Numbers, Widths
  <2> QED
    BY <2>1, <2>2, <2>3, Widths
<1> DEFINE Below == v[last - 1] \in GoesLeft
<1>a. PICK o, m : o = offR' /\ m = numR'
  OBVIOUS
<1>5. /\ o \in [0 .. B - 1 -> 0 .. B]
      /\ o[numR] = i + 1 /\ \A s \in 0 .. numR - 1 : o[s] = offR[s]
  <2>1. numR \in 0 .. B - 1 /\ i + 1 \in 0 .. B
    BY <1>1, <1>3
  <2> QED
    BY <1>1, <1>3, <1>a, <2>1
<1>6. \/ Below /\ m = numR + 1
      \/ ~Below /\ m = numR
  BY <1>1, <1>a
<1>7. /\ m \in numR .. numR + 1
      /\ \A s \in numR .. m - 1 : s = numR /\ Below
  BY <1>3, <1>6
<1>8. \A s \in numR .. m - 1 : o[s] \in i + 1 .. i + 1 /\ v[baseR - o[s]] \in GoesLeft
  <2> SUFFICES ASSUME NEW s \in numR .. m - 1
               PROVE  o[s] \in i + 1 .. i + 1 /\ v[baseR - o[s]] \in GoesLeft
    OBVIOUS
  <2>1. o[s] = i + 1 /\ Below
    BY <1>5, <1>7
  <2>2. baseR - (i + 1) = last - 1 /\ i + 1 \in i + 1 .. i + 1
    BY <1>3
  <2> QED
    BY <2>1, <2>2
<1>9. \A p \in last - 1 .. last - 1 :
         v[p] \in GoesLeft => \E s \in numR .. m - 1 : baseR - o[s] = p
  <2> SUFFICES ASSUME NEW p \in last - 1 .. last - 1, v[p] \in GoesLeft
               PROVE  \E s \in numR .. m - 1 : baseR - o[s] = p
    OBVIOUS
  <2>1. p = last - 1
    BY <1>3
  <2>2. m = numR + 1
    BY <1>6, <2>1
  <2>3. numR \in numR .. m - 1
    BY <1>3, <2>2
  <2> QED
    BY <1>3, <1>5, <2>1, <2>3
<1>10. \A s, t \in numR .. m - 1 : s < t => o[s] < o[t]
  BY <1>3, <1>7
<1>11. i + 1 <= splitR
  BY <1>1, <1>3
<1>12. RightGrows(1)
  BY <1>1, <1>5, <1>7, <1>8, <1>9, <1>10, <1>11, <1>a DEF RightGrows
<1> QED
  BY <1>12, RightExtended

\* The fill of the right block by a vector is such a fill: its offsets count
\* from one, and its lanes are mirrored.
LEMMA VectorFillRightStep == ASSUME IInv, VectorFillRight PROVE IInv' /\ Moved
<1> DEFINE mask == {W - lane : lane \in RightMask}
<1>1. /\ pc = "fillR" /\ i < splitR /\ ByVector(splitR)
      /\ UNCHANGED <<v, args, first, left, startR, baseR, splitL, splitR, k, tmp, pc>>
      /\ offR' = Stored(offR, numR, LutROff(RightMask), i)
      /\ numR' = numR + Cardinality(RightMask)
      /\ last' = last - W /\ i' = i + W
  BY DEF VectorFillRight
<1>2. TypeOK /\ Fills
  BY DEF IInv
<1>3. /\ last \in Int /\ numR \in Nat /\ numR <= i /\ i \in Nat
      /\ splitR = B /\ i % W = 0
      /\ baseR \in Int /\ baseR - i = last /\ B \in Nat \ {0} /\ W \in Nat \ {0}
      /\ offR \in [0 .. B - 1 -> 0 .. B - 1 + 1]
  <2>1. numR <= i /\ baseR - i = last /\ i % W = 0
    BY <1>1, <1>2, Numbers DEF Fills
  <2>2. splitR = B
    BY <1>1 DEF ByVector
  <2>3. B - 1 + 1 = B /\ offR \in [0 .. B - 1 -> 0 .. B]
    BY <1>2, Widths DEF TypeOK
  <2>4. last \in Int /\ numR \in Nat /\ i \in Nat /\ baseR \in Int
    BY <1>2, Numbers, Widths
  <2> QED
    BY <2>1, <2>2, <2>3, <2>4, Widths
<1>4. i + W <= B /\ (i + W) % W = 0
  BY <1>1, <1>3, WholeVectors
<1>5. RightMask \subseteq 0 .. W - 1 /\ IsFiniteSet(RightMask)
      /\ \A lane \in RightMask : lane \in Int /\ v[last - W + lane] \in GoesLeft
  <2>1. RightMask \subseteq 0 .. W - 1
        /\ \A lane \in RightMask : lane \in Int /\ v[last - W + lane] \in GoesLeft
    BY <1>3 DEF RightMask, Lanes
  <2>2. IsFiniteSet(0 .. W - 1)
    BY <1>3, FS_Interval
  <2> QED
    BY <2>1, <2>2, FS_Subset
<1>6. Cardinality(mask) = Cardinality(RightMask)
  <2> DEFINE f == [lane \in RightMask |-> W - lane]
  <2>1. f \in Surjection(RightMask, mask)
    BY DEF Surjection
  <2>2. \A a, b \in RightMask : f[a] = f[b] => a = b
    BY <1>3, <1>5
  <2>3. f \in Bijection(RightMask, mask)
    BY <2>1, <2>2 DEF Bijection, Injection, IsInjective, Surjection
  <2> HIDE DEF f, mask
  <2> QED
    BY <1>5, <2>3, FS_Bijection DEF ExistsBijection
<1>a. PICK o, m, c : o = offR' /\ m = numR' /\ c = Cardinality(mask)
  OBVIOUS
<1>7. /\ mask \subseteq 1 .. 1 + W - 1
      /\ \A d \in mask : d \in 1 .. W /\ v[last - d] \in GoesLeft
  <2> SUFFICES ASSUME NEW d \in mask
               PROVE  d \in 1 .. 1 + W - 1 /\ d \in 1 .. W /\ v[last - d] \in GoesLeft
    OBVIOUS
  <2>1. PICK lane \in RightMask : d = W - lane
    OBVIOUS
  <2>2. lane \in 0 .. W - 1 /\ v[last - W + lane] \in GoesLeft
    BY <1>5
  <2>3. last - W + lane = last - d /\ d \in 1 .. W /\ 1 + W - 1 = W
    BY <1>3, <2>1, <2>2
  <2> QED
    BY <2>2, <2>3
<1>8. o = Stored(offR, numR, Padded(InOrder(mask)), i)
  BY <1>1, <1>a DEF LutROff
<1>9. \A p \in last - W .. last - 1 : v[p] \in GoesLeft => last - p \in mask
  <2> SUFFICES ASSUME NEW p \in last - W .. last - 1, v[p] \in GoesLeft
               PROVE  last - p \in mask
    OBVIOUS
  <2> DEFINE lane == p - (last - W)
  <2>1. lane \in 0 .. W - 1 /\ last - W + lane = p /\ W - lane = last - p
    BY <1>3
  <2>2. lane \in RightMask
    BY <2>1 DEF RightMask, Lanes
  <2> QED
    BY <2>1, <2>2
<1> HIDE DEF mask
<1>10. c \in 0 .. W /\ Appended(o, offR, numR, mask, i, B - 1 + 1)
  <2>1. 1 \in Int /\ 1 \in {0, 1}
    OBVIOUS
  <2>2. Appended(o, offR, numR, mask, i, B - 1 + 1)
    BY <1>3, <1>4, <1>7, <1>8, <2>1, StoredOffsets
  <2> QED
    BY <1>a, <2>2 DEF Appended
<1>11. m = numR + c /\ m \in numR .. numR + W
  BY <1>1, <1>3, <1>6, <1>10, <1>a
<1>c. /\ o \in [0 .. B - 1 -> 0 .. B - 1 + 1]
      /\ \A s \in 0 .. numR - 1 : o[s] = offR[s]
      /\ \A s \in numR .. m - 1 : \E lane \in mask : o[s] = lane + i
      /\ \A s, t \in numR .. m - 1 : s < t => o[s] < o[t]
      /\ \A lane \in mask : \E s \in numR .. m - 1 : o[s] = lane + i
  <2>1. /\ o \in [0 .. B - 1 -> 0 .. B - 1 + 1]
        /\ \A s \in 0 .. numR - 1 : o[s] = offR[s]
        /\ \A s \in numR .. numR + c - 1 : \E lane \in mask : o[s] = lane + i
        /\ \A s, t \in numR .. numR + c - 1 : s < t => o[s] < o[t]
        /\ \A lane \in mask : \E s \in numR .. numR + c - 1 : o[s] = lane + i
    BY <1>10, <1>a DEF Appended
  <2>2. numR + c - 1 = m - 1
    BY <1>3, <1>10, <1>11
  <2> QED
    BY <2>1, <2>2
<1>12. \A s \in numR .. m - 1 : o[s] \in i + 1 .. i + W /\ v[baseR - o[s]] \in GoesLeft
  <2> SUFFICES ASSUME NEW s \in numR .. m - 1
               PROVE  o[s] \in i + 1 .. i + W /\ v[baseR - o[s]] \in GoesLeft
    OBVIOUS
  <2>1. PICK d \in mask : o[s] = d + i
    BY <1>c
  <2>2. d \in 1 .. W /\ v[last - d] \in GoesLeft
    BY <1>7
  <2>3. baseR - o[s] = last - d
    BY <1>3, <2>1, <2>2
  <2> QED
    BY <1>3, <2>1, <2>2, <2>3
<1>13. \A p \in last - W .. last - 1 :
          v[p] \in GoesLeft => \E s \in numR .. m - 1 : baseR - o[s] = p
  <2> SUFFICES ASSUME NEW p \in last - W .. last - 1, v[p] \in GoesLeft
               PROVE  \E s \in numR .. m - 1 : baseR - o[s] = p
    OBVIOUS
  <2>1. last - p \in mask
    BY <1>9
  <2>2. PICK s \in numR .. m - 1 : o[s] = (last - p) + i
    BY <1>c, <2>1
  <2> QED
    BY <1>3, <2>2
<1>14. o \in [0 .. B - 1 -> 0 .. B]
  <2>1. B - 1 + 1 = B
    BY <1>3
  <2> QED
    BY <1>c, <2>1
<1>d. i + W <= splitR
  BY <1>3, <1>4
<1>15. RightGrows(W)
  BY <1>1, <1>4, <1>c, <1>d, <1>11, <1>12, <1>13, <1>14, <1>a DEF RightGrows
<1> QED
  BY <1>3, <1>15, RightExtended
-----------------------------------------------------------------------------
(***************************************************************************)
(* The exchanges, by swaps or by a rotation.                               *)
(***************************************************************************)
\* The pair that is exchanged next.
LEMMA NextPair ==
    ASSUME IInv, pc \in {"swap", "rotate"}, k < Num
    PROVE  /\ k \in 0 .. numL - 1 /\ k \in 0 .. numR - 1
           /\ CL[k] \in begin .. first - 1 /\ CR[k] \in last .. end - 1
           /\ CL[k] \in Pos /\ CR[k] \in Pos /\ CL[k] # CR[k]
           /\ CL[k] = CellL(k) /\ CR[k] = CellR(k)
           /\ Restored[CL[k]] \in GoesRight /\ Restored[CR[k]] \in GoesLeft
<1>1. TypeOK /\ Cells /\ Misfits /\ InLoop /\ Exch = k
  BY DEF IInv, InLoop, Exch, Exchanging
<1>2. /\ begin \in Int /\ end \in Int /\ 0 <= begin /\ end <= N
      /\ first \in Int /\ last \in Int /\ begin <= first /\ last <= end
      /\ numL \in Nat /\ numR \in Nat /\ k \in Nat /\ N \in Nat
      /\ Num \in Int /\ Num <= numL /\ Num <= numR
  BY <1>1, Numbers, Widths
<1>3. k \in 0 .. numL - 1 /\ k \in 0 .. numR - 1
  BY <1>2
<1>4. CL[k] = CellL(k) /\ CL[k] \in Int /\ CR[k] = CellR(k) /\ CR[k] \in Int
  BY <1>1, <1>3, CellValues
<1>5. /\ CL[k] \in begin .. end - 1 /\ CL[k] < first
      /\ CR[k] \in begin .. end - 1 /\ CR[k] >= last
  BY <1>1, <1>3 DEF Cells
<1>6. CL[k] \in begin .. first - 1 /\ CR[k] \in last .. end - 1
  BY <1>2, <1>4, <1>5
<1>7. /\ first <= last
      /\ Marks(Restored, GoesRight, begin, first, CL, k, numL)
      /\ Marks(Restored, GoesLeft, last, end, CR, k, numR)
  BY <1>1 DEF Misfits
<1>8. Restored[CL[k]] \in GoesRight
  <2>1. k \in k .. numL - 1
    BY <1>3
  <2> QED
    BY <1>6, <1>7, <2>1 DEF Marks
<1>9. Restored[CR[k]] \in GoesLeft
  <2>1. k \in k .. numR - 1
    BY <1>3
  <2> QED
    BY <1>6, <1>7, <2>1 DEF Marks
<1>10. CL[k] \in Pos /\ CR[k] \in Pos /\ CL[k] # CR[k]
  BY <1>2, <1>5, <1>6, <1>7 DEF Pos
<1> QED
  BY <1>3, <1>4, <1>6, <1>8, <1>9, <1>10

\* A step that puts the next pair on its sides, and nothing on the other one.
PairPlaced ==
    /\ pc \in {"swap", "rotate"} /\ k < Num
    /\ UNCHANGED <<args, first, last, left, right, splitL, splitR, i, pc>>
    /\ k' = k + 1
    /\ v' \in [Pos -> Pos \cup {Hole}] /\ tmp' \in Pos \cup {Hole}
    /\ OneGap'
    /\ Restored'[CL[k]] \in GoesLeft /\ Restored'[CR[k]] \in GoesRight
    /\ \A p \in Pos : p # CL[k] /\ p # CR[k] =>
          (Restored'[p] \in GoesLeft <=> Restored[p] \in GoesLeft)
    /\ \A p \in Pos : p \notin begin .. end - 1 => Restored'[p] = Restored[p]

\* Whatever puts the next pair on its sides keeps the invariant.
LEMMA PairPlacedStep == ASSUME IInv, PairPlaced PROVE IInv' /\ Moved
<1>a. PICK w, u : w = Restored /\ u = Restored'
  OBVIOUS
<1>1. /\ pc \in {"swap", "rotate"} /\ pc' = pc /\ k < Num /\ k' = k + 1
      /\ UNCHANGED <<args, first, last, left, right, splitL, splitR, i>>
      /\ v' \in [Pos -> Pos \cup {Hole}] /\ tmp' \in Pos \cup {Hole} /\ OneGap'
  BY DEF PairPlaced
<1>2. /\ u[CL[k]] \in GoesLeft /\ u[CR[k]] \in GoesRight
      /\ \A p \in Pos : p # CL[k] /\ p # CR[k] => (u[p] \in GoesLeft <=> w[p] \in GoesLeft)
      /\ \A p \in Pos : p \notin begin .. end - 1 => u[p] = w[p]
  BY <1>a DEF PairPlaced
<1>3. TypeOK /\ OneGap /\ PrefixKept /\ Cells /\ Misfits /\ InLoop /\ InLoop' /\ Exch = k
      /\ Exch' = k + 1
  BY <1>1 DEF IInv, InLoop, Exch, Exchanging
<1>4. /\ begin \in Int /\ end \in Int /\ 0 <= begin /\ end <= N /\ begin <= end
      /\ first \in Int /\ last \in Int /\ begin <= first /\ last <= end
      /\ numL \in Nat /\ numR \in Nat /\ k \in Nat /\ N \in Nat /\ B \in Nat
      /\ Num \in 0 .. B /\ Num \in Int /\ Num <= numL /\ Num <= numR
  BY <1>3, Numbers, Widths
<1>5. /\ k \in 0 .. numL - 1 /\ k \in 0 .. numR - 1
      /\ CL[k] \in begin .. first - 1 /\ CR[k] \in last .. end - 1
  BY <1>1, NextPair
<1>6. /\ CL' = CL /\ CR' = CR /\ Num' = Num
      /\ first' = first /\ last' = last /\ numL' = numL /\ numR' = numR
      /\ GoesLeft' = GoesLeft /\ GoesRight' = GoesRight
      /\ begin' = begin /\ end' = end /\ pfxEnd' = pfxEnd
  BY <1>1, SameLeft, SameRight, SameArgs DEF left, right, Num, Lesser
<1>7. IsArrangement(w) /\ IsArrangement(u)
  BY <1>1, <1>3, <1>a DEF OneGap
<1>8. Moved
  BY <1>2, <1>7, <1>a DEF Moved, SameOutside
<1>9. TypeOK'
  <2>1. k' \in 0 .. B
    BY <1>1, <1>4
  <2> QED
    BY <1>1, <1>3, <2>1 DEF TypeOK, args, left, right
<1>10. /\ first <= last
       /\ Marks(w, GoesRight, begin, first, CL, k, numL)
       /\ Marks(w, GoesLeft, last, end, CR, k, numR)
  BY <1>3, <1>a DEF Misfits
<1>11. /\ \A x \in 0 .. numL - 1 : CL[x] \in begin .. end - 1 /\ CL[x] < first
       /\ \A x \in 0 .. numR - 1 : CR[x] \in begin .. end - 1 /\ CR[x] >= last
       /\ \A x, y \in 0 .. numL - 1 : x < y => CL[x] < CL[y]
       /\ \A x, y \in 0 .. numR - 1 : x < y => CR[y] < CR[x]
  BY <1>1, <1>3 DEF Cells
<1>12. Marks(u, GoesRight, begin, first, CL, k + 1, numL)
  <2>1. \A x \in k + 1 .. numL - 1 : CL[x] # CL[k]
    <3> SUFFICES ASSUME NEW x \in k + 1 .. numL - 1 PROVE CL[x] # CL[k]
      OBVIOUS
    <3>1. x \in 0 .. numL - 1 /\ k < x
      BY <1>4
    <3>2. CL[k] < CL[x] /\ CL[x] \in Int /\ CL[k] \in Int
      BY <1>4, <1>5, <1>11, <3>1
    <3> QED
      BY <3>2
  <2>2. \A p \in begin .. first - 1 : p # CL[k] => (u[p] \in GoesRight <=> w[p] \in GoesRight)
    <3> SUFFICES ASSUME NEW p \in begin .. first - 1, p # CL[k]
                 PROVE  u[p] \in GoesRight <=> w[p] \in GoesRight
      OBVIOUS
    <3>1. p \in Pos /\ p # CR[k]
      BY <1>4, <1>5, <1>10 DEF Pos
    <3>2. u[p] \in Pos /\ w[p] \in Pos
      BY <1>7, <3>1 DEF IsArrangement
    <3> QED
      BY <1>2, <3>1, <3>2 DEF GoesRight
  <2>3. u[CL[k]] \notin GoesRight /\ k < numL
    BY <1>2, <1>4, <1>5 DEF GoesRight
  <2> QED
    BY <1>4, <1>10, <2>1, <2>2, <2>3, MarksPlaced
<1>13. Marks(u, GoesLeft, last, end, CR, k + 1, numR)
  <2>1. \A x \in k + 1 .. numR - 1 : CR[x] # CR[k]
    <3> SUFFICES ASSUME NEW x \in k + 1 .. numR - 1 PROVE CR[x] # CR[k]
      OBVIOUS
    <3>1. x \in 0 .. numR - 1 /\ k < x
      BY <1>4
    <3>2. CR[x] < CR[k] /\ CR[x] \in Int /\ CR[k] \in Int
      BY <1>4, <1>5, <1>11, <3>1
    <3> QED
      BY <3>2
  <2>2. \A p \in last .. end - 1 : p # CR[k] => (u[p] \in GoesLeft <=> w[p] \in GoesLeft)
    <3> SUFFICES ASSUME NEW p \in last .. end - 1, p # CR[k]
                 PROVE  u[p] \in GoesLeft <=> w[p] \in GoesLeft
      OBVIOUS
    <3>1. p \in Pos /\ p # CL[k]
      BY <1>4, <1>5, <1>10 DEF Pos
    <3> QED
      BY <1>2, <3>1
  <2>3. u[CR[k]] \notin GoesLeft /\ k < numR
    BY <1>2, <1>4, <1>5 DEF GoesRight
  <2> QED
    BY <1>4, <1>10, <2>1, <2>2, <2>3, MarksPlaced
<1>14. Misfits'
  <2>1. Marks(Restored, GoesRight, begin, first, CL, Exch, numL)'
    BY <1>a, <1>3, <1>6, <1>12 DEF Marks
  <2>2. Marks(Restored, GoesLeft, last, end, CR, Exch, numR)'
    BY <1>a, <1>3, <1>6, <1>13 DEF Marks
  <2>3. pc' \notin {"round", "drainL", "drainR"}
    BY <1>1
  <2> QED
    BY <1>6, <1>10, <2>1, <2>2, <2>3 DEF Misfits
<1>15. Cells'
  BY <1>1, <1>3, <1>6, <1>11 DEF Cells
<1>16. PrefixKept'
  <2>1. \A p \in first .. last - 1 : p < pfxEnd => w[p] \notin GoesLeft
    BY <1>3, <1>a DEF PrefixKept
  <2>2. \A p \in first .. last - 1 : p \in Pos /\ p # CL[k] /\ p # CR[k]
    BY <1>4, <1>5, <1>10 DEF Pos
  <2>3. \A p \in first .. last - 1 : p < pfxEnd => u[p] \notin GoesLeft
    BY <1>2, <2>1, <2>2
  <2> QED
    BY <1>a, <1>6, <2>3 DEF PrefixKept
<1>17. Fills'
  <2>1. k + 1 <= Num
    BY <1>1, <1>4
  <2> QED
    BY <1>1, <1>6, <2>1 DEF Fills
<1>18. Scanned' /\ Returned'
  BY <1>1 DEF Scanned, Returned, Opening
<1> QED
  BY <1>1, <1>8, <1>9, <1>14, <1>15, <1>16, <1>17, <1>18 DEF IInv

\* An exchange by swap does.
LEMMA SwapPairStep == ASSUME IInv, SwapPair PROVE IInv' /\ Moved
<1>1. /\ pc = "swap" /\ k < Num /\ v' = Swap(v, CellL(k), CellR(k)) /\ k' = k + 1
      /\ UNCHANGED <<args, first, last, left, right, splitL, splitR, i, tmp, pc>>
  BY DEF SwapPair
<1>2. /\ CL[k] \in begin .. first - 1 /\ CR[k] \in last .. end - 1
      /\ CL[k] \in Pos /\ CR[k] \in Pos /\ CL[k] # CR[k]
      /\ CL[k] = CellL(k) /\ CR[k] = CellR(k)
      /\ Restored[CL[k]] \in GoesRight /\ Restored[CR[k]] \in GoesLeft
  BY <1>1, NextPair
<1>3. TypeOK /\ OneGap
  BY DEF IInv
<1>4. Restored = v /\ v \in [Pos -> Pos] /\ IsArrangement(v)
  BY <1>1, <1>3, Whole
<1>a. PICK u, l, r : u = v' /\ l = CL[k] /\ r = CR[k]
  OBVIOUS
<1>5. l \in Pos /\ r \in Pos /\ u = Swap(v, l, r)
  BY <1>1, <1>2, <1>a
<1>6. /\ IsArrangement(u) /\ u[l] = v[r] /\ u[r] = v[l]
      /\ \A p \in Pos : p # l /\ p # r => u[p] = v[p]
  BY <1>4, <1>5, ExchangeRearranges
<1>7. OneGap' /\ Restored' = u
  BY <1>1, <1>6, <1>a, WholeNext
<1>8. l \in begin .. end - 1 /\ r \in begin .. end - 1
  <2>1. /\ begin \in Int /\ end \in Int /\ first \in Int /\ last \in Int
        /\ first <= end /\ begin <= last
    BY <1>3, Numbers
  <2> QED
    BY <1>2, <1>a, <2>1
<1>9. PairPlaced
  <2>1. u \in [Pos -> Pos \cup {Hole}] /\ tmp \in Pos \cup {Hole}
    BY <1>3, <1>6 DEF IsArrangement, TypeOK
  <2>2. u[l] \in GoesLeft /\ u[r] \in GoesRight
    BY <1>2, <1>4, <1>6, <1>a
  <2>3. \A p \in Pos : p # l /\ p # r => (u[p] \in GoesLeft <=> Restored[p] \in GoesLeft)
    BY <1>4, <1>6
  <2>4. \A p \in Pos : p \notin begin .. end - 1 => u[p] = Restored[p]
    BY <1>4, <1>6, <1>8
  <2> QED
    BY <1>1, <1>7, <1>a, <2>1, <2>2, <2>3, <2>4 DEF PairPlaced
<1> QED
  BY <1>9, PairPlacedStep

\* The first move of a rotation does, the held element counted in the cell it
\* will be put in.
LEMMA RotateOpenStep == ASSUME IInv, RotateOpen PROVE IInv' /\ Moved
<1>1. /\ pc = "rotate" /\ k = 0 /\ k < Num /\ tmp' = v[CellL(0)] /\ k' = 1
      /\ v' = [v EXCEPT ![CellL(0)] = v[CellR(0)], ![CellR(0)] = Hole]
      /\ UNCHANGED <<args, first, last, left, right, splitL, splitR, i, pc>>
  BY DEF RotateOpen
<1>2. /\ CL[0] \in begin .. first - 1 /\ CR[0] \in last .. end - 1
      /\ CL[0] \in Pos /\ CR[0] \in Pos /\ CL[0] # CR[0]
      /\ CL[0] = CellL(0) /\ CR[0] = CellR(0)
      /\ Restored[CL[0]] \in GoesRight /\ Restored[CR[0]] \in GoesLeft
  BY <1>1, NextPair
<1>3. TypeOK /\ OneGap
  BY DEF IInv
<1>4. Restored = v /\ v \in [Pos -> Pos] /\ IsArrangement(v)
  BY <1>1, <1>3, Whole
<1>a. PICK u, z, l, r : u = Restored' /\ z = v' /\ l = CL[0] /\ r = CR[0]
  OBVIOUS
<1>5. /\ l \in Pos /\ r \in Pos /\ l # r
      /\ z = [v EXCEPT ![l] = v[r], ![r] = Hole]
  BY <1>1, <1>2, <1>a
<1>6. Rotating' /\ (CellR(k - 1))' = r
  <2>1. (CellR(k - 1))' = CellR(0)
    BY <1>1 DEF CellR, right
  <2> QED
    BY <1>1, <1>2, <1>a, <2>1 DEF Rotating
<1>7. u = [z EXCEPT ![r] = v[l]] /\ tmp' = v[l]
  BY <1>1, <1>2, <1>6, <1>a DEF Restored
<1>8. u = Swap(v, l, r)
  BY <1>4, <1>5, <1>7 DEF Swap
<1>9. /\ IsArrangement(u) /\ u[l] = v[r] /\ u[r] = v[l]
      /\ \A p \in Pos : p # l /\ p # r => u[p] = v[p]
  BY <1>4, <1>5, <1>8, ExchangeRearranges
<1>10. l \in begin .. end - 1 /\ r \in begin .. end - 1
  <2>1. /\ begin \in Int /\ end \in Int /\ first \in Int /\ last \in Int
        /\ first <= end /\ begin <= last
    BY <1>3, Numbers
  <2> QED
    BY <1>2, <1>a, <2>1
<1>11. z \in [Pos -> Pos \cup {Hole}] /\ z[r] = Hole /\ v[l] \in Pos /\ v[l] # Hole
  BY <1>4, <1>5 DEF Hole, Pos
<1>12. OneGap'
  BY <1>6, <1>7, <1>9, <1>11, <1>a DEF OneGap
<1>13. PairPlaced
  <2>1. u[l] \in GoesLeft /\ u[r] \in GoesRight
    BY <1>2, <1>4, <1>9, <1>a
  <2>2. \A p \in Pos : p # l /\ p # r => (u[p] \in GoesLeft <=> Restored[p] \in GoesLeft)
    BY <1>4, <1>9
  <2>3. \A p \in Pos : p \notin begin .. end - 1 => u[p] = Restored[p]
    BY <1>4, <1>9, <1>10
  <2>4. k' = k + 1 /\ pc \in {"swap", "rotate"}
    BY <1>1
  <2> QED
    BY <1>1, <1>7, <1>11, <1>12, <1>a, <2>1, <2>2, <2>3, <2>4 DEF PairPlaced
<1> QED
  BY <1>13, PairPlacedStep

\* So does every further move: the vacant cell is filled before the next opens.
LEMMA RotateStepStep == ASSUME IInv, RotateStep PROVE IInv' /\ Moved
<1>1. /\ pc = "rotate" /\ 0 < k /\ k < Num /\ k' = k + 1 /\ tmp' = tmp
      /\ v' = [v EXCEPT ![CellR(k - 1)] = v[CellL(k)], ![CellL(k)] = v[CellR(k)],
                        ![CellR(k)] = Hole]
      /\ UNCHANGED <<args, first, last, left, right, splitL, splitR, i, pc>>
  BY DEF RotateStep
<1>2. /\ CL[k] \in begin .. first - 1 /\ CR[k] \in last .. end - 1
      /\ CL[k] \in Pos /\ CR[k] \in Pos /\ CL[k] # CR[k]
      /\ CL[k] = CellL(k) /\ CR[k] = CellR(k)
      /\ Restored[CL[k]] \in GoesRight /\ Restored[CR[k]] \in GoesLeft
      /\ k \in 0 .. numR - 1
  BY <1>1, NextPair
<1>3. TypeOK /\ OneGap /\ Cells /\ Misfits /\ InLoop /\ Exch = k
  BY <1>1 DEF IInv, InLoop, Exch, Exchanging
<1>4. /\ begin \in Int /\ end \in Int /\ first \in Int /\ last \in Int /\ 0 <= begin /\ end <= N
      /\ first <= end /\ begin <= last /\ k \in Nat /\ numR \in Nat /\ N \in Nat
  BY <1>3, Numbers, Widths
<1>5. first <= last /\ Marks(Restored, GoesLeft, last, end, CR, k, numR)
  BY <1>3 DEF Misfits
\* The cell left vacant by the pair before holds nothing that goes left.
<1>6. /\ k - 1 \in 0 .. numR - 1 /\ CR[k - 1] \in last .. end - 1
      /\ CR[k - 1] = CellR(k - 1)
      /\ \A x \in k .. numR - 1 : CR[x] # CR[k - 1]
  <2>1. k - 1 \in 0 .. numR - 1
    BY <1>1, <1>2, <1>4
  <2>2. CR[k - 1] \in begin .. end - 1 /\ CR[k - 1] >= last
        /\ \A x, y \in 0 .. numR - 1 : x < y => CR[y] < CR[x]
    BY <1>1, <1>3, <2>1 DEF Cells
  <2>3. CR[k - 1] \in last .. end - 1 /\ CR[k - 1] = CellR(k - 1)
    BY <1>3, <1>4, <2>1, <2>2, CellValues
  <2>4. ASSUME NEW x \in k .. numR - 1 PROVE CR[x] # CR[k - 1]
    <3>1. x \in 0 .. numR - 1 /\ k - 1 < x
      BY <1>4
    <3>2. CR[x] < CR[k - 1] /\ CR[x] \in Int /\ CR[k - 1] \in Int
      BY <1>3, <2>1, <2>2, <3>1, CellValues
    <3> QED
      BY <3>2
  <2> QED
    BY <2>1, <2>3, <2>4
<1>a. PICK w, u, z, l, r, q :
         w = Restored /\ u = Restored' /\ z = v' /\ l = CL[k] /\ r = CR[k] /\ q = CR[k - 1]
  OBVIOUS
<1>7. /\ l \in Pos /\ r \in Pos /\ q \in Pos /\ l # r /\ l # q /\ r # q
      /\ l \in begin .. end - 1 /\ r \in begin .. end - 1 /\ q \in begin .. end - 1
      /\ w[q] \notin GoesLeft /\ w[l] \in GoesRight /\ w[r] \in GoesLeft
      /\ z = [v EXCEPT ![q] = v[l], ![l] = v[r], ![r] = Hole]
  <2>1. w[q] \notin GoesLeft
    BY <1>5, <1>6, <1>a DEF Marks
  <2>2. q \in Pos /\ l # q
    BY <1>2, <1>4, <1>5, <1>6, <1>a DEF Pos
  <2>3. r # q
    <3>1. k \in k .. numR - 1
      BY <1>2, <1>4
    <3> QED
      BY <1>6, <1>a, <3>1
  <2>4. l \in begin .. end - 1 /\ r \in begin .. end - 1 /\ q \in begin .. end - 1
    BY <1>2, <1>4, <1>6, <1>a
  <2> QED
    BY <1>1, <1>2, <1>6, <1>a, <2>1, <2>2, <2>3, <2>4
<1>8. Rotating /\ Rotating' /\ (CellR(k - 1))' = r
  <2>1. Rotating /\ Rotating'
    BY <1>1, <1>4 DEF Rotating
  <2>2. k' - 1 = k
    BY <1>1, <1>4
  <2>3. (CellR(k - 1))' = CellR(k)
    BY <1>1, <2>2 DEF CellR, right
  <2> QED
    BY <1>2, <1>a, <2>1, <2>3
<1>9. w = [v EXCEPT ![q] = tmp] /\ u = [z EXCEPT ![r] = tmp]
  BY <1>1, <1>6, <1>8, <1>a DEF Restored
<1>10. IsArrangement(w) /\ w \in [Pos -> Pos] /\ tmp # Hole /\ v \in [Pos -> Pos \cup {Hole}]
       /\ tmp \in Pos
  BY <1>3, <1>8, <1>a DEF OneGap, IsArrangement, TypeOK
<1>11. /\ w[q] = tmp
       /\ \A p \in Pos : p # q => w[p] = v[p]
  BY <1>7, <1>9, <1>10
<1>12. /\ u[q] = w[l] /\ u[l] = w[r] /\ u[r] = w[q] /\ u \in [Pos -> Pos]
       /\ \A p \in Pos : p # q /\ p # l /\ p # r => u[p] = w[p]
       /\ z[r] = Hole /\ z \in [Pos -> Pos \cup {Hole}]
  <2>1. w[l] = v[l] /\ w[r] = v[r] /\ w[l] \in Pos /\ w[r] \in Pos
    BY <1>7, <1>10, <1>11
  <2>2. /\ DOMAIN z = Pos /\ z[r] = Hole /\ z[l] = v[r] /\ z[q] = v[l]
        /\ \A p \in Pos : p # q /\ p # l /\ p # r => z[p] = v[p]
        /\ z \in [Pos -> Pos \cup {Hole}]
    BY <1>7, <1>10, <2>1
  <2>3. /\ u[r] = tmp /\ u[l] = z[l] /\ u[q] = z[q]
        /\ \A p \in Pos : p # r => u[p] = z[p]
    BY <1>7, <1>9, <2>2
  <2>4. \A p \in Pos : p # q /\ p # l /\ p # r => u[p] = w[p]
    BY <1>11, <2>2, <2>3
  <2>5. \A p \in Pos : u[p] \in Pos
    BY <1>10, <2>1, <2>2, <2>3, <2>4
  <2>6. u = [p \in Pos |-> u[p]]
    BY <1>9, <2>2
  <2> QED
    BY <1>11, <2>1, <2>2, <2>3, <2>4, <2>5, <2>6
<1>13. IsArrangement(u)
  <2> DEFINE s == Swap(w, q, l)
             y == Swap(s, l, r)
  <2>1. /\ IsArrangement(s) /\ s[q] = w[l] /\ s[l] = w[q]
        /\ \A p \in Pos : p # q /\ p # l => s[p] = w[p]
    BY <1>7, <1>10, SwapArrangement, SwapCells
  <2> HIDE DEF s
  <2>2. s \in [Pos -> Pos]
    BY <2>1 DEF IsArrangement
  <2>3. /\ IsArrangement(y) /\ y[l] = s[r] /\ y[r] = s[l]
        /\ \A p \in Pos : p # l /\ p # r => y[p] = s[p]
    <3>1. IsArrangement(y)
      BY <1>7, <2>1, SwapArrangement
    <3>2. /\ y[l] = s[r] /\ y[r] = s[l]
          /\ \A p \in Pos : p # l /\ p # r => y[p] = s[p]
      BY <1>7, <2>2, SwapCells
    <3> QED
      BY <3>1, <3>2
  <2> HIDE DEF y
  <2>4. \A p \in Pos : y[p] = u[p]
    BY <1>7, <1>12, <2>1, <2>3
  <2>5. y = u
    BY <1>12, <2>3, <2>4 DEF IsArrangement
  <2> QED
    BY <2>3, <2>5
<1>14. OneGap'
  BY <1>1, <1>8, <1>10, <1>12, <1>13, <1>a DEF OneGap
<1>15. PairPlaced
  <2>1. u[l] \in GoesLeft /\ u[r] \in GoesRight
    <3>1. u[r] \in Pos /\ u[r] \notin GoesLeft
      BY <1>7, <1>12
    <3> QED
      BY <1>7, <1>12, <3>1 DEF GoesRight
  <2>2. \A p \in Pos : p # l /\ p # r => (u[p] \in GoesLeft <=> w[p] \in GoesLeft)
    <3>1. w[l] \notin GoesLeft
      BY <1>7 DEF GoesRight
    <3> QED
      BY <1>7, <1>12, <3>1
  <2>3. \A p \in Pos : p \notin begin .. end - 1 => u[p] = w[p]
    BY <1>7, <1>12
  <2>4. pc \in {"swap", "rotate"}
    BY <1>1
  <2> QED
    BY <1>1, <1>10, <1>12, <1>14, <1>a, <2>1, <2>2, <2>3, <2>4 DEF PairPlaced
<1> QED
  BY <1>15, PairPlacedStep

\* The last move of the rotation fills the vacant cell.
LEMMA RotateCloseStep == ASSUME IInv, RotateClose PROVE IInv' /\ Moved /\ v' = Restored
<1>1. /\ pc = "rotate" /\ k = Num /\ k > 0 /\ pc' = "consume" /\ tmp' = Hole
      /\ v' = [v EXCEPT ![CellR(k - 1)] = tmp]
      /\ UNCHANGED <<args, first, last, left, right, splitL, splitR, i, k>>
  BY DEF RotateClose
<1>2. TypeOK /\ OneGap /\ PrefixKept /\ Cells /\ Misfits /\ InLoop /\ InLoop' /\ Exch = k
      /\ Exch' = k
  BY <1>1 DEF IInv, InLoop, Exch, Exchanging
<1>3. Rotating /\ v' = Restored /\ IsArrangement(Restored)
  BY <1>1, <1>2 DEF Rotating, Restored, OneGap
<1>4. Restored' = Restored /\ OneGap'
  BY <1>1, <1>3, WholeNext
<1>5. Moved
  BY <1>3, <1>4 DEF Moved, SameOutside
<1>6. /\ CL' = CL /\ CR' = CR /\ Num' = Num
      /\ first' = first /\ last' = last /\ numL' = numL /\ numR' = numR
      /\ GoesLeft' = GoesLeft /\ GoesRight' = GoesRight
      /\ begin' = begin /\ end' = end /\ pfxEnd' = pfxEnd
  BY <1>1, SameLeft, SameRight, SameArgs DEF left, right, Num, Lesser
<1>7. TypeOK'
  <2>1. v' \in [Pos -> Pos \cup {Hole}]
    BY <1>3 DEF IsArrangement
  <2> QED
    BY <1>1, <1>2, <2>1 DEF TypeOK, args, left, right
<1>8. PrefixKept'
  BY <1>2, <1>4, <1>6 DEF PrefixKept
<1>9. Cells'
  <2>1. /\ \A x \in 0 .. numL - 1 : CL[x] \in begin .. end - 1 /\ CL[x] < first
        /\ \A x \in 0 .. numR - 1 : CR[x] \in begin .. end - 1 /\ CR[x] >= last
        /\ \A x, y \in 0 .. numL - 1 : x < y => CL[x] < CL[y]
        /\ \A x, y \in 0 .. numR - 1 : x < y => CR[y] < CR[x]
    BY <1>1, <1>2 DEF Cells
  <2> QED
    BY <1>2, <1>6, <2>1 DEF Cells
<1>10. Misfits'
  <2>1. /\ first <= last
        /\ Marks(Restored, GoesRight, begin, first, CL, k, numL)
        /\ Marks(Restored, GoesLeft, last, end, CR, k, numR)
    BY <1>2 DEF Misfits
  <2>2. /\ Marks(Restored, GoesRight, begin, first, CL, Exch, numL)'
        /\ Marks(Restored, GoesLeft, last, end, CR, Exch, numR)'
    BY <1>2, <1>4, <1>6, <2>1 DEF Marks
  <2> QED
    BY <1>1, <1>6, <2>1, <2>2 DEF Misfits
<1>11. Fills'
  BY <1>1, <1>6 DEF Fills
<1>12. Scanned' /\ Returned'
  BY <1>1 DEF Scanned, Returned, Opening
<1> QED
  BY <1>3, <1>4, <1>5, <1>7, <1>8, <1>9, <1>10, <1>11, <1>12 DEF IInv
-----------------------------------------------------------------------------
(***************************************************************************)
(* The bookkeeping after the exchanges.                                    *)
(***************************************************************************)
LEMMA ConsumeStep == ASSUME IInv, Consume PROVE IInv' /\ Moved
<1>1. /\ pc = "consume" /\ pc' = "round" /\ numL' = numL - Num /\ numR' = numR - Num
      /\ UNCHANGED <<v, args, first, last, offL, offR, round>>
      /\ IF numL = Num THEN startL' = 0 /\ baseL' = first
                       ELSE startL' = startL + Num /\ baseL' = baseL
      /\ IF numR = Num THEN startR' = 0 /\ baseR' = last
                       ELSE startR' = startR + Num /\ baseR' = baseR
  BY DEF Consume
<1>2. /\ TypeOK /\ OneGap /\ PrefixKept /\ Cells /\ Misfits /\ InLoop /\ InLoop'
      /\ k = Num /\ Exch = Num /\ Exch' = 0
  BY <1>1 DEF IInv, Fills, InLoop, Filling, Exch, Exchanging
<1>3. /\ Num \in Nat /\ Num <= numL /\ Num <= numR /\ (Num = numL \/ Num = numR)
      /\ numL \in Nat /\ numR \in Nat /\ numL <= B /\ numR <= B /\ B \in Nat
      /\ startL \in 0 .. B - numL /\ startR \in 0 .. B - numR
      /\ first \in begin .. end /\ last \in begin .. end
      /\ baseL \in begin .. end /\ baseR \in begin .. end
      /\ baseL \in Int /\ baseR \in Int
  <2>1. baseL \in Int /\ baseR \in Int
    BY <1>2, Numbers
  <2>2. startL \in 0 .. B - numL /\ startR \in 0 .. B - numR
    BY <1>2 DEF TypeOK
  <2> QED
    BY <1>2, <2>1, <2>2, Numbers, Widths
<1>4. /\ OneGap' /\ Moved /\ Restored' = v /\ Restored = v
  BY <1>1, <1>2, NothingMoved
<1>5. /\ first' = first /\ last' = last
      /\ GoesLeft' = GoesLeft /\ GoesRight' = GoesRight
      /\ begin' = begin /\ end' = end /\ pfxEnd' = pfxEnd
  BY <1>1, SameArgs
<1>a. PICK c, d, m, n : c = CL' /\ d = CR' /\ m = numL' /\ n = numR'
  OBVIOUS
<1>6. /\ m = numL - Num /\ n = numR - Num /\ m \in Nat /\ n \in Nat /\ m <= B /\ n <= B
      /\ m = 0 \/ n = 0
  BY <1>1, <1>3, <1>a
<1>7. TypeOK'
  <2>1. startL' \in 0 .. B - m /\ baseL' \in begin .. end
    <3>1. 0 \in 0 .. B - m /\ startL + Num \in 0 .. B - m
      BY <1>3, <1>6
    <3> QED
      BY <1>1, <1>3, <3>1
  <2>2. startR' \in 0 .. B - n /\ baseR' \in begin .. end
    <3>1. 0 \in 0 .. B - n /\ startR + Num \in 0 .. B - n
      BY <1>3, <1>6
    <3> QED
      BY <1>1, <1>3, <3>1
  <2>3. m \in 0 .. B /\ n \in 0 .. B
    BY <1>6
  <2> QED
    BY <1>1, <1>2, <1>a, <2>1, <2>2, <2>3 DEF TypeOK, args, round
<1>8. \A x \in 0 .. m - 1 : x + Num \in 0 .. numL - 1 /\ c[x] = CL[x + Num]
  <2> SUFFICES ASSUME NEW x \in 0 .. m - 1
               PROVE  x + Num \in 0 .. numL - 1 /\ c[x] = CL[x + Num]
    OBVIOUS
  <2>1. x + Num \in 0 .. numL - 1 /\ numL # Num /\ startL + (x + Num) = startL + Num + x
    BY <1>3, <1>6
  <2>2. c[x] = baseL' + offL'[startL' + x]
    BY <1>a DEF CL, CellL
  <2>3. c[x] = baseL + offL[startL + Num + x]
    BY <1>1, <2>1, <2>2
  <2>4. CL[x + Num] = baseL + offL[startL + (x + Num)]
    BY <1>2, <2>1, CellValues
  <2> QED
    BY <2>1, <2>3, <2>4
<1>9. \A x \in 0 .. n - 1 : x + Num \in 0 .. numR - 1 /\ d[x] = CR[x + Num]
  <2> SUFFICES ASSUME NEW x \in 0 .. n - 1
               PROVE  x + Num \in 0 .. numR - 1 /\ d[x] = CR[x + Num]
    OBVIOUS
  <2>1. x + Num \in 0 .. numR - 1 /\ numR # Num /\ startR + (x + Num) = startR + Num + x
    BY <1>3, <1>6
  <2>2. d[x] = baseR' - offR'[startR' + x]
    BY <1>a DEF CR, CellR
  <2>3. d[x] = baseR - offR[startR + Num + x]
    BY <1>1, <2>1, <2>2
  <2>4. CR[x + Num] = baseR - offR[startR + (x + Num)]
    BY <1>2, <2>1, CellValues
  <2> QED
    BY <2>1, <2>3, <2>4
<1>10. Cells'
  <2>1. /\ \A x \in 0 .. numL - 1 : CL[x] \in begin .. end - 1 /\ CL[x] < first
        /\ \A x \in 0 .. numR - 1 : CR[x] \in begin .. end - 1 /\ CR[x] >= last
        /\ \A x, y \in 0 .. numL - 1 : x < y => CL[x] < CL[y]
        /\ \A x, y \in 0 .. numR - 1 : x < y => CR[y] < CR[x]
    BY <1>1, <1>2 DEF Cells
  <2>2. /\ \A x \in 0 .. m - 1 : c[x] \in begin .. end - 1 /\ c[x] < first
        /\ \A x \in 0 .. n - 1 : d[x] \in begin .. end - 1 /\ d[x] >= last
    BY <1>8, <1>9, <2>1
  <2>3. \A x, y \in 0 .. m - 1 : x < y => c[x] < c[y]
    <3> SUFFICES ASSUME NEW x \in 0 .. m - 1, NEW y \in 0 .. m - 1, x < y
                 PROVE  c[x] < c[y]
      OBVIOUS
    <3>1. x + Num < y + Num
      BY <1>3, <1>6
    <3> QED
      BY <1>8, <2>1, <3>1
  <2>4. \A x, y \in 0 .. n - 1 : x < y => d[y] < d[x]
    <3> SUFFICES ASSUME NEW x \in 0 .. n - 1, NEW y \in 0 .. n - 1, x < y
                 PROVE  d[y] < d[x]
      OBVIOUS
    <3>1. x + Num < y + Num
      BY <1>3, <1>6
    <3> QED
      BY <1>9, <2>1, <3>1
  <2> QED
    BY <1>a, <1>2, <1>5, <2>2, <2>3, <2>4 DEF Cells
<1>11. Misfits'
  <2>1. /\ first <= last
        /\ Marks(v, GoesRight, begin, first, CL, Num, numL)
        /\ Marks(v, GoesLeft, last, end, CR, Num, numR)
    BY <1>2, <1>4 DEF Misfits
  <2>2. Marks(v, GoesRight, begin, first, c, 0, m)
    BY <1>3, <1>6, <1>8, <2>1, MarksShifted
  <2>3. Marks(v, GoesLeft, last, end, d, 0, n)
    BY <1>3, <1>6, <1>9, <2>1, MarksShifted
  <2>4. /\ Marks(Restored, GoesRight, begin, first, CL, Exch, numL)'
        /\ Marks(Restored, GoesLeft, last, end, CR, Exch, numR)'
    BY <1>a, <1>2, <1>4, <1>5, <2>2, <2>3 DEF Marks
  <2> QED
    BY <1>a, <1>1, <1>5, <1>6, <2>1, <2>4 DEF Misfits
<1>12. PrefixKept'
  BY <1>2, <1>4, <1>5 DEF PrefixKept
<1>13. Fills'
  <2>1. /\ m = 0 => numL = Num
        /\ n = 0 => numR = Num
    BY <1>3, <1>6
  <2>2. /\ numL' = 0 => startL' = 0 /\ baseL' = first'
        /\ numR' = 0 => startR' = 0 /\ baseR' = last'
    BY <1>1, <1>5, <1>a, <2>1
  <2> QED
    BY <1>1, <2>2 DEF Fills
<1>14. Scanned' /\ Returned'
  BY <1>1 DEF Scanned, Returned, Opening
<1> QED
  BY <1>4, <1>7, <1>10, <1>11, <1>12, <1>13, <1>14 DEF IInv
-----------------------------------------------------------------------------
(***************************************************************************)
(* The drains.                                                             *)
(***************************************************************************)
LEMMA DrainLeftStep == ASSUME IInv, DrainLeft PROVE IInv' /\ Moved
<1>1. /\ pc = "drainL" /\ pc' = pc /\ numL > 0
      /\ v' = Swap(v, CellL(numL - 1), last - 1) /\ last' = last - 1 /\ numL' = numL - 1
      /\ first' = IF numL = 1 THEN last - 1 ELSE first
      /\ UNCHANGED <<args, offL, startL, baseL, right, round>>
  BY DEF DrainLeft
<1>2. TypeOK /\ OneGap /\ Cells /\ Misfits /\ Draining /\ Draining' /\ ~InLoop /\ ~InLoop'
  BY <1>1 DEF IInv, Draining, InLoop, Filling, Exchanging
<1>3. /\ begin \in Int /\ end \in Int /\ 0 <= begin /\ end <= N /\ N \in Nat /\ B \in Nat
      /\ first \in begin .. end /\ last \in Int /\ last <= end
      /\ numL \in Nat /\ numL <= B /\ startL \in 0 .. B - numL
  <2>1. startL \in 0 .. B - numL
    BY <1>2 DEF TypeOK
  <2> QED
    BY <1>2, <2>1, Numbers, Widths
<1>4. /\ Marks(v, GoesRight, begin, last, CL, 0, numL)
      /\ Marks(v, GoesLeft, last, end, CR, 0, numR)
      /\ numR = 0
  BY <1>1, <1>2, <1>3 DEF Misfits
<1>5. /\ \A x \in 0 .. numL - 1 : CL[x] \in begin .. last - 1
      /\ \A x, y \in 0 .. numL - 1 : x < y => CL[x] < CL[y]
  <2>1. /\ \A x \in 0 .. numL - 1 : CL[x] \in begin .. end - 1 /\ CL[x] < last
        /\ \A x, y \in 0 .. numL - 1 : x < y => CL[x] < CL[y]
    BY <1>1, <1>2 DEF Cells
  <2> QED
    BY <1>3, <2>1
<1>6. v \in [Pos -> Pos] /\ IsArrangement(v) /\ Restored = v
  BY <1>1, <1>2, Whole
<1>7. numL - 1 \in 0 .. numL - 1 /\ CL[numL - 1] \in begin .. last - 1
      /\ CL[numL - 1] = CellL(numL - 1)
  BY <1>1, <1>2, <1>3, <1>5, CellValues
<1>8. begin < last /\ last - 1 \in Pos /\ CL[numL - 1] \in Pos
  BY <1>3, <1>7 DEF Pos
<1>a. PICK u, d, m, g : u = v' /\ d = CL' /\ m = numL' /\ g = last'
  OBVIOUS
<1>9. m = numL - 1 /\ g = last - 1 /\ u = Swap(v, CL[numL - 1], last - 1) /\ m \in Nat /\ g \in Int
  BY <1>1, <1>3, <1>7, <1>a
<1>10. \A x \in 0 .. numL - 2 : d[x] = CL[x]
  <2> SUFFICES ASSUME NEW x \in 0 .. numL - 2 PROVE d[x] = CL[x]
    OBVIOUS
  <2>1. x \in 0 .. m - 1 /\ x \in 0 .. numL - 1
    BY <1>3, <1>9
  <2>2. d[x] = baseL' + offL'[startL' + x]
    BY <1>a, <2>1 DEF CL, CellL
  <2>3. CL[x] = baseL + offL[startL + x]
    BY <1>2, <2>1, CellValues
  <2> QED
    BY <1>1, <2>2, <2>3
<1>11. /\ Marks(u, GoesRight, begin, last - 1, d, 0, numL - 1)
       /\ u[last - 1] \in GoesRight
       /\ \A x \in 0 .. numL - 2 : d[x] \in begin .. last - 2
       /\ \A p \in Pos \ (begin .. last - 1) : u[p] = v[p]
  <2>1. DrainedUp(u, v, GoesRight, begin, last, d, numL)
    BY <1>1, <1>3, <1>4, <1>5, <1>6, <1>9, <1>10, MarksDrainedUp
  <2> QED
    BY <2>1 DEF DrainedUp
<1>12. IsArrangement(u)
  BY <1>6, <1>8, <1>9, SwapArrangement
<1>13. OneGap' /\ Restored' = u
  BY <1>1, <1>12, <1>a, WholeNext
<1>14. Moved
  <2>1. \A p \in Pos : p \notin begin .. end - 1 => p \in Pos \ (begin .. last - 1)
    BY <1>3 DEF Pos
  <2> QED
    BY <1>6, <1>11, <1>12, <1>13, <2>1 DEF Moved, SameOutside
<1>15. /\ CR' = CR /\ numR' = 0 /\ GoesLeft' = GoesLeft /\ GoesRight' = GoesRight
       /\ begin' = begin /\ end' = end
  BY <1>1, <1>4, SameRight, SameArgs DEF right
<1>16. TypeOK'
  <2>1. g \in begin .. end /\ m \in 0 .. B /\ startL \in 0 .. B - m
    BY <1>3, <1>8, <1>9
  <2>2. u \in [Pos -> Pos \cup {Hole}]
    BY <1>12 DEF IsArrangement
  <2>3. first' \in begin .. end
    BY <1>1, <1>3, <1>9, <2>1
  <2> QED
    BY <1>1, <1>2, <1>a, <2>1, <2>2, <2>3 DEF TypeOK, args, right, round
<1>17. Cells'
  <2>1. \A x \in 0 .. m - 1 : d[x] = CL[x] /\ x \in 0 .. numL - 1 /\ d[x] \in begin .. end - 1
                              /\ d[x] < g
    <3> SUFFICES ASSUME NEW x \in 0 .. m - 1
                 PROVE  d[x] = CL[x] /\ x \in 0 .. numL - 1 /\ d[x] \in begin .. end - 1
                        /\ d[x] < g
      OBVIOUS
    <3>1. x \in 0 .. numL - 2 /\ x \in 0 .. numL - 1
      BY <1>3, <1>9
    <3>2. d[x] = CL[x] /\ d[x] \in begin .. last - 2
      BY <1>10, <1>11, <3>1
    <3> QED
      BY <1>3, <1>9, <3>1, <3>2
  <2>2. \A x, y \in 0 .. m - 1 : x < y => d[x] < d[y]
    BY <1>5, <2>1
  <2>3. 0 .. numR' - 1 = {}
    BY <1>15
  <2> QED
    BY <1>a, <1>2, <1>15, <2>1, <2>2, <2>3 DEF Cells
<1>18. Misfits'
  <2>1. Marks(u, GoesLeft, g, end, CR, 0, 0)
    <3>1. ASSUME NEW p \in g .. end - 1 PROVE u[p] \notin GoesLeft
      <4>1. CASE p = last - 1
        BY <1>11, <4>1 DEF GoesRight
      <4>2. CASE p # last - 1
        <5>1. p \in last .. end - 1 /\ p \in Pos \ (begin .. last - 1)
          BY <1>3, <1>8, <1>9, <4>2 DEF Pos
        <5>2. v[p] \notin GoesLeft
          BY <1>4, <5>1 DEF Marks
        <5> QED
          BY <1>11, <5>1, <5>2
      <4> QED
        BY <4>1, <4>2
    <3> QED
      BY <3>1 DEF Marks
  <2>2. Marks(v, GoesRight, begin, last, CL, 0, numL)'
    BY <1>a, <1>9, <1>11, <1>15 DEF Marks
  <2>3. Marks(v, GoesLeft, last, end, CR, 0, numR)'
    BY <1>a, <1>15, <2>1 DEF Marks
  <2>4. m = 0 => numL = 1
    BY <1>3, <1>9
  <2>5. numL' = 0 => first' = last'
    BY <1>1, <1>a, <2>4
  <2> QED
    BY <1>1, <1>2, <1>15, <2>2, <2>3, <2>5 DEF Misfits
<1>19. Scanned' /\ Returned' /\ Fills' /\ PrefixKept'
  BY <1>1, <1>2 DEF Scanned, Returned, Fills, PrefixKept, Opening
<1> QED
  BY <1>13, <1>14, <1>16, <1>17, <1>18, <1>19 DEF IInv

\* A drain of the right buffer moves the boundary up past the element.
LEMMA DrainRightStep == ASSUME IInv, DrainRight PROVE IInv' /\ Moved
<1>1. /\ pc = "drainR" /\ pc' = pc /\ numR > 0
      /\ v' = Swap(v, CellR(numR - 1), first) /\ first' = first + 1 /\ numR' = numR - 1
      /\ last' = IF numR = 1 THEN first + 1 ELSE last
      /\ UNCHANGED <<args, left, offR, startR, baseR, round>>
  BY DEF DrainRight
<1>2. TypeOK /\ OneGap /\ Cells /\ Misfits /\ Draining /\ Draining' /\ ~InLoop /\ ~InLoop'
  BY <1>1 DEF IInv, Draining, InLoop, Filling, Exchanging
<1>3. /\ begin \in Int /\ end \in Int /\ 0 <= begin /\ end <= N /\ N \in Nat /\ B \in Nat
      /\ last \in begin .. end /\ first \in Int /\ begin <= first
      /\ numR \in Nat /\ numR <= B /\ startR \in 0 .. B - numR
  <2>1. startR \in 0 .. B - numR
    BY <1>2 DEF TypeOK
  <2> QED
    BY <1>2, <2>1, Numbers, Widths
<1>4. /\ AllIn(v, GoesLeft, begin, first)
      /\ Marks(v, GoesLeft, first, end, CR, 0, numR)
      /\ numL = 0
  BY <1>1, <1>2 DEF Misfits
<1>5. /\ \A x \in 0 .. numR - 1 : CR[x] \in first .. end - 1
      /\ \A x, y \in 0 .. numR - 1 : x < y => CR[y] < CR[x]
  <2>1. /\ \A x \in 0 .. numR - 1 : CR[x] \in begin .. end - 1 /\ CR[x] >= first
        /\ \A x, y \in 0 .. numR - 1 : x < y => CR[y] < CR[x]
    BY <1>1, <1>2 DEF Cells
  <2> QED
    BY <1>3, <2>1
<1>6. v \in [Pos -> Pos] /\ IsArrangement(v) /\ Restored = v
  BY <1>1, <1>2, Whole
<1>7. numR - 1 \in 0 .. numR - 1 /\ CR[numR - 1] \in first .. end - 1
      /\ CR[numR - 1] = CellR(numR - 1)
  BY <1>1, <1>2, <1>3, <1>5, CellValues
<1>8. first < end /\ first \in Pos /\ CR[numR - 1] \in Pos
  BY <1>3, <1>7 DEF Pos
<1>a. PICK u, d, m, g : u = v' /\ d = CR' /\ m = numR' /\ g = first'
  OBVIOUS
<1>9. m = numR - 1 /\ g = first + 1 /\ u = Swap(v, CR[numR - 1], first) /\ m \in Nat /\ g \in Int
  BY <1>1, <1>3, <1>7, <1>a
<1>10. \A x \in 0 .. numR - 2 : d[x] = CR[x]
  <2> SUFFICES ASSUME NEW x \in 0 .. numR - 2 PROVE d[x] = CR[x]
    OBVIOUS
  <2>1. x \in 0 .. m - 1 /\ x \in 0 .. numR - 1
    BY <1>3, <1>9
  <2>2. d[x] = baseR' - offR'[startR' + x]
    BY <1>a, <2>1 DEF CR, CellR
  <2>3. CR[x] = baseR - offR[startR + x]
    BY <1>2, <2>1, CellValues
  <2> QED
    BY <1>1, <2>2, <2>3
<1>11. /\ Marks(u, GoesLeft, first + 1, end, d, 0, numR - 1)
       /\ u[first] \in GoesLeft
       /\ \A x \in 0 .. numR - 2 : d[x] \in first + 1 .. end - 1
       /\ \A p \in Pos \ (first .. end - 1) : u[p] = v[p]
  <2>1. 0 <= first
    BY <1>3
  <2>2. DrainedDown(u, v, GoesLeft, first, end, d, numR)
    BY <1>1, <1>3, <1>4, <1>5, <1>6, <1>9, <1>10, <2>1, MarksDrainedDown
  <2> QED
    BY <2>2 DEF DrainedDown
<1>12. IsArrangement(u)
  BY <1>6, <1>8, <1>9, SwapArrangement
<1>13. OneGap' /\ Restored' = u
  BY <1>1, <1>12, <1>a, WholeNext
<1>14. Moved
  <2>1. \A p \in Pos : p \notin begin .. end - 1 => p \in Pos \ (first .. end - 1)
    BY <1>3 DEF Pos
  <2> QED
    BY <1>6, <1>11, <1>12, <1>13, <2>1 DEF Moved, SameOutside
<1>15. /\ CL' = CL /\ numL' = 0 /\ GoesLeft' = GoesLeft
       /\ begin' = begin /\ end' = end
  BY <1>1, <1>4, SameLeft, SameArgs DEF left
<1>16. TypeOK'
  <2>1. g \in begin .. end /\ m \in 0 .. B /\ startR \in 0 .. B - m
    BY <1>3, <1>8, <1>9
  <2>2. u \in [Pos -> Pos \cup {Hole}]
    BY <1>12 DEF IsArrangement
  <2>3. last' \in begin .. end
    BY <1>1, <1>3, <1>9, <2>1
  <2> QED
    BY <1>1, <1>2, <1>a, <2>1, <2>2, <2>3 DEF TypeOK, args, left, round
<1>17. Cells'
  <2>1. \A x \in 0 .. m - 1 : d[x] = CR[x] /\ x \in 0 .. numR - 1 /\ d[x] \in begin .. end - 1
                              /\ d[x] >= g
    <3> SUFFICES ASSUME NEW x \in 0 .. m - 1
                 PROVE  d[x] = CR[x] /\ x \in 0 .. numR - 1 /\ d[x] \in begin .. end - 1
                        /\ d[x] >= g
      OBVIOUS
    <3>1. x \in 0 .. numR - 2 /\ x \in 0 .. numR - 1
      BY <1>3, <1>9
    <3>2. d[x] = CR[x] /\ d[x] \in first + 1 .. end - 1
      BY <1>10, <1>11, <3>1
    <3> QED
      BY <1>3, <1>9, <3>1, <3>2
  <2>2. \A x, y \in 0 .. m - 1 : x < y => d[y] < d[x]
    BY <1>5, <2>1
  <2>3. 0 .. numL' - 1 = {}
    BY <1>15
  <2> QED
    BY <1>a, <1>1, <1>2, <1>15, <2>1, <2>2, <2>3 DEF Cells
<1>18. Misfits'
  <2>1. AllIn(u, GoesLeft, begin, g)
    <3>1. ASSUME NEW p \in begin .. g - 1 PROVE u[p] \in GoesLeft
      <4>1. CASE p = first
        BY <1>11, <4>1
      <4>2. CASE p # first
        <5>1. p \in begin .. first - 1 /\ p \in Pos \ (first .. end - 1)
          BY <1>3, <1>8, <1>9, <4>2 DEF Pos
        <5>2. v[p] \in GoesLeft
          BY <1>4, <5>1 DEF AllIn
        <5> QED
          BY <1>11, <5>1, <5>2
      <4> QED
        BY <4>1, <4>2
    <3> QED
      BY <3>1 DEF AllIn
  <2>2. AllIn(v, GoesLeft, begin, first)'
    BY <1>a, <1>15, <2>1 DEF AllIn
  <2>3. Marks(v, GoesLeft, first, end, CR, 0, numR)'
    BY <1>a, <1>9, <1>11, <1>15 DEF Marks
  <2>4. m = 0 => numR = 1
    BY <1>3, <1>9
  <2>5. numR' = 0 => first' = last'
    BY <1>1, <1>a, <2>4
  <2> QED
    BY <1>1, <1>2, <1>15, <2>2, <2>3, <2>5 DEF Misfits
<1>19. Scanned' /\ Returned' /\ Fills' /\ PrefixKept'
  BY <1>1, <1>2 DEF Scanned, Returned, Fills, PrefixKept, Opening
<1> QED
  BY <1>13, <1>14, <1>16, <1>17, <1>18, <1>19 DEF IInv
-----------------------------------------------------------------------------
(***************************************************************************)
(* Every step, and the theorems.                                           *)
(***************************************************************************)
LEMMA StutterStep == ASSUME IInv, UNCHANGED vars PROVE IInv' /\ Moved
<1>1. /\ UNCHANGED <<v, first, last, pc, splitL, splitR, i, k, tmp>>
      /\ UNCHANGED args /\ UNCHANGED left /\ UNCHANGED right
  BY DEF vars, round
<1>2. /\ CL' = CL /\ CR' = CR /\ GoesLeft' = GoesLeft /\ GoesRight' = GoesRight
      /\ begin' = begin /\ end' = end /\ pfxEnd' = pfxEnd /\ form' = form
  BY <1>1, SameLeft, SameRight, SameArgs
<1>3. /\ numL' = numL /\ startL' = startL /\ baseL' = baseL
      /\ numR' = numR /\ startR' = startR /\ baseR' = baseR
      /\ offL' = offL /\ offR' = offR
  BY <1>1 DEF left, right
<1>4. Restored' = Restored /\ Rotating' = Rotating /\ (CellR(k - 1))' = CellR(k - 1)
  BY <1>1, <1>3 DEF Restored, Rotating, CellR
<1>5. /\ Opening' = Opening /\ InLoop' = InLoop /\ Draining' = Draining /\ Exch' = Exch
      /\ Num' = Num
  BY <1>1, <1>3 DEF Opening, InLoop, Draining, Filling, Exchanging, Exch, Num, Lesser
<1>6. TypeOK'
  BY <1>1 DEF IInv, TypeOK, args, left, right
<1>7. OneGap' /\ Moved
  BY <1>1, <1>4 DEF IInv, OneGap, Moved, SameOutside
<1>8. Scanned' /\ PrefixKept' /\ Returned'
  BY <1>1, <1>2, <1>3, <1>4, <1>5 DEF IInv, Scanned, PrefixKept, Returned
<1>9. Fills'
  BY <1>1, <1>2, <1>3, <1>5 DEF IInv, Fills, ByVector
<1>10. Cells'
  BY <1>1, <1>2, <1>3, <1>5 DEF IInv, Cells
<1>11. Misfits'
  BY <1>1, <1>2, <1>3, <1>4, <1>5 DEF IInv, Misfits, Marks
<1> QED
  BY <1>6, <1>7, <1>8, <1>9, <1>10, <1>11 DEF IInv

\* Every step keeps the invariant and rearranges only the call's range.
LEMMA NextIInv == IInv /\ [Next]_vars => IInv' /\ Moved
<1> SUFFICES ASSUME IInv, [Next]_vars PROVE IInv' /\ Moved
  OBVIOUS
<1>1. CASE SkipLeft \/ LeftStops \/ SkipRight \/ RightStops
  BY <1>1, SkipLeftStep, LeftStopsStep, SkipRightStep, RightStopsStep
<1>2. CASE AlreadyPartitioned \/ FirstPair
  BY <1>2, AlreadyPartitionedStep, FirstPairStep
<1>3. CASE NewRound \/ LeftFilled \/ RightFilled
  BY <1>3, NewRoundStep, LeftFilledStep, RightFilledStep
<1>4. CASE FillLeft \/ VectorFillLeft \/ FillRight \/ VectorFillRight
  BY <1>4, FillLeftStep, VectorFillLeftStep, FillRightStep, VectorFillRightStep
<1>5. CASE SwapPair \/ RotateOpen \/ RotateStep \/ RotateClose \/ Exchanged
  BY <1>5, SwapPairStep, RotateOpenStep, RotateStepStep, RotateCloseStep, ExchangedStep
<1>6. CASE Consume \/ RoundsEnd
  BY <1>6, ConsumeStep, RoundsEndStep
<1>7. CASE DrainLeft \/ LeftDrained \/ DrainRight \/ RightDrained
  BY <1>7, DrainLeftStep, LeftDrainedStep, DrainRightStep, RightDrainedStep
<1>8. CASE Terminating \/ UNCHANGED vars
  BY <1>8, StutterStep DEF Terminating
<1> QED
  BY <1>1, <1>2, <1>3, <1>4, <1>5, <1>6, <1>7, <1>8 DEF Next

\* The block partition, in each of its forms and for every array, range,
\* predicate, block size and vector width, keeps the inductive invariant.
THEOREM Invariance == Spec => []IInv
<1>1. Init => IInv
  BY InitIInv
<1>2. IInv /\ [Next]_vars => IInv'
  BY NextIInv
<1> QED
  BY <1>1, <1>2, PTL DEF Spec

\* What is still to be exchanged, as cells of the buffers.
LEMMA PendingCells ==
    ASSUME TypeOK, Exch \in Nat
    PROVE  /\ \A p : p \in PendingL <=> \E x \in Exch .. numL - 1 : CL[x] = p
           /\ \A p : p \in PendingR <=> \E x \in Exch .. numR - 1 : CR[x] = p
<1>1. numL \in Nat /\ numR \in Nat
  BY Numbers, Widths
<1>2. \A x \in Exch .. numL - 1 : CL[x] = CellL(x)
  <2>1. \A x \in Exch .. numL - 1 : x \in 0 .. numL - 1
    BY <1>1
  <2> QED
    BY <2>1, CellValues
<1>3. \A x \in Exch .. numR - 1 : CR[x] = CellR(x)
  <2>1. \A x \in Exch .. numR - 1 : x \in 0 .. numR - 1
    BY <1>1
  <2> QED
    BY <2>1, CellValues
<1> HIDE DEF CL, CR
<1> QED
  BY <1>2, <1>3 DEF PendingL, PendingR

\* Outside the middle, what is misplaced is what the buffers point to.
LEMMA BuffersFromMarks == IInv => Buffers
<1> SUFFICES ASSUME IInv PROVE Buffers
  OBVIOUS
<1>1. TypeOK /\ OneGap /\ Misfits
  BY DEF IInv
<1>2. /\ begin \in Int /\ end \in Int /\ 0 <= begin /\ end <= N /\ N \in Nat
      /\ first \in Int /\ last \in Int /\ begin <= first /\ first <= end
      /\ begin <= last /\ last <= end /\ numL \in Nat /\ numR \in Nat /\ k \in Nat
  BY <1>1, Numbers, Widths
<1>3. Exch \in Nat
  BY <1>2 DEF Exch
<1>4. Restored \in [Pos -> Pos]
  BY <1>1 DEF OneGap, IsArrangement
<1>5. \A p \in begin .. end - 1 : Restored[p] \in Pos /\ (Restored[p] \in GoesRight <=> Restored[p] \notin GoesLeft)
  <2>1. \A p \in begin .. end - 1 : p \in Pos
    BY <1>2 DEF Pos
  <2> QED
    BY <1>4, <2>1 DEF GoesRight
<1>6. Filling \/ Exchanging =>
        /\ first <= last
        /\ \A p \in begin .. first - 1 : Restored[p] \in GoesLeft <=> p \notin PendingL
        /\ \A p \in last .. end - 1 : Restored[p] \in GoesLeft <=> p \in PendingR
  <2> SUFFICES ASSUME InLoop
               PROVE  /\ first <= last
                      /\ \A p \in begin .. first - 1 : Restored[p] \in GoesLeft <=> p \notin PendingL
                      /\ \A p \in last .. end - 1 : Restored[p] \in GoesLeft <=> p \in PendingR
    BY DEF InLoop
  <2>1. /\ first <= last
        /\ Marks(Restored, GoesRight, begin, first, CL, Exch, numL)
        /\ Marks(Restored, GoesLeft, last, end, CR, Exch, numR)
    BY <1>1 DEF Misfits
  <2>2. \A p \in begin .. first - 1 : Restored[p] \in GoesRight <=> p \in PendingL
    BY <1>1, <1>3, <2>1, PendingCells DEF Marks
  <2>3. \A p \in last .. end - 1 : Restored[p] \in GoesLeft <=> p \in PendingR
    BY <1>1, <1>3, <2>1, PendingCells DEF Marks
  <2>4. \A p \in begin .. first - 1 : p \in begin .. end - 1
    BY <1>2
  <2> QED
    BY <1>5, <2>1, <2>2, <2>3, <2>4
<1>7. pc \in {"round", "drainL", "drainR"} => numL = 0 \/ numR = 0
  BY <1>1 DEF Misfits
<1>8. pc = "drainL" =>
        /\ \A p \in begin .. last - 1 : v[p] \in GoesLeft <=> p \notin PendingL
        /\ \A p \in last .. end - 1 : v[p] \in GoesLeft <=> p \in PendingR
  <2> SUFFICES ASSUME pc = "drainL"
               PROVE  /\ \A p \in begin .. last - 1 : v[p] \in GoesLeft <=> p \notin PendingL
                      /\ \A p \in last .. end - 1 : v[p] \in GoesLeft <=> p \in PendingR
    OBVIOUS
  <2>1. /\ Marks(v, GoesRight, begin, last, CL, 0, numL)
        /\ Marks(v, GoesLeft, last, end, CR, 0, numR)
        /\ Exch = 0 /\ Restored = v
    BY <1>1, Whole DEF Misfits, Exch, Exchanging
  <2>2. \A p \in begin .. last - 1 : v[p] \in GoesRight <=> p \in PendingL
    BY <1>1, <1>3, <2>1, PendingCells DEF Marks
  <2>3. \A p \in last .. end - 1 : v[p] \in GoesLeft <=> p \in PendingR
    BY <1>1, <1>3, <2>1, PendingCells DEF Marks
  <2>4. \A p \in begin .. last - 1 : p \in begin .. end - 1
    BY <1>2
  <2> QED
    BY <1>5, <2>1, <2>2, <2>3, <2>4
<1>9. pc = "drainR" =>
        /\ first = last \/ numR > 0
        /\ \A p \in begin .. first - 1 : v[p] \in GoesLeft
        /\ \A p \in first .. end - 1 : v[p] \in GoesLeft <=> p \in PendingR
  <2> SUFFICES ASSUME pc = "drainR"
               PROVE  /\ first = last \/ numR > 0
                      /\ \A p \in begin .. first - 1 : v[p] \in GoesLeft
                      /\ \A p \in first .. end - 1 : v[p] \in GoesLeft <=> p \in PendingR
    OBVIOUS
  <2>1. /\ AllIn(v, GoesLeft, begin, first)
        /\ Marks(v, GoesLeft, first, end, CR, 0, numR)
        /\ numR = 0 => first = last
        /\ Exch = 0
    BY <1>1 DEF Misfits, Exch, Exchanging
  <2>2. \A p \in first .. end - 1 : v[p] \in GoesLeft <=> p \in PendingR
    BY <1>1, <1>3, <2>1, PendingCells DEF Marks
  <2>3. first = last \/ numR > 0
    BY <1>2, <2>1
  <2> QED
    BY <2>1, <2>2, <2>3 DEF AllIn
<1> QED
  BY <1>6, <1>7, <1>8, <1>9 DEF Buffers

\* The offsets point into the range the block was read from, in order.
LEMMA AscendingFromCells == IInv => Ascending
<1> SUFFICES ASSUME IInv, pc \notin {"scanL", "scanR", "pair", "done"}
             PROVE  /\ \A s \in 1 .. numL - 1 : CellL(s - 1) < CellL(s)
                    /\ \A s \in 1 .. numR - 1 : CellR(s) < CellR(s - 1)
                    /\ Filling \/ Exchanging =>
                          /\ \A s \in 0 .. numL - 1 : CellL(s) < first
                          /\ \A s \in 0 .. numR - 1 : CellR(s) >= last
  BY DEF Ascending
<1>1. TypeOK /\ Cells /\ (InLoop \/ Draining)
  BY DEF IInv, TypeOK, InLoop, Draining, Filling, Exchanging
<1>2. /\ \A s \in 0 .. numL - 1 : CL[s] = CellL(s)
      /\ \A s \in 0 .. numR - 1 : CR[s] = CellR(s)
  BY <1>1, CellValues
<1>3. /\ \A x, y \in 0 .. numL - 1 : x < y => CL[x] < CL[y]
      /\ \A x, y \in 0 .. numR - 1 : x < y => CR[y] < CR[x]
      /\ InLoop => /\ \A x \in 0 .. numL - 1 : CL[x] < first
                   /\ \A x \in 0 .. numR - 1 : CR[x] >= last
  BY <1>1 DEF Cells, InLoop, Filling, Exchanging
<1>4. numL \in Nat /\ numR \in Nat
  BY <1>1, Numbers, Widths
<1>5. \A s \in 1 .. numL - 1 : CellL(s - 1) < CellL(s)
  <2> SUFFICES ASSUME NEW s \in 1 .. numL - 1 PROVE CellL(s - 1) < CellL(s)
    OBVIOUS
  <2>1. s - 1 \in 0 .. numL - 1 /\ s \in 0 .. numL - 1 /\ s - 1 < s
    BY <1>4
  <2>2. CL[s - 1] < CL[s]
    BY <1>3, <2>1
  <2> QED
    BY <1>2, <2>1, <2>2
<1>6. \A s \in 1 .. numR - 1 : CellR(s) < CellR(s - 1)
  <2> SUFFICES ASSUME NEW s \in 1 .. numR - 1 PROVE CellR(s) < CellR(s - 1)
    OBVIOUS
  <2>1. s - 1 \in 0 .. numR - 1 /\ s \in 0 .. numR - 1 /\ s - 1 < s
    BY <1>4
  <2>2. CR[s] < CR[s - 1]
    BY <1>3, <2>1
  <2> QED
    BY <1>2, <2>1, <2>2
<1> QED
  BY <1>2, <1>3, <1>5, <1>6 DEF InLoop

\* The unguarded scan has an element ahead that stops it.
LEMMA ScansFromScanned == IInv => ScansInside
<1> SUFFICES ASSUME IInv PROVE ScansInside
  OBVIOUS
<1>1. TypeOK /\ Scanned
  BY DEF IInv
<1>2. begin \in Int /\ end \in Int /\ first \in Int /\ last \in Int
  BY <1>1, Numbers
<1>3. pc \in {"scanL", "scanR"} => first <= last /\ AllIn(v, GoesLeft, begin, first)
  BY <1>1 DEF Scanned, Opening
<1>4. pc = "scanL" /\ form \in Unguarded => first < last
  <2> SUFFICES ASSUME pc = "scanL", form \in Unguarded PROVE first < last
    OBVIOUS
  <2>1. last = end /\ \E p \in first .. end - 1 : v[p] \notin GoesLeft
    BY <1>1 DEF Scanned, Opening
  <2> QED
    BY <1>2, <2>1
<1> QED
  BY <1>2, <1>3, <1>4 DEF ScansInside

\* The invariant of the scans and of the block loop: the opening scans stay in
\* the range, the array misses at most the one element a rotation holds, and
\* outside the unknown middle the misplaced elements are exactly those the
\* buffers point to, in order.  For every block size and vector width.
THEOREM BlockInvariantHolds == Spec => []BlockInvariant
<1>1. IInv => BlockInvariant
  BY BuffersFromMarks, AscendingFromCells, ScansFromScanned DEF IInv, BlockInvariant
<1> QED
  BY <1>1, Invariance, PTL
-----------------------------------------------------------------------------
(***************************************************************************)
(* The refinement.                                                         *)
(***************************************************************************)
LEMMA RefineInit == Init => Contract!Init
<1> SUFFICES ASSUME Init PROVE Contract!Init
  OBVIOUS
<1>1. TypeOK /\ pc = "scanL" /\ v = [p \in Pos |-> p]
  BY InitIInv DEF IInv, Init
<1>2. Restored = v /\ GoesLeft \subseteq Pos /\ begin \in 0 .. N /\ end \in begin .. N
  BY <1>1, Whole, Numbers DEF TypeOK
<1> QED
  BY <1>1, <1>2 DEF Contract!Init, Contract!Pos, Pos

\* The arguments of a call never change, and a call that has returned is over.
LEMMA CallFrame ==
    ASSUME [Next]_vars
    PROVE  UNCHANGED args /\ (pc = "done" => UNCHANGED vars)
<1>1. CASE SkipLeft \/ LeftStops \/ SkipRight \/ RightStops \/ AlreadyPartitioned \/ FirstPair
  BY <1>1 DEF SkipLeft, LeftStops, SkipRight, RightStops, AlreadyPartitioned, FirstPair
<1>2. CASE NewRound \/ LeftFilled \/ RightFilled \/ RoundsEnd \/ LeftDrained \/ RightDrained
  BY <1>2 DEF NewRound, LeftFilled, RightFilled, RoundsEnd, LeftDrained, RightDrained
<1>3. CASE FillLeft \/ VectorFillLeft \/ FillRight \/ VectorFillRight
  BY <1>3 DEF FillLeft, VectorFillLeft, FillRight, VectorFillRight
<1>4. CASE SwapPair \/ RotateOpen \/ RotateStep \/ RotateClose \/ Exchanged \/ Consume
  BY <1>4 DEF SwapPair, RotateOpen, RotateStep, RotateClose, Exchanged, Consume
<1>5. CASE DrainLeft \/ DrainRight
  BY <1>5 DEF DrainLeft, DrainRight
<1>6. CASE Terminating \/ UNCHANGED vars
  BY <1>6 DEF Terminating, vars
<1> QED
  BY <1>1, <1>2, <1>3, <1>4, <1>5, <1>6 DEF Next

\* Every step is a step of the contract, or none.
LEMMA RefineStep == IInv /\ [Next]_vars => [Contract!Next]_Contract!vars
<1> SUFFICES ASSUME IInv, [Next]_vars PROVE [Contract!Next]_Contract!vars
  OBVIOUS
<1>1. IInv' /\ Moved
  BY NextIInv
<1>2. GoesLeft' = GoesLeft /\ begin' = begin /\ end' = end
  BY CallFrame, SameArgs
<1>3. CASE pc = "done"
  <2>1. UNCHANGED vars
    BY <1>3, CallFrame
  <2>2. /\ UNCHANGED <<v, first, last, pc, splitL, splitR, i, k, tmp>>
        /\ UNCHANGED args /\ UNCHANGED left /\ UNCHANGED right
    BY <2>1 DEF vars, round
  <2>3. Restored' = Restored
    BY <2>2 DEF Restored, Rotating, CellR, right
  <2> QED
    BY <1>2, <2>2, <2>3 DEF Contract!vars
<1>4. CASE pc # "done" /\ pc' # "done"
  <2>1. Contract!Rearranges
    BY <1>1 DEF Moved, IsArrangement, SameOutside, Pos, Contract!Rearranges,
       Contract!IsArrangement, Contract!SameOutside, Contract!Pos
  <2> QED
    BY <1>2, <1>4, <2>1 DEF Contract!Next, Contract!Work
<1>5. CASE pc # "done" /\ pc' = "done"
  <2>1. Contract!Rearranges
    BY <1>1 DEF Moved, IsArrangement, SameOutside, Pos, Contract!Rearranges,
       Contract!IsArrangement, Contract!SameOutside, Contract!Pos
  <2>2. Partitioned(v', GoesLeft, begin, first', end) /\ Restored' = v'
    BY <1>1, <1>2, <1>5, WholeNext DEF IInv, Returned
  <2>3. Contract!Partitioned(Restored', GoesLeft, begin, first', end)
    BY <2>2 DEF Partitioned, AllIn, NoneIn, Contract!Partitioned, Contract!AllIn,
       Contract!NoneIn
  <2> QED
    BY <1>2, <1>5, <2>1, <2>3 DEF Contract!Next, Contract!Return
<1> QED
  BY <1>3, <1>4, <1>5

\* Every form of the block partition implements the abstract partition of
\* concepts.hpp: only the call's range is rearranged, nothing is lost, and on
\* return the elements before the boundary go left and those after it do not.
THEOREM Implementation == Spec => Implements
<1>1. Init => Contract!Init
  BY RefineInit
<1>2. IInv /\ [Next]_vars => [Contract!Next]_Contract!vars
  BY RefineStep
<1> QED
  BY <1>1, <1>2, Invariance, PTL DEF Spec, Implements, Contract!Spec
-----------------------------------------------------------------------------
(***************************************************************************)
(* The form that keeps an index: it is the inverse of the array, whatever  *)
(* the array, the range, the predicate and the block size.                 *)
(*                                                                         *)
(* Between rotations the index is exact at every cell.  A rotation leaves  *)
(* it exact at the cells it does not touch, which is why the entries of    *)
(* all of its cells have to be written when it ends, and are.              *)
(***************************************************************************)
\* The entries of the array outside a set of cells.
ExactOutside(cells) == \A p \in Pos \ cells : perm[v[p]] = p

PermIInv ==
    indexed => ExactOutside(IF pc = "rotate" THEN PairCells ELSE {})

\* The index is written beside the partition and never read by it.
LEMMA PermStep == [PermNext]_permVars => [Next]_vars
BY DEF PermNext, NoEntry, FirstPairPerm, SwapPairPerm, RotatePerm, DrainLeftPerm,
       DrainRightPerm, Next, permVars

\* Rewriting the entries of the cells that changed makes the index exact.
LEMMA FixedCells ==
    ASSUME NEW cells, cells \subseteq Pos, indexed => ExactOutside(cells), FixAt(cells),
           IsArrangement(v'), \A p \in Pos \ cells : v'[p] = v[p],
           pc' # "rotate"
    PROVE  PermIInv'
<1> SUFFICES ASSUME indexed, NEW p \in Pos PROVE perm'[v'[p]] = p
  BY DEF PermIInv, ExactOutside, FixAt
<1>a. PICK u : u = v'
  OBVIOUS
<1>1. /\ u \in [Pos -> Pos] /\ \A x, y \in Pos : u[x] = u[y] => x = y
      /\ \A x \in Pos \ cells : u[x] = v[x]
  BY <1>a DEF IsArrangement
<1>2. perm'[u[p]] = IF \E q \in cells : u[q] = u[p]
                    THEN CHOOSE q \in cells : u[q] = u[p]
                    ELSE perm[u[p]]
  <2>1. u[p] \in Pos
    BY <1>1
  <2>2. perm' = [x \in Pos |->
                   IF indexed /\ \E q \in cells : v'[q] = x
                   THEN CHOOSE q \in cells : v'[q] = x
                   ELSE perm[x]]
    BY DEF FixAt
  <2> QED
    BY <1>a, <2>1, <2>2, Zenon
<1>3. CASE p \in cells
  <2> DEFINE q == CHOOSE q \in cells : u[q] = u[p]
  <2>1. q \in cells /\ u[q] = u[p]
    BY <1>3
  <2>2. q = p
    BY <1>1, <2>1
  <2> QED
    BY <1>a, <1>2, <1>3, <2>2
<1>4. CASE p \notin cells
  <2>1. ~ \E q \in cells : u[q] = u[p]
    BY <1>1, <1>4
  <2>2. u[p] = v[p] /\ perm[v[p]] = p
    BY <1>1, <1>4 DEF ExactOutside
  <2> QED
    BY <1>a, <1>2, <2>1, <2>2
<1> QED
  BY <1>3, <1>4

\* An exchange of two cells outside a rotation.
LEMMA SwapFixed ==
    ASSUME PermIInv, pc # "rotate", pc' # "rotate", NEW a \in Pos, NEW b \in Pos,
           IsArrangement(v), v' = Swap(v, a, b), FixAt({a, b})
    PROVE  PermIInv'
<1>1. IsArrangement(v') /\ v \in [Pos -> Pos]
  BY SwapArrangement DEF IsArrangement
<1>2. \A p \in Pos \ {a, b} : v'[p] = v[p]
  BY <1>1, SwapCells
<1>3. indexed => ExactOutside({a, b})
  BY DEF PermIInv, ExactOutside
<1> QED
  BY <1>1, <1>2, <1>3, FixedCells

\* The cells of the pairs are cells of the array.
LEMMA PairCellsInside == ASSUME IInv, pc = "rotate" PROVE PairCells \subseteq Pos
<1>1. TypeOK /\ Cells /\ InLoop
  BY DEF IInv, InLoop, Exchanging
<1>2. /\ begin \in Int /\ end \in Int /\ 0 <= begin /\ end <= N /\ N \in Nat
      /\ Num \in Int /\ Num <= numL /\ Num <= numR /\ numL \in Int /\ numR \in Int
  BY <1>1, Numbers, Widths
<1>3. \A s \in 0 .. Num - 1 : s \in 0 .. numL - 1 /\ s \in 0 .. numR - 1
  BY <1>2
<1>4. \A s \in 0 .. Num - 1 : CellL(s) \in begin .. end - 1 /\ CellR(s) \in begin .. end - 1
  BY <1>1, <1>3, CellValues DEF Cells
<1>5. begin .. end - 1 \subseteq Pos
  BY <1>2 DEF Pos
<1> QED
  BY <1>4, <1>5 DEF PairCells

\* The moves inside a rotation stay within its cells.
LEMMA RotationMoves ==
    ASSUME IInv, PermIInv, RotateOpen \/ RotateStep, UNCHANGED index
    PROVE  PermIInv'
<1>1. pc = "rotate" /\ pc' = "rotate" /\ k \in Nat /\ k < Num /\ Num \in Nat
      /\ UNCHANGED left /\ UNCHANGED right
      /\ v \in [Pos -> Pos \cup {Hole}]
  <2>1. TypeOK
    BY DEF IInv
  <2>2. k \in Nat /\ v \in [Pos -> Pos \cup {Hole}]
    BY <2>1 DEF TypeOK
  <2>3. numL \in Nat /\ numR \in Nat /\ Num \in Nat
    BY <2>1, Numbers, Widths
  <2>4. pc = "rotate" /\ pc' = "rotate" /\ k < Num
    <3>1. CASE RotateOpen
      BY <2>3, <3>1 DEF RotateOpen
    <3>2. CASE RotateStep
      BY <3>2 DEF RotateStep
    <3> QED
      BY <3>1, <3>2
  <2>5. UNCHANGED left /\ UNCHANGED right
    <3>1. CASE RotateOpen
      BY <3>1 DEF RotateOpen
    <3>2. CASE RotateStep
      BY <3>2 DEF RotateStep
    <3> QED
      BY <3>1, <3>2
  <2> QED
    BY <2>2, <2>3, <2>4, <2>5
<1>2. PairCells' = PairCells
  BY <1>1 DEF PairCells, Num, Lesser, CellL, CellR, left, right
<1>3. \A p \in Pos \ PairCells : v'[p] = v[p]
  <2>1. CASE RotateOpen
    <3>1. CellL(0) \in PairCells /\ CellR(0) \in PairCells
      BY <1>1, <2>1 DEF PairCells, RotateOpen
    <3>2. v' = [v EXCEPT ![CellL(0)] = v[CellR(0)], ![CellR(0)] = Hole]
      BY <2>1 DEF RotateOpen
    <3> QED
      BY <1>1, <3>1, <3>2
  <2>2. CASE RotateStep
    <3>1. k \in 0 .. Num - 1 /\ k - 1 \in 0 .. Num - 1
      BY <1>1, <2>2 DEF RotateStep
    <3>2. CellL(k) \in PairCells /\ CellR(k) \in PairCells /\ CellR(k - 1) \in PairCells
      BY <3>1 DEF PairCells
    <3>3. v' = [v EXCEPT ![CellR(k - 1)] = v[CellL(k)], ![CellL(k)] = v[CellR(k)],
                         ![CellR(k)] = Hole]
      BY <2>2 DEF RotateStep
    <3> QED
      BY <1>1, <3>2, <3>3
  <2> QED
    BY <2>1, <2>2
<1> QED
  BY <1>1, <1>2, <1>3 DEF PermIInv, ExactOutside, index

\* The end of a rotation writes the entries of all of its cells.
LEMMA RotationEnds == ASSUME IInv, PermIInv, RotatePerm PROVE PermIInv'
<1>1. /\ pc = "rotate" /\ pc' = "consume" /\ k = Num /\ k > 0 /\ k \in Nat
      /\ v' = [v EXCEPT ![CellR(k - 1)] = tmp] /\ FixAt(PairCells)
      /\ v \in [Pos -> Pos \cup {Hole}]
  BY Numbers, Widths DEF IInv, TypeOK, RotatePerm, RotateClose, FixRotation
<1>2. IsArrangement(v')
  BY RotateCloseStep DEF IInv, OneGap, RotatePerm
<1>3. CellR(k - 1) \in PairCells
  <2>1. k - 1 \in 0 .. Num - 1
    BY <1>1
  <2> QED
    BY <2>1 DEF PairCells
<1>4. \A p \in Pos \ PairCells : v'[p] = v[p]
  BY <1>1, <1>3
<1>5. indexed => ExactOutside(PairCells)
  BY <1>1 DEF PermIInv
<1> QED
  BY <1>1, <1>2, <1>4, <1>5, PairCellsInside, FixedCells

\* The steps that move nothing; a rotation of no pairs ends where it began.
LEMMA NothingMovedPerm ==
    ASSUME IInv, PermIInv, v' = v, UNCHANGED index,
           pc = "rotate" => Num = 0,
           pc' = "rotate" => pc # "rotate"
    PROVE  PermIInv'
<1>1. indexed => \A p \in Pos : perm[v[p]] = p
  <2>1. Num = 0 => PairCells = {}
    BY DEF PairCells
  <2> QED
    BY <2>1 DEF PermIInv, ExactOutside
<1> QED
  BY <1>1 DEF PermIInv, ExactOutside, index

\* Every step keeps the index exact where it has to be.
LEMMA NextPermIInv == IInv /\ PermIInv /\ [PermNext]_permVars => PermIInv'
<1> SUFFICES ASSUME IInv, PermIInv, [PermNext]_permVars PROVE PermIInv'
  OBVIOUS
<1>1. CASE NoEntry /\ UNCHANGED index
  <2>1. CASE RotateOpen \/ RotateStep
    BY <1>1, <2>1, RotationMoves
  <2>2. CASE SkipLeft \/ LeftStops \/ SkipRight \/ RightStops \/ AlreadyPartitioned
             \/ NewRound \/ FillLeft \/ VectorFillLeft \/ LeftFilled
             \/ FillRight \/ VectorFillRight
    <3>1. v' = v /\ pc # "rotate" /\ pc' # "rotate"
      BY <2>2 DEF SkipLeft, LeftStops, SkipRight, RightStops, AlreadyPartitioned,
         NewRound, FillLeft, VectorFillLeft, LeftFilled, FillRight, VectorFillRight
    <3> QED
      BY <1>1, <3>1, NothingMovedPerm
  <2>3. CASE RightFilled \/ Exchanged
    <3>1. v' = v /\ (pc = "rotate" => Num = 0) /\ (pc' = "rotate" => pc # "rotate")
      BY <2>3 DEF RightFilled, Exchanged
    <3> QED
      BY <1>1, <3>1, NothingMovedPerm
  <2>4. CASE Consume \/ RoundsEnd \/ LeftDrained \/ RightDrained \/ Terminating
    <3>1. v' = v /\ pc # "rotate" /\ pc' # "rotate"
      BY <2>4 DEF Consume, RoundsEnd, LeftDrained, RightDrained, Terminating, vars
    <3> QED
      BY <1>1, <3>1, NothingMovedPerm
  <2> QED
    BY <1>1, <2>1, <2>2, <2>3, <2>4 DEF NoEntry
<1>2. CASE FirstPairPerm
  <2>1. /\ pc = "pair" /\ pc' = "round" /\ first < last /\ v' = Swap(v, first, last)
        /\ FixAt({first, last})
    BY <1>2 DEF FirstPairPerm, FirstPair
  <2>2. TypeOK /\ OneGap /\ Scanned
    BY DEF IInv
  <2>3. first \in Pos /\ last \in Pos
    <3>1. last < end
      BY <2>1, <2>2, Numbers DEF Scanned, Opening
    <3> QED
      BY <2>1, <2>2, <3>1, Numbers, Widths DEF Pos
  <2> QED
    BY <2>1, <2>2, <2>3, Whole, SwapFixed
<1>3. CASE SwapPairPerm
  <2>1. /\ pc = "swap" /\ pc' = "swap" /\ k < Num /\ v' = Swap(v, CellL(k), CellR(k))
        /\ FixAt({CellL(k), CellR(k)})
    BY <1>3 DEF SwapPairPerm, SwapPair
  <2>2. CellL(k) \in Pos /\ CellR(k) \in Pos
    BY <2>1, NextPair
  <2>3. IsArrangement(v)
    BY <2>1, Whole DEF IInv
  <2> QED
    BY <2>1, <2>2, <2>3, SwapFixed
<1>4. CASE RotatePerm
  BY <1>4, RotationEnds
<1>5. CASE DrainLeftPerm
  <2>1. /\ pc = "drainL" /\ pc' = "drainL" /\ numL > 0
        /\ v' = Swap(v, CellL(numL - 1), last - 1)
        /\ FixAt({CellL(numL - 1), last - 1})
    BY <1>5 DEF DrainLeftPerm, DrainLeft
  <2>2. TypeOK /\ OneGap /\ Cells /\ Draining /\ ~InLoop
    BY <2>1 DEF IInv, Draining, InLoop, Filling, Exchanging
  <2>3. /\ begin \in Int /\ end \in Int /\ 0 <= begin /\ end <= N /\ N \in Nat
        /\ last \in Int /\ last <= end /\ numL - 1 \in 0 .. numL - 1
    BY <2>1, <2>2, Numbers, Widths
  <2>4. CellL(numL - 1) \in begin .. end - 1 /\ CellL(numL - 1) < last
    BY <2>1, <2>2, <2>3, CellValues DEF Cells
  <2>5. CellL(numL - 1) \in Pos /\ last - 1 \in Pos
    BY <2>3, <2>4 DEF Pos
  <2>6. IsArrangement(v)
    BY <2>1, <2>2, Whole
  <2> QED
    BY <2>1, <2>5, <2>6, SwapFixed
<1>6. CASE DrainRightPerm
  <2>1. /\ pc = "drainR" /\ pc' = "drainR" /\ numR > 0
        /\ v' = Swap(v, CellR(numR - 1), first)
        /\ FixAt({CellR(numR - 1), first})
    BY <1>6 DEF DrainRightPerm, DrainRight
  <2>2. TypeOK /\ OneGap /\ Cells /\ Draining /\ ~InLoop
    BY <2>1 DEF IInv, Draining, InLoop, Filling, Exchanging
  <2>3. /\ begin \in Int /\ end \in Int /\ 0 <= begin /\ end <= N /\ N \in Nat
        /\ first \in Int /\ begin <= first /\ numR - 1 \in 0 .. numR - 1
    BY <2>1, <2>2, Numbers, Widths
  <2>4. CellR(numR - 1) \in begin .. end - 1 /\ CellR(numR - 1) >= first
    BY <2>1, <2>2, <2>3, CellValues DEF Cells
  <2>5. CellR(numR - 1) \in Pos /\ first \in Pos
    BY <2>3, <2>4 DEF Pos
  <2>6. IsArrangement(v)
    BY <2>1, <2>2, Whole
  <2> QED
    BY <2>1, <2>5, <2>6, SwapFixed
<1>7. CASE UNCHANGED permVars
  <2>1. UNCHANGED <<v, pc>> /\ UNCHANGED left /\ UNCHANGED right /\ UNCHANGED index
    BY <1>7 DEF permVars, vars
  <2>2. PairCells' = PairCells
    BY <2>1 DEF PairCells, Num, Lesser, CellL, CellR, left, right
  <2> QED
    BY <2>1, <2>2 DEF PermIInv, ExactOutside, index
<1> QED
  BY <1>1, <1>2, <1>3, <1>4, <1>5, <1>6, <1>7 DEF PermNext

\* The partition with an index is a partition: it takes no step the block
\* partition would not take.
THEOREM PermIsPartition == PermSpec => Spec
<1>1. PermInit => Init
  BY DEF PermInit
<1> QED
  BY <1>1, PermStep, PTL DEF PermSpec, Spec

\* branchless_partition_perm keeps perm[id(x)] == the cell x is in, exactly and
\* at every step outside a rotation, on every array and for every block size.
THEOREM PermInverseHolds == PermSpec => []PermInverse
<1>1. PermInit => PermIInv
  <2> SUFFICES ASSUME PermInit PROVE PermIInv
    OBVIOUS
  <2>1. perm = [x \in Pos |-> x] /\ v = [x \in Pos |-> x] /\ pc = "scanL"
    BY DEF PermInit, Init
  <2> QED
    BY <2>1 DEF PermIInv, ExactOutside
<1>2. PermSpec => []IInv
  BY PermIsPartition, Invariance, PTL
<1>3. PermIInv => PermInverse
  BY DEF PermIInv, ExactOutside, PermInverse
<1> QED
  BY <1>1, <1>2, <1>3, NextPermIInv, PTL DEF PermSpec
=============================================================================

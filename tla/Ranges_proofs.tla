--------------------------- MODULE Ranges_proofs ---------------------------
(***************************************************************************)
(* Facts about exchanging two elements of the array, which the proofs of   *)
(* every kernel that moves elements by std::iter_swap rest on.             *)
(***************************************************************************)
EXTENDS Ranges, FiniteSetTheorems, TLAPS

\* std::iter_swap of two cells of the array loses and duplicates nothing.
LEMMA SwapArrangement ==
    ASSUME NEW a, IsArrangement(a), NEW i \in Pos, NEW j \in Pos
    PROVE  IsArrangement(Swap(a, i, j))
<1>1. a \in [Pos -> Pos]
  BY DEF IsArrangement
<1>2. Swap(a, i, j) \in [Pos -> Pos]
  BY <1>1 DEF Swap
<1>3. ASSUME NEW p \in Pos, NEW q \in Pos, Swap(a, i, j)[p] = Swap(a, i, j)[q]
      PROVE  p = q
  BY <1>1, <1>3 DEF Swap, IsArrangement
<1> QED
  BY <1>2, <1>3 DEF IsArrangement

\* It puts each of the two elements where the other one was, and leaves the
\* other cells alone.
LEMMA SwapCells ==
    ASSUME NEW a \in [Pos -> Pos], NEW i \in Pos, NEW j \in Pos
    PROVE  /\ Swap(a, i, j) \in [Pos -> Pos]
           /\ Swap(a, i, j)[i] = a[j]
           /\ Swap(a, i, j)[j] = a[i]
           /\ \A p \in Pos : p # i /\ p # j => Swap(a, i, j)[p] = a[p]
BY DEF Swap

\* The two facts together, of the array that results.
LEMMA ExchangeRearranges ==
    ASSUME NEW w, IsArrangement(w), NEW x \in Pos, NEW y \in Pos, NEW u, u = Swap(w, x, y)
    PROVE  /\ IsArrangement(u) /\ u \in [Pos -> Pos]
           /\ u[x] = w[y] /\ u[y] = w[x]
           /\ \A p \in Pos : p # x /\ p # y => u[p] = w[p]
<1>1. IsArrangement(u)
  BY SwapArrangement
<1>2. w \in [Pos -> Pos]
  BY DEF IsArrangement
<1>3. /\ u \in [Pos -> Pos] /\ u[x] = w[y] /\ u[y] = w[x]
      /\ \A p \in Pos : p # x /\ p # y => u[p] = w[p]
  BY <1>2, SwapCells
<1> QED
  BY <1>1, <1>3
-----------------------------------------------------------------------------
(***************************************************************************)
(* Quotients, and the elements of a finite set of numbers in order.        *)
(***************************************************************************)
LEMMA DivisionFacts ==
    ASSUME NEW a \in Nat, NEW d \in Nat \ {0}
    PROVE  a % d \in 0 .. d - 1 /\ a \div d \in Nat /\ a = d * (a \div d) + (a % d)
BY Z3

\* Picking the element with no smaller one, then the one with one smaller one, and
\* so on, lists a finite set of numbers, each once and ascending.
ByRank(mask) ==
    [b \in 1 .. Cardinality(mask) |->
        CHOOSE lane \in mask : Cardinality({x \in mask : x < lane}) = b - 1]

LEMMA AscendingList ==
    ASSUME NEW mask, IsFiniteSet(mask), mask \subseteq Int
    PROVE  /\ ByRank(mask) \in [1 .. Cardinality(mask) -> mask]
           /\ \A a, b \in 1 .. Cardinality(mask) : a < b => ByRank(mask)[a] < ByRank(mask)[b]
           /\ \A lane \in mask : \E b \in 1 .. Cardinality(mask) : ByRank(mask)[b] = lane
<1> DEFINE c == Cardinality(mask)
           Under(l) == {x \in mask : x < l}
           rank(l) == Cardinality(Under(l))
<1>1. IsFiniteSet(mask) /\ c \in Nat
  BY FS_CardinalityType
<1>2. ASSUME NEW s, s \subseteq mask PROVE IsFiniteSet(s) /\ Cardinality(s) \in 0 .. c
  <2>1. IsFiniteSet(s) /\ Cardinality(s) <= c
    BY <1>1, <1>2, FS_Subset
  <2> QED
    BY <1>1, <2>1, FS_CardinalityType
<1>3. ASSUME NEW l \in mask, NEW s, s \subseteq mask, Under(l) \subseteq s, l \in s
      PROVE  rank(l) + 1 <= Cardinality(s)
  <2>1. IsFiniteSet(Under(l)) /\ rank(l) \in 0 .. c
    BY <1>2
  <2>2. l \notin Under(l)
    OBVIOUS
  <2>3. Cardinality(Under(l) \cup {l}) = rank(l) + 1
    BY <2>1, <2>2, FS_AddElement
  <2>4. Under(l) \cup {l} \subseteq s
    BY <1>3
  <2>5. IsFiniteSet(s)
    BY <1>2, <1>3
  <2> QED
    BY <2>3, <2>4, <2>5, FS_Subset
<1>4. \A l \in mask : rank(l) \in 0 .. c - 1
  <2> SUFFICES ASSUME NEW l \in mask PROVE rank(l) \in 0 .. c - 1
    OBVIOUS
  <2>1. rank(l) + 1 <= c
    BY <1>3
  <2>2. rank(l) \in 0 .. c
    BY <1>2
  <2> QED
    BY <1>1, <2>1, <2>2
<1>5. \A l, m \in mask : l < m => rank(l) < rank(m)
  <2> SUFFICES ASSUME NEW l \in mask, NEW m \in mask, l < m PROVE rank(l) < rank(m)
    OBVIOUS
  <2>1. l \in Int /\ m \in Int /\ \A x \in mask : x \in Int
    OBVIOUS
  <2>a. ASSUME NEW x \in Under(l) PROVE x \in Under(m)
    <3>1. x \in mask /\ x < l
      OBVIOUS
    <3>2. x < m
      BY <2>1, <3>1
    <3> QED
      BY <3>1, <3>2
  <2>2. Under(l) \subseteq Under(m) /\ l \in Under(m) /\ Under(m) \subseteq mask
    BY <2>a
  <2>3. rank(l) + 1 <= rank(m)
    BY <1>3, <2>2
  <2> QED
    BY <1>1, <1>4, <2>3
<1> DEFINE f == [l \in mask |-> rank(l) + 1]
<1> HIDE DEF rank
<1>6. f \in Injection(mask, 1 .. c)
  <2>1. f \in [mask -> 1 .. c]
    BY <1>1, <1>4
  <2>2. ASSUME NEW l \in mask, NEW m \in mask, f[l] = f[m] PROVE l = m
    <3>1. rank(l) = rank(m)
      BY <1>1, <1>4, <2>2
    <3> QED
      BY <1>1, <1>4, <1>5, <3>1
  <2> QED
    BY <2>1, <2>2 DEF Injection, IsInjective
<1>7. f \in Surjection(mask, 1 .. c)
  <2>1. IsFiniteSet(1 .. c) /\ Cardinality(1 .. c) = c
    BY <1>1, FS_Interval
  <2> QED
    BY <1>1, <1>6, <2>1, FS_Injection
<1>8. \A b \in 1 .. c : ByRank(mask)[b] \in mask /\ rank(ByRank(mask)[b]) = b - 1
  <2> SUFFICES ASSUME NEW b \in 1 .. c
               PROVE  ByRank(mask)[b] \in mask /\ rank(ByRank(mask)[b]) = b - 1
    OBVIOUS
  <2>1. PICK l \in mask : f[l] = b
    BY <1>7 DEF Surjection
  <2>2. rank(l) = b - 1
    BY <1>1, <1>4, <2>1
  <2>3. ByRank(mask)[b] = CHOOSE lane \in mask : rank(lane) = b - 1
    BY DEF ByRank, rank
  <2> QED
    BY <2>2, <2>3
<1>9. ByRank(mask) \in [1 .. c -> mask]
  <2> DEFINE at(b) == CHOOSE lane \in mask : Cardinality({x \in mask : x < lane}) = b - 1
  <2>1. \A b \in 1 .. c : ByRank(mask)[b] = at(b)
    BY DEF ByRank
  <2>2. \A b \in 1 .. c : at(b) \in mask
    BY <1>8, <2>1
  <2>3. ByRank(mask) = [b \in 1 .. c |-> at(b)]
    BY DEF ByRank
  <2> HIDE DEF at
  <2> QED
    BY <2>2, <2>3
<1>10. ASSUME NEW a \in 1 .. c, NEW b \in 1 .. c, a < b
       PROVE  ByRank(mask)[a] < ByRank(mask)[b]
  <2> DEFINE x == ByRank(mask)[a]
             y == ByRank(mask)[b]
  <2>1. x \in mask /\ y \in mask /\ rank(x) = a - 1 /\ rank(y) = b - 1
    BY <1>8
  <2> HIDE DEF x, y
  <2>2. ~ (rank(y) < rank(x)) /\ rank(x) # rank(y)
    BY <1>1, <1>10, <2>1
  <2>3. x # y /\ ~ (y < x) /\ x \in Int /\ y \in Int
    BY <1>5, <2>1, <2>2
  <2> QED
    BY <2>3 DEF x, y
<1>11. ASSUME NEW lane \in mask PROVE \E b \in 1 .. c : ByRank(mask)[b] = lane
  <2> DEFINE b == rank(lane) + 1
             x == ByRank(mask)[b]
  <2>1. b \in 1 .. c
    BY <1>1, <1>4
  <2>2. x \in mask /\ rank(x) = rank(lane)
    BY <1>1, <1>4, <1>8, <2>1
  <2> HIDE DEF x
  <2>3. x = lane
    BY <1>1, <1>4, <1>5, <2>2
  <2> QED
    BY <2>1, <2>3 DEF x
<1> QED
  BY <1>1, <1>9, <1>10, <1>11
-----------------------------------------------------------------------------
(***************************************************************************)
(* How often a key occurs in a range, and what rearranging the range does  *)
(* to it.                                                                  *)
(***************************************************************************)
Occurrences(a, x, lo, hi) == {p \in lo .. hi - 1 : a[p] = x}

SameCounts(s, a, b, lo, hi) ==
    \A x \in s : Cardinality(Occurrences(a, x, lo, hi)) = Cardinality(Occurrences(b, x, lo, hi))

\* b is a with the cells of [lo, hi) rearranged, where s are the keys.
Shuffled(s, a, b, lo, hi) ==
    b \in [Pos -> s] /\ SameOutside(a, b, lo, hi) /\ SameCounts(s, a, b, lo, hi)

LEMMA OccurrencesFinite ==
    ASSUME NEW a, NEW x, NEW lo \in Int, NEW hi \in Int
    PROVE  IsFiniteSet(Occurrences(a, x, lo, hi))
<1>1. IsFiniteSet(lo .. hi - 1)
  BY FS_Interval
<1> QED
  BY <1>1, FS_Subset DEF Occurrences

\* What is in the range afterwards was in the range before.
LEMMA ShuffledFrom ==
    ASSUME NEW s, NEW a, NEW lo \in Int, NEW hi \in 0 .. N, 0 <= lo, NEW b, Shuffled(s, a, b, lo, hi)
    PROVE  \A p \in lo .. hi - 1 : \E q \in lo .. hi - 1 : a[q] = b[p]
<1> SUFFICES ASSUME NEW p \in lo .. hi - 1 PROVE \E q \in lo .. hi - 1 : a[q] = b[p]
  OBVIOUS
<1> DEFINE x == b[p]
<1>1. x \in s
  BY NAssumption DEF Shuffled, Pos
<1>2. p \in Occurrences(b, x, lo, hi)
  BY DEF Occurrences
<1>3. Cardinality(Occurrences(b, x, lo, hi)) # 0
  BY <1>2, OccurrencesFinite, FS_EmptySet
<1>4. Cardinality(Occurrences(a, x, lo, hi)) # 0
  BY <1>1, <1>3 DEF Shuffled, SameCounts
<1>5. Occurrences(a, x, lo, hi) # {}
  BY <1>4, FS_EmptySet
<1> QED
  BY <1>5 DEF Occurrences

\* What was in the range before is in it afterwards.
LEMMA ShuffledTo ==
    ASSUME NEW s, NEW a \in [Pos -> s], NEW lo \in Int, NEW hi \in 0 .. N, 0 <= lo, NEW b,
           Shuffled(s, a, b, lo, hi)
    PROVE  \A p \in lo .. hi - 1 : \E q \in lo .. hi - 1 : b[q] = a[p]
<1> SUFFICES ASSUME NEW p \in lo .. hi - 1 PROVE \E q \in lo .. hi - 1 : b[q] = a[p]
  OBVIOUS
<1> DEFINE x == a[p]
<1>1. x \in s
  BY NAssumption DEF Pos
<1>2. p \in Occurrences(a, x, lo, hi)
  BY DEF Occurrences
<1>3. Cardinality(Occurrences(a, x, lo, hi)) # 0
  BY <1>2, OccurrencesFinite, FS_EmptySet
<1>4. Cardinality(Occurrences(b, x, lo, hi)) # 0
  BY <1>1, <1>3 DEF Shuffled, SameCounts
<1>5. Occurrences(b, x, lo, hi) # {}
  BY <1>4, FS_EmptySet
<1> QED
  BY <1>5 DEF Occurrences

LEMMA ShuffledTwice ==
    ASSUME NEW s, NEW a, NEW b, NEW c, NEW lo, NEW hi,
           Shuffled(s, a, b, lo, hi), Shuffled(s, b, c, lo, hi)
    PROVE  Shuffled(s, a, c, lo, hi)
BY DEF Shuffled, SameOutside, SameCounts

LEMMA NotShuffled ==
    ASSUME NEW s, NEW a \in [Pos -> s], NEW lo, NEW hi
    PROVE  Shuffled(s, a, a, lo, hi)
BY DEF Shuffled, SameOutside, SameCounts

\* Exchanging two cells of the range rearranges it.
LEMMA SwapShuffles ==
    ASSUME NEW s, NEW a \in [Pos -> s], NEW lo \in Int, NEW hi \in 0 .. N, 0 <= lo,
           NEW i \in lo .. hi - 1, NEW j \in lo .. hi - 1
    PROVE  Shuffled(s, a, Swap(a, i, j), lo, hi)
<1> DEFINE b == Swap(a, i, j)
<1>1. i \in Pos /\ j \in Pos
  BY NAssumption DEF Pos
<1>2. /\ b \in [Pos -> s] /\ b[i] = a[j] /\ b[j] = a[i]
      /\ \A p \in Pos : p # i /\ p # j => b[p] = a[p]
  BY <1>1 DEF Swap
<1> HIDE DEF b
<1>3. SameOutside(a, b, lo, hi)
  BY <1>2 DEF SameOutside
<1>4. ASSUME NEW x \in s
      PROVE  Cardinality(Occurrences(a, x, lo, hi)) = Cardinality(Occurrences(b, x, lo, hi))
  <2> DEFINE A == Occurrences(a, x, lo, hi)
             B == Occurrences(b, x, lo, hi)
             other == [p \in A |-> IF p = i THEN j ELSE IF p = j THEN i ELSE p]
  <2>1. \A p \in lo .. hi - 1 : p \in Pos
    BY NAssumption DEF Pos
  <2>2. \A p \in A : p \in lo .. hi - 1 /\ a[p] = x
    BY DEF Occurrences
  <2>3. \A p \in B : p \in lo .. hi - 1 /\ b[p] = x
    BY DEF Occurrences
  <2>4. \A p \in lo .. hi - 1 : (a[p] = x => p \in A) /\ (b[p] = x => p \in B)
    BY DEF Occurrences
  <2> HIDE DEF A, B
  <2>5. other \in [A -> B]
    BY <1>2, <2>1, <2>2, <2>4
  <2>6. \A p, q \in A : other[p] = other[q] => p = q
    OBVIOUS
  <2>7. \A q \in B : \E p \in A : other[p] = q
    <3> SUFFICES ASSUME NEW q \in B PROVE \E p \in A : other[p] = q
      OBVIOUS
    <3>1. CASE q = i
      BY <1>2, <2>1, <2>3, <2>4, <3>1
    <3>2. CASE q = j
      BY <1>2, <2>1, <2>3, <2>4, <3>2
    <3>3. CASE q # i /\ q # j
      BY <1>2, <2>1, <2>3, <2>4, <3>3
    <3> QED
      BY <3>1, <3>2, <3>3
  <2>8. other \in Bijection(A, B)
    BY <2>5, <2>6, <2>7 DEF Bijection, Injection, IsInjective, Surjection
  <2>9. IsFiniteSet(A)
    BY OccurrencesFinite DEF A
  <2>10. Cardinality(B) = Cardinality(A)
    BY <2>8, <2>9, FS_Bijection DEF ExistsBijection
  <2> QED
    BY <2>10 DEF A, B
<1> QED
  BY <1>2, <1>3, <1>4 DEF b, Shuffled, SameCounts

\* A range that is rearranged in a part is rearranged.
LEMMA ShuffledWider ==
    ASSUME NEW s, NEW a \in [Pos -> s], NEW b, NEW lo \in Int, NEW hi \in 0 .. N,
           NEW from \in 0 .. lo, NEW to \in hi .. N, Shuffled(s, a, b, lo, hi)
    PROVE  Shuffled(s, a, b, from, to)
<1>1. SameOutside(a, b, from, to)
  BY NAssumption DEF Shuffled, SameOutside, Pos
<1>2. ASSUME NEW x \in s
      PROVE  Cardinality(Occurrences(a, x, from, to)) = Cardinality(Occurrences(b, x, from, to))
  <2> DEFINE A == Occurrences(a, x, from, to)
             B == Occurrences(b, x, from, to)
             A0 == Occurrences(a, x, lo, hi)
             B0 == Occurrences(b, x, lo, hi)
  <2>1. A0 \subseteq A /\ B0 \subseteq B
    BY DEF Occurrences
  <2>2. A \ A0 = B \ B0
    BY NAssumption DEF Occurrences, Shuffled, SameOutside, Pos
  <2>3. IsFiniteSet(A) /\ IsFiniteSet(B) /\ IsFiniteSet(A0) /\ IsFiniteSet(B0)
    BY OccurrencesFinite
  <2>4. Cardinality(A0) = Cardinality(B0)
    BY DEF Shuffled, SameCounts
  <2> HIDE DEF A, B, A0, B0
  <2>5. A \cap A0 = A0 /\ B \cap B0 = B0
    BY <2>1
  <2>6. /\ Cardinality(A \ A0) = Cardinality(A) - Cardinality(A0)
        /\ Cardinality(B \ B0) = Cardinality(B) - Cardinality(B0)
    <3>1. Cardinality(A \ A0) = Cardinality(A) - Cardinality(A \cap A0)
      BY <2>3, FS_Difference
    <3>2. Cardinality(B \ B0) = Cardinality(B) - Cardinality(B \cap B0)
      BY <2>3, FS_Difference
    <3> QED
      BY <2>5, <3>1, <3>2
  <2>7. /\ Cardinality(A) \in Nat /\ Cardinality(B) \in Nat
        /\ Cardinality(A0) \in Nat /\ Cardinality(B0) \in Nat
    BY <2>3, FS_CardinalityType
  <2>8. Cardinality(A) = Cardinality(B)
    BY <2>2, <2>4, <2>6, <2>7
  <2> QED
    BY <2>8 DEF A, B
<1> QED
  BY <1>1, <1>2 DEF Shuffled, SameCounts

\* A finite set of numbers that is not empty has a least one.
LEMMA LeastNumber ==
    ASSUME NEW t, IsFiniteSet(t), t \subseteq Int, t # {}
    PROVE  \E x \in t : \A y \in t : x <= y
<1> DEFINE c == Cardinality(t)
           f == ByRank(t)
<1>1. c \in Nat /\ c # 0
  BY FS_CardinalityType, FS_EmptySet
<1>2. /\ f \in [1 .. c -> t]
      /\ \A a, b \in 1 .. c : a < b => f[a] < f[b]
      /\ \A x \in t : \E b \in 1 .. c : f[b] = x
  BY AscendingList
<1> HIDE DEF c, f
<1>3. 1 \in 1 .. c /\ f[1] \in t
  BY <1>1, <1>2
<1>4. ASSUME NEW y \in t PROVE f[1] <= y
  <2>1. PICK b \in 1 .. c : f[b] = y
    BY <1>2
  <2>2. b = 1 \/ 1 < b
    OBVIOUS
  <2>3. f[1] \in Int /\ y \in Int
    BY <1>3
  <2>4. f[1] = y \/ f[1] < y
    BY <1>2, <1>3, <2>1, <2>2
  <2> QED
    BY <2>3, <2>4
<1> QED
  BY <1>3, <1>4

\* Among the cells of a finite set that is not empty there is a first one of the
\* least key.
LEMMA FirstLeastKey ==
    ASSUME NEW f, NEW s, IsFiniteSet(s), s \subseteq Int, s # {}, \A p \in s : f[p] \in Int
    PROVE  \E p \in s : \A q \in s : f[p] < f[q] \/ (f[p] = f[q] /\ p <= q)
<1> DEFINE keys == {f[p] : p \in s}
           g == [p \in s |-> f[p]]
<1>1. g \in Surjection(s, keys)
  BY DEF Surjection
<1>2. IsFiniteSet(keys)
  BY <1>1, FS_Surjection
<1>3. PICK x \in keys : \A y \in keys : x <= y
  BY <1>2, LeastNumber
<1> DEFINE u == {p \in s : f[p] = x}
<1>4. IsFiniteSet(u) /\ u \subseteq Int /\ u # {}
  BY FS_Subset
<1>5. PICK p \in u : \A q \in u : p <= q
  BY <1>4, LeastNumber
<1>6. p \in s /\ f[p] = x /\ x \in Int
  BY <1>5
<1>7. ASSUME NEW q \in s PROVE f[p] < f[q] \/ (f[p] = f[q] /\ p <= q)
  <2>1. f[q] \in Int /\ x <= f[q]
    BY <1>3
  <2>2. CASE f[q] = x
    BY <1>5, <1>6, <2>2
  <2>3. CASE f[q] # x
    BY <1>6, <2>1, <2>3
  <2> QED
    BY <2>2, <2>3
<1> QED
  BY <1>6, <1>7
=============================================================================

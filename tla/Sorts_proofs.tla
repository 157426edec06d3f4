-------------------------- MODULE Sorts_proofs -----------------------------
(***************************************************************************)
(* Theorems about quicksort and quicksort_rev, for every array, every      *)
(* range, every choice of pivots and every outcome of the partitions that  *)
(* meets the contract, and for every cutoff whose halvers halve the zeros  *)
(* and ones (HalversHalve); about the samples of the pivot strategies, for *)
(* a block of any length; and about the small sorts and completions, for   *)
(* blocks of every length for which the lists of exchanges sort the zeros  *)
(* and ones (GatesAssumption) and for keys of any values.                  *)
(***************************************************************************)
EXTENDS MCSmall, Ranges_proofs, SequenceTheorems

-----------------------------------------------------------------------------
(***************************************************************************)
(* Exchanges one after the other.  What a list does is a recursive         *)
(* function of the number of exchanges done; that there is such a          *)
(* function, and that what one exchange keeps all of them keep, follows    *)
(* from the least number of exchanges for which it would be false.         *)
(***************************************************************************)
\* One exchange of apply_network or apply_network_rev.
Gate(fm, a, base, g) ==
    IF fm = "forward" THEN Cswap(a, base + g[1], base + g[2])
                      ELSE CswapRev(a, base + g[1], base + g[2])

\* f lists the arrays after none, one, two, ... of the first m exchanges.
Runs(f, fm, a, base, net, m) ==
    f = [c \in 0 .. m |-> IF c = 0 THEN a ELSE Gate(fm, f[c - 1], base, net[c])]

\* What holds for no exchange, and for one more if it holds for c, holds for m.
LEMMA CountUp ==
    ASSUME NEW m \in Nat, NEW s \in SUBSET (0 .. m), 0 \in s,
           \A c \in 0 .. m - 1 : c \in s => c + 1 \in s
    PROVE  s = 0 .. m
<1> DEFINE r == (0 .. m) \ s
<1> SUFFICES ASSUME r # {} PROVE FALSE
  OBVIOUS
<1>1. IsFiniteSet(r) /\ r \subseteq Int
  <2>1. IsFiniteSet(0 .. m) /\ r \in SUBSET (0 .. m)
    BY FS_Interval
  <2> QED
    BY <2>1, FS_Subset
<1>2. PICK x \in r : \A y \in r : x <= y
  BY <1>1, LeastNumber
<1>3. x # 0 /\ x - 1 \in 0 .. m - 1
  OBVIOUS
<1>4. x - 1 \in s
  BY <1>2, <1>3
<1> QED
  BY <1>3, <1>4

LEMMA RunsExist ==
    ASSUME NEW fm, NEW a, NEW base, NEW net, NEW m \in Nat
    PROVE  \E f : Runs(f, fm, a, base, net, m)
<1> DEFINE s == {c \in 0 .. m : \E f : Runs(f, fm, a, base, net, c)}
<1>1. 0 \in s
  <2> DEFINE f == [c \in 0 .. 0 |-> a]
  <2>1. f = [c \in 0 .. 0 |-> IF c = 0 THEN a ELSE Gate(fm, f[c - 1], base, net[c])]
    OBVIOUS
  <2>2. Runs(f, fm, a, base, net, 0)
    BY <2>1 DEF Runs
  <2> QED
    BY <2>2
<1>2. ASSUME NEW c \in 0 .. m - 1, c \in s PROVE c + 1 \in s
  <2>1. PICK f : Runs(f, fm, a, base, net, c)
    BY <1>2
  <2> DEFINE g == [b \in 0 .. c + 1 |-> IF b = c + 1 THEN Gate(fm, f[c], base, net[c + 1])
                                                     ELSE f[b]]
  <2>2. \A b \in 0 .. c : f[b] = IF b = 0 THEN a ELSE Gate(fm, f[b - 1], base, net[b])
    BY <2>1 DEF Runs
  <2>3. \A b \in 0 .. c : g[b] = f[b]
    OBVIOUS
  <2>4. g[c + 1] = Gate(fm, g[c], base, net[c + 1])
    BY <2>3
  <2>5. ASSUME NEW b \in 0 .. c + 1
        PROVE  g[b] = IF b = 0 THEN a ELSE Gate(fm, g[b - 1], base, net[b])
    <3>1. CASE b = c + 1
      BY <2>4, <3>1
    <3>2. CASE b # c + 1 /\ b # 0
      <4>1. b \in 0 .. c /\ b - 1 \in 0 .. c
        BY <3>2
      <4> QED
        BY <2>2, <2>3, <3>2, <4>1
    <3>3. CASE b = 0
      <4>1. b \in 0 .. c
        BY <3>3
      <4> QED
        BY <2>2, <2>3, <3>3, <4>1
    <3> QED
      BY <3>1, <3>2, <3>3
  <2>6. Runs(g, fm, a, base, net, c + 1)
    BY <2>5 DEF Runs
  <2> QED
    BY <2>6
<1>3. s = 0 .. m
  BY <1>1, <1>2, CountUp
<1> QED
  BY <1>3

\* So apply_network is what is there after the last exchange.
IsRun(f, fm, a, base, net) ==
    /\ f[0] = a
    /\ \A c \in 1 .. Len(net) : f[c] = Gate(fm, f[c - 1], base, net[c])
    /\ ApplyNetwork(fm, a, base, net) = f[Len(net)]

LEMMA NetworkRuns ==
    ASSUME NEW fm, NEW a, NEW base, NEW net, Len(net) \in Nat
    PROVE  \E f : IsRun(f, fm, a, base, net)
<1> DEFINE f == CHOOSE g : Runs(g, fm, a, base, net, Len(net))
<1>1. Runs(f, fm, a, base, net, Len(net))
  BY RunsExist
<1>2. ApplyNetwork(fm, a, base, net) = f[Len(net)]
  BY DEF ApplyNetwork, Runs, Gate
<1> HIDE DEF f
<1>3. \A c \in 0 .. Len(net) : f[c] = IF c = 0 THEN a ELSE Gate(fm, f[c - 1], base, net[c])
  BY <1>1 DEF Runs
<1>4. f[0] = a /\ \A c \in 1 .. Len(net) : f[c] = Gate(fm, f[c - 1], base, net[c])
  BY <1>3
<1> QED
  BY <1>2, <1>4 DEF IsRun
-----------------------------------------------------------------------------
\* What an exchange within [lo, hi) of an array of keys does: it rearranges the
\* range, and it does to the zeros and ones that a threshold makes of the range
\* what the same exchange does to an array of zeros and ones.
Bits(a, x, base, m) == [q \in 0 .. m - 1 |-> IF a[base + q] < x THEN 0 ELSE 1]

LEMMA GateExchanges ==
    ASSUME Keys \subseteq Int, NEW fm, NEW a \in [Pos -> Keys], NEW base \in Nat, NEW m \in Nat,
           base + m <= N, NEW g \in (0 .. m - 1) \X (0 .. m - 1)
    PROVE  /\ Gate(fm, a, base, g) \in [Pos -> Keys]
           /\ Shuffled(Keys, a, Gate(fm, a, base, g), base, base + m)
<1> DEFINE y == base + g[1]
           z == base + g[2]
           b == Gate(fm, a, base, g)
<1>1. /\ N \in Nat /\ y \in Pos /\ z \in Pos /\ base + m \in 0 .. N
      /\ y \in base .. base + m - 1 /\ z \in base .. base + m - 1
  BY NAssumption DEF Pos
<1>2. b = a \/ b = Swap(a, y, z)
  BY DEF Gate, Cswap, CswapRev, Swap
<1>3. Shuffled(Keys, a, a, base, base + m)
  BY NotShuffled
<1>4. Shuffled(Keys, a, Swap(a, y, z), base, base + m)
  <2> HIDE DEF y, z
  <2> QED
    BY <1>1, SwapShuffles
<1>5. Shuffled(Keys, a, b, base, base + m)
  BY <1>2, <1>3, <1>4
<1> QED
  BY <1>5 DEF Shuffled

LEMMA GateOnBits ==
    ASSUME Keys \subseteq Int, NEW fm, NEW a \in [Pos -> Keys], NEW base \in Nat, NEW m \in Nat,
           base + m <= N, NEW g \in (0 .. m - 1) \X (0 .. m - 1), NEW x \in Int
    PROVE  Bits(Gate(fm, a, base, g), x, base, m) = Gate(fm, Bits(a, x, base, m), 0, g)
<1> DEFINE y == base + g[1]
           z == base + g[2]
           b == Gate(fm, a, base, g)
           u == Bits(a, x, base, m)
           w == Gate(fm, u, 0, g)
<1>1. /\ N \in Nat /\ g[1] \in 0 .. m - 1 /\ g[2] \in 0 .. m - 1 /\ y \in Pos /\ z \in Pos
      /\ \A q \in 0 .. m - 1 : base + q \in Pos
  BY NAssumption DEF Pos
<1>2. a[y] \in Int /\ a[z] \in Int /\ \A q \in 0 .. m - 1 : a[base + q] \in Int
  BY <1>1
<1>3. /\ u \in [0 .. m - 1 -> {0, 1}]
      /\ \A q \in 0 .. m - 1 : u[q] = IF a[base + q] < x THEN 0 ELSE 1
      /\ u[g[1]] = (IF a[y] < x THEN 0 ELSE 1) /\ u[g[2]] = (IF a[z] < x THEN 0 ELSE 1)
  BY <1>1 DEF Bits
<1>4. 0 + g[1] = g[1] /\ 0 + g[2] = g[2]
  BY <1>1
<1>5. b = IF fm = "forward" THEN Cswap(a, y, z) ELSE CswapRev(a, y, z)
  BY DEF Gate
<1>6. w = IF fm = "forward" THEN Cswap(u, g[1], g[2]) ELSE CswapRev(u, g[1], g[2])
  BY <1>4 DEF Gate
<1> HIDE DEF b, w, u
<1>7. w \in [0 .. m - 1 -> {0, 1}]
  BY <1>1, <1>3, <1>6 DEF Cswap, CswapRev
<1>8. ASSUME NEW q \in 0 .. m - 1
      PROVE  w[q] = IF b[base + q] < x THEN 0 ELSE 1
  <2>1. base + q = y <=> q = g[1]
    BY <1>1
  <2>2. base + q = z <=> q = g[2]
    BY <1>1
  <2> HIDE DEF y, z
  <2>3. CASE fm = "forward"
    <3>1. b[base + q] = IF a[z] < a[y] THEN IF base + q = z THEN a[y]
                                            ELSE IF base + q = y THEN a[z] ELSE a[base + q]
                        ELSE a[base + q]
      BY <1>1, <1>5, <2>3 DEF Cswap
    <3>2. w[q] = IF u[g[2]] < u[g[1]] THEN IF q = g[2] THEN u[g[1]]
                                           ELSE IF q = g[1] THEN u[g[2]] ELSE u[q]
                 ELSE u[q]
      BY <1>1, <1>3, <1>6, <2>3 DEF Cswap
    <3> QED
      BY <1>2, <1>3, <2>1, <2>2, <3>1, <3>2
  <2>4. CASE fm # "forward"
    <3>1. b[base + q] = IF a[y] < a[z] THEN IF base + q = z THEN a[y]
                                            ELSE IF base + q = y THEN a[z] ELSE a[base + q]
                        ELSE a[base + q]
      BY <1>1, <1>5, <2>4 DEF CswapRev
    <3>2. w[q] = IF u[g[1]] < u[g[2]] THEN IF q = g[2] THEN u[g[1]]
                                           ELSE IF q = g[1] THEN u[g[2]] ELSE u[q]
                 ELSE u[q]
      BY <1>1, <1>3, <1>6, <2>4 DEF CswapRev
    <3> QED
      BY <1>2, <1>3, <2>1, <2>2, <3>1, <3>2
  <2> QED
    BY <2>3, <2>4
<1>9. w = [q \in 0 .. m - 1 |-> IF b[base + q] < x THEN 0 ELSE 1]
  BY <1>7, <1>8
<1> QED
  BY <1>9 DEF Bits, b, w, u
-----------------------------------------------------------------------------
\* A list of exchanges within a block of m cells from base on rearranges the block.
LEMMA NetworkShuffles ==
    ASSUME Keys \subseteq Int, NEW fm, NEW a \in [Pos -> Keys], NEW base \in Nat, NEW m \in Nat,
           base + m <= N, NEW net \in Seq((0 .. m - 1) \X (0 .. m - 1)),
           NEW f, IsRun(f, fm, a, base, net)
    PROVE  \A c \in 0 .. Len(net) :
              f[c] \in [Pos -> Keys] /\ Shuffled(Keys, a, f[c], base, base + m)
<1> DEFINE good(c) == f[c] \in [Pos -> Keys] /\ Shuffled(Keys, a, f[c], base, base + m)
           s == {c \in 0 .. Len(net) : good(c)}
<1>1. /\ Len(net) \in Nat
      /\ f[0] = a /\ \A c \in 1 .. Len(net) : f[c] = Gate(fm, f[c - 1], base, net[c])
  BY LenProperties DEF IsRun
<1>2. 0 \in s
  <2>1. Shuffled(Keys, a, a, base, base + m)
    BY NotShuffled
  <2> QED
    BY <1>1, <2>1
<1>3. ASSUME NEW c \in 0 .. Len(net) - 1, c \in s PROVE c + 1 \in s
  <2>1. c + 1 \in 1 .. Len(net) /\ (c + 1) - 1 = c
    BY <1>1
  <2>2. net[c + 1] \in (0 .. m - 1) \X (0 .. m - 1)
    BY <2>1, ElementOfSeq
  <2>3. f[c + 1] = Gate(fm, f[c], base, net[c + 1])
    BY <1>1, <2>1
  <2>4. good(c)
    BY <1>3
  <2>5. /\ f[c + 1] \in [Pos -> Keys]
        /\ Shuffled(Keys, f[c], f[c + 1], base, base + m)
    <3> DEFINE w == f[c]
               g == net[c + 1]
    <3>1. w \in [Pos -> Keys] /\ g \in (0 .. m - 1) \X (0 .. m - 1)
      BY <2>2, <2>4
    <3> HIDE DEF w, g
    <3>2. /\ Gate(fm, w, base, g) \in [Pos -> Keys]
          /\ Shuffled(Keys, w, Gate(fm, w, base, g), base, base + m)
      BY <3>1, GateExchanges
    <3> QED
      BY <2>3, <3>2 DEF w, g
  <2>6. Shuffled(Keys, a, f[c + 1], base, base + m)
    BY <2>4, <2>5, ShuffledTwice
  <2> QED
    BY <2>1, <1>1, <2>5, <2>6
<1> HIDE DEF good
<1>4. s = 0 .. Len(net)
  <2> HIDE DEF s
  <2>1. s \in SUBSET (0 .. Len(net))
    BY DEF s
  <2> QED
    BY <1>1, <1>2, <1>3, <2>1, CountUp
<1> QED
  BY <1>4 DEF good

\* Exchange by exchange it does to the zeros and ones of a threshold what it does
\* to the keys.
LEMMA NetworkOnBits ==
    ASSUME Keys \subseteq Int, NEW fm, NEW a \in [Pos -> Keys], NEW base \in Nat, NEW m \in Nat,
           base + m <= N, NEW net \in Seq((0 .. m - 1) \X (0 .. m - 1)), NEW x \in Int
    PROVE  Bits(ApplyNetwork(fm, a, base, net), x, base, m)
               = ApplyNetwork(fm, Bits(a, x, base, m), 0, net)
<1>1. Len(net) \in Nat
  BY LenProperties
<1>2. PICK f : IsRun(f, fm, a, base, net)
  BY <1>1, NetworkRuns, Zenon
<1>3. PICK h : IsRun(h, fm, Bits(a, x, base, m), 0, net)
  BY <1>1, NetworkRuns, Zenon
<1>4. \A c \in 0 .. Len(net) : f[c] \in [Pos -> Keys]
  BY <1>2, NetworkShuffles, Zenon
<1> DEFINE s == {c \in 0 .. Len(net) : Bits(f[c], x, base, m) = h[c]}
<1>5. 0 \in s
  BY <1>1, <1>2, <1>3 DEF IsRun
<1>6. ASSUME NEW c \in 0 .. Len(net) - 1, c \in s PROVE c + 1 \in s
  <2>1. c + 1 \in 1 .. Len(net) /\ (c + 1) - 1 = c /\ c \in 0 .. Len(net)
    BY <1>1
  <2>2. net[c + 1] \in (0 .. m - 1) \X (0 .. m - 1)
    BY <2>1, ElementOfSeq
  <2>3. f[c + 1] = Gate(fm, f[c], base, net[c + 1]) /\ h[c + 1] = Gate(fm, h[c], 0, net[c + 1])
    BY <1>2, <1>3, <2>1 DEF IsRun
  <2>4. f[c] \in [Pos -> Keys]
    BY <1>4, <2>1
  <2>5. Bits(f[c + 1], x, base, m) = Gate(fm, Bits(f[c], x, base, m), 0, net[c + 1])
    BY <2>2, <2>3, <2>4, GateOnBits
  <2>6. Bits(f[c], x, base, m) = h[c]
    BY <1>6
  <2> QED
    BY <1>1, <2>1, <2>3, <2>5, <2>6
<1>7. s = 0 .. Len(net)
  <2> HIDE DEF s
  <2>1. s \in SUBSET (0 .. Len(net))
    BY DEF s
  <2> QED
    BY <1>1, <1>5, <1>6, <2>1, CountUp
<1>8. Len(net) \in s
  BY <1>1, <1>7
<1> QED
  BY <1>2, <1>3, <1>8 DEF IsRun

\* No greater key before a lesser one, in the order of the form.
Ordered(x, y) == IF form = "forward" THEN x <= y ELSE y <= x

\* The 0-1 principle for halving (small_halve.hpp:208-243): a halver that leaves
\* no one before a zero across the middle leaves no greater key before a lesser
\* one across it, whatever the keys.
THEOREM HalverHalves ==
    ASSUME Keys \subseteq Int, form \in {"forward", "reverse"}, NEW a \in [Pos -> Keys],
           NEW l \in Nat, NEW h \in Nat, h <= N, h - l \in 2 .. HalveCutoff
    PROVE  /\ Halve(form, a, l, h) \in [Pos -> Keys]
           /\ Shuffled(Keys, a, Halve(form, a, l, h), l, h)
           /\ \A p \in l .. Half(l, h) - 1 : \A q \in Half(l, h) .. h - 1 :
                 Ordered(Halve(form, a, l, h)[p], Halve(form, a, l, h)[q])
<1> DEFINE m == h - l
           net == Networks[m - 1]
           b == ApplyNetwork(form, a, l, net)
<1>1. m \in Nat /\ l + m <= N /\ l + m = h /\ m >= 2 /\ N \in Nat
  BY NAssumption, ParameterAssumption
<1>2. Halves(m)
  BY HalversHalve
<1>3. net \in Seq((0 .. m - 1) \X (0 .. m - 1))
  BY <1>2 DEF Halves
<1>4. Halve(form, a, l, h) = b
  BY <1>1 DEF Halve
<1>5. \A bits : Halve(form, bits, 0, m) = ApplyNetwork(form, bits, 0, net)
  <2>1. m - 0 = m
    BY <1>1
  <2> QED
    BY <1>1, <2>1 DEF Halve
<1> HIDE DEF m
<1>6. m \div 2 \in 1 .. m - 1 /\ Half(0, m) = m \div 2 /\ Half(l, h) = l + (m \div 2)
  <2>1. m % 2 \in 0 .. 2 - 1 /\ m \div 2 \in Nat /\ m = 2 * (m \div 2) + (m % 2)
    BY <1>1, DivisionFacts
  <2>2. m - 0 = m
    BY <1>1
  <2> QED
    BY <1>1, <2>1, <2>2 DEF Half, m
<1> DEFINE half == m \div 2
<1> HIDE DEF m, net, b
<1>7. b \in [Pos -> Keys] /\ Shuffled(Keys, a, b, l, h)
  <2>1. Len(net) \in Nat
    BY <1>3, LenProperties
  <2>2. PICK f : IsRun(f, form, a, l, net)
    BY <2>1, NetworkRuns, Zenon
  <2>3. Len(net) \in 0 .. Len(net)
    BY <2>1
  <2>4. f[Len(net)] \in [Pos -> Keys] /\ Shuffled(Keys, a, f[Len(net)], l, l + m)
    BY <1>1, <1>3, <2>2, <2>3, NetworkShuffles, Zenon
  <2> QED
    BY <1>1, <2>2, <2>4 DEF b, IsRun
<1>8. ASSUME NEW p \in l .. Half(l, h) - 1, NEW q \in Half(l, h) .. h - 1
      PROVE  Ordered(b[p], b[q])
  <2>1. /\ half \in Int /\ p - l \in 0 .. half - 1 /\ q - l \in half .. m - 1
        /\ p - l \in 0 .. m - 1 /\ q - l \in 0 .. m - 1
        /\ l + (p - l) = p /\ l + (q - l) = q /\ p \in Pos /\ q \in Pos
    BY <1>1, <1>6 DEF Pos
  <2>2. b[p] \in Int /\ b[q] \in Int
    BY <1>7, <2>1
  <2> DEFINE bits(x) == Bits(a, x, l, m)
             end(x)  == ApplyNetwork(form, bits(x), 0, net)
  <2>3. ASSUME NEW x \in Int
        PROVE  /\ end(x)[p - l] = IF b[p] < x THEN 0 ELSE 1
               /\ end(x)[q - l] = IF b[q] < x THEN 0 ELSE 1
    <3>1. end(x) = Bits(b, x, l, m)
      BY <1>1, <1>3, NetworkOnBits DEF b
    <3> QED
      BY <2>1, <3>1 DEF Bits
  <2>4. ASSUME NEW x \in Int
        PROVE  /\ form = "forward" => end(x)[p - l] <= end(x)[q - l]
               /\ form = "reverse" => end(x)[q - l] <= end(x)[p - l]
    <3>1. bits(x) \in [0 .. m - 1 -> {0, 1}]
      BY DEF Bits
    <3> HIDE DEF bits
    <3>2. /\ Halve("forward", bits(x), 0, m)[p - l] <= Halve("forward", bits(x), 0, m)[q - l]
          /\ Halve("reverse", bits(x), 0, m)[q - l] <= Halve("reverse", bits(x), 0, m)[p - l]
      BY <1>2, <1>6, <2>1, <3>1 DEF Halves
    <3>3. Halve(form, bits(x), 0, m) = end(x)
      BY <1>5
    <3> HIDE DEF end
    <3> QED
      BY <3>2, <3>3
  <2> HIDE DEF end
  <2>5. CASE form = "forward"
    <3>1. end(b[p])[p - l] = 1
      BY <2>2, <2>3
    <3>2. end(b[p])[q - l] # 0
      BY <2>2, <2>4, <2>5, <3>1
    <3>3. b[p] <= b[q]
      BY <2>2, <2>3, <3>2
    <3> QED
      BY <2>5, <3>3 DEF Ordered
  <2>6. CASE form = "reverse"
    <3>1. end(b[q])[q - l] = 1
      BY <2>2, <2>3
    <3>2. end(b[q])[p - l] # 0
      BY <2>2, <2>4, <2>6, <3>1
    <3>3. b[q] <= b[p]
      BY <2>2, <2>3, <3>2
    <3> QED
      BY <2>6, <3>3 DEF Ordered
  <2> QED
    BY <2>5, <2>6
<1> QED
  BY <1>4, <1>7, <1>8
-----------------------------------------------------------------------------
\* Powers of two, from the number of subsets of 1 .. m.
LEMMA TwoToNext ==
    ASSUME NEW m \in Nat
    PROVE  2 ^ m \in Nat /\ 2 ^ (m + 1) = 2 * 2 ^ m
<1> DEFINE s == 1 .. m
           r == 1 .. m + 1
           with(x) == x \cup {m + 1}
           high == {x \in SUBSET r : m + 1 \in x}
           f == [x \in SUBSET s |-> x \cup {m + 1}]
<1>1. /\ IsFiniteSet(s) /\ Cardinality(s) = m
      /\ IsFiniteSet(r) /\ Cardinality(r) = m + 1
  BY FS_Interval
<1>2. /\ IsFiniteSet(SUBSET s) /\ Cardinality(SUBSET s) = 2 ^ m
      /\ IsFiniteSet(SUBSET r) /\ Cardinality(SUBSET r) = 2 ^ (m + 1)
  BY <1>1, FS_SUBSET
<1>3. 2 ^ m \in Nat
  BY <1>2, FS_CardinalityType
<1>4. r = s \cup {m + 1} /\ m + 1 \notin s
  OBVIOUS
<1> HIDE DEF s, r
<1>5. f \in Bijection(SUBSET s, high)
  <2>1. f \in [SUBSET s -> high]
    BY <1>4
  <2>2. ASSUME NEW x \in SUBSET s, NEW y \in SUBSET s, f[x] = f[y] PROVE x = y
    <3>1. x \cup {m + 1} = y \cup {m + 1}
      BY <2>2
    <3>2. m + 1 \notin x /\ m + 1 \notin y
      BY <1>4
    <3>3. \A z : z \in x <=> z \in y
      BY <3>1, <3>2
    <3> QED
      BY <3>3
  <2>3. ASSUME NEW y \in high PROVE \E x \in SUBSET s : f[x] = y
    <3> DEFINE x == y \ {m + 1}
    <3>1. x \in SUBSET s
      BY <1>4
    <3>2. f[x] = y
      BY <3>1
    <3> QED
      BY <3>1, <3>2
  <2> HIDE DEF f, high
  <2> QED
    BY <2>1, <2>2, <2>3 DEF Bijection, Injection, Surjection, IsInjective
<1>6. IsFiniteSet(high) /\ Cardinality(high) = 2 ^ m
  BY <1>2, <1>5, FS_Bijection DEF ExistsBijection
<1>7. SUBSET r = (SUBSET s) \cup high /\ (SUBSET s) \cap high = {}
  BY <1>4
<1>8. Cardinality(SUBSET r) = 2 ^ m + 2 ^ m
  <2> HIDE DEF high
  <2>1. Cardinality((SUBSET s) \cap high) = 0
    BY <1>7, FS_EmptySet
  <2>2. Cardinality((SUBSET s) \cup high)
           = Cardinality(SUBSET s) + Cardinality(high) - Cardinality((SUBSET s) \cap high)
    BY <1>2, <1>6, FS_Union
  <2> DEFINE twice == 2 ^ m
  <2>3. twice + twice - 0 = twice + twice
    <3>1. twice \in Nat
      BY <1>3
    <3> HIDE DEF twice
    <3> QED
      BY <3>1
  <2>4. Cardinality(SUBSET s) + Cardinality(high) - 0 = twice + twice
    BY <1>2, <1>6, <2>3
  <2> QED
    BY <1>7, <2>1, <2>2, <2>4
<1> QED
  BY <1>2, <1>3, <1>8
-----------------------------------------------------------------------------
(***************************************************************************)
(* The invariant.  Beside the blocks being disjoint it says in which order *)
(* the two functions lie on the stack, that halve_sort only gets blocks    *)
(* its networks are for, how large the block of each frame may be, and     *)
(* that every cut made so far is one.                                      *)
(***************************************************************************)
\* While quicksort runs, no frame of halve_sort is below it.
Phase == pc = "quicksort" => \A r \in 1 .. Len(frames) : frames[r].in = "quicksort"

SmallBlocks ==
    /\ pc # "quicksort" => hi - lo <= HalveCutoff
    /\ \A r \in 1 .. Len(frames) :
          frames[r].in = "halve_sort" => frames[r].last - frames[r].first <= HalveCutoff

\* The frames of quicksort below the r-th.
QuicksortBelow(fr, r) == {z \in 1 .. r - 1 : fr[z].in = "quicksort"}

Depth(fr, r) == Cardinality(QuicksortBelow(fr, r))

Shrinking ==
    /\ 2 ^ Depth(frames, Len(frames) + 1) * (hi - lo + 1) <= last - first + 1
    /\ \A r \in 1 .. Len(frames) :
          2 ^ Depth(frames, r) * (frames[r].last - frames[r].first + 1) <= last - first + 1

\* The places strictly inside no pending block, and what makes them cuts.
Cuts == {c \in first .. last : ~ \E b \in Pending : b.first < c /\ c < b.last}

IsCutOf(a, c) == \A p \in first .. c - 1 : \A q \in c .. last - 1 : Ordered(a[p], a[q])

CutsHold == \A c \in Cuts : IsCutOf(v, c)

IInv ==
    /\ TypeOK
    /\ Disjoint
    /\ Phase
    /\ SmallBlocks
    /\ Shrinking
    /\ CutsHold
-----------------------------------------------------------------------------
\* The state in plain numbers.
LEMMA Numbers ==
    ASSUME TypeOK
    PROVE  /\ N \in Nat /\ Keys \subseteq Int /\ HalveCutoff \in Nat
           /\ form \in {"forward", "reverse"}
           /\ v \in [Pos -> Keys]
           /\ {first, last, lo, hi} \subseteq Int
           /\ 0 <= first /\ first <= lo /\ lo <= hi /\ hi <= last /\ last <= N
           /\ \A p \in first .. last - 1 : p \in Pos /\ v[p] \in Int
<1>1. N \in Nat /\ Keys \subseteq Int /\ HalveCutoff \in Nat
  BY NAssumption, ParameterAssumption DEF LargestHalver
<1>2. form \in {"forward", "reverse"} /\ v \in [Pos -> Keys]
  BY ParameterAssumption DEF TypeOK
<1>3. /\ {first, last, lo, hi} \subseteq Int
      /\ 0 <= first /\ first <= lo /\ lo <= hi /\ hi <= last /\ last <= N
  BY <1>1 DEF TypeOK
<1>4. \A p \in first .. last - 1 : p \in Pos
  BY <1>1, <1>3 DEF Pos
<1> QED
  BY <1>1, <1>2, <1>3, <1>4

LEMMA FrameNumbers ==
    ASSUME TypeOK
    PROVE  /\ frames \in Seq(Block) /\ Len(frames) \in Nat /\ DOMAIN frames = 1 .. Len(frames)
           /\ frames = <<>> <=> Len(frames) = 0
           /\ \A r \in 1 .. Len(frames) :
                 /\ frames[r] \in Block
                 /\ frames[r].first \in Int /\ frames[r].last \in Int
                 /\ frames[r].in \in {"quicksort", "halve_sort"}
<1>1. frames \in Seq(Block)
  BY DEF TypeOK
<1>2. Len(frames) \in Nat /\ DOMAIN frames = 1 .. Len(frames) /\ (frames = <<>> <=> Len(frames) = 0)
  BY <1>1, LenProperties, EmptySeq
<1>3. \A r \in 1 .. Len(frames) : frames[r] \in Block
  BY <1>1, ElementOfSeq
<1>4. \A b \in Block : b.first \in Int /\ b.last \in Int /\ b.in \in {"quicksort", "halve_sort"}
  BY NAssumption DEF Block, Pos
<1> QED
  BY <1>1, <1>2, <1>3, <1>4

\* What the invariant says of any two pending blocks.
LEMMA FramesApart ==
    ASSUME TypeOK, Disjoint
    PROVE  /\ \A r \in 1 .. Len(frames) :
                 /\ first <= frames[r].first /\ frames[r].first <= frames[r].last
                 /\ frames[r].last <= last
                 /\ hi <= frames[r].first \/ frames[r].last <= lo
           /\ \A z, r \in 1 .. Len(frames) : z < r =>
                 /\ \/ frames[z].last <= frames[r].first
                    \/ frames[r].last <= frames[z].first
                 /\ frames[z].in = "halve_sort" => frames[r].in = "halve_sort"
BY FrameNumbers DEF Disjoint

\* The frames below the r-th are finitely many, and are those of the frames up to
\* there, whatever lies above.
LEMMA DepthFacts ==
    ASSUME NEW fr, NEW r \in Nat
    PROVE  IsFiniteSet(QuicksortBelow(fr, r)) /\ Depth(fr, r) \in Nat
<1>1. IsFiniteSet(1 .. r - 1) /\ QuicksortBelow(fr, r) \in SUBSET (1 .. r - 1)
  BY FS_Interval DEF QuicksortBelow
<1> QED
  BY <1>1, FS_Subset, FS_CardinalityType DEF Depth

LEMMA DepthSame ==
    ASSUME NEW fr, NEW gr, NEW r \in Nat, \A z \in 1 .. r - 1 : fr[z] = gr[z]
    PROVE  Depth(fr, r) = Depth(gr, r)
<1>1. QuicksortBelow(fr, r) = QuicksortBelow(gr, r)
  BY DEF QuicksortBelow
<1> QED
  BY <1>1 DEF Depth

LEMMA DepthNext ==
    ASSUME NEW fr, NEW r \in Nat \ {0}
    PROVE  Depth(fr, r + 1) = IF fr[r].in = "quicksort" THEN Depth(fr, r) + 1 ELSE Depth(fr, r)
<1> DEFINE s == QuicksortBelow(fr, r)
<1>1. IsFiniteSet(s) /\ Cardinality(s) \in Nat /\ r \notin s
  BY DepthFacts DEF QuicksortBelow, Depth
<1>2. QuicksortBelow(fr, r + 1) = IF fr[r].in = "quicksort" THEN s \cup {r} ELSE s
  BY DEF QuicksortBelow
<1>3. Cardinality(s \cup {r}) = Cardinality(s) + 1
  BY <1>1, FS_AddElement
<1> QED
  BY <1>2, <1>3 DEF Depth
-----------------------------------------------------------------------------
\* What Partition and HalveSort have in common: the block [lo, hi) is rearranged,
\* the function goes on with [a, b) of it and pushes a frame for [c, d), and every
\* place inside neither is a cut of the block.
Split(a, b, c, d) ==
    /\ {a, b, c, d} \subseteq lo .. hi
    /\ a <= b /\ c <= d
    /\ b <= c \/ d <= a
    /\ lo' = a /\ hi' = b
    /\ frames' = Append(frames, [first |-> c, last |-> d, in |-> pc])
    /\ pc \in {"quicksort", "halve_sort"}
    /\ pc = "quicksort" => 2 * (b - a + 1) <= hi - lo + 1
    /\ UNCHANGED <<args, pc>>
    /\ Shuffled(Keys, v, v', lo, hi)
    /\ \A e \in lo + 1 .. hi - 1 :
          /\ ~ (a < e /\ e < b)
          /\ ~ (c < e /\ e < d)
          => \A p \in lo .. e - 1 : \A q \in e .. hi - 1 : Ordered(v'[p], v'[q])

SplitFacts(a, b, c, d) ==
    /\ {a, b, c, d} \subseteq Int
    /\ lo <= a /\ a <= b /\ b <= hi /\ lo <= c /\ c <= d /\ d <= hi
    /\ lo' = a /\ hi' = b /\ first' = first /\ last' = last /\ form' = form /\ pc' = pc
    /\ Len(frames') = Len(frames) + 1
    /\ frames' \in Seq(Block)
    /\ frames'[Len(frames) + 1].first = c
    /\ frames'[Len(frames) + 1].last = d
    /\ frames'[Len(frames) + 1].in = pc
    /\ \A r \in 1 .. Len(frames) : frames'[r] = frames[r]
    /\ v' \in [Pos -> Keys]

LEMMA SplitNumbers ==
    ASSUME TypeOK, NEW a, NEW b, NEW c, NEW d, Split(a, b, c, d)
    PROVE  SplitFacts(a, b, c, d)
<1>1. /\ {a, b, c, d} \subseteq Int
      /\ lo <= a /\ a <= b /\ b <= hi /\ lo <= c /\ c <= d /\ d <= hi
  BY Numbers DEF Split
<1>2. /\ lo' = a /\ hi' = b /\ first' = first /\ last' = last /\ form' = form /\ pc' = pc
      /\ v' \in [Pos -> Keys]
      /\ frames' = Append(frames, [first |-> c, last |-> d, in |-> pc])
  BY DEF Split, args, Shuffled
<1>3. [first |-> c, last |-> d, in |-> pc] \in Block
  <2>1. c \in Pos \cup {N} /\ d \in Pos \cup {N}
    BY <1>1, Numbers DEF Pos
  <2> QED
    BY <2>1 DEF Block, Split
<1>4. frames \in Seq(Block) /\ Len(frames) \in Nat
  BY FrameNumbers
<1> HIDE DEF Block
<1>5. /\ Len(frames') = Len(frames) + 1
      /\ frames' \in Seq(Block)
      /\ frames'[Len(frames) + 1] = [first |-> c, last |-> d, in |-> pc]
      /\ \A r \in 1 .. Len(frames) : frames'[r] = frames[r]
  BY <1>2, <1>3, <1>4, AppendProperties
<1> QED
  BY <1>1, <1>2, <1>5 DEF SplitFacts
-----------------------------------------------------------------------------
LEMMA Monotone ==
    ASSUME NEW m \in Nat, NEW x \in Int, NEW y \in Int, x <= y
    PROVE  m * x <= m * y
<1>1. m * (y - x) >= 0
  <2>1. y - x \in Nat
    OBVIOUS
  <2>2. \A z \in Nat : m * z >= 0
    OBVIOUS
  <2> QED
    BY <2>1, <2>2
<1>2. m * (y - x) = m * y - m * x
  OBVIOUS
<1>3. m * x \in Int /\ m * y \in Int
  OBVIOUS
<1> QED
  BY <1>1, <1>2, <1>3

\* A split keeps every conjunct that speaks of the stack.
LEMMA SplitType ==
    ASSUME TypeOK, NEW a, NEW b, NEW c, NEW d, Split(a, b, c, d)
    PROVE  TypeOK'
<1>0. SplitFacts(a, b, c, d)
  BY SplitNumbers
<1>1. /\ form' \in Forms /\ first' \in 0 .. N /\ last' \in first' .. N
      /\ pc' \in {"quicksort", "halve_sort", "done"}
  BY DEF TypeOK, Split, args
<1>2. lo' \in first' .. last' /\ hi' \in lo' .. last'
  BY <1>0, Numbers DEF SplitFacts
<1>3. frames' \in Seq(Block) /\ v' \in [Pos -> Keys]
  BY <1>0 DEF SplitFacts
<1> QED
  BY <1>1, <1>2, <1>3 DEF TypeOK, Block, Pos

LEMMA SplitDisjoint ==
    ASSUME TypeOK, Disjoint, Phase, NEW a, NEW b, NEW c, NEW d, Split(a, b, c, d)
    PROVE  Disjoint'
<1>0. SplitFacts(a, b, c, d)
  BY SplitNumbers
<1> DEFINE m == Len(frames)
           fr == frames'
<1>1. /\ {a, b, c, d} \subseteq Int
      /\ lo <= a /\ a <= b /\ b <= hi /\ lo <= c /\ c <= d /\ d <= hi
      /\ lo' = a /\ hi' = b /\ first' = first /\ last' = last
      /\ fr[m + 1].first = c /\ fr[m + 1].last = d /\ fr[m + 1].in = pc
      /\ \A r \in 1 .. m : fr[r] = frames[r]
  BY <1>0 DEF SplitFacts
<1>2. m \in Nat /\ DOMAIN fr = 1 .. m + 1
  BY <1>0, FrameNumbers, LenProperties DEF SplitFacts
<1>3. b <= c \/ d <= a
  BY DEF Split
<1>4. /\ {first, last, lo, hi} \subseteq Int /\ first <= lo /\ hi <= last
      /\ pc = "quicksort" => \A r \in 1 .. m : frames[r].in = "quicksort"
      /\ pc \in {"quicksort", "halve_sort"}
      /\ \A r \in 1 .. m : frames[r].first \in Int /\ frames[r].last \in Int
  BY Numbers, FrameNumbers DEF Phase, Split
<1> HIDE DEF m, fr
<1>5. /\ \A r \in 1 .. m : /\ first <= frames[r].first /\ frames[r].first <= frames[r].last
                           /\ frames[r].last <= last
                           /\ hi <= frames[r].first \/ frames[r].last <= lo
      /\ \A z, r \in 1 .. m : z < r =>
            /\ frames[z].last <= frames[r].first \/ frames[r].last <= frames[z].first
            /\ frames[z].in = "halve_sort" => frames[r].in = "halve_sort"
  BY FramesApart DEF m
<1>6. ASSUME NEW r \in 1 .. m + 1
      PROVE  /\ first <= fr[r].first /\ fr[r].first <= fr[r].last /\ fr[r].last <= last
             /\ b <= fr[r].first \/ fr[r].last <= a
  <2>1. CASE r = m + 1
    BY <1>1, <1>3, <1>4, <2>1
  <2>2. CASE r # m + 1
    <3>1. r \in 1 .. m
      BY <1>2, <2>2
    <3> QED
      BY <1>1, <1>4, <1>5, <3>1
  <2> QED
    BY <2>1, <2>2
<1>7. ASSUME NEW z \in 1 .. m + 1, NEW r \in 1 .. m + 1, z < r
      PROVE  /\ fr[z].last <= fr[r].first \/ fr[r].last <= fr[z].first
             /\ fr[z].in = "halve_sort" => fr[r].in = "halve_sort"
  <2>0. z \in 1 .. m
    BY <1>2, <1>7
  <2>1. CASE r = m + 1
    BY <1>1, <1>4, <1>5, <2>0, <2>1
  <2>2. CASE r # m + 1
    <3>1. r \in 1 .. m
      BY <1>2, <2>2
    <3> QED
      BY <1>1, <1>5, <1>7, <2>0, <3>1
  <2> QED
    BY <2>1, <2>2
<1> QED
  BY <1>1, <1>2, <1>6, <1>7 DEF Disjoint, fr

LEMMA SplitPhase ==
    ASSUME TypeOK, Phase, NEW a, NEW b, NEW c, NEW d, Split(a, b, c, d)
    PROVE  Phase'
<1>0. SplitFacts(a, b, c, d)
  BY SplitNumbers
<1> SUFFICES ASSUME pc = "quicksort", NEW r \in 1 .. Len(frames) + 1
             PROVE  frames'[r].in = "quicksort"
  BY <1>0 DEF SplitFacts, Phase
<1>1. CASE r = Len(frames) + 1
  BY <1>1, <1>0 DEF SplitFacts
<1>2. CASE r # Len(frames) + 1
  <2>1. r \in 1 .. Len(frames)
    BY <1>2, FrameNumbers
  <2> QED
    BY <2>1, <1>0 DEF SplitFacts, Phase
<1> QED
  BY <1>1, <1>2

LEMMA SplitSmall ==
    ASSUME TypeOK, SmallBlocks, NEW a, NEW b, NEW c, NEW d, Split(a, b, c, d)
    PROVE  SmallBlocks'
<1>0. SplitFacts(a, b, c, d)
  BY SplitNumbers
<1>1. /\ {a, b, c, d, lo, hi} \subseteq Int /\ HalveCutoff \in Nat /\ Len(frames) \in Nat
      /\ lo <= a /\ a <= b /\ b <= hi /\ lo <= c /\ c <= d /\ d <= hi
  BY <1>0, Numbers, FrameNumbers DEF SplitFacts
<1>2. pc # "quicksort" => hi' - lo' <= HalveCutoff /\ d - c <= HalveCutoff
  BY <1>1, <1>0 DEF SplitFacts, SmallBlocks
<1>3. ASSUME NEW r \in 1 .. Len(frames) + 1, frames'[r].in = "halve_sort"
      PROVE  frames'[r].last - frames'[r].first <= HalveCutoff
  <2>1. CASE r = Len(frames) + 1
    BY <1>2, <1>3, <2>1, <1>0 DEF SplitFacts
  <2>2. CASE r # Len(frames) + 1
    <3>1. r \in 1 .. Len(frames)
      BY <1>1, <2>2
    <3> QED
      BY <1>3, <3>1, <1>0 DEF SplitFacts, SmallBlocks
  <2> QED
    BY <2>1, <2>2
<1> QED
  BY <1>2, <1>3, <1>0 DEF SplitFacts, SmallBlocks

LEMMA SplitShrinks ==
    ASSUME TypeOK, Shrinking, NEW a, NEW b, NEW c, NEW d, Split(a, b, c, d)
    PROVE  Shrinking'
<1>0. SplitFacts(a, b, c, d)
  BY SplitNumbers
<1> DEFINE m == Len(frames)
           y == 2 ^ Depth(frames, m + 1)
           size == hi - lo + 1
           total == last - first + 1
<1>1. /\ {a, b, c, d, lo, hi} \subseteq Int /\ m \in Nat
      /\ lo <= a /\ a <= b /\ b <= hi /\ lo <= c /\ c <= d /\ d <= hi
      /\ Len(frames') = m + 1 /\ total' = total
      /\ pc = "quicksort" => 2 * (b - a + 1) <= size
  BY <1>0, Numbers, FrameNumbers DEF SplitFacts, Split
<1>2. /\ \A r \in 1 .. m + 1 : Depth(frames', r) = Depth(frames, r)
      /\ Depth(frames, m + 1) \in Nat
  <2>1. \A z \in 1 .. m : frames'[z] = frames[z]
    BY <1>0 DEF SplitFacts
  <2>2. ASSUME NEW r \in 1 .. m + 1 PROVE Depth(frames', r) = Depth(frames, r)
    <3>1. r \in Nat /\ \A z \in 1 .. r - 1 : frames'[z] = frames[z]
      BY <1>1, <2>1
    <3> QED
      BY <3>1, DepthSame
  <2> QED
    BY <1>1, <2>2, DepthFacts
<1>3. y \in Nat /\ 2 ^ (Depth(frames, m + 1) + 1) = 2 * y
  BY <1>2, TwoToNext
<1>4. y * size <= total /\ size \in Int /\ total \in Int
  BY Numbers DEF Shrinking
<1>5. 2 ^ Depth(frames', m + 2) * (b - a + 1) <= total
  <2>1. frames'[m + 1].in = pc /\ pc \in {"quicksort", "halve_sort"}
    BY <1>0 DEF SplitFacts, Split
  <2>2. m + 1 \in Nat \ {0} /\ (m + 1) + 1 = m + 2
    BY <1>1
  <2>3. Depth(frames', m + 2) = IF pc = "quicksort" THEN Depth(frames', m + 1) + 1
                                                    ELSE Depth(frames', m + 1)
    BY <2>1, <2>2, DepthNext
  <2>4. Depth(frames', m + 1) = Depth(frames, m + 1)
    BY <1>1, <1>2
  <2> DEFINE x == b - a + 1
  <2>5. x \in Int /\ x <= size /\ (pc = "quicksort" => 2 * x <= size)
    BY <1>1
  <2> HIDE DEF y, size, total, x
  <2>6. y * x <= y * size /\ y * x \in Int /\ y * size \in Int
    BY <1>3, <1>4, <2>5, Monotone
  <2>7. CASE pc = "quicksort"
    <3>1. y * (2 * x) <= y * size
      <4>1. 2 * x \in Int
        BY <2>5
      <4> QED
        BY <1>3, <1>4, <2>5, <2>7, <4>1, Monotone
    <3>2. (2 * y) * x = y * (2 * x) /\ (2 * y) * x \in Int
      BY <1>3, <2>5
    <3>3. 2 ^ Depth(frames', m + 2) = 2 * y
      BY <1>3, <2>3, <2>4, <2>7 DEF y
    <3>4. (2 * y) * x <= total
      BY <1>4, <2>6, <3>1, <3>2
    <3> QED
      BY <3>3, <3>4 DEF x
  <2>8. CASE pc # "quicksort"
    <3>1. y * x <= total
      BY <1>4, <2>6
    <3>2. 2 ^ Depth(frames', m + 2) = y
      BY <2>3, <2>4, <2>8 DEF y
    <3> QED
      BY <3>1, <3>2 DEF x
  <2> QED
    BY <2>7, <2>8
<1>6. ASSUME NEW r \in 1 .. m + 1
      PROVE  2 ^ Depth(frames', r) * (frames'[r].last - frames'[r].first + 1) <= total
  <2>1. CASE r = m + 1
    <3> DEFINE x == d - c + 1
    <3>1. x \in Int /\ x <= size
      BY <1>1
    <3>2. frames'[r].last - frames'[r].first + 1 = x
      BY <2>1, <1>0 DEF SplitFacts
    <3>3. 2 ^ Depth(frames', r) = y
      BY <1>2, <2>1
    <3> HIDE DEF y, size, total, x
    <3>4. y * x <= y * size /\ y * x \in Int /\ y * size \in Int
      BY <1>3, <1>4, <3>1, Monotone
    <3>5. y * x <= total
      BY <1>4, <3>4
    <3> QED
      BY <3>2, <3>3, <3>5
  <2>2. CASE r # m + 1
    <3>1. r \in 1 .. m
      BY <1>1, <2>2
    <3>2. frames'[r] = frames[r] /\ Depth(frames', r) = Depth(frames, r)
      BY <1>2, <3>1, <1>0 DEF SplitFacts
    <3> QED
      BY <3>1, <3>2 DEF Shrinking
  <2> QED
    BY <2>1, <2>2
<1>7. (m + 1) + 1 = m + 2 /\ hi' = b /\ lo' = a /\ first' = first /\ last' = last
  BY <1>1, <1>0 DEF SplitFacts
<1> HIDE DEF m
<1> QED
  BY <1>1, <1>5, <1>6, <1>7 DEF Shrinking
-----------------------------------------------------------------------------
\* A place is a cut of the state if it is strictly inside no pending block.
Outside(c, f, l) == ~ (f < c /\ c < l)

LEMMA InsidePending ==
    ASSUME NEW fr, NEW l, NEW h, NEW c
    PROVE  (\E b \in {[first |-> l, last |-> h]} \cup
                     {[first |-> fr[r].first, last |-> fr[r].last] : r \in DOMAIN fr} :
                b.first < c /\ c < b.last)
           <=> ~ (/\ Outside(c, l, h)
                  /\ \A r \in DOMAIN fr : Outside(c, fr[r].first, fr[r].last))
<1> DEFINE blocks == {[first |-> fr[r].first, last |-> fr[r].last] : r \in DOMAIN fr}
           inside(b) == b.first < c /\ c < b.last
<1>1. inside([first |-> l, last |-> h]) <=> ~ Outside(c, l, h)
  BY DEF Outside
<1>2. (\E b \in blocks : inside(b))
          <=> \E r \in DOMAIN fr : inside([first |-> fr[r].first, last |-> fr[r].last])
  BY Zenon
<1>3. \A r \in DOMAIN fr : inside([first |-> fr[r].first, last |-> fr[r].last])
                                <=> ~ Outside(c, fr[r].first, fr[r].last)
  BY DEF Outside
<1> HIDE DEF inside
<1>4. (\E b \in {[first |-> l, last |-> h]} \cup blocks : inside(b))
          <=> inside([first |-> l, last |-> h]) \/ \E b \in blocks : inside(b)
  BY Zenon
<1>5. (\E b \in {[first |-> l, last |-> h]} \cup blocks : inside(b))
          <=> ~ (/\ Outside(c, l, h)
                 /\ \A r \in DOMAIN fr : Outside(c, fr[r].first, fr[r].last))
  BY <1>1, <1>2, <1>3, <1>4
<1> QED
  BY <1>5 DEF inside

LEMMA CutsAre ==
    ASSUME TypeOK
    PROVE  \A c : c \in Cuts <=> /\ c \in first .. last
                                 /\ Outside(c, lo, hi)
                                 /\ \A r \in 1 .. Len(frames) :
                                       Outside(c, frames[r].first, frames[r].last)
<1>1. DOMAIN frames = 1 .. Len(frames)
  BY FrameNumbers
<1>2. \A c : (\E b \in Pending : b.first < c /\ c < b.last)
             <=> ~ (/\ Outside(c, lo, hi)
                    /\ \A r \in DOMAIN frames : Outside(c, frames[r].first, frames[r].last))
  BY InsidePending DEF Pending
<1> QED
  BY <1>1, <1>2 DEF Cuts

\* Rearranging a block does not undo a cut outside it.
LEMMA CutStays ==
    ASSUME TypeOK, NEW w, Shuffled(Keys, v, w, lo, hi),
           NEW c \in first .. last, c <= lo \/ hi <= c, IsCutOf(v, c)
    PROVE  IsCutOf(w, c)
<1>1. /\ {first, last, lo, hi, c} \subseteq Int /\ N \in Nat
      /\ 0 <= first /\ first <= lo /\ lo <= hi /\ hi <= last /\ last <= N
      /\ \A p \in first .. last - 1 : p \in Pos
      /\ hi \in 0 .. N
  BY Numbers
<1>2. \A p \in lo .. hi - 1 : \E q \in lo .. hi - 1 : v[q] = w[p]
  <2>1. lo \in Int /\ hi \in 0 .. N /\ 0 <= lo
    BY <1>1
  <2> QED
    BY ONLY <2>1, ShuffledFrom, Shuffled(Keys, v, w, lo, hi)
<1>3. \A p \in Pos : p \notin lo .. hi - 1 => w[p] = v[p]
  BY DEF Shuffled, SameOutside
<1>4. ASSUME NEW p \in first .. last - 1
      PROVE  \E q \in first .. last - 1 : v[q] = w[p] /\ (q < c <=> p < c)
  <2>1. CASE p \in lo .. hi - 1
    <3>1. PICK q \in lo .. hi - 1 : v[q] = w[p]
      BY <1>2, <2>1
    <3>2. q \in first .. last - 1 /\ (q < c <=> p < c)
      BY <1>1, <2>1
    <3> QED
      BY <3>1, <3>2
  <2>2. CASE p \notin lo .. hi - 1
    BY <1>1, <1>3, <2>2
  <2> QED
    BY <2>1, <2>2
<1>5. ASSUME NEW p \in first .. c - 1, NEW q \in c .. last - 1
      PROVE  Ordered(w[p], w[q])
  <2>1. p \in first .. last - 1 /\ p < c /\ q \in first .. last - 1 /\ ~ (q < c)
    BY <1>1
  <2>2. PICK x \in first .. last - 1 : v[x] = w[p] /\ x < c
    BY <1>4, <2>1
  <2>3. PICK y \in first .. last - 1 : v[y] = w[q] /\ ~ (y < c)
    BY <1>4, <2>1
  <2>4. x \in first .. c - 1 /\ y \in c .. last - 1
    BY <1>1, <2>2, <2>3
  <2> QED
    BY <2>2, <2>3, <2>4 DEF IsCutOf
<1> QED
  BY <1>5 DEF IsCutOf

\* The two ends of the block at hand are cuts.
LEMMA EndsAreCuts ==
    ASSUME TypeOK, Disjoint
    PROVE  lo \in Cuts /\ hi \in Cuts
<1>1. /\ {first, last, lo, hi} \subseteq Int /\ first <= lo /\ lo <= hi /\ hi <= last
      /\ \A r \in 1 .. Len(frames) : /\ frames[r].first \in Int /\ frames[r].last \in Int
                                     /\ hi <= frames[r].first \/ frames[r].last <= lo
  BY Numbers, FrameNumbers, FramesApart
<1>2. ASSUME NEW c \in {lo, hi} PROVE c \in Cuts
  <2>1. c \in first .. last /\ Outside(c, lo, hi)
    BY <1>1 DEF Outside
  <2>2. \A r \in 1 .. Len(frames) : Outside(c, frames[r].first, frames[r].last)
    BY <1>1 DEF Outside
  <2> QED
    BY <2>1, <2>2, CutsAre
<1> QED
  BY <1>2

\* A split keeps all cuts and adds the ends of the two parts.
LEMMA SplitCuts ==
    ASSUME IInv, NEW a, NEW b, NEW c, NEW d, Split(a, b, c, d)
    PROVE  Cuts \subseteq Cuts' /\ CutsHold'
<1>0. SplitFacts(a, b, c, d) /\ TypeOK /\ Disjoint /\ CutsHold
  BY SplitNumbers DEF IInv
<1> DEFINE m == Len(frames)
           InCuts(e) == /\ e \in first .. last
                        /\ Outside(e, a, b)
                        /\ Outside(e, c, d)
                        /\ \A r \in 1 .. m : Outside(e, frames[r].first, frames[r].last)
<1>1. /\ {a, b, c, d, lo, hi, first, last} \subseteq Int /\ m \in Nat
      /\ lo <= a /\ a <= b /\ b <= hi /\ lo <= c /\ c <= d /\ d <= hi
      /\ first <= lo /\ lo <= hi /\ hi <= last
      /\ lo' = a /\ hi' = b /\ first' = first /\ last' = last
      /\ frames'[m + 1].first = c /\ frames'[m + 1].last = d
      /\ \A r \in 1 .. m : frames'[r] = frames[r]
      /\ form' = form
  BY <1>0, Numbers, FrameNumbers DEF SplitFacts
<1>2. DOMAIN frames' = 1 .. m + 1
  BY <1>0, LenProperties DEF SplitFacts
<1>3. \A e : e \in Cuts' <=> InCuts(e)
  <2>1. \A e : e \in Cuts' <=> /\ e \in first .. last
                               /\ Outside(e, a, b)
                               /\ \A r \in 1 .. m + 1 :
                                     Outside(e, frames'[r].first, frames'[r].last)
    <3>1. \A e : (\E x \in Pending' : x.first < e /\ e < x.last)
                 <=> ~ (/\ Outside(e, lo', hi')
                        /\ \A r \in DOMAIN frames' :
                              Outside(e, frames'[r].first, frames'[r].last))
      BY InsidePending DEF Pending
    <3> QED
      BY <1>1, <1>2, <3>1 DEF Cuts
  <2>2. \A e : (\A r \in 1 .. m + 1 : Outside(e, frames'[r].first, frames'[r].last))
               <=> /\ \A r \in 1 .. m : Outside(e, frames[r].first, frames[r].last)
                   /\ Outside(e, c, d)
    <3> SUFFICES ASSUME NEW e
                 PROVE  (\A r \in 1 .. m + 1 : Outside(e, frames'[r].first, frames'[r].last))
                        <=> /\ \A r \in 1 .. m : Outside(e, frames[r].first, frames[r].last)
                            /\ Outside(e, c, d)
      OBVIOUS
    <3>1. \A r \in 1 .. m + 1 : r \in 1 .. m \/ r = m + 1
      BY <1>1
    <3>2. m + 1 \in 1 .. m + 1 /\ \A r \in 1 .. m : r \in 1 .. m + 1
      BY <1>1
    <3> QED
      BY <1>1, <3>1, <3>2
  <2> QED
    BY <2>1, <2>2
<1> HIDE DEF m
<1>4. \A e : e \in Cuts <=> /\ e \in first .. last
                            /\ Outside(e, lo, hi)
                            /\ \A r \in 1 .. m : Outside(e, frames[r].first, frames[r].last)
  BY <1>0, CutsAre DEF m
<1>5. Cuts \subseteq Cuts'
  <2> SUFFICES ASSUME NEW e \in Cuts PROVE InCuts(e)
    BY <1>3
  <2>1. e \in Int /\ Outside(e, lo, hi)
    BY <1>1, <1>4
  <2>2. Outside(e, a, b) /\ Outside(e, c, d)
    BY <1>1, <2>1 DEF Outside
  <2> QED
    BY <1>4, <2>2
<1>6. Shuffled(Keys, v, v', lo, hi)
  BY DEF Split
<1>7. ASSUME NEW e \in Cuts PROVE IsCutOf(v', e)
  <2>1. e \in first .. last /\ (e <= lo \/ hi <= e) /\ IsCutOf(v, e)
    BY <1>0, <1>1, <1>4 DEF CutsHold, Outside
  <2> QED
    BY <1>0, <1>6, <2>1, CutStays
<1>8. ASSUME NEW e \in Cuts', e \notin Cuts PROVE IsCutOf(v', e)
  <2>1. InCuts(e) /\ e \in Int
    BY <1>1, <1>3
  <2>2. ~ Outside(e, lo, hi)
    BY <1>4, <1>8, <2>1
  <2>3. e \in lo + 1 .. hi - 1
    BY <1>1, <2>1, <2>2 DEF Outside
  <2>4. \A p \in lo .. e - 1 : \A q \in e .. hi - 1 : Ordered(v'[p], v'[q])
    BY <2>1, <2>3 DEF Split, Outside
  <2>5. IsCutOf(v', lo) /\ IsCutOf(v', hi)
    BY <1>0, <1>7, EndsAreCuts
  <2>6. ASSUME NEW p \in first .. e - 1, NEW q \in e .. last - 1
        PROVE  Ordered(v'[p], v'[q])
    <3>1. CASE p < lo
      <4>1. p \in first .. lo - 1 /\ q \in lo .. last - 1
        BY <1>1, <2>3, <3>1
      <4> QED
        BY <2>5, <4>1 DEF IsCutOf
    <3>2. CASE q >= hi
      <4>1. p \in first .. hi - 1 /\ q \in hi .. last - 1
        BY <1>1, <2>3, <3>2
      <4> QED
        BY <2>5, <4>1 DEF IsCutOf
    <3>3. CASE ~ (p < lo) /\ ~ (q >= hi)
      <4>1. p \in lo .. e - 1 /\ q \in e .. hi - 1
        BY <1>1, <2>3, <3>3
      <4> QED
        BY <2>4, <4>1
    <3> QED
      BY <3>1, <3>2, <3>3
  <2> QED
    BY <2>6 DEF IsCutOf
<1>9. \A e \in Cuts' : IsCutOf(v', e)
  BY <1>7, <1>8
<1>10. \A e \in Cuts' : \A p \in first' .. e - 1 : \A q \in e .. last' - 1 :
          (Ordered(v[p], v[q]))'
  BY <1>1, <1>9 DEF IsCutOf, Ordered
<1> QED
  BY <1>5, <1>10 DEF CutsHold, IsCutOf
-----------------------------------------------------------------------------
\* The two ways of saying that a range is rearranged.
LEMMA RearrangedIsShuffled ==
    ASSUME NEW a, NEW b \in [Pos -> Keys], NEW l, NEW h, Rearranged(b, a, l, h)
    PROVE  Shuffled(Keys, a, b, l, h)
<1>1. KeyCounts(b, Keys, l, h) = KeyCounts(a, Keys, l, h)
  BY DEF Rearranged, SameKeys
<1>2. ASSUME NEW c, NEW x \in Keys
      PROVE  KeyCounts(c, Keys, l, h)[x] = Cardinality(Occurrences(c, x, l, h))
  BY DEF KeyCounts, Occurrences
<1>3. SameCounts(Keys, a, b, l, h)
  BY <1>1, <1>2 DEF SameCounts
<1> QED
  BY <1>3 DEF Rearranged, Shuffled

\* What the sorts rely on of a partition around the key at lo, where pp is the
\* cell before the boundary.
LEMMA SizedCallFacts ==
    ASSUME NEW a, NEW o, SizedCall(o, a)
    PROVE  /\ o.array \in [Pos -> Keys]
           /\ Shuffled(Keys, a, o.array, lo + 1, hi)
           /\ o.boundary \in lo + 1 .. hi
           /\ \A p \in lo + 1 .. o.boundary - 1 : o.array[p] \in KeysLeft(a[lo])
           /\ \A p \in o.boundary .. hi - 1 : o.array[p] \notin KeysLeft(a[lo])
BY RearrangedIsShuffled DEF SizedCall, IsOutcome, Partitioned, AllIn, NoneIn

\* One turn of the loop splits the block at the final cell of the pivot.
LEMMA PartitionSplits ==
    ASSUME IInv, Partition
    PROVE  \E a, b, c, d : Split(a, b, c, d)
<1>1. PICK m \in lo .. hi - 1 : LET a == Swap(v, lo, m) IN
          \E o \in PartitionOutcomes(a, KeysLeft(a[lo]), lo + 1, hi) :
             LET pp == o.boundary - 1
             IN  v' = Swap(o.array, lo, pp) /\ Descend(pp) /\ SizedCall(o, a)
  BY DEF Partition
<1> DEFINE a == Swap(v, lo, m)
<1>2. PICK o : /\ v' = Swap(o.array, lo, o.boundary - 1)
               /\ Descend(o.boundary - 1)
               /\ SizedCall(o, a)
  BY <1>1
<1> DEFINE pp == o.boundary - 1
           w == o.array
<1>3. /\ w \in [Pos -> Keys] /\ Shuffled(Keys, a, w, lo + 1, hi)
      /\ o.boundary \in lo + 1 .. hi
      /\ \A p \in lo + 1 .. o.boundary - 1 : w[p] \in KeysLeft(a[lo])
      /\ \A p \in o.boundary .. hi - 1 : w[p] \notin KeysLeft(a[lo])
  BY <1>2, SizedCallFacts
<1>4. v' = Swap(w, lo, pp) /\ Descend(pp)
  BY <1>2
<1>5. /\ lo \in Int /\ hi \in Int /\ N \in Nat /\ 0 <= lo /\ hi \in 0 .. N /\ lo \in 0 .. N
      /\ v \in [Pos -> Keys] /\ Keys \subseteq Int /\ form \in {"forward", "reverse"}
      /\ \A p \in lo .. hi - 1 : p \in Pos
  BY Numbers DEF IInv
<1> HIDE DEF w
<1>6. /\ pp \in lo .. hi - 1 /\ lo \in lo .. hi - 1 /\ lo \in Pos /\ pp \in Pos /\ m \in Pos
      /\ \A p \in lo + 1 .. pp : w[p] \in KeysLeft(a[lo])
      /\ \A p \in pp + 1 .. hi - 1 : w[p] \notin KeysLeft(a[lo])
  BY <1>3, <1>5
<1> HIDE DEF pp
<1>7. a \in [Pos -> Keys] /\ Shuffled(Keys, v, a, lo, hi)
  <2>1. Shuffled(Keys, v, a, lo, hi)
    BY <1>5, <1>6, SwapShuffles
  <2> QED
    BY <2>1 DEF Shuffled
<1> HIDE DEF a
<1>8. Shuffled(Keys, a, w, lo, hi)
  BY <1>3, <1>5, <1>7, ShuffledWider
<1>9. Shuffled(Keys, w, v', lo, hi)
  BY <1>3, <1>4, <1>5, <1>6, SwapShuffles
<1>10. Shuffled(Keys, v, v', lo, hi)
  BY <1>7, <1>8, <1>9, ShuffledTwice
<1>11. w[lo] = a[lo]
  BY <1>3, <1>5, <1>6 DEF Shuffled, SameOutside
<1>12. /\ v'[pp] = a[lo] /\ v'[lo] = w[pp]
       /\ \A p \in Pos : p # lo /\ p # pp => v'[p] = w[p]
  BY <1>3, <1>4, <1>5, <1>6, <1>11 DEF Swap
<1>13. a[lo] \in Int /\ \A p \in lo .. hi - 1 : w[p] \in Keys /\ w[p] \in Int
  BY <1>3, <1>5, <1>6, <1>7
<1> DEFINE x == a[lo]
<1>14. ASSUME NEW p \in lo .. pp PROVE Ordered(v'[p], x) /\ v'[p] \in Int
  <2>1. CASE p = pp
    BY <1>5, <1>12, <1>13, <2>1 DEF Ordered
  <2>2. CASE p = lo /\ p # pp
    <3>1. pp \in lo + 1 .. pp
      BY <1>5, <1>6, <2>2
    <3> QED
      BY <1>5, <1>6, <1>12, <1>13, <2>2, <3>1 DEF KeysLeft, Ordered
  <2>3. CASE p # lo /\ p # pp
    <3>1. p \in lo + 1 .. pp /\ p \in Pos /\ p \in lo .. hi - 1
      BY <1>5, <1>6, <2>3
    <3> QED
      BY <1>5, <1>6, <1>12, <1>13, <2>3, <3>1 DEF KeysLeft, Ordered
  <2> QED
    BY <2>1, <2>2, <2>3
<1>15. ASSUME NEW q \in pp .. hi - 1 PROVE Ordered(x, v'[q]) /\ v'[q] \in Int
  <2>1. CASE q = pp
    BY <1>5, <1>12, <1>13, <2>1 DEF Ordered
  <2>2. CASE q # pp
    <3>1. q \in pp + 1 .. hi - 1 /\ q # lo /\ q \in Pos /\ q \in lo .. hi - 1
      BY <1>5, <1>6, <2>2
    <3>2. v'[q] = w[q] /\ w[q] \notin KeysLeft(a[lo]) /\ w[q] \in Keys /\ w[q] \in Int
      BY <1>6, <1>12, <1>13, <2>2, <3>1
    <3> QED
      BY <1>5, <1>13, <3>2 DEF KeysLeft, Ordered
  <2> QED
    BY <2>1, <2>2
<1>16. ASSUME NEW e \in {pp, pp + 1}, NEW p \in lo .. e - 1, NEW q \in e .. hi - 1
       PROVE  Ordered(v'[p], v'[q])
  <2>1. p \in lo .. pp /\ q \in pp .. hi - 1
    BY <1>5, <1>6
  <2> QED
    BY <1>13, <1>14, <1>15, <2>1 DEF Ordered
<1>17. pc = "quicksort" /\ UNCHANGED <<args, pc>>
  BY DEF Partition
<1>18. CASE pp - lo < hi - (pp + 1)
  <2>1. /\ frames' = Append(frames, [first |-> pp + 1, last |-> hi, in |-> "quicksort"])
        /\ hi' = pp /\ lo' = lo
    BY <1>4, <1>5, <1>6, <1>18 DEF Descend
  <2>2. /\ {lo, pp, pp + 1, hi} \subseteq lo .. hi /\ lo <= pp /\ pp + 1 <= hi /\ pp <= pp + 1
        /\ 2 * (pp - lo + 1) <= hi - lo + 1
    BY <1>5, <1>6, <1>18
  <2>3. \A e \in lo + 1 .. hi - 1 : ~ (lo < e /\ e < pp) /\ ~ (pp + 1 < e /\ e < hi)
                                      => e \in {pp, pp + 1}
    BY <1>5, <1>6
  <2>4. Split(lo, pp, pp + 1, hi)
    BY <1>10, <1>16, <1>17, <2>1, <2>2, <2>3 DEF Split
  <2> QED
    BY <2>4
<1>19. CASE ~ (pp - lo < hi - (pp + 1))
  <2>1. /\ frames' = Append(frames, [first |-> lo, last |-> pp, in |-> "quicksort"])
        /\ lo' = pp + 1 /\ hi' = hi
    BY <1>4, <1>5, <1>6, <1>19 DEF Descend
  <2>2. /\ {lo, pp, pp + 1, hi} \subseteq lo .. hi /\ lo <= pp /\ pp + 1 <= hi /\ pp <= pp + 1
        /\ 2 * (hi - (pp + 1) + 1) <= hi - lo + 1
    BY <1>5, <1>6, <1>19
  <2>3. \A e \in lo + 1 .. hi - 1 : ~ (pp + 1 < e /\ e < hi) /\ ~ (lo < e /\ e < pp)
                                      => e \in {pp, pp + 1}
    BY <1>5, <1>6
  <2>4. Split(pp + 1, hi, lo, pp)
    BY <1>10, <1>16, <1>17, <2>1, <2>2, <2>3 DEF Split
  <2> QED
    BY <2>4
<1> QED
  BY <1>18, <1>19

\* halve_sort splits its block in the middle.
LEMMA HalveSortSplits ==
    ASSUME IInv, HalveSort
    PROVE  \E a, b, c, d : Split(a, b, c, d)
<1> DEFINE mid == Half(lo, hi)
<1>1. /\ lo \in Nat /\ hi \in Nat /\ hi <= N /\ lo \in Int /\ hi \in Int
      /\ v \in [Pos -> Keys] /\ Keys \subseteq Int /\ form \in {"forward", "reverse"}
  BY Numbers DEF IInv
<1>2. /\ pc = "halve_sort" /\ UNCHANGED <<args, pc>> /\ v' = Halve(form, v, lo, hi)
      /\ frames' = Append(frames, [first |-> mid, last |-> hi, in |-> "halve_sort"])
      /\ lo' = lo /\ hi' = mid
  BY DEF HalveSort, args
<1>3. hi - lo \in 2 .. HalveCutoff
  <2>1. hi - lo > 1 /\ hi - lo <= HalveCutoff
    BY DEF HalveSort, IInv, SmallBlocks
  <2> QED
    BY <1>1, <2>1, ParameterAssumption
<1>4. mid \in lo .. hi
  <2> DEFINE m == hi - lo
  <2>1. m \in Nat
    BY <1>1, <1>3
  <2>2. mid = lo + m \div 2
    BY DEF Half
  <2> HIDE DEF m, mid
  <2>3. m % 2 \in 0 .. 2 - 1 /\ m \div 2 \in Nat /\ m = 2 * (m \div 2) + (m % 2)
    BY <2>1, DivisionFacts
  <2>4. m \div 2 \in 0 .. m
    BY <2>1, <2>3
  <2> QED
    BY <1>1, <2>2, <2>4 DEF m
<1>5. /\ Shuffled(Keys, v, v', lo, hi)
      /\ \A p \in lo .. mid - 1 : \A q \in mid .. hi - 1 : Ordered(v'[p], v'[q])
  BY <1>1, <1>2, <1>3, HalverHalves
<1> HIDE DEF mid
<1>6. \A e \in lo + 1 .. hi - 1 : ~ (lo < e /\ e < mid) /\ ~ (mid < e /\ e < hi) => e = mid
  BY <1>1, <1>4
<1>7. {lo, mid, hi} \subseteq lo .. hi /\ lo <= mid /\ mid <= hi /\ mid <= mid
  BY <1>1, <1>4
<1>8. Split(lo, mid, mid, hi)
  BY <1>2, <1>5, <1>6, <1>7 DEF Split
<1> QED
  BY <1>8
-----------------------------------------------------------------------------
\* Returning takes the last frame off and goes on with its block.
ReturnFacts ==
    /\ Len(frames) \in Nat \ {0}
    /\ Len(frames') = Len(frames) - 1
    /\ frames' \in Seq(Block)
    /\ \A r \in 1 .. Len(frames) - 1 : frames'[r] = frames[r]
    /\ lo' = frames[Len(frames)].first /\ hi' = frames[Len(frames)].last
    /\ pc' = frames[Len(frames)].in
    /\ form' = form /\ first' = first /\ last' = last /\ v' = v
    /\ pc = "halve_sort" /\ hi - lo <= 1

LEMMA ReturnNumbers ==
    ASSUME TypeOK, Return
    PROVE  ReturnFacts
<1> DEFINE m == Len(frames)
<1>1. /\ frames # <<>> /\ frames' = SubSeq(frames, 1, m - 1)
      /\ lo' = frames[m].first /\ hi' = frames[m].last /\ pc' = frames[m].in
      /\ form' = form /\ first' = first /\ last' = last /\ v' = v
      /\ pc = "halve_sort" /\ hi - lo <= 1
  BY DEF Return, args
<1>2. m \in Nat \ {0} /\ \A r \in 1 .. m : frames[r] \in Block
  BY <1>1, FrameNumbers
<1> HIDE DEF m, Block
<1>3. /\ frames' \in Seq(Block)
      /\ Len(frames') = IF 1 <= m - 1 THEN (m - 1) - 1 + 1 ELSE 0
      /\ \A r \in 1 .. (m - 1) - 1 + 1 : frames'[r] = frames[1 + r - 1]
  <2>1. 1 \in Int /\ m - 1 \in Int /\ \A r \in 1 .. m - 1 : frames[r] \in Block
    BY <1>2
  <2> QED
    BY <1>1, <2>1, SubSeqProperties
<1>4. Len(frames') = m - 1 /\ \A r \in 1 .. m - 1 : frames'[r] = frames[r]
  <2>1. (m - 1) - 1 + 1 = m - 1 /\ \A r \in 1 .. m - 1 : 1 + r - 1 = r
    BY <1>2
  <2>2. Len(frames') = m - 1
    BY <1>2, <1>3
  <2>3. ASSUME NEW r \in 1 .. m - 1 PROVE frames'[r] = frames[r]
    BY <1>3, <2>1
  <2> QED
    BY <2>2, <2>3
<1> QED
  BY <1>1, <1>2, <1>3, <1>4 DEF ReturnFacts, m

LEMMA ReturnType ==
    ASSUME TypeOK, Disjoint, Return
    PROVE  TypeOK'
<1>0. ReturnFacts
  BY ReturnNumbers
<1>1. Len(frames) \in 1 .. Len(frames) /\ {first, last} \subseteq Int
  BY <1>0, Numbers DEF ReturnFacts
<1>2. /\ lo' \in Int /\ hi' \in Int /\ first <= lo' /\ lo' <= hi' /\ hi' <= last
      /\ pc' \in {"quicksort", "halve_sort"}
  BY <1>0, <1>1, FrameNumbers, FramesApart DEF ReturnFacts
<1>3. lo' \in first' .. last' /\ hi' \in lo' .. last'
  BY <1>0, <1>1, <1>2 DEF ReturnFacts
<1>4. /\ form' \in Forms /\ v' \in [Pos -> Keys] /\ first' \in 0 .. N /\ last' \in first' .. N
      /\ frames' \in Seq(Block)
  BY <1>0 DEF ReturnFacts, TypeOK
<1> QED
  BY <1>2, <1>3, <1>4 DEF TypeOK, Block, Pos

LEMMA ReturnDisjoint ==
    ASSUME TypeOK, Disjoint, Return
    PROVE  Disjoint'
<1>0. ReturnFacts
  BY ReturnNumbers
<1> DEFINE m == Len(frames)
<1>1. DOMAIN frames' = 1 .. m - 1 /\ m \in Nat \ {0}
  BY <1>0, LenProperties DEF ReturnFacts
<1>2. /\ \A r \in 1 .. m - 1 : frames'[r] = frames[r]
      /\ lo' = frames[m].first /\ hi' = frames[m].last /\ first' = first /\ last' = last
  BY <1>0 DEF ReturnFacts
<1>3. \A r \in 1 .. m - 1 : r \in 1 .. m /\ m \in 1 .. m /\ r < m
  BY <1>1
<1> HIDE DEF m
<1>4. ASSUME NEW r \in 1 .. m - 1
      PROVE  /\ first' <= frames'[r].first /\ frames'[r].first <= frames'[r].last
             /\ frames'[r].last <= last'
             /\ hi' <= frames'[r].first \/ frames'[r].last <= lo'
  BY <1>2, <1>3, FramesApart DEF m
<1>5. ASSUME NEW z \in 1 .. m - 1, NEW r \in 1 .. m - 1, z < r
      PROVE  /\ frames'[z].last <= frames'[r].first \/ frames'[r].last <= frames'[z].first
             /\ frames'[z].in = "halve_sort" => frames'[r].in = "halve_sort"
  BY <1>2, <1>3, <1>5, FramesApart DEF m
<1> QED
  BY <1>1, <1>4, <1>5 DEF Disjoint

LEMMA ReturnPhase ==
    ASSUME TypeOK, Disjoint, Return
    PROVE  Phase'
<1>0. ReturnFacts
  BY ReturnNumbers
<1> SUFFICES ASSUME pc' = "quicksort", NEW r \in 1 .. Len(frames')
             PROVE  frames'[r].in = "quicksort"
  BY DEF Phase
<1>1. /\ r \in 1 .. Len(frames) - 1 /\ r \in 1 .. Len(frames) /\ r < Len(frames)
      /\ Len(frames) \in 1 .. Len(frames)
  BY <1>0 DEF ReturnFacts
<1>2. frames[Len(frames)].in # "halve_sort"
  BY <1>0 DEF ReturnFacts
<1>3. frames[r].in # "halve_sort"
  BY <1>1, <1>2, FramesApart
<1> QED
  BY <1>0, <1>1, <1>3, FrameNumbers DEF ReturnFacts

LEMMA ReturnSmall ==
    ASSUME TypeOK, SmallBlocks, Return
    PROVE  SmallBlocks'
<1>0. ReturnFacts
  BY ReturnNumbers
<1>1. Len(frames) \in 1 .. Len(frames) /\ \A r \in 1 .. Len(frames) - 1 : r \in 1 .. Len(frames)
  BY <1>0 DEF ReturnFacts
<1>2. pc' # "quicksort" => hi' - lo' <= HalveCutoff
  <2>1. frames[Len(frames)].in \in {"quicksort", "halve_sort"}
    BY <1>1, FrameNumbers
  <2> QED
    BY <1>0, <1>1, <2>1 DEF ReturnFacts, SmallBlocks
<1>3. ASSUME NEW r \in 1 .. Len(frames'), frames'[r].in = "halve_sort"
      PROVE  frames'[r].last - frames'[r].first <= HalveCutoff
  BY <1>0, <1>1, <1>3 DEF ReturnFacts, SmallBlocks
<1> QED
  BY <1>2, <1>3 DEF SmallBlocks

LEMMA ReturnShrinks ==
    ASSUME TypeOK, Shrinking, Return
    PROVE  Shrinking'
<1>0. ReturnFacts
  BY ReturnNumbers
<1> DEFINE m == Len(frames)
<1>1. m \in 1 .. m /\ m \in Nat /\ Len(frames') = m - 1 /\ (m - 1) + 1 = m
  BY <1>0 DEF ReturnFacts
<1>2. ASSUME NEW r \in 1 .. m PROVE Depth(frames', r) = Depth(frames, r)
  <2>1. r \in Nat /\ \A z \in 1 .. r - 1 : z \in 1 .. m - 1
    BY <1>1
  <2>2. \A z \in 1 .. r - 1 : frames'[z] = frames[z]
    BY <1>0, <2>1 DEF ReturnFacts
  <2> QED
    BY <2>1, <2>2, DepthSame
<1>3. /\ lo' = frames[m].first /\ hi' = frames[m].last /\ first' = first /\ last' = last
      /\ \A r \in 1 .. m - 1 : frames'[r] = frames[r] /\ r \in 1 .. m
  BY <1>0, <1>1 DEF ReturnFacts
<1> HIDE DEF m
<1>4. \A r \in 1 .. m :
         2 ^ Depth(frames', r) * (frames[r].last - frames[r].first + 1) <= last' - first' + 1
  BY <1>2, <1>3 DEF Shrinking, m
<1>5. 2 ^ Depth(frames', Len(frames') + 1) * (hi' - lo' + 1) <= last' - first' + 1
  BY <1>1, <1>3, <1>4
<1>6. ASSUME NEW r \in 1 .. Len(frames')
      PROVE  2 ^ Depth(frames', r) * (frames'[r].last - frames'[r].first + 1) <= last' - first' + 1
  BY <1>1, <1>3, <1>4
<1> QED
  BY <1>5, <1>6 DEF Shrinking

\* At most one element has no place strictly inside, so returning changes no cut.
LEMMA ReturnCuts ==
    ASSUME TypeOK, Return
    PROVE  Cuts' = Cuts
<1>0. ReturnFacts
  BY ReturnNumbers
<1> DEFINE m == Len(frames)
           free(e) == \A r \in 1 .. m : Outside(e, frames[r].first, frames[r].last)
<1>1. /\ m \in Nat \ {0} /\ DOMAIN frames' = 1 .. m - 1
      /\ \A r \in 1 .. m - 1 : frames'[r] = frames[r]
      /\ lo' = frames[m].first /\ hi' = frames[m].last /\ first' = first /\ last' = last
      /\ hi - lo <= 1
  BY <1>0, LenProperties DEF ReturnFacts
<1>2. \A e \in first .. last : Outside(e, lo, hi)
  BY <1>1, Numbers DEF Outside
<1>3. \A e : e \in Cuts <=> e \in first .. last /\ free(e)
  BY <1>2, CutsAre
<1>4. \A e : (\E x \in Pending' : x.first < e /\ e < x.last)
              <=> ~ (/\ Outside(e, lo', hi')
                     /\ \A r \in DOMAIN frames' :
                           Outside(e, frames'[r].first, frames'[r].last))
  BY InsidePending DEF Pending
<1>5. \A e : e \in Cuts' <=> /\ e \in first .. last
                             /\ Outside(e, frames[m].first, frames[m].last)
                             /\ \A r \in 1 .. m - 1 :
                                   Outside(e, frames[r].first, frames[r].last)
  BY <1>1, <1>4 DEF Cuts
<1>6. \A r : r \in 1 .. m <=> r = m \/ r \in 1 .. m - 1
  BY <1>1
<1> HIDE DEF m
<1>7. \A e : free(e) <=> /\ Outside(e, frames[m].first, frames[m].last)
                         /\ \A r \in 1 .. m - 1 :
                               Outside(e, frames[r].first, frames[r].last)
  BY <1>6
<1> HIDE DEF free
<1>8. \A e : e \in Cuts' <=> e \in Cuts
  BY <1>3, <1>5, <1>7
<1> QED
  BY <1>8 DEF Cuts

LEMMA ReturnIInv ==
    ASSUME IInv, Return
    PROVE  IInv'
<1>1. TypeOK' /\ Disjoint' /\ Phase' /\ SmallBlocks' /\ Shrinking'
  BY ReturnType, ReturnDisjoint, ReturnPhase, ReturnSmall, ReturnShrinks DEF IInv
<1>2. /\ Cuts' = Cuts /\ v' = v /\ first' = first /\ last' = last /\ form' = form
  BY ReturnCuts, ReturnNumbers DEF IInv, ReturnFacts
<1>3. CutsHold'
  BY <1>2 DEF IInv, CutsHold, IsCutOf, Ordered
<1> QED
  BY <1>1, <1>3 DEF IInv
LEMMA SplitIInv ==
    ASSUME IInv, NEW a, NEW b, NEW c, NEW d, Split(a, b, c, d)
    PROVE  IInv'
BY SplitType, SplitDisjoint, SplitPhase, SplitSmall, SplitShrinks, SplitCuts DEF IInv

\* Going over to halve_sort leaves every block and every cut.
LEMMA StartIInv ==
    ASSUME IInv, StartHalving
    PROVE  IInv' /\ Cuts' = Cuts
<1>1. /\ pc = "quicksort" /\ hi - lo <= HalveCutoff /\ pc' = "halve_sort"
      /\ form' = form /\ first' = first /\ last' = last
      /\ v' = v /\ lo' = lo /\ hi' = hi /\ frames' = frames
  BY DEF StartHalving, args
<1>2. TypeOK' /\ Disjoint'
  BY <1>1 DEF IInv, TypeOK, Disjoint, Block, Pos
<1>3. Phase' /\ SmallBlocks'
  BY <1>1 DEF IInv, Phase, SmallBlocks
<1>4. Shrinking'
  BY <1>1 DEF IInv, Shrinking, Depth, QuicksortBelow
<1>5. Cuts' = Cuts
  BY <1>1 DEF Cuts, Pending
<1>6. CutsHold'
  BY <1>1, <1>5 DEF IInv, CutsHold, IsCutOf, Ordered
<1> QED
  BY <1>2, <1>3, <1>4, <1>5, <1>6 DEF IInv

\* Finishing leaves every block and every cut, and every place is a cut.
LEMMA FinishIInv ==
    ASSUME IInv, Finish
    PROVE  IInv' /\ Cuts' = Cuts /\ Cuts = first .. last
<1>1. /\ pc = "halve_sort" /\ hi - lo <= 1 /\ frames = <<>> /\ pc' = "done"
      /\ form' = form /\ first' = first /\ last' = last
      /\ v' = v /\ lo' = lo /\ hi' = hi /\ frames' = frames
  BY DEF Finish, args
<1>2. TypeOK' /\ Disjoint'
  BY <1>1 DEF IInv, TypeOK, Disjoint, Block, Pos
<1>3. Phase' /\ SmallBlocks'
  BY <1>1 DEF IInv, Phase, SmallBlocks
<1>4. Shrinking'
  BY <1>1 DEF IInv, Shrinking, Depth, QuicksortBelow
<1>5. Cuts' = Cuts
  BY <1>1 DEF Cuts, Pending
<1>6. CutsHold'
  BY <1>1, <1>5 DEF IInv, CutsHold, IsCutOf, Ordered
<1>7. Cuts = first .. last
  <2>1. TypeOK /\ Len(frames) = 0
    BY <1>1, FrameNumbers DEF IInv
  <2>2. \A c \in first .. last : Outside(c, lo, hi)
    BY <1>1, <2>1, Numbers DEF Outside
  <2>3. \A r \in 1 .. Len(frames) : FALSE
    BY <2>1
  <2>4. \A c : c \in Cuts <=> c \in first .. last
    BY <2>1, <2>2, <2>3, CutsAre
  <2> QED
    BY <2>4 DEF Cuts
<1> QED
  BY <1>2, <1>3, <1>4, <1>5, <1>6, <1>7 DEF IInv

LEMMA InitIInv ==
    ASSUME Init
    PROVE  IInv
<1>1. /\ lo = first /\ hi = last /\ frames = <<>> /\ pc = "quicksort"
      /\ Len(frames) = 0 /\ DOMAIN frames = {}
  BY EmptySeq DEF Init
<1>2. TypeOK
  <2>1. frames \in Seq(Block)
    BY <1>1, EmptySeq
  <2> QED
    BY <2>1, NAssumption DEF Init, TypeOK
<1>3. Disjoint
  BY <1>1 DEF Disjoint
<1>4. Phase /\ SmallBlocks
  BY <1>1 DEF Phase, SmallBlocks
<1>5. Shrinking
  <2>1. QuicksortBelow(frames, Len(frames) + 1) = {}
    BY <1>1 DEF QuicksortBelow
  <2>2. Depth(frames, Len(frames) + 1) = 0
    BY <2>1, FS_EmptySet DEF Depth
  <2>3. hi - lo + 1 \in Int /\ hi - lo + 1 = last - first + 1
    BY <1>1, <1>2, Numbers
  <2>4. 2 ^ 0 = 1
    BY TwoToNext
  <2>5. 2 ^ Depth(frames, Len(frames) + 1) = 1
    BY <2>2, <2>4
  <2>6. 1 * (hi - lo + 1) <= last - first + 1
    BY <2>3
  <2>7. \A r \in 1 .. Len(frames) : FALSE
    BY <1>1
  <2> QED
    BY <2>5, <2>6, <2>7 DEF Shrinking
<1>6. CutsHold
  <2> SUFFICES ASSUME NEW c \in Cuts PROVE IsCutOf(v, c)
    BY DEF CutsHold
  <2>1. c \in first .. last /\ Outside(c, lo, hi)
    BY <1>2, CutsAre
  <2>2. {first, last} \subseteq Int
    BY <1>2, Numbers
  <2>3. first .. c - 1 = {} \/ c .. last - 1 = {}
    BY <1>1, <2>1, <2>2 DEF Outside
  <2> QED
    BY <2>3 DEF IsCutOf
<1> QED
  BY <1>2, <1>3, <1>4, <1>5, <1>6 DEF IInv

LEMMA IInvStep ==
    ASSUME IInv, [Next]_vars
    PROVE  IInv'
<1>1. ASSUME Partition PROVE IInv'
  BY <1>1, PartitionSplits, SplitIInv
<1>2. ASSUME HalveSort PROVE IInv'
  BY <1>2, HalveSortSplits, SplitIInv
<1>3. ASSUME StartHalving PROVE IInv'
  BY <1>3, StartIInv
<1>4. ASSUME Return PROVE IInv'
  BY <1>4, ReturnIInv
<1>5. ASSUME Finish PROVE IInv'
  BY <1>5, FinishIInv
<1>6. ASSUME UNCHANGED vars PROVE IInv'
  <2>1. /\ form' = form /\ first' = first /\ last' = last
        /\ v' = v /\ lo' = lo /\ hi' = hi /\ frames' = frames /\ pc' = pc
    BY <1>6 DEF vars, args
  <2>2. TypeOK' /\ Disjoint' /\ Phase' /\ SmallBlocks'
    BY <2>1 DEF IInv, TypeOK, Disjoint, Block, Pos, Phase, SmallBlocks
  <2>3. Shrinking'
    BY <2>1 DEF IInv, Shrinking, Depth, QuicksortBelow
  <2>4. CutsHold'
    BY <2>1 DEF IInv, CutsHold, IsCutOf, Ordered, Cuts, Pending
  <2> QED
    BY <2>2, <2>3, <2>4 DEF IInv
<1> QED
  BY <1>1, <1>2, <1>3, <1>4, <1>5, <1>6 DEF Next, Terminating

LEMMA Invariance == Spec => []IInv
<1>1. Init => IInv
  BY InitIInv
<1>2. IInv /\ [Next]_vars => IInv'
  BY IInvStep
<1> QED
  BY <1>1, <1>2, PTL DEF Spec
-----------------------------------------------------------------------------
\* What is left to do never overlaps, and halve_sort lies above quicksort: no
\* block is sorted twice and none is forgotten, whatever pivots are chosen
\* (quicksort.hpp:30-60, halve_sort.hpp).
THEOREM StackInvariantHolds == Spec => []StackInvariant
<1>1. IInv => StackInvariant
  BY DEF IInv, StackInvariant
<1> QED
  BY <1>1, Invariance, PTL

\* "Recursion is on the smaller side with a loop on the larger (bounded stack)":
\* the frames of quicksort halve the range, so they are logarithmically many.
THEOREM BoundedStackHolds == Spec => []BoundedStack
<1>1. ASSUME IInv PROVE BoundedStack
  <2>1. TypeOK /\ DOMAIN frames = 1 .. Len(frames) /\ Len(frames) \in Nat
    BY <1>1, FrameNumbers DEF IInv
  <2>2. QuicksortBelow(frames, Len(frames) + 1)
            = {r \in DOMAIN frames : frames[r].in = "quicksort"}
    <3>1. (Len(frames) + 1) - 1 = Len(frames)
      BY <2>1
    <3> QED
      BY <2>1, <3>1 DEF QuicksortBelow
  <2> QED
    BY <1>1, <2>2 DEF IInv, Shrinking, Depth, BoundedStack
<1> QED
  BY <1>1, Invariance, PTL
-----------------------------------------------------------------------------
(***************************************************************************)
(* Both sorts implement the abstract one.                                  *)
(***************************************************************************)
LEMMA CountsAreKeys ==
    ASSUME NEW a, NEW b, NEW l, NEW h, SameCounts(Keys, a, b, l, h)
    PROVE  Sorting!SameKeys(a, b, l, h)
<1>1. ASSUME NEW e, NEW x \in Keys
      PROVE  Sorting!KeyCounts(e, Keys, l, h)[x] = Cardinality(Occurrences(e, x, l, h))
  <2>1. Sorting!KeyCounts(e, Keys, l, h)[x] = Sorting!Cardinality(Occurrences(e, x, l, h))
    BY DEF Sorting!KeyCounts, Occurrences
  <2>2. \A s : Sorting!Cardinality(s) = Cardinality(s)
    BY DEF Sorting!Cardinality, Cardinality
  <2> QED
    BY <2>1, <2>2
<1>2. \A x \in Keys :
         Sorting!KeyCounts(a, Keys, l, h)[x] = Sorting!KeyCounts(b, Keys, l, h)[x]
  BY <1>1 DEF SameCounts
<1>3. \A e : /\ DOMAIN Sorting!KeyCounts(e, Keys, l, h) = Keys
             /\ Sorting!KeyCounts(e, Keys, l, h)
                  = [x \in Keys |-> Sorting!KeyCounts(e, Keys, l, h)[x]]
  BY DEF Sorting!KeyCounts
<1>4. Sorting!KeyCounts(a, Keys, l, h) = Sorting!KeyCounts(b, Keys, l, h)
  BY <1>2, <1>3
<1> QED
  BY <1>4 DEF Sorting!SameKeys

LEMMA CutsAreCuts ==
    ASSUME CutsHold
    PROVE  \A c \in Cuts : Sorting!IsCut(v, c)
BY DEF CutsHold, IsCutOf, Ordered, Sorting!IsCut, Sorting!MayPrecede

\* A step that rearranges the block at hand and keeps the cuts is a step of the
\* abstract sort.
LEMMA AbstractStep ==
    ASSUME IInv, IInv', Shuffled(Keys, v, v', lo, hi), Cuts \subseteq Cuts',
           pc # "done", pc' = "done" => Cuts' = first .. last, UNCHANGED args
    PROVE  Sorting!Next
<1>1. /\ {first, last, lo, hi} \subseteq Int /\ N \in Nat
      /\ 0 <= first /\ first <= lo /\ lo <= hi /\ hi <= last /\ last <= N
      /\ v \in [Pos -> Keys] /\ TypeOK
  BY Numbers DEF IInv
<1>2. form' = form /\ first' = first /\ last' = last
  BY DEF args
<1>3. v' \in [Sorting!Pos -> Keys]
  BY DEF Shuffled, Sorting!Pos, Pos
<1>4. Sorting!SameOutside(v, v', first, last)
  <2>1. lo \in Int /\ hi \in 0 .. N /\ first \in 0 .. lo /\ last \in hi .. N
    BY <1>1
  <2>2. Shuffled(Keys, v, v', first, last)
    BY <1>1, <2>1, ShuffledWider
  <2> QED
    BY <2>2 DEF Shuffled, SameOutside, Sorting!SameOutside, Sorting!Pos, Pos
<1>5. ASSUME NEW c \in Cuts PROVE Sorting!SameKeys(v, v', first, c)
  <2>1. c \in first .. last /\ Outside(c, lo, hi)
    BY <1>1, CutsAre
  <2>2. CASE hi <= c
    <3>1. lo \in Int /\ hi \in 0 .. N /\ first \in 0 .. lo /\ c \in hi .. N
      BY <1>1, <2>1, <2>2
    <3>2. Shuffled(Keys, v, v', first, c)
      BY <1>1, <3>1, ShuffledWider
    <3> QED
      BY <3>2, CountsAreKeys DEF Shuffled
  <2>3. CASE c <= lo
    <3>1. \A p \in first .. c - 1 : p \in Pos /\ p \notin lo .. hi - 1
      BY <1>1, <2>1, <2>3 DEF Pos
    <3>2. \A p \in first .. c - 1 : v'[p] = v[p]
      BY <3>1 DEF Shuffled, SameOutside
    <3>3. \A x \in Keys : Occurrences(v, x, first, c) = Occurrences(v', x, first, c)
      BY <3>2 DEF Occurrences
    <3>4. SameCounts(Keys, v, v', first, c)
      BY <3>3 DEF SameCounts
    <3> QED
      BY <3>4, CountsAreKeys
  <2> QED
    BY <1>1, <2>1, <2>2, <2>3 DEF Outside
<1>6. \A c \in Cuts' : Sorting!IsCut(v', c)
  <2>1. \A c \in Cuts' : IsCutOf(v', c)
    <3>1. \A c \in Cuts' : \A p \in first' .. c - 1 : \A q \in c .. last' - 1 :
             IF form' = "forward" THEN v'[p] <= v'[q] ELSE v'[q] <= v'[p]
      BY DEF IInv, CutsHold, IsCutOf, Ordered
    <3> QED
      BY <1>2, <3>1 DEF IsCutOf, Ordered
  <2> QED
    BY <2>1 DEF IsCutOf, Ordered, Sorting!IsCut, Sorting!MayPrecede
<1>7. (pc' = "done") \in BOOLEAN /\ (pc = "done") = FALSE
  OBVIOUS
<1> QED
  BY <1>2, <1>3, <1>4, <1>5, <1>6, <1>7 DEF Sorting!Next, Cuts

\* A step that changes nothing the abstract sort sees.
LEMMA AbstractStutter ==
    ASSUME v' = v, Cuts' = Cuts, pc # "done", pc' # "done", UNCHANGED args
    PROVE  UNCHANGED Sorting!vars
<1>1. (pc' = "done") = (pc = "done") /\ form' = form /\ first' = first /\ last' = last
  BY DEF args
<1> QED
  BY <1>1 DEF Sorting!vars, Cuts

LEMMA RefineInit ==
    ASSUME Init
    PROVE  Sorting!Init
<1>1. IInv /\ TypeOK /\ CutsHold
  BY InitIInv DEF IInv
<1>2. /\ form \in {"forward", "reverse"} /\ v \in [Sorting!Pos -> Keys]
      /\ first \in 0 .. N /\ last \in first .. N
  BY <1>1, Numbers DEF TypeOK, Sorting!Pos, Pos
<1>3. Cuts \in SUBSET (first .. last)
  BY DEF Cuts
<1>4. \A c \in Cuts : Sorting!IsCut(v, c)
  BY <1>1, CutsAreCuts
<1>5. {first, last} \subseteq Cuts
  <2>1. lo = first /\ hi = last
    BY DEF Init
  <2> QED
    BY <1>1, <2>1, EndsAreCuts DEF IInv
<1>6. (pc = "done") = FALSE
  BY DEF Init
<1> QED
  BY <1>2, <1>3, <1>4, <1>5, <1>6 DEF Sorting!Init, Cuts

LEMMA RefineStep ==
    ASSUME IInv, [Next]_vars
    PROVE  [Sorting!Next]_(Sorting!vars)
<1>0. IInv' /\ v \in [Pos -> Keys] /\ Shuffled(Keys, v, v, lo, hi)
  BY IInvStep, Numbers, NotShuffled DEF IInv
<1>1. ASSUME NEW a, NEW b, NEW c, NEW d, Split(a, b, c, d) PROVE Sorting!Next
  <2>1. Shuffled(Keys, v, v', lo, hi) /\ UNCHANGED args /\ pc # "done" /\ pc' # "done"
    BY <1>1 DEF Split
  <2>2. Cuts \subseteq Cuts'
    BY <1>1, SplitCuts
  <2> QED
    BY <1>0, <2>1, <2>2, AbstractStep
<1>2. ASSUME Partition PROVE Sorting!Next
  BY <1>1, <1>2, PartitionSplits
<1>3. ASSUME HalveSort PROVE Sorting!Next
  BY <1>1, <1>3, HalveSortSplits
<1>4. ASSUME StartHalving PROVE UNCHANGED Sorting!vars
  <2>1. v' = v /\ pc # "done" /\ pc' # "done" /\ UNCHANGED args /\ Cuts' = Cuts
    BY <1>4, StartIInv DEF StartHalving
  <2> QED
    BY <2>1, AbstractStutter
<1>5. ASSUME Return PROVE UNCHANGED Sorting!vars
  <2>1. ReturnFacts /\ Cuts' = Cuts /\ UNCHANGED args
    BY <1>5, ReturnNumbers, ReturnCuts DEF IInv, Return
  <2>2. pc' # "done"
    <3>1. frames[Len(frames)].in \in {"quicksort", "halve_sort"}
      BY <2>1, FrameNumbers DEF IInv, ReturnFacts
    <3> QED
      BY <2>1, <3>1 DEF ReturnFacts
  <2>3. v' = v /\ pc # "done"
    BY <2>1 DEF ReturnFacts
  <2> QED
    BY <2>1, <2>2, <2>3, AbstractStutter
<1>6. ASSUME Finish PROVE Sorting!Next
  <2>1. v' = v /\ pc # "done" /\ UNCHANGED args
    BY <1>6 DEF Finish
  <2>2. Cuts \subseteq Cuts' /\ Cuts' = first .. last
    BY <1>6, FinishIInv
  <2>3. Shuffled(Keys, v, v', lo, hi)
    BY <1>0, <2>1
  <2> QED
    BY <1>0, <2>1, <2>2, <2>3, AbstractStep
<1>7. ASSUME UNCHANGED vars PROVE UNCHANGED Sorting!vars
  BY <1>7 DEF vars, args, Sorting!vars, Pending
<1> QED
  BY <1>2, <1>3, <1>4, <1>5, <1>6, <1>7 DEF Next, Terminating

\* Every partition and every halving moves elements only between two neighbouring
\* cuts and makes new cuts; when the call returns the range is sorted, ascending by
\* quicksort and descending by quicksort_rev, and holds the keys it held.
THEOREM Implementation == Spec => Implements
<1>1. Init => Sorting!Init
  BY RefineInit
<1>2. IInv /\ [Next]_vars => [Sorting!Next]_(Sorting!vars)
  BY RefineStep
<1> QED
  BY <1>1, <1>2, Invariance, PTL DEF Spec, Implements, Sorting!Spec
-----------------------------------------------------------------------------
(***************************************************************************)
(* The samples of the pivot strategies.                                    *)
(***************************************************************************)
\* Rounding down keeps two numbers apart that differ by the divisor.
LEMMA DivisionKeepsApart ==
    ASSUME NEW c \in Nat \ {0}, NEW x \in Nat, NEW y \in Nat, x + c <= y
    PROVE  x \div c < y \div c
<1> DEFINE u == x \div c
           w == y \div c
<1>1. u \in Nat /\ u * c <= x
  OBVIOUS
<1>2. w \in Nat /\ y < w * c + c
  OBVIOUS
<1> HIDE DEF u, w
<1>3. SUFFICES ASSUME w <= u PROVE FALSE
  BY <1>1, <1>2 DEF u, w
<1>4. c * w <= c * u /\ c * w = w * c /\ c * u = u * c /\ w * c \in Int /\ u * c \in Int
  BY <1>1, <1>2, <1>3, Monotone
<1> QED
  BY <1>1, <1>2, <1>4

\* What the strategies promise of the cells they sample, and of the wire.
Apart(f) == \A w, x \in DOMAIN f : f[w] = f[x] => w = x

Fits(s, m) ==
    /\ \A w \in DOMAIN P!SamplesOf(s, m) : P!SamplesOf(s, m)[w] \in 0 .. m - 1
    /\ P!PicksOf(s, m) \subseteq DOMAIN P!SamplesOf(s, m)
    /\ (s \in P!Values15 => m >= 15) /\ (s \in P!Values9 => m >= 9) => Apart(P!SamplesOf(s, m))

LEMMA EvenlyFits ==
    ASSUME NEW m \in Nat \ {0}, NEW c \in Nat, c >= 2, m >= c
    PROVE  /\ \A w \in 0 .. c - 1 : P!EvenlyAt(m, c)[w] \in 0 .. m - 1
           /\ Apart(P!EvenlyAt(m, c))
<1> DEFINE d == c - 1
           y == m - 1
<1>1. d \in Nat \ {0} /\ y \in Nat /\ d <= y
  OBVIOUS
<1>2. \A w \in 0 .. c - 1 : P!EvenlyAt(m, c)[w] = (w * y) \div d
  BY DEF P!EvenlyAt
<1> HIDE DEF d, y
<1>3. ASSUME NEW w \in Nat, NEW x \in Nat, w < x
      PROVE  (w * y) \div d < (x * y) \div d
  <2>1. y * (w + 1) <= y * x /\ y * (w + 1) = w * y + y /\ y * x = x * y
    BY <1>1, <1>3, Monotone
  <2>2. w * y \in Nat /\ x * y \in Nat
    <3>1. y * 0 <= y * w /\ y * 0 <= y * x /\ y * 0 = 0
      BY <1>1, Monotone
    <3> QED
      BY <1>1, <3>1
  <2>3. w * y + d <= x * y
    BY <1>1, <2>1, <2>2
  <2> QED
    BY <1>1, <2>2, <2>3, DivisionKeepsApart
<1>4. ASSUME NEW w \in 0 .. c - 1 PROVE (w * y) \div d \in 0 .. m - 1
  <2>1. w * y \in Nat
    <3>1. y * 0 <= y * w /\ y * 0 = 0 /\ y * w = w * y
      BY <1>1, Monotone
    <3> QED
      BY <1>1, <3>1
  <2>2. (w * y) \div d \in Nat
    BY <1>1, <2>1
  <2>3. (d * y) \div d = y
    BY <1>1
  <2>4. w = d \/ w < d
    BY DEF d
  <2>5. (w * y) \div d <= y
    <3>1. CASE w = d
      BY <1>1, <2>3, <3>1
    <3>2. CASE w < d
      <4>1. (w * y) \div d < (d * y) \div d
        BY <1>1, <1>3, <3>2
      <4> QED
        BY <1>1, <2>2, <2>3, <4>1
    <3> QED
      BY <2>4, <3>1, <3>2
  <2> QED
    BY <2>2, <2>5 DEF y
<1>5. ASSUME NEW w \in 0 .. c - 1, NEW x \in 0 .. c - 1, (w * y) \div d = (x * y) \div d
      PROVE  w = x
  <2>1. w \in Nat /\ x \in Nat
    OBVIOUS
  <2>2. ~ (w < x) /\ ~ (x < w)
    <3>1. (w * y) \div d \in Int /\ (x * y) \div d \in Int
      BY <1>4
    <3> QED
      BY <1>3, <1>5, <2>1, <3>1
  <2> QED
    BY <2>1, <2>2
<1>6. DOMAIN P!EvenlyAt(m, c) = 0 .. c - 1
  BY DEF P!EvenlyAt
<1> QED
  BY <1>2, <1>4, <1>5, <1>6 DEF Apart

LEMMA StrideFits ==
    ASSUME NEW m \in Nat \ {0}, NEW c \in Nat \ {0}
    PROVE  /\ \A w \in 0 .. c - 1 : P!StrideAt(m, c)[w] \in 0 .. m - 1
           /\ m >= c => Apart(P!StrideAt(m, c))
<1> DEFINE y == m \div c
<1>1. y \in Nat /\ y * c <= m /\ (m >= c => y >= 1)
  OBVIOUS
<1>2. \A w \in 0 .. c - 1 : P!StrideAt(m, c)[w] = w * y
  BY DEF P!StrideAt
<1>3. DOMAIN P!StrideAt(m, c) = 0 .. c - 1
  BY DEF P!StrideAt
<1> HIDE DEF y
<1>4. ASSUME NEW w \in 0 .. c - 1 PROVE w * y \in 0 .. m - 1
  <2>1. y * 0 <= y * w /\ y * w <= y * (c - 1) /\ y * 0 = 0 /\ y * w = w * y
    BY <1>1, Monotone
  <2>2. y * (c - 1) = y * c - y /\ y * c \in Int
    BY <1>1
  <2>3. CASE y = 0
    BY <1>1, <2>1, <2>3
  <2>4. CASE y >= 1
    BY <1>1, <2>1, <2>2, <2>4
  <2> QED
    BY <1>1, <2>3, <2>4
<1>5. ASSUME NEW w \in 0 .. c - 1, NEW x \in 0 .. c - 1, w * y = x * y, m >= c PROVE w = x
  <2>1. y >= 1
    BY <1>1, <1>5
  <2>2. ASSUME NEW e \in Nat, NEW f \in Nat, e < f PROVE e * y < f * y
    <3>1. y * (e + 1) <= y * f /\ y * (e + 1) = e * y + y /\ y * f = f * y
      BY <1>1, <2>2, Monotone
    <3>2. e * y \in Int /\ f * y \in Int
      BY <1>1
    <3> QED
      BY <1>1, <2>1, <3>1, <3>2
  <2>3. w \in Nat /\ x \in Nat /\ w * y \in Int /\ x * y \in Int
    BY <1>1
  <2> QED
    BY <1>5, <2>2, <2>3
<1> QED
  BY <1>2, <1>3, <1>4, <1>5 DEF Apart

LEMMA NintherFits ==
    ASSUME NEW m \in Nat, m >= 9
    PROVE  /\ \A w \in 0 .. 8 : P!NintherAt(m)[w] \in 0 .. m - 1
           /\ Apart(P!NintherAt(m))
<1> DEFINE e == m \div 8
           h == m \div 2
<1>1. e \in Nat /\ e >= 1 /\ 8 * e <= m /\ h \in Nat /\ 2 * h <= m /\ m < 2 * h + 2
  OBVIOUS
<1>2. P!NintherAt(m) = [w \in 0 .. 8 |-> IF w < 3 THEN w * e
                                         ELSE IF w \in 3 .. 5 THEN h + (w - 4) * e
                                         ELSE (m - 1) - (8 - w) * e]
  BY DEF P!NintherAt
<1> DEFINE f == P!NintherAt(m)
<1>3. DOMAIN f = 0 .. 8
  BY <1>2
<1> HIDE DEF e, h
<1>4. /\ f[0] = 0 /\ f[1] = e /\ f[2] = 2 * e
      /\ f[3] = h - e /\ f[4] = h /\ f[5] = h + e
      /\ f[6] = (m - 1) - 2 * e /\ f[7] = (m - 1) - e /\ f[8] = m - 1
  BY <1>1, <1>2
<1> HIDE DEF f
<1>5. /\ f[0] < f[1] /\ f[1] < f[2] /\ f[2] < f[3] /\ f[3] < f[4] /\ f[4] < f[5]
      /\ f[5] < f[6] /\ f[6] < f[7] /\ f[7] < f[8]
  BY <1>1, <1>4
<1>6. \A w \in 0 .. 8 : f[w] \in Int
  BY <1>1, <1>4
<1>7. \A w \in 0 .. 8 : w = 0 \/ w = 1 \/ w = 2 \/ w = 3 \/ w = 4 \/ w = 5 \/ w = 6
                            \/ w = 7 \/ w = 8
  OBVIOUS
<1>8. \A w \in 0 .. 8 : f[w] \in 0 .. m - 1
  BY <1>1, <1>4, <1>7
<1>9. \A w, x \in 0 .. 8 : w < x => f[w] < f[x]
  BY <1>5, <1>6, <1>7
<1>10. \A w, x \in 0 .. 8 : f[w] = f[x] => w = x
  BY <1>6, <1>9
<1> QED
  BY <1>3, <1>8, <1>10 DEF Apart, f

LEMMA ClustersFit ==
    ASSUME NEW m \in Nat, m >= 25
    PROVE  /\ \A w \in 0 .. 24 : P!Clusters898At(m)[w] \in 0 .. m - 1
           /\ Apart(P!Clusters898At(m))
<1> DEFINE h == m \div 2
<1>1. h \in Nat /\ 2 * h <= m /\ m < 2 * h + 2
  OBVIOUS
<1>2. P!Clusters898At(m) = [w \in 0 .. 24 |-> IF w < 8 THEN w
                                              ELSE IF w \in 8 .. 16 THEN h - 4 + (w - 8)
                                              ELSE m - 8 + (w - 17)]
  BY DEF P!Clusters898At
<1> HIDE DEF h
<1> QED
  BY <1>1, <1>2 DEF Apart

LEMMA MedianOf5Fits ==
    ASSUME NEW m \in Nat, m >= 5
    PROVE  /\ \A w \in 0 .. 4 : P!MedianOf5At(m)[w] \in 0 .. m - 1
           /\ Apart(P!MedianOf5At(m))
<1> DEFINE f == P!MedianOf5At(m)
           a == m \div 4
           b == m \div 2
           c == (3 * m) \div 4
<1>1. /\ a \in Nat /\ b \in Nat /\ c \in Nat
      /\ 4 * a <= m /\ m < 4 * a + 4 /\ 2 * b <= m /\ m < 2 * b + 2
      /\ 4 * c <= 3 * m /\ 3 * m < 4 * c + 4
  OBVIOUS
<1>2. f = [w \in 0 .. 4 |-> IF w = 0 THEN 0 ELSE IF w = 1 THEN a ELSE IF w = 2 THEN b
                            ELSE IF w = 3 THEN c ELSE m - 1]
  BY DEF P!MedianOf5At
<1> HIDE DEF a, b, c, f
<1>3. f[0] = 0 /\ f[1] = a /\ f[2] = b /\ f[3] = c /\ f[4] = m - 1
  BY <1>2
<1>4. 0 < a /\ a < b /\ b < c /\ c < m - 1
  BY <1>1
<1>5. \A w \in 0 .. 4 : w = 0 \/ w = 1 \/ w = 2 \/ w = 3 \/ w = 4
  OBVIOUS
<1>6. \A w \in 0 .. 4 : f[w] \in 0 .. m - 1
  BY <1>1, <1>3, <1>4, <1>5
<1>7. \A w, x \in 0 .. 4 : f[w] = f[x] => w = x
  BY <1>1, <1>3, <1>4, <1>5
<1>8. DOMAIN f = 0 .. 4
  BY <1>2
<1> QED
  BY <1>6, <1>7, <1>8 DEF Apart, f

\* Every strategy on every block it does not leave to another.
LEMMA StrategyFits ==
    ASSUME NEW s \in P!Strategies, NEW m \in Nat \ {0}, m >= P!Shortest(s)
    PROVE  Fits(s, m)
<1>1. CASE s \in {"first", "middle", "last"}
  <2>1. P!SamplesOf(s, m) \in {P!FirstAt(m), P!MiddleAt(m), P!LastAt(m)} /\ P!PicksOf(s, m) = {0}
    BY <1>1 DEF P!SamplesOf, P!PicksOf, P!Values15, P!Values9
  <2>2. m \div 2 \in 0 .. m - 1
    OBVIOUS
  <2> QED
    BY <2>1, <2>2 DEF Fits, Apart, P!FirstAt, P!MiddleAt, P!LastAt
<1>2. CASE s \in {"median_of_3", "median_of_3_inplace"}
  <2>1. /\ P!SamplesOf(s, m) = P!MedianOf3At(m) /\ P!PicksOf(s, m) = {1} /\ m >= 3
    BY <1>2 DEF P!SamplesOf, P!PicksOf, P!Values15, P!Values9, P!Shortest
  <2> DEFINE h == m \div 2
  <2>2. h \in Nat /\ 0 < h /\ h < m - 1
    BY <2>1
  <2>3. P!MedianOf3At(m) = [w \in 0 .. 2 |-> IF w = 0 THEN 0 ELSE IF w = 1 THEN h ELSE m - 1]
    BY DEF P!MedianOf3At
  <2> HIDE DEF h
  <2> QED
    BY <2>1, <2>2, <2>3 DEF Fits, Apart
<1>3. CASE s = "median_of_5"
  <2>1. P!SamplesOf(s, m) = P!MedianOf5At(m) /\ P!PicksOf(s, m) = {2} /\ m >= 5
    BY <1>3 DEF P!SamplesOf, P!PicksOf, P!Values15, P!Values9, P!Shortest
  <2>2. DOMAIN P!MedianOf5At(m) = 0 .. 4
    BY DEF P!MedianOf5At
  <2> QED
    BY <2>1, <2>2, MedianOf5Fits DEF Fits
<1>4. CASE s = "ninther"
  <2>1. P!SamplesOf(s, m) = P!NintherAt(m) /\ P!PicksOf(s, m) = {4} /\ m >= 9
    BY <1>4 DEF P!SamplesOf, P!PicksOf, P!Values15, P!Values9, P!Shortest
  <2>2. DOMAIN P!NintherAt(m) = 0 .. 8
    BY DEF P!NintherAt
  <2> QED
    BY <2>1, <2>2, NintherFits DEF Fits
<1>5. CASE s = "median_of_5_medians_of_5"
  <2>1. P!SamplesOf(s, m) = P!EvenlyAt(m, 25) /\ P!PicksOf(s, m) = {12} /\ m >= 25
    BY <1>5 DEF P!SamplesOf, P!PicksOf, P!Values15, P!Values9, P!Shortest
  <2>2. DOMAIN P!EvenlyAt(m, 25) = 0 .. 25 - 1
    BY DEF P!EvenlyAt
  <2> DEFINE f == P!EvenlyAt(m, 25)
  <2>3. /\ \A w \in 0 .. 25 - 1 : f[w] \in 0 .. m - 1
        /\ Apart(f)
    BY <2>1, EvenlyFits
  <2> HIDE DEF f
  <2>4. 12 \in 0 .. 25 - 1
    OBVIOUS
  <2> QED
    BY <2>1, <2>2, <2>3, <2>4 DEF Fits, f
<1>6. CASE s = "median_of_5_medians_of_5_898"
  <2>1. P!SamplesOf(s, m) = P!Clusters898At(m) /\ P!PicksOf(s, m) = {12} /\ m >= 25
    BY <1>6 DEF P!SamplesOf, P!PicksOf, P!Values15, P!Values9, P!Shortest
  <2>2. DOMAIN P!Clusters898At(m) = 0 .. 24
    BY DEF P!Clusters898At
  <2> QED
    BY <2>1, <2>2, ClustersFit DEF Fits
<1>7. CASE s \in {"median_of_5_medians_of_3", "median_of_3_medians_of_5"}
  <2>1. P!SamplesOf(s, m) = P!EvenlyAt(m, 15) /\ P!PicksOf(s, m) = {7} /\ m >= 15
    BY <1>7 DEF P!SamplesOf, P!PicksOf, P!Values15, P!Values9, P!Shortest
  <2>2. DOMAIN P!EvenlyAt(m, 15) = 0 .. 15 - 1
    BY DEF P!EvenlyAt
  <2> DEFINE f == P!EvenlyAt(m, 15)
  <2>3. /\ \A w \in 0 .. 15 - 1 : f[w] \in 0 .. m - 1
        /\ Apart(f)
    BY <2>1, EvenlyFits
  <2> HIDE DEF f
  <2>4. 7 \in 0 .. 15 - 1
    OBVIOUS
  <2> QED
    BY <2>1, <2>2, <2>3, <2>4 DEF Fits, f
<1>8. CASE s \in P!Values15
  <2>1. P!SamplesOf(s, m) = P!StrideAt(m, 15) /\ P!PicksOf(s, m) = {P!ValueNetwork[s].pick}
    BY <1>8 DEF P!SamplesOf, P!PicksOf, P!Values15, P!Values9
  <2>2. P!ValueNetwork[s].pick \in 0 .. 15 - 1
    BY <1>8 DEF P!Values15, P!ValueNetwork, P!Pseudo15, P!Pseudo15_s5
  <2>3. DOMAIN P!StrideAt(m, 15) = 0 .. 15 - 1
    BY DEF P!StrideAt
  <2> DEFINE f == P!StrideAt(m, 15)
  <2>4. /\ \A w \in 0 .. 15 - 1 : f[w] \in 0 .. m - 1
        /\ m >= 15 => Apart(f)
    BY StrideFits
  <2> HIDE DEF f
  <2> QED
    BY <1>8, <2>1, <2>2, <2>3, <2>4 DEF Fits, f
<1>9. CASE s \in P!Values9
  <2>1. P!SamplesOf(s, m) = P!StrideAt(m, 9) /\ P!PicksOf(s, m) = {P!ValueNetwork[s].pick}
    BY <1>9 DEF P!SamplesOf, P!PicksOf, P!Values15, P!Values9
  <2>2. P!ValueNetwork[s].pick \in 0 .. 9 - 1
    BY <1>9 DEF P!Values9, P!ValueNetwork, P!Pseudo9, P!Pseudo9_s1, P!Pseudo9_s2, P!Pseudo9_s3,
       P!Pseudo9_s4, P!Pseudo9_s5, P!SortingNetwork9
  <2>3. DOMAIN P!StrideAt(m, 9) = 0 .. 9 - 1
    BY DEF P!StrideAt
  <2> DEFINE f == P!StrideAt(m, 9)
  <2>4. /\ \A w \in 0 .. 9 - 1 : f[w] \in 0 .. m - 1
        /\ m >= 9 => Apart(f)
    BY StrideFits
  <2> HIDE DEF f
  <2> QED
    BY <1>9, <2>1, <2>2, <2>3, <2>4 DEF Fits, f
<1>10. CASE s \in {"random", "median_of_medians_5"}
  <2>1. P!SamplesOf(s, m) = [w \in 0 .. m - 1 |-> w]
    BY <1>10 DEF P!SamplesOf, P!Values15, P!Values9
  <2>2. P!PicksOf(s, m) \subseteq 0 .. m - 1
    <3>1. CASE s = "random"
      BY <3>1 DEF P!PicksOf, P!Values15, P!Values9
    <3>2. CASE s = "median_of_medians_5"
      <4>1. P!PicksOf(s, m) = {P!MedianWire(P!GroupCount(m) \div 2 + 1, m)}
        BY <3>2 DEF P!PicksOf, P!Values15, P!Values9
      <4> DEFINE g == P!GroupCount(m)
                 x == g \div 2 + 1
      <4>2. g \in Nat /\ g >= 1 /\ 5 * g <= m + 4 /\ m <= 5 * g
        BY DEF P!GroupCount
      <4>3. x \in Nat /\ x >= 1 /\ x <= g
        <5> HIDE DEF g
        <5>1. g = 1 \/ g >= 2
          BY <4>2
        <5> QED
          BY <4>2, <5>1
      <4> HIDE DEF g, x
      <4>4. CASE 5 * x <= m
        <5>1. P!GroupSize(x, m) \div 2 = 2
          BY <4>4 DEF P!GroupSize
        <5> QED
          BY <4>1, <4>3, <4>4, <5>1 DEF P!MedianWire, x, g
      <4>5. CASE 5 * x > m
        <5>1. x = g
          BY <4>2, <4>3, <4>5
        <5>2. m % 5 = m - 5 * (x - 1) /\ m % 5 \in 1 .. 4
          BY <4>2, <4>3, <4>5, <5>1
        <5>3. P!GroupSize(x, m) = m % 5
          BY <4>3, <4>5 DEF P!GroupSize
        <5>4. (m % 5) \div 2 < m % 5 /\ (m % 5) \div 2 \in Nat
          BY <5>2
        <5>5. P!MedianWire(x, m) \in 0 .. m - 1
          BY <4>3, <5>2, <5>3, <5>4 DEF P!MedianWire
        <5> QED
          BY <4>1, <5>5 DEF x, g
      <4> QED
        BY <4>3, <4>4, <4>5
    <3> QED
      BY <1>10, <3>1, <3>2
  <2> QED
    BY <2>1, <2>2 DEF Fits, Apart
<1>11. s \in {"first", "middle", "last", "random", "median_of_3", "median_of_3_inplace",
              "median_of_5", "ninther", "median_of_5_medians_of_5",
              "median_of_5_medians_of_5_898", "median_of_5_medians_of_3",
              "median_of_3_medians_of_5", "median_of_medians_5"}
         \cup P!Values15 \cup P!Values9
  BY DEF P!Strategies
<1> QED
  BY <1>1, <1>2, <1>3, <1>4, <1>5, <1>6, <1>7, <1>8, <1>9, <1>10, <1>11

\* What holds of a choice of a pivot between two of its steps.
PivotInv ==
    /\ strategy \in P!Strategies
    /\ len \in Nat \ {0}
    /\ at \in {"run", "done"} =>
          /\ Fits(strategy, len)
          /\ samples = P!SamplesOf(strategy, len)
          /\ pick \in P!PicksOf(strategy, len)

\* A strategy that is too long for the block hands over to another one.
LEMMA FallsBack ==
    ASSUME NEW s \in P!Strategies
    PROVE  P!Fallback(s) \in P!Strategies
  BY DEF P!Fallback, P!Strategies

LEMMA PivotInvInit == P!MaxBlockAssumption /\ P!Init => PivotInv
  BY DEF P!MaxBlockAssumption, P!Init, PivotInv

LEMMA PivotInvNext == PivotInv /\ [P!Next]_(P!vars) => PivotInv'
<1> SUFFICES ASSUME PivotInv, [P!Next]_(P!vars)
             PROVE  PivotInv'
  OBVIOUS
<1>1. CASE P!FallBack
  BY <1>1, FallsBack DEF PivotInv, P!FallBack
<1>2. CASE P!Sample
  <2>1. Fits(strategy, len)
    BY <1>2, StrategyFits DEF PivotInv, P!Sample
  <2> QED
    BY <1>2, <2>1 DEF PivotInv, P!Sample
<1>3. CASE P!RunGate
  BY <1>3 DEF PivotInv, P!RunGate
<1>4. CASE P!Return
  BY <1>4 DEF PivotInv, P!Return
<1>5. CASE UNCHANGED P!vars
  BY <1>5 DEF PivotInv, P!vars
<1> QED
  BY <1>1, <1>2, <1>3, <1>4, <1>5 DEF P!Next, P!Terminating

LEMMA PivotInvGivesSamplesInside == PivotInv => SamplesInside
<1> SUFFICES ASSUME PivotInv, at \in {"run", "done"}
             PROVE  P!SamplesInside
  BY DEF SamplesInside, P!SamplesInside
<1> QED
  BY DEF PivotInv, Fits, Apart, P!SamplesInside

\* pivot.hpp, for a block of any length: every sample of every strategy is an
\* element of the block, the pivot is one of the samples, and in a block that is
\* long enough for the strategy no element is sampled twice.
THEOREM SamplesInsideHolds == P!Spec => []SamplesInside
<1> USE SmallParameters DEF SmallParameters
<1>1. P!Init => PivotInv
  BY PivotInvInit
<1>2. PivotInv /\ [P!Next]_(P!vars) => PivotInv'
  BY PivotInvNext
<1>3. PivotInv => SamplesInside
  BY PivotInvGivesSamplesInside
<1> QED
  BY <1>1, <1>2, <1>3, PTL DEF P!Spec
-----------------------------------------------------------------------------
(***************************************************************************)
(* The small sorts and completions.  Every form sorts by the keys; the     *)
(* stable ones sort by the keys and, where these are equal, by the cells   *)
(* the elements came from.  Before is the order of the form that runs.     *)
(***************************************************************************)
Before(x, y) == key[x] < key[y] \/ (key[x] = key[y] /\ (entry \in S!Stable => x < y))

InOrder(a, from, to) == \A p, q \in from .. to - 1 : p < q => Before(a[p], a[q])

\* What no step changes, and what the arguments are.
CallFacts ==
    /\ entry \in S!Sorts \cup S!Extends \cup S!Merges
    /\ key \in [Pos -> Int]
    /\ n \in 0 .. N /\ k \in 0 .. n

\* The notions of Ranges are those of SmallSort.
LEMMA SameNotions ==
    /\ S!Pos = Pos
    /\ \A a : S!IsArrangement(a) <=> IsArrangement(a)
    /\ \A a, x, y : S!Swap(a, x, y) = Swap(a, x, y)
    /\ \A x, y : S!Less(x, y) <=> key[x] < key[y]
  BY DEF S!Pos, Pos, S!IsArrangement, IsArrangement, S!Swap, Swap, S!Less

\* In the array the call found, element p is in cell p.
Untouched == v = [p \in Pos |-> p]

\* The first m cells are in order and hold the first m elements.
Completed(w, m) ==
    /\ IsArrangement(w)
    /\ InOrder(w, 0, m)
    /\ \A p \in Pos : p >= m => w[p] = p

LEMMA CompletedHoldsTheFirst ==
    ASSUME NEW m \in 0 .. N, NEW w, Completed(w, m)
    PROVE  /\ w \in [Pos -> Pos]
           /\ \A p \in 0 .. m - 1 : p \in Pos /\ w[p] \in 0 .. m - 1
<1>1. w \in [Pos -> Pos] /\ N \in Nat /\ \A p, q \in Pos : w[p] = w[q] => p = q
  BY NAssumption DEF Completed, IsArrangement
<1>2. ASSUME NEW p \in 0 .. m - 1 PROVE p \in Pos /\ w[p] \in 0 .. m - 1
  <2>1. p \in Pos /\ w[p] \in Pos
    BY <1>1 DEF Pos
  <2>2. w[p] >= m => w[w[p]] = w[p]
    BY <2>1 DEF Completed
  <2> QED
    BY <1>1, <2>1, <2>2 DEF Pos
<1> QED
  BY <1>1, <1>2

\* In order of the form, the keys do not descend.
LEMMA InOrderKeys ==
    ASSUME CallFacts, NEW m \in 0 .. N, NEW w \in [Pos -> Pos], InOrder(w, 0, m),
           NEW p \in 0 .. m - 1, NEW q \in 0 .. m - 1, p <= q
    PROVE  key[w[p]] <= key[w[q]]
<1>1. p \in Pos /\ q \in Pos /\ key[w[p]] \in Int /\ key[w[q]] \in Int
  BY NAssumption DEF Pos, CallFacts
<1>2. CASE p < q
  BY <1>1, <1>2 DEF InOrder, Before
<1>3. CASE p = q
  BY <1>1, <1>3
<1> QED
  BY <1>2, <1>3

\* The element of cell `from` is put at `to`, and the cells from there on move up.
MovedUp(w, from, to) ==
    [p \in Pos |-> IF p \in to + 1 .. from THEN w[p - 1] ELSE w[p]]

Insertion(w, from, to) ==
    [p \in Pos |-> IF p = to THEN from ELSE IF p \in to + 1 .. from THEN w[p - 1] ELSE w[p]]

LEMMA InsertionRearranges ==
    ASSUME NEW m \in Pos, NEW w, Completed(w, m), NEW to \in 0 .. m
    PROVE  /\ IsArrangement(Insertion(w, m, to))
           /\ \A p \in Pos : p >= m + 1 => Insertion(w, m, to)[p] = p
<1> DEFINE u == Insertion(w, m, to)
<1>1. N \in Nat /\ m \in 0 .. N /\ m \in Nat
  BY NAssumption DEF Pos
<1>2. /\ w \in [Pos -> Pos]
      /\ \A p \in 0 .. m - 1 : p \in Pos /\ w[p] \in 0 .. m - 1
  BY <1>1, CompletedHoldsTheFirst
<1>3. \A p, q \in Pos : w[p] = w[q] => p = q
  BY DEF Completed, IsArrangement
<1>4. \A p \in Pos : p >= m => w[p] = p
  BY DEF Completed
<1>5. \A p \in Pos : u[p] = IF p = to THEN m ELSE IF p \in to + 1 .. m THEN w[p - 1] ELSE w[p]
  BY DEF Insertion
<1>6. u \in [Pos -> Pos]
  <2>1. \A p \in Pos : p \in to + 1 .. m => p - 1 \in 0 .. m - 1
    BY <1>1 DEF Pos
  <2> QED
    BY <1>2, <2>1 DEF Insertion
<1> HIDE DEF u
<1>7. ASSUME NEW p \in Pos, NEW q \in Pos, u[p] = u[q], p < q PROVE FALSE
  <2>1. p \in Int /\ q \in Int
    BY DEF Pos
  <2>2. \A r \in Pos : w[r] = m => r = m
    <3>1. w[m] = m
      BY <1>1, <1>4
    <3> QED
      BY <1>3, <3>1
  <2>3. \A r \in to + 1 .. m : r - 1 \in Pos /\ r - 1 # m
    BY <1>1, <1>2
  <2> QED
    BY <1>1, <1>3, <1>5, <1>7, <2>1, <2>2, <2>3
<1>8. ASSUME NEW p \in Pos, NEW q \in Pos, u[p] = u[q] PROVE p = q
  BY <1>7, <1>8 DEF Pos
<1>9. ASSUME NEW p \in Pos, p >= m + 1 PROVE u[p] = p
  BY <1>1, <1>4, <1>5, <1>9 DEF Pos
<1> QED
  BY <1>6, <1>8, <1>9 DEF IsArrangement, u

\* What an insertion leaves behind: element m behind those with a key that is not
\* greater and before those with a greater one.
LEMMA InsertionCompletes ==
    ASSUME CallFacts, NEW m \in Pos, NEW w, Completed(w, m), NEW to \in 0 .. m,
           \A p \in 0 .. to - 1 : key[w[p]] <= key[m],
           \A p \in to .. m - 1 : key[m] < key[w[p]]
    PROVE  Completed(Insertion(w, m, to), m + 1)
<1> DEFINE u == Insertion(w, m, to)
<1>1. N \in Nat /\ m \in 0 .. N /\ m \in Nat
  BY NAssumption DEF Pos
<1>2. /\ w \in [Pos -> Pos]
      /\ \A p \in 0 .. m - 1 : p \in Pos /\ w[p] \in 0 .. m - 1
  BY <1>1, CompletedHoldsTheFirst
<1>3. \A p \in Pos : u[p] = IF p = to THEN m ELSE IF p \in to + 1 .. m THEN w[p - 1] ELSE w[p]
  BY DEF Insertion
<1>4. \A p, q \in 0 .. m - 1 : p < q => Before(w[p], w[q])
  BY DEF Completed, InOrder
<1> HIDE DEF u
<1>5. key[m] \in Int /\ \A p \in 0 .. m - 1 : key[w[p]] \in Int
  BY <1>2 DEF CallFacts
<1>6. \A p \in 0 .. to - 1 : Before(w[p], m)
  <2> SUFFICES ASSUME NEW p \in 0 .. to - 1 PROVE Before(w[p], m)
    OBVIOUS
  <2>1. p \in 0 .. m - 1 /\ w[p] < m
    BY <1>1, <1>2
  <2> QED
    BY <1>5, <2>1 DEF Before
<1>7. \A p \in to .. m - 1 : Before(m, w[p])
  BY DEF Before
<1>8. ASSUME NEW p \in 0 .. m, NEW q \in 0 .. m, p < q PROVE Before(u[p], u[q])
  <2>1. p \in Pos /\ q \in Pos
    BY <1>1 DEF Pos
  <2>2. CASE q < to
    <3>1. u[p] = w[p] /\ u[q] = w[q] /\ p \in 0 .. m - 1 /\ q \in 0 .. m - 1
      BY <1>1, <1>3, <1>8, <2>1, <2>2
    <3> QED
      BY <1>4, <1>8, <3>1
  <2>3. CASE q = to
    <3>1. u[p] = w[p] /\ u[q] = m /\ p \in 0 .. to - 1
      BY <1>1, <1>3, <1>8, <2>1, <2>3
    <3> QED
      BY <1>6, <3>1
  <2>4. CASE q > to /\ p < to
    <3>1. u[p] = w[p] /\ u[q] = w[q - 1] /\ p \in 0 .. m - 1 /\ q - 1 \in 0 .. m - 1 /\ p < q - 1
      BY <1>1, <1>3, <1>8, <2>1, <2>4
    <3> QED
      BY <1>4, <3>1
  <2>5. CASE q > to /\ p = to
    <3>1. u[p] = m /\ u[q] = w[q - 1] /\ q - 1 \in to .. m - 1
      BY <1>1, <1>3, <1>8, <2>1, <2>5
    <3> QED
      BY <1>7, <3>1
  <2>6. CASE q > to /\ p > to
    <3>1. u[p] = w[p - 1] /\ u[q] = w[q - 1] /\ p - 1 \in 0 .. m - 1 /\ q - 1 \in 0 .. m - 1
          /\ p - 1 < q - 1
      BY <1>1, <1>3, <1>8, <2>1, <2>6
    <3> QED
      BY <1>4, <3>1
  <2> QED
    BY <1>1, <1>8, <2>2, <2>3, <2>4, <2>5, <2>6
<1>9. InOrder(u, 0, m + 1)
  <2>1. 0 .. (m + 1) - 1 = 0 .. m
    BY <1>1
  <2> QED
    BY <1>8, <2>1 DEF InOrder
<1>10. IsArrangement(u) /\ \A p \in Pos : p >= m + 1 => u[p] = p
  BY InsertionRearranges DEF u
<1> QED
  BY <1>9, <1>10 DEF Completed, u
-----------------------------------------------------------------------------
(***************************************************************************)
(* The extend forms.  Completion c of a call has element i in hand; w is   *)
(* the array as it was when the element was taken out, which only          *)
(* extend_sorted has begun to move.                                        *)
(***************************************************************************)
\* The cells that are completed before element i.
Behind == IF i <= n THEN i ELSE n

InHand(w) ==
    /\ Completed(w, i)
    /\ v = IF entry = "extend_sorted" THEN MovedUp(w, i, j) ELSE w
    /\ \A p \in 0 .. lo - 1 : key[w[p]] <= key[i]
    /\ entry = "extend_sorted_bsearch" => \A p \in hi .. i - 1 : key[i] < key[w[p]]
    /\ entry # "extend_sorted_bsearch" => \A p \in j .. i - 1 : key[i] < key[w[p]]

Finding ==
    /\ i \in 1 .. n - 1 /\ tmp = <<i>> /\ t = 1
    /\ j \in 0 .. i /\ lo \in 0 .. i /\ hi \in lo .. i
    /\ entry # "extend_sorted_bsearch" => lo = 0
    /\ \E w : InHand(w)

ExtendInv ==
    /\ CallFacts
    /\ entry \in S!Extends
    /\ pc \in {"call", "next", "find", "done"}
    /\ pc = "call" => Completed(v, k)
    /\ pc = "next" => i \in Nat \ {0} /\ (i <= n \/ i = 1) /\ Completed(v, Behind)
    /\ pc = "find" => Finding
    /\ pc = "done" => Completed(v, n)

\* An order over no two cells is one.
LEMMA CompletedLess ==
    ASSUME CallFacts, Completed(v, 0), n >= 1
    PROVE  Completed(v, 1)
<1>1. InOrder(v, 0, 1)
  BY DEF InOrder
<1> QED
  BY <1>1 DEF Completed, Pos

LEMMA StartExtendInv == ExtendInv /\ S!StartExtend => ExtendInv'
<1> SUFFICES ASSUME ExtendInv, S!StartExtend PROVE ExtendInv'
  OBVIOUS
<1>1. CallFacts /\ Completed(v, k) /\ n \in Nat /\ k \in 0 .. n
  BY DEF ExtendInv, S!StartExtend, CallFacts
<1>2. pc' = "next" /\ i' = IF k < 1 THEN 1 ELSE k
  BY DEF S!StartExtend
<1>3. UNCHANGED <<entry, key, v, n, k>>
  BY DEF S!StartExtend
<1>4. CallFacts'
  BY <1>1, <1>3 DEF CallFacts
<1>5. Completed(v, IF i' <= n THEN i' ELSE n)
  <2>1. CASE k >= 1
    BY <1>1, <1>2, <2>1
  <2>2. CASE k = 0 /\ n = 0
    BY <1>1, <1>2, <2>2
  <2>3. CASE k = 0 /\ n >= 1
    BY <1>1, <1>2, <2>3, CompletedLess
  <2> QED
    BY <1>1, <2>1, <2>2, <2>3
<1>6. Completed(v, Behind)'
  BY <1>3, <1>5 DEF Behind, Completed, InOrder, Before
<1> QED
  BY <1>1, <1>2, <1>3, <1>4, <1>6 DEF ExtendInv

LEMMA TakeKeyInv == ExtendInv /\ S!TakeKey => ExtendInv'
<1> SUFFICES ASSUME ExtendInv, S!TakeKey PROVE ExtendInv'
  OBVIOUS
<1>1. CallFacts /\ i \in 1 .. n - 1 /\ Completed(v, i) /\ n \in 0 .. N /\ N \in Nat
  BY NAssumption DEF ExtendInv, S!TakeKey, CallFacts, Behind
<1>2. /\ pc' = "find" /\ tmp' = <<v[i]>> /\ t' = 1 /\ j' = i /\ lo' = 0 /\ hi' = i
      /\ UNCHANGED <<entry, key, v, n, k, i>>
  BY DEF S!TakeKey
<1>3. CallFacts'
  BY <1>1, <1>2 DEF CallFacts
<1>4. v[i] = i
  BY <1>1 DEF Completed, Pos
<1>5. v = MovedUp(v, i, i)
  BY <1>1 DEF MovedUp, Completed, IsArrangement
<1>6. InHand(v)'
  BY <1>1, <1>2, <1>5 DEF InHand, Completed, InOrder, Before, MovedUp
<1> QED
  BY <1>1, <1>2, <1>3, <1>4, <1>6 DEF ExtendInv, Finding

LEMMA AllInsertedInv == ExtendInv /\ S!AllInserted => ExtendInv'
<1> SUFFICES ASSUME ExtendInv, S!AllInserted PROVE ExtendInv'
  OBVIOUS
<1>1. CallFacts /\ Completed(v, n) /\ i \in Nat
  BY DEF ExtendInv, S!AllInserted, CallFacts, Behind
<1>2. pc' = "done" /\ UNCHANGED <<entry, key, v, n, k>>
  BY DEF S!AllInserted
<1>3. CallFacts' /\ Completed(v, n)'
  BY <1>1, <1>2 DEF CallFacts, Completed, InOrder, Before
<1> QED
  BY <1>1, <1>2, <1>3 DEF ExtendInv

\* What the array holds while element i is in hand.
LEMMA InHandCells ==
    ASSUME ExtendInv, pc = "find", NEW w, InHand(w)
    PROVE  /\ i \in Pos /\ N \in Nat /\ n \in 0 .. N /\ i \in 1 .. n - 1 /\ i \in 0 .. N
           /\ w \in [Pos -> Pos] /\ tmp[1] = i /\ key[i] \in Int
           /\ \A p \in 0 .. i - 1 : p \in Pos /\ w[p] \in 0 .. i - 1 /\ key[w[p]] \in Int
           /\ \A p \in Pos : p >= i => w[p] = p
<1>1. i \in Pos /\ N \in Nat /\ n \in 0 .. N /\ i \in 1 .. n - 1 /\ i \in 0 .. N /\ tmp[1] = i
  BY NAssumption DEF ExtendInv, Finding, CallFacts, Pos
<1>2. /\ w \in [Pos -> Pos]
      /\ \A p \in 0 .. i - 1 : p \in Pos /\ w[p] \in 0 .. i - 1
  BY <1>1, CompletedHoldsTheFirst DEF InHand
<1>3. key[i] \in Int /\ \A p \in 0 .. i - 1 : key[w[p]] \in Int
  BY <1>1, <1>2 DEF ExtendInv, CallFacts
<1> QED
  BY <1>1, <1>2, <1>3 DEF InHand, Completed

LEMMA ShiftOneInv == ExtendInv /\ S!ShiftOne => ExtendInv'
<1> SUFFICES ASSUME ExtendInv, S!ShiftOne PROVE ExtendInv'
  OBVIOUS
<1>1. pc = "find" /\ Finding /\ entry = "extend_sorted" /\ S!Passes
  BY DEF ExtendInv, S!ShiftOne
<1>2. PICK w : InHand(w)
  BY <1>1 DEF Finding
<1>3. /\ i \in Pos /\ N \in Nat /\ n \in 0 .. N /\ i \in 1 .. n - 1
      /\ w \in [Pos -> Pos] /\ tmp[1] = i
      /\ \A p \in 0 .. i - 1 : p \in Pos /\ w[p] \in 0 .. i - 1
  BY <1>1, <1>2, InHandCells
<1>4. v = MovedUp(w, i, j) /\ j \in 1 .. i
  BY <1>1, <1>2 DEF InHand, Finding, S!Passes
<1>5. v[j - 1] = w[j - 1] /\ j \in Pos /\ j \in Int
  <2>1. j - 1 \in 0 .. i - 1 /\ j \in 0 .. N - 1
    BY <1>3, <1>4
  <2> QED
    BY <1>3, <1>4, <2>1 DEF MovedUp, Pos
<1>6. key[i] < key[w[j - 1]]
  BY <1>1, <1>3, <1>5, SameNotions DEF S!Passes
<1>7. /\ v' = [v EXCEPT ![j] = w[j - 1]] /\ j' = j - 1
      /\ UNCHANGED <<entry, key, n, k, i, lo, hi, tmp, t, pc>>
  BY <1>5 DEF S!ShiftOne
<1>8. v' = MovedUp(w, i, j - 1)
  <2>1. v' \in [Pos -> Pos] /\ v \in [Pos -> Pos]
    <3>1. \A p \in Pos : p \in j + 1 .. i => p - 1 \in Pos
      BY <1>3, <1>4 DEF Pos
    <3>2. v \in [Pos -> Pos]
      BY <1>3, <1>4, <3>1 DEF MovedUp
    <3>3. w[j - 1] \in Pos
      <4>1. j - 1 \in 0 .. i - 1
        BY <1>3, <1>4
      <4>2. j - 1 \in Pos
        BY <1>3, <4>1
      <4> QED
        BY <1>3, <4>2
    <3> QED
      BY <1>7, <3>2, <3>3
  <2>2. \A p \in Pos : v'[p] = IF p = j THEN w[j - 1] ELSE v[p]
    BY <1>7, <2>1
  <2>3. \A p \in Pos : v[p] = IF p \in j + 1 .. i THEN w[p - 1] ELSE w[p]
    BY <1>4 DEF MovedUp
  <2>4. \A p \in Pos : p \in (j - 1) + 1 .. i <=> p = j \/ p \in j + 1 .. i
    <3>1. j \in Nat /\ i \in Nat /\ j <= i /\ \A p \in Pos : p \in Int
      BY <1>3, <1>4 DEF Pos
    <3> QED
      BY <3>1
  <2>5. \A p \in Pos : v'[p] = IF p \in (j - 1) + 1 .. i THEN w[p - 1] ELSE w[p]
    BY <1>4, <2>2, <2>3, <2>4
  <2> QED
    BY <2>1, <2>5 DEF MovedUp
<1>9. \A p \in j - 1 .. i - 1 : key[i] < key[w[p]]
  BY <1>1, <1>2, <1>3, <1>4, <1>6 DEF InHand
<1>10. InHand(w)'
  BY <1>1, <1>2, <1>7, <1>8, <1>9 DEF InHand, Completed, InOrder, Before, MovedUp
<1>11. CallFacts'
  BY <1>7 DEF ExtendInv, CallFacts
<1> QED
  BY <1>1, <1>4, <1>7, <1>10, <1>11 DEF ExtendInv, Finding

LEMMA ScanOneInv == ExtendInv /\ S!ScanOne => ExtendInv'
<1> SUFFICES ASSUME ExtendInv, S!ScanOne PROVE ExtendInv'
  OBVIOUS
<1>1. pc = "find" /\ Finding /\ entry = "extend_sorted_scan" /\ S!Passes
  BY DEF ExtendInv, S!ScanOne
<1>2. PICK w : InHand(w)
  BY <1>1 DEF Finding
<1>3. i \in 1 .. n - 1 /\ tmp[1] = i /\ n \in Nat
  BY <1>1, <1>2, InHandCells
<1>4. v = w /\ j \in 1 .. i
  BY <1>1, <1>2 DEF InHand, Finding, S!Passes
<1>5. key[i] < key[w[j - 1]]
  BY <1>1, <1>3, <1>4, SameNotions DEF S!Passes
<1>6. j' = j - 1 /\ UNCHANGED <<entry, key, v, n, k, i, lo, hi, tmp, t, pc>>
  BY DEF S!ScanOne
<1>7. \A p \in j - 1 .. i - 1 : key[i] < key[w[p]]
  BY <1>1, <1>2, <1>3, <1>4, <1>5 DEF InHand
<1>8. InHand(w)'
  BY <1>1, <1>2, <1>4, <1>6, <1>7 DEF InHand, Completed, InOrder, Before
<1>9. CallFacts'
  BY <1>6 DEF ExtendInv, CallFacts
<1> QED
  BY <1>1, <1>4, <1>6, <1>8, <1>9 DEF ExtendInv, Finding

LEMMA ProbeInv == ExtendInv /\ S!Probe => ExtendInv'
<1> SUFFICES ASSUME ExtendInv, S!Probe PROVE ExtendInv'
  OBVIOUS
<1> DEFINE mid == (lo + hi) \div 2
<1>1. pc = "find" /\ Finding /\ entry = "extend_sorted_bsearch" /\ lo < hi
  BY DEF ExtendInv, S!Probe
<1>2. PICK w : InHand(w)
  BY <1>1 DEF Finding
<1>3. /\ i \in 1 .. n - 1 /\ tmp[1] = i /\ n \in 0 .. N /\ i \in 0 .. N /\ w \in [Pos -> Pos]
      /\ key[i] \in Int
      /\ \A p \in 0 .. i - 1 : key[w[p]] \in Int
  BY <1>1, <1>2, InHandCells
<1>4. v = w /\ lo \in 0 .. i /\ hi \in lo .. i /\ InOrder(w, 0, i)
  BY <1>1, <1>2 DEF InHand, Finding, Completed
<1>5. mid \in lo .. hi - 1 /\ mid \in 0 .. i - 1
  <2>1. lo \in Nat /\ hi \in Nat /\ i \in Nat /\ lo < hi /\ hi <= i
    BY <1>1, <1>3, <1>4
  <2>2. lo <= mid /\ mid < hi /\ mid \in Int
    BY <2>1
  <2> QED
    BY <2>1, <2>2
<1>6. \A p \in 0 .. i - 1 : (p <= mid => key[w[p]] <= key[w[mid]])
                           /\ (mid <= p => key[w[mid]] <= key[w[p]])
  <2> HIDE DEF mid
  <2> QED
    BY <1>3, <1>4, <1>5, InOrderKeys DEF ExtendInv
<1>7. /\ IF key[i] < key[w[mid]] THEN hi' = mid /\ UNCHANGED lo ELSE lo' = mid + 1 /\ UNCHANGED hi
      /\ UNCHANGED <<entry, key, v, n, k, i, j, tmp, t, pc>>
  BY <1>3, <1>4, SameNotions DEF S!Probe
<1> HIDE DEF mid
<1>8. CallFacts'
  BY <1>7 DEF ExtendInv, CallFacts
<1>9. lo' \in 0 .. i /\ hi' \in lo' .. i
  <2>1. lo \in Nat /\ hi \in Nat /\ i \in Nat /\ lo < hi /\ hi <= i
    BY <1>1, <1>3, <1>4
  <2>2. lo <= mid /\ mid < hi /\ mid \in Int
    BY <1>5, <2>1
  <2>3. (lo' = lo /\ hi' = mid) \/ (lo' = mid + 1 /\ hi' = hi)
    BY <1>7
  <2> QED
    BY <2>1, <2>2, <2>3
<1>10. \A p \in 0 .. lo' - 1 : key[w[p]] <= key[i]
  BY <1>2, <1>3, <1>4, <1>5, <1>6, <1>7 DEF InHand
<1>11. \A p \in hi' .. i - 1 : key[i] < key[w[p]]
  BY <1>1, <1>2, <1>3, <1>4, <1>5, <1>6, <1>7 DEF InHand
<1>12. InHand(w)'
  BY <1>1, <1>2, <1>4, <1>7, <1>10, <1>11 DEF InHand, Completed, InOrder, Before
<1> QED
  BY <1>1, <1>7, <1>8, <1>9, <1>12 DEF ExtendInv, Finding

LEMMA DropInv == ExtendInv /\ S!Drop => ExtendInv'
<1> SUFFICES ASSUME ExtendInv, S!Drop PROVE ExtendInv'
  OBVIOUS
<1>1. pc = "find" /\ Finding /\ CallFacts
  BY DEF ExtendInv, S!Drop
<1>2. PICK w : InHand(w)
  BY <1>1 DEF Finding
<1>3. /\ i \in Pos /\ N \in Nat /\ n \in 0 .. N /\ i \in 1 .. n - 1 /\ i \in 0 .. N
      /\ w \in [Pos -> Pos] /\ tmp[1] = i /\ key[i] \in Int
      /\ \A p \in 0 .. i - 1 : p \in Pos /\ w[p] \in 0 .. i - 1 /\ key[w[p]] \in Int
  BY <1>1, <1>2, InHandCells
<1> DEFINE to == IF entry = "extend_sorted_bsearch" THEN lo ELSE j
<1>4. to \in 0 .. i
  BY <1>1 DEF Finding
<1>5. v' = Insertion(w, i, to)
  <2>1. CASE entry = "extend_sorted_bsearch"
    <3>1. v = w /\ v' = S!Inserted(lo)
      BY <1>2, <2>1 DEF S!Drop, InHand
    <3> QED
      BY <1>3, <2>1, <3>1, SameNotions DEF S!Inserted, Insertion
  <2>2. CASE entry = "extend_sorted_scan"
    <3>1. v = w /\ v' = S!Inserted(j)
      BY <1>2, <2>2 DEF S!Drop, InHand
    <3> QED
      BY <1>3, <2>2, <3>1, SameNotions DEF S!Inserted, Insertion
  <2>3. CASE entry = "extend_sorted"
    <3>1. v = MovedUp(w, i, j) /\ v' = [v EXCEPT ![j] = i]
      BY <1>2, <1>3, <2>3 DEF S!Drop, InHand
    <3> QED
      BY <1>3, <1>4, <2>3, <3>1 DEF MovedUp, Insertion, Pos
  <2> QED
    BY <2>1, <2>2, <2>3 DEF ExtendInv, S!Extends
<1>6. \A p \in 0 .. to - 1 : key[w[p]] <= key[i]
  <2>1. CASE entry = "extend_sorted_bsearch"
    BY <1>2, <2>1 DEF InHand
  <2>2. CASE entry # "extend_sorted_bsearch"
    <3>1. ~ S!Passes /\ to = j /\ j \in 0 .. i
      BY <1>1, <2>2 DEF S!Drop, Finding
    <3>2. CASE j = 0
      BY <3>1, <3>2
    <3>3. CASE j > 0
      <4>1. v[j - 1] = w[j - 1] /\ j - 1 \in 0 .. i - 1
        BY <1>2, <1>3, <3>1, <3>3 DEF InHand, MovedUp
      <4>2. key[w[j - 1]] <= key[i]
        BY <1>3, <3>1, <3>3, <4>1, SameNotions DEF S!Passes
      <4>3. \A p \in 0 .. j - 1 : key[w[p]] <= key[w[j - 1]]
        BY <1>1, <1>2, <1>3, <4>1, InOrderKeys DEF InHand, Completed
      <4> QED
        BY <1>3, <3>1, <4>1, <4>2, <4>3
    <3> QED
      BY <3>1, <3>2, <3>3
  <2> QED
    BY <2>1, <2>2
<1>7. \A p \in to .. i - 1 : key[i] < key[w[p]]
  <2>1. CASE entry = "extend_sorted_bsearch"
    <3>1. lo = hi
      BY <2>1 DEF S!Drop
    <3> QED
      BY <1>2, <2>1, <3>1 DEF InHand
  <2>2. CASE entry # "extend_sorted_bsearch"
    BY <1>2, <2>2 DEF InHand
  <2> QED
    BY <2>1, <2>2
<1> HIDE DEF to
<1>8. Completed(v', i + 1)
  BY <1>1, <1>2, <1>3, <1>4, <1>5, <1>6, <1>7, InsertionCompletes DEF InHand
<1>9. i' = i + 1 /\ pc' = "next" /\ UNCHANGED <<entry, key, n, k>>
  BY DEF S!Drop
<1>10. CallFacts'
  BY <1>1, <1>9 DEF CallFacts
<1>11. Completed(v, Behind)'
  BY <1>3, <1>8, <1>9 DEF Behind, Completed, InOrder, Before
<1> QED
  BY <1>3, <1>9, <1>10, <1>11 DEF ExtendInv
-----------------------------------------------------------------------------
(***************************************************************************)
(* The merge forms.  The elements 0 .. i - 1 of the prefix and the first t *)
(* of the tail, k .. k + t - 1, are still to be placed; cells j .. n - 1   *)
(* hold the others.                                                        *)
(***************************************************************************)
\* The prefix and the tail are each in order when the call is made.
SortedKeys(from, to) == \A x, y \in from .. to - 1 : x <= y => key[x] <= key[y]

\* The array with what is left of the tail in the cells that are free.
Refilled == [p \in Pos |-> IF p \in i .. j - 1 THEN k + (p - i) ELSE v[p]]

Merging ==
    /\ i \in 0 .. k /\ t \in 0 .. n - k /\ j = i + t
    /\ tmp = [x \in 1 .. n - k |-> k + x - 1]
    /\ v \in [Pos -> Pos]
    /\ \A p \in Pos : p < i \/ p >= n => v[p] = p
    /\ IsArrangement(Refilled)
    /\ InOrder(v, j, n)
    /\ \A q \in j .. n - 1 :
          (\A x \in 0 .. i - 1 : Before(x, v[q])) /\ (\A x \in k .. k + t - 1 : Before(x, v[q]))

MergeInv ==
    /\ CallFacts
    /\ entry \in S!Merges
    /\ SortedKeys(0, k) /\ SortedKeys(k, n)
    /\ pc \in {"call", "merge", "done"}
    /\ pc = "call" => Untouched
    /\ pc = "merge" => Merging
    /\ pc = "done" => Completed(v, n)

\* Before is transitive, and elements whose keys ascend with their numbers are in
\* its order.
LEMMA BeforeTwice ==
    ASSUME CallFacts, NEW x \in Pos, NEW y \in Pos, NEW z \in Pos, Before(x, y), Before(y, z)
    PROVE  Before(x, z)
<1>1. key[x] \in Int /\ key[y] \in Int /\ key[z] \in Int /\ x \in Int /\ y \in Int /\ z \in Int
  BY DEF CallFacts, Pos
<1> QED
  BY <1>1 DEF Before

LEMMA SortedBefore ==
    ASSUME CallFacts, NEW from \in 0 .. N, NEW to \in 0 .. N, SortedKeys(from, to),
           NEW x \in from .. to - 1, NEW y \in from .. to - 1, x < y
    PROVE  Before(x, y)
<1>1. N \in Nat /\ x \in Pos /\ y \in Pos /\ key[x] \in Int /\ key[y] \in Int
  BY NAssumption DEF CallFacts, Pos
<1> QED
  BY <1>1 DEF Before, SortedKeys

\* The identity is an arrangement.
LEMMA UntouchedArrangement ==
    ASSUME Untouched
    PROVE  IsArrangement(v) /\ \A p \in Pos : v[p] = p
  BY DEF Untouched, IsArrangement

LEMMA NothingToMergeInv == MergeInv /\ S!NothingToMerge => MergeInv'
<1> SUFFICES ASSUME MergeInv, S!NothingToMerge PROVE MergeInv'
  OBVIOUS
<1>1. CallFacts /\ Untouched /\ SortedKeys(0, k) /\ SortedKeys(k, n) /\ (n - k = 0 \/ k = 0)
      /\ N \in Nat /\ n \in 0 .. N /\ k \in 0 .. n
  BY NAssumption DEF MergeInv, S!NothingToMerge, CallFacts
<1>2. SortedKeys(0, n)
  BY <1>1 DEF SortedKeys
<1>3. IsArrangement(v) /\ \A p \in Pos : v[p] = p
  BY <1>1, UntouchedArrangement
<1>4. InOrder(v, 0, n)
  <2> SUFFICES ASSUME NEW p \in 0 .. n - 1, NEW q \in 0 .. n - 1, p < q PROVE Before(v[p], v[q])
    BY DEF InOrder
  <2>1. p \in Pos /\ q \in Pos /\ 0 \in 0 .. N
    BY <1>1 DEF Pos
  <2>2. Before(p, q)
    BY <1>1, <1>2, <2>1, SortedBefore
  <2> QED
    BY <1>3, <2>1, <2>2
<1>5. pc' = "done" /\ UNCHANGED <<entry, key, v, n, k>>
  BY DEF S!NothingToMerge
<1>6. Completed(v, n)'
  BY <1>3, <1>4, <1>5 DEF Completed, InOrder, Before
<1> QED
  BY <1>5, <1>6 DEF MergeInv, CallFacts, SortedKeys

LEMMA CopyTailInv == MergeInv /\ S!CopyTail => MergeInv'
<1> SUFFICES ASSUME MergeInv, S!CopyTail PROVE MergeInv'
  OBVIOUS
<1>1. CallFacts /\ Untouched /\ N \in Nat /\ n \in 0 .. N /\ k \in 0 .. n
  BY NAssumption DEF MergeInv, S!CopyTail, CallFacts
<1>2. IsArrangement(v) /\ v \in [Pos -> Pos] /\ \A p \in Pos : v[p] = p
  BY <1>1, UntouchedArrangement DEF IsArrangement
<1>3. /\ tmp' = [x \in 1 .. n - k |-> v[k + x - 1]] /\ t' = n - k /\ i' = k /\ j' = n
      /\ pc' = "merge" /\ UNCHANGED <<entry, key, v, n, k>>
  BY DEF S!CopyTail
<1>4. tmp' = [x \in 1 .. n - k |-> k + x - 1]
  <2>1. \A x \in 1 .. n - k : k + x - 1 \in Pos
    BY <1>1 DEF Pos
  <2> QED
    BY <1>2, <1>3, <2>1
<1>5. Refilled' = v
  <2>1. \A p \in Pos : (IF p \in k .. n - 1 THEN k + (p - k) ELSE v[p]) = v[p]
    BY <1>1, <1>2 DEF Pos
  <2>2. Refilled' = [p \in Pos |-> IF p \in k .. n - 1 THEN k + (p - k) ELSE v[p]]
    BY <1>3 DEF Refilled
  <2> QED
    BY <1>2, <2>1, <2>2
<1>6. InOrder(v, j, n)' /\ n .. n - 1 = {}
  BY <1>1, <1>3 DEF InOrder
<1>7. Merging'
  <2>1. i' \in 0 .. k' /\ t' \in 0 .. n' - k' /\ j' = i' + t'
    BY <1>1, <1>3
  <2>2. (tmp = [x \in 1 .. n - k |-> k + x - 1])'
    BY <1>3, <1>4
  <2>3. (v \in [Pos -> Pos] /\ \A p \in Pos : p < i \/ p >= n => v[p] = p)'
    BY <1>2, <1>3
  <2>4. IsArrangement(Refilled)'
    BY <1>2, <1>5
  <2>5. j' .. n' - 1 = {}
    BY <1>3, <1>6
  <2> QED
    BY <1>6, <2>1, <2>2, <2>3, <2>4, <2>5 DEF Merging
<1> QED
  BY <1>3, <1>7 DEF MergeInv, CallFacts, SortedKeys

\* The numbers of a merge.
LEMMA MergeNumbers ==
    ASSUME MergeInv, pc = "merge"
    PROVE  /\ N \in Nat /\ n \in 0 .. N /\ k \in 0 .. n /\ i \in 0 .. k /\ t \in 0 .. n - k
           /\ j = i + t /\ j \in 0 .. n
           /\ v \in [Pos -> Pos]
           /\ i > 0 => i - 1 \in Pos /\ v[i - 1] = i - 1
           /\ t > 0 => tmp[t] = k + t - 1 /\ k + t - 1 \in Pos
<1>1. /\ N \in Nat /\ n \in 0 .. N /\ k \in 0 .. n /\ i \in 0 .. k /\ t \in 0 .. n - k
      /\ j = i + t /\ v \in [Pos -> Pos]
      /\ tmp = [x \in 1 .. n - k |-> k + x - 1]
      /\ \A p \in Pos : p < i \/ p >= n => v[p] = p
  BY NAssumption DEF MergeInv, CallFacts, Merging
<1>2. j \in 0 .. n
  BY <1>1
<1>3. i > 0 => i - 1 \in Pos /\ v[i - 1] = i - 1
  BY <1>1 DEF Pos
<1>4. t > 0 => tmp[t] = k + t - 1 /\ k + t - 1 \in Pos
  BY <1>1 DEF Pos
<1> QED
  BY <1>1, <1>2, <1>3, <1>4

\* The last element of the prefix is placed: what is left of the tail moves down.
LEMMA PrefixPlaced ==
    ASSUME MergeInv, pc = "merge", i > 0, t > 0 => Before(k + t - 1, i - 1),
           v' = [v EXCEPT ![j - 1] = i - 1], i' = i - 1, j' = j - 1, t' = t,
           UNCHANGED <<entry, key, n, k, tmp>>
    PROVE  Merging'
<1>1. /\ N \in Nat /\ n \in 0 .. N /\ k \in 0 .. n /\ i \in 0 .. k /\ t \in 0 .. n - k
      /\ j = i + t /\ j \in 0 .. n /\ v \in [Pos -> Pos] /\ i - 1 \in Pos /\ v[i - 1] = i - 1
      /\ t > 0 => k + t - 1 \in Pos
  BY MergeNumbers
<1>2. CallFacts /\ SortedKeys(0, k) /\ SortedKeys(k, n) /\ Merging /\ k \in 0 .. N /\ 0 \in 0 .. N
  BY <1>1 DEF MergeInv
<1>3. j - 1 \in Pos
  BY <1>1 DEF Pos
<1>4. v' \in [Pos -> Pos] /\ \A p \in Pos : v'[p] = IF p = j - 1 THEN i - 1 ELSE v[p]
  BY <1>1, <1>3
<1>5. \A p \in Pos : p < i - 1 \/ p >= n => v'[p] = p
  <2> SUFFICES ASSUME NEW p \in Pos, p < i - 1 \/ p >= n PROVE v'[p] = p
    OBVIOUS
  <2>1. p < i \/ p >= n
    BY <1>1 DEF Pos
  <2>2. p # j - 1
    BY <1>1 DEF Pos
  <2> QED
    BY <1>2, <1>4, <2>1, <2>2 DEF Merging
<1>6. \A q \in j .. n - 1 : q \in Pos /\ v'[q] = v[q] /\ v[q] \in Pos
  BY <1>1, <1>4 DEF Pos
<1>7. v'[j - 1] = i - 1
  BY <1>3, <1>4
<1>8. \A q \in j .. n - 1 : Before(i - 1, v[q])
  BY <1>1, <1>2 DEF Merging
<1>9. \A x \in 0 .. i - 2 : x \in Pos /\ Before(x, i - 1)
  <2> SUFFICES ASSUME NEW x \in 0 .. i - 2 PROVE x \in Pos /\ Before(x, i - 1)
    OBVIOUS
  <2>1. x \in 0 .. k - 1 /\ i - 1 \in 0 .. k - 1 /\ x < i - 1 /\ x \in Pos
    BY <1>1 DEF Pos
  <2> QED
    BY <1>2, <2>1, SortedBefore
<1>10. \A x \in k .. k + t - 1 : x \in Pos /\ Before(x, i - 1)
  <2> SUFFICES ASSUME NEW x \in k .. k + t - 1 PROVE x \in Pos /\ Before(x, i - 1)
    OBVIOUS
  <2>1. x \in Pos /\ t > 0 /\ k + t - 1 \in Pos /\ n \in 0 .. N
    BY <1>1 DEF Pos
  <2>2. Before(k + t - 1, i - 1)
    BY <2>1
  <2>3. CASE x = k + t - 1
    BY <2>1, <2>2, <2>3
  <2>4. CASE x < k + t - 1
    <3>1. x \in k .. n - 1 /\ k + t - 1 \in k .. n - 1
      BY <1>1, <2>1
    <3>2. Before(x, k + t - 1)
      BY <1>2, <2>1, <2>4, <3>1, SortedBefore
    <3> QED
      BY <1>1, <1>2, <2>1, <2>2, <3>2, BeforeTwice
  <2> QED
    BY <1>1, <2>1, <2>3, <2>4
<1>11. ASSUME NEW q \in j - 1 .. n - 1
       PROVE  /\ \A x \in 0 .. (i - 1) - 1 : Before(x, v'[q])
              /\ \A x \in k .. k + t - 1 : Before(x, v'[q])
  <2>1. (i - 1) - 1 = i - 2 /\ \A x \in 0 .. i - 2 : x \in 0 .. i - 1
    BY <1>1
  <2>2. CASE q = j - 1
    BY <1>7, <1>9, <1>10, <2>1, <2>2
  <2>3. CASE q \in j .. n - 1
    BY <1>2, <1>6, <2>1, <2>3 DEF Merging
  <2> QED
    BY <1>1, <2>2, <2>3
<1>12. \A p, q \in j - 1 .. n - 1 : p < q => Before(v'[p], v'[q])
  <2> SUFFICES ASSUME NEW p \in j - 1 .. n - 1, NEW q \in j - 1 .. n - 1, p < q
               PROVE  Before(v'[p], v'[q])
    OBVIOUS
  <2>1. q \in j .. n - 1
    BY <1>1
  <2>2. CASE p = j - 1
    BY <1>6, <1>7, <1>8, <2>1, <2>2
  <2>3. CASE p \in j .. n - 1
    BY <1>2, <1>6, <2>1, <2>3 DEF Merging, InOrder
  <2> QED
    BY <1>1, <2>2, <2>3
<1>13. IsArrangement(Refilled')
  <2> DEFINE r == Refilled
             u == Refilled'
  <2>1. /\ \A p \in Pos : r[p] = IF p \in i .. j - 1 THEN k + (p - i) ELSE v[p]
        /\ r \in [Pos -> Pos] /\ \A p, q \in Pos : r[p] = r[q] => p = q
    BY <1>2 DEF Merging, Refilled, IsArrangement
  <2>2. u = [p \in Pos |-> IF p \in i - 1 .. (j - 1) - 1 THEN k + (p - (i - 1)) ELSE v'[p]]
    BY DEF Refilled
  <2>3. \A p \in Pos : u[p] = IF p \in i - 1 .. j - 2 THEN k + (p - (i - 1)) ELSE v'[p]
    BY <1>1, <2>2
  <2> HIDE DEF r, u
  <2>4. \A p \in Pos : p \in i - 1 .. j - 2 => p + 1 \in Pos /\ u[p] = r[p + 1]
    <3> SUFFICES ASSUME NEW p \in Pos, p \in i - 1 .. j - 2 PROVE p + 1 \in Pos /\ u[p] = r[p + 1]
      OBVIOUS
    <3>1. p + 1 \in Pos /\ p + 1 \in i .. j - 1 /\ k + (p - (i - 1)) = k + ((p + 1) - i)
      BY <1>1 DEF Pos
    <3> QED
      BY <2>1, <2>3, <3>1
  <2>5. u[j - 1] = r[i - 1]
    <3>1. j - 1 \notin i - 1 .. j - 2 /\ i - 1 \notin i .. j - 1
      BY <1>1
    <3> QED
      BY <1>1, <1>3, <1>7, <2>1, <2>3, <3>1
  <2>6. \A p \in Pos : p \notin i - 1 .. j - 1 => u[p] = r[p]
    <3> SUFFICES ASSUME NEW p \in Pos, p \notin i - 1 .. j - 1 PROVE u[p] = r[p]
      OBVIOUS
    <3>1. p \notin i - 1 .. j - 2 /\ p \notin i .. j - 1 /\ p # j - 1
      BY <1>1 DEF Pos
    <3> QED
      BY <1>4, <2>1, <2>3, <3>1
  <2>7. \A p \in Pos : p \in i - 1 .. j - 2 \/ p = j - 1 \/ p \notin i - 1 .. j - 1
    BY <1>1 DEF Pos
  <2>8. \A p \in Pos : u[p] \in Pos
    BY <1>1, <1>3, <2>1, <2>4, <2>5, <2>6, <2>7
  <2> DEFINE from(p) == IF p \in i - 1 .. j - 2 THEN p + 1 ELSE IF p = j - 1 THEN i - 1 ELSE p
  <2>9. \A p \in Pos : from(p) \in Pos /\ u[p] = r[from(p)]
    BY <1>1, <1>3, <2>4, <2>5, <2>6, <2>7
  <2>10. \A p, q \in Pos : from(p) = from(q) => p = q
    BY <1>1 DEF Pos
  <2>11. \A p, q \in Pos : u[p] = u[q] => p = q
    <3> HIDE DEF from
    <3> QED
      BY <2>1, <2>9, <2>10
  <2>12. u = [p \in Pos |-> u[p]]
    BY <2>2 DEF u
  <2>13. u \in [Pos -> Pos]
    BY <2>8, <2>12
  <2> QED
    BY <2>11, <2>13 DEF IsArrangement, u
<1>14. i' \in 0 .. k' /\ t' \in 0 .. n' - k' /\ j' = i' + t'
  BY <1>1
<1>15. InOrder(v, j, n)'
  BY <1>12 DEF InOrder, Before
<1>16. \A q \in j' .. n' - 1 : (\A x \in 0 .. i' - 1 : Before(x, v[q])')
                            /\ (\A x \in k' .. k' + t' - 1 : Before(x, v[q])')
  BY <1>11 DEF Before
<1> QED
  BY <1>2, <1>4, <1>5, <1>13, <1>14, <1>15, <1>16 DEF Merging

\* The last element of the tail is placed, in the last cell that is free.
LEMMA TailPlaced ==
    ASSUME MergeInv, pc = "merge", t > 0, i > 0 => Before(i - 1, k + t - 1),
           v' = [v EXCEPT ![j - 1] = k + t - 1], i' = i, j' = j - 1, t' = t - 1,
           UNCHANGED <<entry, key, n, k, tmp>>
    PROVE  Merging'
<1>1. /\ N \in Nat /\ n \in 0 .. N /\ k \in 0 .. n /\ i \in 0 .. k /\ t \in 0 .. n - k
      /\ j = i + t /\ j \in 0 .. n /\ v \in [Pos -> Pos] /\ k + t - 1 \in Pos
      /\ i > 0 => i - 1 \in Pos
  BY MergeNumbers
<1>2. CallFacts /\ SortedKeys(0, k) /\ SortedKeys(k, n) /\ Merging /\ k \in 0 .. N /\ 0 \in 0 .. N
  BY <1>1 DEF MergeInv
<1> DEFINE e == k + t - 1
<1>3. j - 1 \in Pos /\ e \in Pos /\ e \in k .. n - 1
  BY <1>1 DEF Pos
<1>4. v' \in [Pos -> Pos] /\ \A p \in Pos : v'[p] = IF p = j - 1 THEN e ELSE v[p]
  BY <1>1, <1>3
<1>5. \A p \in Pos : p < i \/ p >= n => v'[p] = p
  <2> SUFFICES ASSUME NEW p \in Pos, p < i \/ p >= n PROVE v'[p] = p
    OBVIOUS
  <2>1. p # j - 1
    BY <1>1 DEF Pos
  <2> QED
    BY <1>2, <1>4, <2>1 DEF Merging
<1>6. \A q \in j .. n - 1 : q \in Pos /\ v'[q] = v[q] /\ v[q] \in Pos
  BY <1>1, <1>4 DEF Pos
<1>7. v'[j - 1] = e
  BY <1>3, <1>4
<1>8. \A q \in j .. n - 1 : Before(e, v[q])
  <2>1. e \in k .. k + t - 1
    BY <1>1
  <2> QED
    BY <1>2, <2>1 DEF Merging
<1> HIDE DEF e
<1>9. \A x \in k .. e - 1 : x \in Pos /\ Before(x, e)
  <2> SUFFICES ASSUME NEW x \in k .. e - 1 PROVE x \in Pos /\ Before(x, e)
    OBVIOUS
  <2>1. x \in k .. n - 1 /\ x < e /\ x \in Pos /\ n \in 0 .. N
    BY <1>1, <1>3 DEF Pos
  <2> QED
    BY <1>2, <1>3, <2>1, SortedBefore
<1>10. \A x \in 0 .. i - 1 : x \in Pos /\ Before(x, e)
  <2> SUFFICES ASSUME NEW x \in 0 .. i - 1 PROVE x \in Pos /\ Before(x, e)
    OBVIOUS
  <2>1. x \in Pos /\ i > 0 /\ i - 1 \in Pos
    BY <1>1 DEF Pos
  <2>2. Before(i - 1, e)
    BY <2>1 DEF e
  <2>3. CASE x = i - 1
    BY <2>1, <2>2, <2>3
  <2>4. CASE x < i - 1
    <3>1. x \in 0 .. k - 1 /\ i - 1 \in 0 .. k - 1
      BY <1>1, <2>1
    <3>2. Before(x, i - 1)
      BY <1>2, <2>1, <2>4, <3>1, SortedBefore
    <3> QED
      BY <1>2, <1>3, <2>1, <2>2, <3>2, BeforeTwice
  <2> QED
    BY <1>1, <2>1, <2>3, <2>4
<1>11. ASSUME NEW q \in j - 1 .. n - 1
       PROVE  /\ \A x \in 0 .. i - 1 : Before(x, v'[q])
              /\ \A x \in k .. e - 1 : Before(x, v'[q])
  <2>1. \A x \in k .. e - 1 : x \in k .. k + t - 1
    BY <1>1 DEF e
  <2>2. CASE q = j - 1
    BY <1>7, <1>9, <1>10, <2>2
  <2>3. CASE q \in j .. n - 1
    BY <1>2, <1>6, <2>1, <2>3 DEF Merging
  <2> QED
    BY <1>1, <2>2, <2>3
<1>12. \A p, q \in j - 1 .. n - 1 : p < q => Before(v'[p], v'[q])
  <2> SUFFICES ASSUME NEW p \in j - 1 .. n - 1, NEW q \in j - 1 .. n - 1, p < q
               PROVE  Before(v'[p], v'[q])
    OBVIOUS
  <2>1. q \in j .. n - 1
    BY <1>1
  <2>2. CASE p = j - 1
    BY <1>6, <1>7, <1>8, <2>1, <2>2
  <2>3. CASE p \in j .. n - 1
    BY <1>2, <1>6, <2>1, <2>3 DEF Merging, InOrder
  <2> QED
    BY <1>1, <2>2, <2>3
<1>13. Refilled' = Refilled
  <2>1. ASSUME NEW p \in Pos
        PROVE  (IF p \in i .. (j - 1) - 1 THEN k + (p - i) ELSE v'[p])
                  = (IF p \in i .. j - 1 THEN k + (p - i) ELSE v[p])
    <3>1. CASE p = j - 1
      <4>1. p \in i .. j - 1 /\ p \notin i .. (j - 1) - 1 /\ k + (p - i) = e
        BY <1>1, <3>1 DEF e
      <4> QED
        BY <1>7, <3>1, <4>1
    <3>2. CASE p # j - 1
      <4>1. p \in i .. (j - 1) - 1 <=> p \in i .. j - 1
        BY <1>1, <3>2 DEF Pos
      <4> QED
        BY <1>4, <3>2, <4>1
    <3> QED
      BY <3>1, <3>2
  <2> QED
    BY <2>1 DEF Refilled
<1>14. i' \in 0 .. k' /\ t' \in 0 .. n' - k' /\ j' = i' + t'
  BY <1>1
<1>15. InOrder(v, j, n)'
  BY <1>12 DEF InOrder, Before
<1>16. \A q \in j' .. n' - 1 : (\A x \in 0 .. i' - 1 : Before(x, v[q])')
                            /\ (\A x \in k' .. k' + t' - 1 : Before(x, v[q])')
  <2>1. k' + t' - 1 = e - 1
    BY <1>1 DEF e
  <2> QED
    BY <1>11, <2>1 DEF Before
<1> QED
  BY <1>2, <1>4, <1>5, <1>13, <1>14, <1>15, <1>16 DEF Merging

LEMMA MergeStepInv == MergeInv /\ S!MergeStep => MergeInv'
<1> SUFFICES ASSUME MergeInv, S!MergeStep PROVE MergeInv'
  OBVIOUS
<1>1. pc = "merge" /\ t > 0 /\ S!PlaceLarger(S!FromPrefix) /\ CallFacts
  BY DEF S!MergeStep, MergeInv
<1>2. /\ N \in Nat /\ n \in 0 .. N /\ k \in 0 .. n /\ i \in 0 .. k /\ t \in 0 .. n - k
      /\ i > 0 => i - 1 \in Pos /\ v[i - 1] = i - 1
      /\ tmp[t] = k + t - 1 /\ k + t - 1 \in Pos
  BY <1>1, MergeNumbers
<1>3. key[k + t - 1] \in Int /\ (i > 0 => key[i - 1] \in Int)
  BY <1>1, <1>2 DEF CallFacts
<1>4. UNCHANGED <<entry, key, n, k, tmp, pc>>
  BY <1>1 DEF S!PlaceLarger
<1>5. Merging'
  <2>1. CASE S!FromPrefix
    <3>1. i > 0 /\ key[k + t - 1] < key[i - 1]
      BY <1>2, <2>1, SameNotions DEF S!FromPrefix
    <3>2. v' = [v EXCEPT ![j - 1] = i - 1] /\ i' = i - 1 /\ j' = j - 1 /\ t' = t
      BY <1>1, <1>2, <2>1, <3>1 DEF S!PlaceLarger
    <3> QED
      BY <1>1, <1>4, <3>1, <3>2, PrefixPlaced DEF Before
  <2>2. CASE ~ S!FromPrefix
    <3>1. i > 0 => key[i - 1] <= key[k + t - 1]
      BY <1>2, <1>3, <2>2, SameNotions DEF S!FromPrefix
    <3>2. i > 0 => Before(i - 1, k + t - 1)
      <4>1. i - 1 < k + t - 1
        BY <1>1, <1>2
      <4> QED
        BY <1>3, <3>1, <4>1 DEF Before
    <3>3. v' = [v EXCEPT ![j - 1] = k + t - 1] /\ i' = i /\ j' = j - 1 /\ t' = t - 1
      BY <1>1, <1>2, <2>2 DEF S!PlaceLarger
    <3> QED
      BY <1>1, <1>4, <3>2, <3>3, TailPlaced
  <2> QED
    BY <2>1, <2>2
<1> QED
  BY <1>1, <1>4, <1>5 DEF MergeInv, CallFacts, SortedKeys

LEMMA SelectStepInv == MergeInv /\ S!SelectStep => MergeInv'
<1> SUFFICES ASSUME MergeInv, S!SelectStep PROVE MergeInv'
  OBVIOUS
<1>1. /\ pc = "merge" /\ j > 0 /\ S!PlaceLarger(S!TakesPrefix) /\ CallFacts
      /\ entry = "merge_sorted_branchless"
  BY DEF S!SelectStep, MergeInv
<1>2. /\ N \in Nat /\ n \in 0 .. N /\ k \in 0 .. n /\ i \in 0 .. k /\ t \in 0 .. n - k /\ j = i + t
      /\ i > 0 => i - 1 \in Pos /\ v[i - 1] = i - 1
      /\ t > 0 => tmp[t] = k + t - 1 /\ k + t - 1 \in Pos
  BY <1>1, MergeNumbers
<1>3. (t > 0 => key[k + t - 1] \in Int) /\ (i > 0 => key[i - 1] \in Int)
  BY <1>1, <1>2 DEF CallFacts
<1>4. UNCHANGED <<entry, key, n, k, tmp, pc>>
  BY <1>1 DEF S!PlaceLarger
<1>5. entry \notin S!Stable
  BY <1>1 DEF S!Stable, S!Extends
<1>6. Merging'
  <2>1. CASE S!TakesPrefix
    <3>1. i > 0
      BY <1>1, <1>2, <2>1 DEF S!TakesPrefix
    <3>2. t > 0 => key[k + t - 1] <= key[i - 1]
      BY <1>2, <1>3, <2>1, <3>1, SameNotions DEF S!TakesPrefix
    <3>3. t > 0 => Before(k + t - 1, i - 1)
      BY <1>3, <1>5, <3>1, <3>2 DEF Before
    <3>4. v' = [v EXCEPT ![j - 1] = i - 1] /\ i' = i - 1 /\ j' = j - 1 /\ t' = t
      BY <1>1, <1>2, <2>1, <3>1 DEF S!PlaceLarger
    <3> QED
      BY <1>1, <1>4, <3>1, <3>3, <3>4, PrefixPlaced
  <2>2. CASE ~ S!TakesPrefix
    <3>1. t > 0
      BY <1>2, <2>2 DEF S!TakesPrefix
    <3>2. i > 0 => key[i - 1] < key[k + t - 1]
      BY <1>2, <2>2, <3>1, SameNotions DEF S!TakesPrefix
    <3>3. i > 0 => Before(i - 1, k + t - 1)
      BY <3>2 DEF Before
    <3>4. v' = [v EXCEPT ![j - 1] = k + t - 1] /\ i' = i /\ j' = j - 1 /\ t' = t - 1
      BY <1>1, <1>2, <2>2, <3>1 DEF S!PlaceLarger
    <3> QED
      BY <1>1, <1>4, <3>1, <3>3, <3>4, TailPlaced
  <2> QED
    BY <2>1, <2>2
<1> QED
  BY <1>1, <1>4, <1>6 DEF MergeInv, CallFacts, SortedKeys

LEMMA MergedInv == MergeInv /\ S!Merged => MergeInv'
<1> SUFFICES ASSUME MergeInv, S!Merged PROVE MergeInv'
  OBVIOUS
<1>1. pc = "merge" /\ CallFacts /\ Merging /\ SortedKeys(0, k) /\ (t = 0 \/ j = 0)
  BY DEF S!Merged, MergeInv
<1>2. /\ N \in Nat /\ n \in 0 .. N /\ k \in 0 .. n /\ i \in 0 .. k /\ t \in 0 .. n - k /\ j = i + t
      /\ v \in [Pos -> Pos]
  BY <1>1, MergeNumbers
<1>3. t = 0 /\ j = i
  BY <1>1, <1>2
<1>4. Refilled = v
  <2>1. \A p \in Pos : p \notin i .. j - 1
    BY <1>2, <1>3
  <2> QED
    BY <1>2, <2>1 DEF Refilled
<1>5. \A p \in 0 .. i - 1 : p \in Pos /\ v[p] = p
  BY <1>1, <1>2 DEF Merging, Pos
<1>6. InOrder(v, 0, n)
  <2> SUFFICES ASSUME NEW p \in 0 .. n - 1, NEW q \in 0 .. n - 1, p < q PROVE Before(v[p], v[q])
    BY DEF InOrder
  <2>1. CASE q < i
    <3>1. p \in 0 .. k - 1 /\ q \in 0 .. k - 1 /\ 0 \in 0 .. N /\ k \in 0 .. N
      BY <1>2, <2>1
    <3>2. v[p] = p /\ v[q] = q
      BY <1>2, <1>5, <2>1
    <3> QED
      BY <1>1, <3>1, <3>2, SortedBefore
  <2>2. CASE p < i /\ q >= i
    <3>1. p \in 0 .. i - 1 /\ q \in j .. n - 1
      BY <1>2, <1>3, <2>2
    <3> QED
      BY <1>1, <1>5, <3>1 DEF Merging
  <2>3. CASE p >= i
    <3>1. p \in j .. n - 1 /\ q \in j .. n - 1
      BY <1>2, <1>3, <2>3
    <3> QED
      BY <1>1, <3>1 DEF Merging, InOrder
  <2> QED
    BY <1>2, <2>1, <2>2, <2>3
<1>7. Completed(v, n)
  BY <1>1, <1>4, <1>6 DEF Completed, Merging
<1>8. pc' = "done" /\ UNCHANGED <<entry, key, v, n, k>>
  BY DEF S!Merged
<1>9. Completed(v, n)'
  BY <1>7, <1>8 DEF Completed, InOrder, Before
<1> QED
  BY <1>8, <1>9 DEF MergeInv, CallFacts, SortedKeys
-----------------------------------------------------------------------------
(***************************************************************************)
(* Steps one after the other, in general: step says what the c-th of them  *)
(* makes of what was there before it.                                      *)
(***************************************************************************)
IsSeries(f, start, step, m) ==
    f[0] = start /\ \A c \in 1 .. m : f[c] = step[<<f[c - 1], c>>]

LEMMA SeriesExists ==
    ASSUME NEW m \in Nat, NEW D, NEW start \in D, NEW step \in [D \X (1 .. m) -> D]
    PROVE  \E f \in [0 .. m -> D] : IsSeries(f, start, step, m)
<1> DEFINE s == {c \in 0 .. m : \E f \in [0 .. c -> D] : IsSeries(f, start, step, c)}
<1>1. 0 \in s
  <2> DEFINE f == [c \in 0 .. 0 |-> start]
  <2>1. f \in [0 .. 0 -> D] /\ f[0] = start
    OBVIOUS
  <2>2. IsSeries(f, start, step, 0)
    BY <2>1 DEF IsSeries
  <2> QED
    BY <2>1, <2>2
<1>2. ASSUME NEW c \in 0 .. m - 1, c \in s PROVE c + 1 \in s
  <2>1. PICK f \in [0 .. c -> D] : IsSeries(f, start, step, c)
    BY <1>2
  <2> DEFINE g == [b \in 0 .. c + 1 |-> IF b = c + 1 THEN step[<<f[c], c + 1>>] ELSE f[b]]
  <2>2. step[<<f[c], c + 1>>] \in D
    BY <1>2
  <2>3. g \in [0 .. c + 1 -> D] /\ (\A b \in 0 .. c : g[b] = f[b])
        /\ g[c + 1] = step[<<f[c], c + 1>>]
    BY <2>2
  <2> HIDE DEF g
  <2>4. ASSUME NEW b \in 1 .. c + 1 PROVE g[b] = step[<<g[b - 1], b>>]
    <3>1. CASE b = c + 1
      BY <2>3, <3>1
    <3>2. CASE b # c + 1
      <4>1. b \in 1 .. c /\ b \in 0 .. c /\ b - 1 \in 0 .. c
        BY <3>2
      <4> QED
        BY <2>1, <2>3, <4>1 DEF IsSeries
    <3> QED
      BY <3>1, <3>2
  <2>5. g[0] = start
    BY <2>1, <2>3 DEF IsSeries
  <2>6. IsSeries(g, start, step, c + 1)
    BY <2>4, <2>5 DEF IsSeries
  <2> QED
    BY <2>3, <2>6
<1>3. s = 0 .. m
  <2>1. s \in SUBSET (0 .. m)
    OBVIOUS
  <2> HIDE DEF s
  <2> QED
    BY <1>1, <1>2, <2>1, CountUp
<1> QED
  BY <1>3

\* The concatenation of lists over a set is a list over it.
LEMMA FlattenIn ==
    ASSUME NEW X, NEW seqs \in Seq(Seq(X))
    PROVE  S!FlattenSeq(seqs) \in Seq(X)
<1> DEFINE m == Len(seqs)
<1>1. m \in Nat
  BY LenProperties
<1>2. CASE m = 0
  <2>1. seqs = <<>>
    BY <1>2, EmptySeq
  <2> QED
    BY <1>2, <2>1, EmptySeq DEF S!FlattenSeq
<1>3. CASE m # 0
  <2> DEFINE step == [d \in Seq(X) \X (1 .. m) |-> IF d[2] = 1 THEN seqs[1] ELSE d[1] \o seqs[d[2]]]
  <2>1. \A c \in 1 .. m : seqs[c] \in Seq(X)
    BY ElementOfSeq
  <2>2. step \in [Seq(X) \X (1 .. m) -> Seq(X)]
    BY <1>3, <2>1, ConcatProperties
  <2>3. <<>> \in Seq(X)
    BY EmptySeq
  <2> HIDE DEF step
  <2>4. PICK f \in [0 .. m -> Seq(X)] : IsSeries(f, <<>>, step, m)
    <3> HIDE DEF m
    <3> QED
      BY <1>1, <2>2, <2>3, SeriesExists
  <2> DEFINE g == [c \in 1 .. m |-> f[c]]
             Flat(h) == h = [c \in 1 .. m |-> IF c = 1 THEN seqs[c] ELSE h[c - 1] \o seqs[c]]
  <2>5. \A c \in 1 .. m : f[c] \in Seq(X) /\ f[c - 1] \in Seq(X)
    <3>1. \A c \in 1 .. m : c \in 0 .. m /\ c - 1 \in 0 .. m
      BY <1>1
    <3> QED
      BY <3>1
  <2>6. \A c \in 1 .. m : f[c] = IF c = 1 THEN seqs[c] ELSE f[c - 1] \o seqs[c]
    BY <2>4, <2>5 DEF IsSeries, step
  <2>7. \A c \in 1 .. m : c # 1 => g[c - 1] = f[c - 1]
    BY <1>1
  <2>8. Flat(g)
    BY <2>6, <2>7
  <2>9. Flat(CHOOSE h : Flat(h))
    BY <2>8
  <2> DEFINE h == CHOOSE h : Flat(h)
  <2>10. S!FlattenSeq(seqs) = h[m]
    BY <1>3 DEF S!FlattenSeq
  <2> HIDE DEF h
  <2>11. \A c \in 1 .. m : h[c] = IF c = 1 THEN seqs[c] ELSE h[c - 1] \o seqs[c]
    BY <2>9 DEF h
  <2> DEFINE s == {c \in 0 .. m : c = 0 \/ h[c] \in Seq(X)}
  <2>12. s = 0 .. m
    <3>1. 0 \in s /\ s \in SUBSET (0 .. m)
      BY <1>1
    <3>2. ASSUME NEW c \in 0 .. m - 1, c \in s PROVE c + 1 \in s
      <4>1. c + 1 \in 1 .. m /\ (c + 1) - 1 = c /\ seqs[c + 1] \in Seq(X)
        BY <1>1, <2>1
      <4>2. h[c + 1] = IF c + 1 = 1 THEN seqs[c + 1] ELSE h[c] \o seqs[c + 1]
        BY <2>11, <4>1
      <4>3. h[c + 1] \in Seq(X)
        BY <3>2, <4>1, <4>2, ConcatProperties
      <4> QED
        BY <1>1, <4>1, <4>3
    <3> HIDE DEF s
    <3> QED
      BY <1>1, <3>1, <3>2, CountUp
  <2> QED
    BY <1>1, <1>3, <2>10, <2>12
<1> QED
  BY <1>2, <1>3
-----------------------------------------------------------------------------
(***************************************************************************)
(* One gate of a small sort, on a block that holds each of its elements    *)
(* once.                                                                   *)
(***************************************************************************)
\* The block of m cells from base on, counted from 0.
BlockAt(a, base, m) == [p \in 0 .. m - 1 |-> a[p + base]]

\* The zeros and ones that a threshold makes of the keys.
KeyBits(a, x, m) == [p \in 0 .. m - 1 |-> IF key[a[p]] < x THEN 0 ELSE 1]

HoldsOnce(a, m) ==
    /\ a \in [0 .. m - 1 -> 0 .. m - 1]
    /\ \A p, q \in 0 .. m - 1 : a[p] = a[q] => p = q

LEMMA HeldKeys ==
    ASSUME CallFacts, NEW m \in 0 .. N, NEW a, HoldsOnce(a, m)
    PROVE  \A p \in 0 .. m - 1 : a[p] \in 0 .. m - 1 /\ key[a[p]] \in Int
  BY NAssumption DEF HoldsOnce, CallFacts, Pos

LEMMA WiringCells ==
    ASSUME NEW m \in Nat, NEW g \in S!Wiring(m)
    PROVE  \/ /\ Len(g) = 2 /\ g[1] \in 0 .. m - 1 /\ g[2] \in 0 .. m - 1
           \/ /\ Len(g) = 3 /\ g[1] \in 0 .. m - 1 /\ g[2] \in 0 .. m - 1 /\ g[3] \in 0 .. m - 1
              /\ g[1] # g[2] /\ g[1] # g[3] /\ g[2] # g[3]
<1> DEFINE cells == 0 .. m - 1
<1>1. CASE g \in cells \X cells
  BY <1>1
<1>2. CASE g \in {h \in cells \X cells \X cells : h[1] # h[2] /\ h[1] # h[3] /\ h[2] # h[3]}
  BY <1>2
<1> QED
  BY <1>1, <1>2 DEF S!Wiring

\* Two cells: the elements stay or change places, and the zeros and ones of any
\* threshold with them.
LEMMA PairGate ==
    ASSUME CallFacts, NEW m \in 0 .. N, NEW a, HoldsOnce(a, m), NEW g,
           Len(g) = 2, g[1] \in 0 .. m - 1, g[2] \in 0 .. m - 1
    PROVE  /\ HoldsOnce(S!GateIn(a, g, 0), m)
           /\ \A x \in Int : KeyBits(S!GateIn(a, g, 0), x, m) = S!KeyGate(KeyBits(a, x, m), g)
<1> DEFINE b == S!GateIn(a, g, 0)
           y == g[1]
           z == g[2]
<1>1. y \in 0 .. m - 1 /\ z \in 0 .. m - 1 /\ y + 0 = y /\ z + 0 = z
  OBVIOUS
<1>2. \A p \in 0 .. m - 1 : a[p] \in 0 .. m - 1 /\ key[a[p]] \in Int
  BY HeldKeys
<1>3. b = IF S!Exchanged(a[y], a[z]) THEN Swap(a, y, z) ELSE a
  BY <1>1, SameNotions DEF S!GateIn, S!ExchangeIn
<1>4. /\ key[a[z]] < key[a[y]] => S!Exchanged(a[y], a[z])
      /\ S!Exchanged(a[y], a[z]) => key[a[z]] <= key[a[y]]
  BY <1>1, <1>2, SameNotions DEF S!Exchanged
<1> HIDE DEF b, y, z
<1>5. Swap(a, y, z) = [p \in 0 .. m - 1 |-> IF p = y THEN a[z] ELSE IF p = z THEN a[y] ELSE a[p]]
  BY <1>1 DEF Swap, HoldsOnce
<1>6. HoldsOnce(b, m)
  <2>1. CASE b = a
    BY <2>1
  <2>2. CASE b = Swap(a, y, z)
    <3>1. \A p \in 0 .. m - 1 : b[p] = IF p = y THEN a[z] ELSE IF p = z THEN a[y] ELSE a[p]
      BY <1>5, <2>2
    <3>2. b \in [0 .. m - 1 -> 0 .. m - 1]
      BY <1>1, <1>2, <1>5, <2>2
    <3> DEFINE from(p) == IF p = y THEN z ELSE IF p = z THEN y ELSE p
    <3>3. \A p, q \in 0 .. m - 1 : b[p] = b[q] => p = q
      <4>1. \A p \in 0 .. m - 1 : from(p) \in 0 .. m - 1 /\ b[p] = a[from(p)]
        BY <1>1, <3>1
      <4>2. \A p, q \in 0 .. m - 1 : from(p) = from(q) => p = q
        BY <1>1
      <4> HIDE DEF from
      <4> QED
        BY <4>1, <4>2 DEF HoldsOnce
    <3> QED
      BY <3>2, <3>3 DEF HoldsOnce
  <2> QED
    BY <1>3, <2>1, <2>2
<1>7. ASSUME NEW x \in Int PROVE KeyBits(b, x, m) = S!KeyGate(KeyBits(a, x, m), g)
  <2> DEFINE u == KeyBits(a, x, m)
             w == KeyBits(b, x, m)
  <2>1. /\ u \in [0 .. m - 1 -> {0, 1}]
        /\ \A p \in 0 .. m - 1 : u[p] = IF key[a[p]] < x THEN 0 ELSE 1
        /\ w \in [0 .. m - 1 -> {0, 1}]
        /\ \A p \in 0 .. m - 1 : w[p] = IF key[b[p]] < x THEN 0 ELSE 1
    BY DEF KeyBits
  <2>2. S!KeyGate(u, g) = IF u[z] < u[y] THEN Swap(u, y, z) ELSE u
    BY SameNotions DEF S!KeyGate, y, z
  <2> HIDE DEF u, w
  <2>3. Swap(u, y, z) = [p \in 0 .. m - 1 |-> IF p = y THEN u[z] ELSE IF p = z THEN u[y] ELSE u[p]]
    BY <1>1, <2>1 DEF Swap
  <2>4. S!KeyGate(u, g) \in [0 .. m - 1 -> {0, 1}]
    BY <1>1, <2>1, <2>2, <2>3
  <2>5. ASSUME NEW p \in 0 .. m - 1 PROVE w[p] = S!KeyGate(u, g)[p]
    <3>1. CASE S!Exchanged(a[y], a[z])
      <4>1. b[p] = IF p = y THEN a[z] ELSE IF p = z THEN a[y] ELSE a[p]
        BY <1>3, <1>5, <3>1
      <4>2. u[z] <= u[y]
        BY <1>1, <1>2, <1>4, <2>1, <3>1
      <4>3. w[p] = IF p = y THEN u[z] ELSE IF p = z THEN u[y] ELSE u[p]
        BY <1>1, <2>1, <4>1
      <4>4. CASE u[z] < u[y]
        BY <2>2, <2>3, <4>3, <4>4
      <4>5. CASE ~ (u[z] < u[y])
        <5>1. u[z] = u[y]
          BY <1>1, <2>1, <4>2, <4>5
        <5> QED
          BY <2>2, <4>3, <4>5, <5>1
      <4> QED
        BY <4>4, <4>5
    <3>2. CASE ~ S!Exchanged(a[y], a[z])
      <4>1. key[a[y]] <= key[a[z]]
        BY <1>1, <1>2, <1>4, <3>2
      <4>2. ~ (u[z] < u[y])
        BY <1>1, <1>2, <2>1, <4>1
      <4> QED
        BY <1>3, <2>1, <2>2, <3>2, <4>2
    <3> QED
      BY <3>1, <3>2
  <2>6. w = S!KeyGate(u, g)
    BY <2>1, <2>4, <2>5
  <2> QED
    BY <2>6 DEF u, w
<1> QED
  BY <1>6, <1>7 DEF b

\* Three cells, of which the second is known not to be above the third: they are
\* sorted, and so are the zeros and ones.
LEMMA TripleGate ==
    ASSUME CallFacts, NEW m \in 0 .. N, NEW a, HoldsOnce(a, m), NEW g,
           Len(g) = 3, g[1] \in 0 .. m - 1, g[2] \in 0 .. m - 1, g[3] \in 0 .. m - 1,
           g[1] # g[2], g[1] # g[3], g[2] # g[3], key[a[g[2]]] <= key[a[g[3]]]
    PROVE  /\ HoldsOnce(S!GateIn(a, g, 0), m)
           /\ \A x \in Int : KeyBits(S!GateIn(a, g, 0), x, m) = S!KeyGate(KeyBits(a, x, m), g)
<1>2. \A p \in 0 .. m - 1 : a[p] \in 0 .. m - 1 /\ key[a[p]] \in Int
  BY HeldKeys
<1> DEFINE b == S!GateIn(a, g, 0)
           o == g[1]
           y == g[2]
           z == g[3]
           r1 == key[a[z]] < key[a[o]]
           r2 == key[IF r1 THEN a[z] ELSE a[o]] < key[a[y]]
<1>1. /\ o \in 0 .. m - 1 /\ y \in 0 .. m - 1 /\ z \in 0 .. m - 1 /\ o # y /\ o # z /\ y # z
      /\ o + 0 = o /\ y + 0 = y /\ z + 0 = z
  OBVIOUS
<1>3. b = [a EXCEPT ![z] = IF r1 THEN a[o] ELSE a[z],
                    ![o] = IF r2 THEN a[o] ELSE a[y],
                    ![y] = IF r2 THEN a[y] ELSE IF r1 THEN a[z] ELSE a[o]]
  BY <1>1, SameNotions DEF S!GateIn, S!PartialSortIn
<1>4. /\ r1 <=> key[a[z]] < key[a[o]]
      /\ r2 <=> key[IF r1 THEN a[z] ELSE a[o]] < key[a[y]]
      /\ key[a[y]] <= key[a[z]]
  OBVIOUS
<1>5. b = [p \in 0 .. m - 1 |-> IF p = z THEN IF r1 THEN a[o] ELSE a[z]
                                ELSE IF p = o THEN IF r2 THEN a[o] ELSE a[y]
                                ELSE IF p = y THEN IF r2 THEN a[y] ELSE IF r1 THEN a[z] ELSE a[o]
                                ELSE a[p]]
  <2> HIDE DEF b, o, y, z, r1, r2
  <2> QED
    BY <1>1, <1>3 DEF HoldsOnce
<1> HIDE DEF b, o, y, z, r1, r2
<1>6. ~ (r1 /\ r2)
  BY <1>1, <1>2, <1>4
<1>7. /\ b[z] = (IF r1 THEN a[o] ELSE a[z])
      /\ b[o] = (IF r2 THEN a[o] ELSE a[y])
      /\ b[y] = (IF r2 THEN a[y] ELSE IF r1 THEN a[z] ELSE a[o])
      /\ \A p \in 0 .. m - 1 : p # z /\ p # o /\ p # y => b[p] = a[p]
  BY <1>1, <1>5
<1>8. HoldsOnce(b, m)
  <2>1. b \in [0 .. m - 1 -> 0 .. m - 1]
    BY <1>1, <1>2, <1>5
  <2> DEFINE from(p) == IF p = z THEN IF r1 THEN o ELSE z
                        ELSE IF p = o THEN IF r2 THEN o ELSE y
                        ELSE IF p = y THEN IF r2 THEN y ELSE IF r1 THEN z ELSE o
                        ELSE p
  <2>2. \A p \in 0 .. m - 1 : from(p) \in 0 .. m - 1 /\ b[p] = a[from(p)]
    BY <1>1, <1>7
  <2>3. \A p, q \in 0 .. m - 1 : from(p) = from(q) => p = q
    BY <1>1, <1>6
  <2>4. \A p, q \in 0 .. m - 1 : b[p] = b[q] => p = q
    <3> HIDE DEF from
    <3> QED
      BY <2>2, <2>3 DEF HoldsOnce
  <2> QED
    BY <2>1, <2>4 DEF HoldsOnce
<1>9. ASSUME NEW x \in Int PROVE KeyBits(b, x, m) = S!KeyGate(KeyBits(a, x, m), g)
  <2> DEFINE u == KeyBits(a, x, m)
             w == KeyBits(b, x, m)
             ls == IF u[z] < u[o] THEN u[z] ELSE u[o]
             gr == IF u[z] < u[o] THEN u[o] ELSE u[z]
  <2>1. /\ u \in [0 .. m - 1 -> {0, 1}]
        /\ \A p \in 0 .. m - 1 : u[p] = IF key[a[p]] < x THEN 0 ELSE 1
        /\ w \in [0 .. m - 1 -> {0, 1}]
        /\ \A p \in 0 .. m - 1 : w[p] = IF key[b[p]] < x THEN 0 ELSE 1
    BY DEF KeyBits
  <2>2. S!KeyGate(u, g) = [u EXCEPT ![z] = gr,
                                    ![o] = IF ls < u[y] THEN ls ELSE u[y],
                                    ![y] = IF ls < u[y] THEN u[y] ELSE ls]
    BY DEF S!KeyGate, o, y, z
  <2>3. ls \in {0, 1} /\ gr \in {0, 1}
    BY <1>1, <2>1
  <2>4. /\ w[z] = gr
        /\ w[o] = (IF ls < u[y] THEN ls ELSE u[y])
        /\ w[y] = (IF ls < u[y] THEN u[y] ELSE ls)
    <3> HIDE DEF u, w
    <3>1. /\ u[o] = (IF key[a[o]] < x THEN 0 ELSE 1)
          /\ u[y] = (IF key[a[y]] < x THEN 0 ELSE 1)
          /\ u[z] = (IF key[a[z]] < x THEN 0 ELSE 1)
          /\ w[o] = (IF key[b[o]] < x THEN 0 ELSE 1)
          /\ w[y] = (IF key[b[y]] < x THEN 0 ELSE 1)
          /\ w[z] = (IF key[b[z]] < x THEN 0 ELSE 1)
          /\ key[a[o]] \in Int /\ key[a[y]] \in Int /\ key[a[z]] \in Int
      BY <1>1, <1>2, <2>1
    <3>2. CASE r1
      <4>1. b[z] = a[o] /\ b[o] = a[y] /\ b[y] = a[z] /\ key[a[z]] < key[a[o]]
        BY <1>4, <1>6, <1>7, <3>2
      <4> QED
        BY <1>4, <3>1, <4>1
    <3>3. CASE ~ r1 /\ r2
      <4>1. b[z] = a[z] /\ b[o] = a[o] /\ b[y] = a[y] /\ key[a[o]] <= key[a[z]]
            /\ key[a[o]] < key[a[y]]
        BY <1>4, <1>7, <3>1, <3>3
      <4> QED
        BY <1>4, <3>1, <4>1
    <3>4. CASE ~ r1 /\ ~ r2
      <4>1. b[z] = a[z] /\ b[o] = a[y] /\ b[y] = a[o] /\ key[a[o]] <= key[a[z]]
            /\ key[a[y]] <= key[a[o]]
        BY <1>4, <1>7, <3>1, <3>4
      <4> QED
        BY <1>4, <3>1, <4>1
    <3> QED
      BY <3>2, <3>3, <3>4
  <2> HIDE DEF u, w, ls, gr
  <2>5. S!KeyGate(u, g) = [p \in 0 .. m - 1 |->
            IF p = y THEN IF ls < u[y] THEN u[y] ELSE ls
            ELSE IF p = o THEN IF ls < u[y] THEN ls ELSE u[y]
            ELSE IF p = z THEN gr ELSE u[p]]
    BY <1>1, <2>1, <2>2
  <2>6. \A p \in 0 .. m - 1 : w[p] = S!KeyGate(u, g)[p]
    <3>1. \A p \in 0 .. m - 1 : p # z /\ p # o /\ p # y => w[p] = u[p]
      BY <1>7, <2>1
    <3> QED
      BY <1>1, <2>4, <2>5, <3>1
  <2>7. S!KeyGate(u, g) \in [0 .. m - 1 -> {0, 1}]
    BY <1>1, <2>1, <2>3, <2>5
  <2>8. w = S!KeyGate(u, g)
    BY <2>1, <2>6, <2>7
  <2> QED
    BY <2>8 DEF u, w
<1> QED
  BY <1>8, <1>9 DEF b

CellsAt(base, m) == {p + base : p \in 0 .. m - 1}

\* A gate on a block within a longer array changes the block as it would change
\* a copy of it, and nothing else.
WorksOnBlock(a, g, base, m, D, X) ==
    /\ S!GateIn(a, g, base) \in [D -> X]
    /\ BlockAt(S!GateIn(a, g, base), base, m) = S!GateIn(BlockAt(a, base, m), g, 0)
    /\ \A p \in D \ CellsAt(base, m) : S!GateIn(a, g, base)[p] = a[p]

LEMMA GateInBlock ==
    ASSUME NEW m \in Nat, NEW D, NEW X, NEW a \in [D -> X], NEW base \in Nat,
           \A p \in 0 .. m - 1 : p + base \in D, NEW g \in S!Wiring(m)
    PROVE  WorksOnBlock(a, g, base, m, D, X)
<1> DEFINE b == S!GateIn(a, g, base)
           u == BlockAt(a, base, m)
           w == S!GateIn(u, g, 0)
           o == g[1]
           y == g[2]
           z == g[3]
<1>1. /\ \A p \in 0 .. m - 1 : p + base \in D /\ u[p] = a[p + base]
      /\ u = [p \in 0 .. m - 1 |-> u[p]]
      /\ \A p, q \in 0 .. m - 1 : p + base = q + base => p = q
  BY DEF BlockAt
<1>2. CASE Len(g) = 2 /\ o \in 0 .. m - 1 /\ y \in 0 .. m - 1
  <2>1. b = IF S!Exchanged(a[o + base], a[y + base]) THEN Swap(a, o + base, y + base) ELSE a
    BY <1>2, SameNotions DEF S!GateIn, S!ExchangeIn
  <2>2. w = IF S!Exchanged(u[o], u[y]) THEN Swap(u, o, y) ELSE u
    <3>1. o + 0 = o /\ y + 0 = y
      BY <1>2
    <3> QED
      BY <1>2, <3>1, SameNotions DEF S!GateIn, S!ExchangeIn
  <2> HIDE DEF b, u, w, o, y
  <2>3. u[o] = a[o + base] /\ u[y] = a[y + base] /\ o + base \in D /\ y + base \in D
    BY <1>1, <1>2
  <2>4. CASE S!Exchanged(u[o], u[y])
    <3>1. b = Swap(a, o + base, y + base) /\ w = Swap(u, o, y)
      BY <2>1, <2>2, <2>3, <2>4
    <3>2. /\ b \in [D -> X]
          /\ \A p \in D : b[p] = IF p = y + base THEN a[o + base]
                                  ELSE IF p = o + base THEN a[y + base] ELSE a[p]
      BY <2>3, <3>1 DEF Swap
    <3>3. w = [p \in 0 .. m - 1 |-> IF p = y THEN u[o] ELSE IF p = o THEN u[y] ELSE u[p]]
      BY <1>1, <1>2, <3>1 DEF Swap
    <3>4. \A p \in 0 .. m - 1 : b[p + base] = IF p = y THEN u[o] ELSE IF p = o THEN u[y] ELSE u[p]
      BY <1>1, <1>2, <2>3, <3>2
    <3>5. BlockAt(b, base, m) = w
      BY <3>3, <3>4 DEF BlockAt
    <3> QED
      BY <1>2, <3>2, <3>5 DEF b, u, w, CellsAt, WorksOnBlock
  <2>5. CASE ~ S!Exchanged(u[o], u[y])
    <3>1. b = a /\ w = u
      BY <2>1, <2>2, <2>3, <2>5
    <3> QED
      BY <3>1 DEF b, u, w, WorksOnBlock
  <2> QED
    BY <2>4, <2>5
<1>3. CASE /\ Len(g) = 3 /\ o \in 0 .. m - 1 /\ y \in 0 .. m - 1 /\ z \in 0 .. m - 1
           /\ o # y /\ o # z /\ y # z
  <2> DEFINE r1 == key[a[z + base]] < key[a[o + base]]
             r2 == key[IF r1 THEN a[z + base] ELSE a[o + base]] < key[a[y + base]]
             onO == IF r2 THEN a[o + base] ELSE a[y + base]
             onY == IF r2 THEN a[y + base] ELSE IF r1 THEN a[z + base] ELSE a[o + base]
             onZ == IF r1 THEN a[o + base] ELSE a[z + base]
  <2>1. b = [a EXCEPT ![z + base] = onZ, ![o + base] = onO, ![y + base] = onY]
    BY <1>3, SameNotions DEF S!GateIn, S!PartialSortIn
  <2>2. /\ o + 0 = o /\ y + 0 = y /\ z + 0 = z
        /\ u[o] = a[o + base] /\ u[y] = a[y + base] /\ u[z] = a[z + base]
    BY <1>1, <1>3
  <2>3. w = [u EXCEPT ![z] = onZ, ![o] = onO, ![y] = onY]
    <3> HIDE DEF u
    <3> QED
      BY <1>3, <2>2, SameNotions DEF S!GateIn, S!PartialSortIn
  <2>4. onO \in X /\ onY \in X /\ onZ \in X
    BY <1>1, <1>3
  <2> HIDE DEF b, u, w, o, y, z, r1, r2, onO, onY, onZ
  <2>5. /\ b \in [D -> X]
        /\ \A p \in D : b[p] = IF p = y + base THEN onY ELSE IF p = o + base THEN onO
                                ELSE IF p = z + base THEN onZ ELSE a[p]
    BY <1>1, <1>3, <2>1, <2>4
  <2>6. w = [p \in 0 .. m - 1 |-> IF p = y THEN onY ELSE IF p = o THEN onO
                                  ELSE IF p = z THEN onZ ELSE u[p]]
    BY <1>1, <1>3, <2>3
  <2>7. \A p \in 0 .. m - 1 : b[p + base] = IF p = y THEN onY ELSE IF p = o THEN onO
                                            ELSE IF p = z THEN onZ ELSE u[p]
    BY <1>1, <1>3, <2>5
  <2>8. BlockAt(b, base, m) = w
    BY <2>6, <2>7 DEF BlockAt
  <2> QED
    BY <1>3, <2>5, <2>8 DEF b, u, w, CellsAt, WorksOnBlock
<1> QED
  BY <1>2, <1>3, WiringCells

\* What a gate makes of zeros and ones are zeros and ones.
LEMMA KeyGateBits ==
    ASSUME NEW m \in Nat, NEW u \in [0 .. m - 1 -> {0, 1}], NEW g \in S!Wiring(m)
    PROVE  S!KeyGate(u, g) \in [0 .. m - 1 -> {0, 1}]
<1>1. CASE Len(g) = 2 /\ g[1] \in 0 .. m - 1 /\ g[2] \in 0 .. m - 1
  <2>1. u[g[1]] \in {0, 1} /\ u[g[2]] \in {0, 1}
    BY <1>1
  <2> QED
    BY <1>1, <2>1, SameNotions DEF S!KeyGate, Swap
<1>2. CASE Len(g) = 3 /\ g[1] \in 0 .. m - 1 /\ g[2] \in 0 .. m - 1 /\ g[3] \in 0 .. m - 1
  <2> DEFINE o == g[1]
             y == g[2]
             z == g[3]
  <2>1. u[o] \in {0, 1} /\ u[y] \in {0, 1} /\ u[z] \in {0, 1}
    BY <1>2
  <2> DEFINE ls == IF u[z] < u[o] THEN u[z] ELSE u[o]
             gr == IF u[z] < u[o] THEN u[o] ELSE u[z]
             onO == IF ls < u[y] THEN ls ELSE u[y]
             onY == IF ls < u[y] THEN u[y] ELSE ls
  <2>2. gr \in {0, 1} /\ onO \in {0, 1} /\ onY \in {0, 1}
    BY <2>1
  <2>3. S!KeyGate(u, g) = [u EXCEPT ![z] = gr, ![o] = onO, ![y] = onY]
    BY <1>2 DEF S!KeyGate
  <2> HIDE DEF gr, onO, onY
  <2> QED
    BY <2>2, <2>3
<1> QED
  BY <1>1, <1>2, WiringCells

\* The arrays of zeros and ones before and after each gate of a list.
LEMMA KeyRunSteps ==
    ASSUME NEW m \in Nat, NEW net \in Seq(S!Wiring(m)), NEW u \in [0 .. m - 1 -> {0, 1}]
    PROVE  /\ S!KeyRun(u, net)[0] = u
           /\ \A c \in 1 .. Len(net) :
                 S!KeyRun(u, net)[c] = S!KeyGate(S!KeyRun(u, net)[c - 1], net[c])
<1> DEFINE D == [0 .. m - 1 -> {0, 1}]
           l == Len(net)
           step == [d \in D \X (1 .. l) |-> S!KeyGate(d[1], net[d[2]])]
           Listed(h) == h = [c \in 0 .. l |-> IF c = 0 THEN u ELSE S!KeyGate(h[c - 1], net[c])]
<1>1. l \in Nat /\ \A c \in 1 .. l : net[c] \in S!Wiring(m)
  BY LenProperties, ElementOfSeq
<1>2. step \in [D \X (1 .. l) -> D]
  <2> SUFFICES ASSUME NEW d \in D \X (1 .. l) PROVE S!KeyGate(d[1], net[d[2]]) \in D
    OBVIOUS
  <2>1. d[1] \in D /\ net[d[2]] \in S!Wiring(m)
    BY <1>1
  <2> QED
    BY <2>1, KeyGateBits
<1> HIDE DEF step, l
<1>3. PICK f \in [0 .. l -> D] : IsSeries(f, u, step, l)
  <2>1. u \in D
    OBVIOUS
  <2> HIDE DEF D
  <2> QED
    BY <1>1, <1>2, <2>1, SeriesExists
<1>4. \A c \in 0 .. l : f[c] = IF c = 0 THEN u ELSE S!KeyGate(f[c - 1], net[c])
  <2>1. \A c \in 1 .. l : c - 1 \in 0 .. l
    BY <1>1
  <2>2. \A c \in 1 .. l : f[c - 1] \in D
    BY <2>1
  <2>3. \A c \in 1 .. l : step[<<f[c - 1], c>>] = S!KeyGate(f[c - 1], net[c])
    BY <2>2 DEF step
  <2>4. f[0] = u /\ \A c \in 1 .. l : f[c] = S!KeyGate(f[c - 1], net[c])
    BY <1>3, <2>3 DEF IsSeries
  <2>5. \A c \in 0 .. l : c = 0 \/ c \in 1 .. l
    BY <1>1
  <2> QED
    BY <2>4, <2>5
<1>5. Listed(f)
  BY <1>4
<1>6. Listed(CHOOSE h : Listed(h))
  BY <1>5
<1> DEFINE r == CHOOSE h : Listed(h)
<1>7. S!KeyRun(u, net) = r
  BY DEF S!KeyRun, l
<1> HIDE DEF r
<1>8. \A c \in 0 .. l : r[c] = IF c = 0 THEN u ELSE S!KeyGate(r[c - 1], net[c])
  BY <1>6 DEF r
<1> QED
  BY <1>1, <1>7, <1>8 DEF l
-----------------------------------------------------------------------------
(***************************************************************************)
(* The sorts.  After c gates the zeros and ones of every threshold are     *)
(* what c gates of the list make of the unsorted ones.                     *)
(***************************************************************************)
Net == S!GatesFor(entry, n)

\* The block, wherever it is worked on.
Held == IF S!InRegisters(entry, n) THEN BlockAt(buf, 1, n) ELSE BlockAt(v, 0, n)

Identity(m) == [p \in 0 .. m - 1 |-> p]

Reached(c) ==
    /\ c \in 0 .. Len(Net)
    /\ Len(gates) = Len(Net) - c
    /\ \A r \in 1 .. Len(gates) : gates[r] = Net[r + c]
    /\ \A x \in Int : KeyBits(Held, x, n) = S!KeyRun(KeyBits(Identity(n), x, n), Net)[c]

\* Elements with equal keys are in the order they came in.
TiesInOrder(a, m) == \A p, q \in 0 .. m - 1 : p < q /\ key[a[p]] = key[a[q]] => a[p] < a[q]

Running ==
    /\ HoldsOnce(Held, n)
    /\ entry = "insertion_sort" => TiesInOrder(Held, n)
    /\ gates \in Seq(S!Wiring(n)) /\ \E c \in Nat : Reached(c)
    /\ IF S!InRegisters(entry, n)
       THEN Untouched /\ buf \in [1 .. n -> 0 .. n - 1]
       ELSE buf = <<>> /\ v \in [Pos -> Pos] /\ \A p \in Pos : p >= n => v[p] = p

SortInv ==
    /\ CallFacts
    /\ entry \in S!Sorts
    /\ pc \in {"call", "run", "done"}
    /\ pc = "call" => Untouched
    /\ pc = "run" => Running
    /\ pc = "done" => Completed(v, n)

\* What is assumed of the lists of gates, for the call that runs.
LEMMA NetFacts ==
    ASSUME S!GatesAssumption, CallFacts, entry \in S!Sorts
    PROVE  Net \in Seq(S!Wiring(n)) /\ S!SortsBits(Net, n) /\ Len(Net) \in Nat
           /\ n \in Nat /\ N \in Nat /\ n \in 0 .. N
<1>1. n \in 0 .. N /\ N \in Nat
  BY NAssumption DEF CallFacts
<1>2. Net \in Seq(S!Wiring(n)) /\ S!SortsBits(Net, n)
  BY <1>1 DEF S!GatesAssumption, Net
<1> QED
  BY <1>1, <1>2, LenProperties

LEMMA KeyBitsAre ==
    ASSUME NEW m \in Nat, NEW a, NEW x
    PROVE  KeyBits(a, x, m) \in [0 .. m - 1 -> {0, 1}]
  BY DEF KeyBits

LEMMA StartSortInv == S!GatesAssumption /\ SortInv /\ S!StartSort => SortInv'
<1> SUFFICES ASSUME S!GatesAssumption, SortInv, S!StartSort PROVE SortInv'
  OBVIOUS
<1>1. /\ CallFacts /\ Untouched /\ Net \in Seq(S!Wiring(n)) /\ Len(Net) \in Nat
      /\ n \in 0 .. N /\ N \in Nat /\ n \in Nat
  <2>1. CallFacts /\ Untouched /\ entry \in S!Sorts
    BY DEF SortInv, S!StartSort
  <2> QED
    BY <2>1, NetFacts
<1>2. /\ gates' = Net /\ pc' = "run" /\ UNCHANGED <<entry, key, v, n, k>>
      /\ buf' = IF S!InRegisters(entry, n) THEN [p \in 1 .. n |-> v[p - 1]] ELSE <<>>
  BY DEF S!StartSort, Net
<1>3. v \in [Pos -> Pos] /\ \A p \in Pos : v[p] = p
  BY <1>1, UntouchedArrangement DEF IsArrangement
<1>4. \A p \in 0 .. n - 1 : p \in Pos
  BY <1>1 DEF Pos
<1>5. Held' = Identity(n)
  <2>1. CASE S!InRegisters(entry, n)
    <3>1. \A p \in 0 .. n - 1 : buf'[p + 1] = p
      BY <1>1, <1>2, <1>3, <1>4, <2>1
    <3> QED
      BY <1>2, <2>1, <3>1 DEF Held, BlockAt, Identity
  <2>2. CASE ~ S!InRegisters(entry, n)
    <3>1. \A p \in 0 .. n - 1 : v[p + 0] = p
      BY <1>3, <1>4
    <3> QED
      BY <1>2, <2>2, <3>1 DEF Held, BlockAt, Identity
  <2> QED
    BY <2>1, <2>2
<1>6. HoldsOnce(Held, n)'
  BY <1>2, <1>5 DEF HoldsOnce, Identity
<1>7. TiesInOrder(Held, n)'
  <2> SUFFICES ASSUME NEW p \in 0 .. n - 1, NEW q \in 0 .. n - 1, p < q
               PROVE  Held'[p] < Held'[q]
    BY <1>2 DEF TiesInOrder
  <2> QED
    BY <1>5 DEF Identity
<1>8. \A x \in Int : KeyBits(Held, x, n)' = S!KeyRun(KeyBits(Identity(n), x, n), Net)[0]
  <2> SUFFICES ASSUME NEW x \in Int
               PROVE  KeyBits(Held, x, n)' = S!KeyRun(KeyBits(Identity(n), x, n), Net)[0]
    OBVIOUS
  <2>1. KeyBits(Held, x, n)' = KeyBits(Identity(n), x, n)
    BY <1>2, <1>5 DEF KeyBits
  <2>2. KeyBits(Identity(n), x, n) \in [0 .. n - 1 -> {0, 1}]
    BY <1>1, KeyBitsAre
  <2> QED
    BY <1>1, <2>1, <2>2, KeyRunSteps
<1>9. Net' = Net /\ \A x : KeyBits(Identity(n), x, n)' = KeyBits(Identity(n), x, n)
  BY <1>2 DEF Net, KeyBits, Identity
<1>10. Reached(0)'
  <2>1. \A x \in Int : KeyBits(Held, x, n)' = S!KeyRun(KeyBits(Identity(n), x, n)', Net')[0]
    BY <1>8, <1>9
  <2>2. (Len(gates) = Len(Net) - 0 /\ 0 \in 0 .. Len(Net))'
    BY <1>1, <1>2, <1>9
  <2>3. \A r \in 1 .. Len(gates') : gates'[r] = Net'[r + 0]
    BY <1>1, <1>2, <1>9
  <2> QED
    BY <2>1, <2>2, <2>3 DEF Reached
<1>11. CallFacts' /\ (entry \in S!Sorts)'
  BY <1>1, <1>2 DEF CallFacts, SortInv
<1>12. (IF S!InRegisters(entry, n)
       THEN Untouched /\ buf \in [1 .. n -> 0 .. n - 1]
       ELSE buf = <<>> /\ v \in [Pos -> Pos] /\ \A p \in Pos : p >= n => v[p] = p)'
  <2>1. S!InRegisters(entry, n) => buf' \in [1 .. n -> 0 .. n - 1]
    <3>1. \A p \in 1 .. n : p - 1 \in 0 .. n - 1 /\ v[p - 1] = p - 1
      BY <1>1, <1>3, <1>4
    <3> QED
      BY <1>2, <3>1
  <2> QED
    BY <1>1, <1>2, <1>3, <2>1 DEF Untouched
<1> QED
  BY <1>1, <1>2, <1>6, <1>7, <1>10, <1>11, <1>12 DEF SortInv, Running

LEMMA FunctionsAreLists ==
    ASSUME NEW X, NEW m \in Nat, NEW f \in [1 .. m -> X]
    PROVE  f \in Seq(X)
  BY SeqDef

\* insertion_sort exchanges neighbours.
LEMMA InsertionNeighbours ==
    ASSUME CallFacts, entry = "insertion_sort", NEW c \in 1 .. Len(Net)
    PROVE  \E z \in Int : Net[c] = <<z, z + 1>>
<1> DEFINE X == {<<z, z + 1>> : z \in Int}
           rows == [x \in 1 .. n - 1 |-> [y \in 1 .. x |-> <<x - y, x - y + 1>>]]
<1>1. n \in Nat
  BY NAssumption DEF CallFacts
<1>2. Net = <<>> \/ (n > 1 /\ Net = S!InsertionGates(n))
  BY <1>1 DEF Net, S!GatesFor
<1>3. CASE Net = <<>>
  BY <1>3, EmptySeq
<1>4. CASE n > 1 /\ Net = S!InsertionGates(n)
  <2>1. ASSUME NEW x \in 1 .. n - 1
        PROVE  [y \in 1 .. x |-> <<x - y, x - y + 1>>] \in Seq(X)
    <3>1. \A y \in 1 .. x : <<x - y, x - y + 1>> \in X
      OBVIOUS
    <3> HIDE DEF X
    <3>2. [y \in 1 .. x |-> <<x - y, x - y + 1>>] \in [1 .. x -> X]
      BY <3>1, Zenon
    <3>3. x \in Nat
      OBVIOUS
    <3> QED
      BY <3>2, <3>3, FunctionsAreLists
  <2>2. rows \in Seq(Seq(X))
    <3> HIDE DEF X
    <3>1. n - 1 \in Nat
      BY <1>1, <1>4
    <3>2. rows \in [1 .. n - 1 -> Seq(X)]
      BY <2>1
    <3> HIDE DEF rows
    <3> QED
      BY <3>1, <3>2, FunctionsAreLists
  <2>3. Net = S!FlattenSeq(rows)
    BY <1>4 DEF S!InsertionGates
  <2> HIDE DEF rows, X
  <2>4. Net \in Seq(X)
    BY <2>2, <2>3, FlattenIn
  <2>5. Net[c] \in X
    BY <2>4, ElementOfSeq
  <2> QED
    BY <2>5 DEF X
<1> QED
  BY <1>2, <1>3, <1>4

\* So it does not change the order of two elements with equal keys.
LEMMA NeighboursKeepTies ==
    ASSUME CallFacts, entry = "insertion_sort", NEW m \in 0 .. N, NEW a, HoldsOnce(a, m),
           TiesInOrder(a, m), NEW z \in 0 .. m - 1, z + 1 \in 0 .. m - 1, NEW g, g = <<z, z + 1>>
    PROVE  TiesInOrder(S!GateIn(a, g, 0), m)
<1> DEFINE b == S!GateIn(a, g, 0)
<1>1. \A p \in 0 .. m - 1 : a[p] \in 0 .. m - 1 /\ key[a[p]] \in Int
  BY HeldKeys
<1>2. b = IF key[a[z + 1]] < key[a[z]] THEN Swap(a, z, z + 1) ELSE a
  <2>1. g[1] = z /\ g[2] = z + 1 /\ Len(g) = 2 /\ z + 0 = z /\ (z + 1) + 0 = z + 1
    OBVIOUS
  <2> QED
    BY <2>1, SameNotions DEF S!GateIn, S!ExchangeIn, S!Exchanged
<1> HIDE DEF b
<1>3. CASE ~ (key[a[z + 1]] < key[a[z]])
  BY <1>2, <1>3 DEF b
<1>4. CASE key[a[z + 1]] < key[a[z]]
  <2>1. \A p \in 0 .. m - 1 : b[p] = IF p = z THEN a[z + 1] ELSE IF p = z + 1 THEN a[z] ELSE a[p]
    BY <1>2, <1>4 DEF Swap, HoldsOnce
  <2> SUFFICES ASSUME NEW p \in 0 .. m - 1, NEW q \in 0 .. m - 1, p < q, key[b[p]] = key[b[q]]
               PROVE  b[p] < b[q]
    BY DEF TiesInOrder, b
  <2> DEFINE from(x) == IF x = z THEN z + 1 ELSE IF x = z + 1 THEN z ELSE x
  <2>2. \A x \in 0 .. m - 1 : from(x) \in 0 .. m - 1 /\ b[x] = a[from(x)]
    BY <2>1
  <2>3. from(p) < from(q) \/ (p = z /\ q = z + 1)
    OBVIOUS
  <2>4. ~ (p = z /\ q = z + 1)
    <3>1. p = z /\ q = z + 1 => b[p] = a[z + 1] /\ b[q] = a[z]
      BY <2>1
    <3>2. key[a[z + 1]] # key[a[z]]
      BY <1>1, <1>4
    <3> QED
      BY <3>1, <3>2
  <2> HIDE DEF from
  <2> QED
    BY <2>2, <2>3, <2>4 DEF TiesInOrder
<1> QED
  BY <1>3, <1>4

\* The gate that comes next, and why it is given a sorted pair where it needs one.
LEMMA NextGate ==
    ASSUME S!GatesAssumption, CallFacts, entry \in S!Sorts, HoldsOnce(Held, n),
           NEW c \in Nat, Reached(c), gates \in Seq(S!Wiring(n)), gates # <<>>
    PROVE  /\ c + 1 \in 1 .. Len(Net) /\ Head(gates) = Net[c + 1]
           /\ Head(gates) \in S!Wiring(n)
           /\ Len(Tail(gates)) = Len(Net) - (c + 1) /\ Tail(gates) \in Seq(S!Wiring(n))
           /\ \A r \in 1 .. Len(Tail(gates)) : Tail(gates)[r] = Net[r + (c + 1)]
           /\ HoldsOnce(S!GateIn(Held, Head(gates), 0), n)
           /\ \A x \in Int : KeyBits(S!GateIn(Held, Head(gates), 0), x, n)
                                 = S!KeyGate(KeyBits(Held, x, n), Head(gates))
<1> DEFINE g == Head(gates)
<1>1. /\ Net \in Seq(S!Wiring(n)) /\ S!SortsBits(Net, n) /\ Len(Net) \in Nat
      /\ n \in Nat /\ N \in Nat /\ n \in 0 .. N
  BY NetFacts
<1>2. /\ Len(gates) \in Nat /\ Len(gates) >= 1 /\ g = gates[1]
      /\ Len(Tail(gates)) = Len(gates) - 1 /\ Tail(gates) \in Seq(S!Wiring(n))
      /\ \A r \in 1 .. Len(gates) - 1 : Tail(gates)[r] = gates[r + 1]
  BY LenProperties, EmptySeq, HeadTailProperties
<1>3. c \in 0 .. Len(Net) /\ Len(gates) = Len(Net) - c
      /\ \A r \in 1 .. Len(gates) : gates[r] = Net[r + c]
  BY DEF Reached
<1>4. c + 1 \in 1 .. Len(Net) /\ g = Net[c + 1] /\ Len(Tail(gates)) = Len(Net) - (c + 1)
  BY <1>1, <1>2, <1>3
<1>5. g \in S!Wiring(n)
  BY <1>1, <1>4, ElementOfSeq
<1>6. \A r \in 1 .. Len(Tail(gates)) : Tail(gates)[r] = Net[r + (c + 1)]
  <2> SUFFICES ASSUME NEW r \in 1 .. Len(Tail(gates)) PROVE Tail(gates)[r] = Net[r + (c + 1)]
    OBVIOUS
  <2>1. r \in 1 .. Len(gates) - 1 /\ r + 1 \in 1 .. Len(gates) /\ (r + 1) + c = r + (c + 1)
    BY <1>1, <1>2, <1>3
  <2> QED
    BY <1>2, <1>3, <2>1
<1>7. /\ HoldsOnce(S!GateIn(Held, g, 0), n)
      /\ \A x \in Int : KeyBits(S!GateIn(Held, g, 0), x, n) = S!KeyGate(KeyBits(Held, x, n), g)
  <2> HIDE DEF g
  <2>1. CASE Len(g) = 2 /\ g[1] \in 0 .. n - 1 /\ g[2] \in 0 .. n - 1
    BY <1>1, <2>1, PairGate
  <2>2. CASE /\ Len(g) = 3 /\ g[1] \in 0 .. n - 1 /\ g[2] \in 0 .. n - 1 /\ g[3] \in 0 .. n - 1
             /\ g[1] # g[2] /\ g[1] # g[3] /\ g[2] # g[3]
    <3>1. \A p \in 0 .. n - 1 : Held[p] \in 0 .. n - 1 /\ key[Held[p]] \in Int
      BY <1>1, HeldKeys
    <3> DEFINE x == key[Held[g[3]]] + 1
               u == KeyBits(Identity(n), x, n)
               w == KeyBits(Held, x, n)
    <3>2. x \in Int /\ u \in [0 .. n - 1 -> {0, 1}] /\ w = S!KeyRun(u, Net)[c]
      BY <1>1, <2>2, <3>1, KeyBitsAre DEF Reached
    <3>3. w[g[2]] = (IF key[Held[g[2]]] < x THEN 0 ELSE 1) /\ w[g[3]] = 0
      BY <2>2, <3>1 DEF KeyBits
    <3> HIDE DEF u, w
    <3>4. S!KeyRun(u, Net)[c][g[2]] <= S!KeyRun(u, Net)[c][g[3]]
      <4>1. (c + 1) - 1 = c
        OBVIOUS
      <4>2. S!KeyRun(u, Net)[(c + 1) - 1][Net[c + 1][2]] <= S!KeyRun(u, Net)[(c + 1) - 1][Net[c + 1][3]]
        BY <1>1, <1>4, <2>2, <3>2 DEF S!SortsBits
      <4> QED
        BY <1>4, <4>1, <4>2
    <3>5. w[g[2]] <= 0
      BY <3>2, <3>3, <3>4
    <3>6. key[Held[g[2]]] < x
      BY <3>3, <3>5
    <3>7. key[Held[g[2]]] <= key[Held[g[3]]]
      BY <2>2, <3>1, <3>6
    <3> QED
      BY <1>1, <2>2, <3>7, TripleGate
  <2> QED
    BY <1>1, <1>5, <2>1, <2>2, WiringCells
<1> QED
  BY <1>2, <1>4, <1>5, <1>6, <1>7

\* Where the block is, its gates work on the block.
LEMMA GateWorksOnBlock ==
    ASSUME S!GatesAssumption, SortInv, S!RunGate
    PROVE  /\ Held' = S!GateIn(Held, Head(gates), 0)
           /\ S!InRegisters(entry, n) => UNCHANGED v /\ buf' \in [1 .. n -> 0 .. n - 1]
           /\ ~ S!InRegisters(entry, n) =>
                 UNCHANGED buf /\ v' \in [Pos -> Pos] /\ \A p \in Pos : p >= n => v'[p] = v[p]
<1> DEFINE g == Head(gates)
<1>1. /\ CallFacts /\ entry \in S!Sorts /\ Running /\ gates # <<>> /\ UNCHANGED <<entry, n>>
      /\ IF S!InRegisters(entry, n)
         THEN buf' = S!GateIn(buf, g, 1) /\ UNCHANGED v
         ELSE v' = S!GateIn(v, g, 0) /\ UNCHANGED buf
  BY DEF SortInv, S!RunGate
<1>2. n \in 0 .. N /\ N \in Nat /\ n \in Nat
  BY <1>1, NetFacts
<1>3. g \in S!Wiring(n)
  BY <1>1, NextGate DEF Running
<1> HIDE DEF g
<1>4. CASE S!InRegisters(entry, n)
  <2>1. buf \in [1 .. n -> 0 .. n - 1] /\ \A p \in 0 .. n - 1 : p + 1 \in 1 .. n
    BY <1>1, <1>2, <1>4 DEF Running
  <2>2. /\ buf' \in [1 .. n -> 0 .. n - 1]
        /\ BlockAt(buf', 1, n) = S!GateIn(BlockAt(buf, 1, n), g, 0)
    <3> DEFINE D == 1 .. n
               X == 0 .. n - 1
    <3>1. buf \in [D -> X] /\ (\A p \in 0 .. n - 1 : p + 1 \in D) /\ 1 \in Nat
      BY <2>1
    <3> HIDE DEF D, X
    <3>2. WorksOnBlock(buf, g, 1, n, D, X)
      BY <1>2, <1>3, <3>1, GateInBlock
    <3> QED
      BY <1>1, <1>4, <3>2 DEF D, X, WorksOnBlock
  <2>3. Held' = BlockAt(buf', 1, n) /\ Held = BlockAt(buf, 1, n)
    BY <1>1, <1>4 DEF Held, BlockAt
  <2> QED
    BY <1>1, <1>4, <2>2, <2>3 DEF g
<1>5. CASE ~ S!InRegisters(entry, n)
  <2>1. v \in [Pos -> Pos] /\ \A p \in 0 .. n - 1 : p + 0 \in Pos
    BY <1>1, <1>2, <1>5 DEF Running, Pos
  <2>2. /\ v' \in [Pos -> Pos]
        /\ BlockAt(v', 0, n) = S!GateIn(BlockAt(v, 0, n), g, 0)
        /\ \A p \in Pos \ CellsAt(0, n) : v'[p] = v[p]
    <3> DEFINE base == 0
               D == Pos
    <3>1. /\ \A p \in 0 .. n - 1 : p + base \in D
          /\ base \in Nat /\ v \in [D -> D]
      BY <2>1
    <3> HIDE DEF base, D
    <3>2. WorksOnBlock(v, g, base, n, D, D)
      BY <1>2, <1>3, <3>1, GateInBlock
    <3> QED
      BY <1>1, <1>5, <3>2 DEF base, D, WorksOnBlock
  <2>3. Held' = BlockAt(v', 0, n) /\ Held = BlockAt(v, 0, n)
    BY <1>1, <1>5 DEF Held, BlockAt
  <2>4. \A p \in Pos : p >= n => v'[p] = v[p]
    <3>1. \A p \in Pos : p >= n => p \notin CellsAt(0, n)
      BY <1>2 DEF Pos, CellsAt
    <3> QED
      BY <2>2, <3>1
  <2> QED
    BY <1>1, <1>5, <2>2, <2>3, <2>4 DEF g
<1> QED
  BY <1>4, <1>5

LEMMA RunGateInv == S!GatesAssumption /\ SortInv /\ S!RunGate => SortInv'
<1> SUFFICES ASSUME S!GatesAssumption, SortInv, S!RunGate PROVE SortInv'
  OBVIOUS
<1>1. /\ CallFacts /\ entry \in S!Sorts /\ Running /\ gates # <<>> /\ pc' = pc /\ pc = "run"
      /\ gates' = Tail(gates) /\ UNCHANGED <<entry, key, n, k>>
  BY DEF SortInv, S!RunGate
<1>2. /\ Held' = S!GateIn(Held, Head(gates), 0)
      /\ S!InRegisters(entry, n) => UNCHANGED v /\ buf' \in [1 .. n -> 0 .. n - 1]
      /\ ~ S!InRegisters(entry, n) =>
            UNCHANGED buf /\ v' \in [Pos -> Pos] /\ \A p \in Pos : p >= n => v'[p] = v[p]
  BY GateWorksOnBlock
<1>3. /\ Net \in Seq(S!Wiring(n)) /\ Len(Net) \in Nat /\ n \in 0 .. N /\ n \in Nat
  BY <1>1, NetFacts
<1>4. PICK c \in Nat : Reached(c)
  BY <1>1 DEF Running
<1>5. /\ c + 1 \in 1 .. Len(Net) /\ Head(gates) = Net[c + 1]
      /\ Len(Tail(gates)) = Len(Net) - (c + 1) /\ Tail(gates) \in Seq(S!Wiring(n))
      /\ \A r \in 1 .. Len(Tail(gates)) : Tail(gates)[r] = Net[r + (c + 1)]
      /\ HoldsOnce(S!GateIn(Held, Head(gates), 0), n)
      /\ \A x \in Int : KeyBits(S!GateIn(Held, Head(gates), 0), x, n)
                            = S!KeyGate(KeyBits(Held, x, n), Head(gates))
  BY <1>1, <1>4, NextGate DEF Running
<1>6. Net' = Net /\ \A x : KeyBits(Identity(n), x, n)' = KeyBits(Identity(n), x, n)
  BY <1>1 DEF Net, KeyBits, Identity
<1>7. \A x \in Int : KeyBits(Held, x, n)' = S!KeyRun(KeyBits(Identity(n), x, n), Net)[c + 1]
  <2> SUFFICES ASSUME NEW x \in Int
               PROVE  KeyBits(Held, x, n)' = S!KeyRun(KeyBits(Identity(n), x, n), Net)[c + 1]
    OBVIOUS
  <2>1. KeyBits(Held, x, n)' = KeyBits(S!GateIn(Held, Head(gates), 0), x, n)
    BY <1>1, <1>2 DEF KeyBits
  <2> DEFINE u == KeyBits(Identity(n), x, n)
  <2>2. u \in [0 .. n - 1 -> {0, 1}] /\ KeyBits(Held, x, n) = S!KeyRun(u, Net)[c]
    BY <1>3, <1>4, KeyBitsAre DEF Reached
  <2> HIDE DEF u
  <2>3. S!KeyRun(u, Net)[c + 1] = S!KeyGate(S!KeyRun(u, Net)[c], Net[c + 1])
    <3>1. (c + 1) - 1 = c
      OBVIOUS
    <3>2. S!KeyRun(u, Net)[c + 1] = S!KeyGate(S!KeyRun(u, Net)[(c + 1) - 1], Net[c + 1])
      BY <1>3, <1>5, <2>2, KeyRunSteps
    <3> QED
      BY <3>1, <3>2
  <2> QED
    BY <1>5, <2>1, <2>2, <2>3 DEF u
<1>8. Reached(c + 1)'
  <2>1. \A x \in Int : KeyBits(Held, x, n)' = S!KeyRun(KeyBits(Identity(n), x, n)', Net')[c + 1]
    BY <1>6, <1>7
  <2>2. (c + 1 \in 0 .. Len(Net) /\ Len(gates) = Len(Net) - (c + 1))'
    BY <1>1, <1>3, <1>5, <1>6
  <2>3. \A r \in 1 .. Len(gates') : gates'[r] = Net'[r + (c + 1)]
    BY <1>1, <1>5, <1>6
  <2> QED
    BY <2>1, <2>2, <2>3 DEF Reached
<1>9. HoldsOnce(Held, n)'
  BY <1>1, <1>2, <1>5 DEF HoldsOnce
<1>10. ASSUME entry = "insertion_sort" PROVE TiesInOrder(Held, n)'
  <2>1. PICK z \in Int : Head(gates) = <<z, z + 1>>
    BY <1>1, <1>5, <1>10, InsertionNeighbours
  <2>2. z \in 0 .. n - 1 /\ z + 1 \in 0 .. n - 1
    <3>1. Head(gates) \in S!Wiring(n)
      BY <1>1, <1>4, NextGate DEF Running
    <3>2. Head(gates)[1] \in 0 .. n - 1 /\ Head(gates)[2] \in 0 .. n - 1
      BY <1>3, <3>1, WiringCells
    <3> QED
      BY <2>1, <3>2
  <2>3. TiesInOrder(S!GateIn(Held, Head(gates), 0), n)
    BY <1>1, <1>3, <1>10, <2>1, <2>2, NeighboursKeepTies DEF Running
  <2> QED
    BY <1>1, <1>2, <2>3 DEF TiesInOrder
<1>11. Running'
  <2>1. (IF S!InRegisters(entry, n)
         THEN Untouched /\ buf \in [1 .. n -> 0 .. n - 1]
         ELSE buf = <<>> /\ v \in [Pos -> Pos] /\ \A p \in Pos : p >= n => v[p] = p)'
    BY <1>1, <1>2 DEF Running, Untouched
  <2>2. (gates \in Seq(S!Wiring(n)))'
    BY <1>1, <1>5
  <2>3. (\E b \in Nat : Reached(b))'
    BY <1>8
  <2>4. (entry = "insertion_sort" => TiesInOrder(Held, n))'
    BY <1>1, <1>10
  <2> QED
    BY <1>9, <2>1, <2>2, <2>3, <2>4 DEF Running
<1> QED
  BY <1>1, <1>11 DEF SortInv, CallFacts

\* Numbers that do not descend from one to the next do not descend at all.
LEMMA NeverDescends ==
    ASSUME NEW m \in Nat, NEW f, \A p \in 0 .. m - 1 : f[p] \in Int,
           \A p \in 1 .. m - 1 : f[p - 1] <= f[p],
           NEW p \in 0 .. m - 1, NEW q \in 0 .. m - 1, p <= q
    PROVE  f[p] <= f[q]
<1> DEFINE l == (m - 1) - p
           s == {d \in 0 .. l : f[p] <= f[p + d]}
<1>1. l \in Nat /\ s \in SUBSET (0 .. l)
  OBVIOUS
<1>2. 0 \in s
  BY <1>1
<1>3. ASSUME NEW d \in 0 .. l - 1, d \in s PROVE d + 1 \in s
  <2>1. /\ p + (d + 1) \in 1 .. m - 1 /\ (p + (d + 1)) - 1 = p + d
        /\ p + d \in 0 .. m - 1 /\ p + (d + 1) \in 0 .. m - 1 /\ d + 1 \in 0 .. l
    BY <1>1
  <2>2. f[p + d] <= f[p + (d + 1)] /\ f[p] <= f[p + d]
    BY <1>3, <2>1
  <2>3. f[p] \in Int /\ f[p + d] \in Int /\ f[p + (d + 1)] \in Int
    BY <2>1
  <2> QED
    BY <2>1, <2>2, <2>3
<1>4. s = 0 .. l
  <2> HIDE DEF s, l
  <2> QED
    BY <1>1, <1>2, <1>3, CountUp
<1>5. q - p \in 0 .. l /\ p + (q - p) = q
  OBVIOUS
<1>6. q - p \in s
  BY <1>4, <1>5
<1> QED
  BY <1>5, <1>6

\* The zeros and ones of every threshold are sorted, so the keys are.
LEMMA KeysSorted ==
    ASSUME S!GatesAssumption, CallFacts, entry \in S!Sorts, HoldsOnce(Held, n),
           Reached(Len(Net)), NEW p \in 0 .. n - 1, NEW q \in 0 .. n - 1, p <= q
    PROVE  key[Held[p]] <= key[Held[q]]
<1>1. S!SortsBits(Net, n) /\ Len(Net) \in Nat /\ n \in Nat /\ n \in 0 .. N
  BY NetFacts
<1>2. \A r \in 0 .. n - 1 : Held[r] \in 0 .. n - 1 /\ key[Held[r]] \in Int
  BY <1>1, HeldKeys
<1> DEFINE f == [r \in 0 .. n - 1 |-> key[Held[r]]]
<1>3. ASSUME NEW r \in 1 .. n - 1 PROVE f[r - 1] <= f[r]
  <2>1. r \in 0 .. n - 1 /\ r - 1 \in 0 .. n - 1
    BY <1>1
  <2> DEFINE x == key[Held[r]] + 1
             u == KeyBits(Identity(n), x, n)
             w == KeyBits(Held, x, n)
  <2>2. x \in Int /\ u \in [0 .. n - 1 -> {0, 1}] /\ w = S!KeyRun(u, Net)[Len(Net)]
    BY <1>1, <1>2, <2>1, KeyBitsAre DEF Reached
  <2>3. w[r - 1] = (IF key[Held[r - 1]] < x THEN 0 ELSE 1) /\ w[r] = 0
    BY <1>2, <2>1 DEF KeyBits
  <2> HIDE DEF u, w
  <2>4. S!KeyRun(u, Net)[Len(Net)][r - 1] <= S!KeyRun(u, Net)[Len(Net)][r]
    BY <1>1, <2>2 DEF S!SortsBits
  <2>5. key[Held[r - 1]] < x
    BY <2>2, <2>3, <2>4
  <2> QED
    BY <1>2, <2>1, <2>5
<1>4. \A r \in 0 .. n - 1 : f[r] \in Int /\ f[r] = key[Held[r]]
  BY <1>2
<1> HIDE DEF f
<1>5. f[p] <= f[q]
  BY <1>1, <1>3, <1>4, NeverDescends
<1> QED
  BY <1>4, <1>5

LEMMA FinishSortInv == S!GatesAssumption /\ SortInv /\ S!FinishSort => SortInv'
<1> SUFFICES ASSUME S!GatesAssumption, SortInv, S!FinishSort PROVE SortInv'
  OBVIOUS
<1>1. /\ CallFacts /\ entry \in S!Sorts /\ Running /\ gates = <<>> /\ pc' = "done"
      /\ v' = IF S!InRegisters(entry, n)
              THEN [p \in Pos |-> IF p < n THEN buf[p + 1] ELSE v[p]] ELSE v
      /\ UNCHANGED <<entry, key, n, k>>
  BY SameNotions DEF SortInv, S!FinishSort
<1>2. Len(Net) \in Nat /\ n \in 0 .. N /\ n \in Nat /\ N \in Nat
  BY <1>1, NetFacts
<1>3. PICK c \in Nat : Reached(c)
  BY <1>1 DEF Running
<1>4. Reached(Len(Net))
  <2>1. Len(gates) = 0
    BY <1>1, EmptySeq
  <2>2. c = Len(Net)
    BY <1>2, <1>3, <2>1 DEF Reached
  <2> QED
    BY <1>3, <2>2
<1>5. HoldsOnce(Held, n) /\ (entry = "insertion_sort" => TiesInOrder(Held, n))
  BY <1>1 DEF Running
<1>6. /\ v' \in [Pos -> Pos] /\ (\A p \in Pos : p >= n => v'[p] = p)
      /\ \A p \in 0 .. n - 1 : p \in Pos /\ v'[p] = Held[p]
  <2>1. CASE S!InRegisters(entry, n)
    <3>1. /\ v' = [p \in Pos |-> IF p < n THEN buf[p + 1] ELSE v[p]]
          /\ Untouched /\ buf \in [1 .. n -> 0 .. n - 1] /\ Held = BlockAt(buf, 1, n)
      BY <1>1, <2>1 DEF Running, Held
    <3>2. \A p \in Pos : v[p] = p /\ (p < n => p + 1 \in 1 .. n /\ buf[p + 1] \in Pos)
      BY <1>2, <3>1 DEF Untouched, Pos
    <3>3. \A p \in 0 .. n - 1 : p \in Pos /\ p < n /\ Held[p] = buf[p + 1]
      BY <1>2, <3>1 DEF BlockAt, Pos
    <3>4. v' \in [Pos -> Pos]
      BY <3>1, <3>2
    <3>5. \A p \in Pos : p >= n => v'[p] = p
      BY <1>2, <3>1, <3>2 DEF Pos
    <3> QED
      BY <3>1, <3>3, <3>4, <3>5
  <2>2. CASE ~ S!InRegisters(entry, n)
    <3>1. v' = v /\ v \in [Pos -> Pos] /\ (\A p \in Pos : p >= n => v[p] = p) /\ Held = BlockAt(v, 0, n)
      BY <1>1, <2>2 DEF Running, Held
    <3>2. \A p \in 0 .. n - 1 : p \in Pos /\ Held[p] = v[p]
      BY <1>2, <3>1 DEF BlockAt, Pos
    <3> QED
      BY <3>1, <3>2
  <2> QED
    BY <2>1, <2>2
<1>7. IsArrangement(v')
  <2> SUFFICES ASSUME NEW p \in Pos, NEW q \in Pos, v'[p] = v'[q] PROVE p = q
    BY <1>6 DEF IsArrangement
  <2>1. \A r \in Pos : (r \in 0 .. n - 1 /\ v'[r] \in 0 .. n - 1 /\ v'[r] = Held[r])
                    \/ (r >= n /\ v'[r] = r)
    BY <1>2, <1>5, <1>6 DEF HoldsOnce, Pos
  <2> QED
    BY <1>2, <1>5, <2>1 DEF HoldsOnce, Pos
<1>8. ASSUME NEW p \in 0 .. n - 1, NEW q \in 0 .. n - 1, p < q
      PROVE  Before(v'[p], v'[q])
  <2>1. key[Held[p]] <= key[Held[q]]
    BY <1>1, <1>2, <1>4, <1>5, <1>8, KeysSorted
  <2>2. key[Held[p]] \in Int /\ key[Held[q]] \in Int
    BY <1>1, <1>2, <1>5, HeldKeys
  <2>3. entry \in S!Stable => entry = "insertion_sort"
    BY <1>1 DEF S!Stable, S!Sorts, S!Extends
  <2>4. key[Held[p]] = key[Held[q]] /\ entry \in S!Stable => Held[p] < Held[q]
    BY <1>5, <1>8, <2>3 DEF TiesInOrder
  <2> QED
    BY <1>6, <2>1, <2>2, <2>4 DEF Before
<1>9. Completed(v, n)'
  <2>1. \A p, q \in 0 .. n - 1 : p < q => Before(v'[p], v'[q])
    BY <1>8
  <2>2. InOrder(v, 0, n)'
    <3>1. UNCHANGED <<entry, key, n>>
      BY <1>1
    <3> QED
      BY <2>1, <3>1 DEF InOrder, Before
  <2> QED
    BY <1>1, <1>6, <1>7, <2>2 DEF Completed
<1> QED
  BY <1>1, <1>9 DEF SortInv, CallFacts
-----------------------------------------------------------------------------
(***************************************************************************)
(* The three families together.                                            *)
(***************************************************************************)
SmallIInv == ExtendInv \/ MergeInv \/ SortInv

LEMMA SmallIInvInit == S!Init => SmallIInv
<1> SUFFICES ASSUME S!Init PROVE SmallIInv
  OBVIOUS
<1>1. /\ entry \in S!Sorts \cup S!Extends \cup S!Merges /\ key \in [Pos -> Keys]
      /\ Untouched /\ n \in 0 .. N /\ k \in 0 .. n /\ pc = "call"
      /\ entry \in S!Extends \cup S!Merges => S!SortedFrom(0, k)
      /\ entry \in S!Merges => S!SortedFrom(k, n)
  BY SameNotions DEF S!Init, Untouched
<1>2. CallFacts /\ N \in Nat
  BY <1>1, NAssumption, ParameterAssumption DEF CallFacts
<1>3. IsArrangement(v) /\ \A p \in Pos : v[p] = p
  BY <1>1, UntouchedArrangement
<1>4. ASSUME NEW a \in 0 .. n, NEW b \in 0 .. n, S!SortedFrom(a, b) PROVE SortedKeys(a, b)
  <2> SUFFICES ASSUME NEW x \in a .. b - 1, NEW y \in a .. b - 1, x <= y PROVE key[x] <= key[y]
    BY DEF SortedKeys
  <2>1. x \in Pos /\ y \in Pos /\ key[x] \in Int /\ key[y] \in Int
    BY <1>1, <1>2 DEF CallFacts, Pos
  <2>2. CASE x < y
    BY <1>3, <1>4, <2>1, <2>2, SameNotions DEF S!SortedFrom
  <2>3. CASE x = y
    BY <2>1, <2>3
  <2> QED
    BY <2>1, <2>2, <2>3 DEF Pos
<1>5. CASE entry \in S!Extends
  <2>1. SortedKeys(0, k)
    BY <1>1, <1>4, <1>5
  <2>2. InOrder(v, 0, k)
    <3> SUFFICES ASSUME NEW p \in 0 .. k - 1, NEW q \in 0 .. k - 1, p < q PROVE Before(v[p], v[q])
      BY DEF InOrder
    <3>1. p \in Pos /\ q \in Pos /\ 0 \in 0 .. N /\ k \in 0 .. N
      BY <1>1, <1>2 DEF Pos
    <3> QED
      BY <1>2, <1>3, <2>1, <3>1, SortedBefore
  <2>3. Completed(v, k)
    BY <1>3, <2>2 DEF Completed
  <2> QED
    BY <1>1, <1>2, <1>5, <2>3 DEF SmallIInv, ExtendInv
<1>6. CASE entry \in S!Merges
  <2>1. SortedKeys(0, k) /\ SortedKeys(k, n)
    BY <1>1, <1>4, <1>6
  <2> QED
    BY <1>1, <1>2, <1>6, <2>1 DEF SmallIInv, MergeInv
<1>7. CASE entry \in S!Sorts
  BY <1>1, <1>2, <1>7 DEF SmallIInv, SortInv
<1> QED
  BY <1>1, <1>5, <1>6, <1>7

\* No function is of two families.
LEMMA FamiliesApart ==
    /\ entry \in S!Sorts => entry \notin S!Extends /\ entry \notin S!Merges
    /\ entry \in S!Extends => entry \notin S!Merges
  BY DEF S!Sorts, S!Extends, S!Merges

LEMMA ExtendInvNext == ExtendInv /\ S!Next => ExtendInv'
<1> SUFFICES ASSUME ExtendInv, S!Next PROVE ExtendInv'
  OBVIOUS
<1>1. ~ S!StartSort /\ ~ S!RunGate /\ ~ S!FinishSort
  BY FamiliesApart DEF ExtendInv, S!StartSort, S!RunGate, S!FinishSort
<1>2. ~ S!NothingToMerge /\ ~ S!CopyTail /\ ~ S!MergeStep /\ ~ S!SelectStep /\ ~ S!Merged
  BY FamiliesApart DEF ExtendInv, S!NothingToMerge, S!CopyTail, S!MergeStep, S!SelectStep, S!Merged
<1>3. S!Terminating => ExtendInv'
  BY DEF S!Terminating, S!vars, S!cursors, ExtendInv, CallFacts, Completed, InOrder, Before
<1> QED
  BY <1>1, <1>2, <1>3, StartExtendInv, TakeKeyInv, AllInsertedInv, ShiftOneInv, ScanOneInv,
     ProbeInv, DropInv DEF S!Next, S!MergeNext

LEMMA MergeInvNext == MergeInv /\ S!Next => MergeInv'
<1> SUFFICES ASSUME MergeInv, S!Next PROVE MergeInv'
  OBVIOUS
<1>1. ~ S!StartSort /\ ~ S!RunGate /\ ~ S!FinishSort
  BY FamiliesApart DEF MergeInv, S!StartSort, S!RunGate, S!FinishSort
<1>2. ~ S!StartExtend /\ ~ S!TakeKey /\ ~ S!AllInserted /\ ~ S!ShiftOne /\ ~ S!ScanOne
      /\ ~ S!Probe /\ ~ S!Drop
  BY FamiliesApart DEF MergeInv, S!StartExtend, S!TakeKey, S!AllInserted, S!ShiftOne,
     S!ScanOne, S!Probe, S!Drop
<1>3. S!Terminating => MergeInv'
  BY DEF S!Terminating, S!vars, S!cursors, MergeInv, CallFacts, SortedKeys, Completed, InOrder,
     Before
<1> QED
  BY <1>1, <1>2, <1>3, NothingToMergeInv, CopyTailInv, MergeStepInv, SelectStepInv, MergedInv
     DEF S!Next, S!MergeNext

LEMMA SortInvNext == S!GatesAssumption /\ SortInv /\ S!Next => SortInv'
<1> SUFFICES ASSUME S!GatesAssumption, SortInv, S!Next PROVE SortInv'
  OBVIOUS
<1>1. ~ S!MergeNext
  <2>1. ~ S!StartExtend /\ ~ S!TakeKey /\ ~ S!AllInserted /\ ~ S!ShiftOne /\ ~ S!ScanOne
        /\ ~ S!Probe /\ ~ S!Drop
    BY FamiliesApart DEF SortInv, S!StartExtend, S!TakeKey, S!AllInserted, S!ShiftOne,
       S!ScanOne, S!Probe, S!Drop
  <2>2. ~ S!NothingToMerge /\ ~ S!CopyTail /\ ~ S!MergeStep /\ ~ S!SelectStep /\ ~ S!Merged
    BY FamiliesApart DEF SortInv, S!NothingToMerge, S!CopyTail, S!MergeStep, S!SelectStep, S!Merged
  <2> QED
    BY <2>1, <2>2 DEF S!MergeNext
<1>2. S!Terminating => SortInv'
  BY DEF S!Terminating, S!vars, S!cursors, SortInv, CallFacts, Completed, InOrder, Before
<1> QED
  BY <1>1, <1>2, StartSortInv, RunGateInv, FinishSortInv DEF S!Next

LEMMA SmallStutters == SmallIInv /\ UNCHANGED S!vars => SmallIInv'
<1> SUFFICES ASSUME SmallIInv, UNCHANGED S!vars PROVE SmallIInv'
  OBVIOUS
<1>1. UNCHANGED <<entry, key, v, n, k, i, j, lo, hi, tmp, t, gates, buf, pc>>
  BY DEF S!vars, S!cursors
<1>2. CASE ExtendInv
  BY <1>1, <1>2 DEF SmallIInv, ExtendInv, CallFacts, Completed, InOrder, Before, Behind, Finding,
     InHand, MovedUp
<1>3. CASE MergeInv
  BY <1>1, <1>3 DEF SmallIInv, MergeInv, CallFacts, SortedKeys, Untouched, Completed, InOrder,
     Before, Merging, Refilled
<1>4. CASE SortInv
  <2>1. CallFacts' /\ (entry \in S!Sorts)' /\ (pc \in {"call", "run", "done"})'
        /\ (pc = "call" => Untouched)'
    BY <1>1, <1>4 DEF SortInv, CallFacts, Untouched
  <2>2. (pc = "done" => Completed(v, n))'
    BY <1>1, <1>4 DEF SortInv, Completed, InOrder, Before
  <2>3. ASSUME pc = "run" PROVE Running'
    <3>1. Running
      BY <1>4, <2>3 DEF SortInv
    <3>2. Held' = Held
      BY <1>1 DEF Held, BlockAt
    <3>3. HoldsOnce(Held, n)' /\ (entry = "insertion_sort" => TiesInOrder(Held, n))'
      BY <1>1, <3>1, <3>2 DEF Running, HoldsOnce, TiesInOrder
    <3>4. Net' = Net /\ \A x : KeyBits(Identity(n), x, n)' = KeyBits(Identity(n), x, n)
      BY <1>1 DEF Net, KeyBits, Identity
    <3>5. \A x : KeyBits(Held, x, n)' = KeyBits(Held, x, n)
      BY <1>1, <3>2 DEF KeyBits
    <3>6. (\E c \in Nat : Reached(c))'
      <4>1. PICK c \in Nat : Reached(c)
        BY <3>1 DEF Running
      <4>2. Reached(c)'
        <5>1. \A x \in Int : KeyBits(Held, x, n)' = S!KeyRun(KeyBits(Identity(n), x, n)', Net')[c]
          BY <3>4, <3>5, <4>1 DEF Reached
        <5>2. (Len(gates) = Len(Net) - c /\ c \in 0 .. Len(Net))'
          BY <1>1, <3>4, <4>1 DEF Reached
        <5>3. \A r \in 1 .. Len(gates') : gates'[r] = Net'[r + c]
          BY <1>1, <3>4, <4>1 DEF Reached
        <5> QED
          BY <5>1, <5>2, <5>3 DEF Reached
      <4> QED
        BY <4>2
    <3>7. (IF S!InRegisters(entry, n)
           THEN Untouched /\ buf \in [1 .. n -> 0 .. n - 1]
           ELSE buf = <<>> /\ v \in [Pos -> Pos] /\ \A p \in Pos : p >= n => v[p] = p)'
      BY <1>1, <3>1 DEF Running, Untouched
    <3>8. (gates \in Seq(S!Wiring(n)))'
      BY <1>1, <3>1 DEF Running
    <3> QED
      BY <3>3, <3>6, <3>7, <3>8 DEF Running
  <2> QED
    BY <1>1, <2>1, <2>2, <2>3 DEF SmallIInv, SortInv
<1> QED
  BY <1>2, <1>3, <1>4 DEF SmallIInv

LEMMA SmallIInvNext == S!GatesAssumption /\ SmallIInv /\ [S!Next]_(S!vars) => SmallIInv'
  BY ExtendInvNext, MergeInvNext, SortInvNext, SmallStutters DEF SmallIInv
-----------------------------------------------------------------------------
LEMMA SmallIInvSorts == SmallIInv => SortsTheBlock
<1> SUFFICES ASSUME SmallIInv, pc = "done" PROVE S!SortsTheBlock
  BY DEF SortsTheBlock, S!SortsTheBlock
<1>1. CallFacts /\ Completed(v, n) /\ N \in Nat /\ n \in 0 .. N
  BY NAssumption DEF SmallIInv, ExtendInv, MergeInv, SortInv, CallFacts
<1>2. IsArrangement(v) /\ v \in [Pos -> Pos] /\ \A p \in Pos : p >= n => v[p] = p
  BY <1>1 DEF Completed, IsArrangement
<1>3. \A p, q \in 0 .. n - 1 : p < q => Before(v[p], v[q])
  BY <1>1 DEF Completed, InOrder
<1>4. \A p \in 0 .. n - 1 : key[v[p]] \in Int /\ v[p] \in Int
  BY <1>1, <1>2 DEF CallFacts, Pos
<1>5. S!SortedFrom(0, n)
  BY <1>3, <1>4, SameNotions DEF S!SortedFrom, Before
<1>6. S!SameOutside(v, [p \in S!Pos |-> p], 0, n)
  BY <1>1, <1>2, SameNotions DEF S!SameOutside, Pos
<1>7. entry \in S!Stable =>
         \A p, q \in 0 .. n - 1 : p < q /\ key[v[p]] = key[v[q]] => v[p] < v[q]
  BY <1>3, <1>4 DEF Before
<1> QED
  BY <1>2, <1>5, <1>6, <1>7, SameNotions DEF S!SortsTheBlock

\* Between two steps of a completion.
LEMMA ExtendInvInvariant == ExtendInv => SmallInvariant
<1> SUFFICES ASSUME ExtendInv PROVE S!SmallInvariant
  BY DEF SmallInvariant
<1>1. CallFacts /\ N \in Nat /\ n \in 0 .. N /\ pc \in {"call", "next", "find", "done"}
  BY NAssumption DEF ExtendInv, CallFacts
<1>2. pc \in {"call", "next", "done"} => S!IsArrangement(v)
  BY SameNotions DEF ExtendInv, Completed
<1>3. ASSUME pc = "next" PROVE S!SortedFrom(0, i)
  <2>1. i \in Nat \ {0} /\ InOrder(v, 0, Behind) /\ v \in [Pos -> Pos] /\ (i <= n \/ i = 1)
    BY <1>3 DEF ExtendInv, Completed, IsArrangement
  <2>2. CASE i <= n
    <3>1. \A p \in 0 .. i - 1 : key[v[p]] \in Int
      BY <1>1, <2>1, <2>2 DEF CallFacts, Pos
    <3> QED
      BY <2>1, <2>2, <3>1, SameNotions DEF S!SortedFrom, InOrder, Before, Behind
  <2>3. CASE i = 1
    BY <2>3 DEF S!SortedFrom
  <2> QED
    BY <2>1, <2>2, <2>3
<1>4. ASSUME pc = "find"
      PROVE  /\ S!IsArrangement([v EXCEPT ![IF entry = "extend_sorted" THEN j ELSE i] = tmp[1]])
             /\ S!InsertionPoint
  <2>1. PICK w : InHand(w)
    BY <1>4 DEF ExtendInv, Finding
  <2>2. /\ i \in Pos /\ i \in 1 .. n - 1
        /\ w \in [Pos -> Pos] /\ tmp[1] = i /\ key[i] \in Int
        /\ \A p \in 0 .. i - 1 : p \in Pos /\ w[p] \in 0 .. i - 1 /\ key[w[p]] \in Int
        /\ \A p \in Pos : p >= i => w[p] = p
    BY <1>4, <2>1, InHandCells
  <2>3. /\ j \in 0 .. i /\ lo \in 0 .. i /\ hi \in lo .. i
        /\ entry # "extend_sorted_bsearch" => lo = 0
    BY <1>4 DEF ExtendInv, Finding
  <2>4. CASE entry = "extend_sorted"
    <3>1. v = MovedUp(w, i, j)
      BY <2>1, <2>4 DEF InHand
    <3>2. [v EXCEPT ![j] = tmp[1]] = Insertion(w, i, j)
      BY <2>2, <2>3, <3>1 DEF MovedUp, Insertion, Pos
    <3>3. IsArrangement(Insertion(w, i, j))
      BY <2>1, <2>2, <2>3, InsertionRearranges DEF InHand
    <3>4. ASSUME NEW p \in j .. i - 1 PROVE S!Less(tmp[1], v[p + 1])
      <4>1. p + 1 \in Pos /\ p + 1 \in j + 1 .. i /\ (p + 1) - 1 = p
        BY <1>1, <2>2, <2>3 DEF Pos
      <4>2. v[p + 1] = w[p]
        BY <3>1, <4>1 DEF MovedUp
      <4> QED
        BY <2>1, <2>2, <2>4, <4>2, SameNotions DEF InHand
    <3>5. S!IsArrangement([v EXCEPT ![IF entry = "extend_sorted" THEN j ELSE i] = tmp[1]])
      BY <2>4, <3>2, <3>3, SameNotions
    <3>6. entry # "extend_sorted_bsearch" /\ 0 .. lo - 1 = {}
      BY <2>3, <2>4
    <3>7. S!InsertionPoint
      BY <1>4, <2>4, <3>4, <3>6 DEF S!InsertionPoint
    <3> QED
      BY <3>5, <3>7
  <2>5. CASE entry # "extend_sorted"
    <3>1. v = w
      BY <2>1, <2>5 DEF InHand
    <3>2. [v EXCEPT ![i] = tmp[1]] = w
      BY <2>2, <3>1
    <3>3. IsArrangement(w)
      BY <2>1 DEF InHand, Completed
    <3>4. \A p \in 0 .. lo - 1 : ~ S!Less(tmp[1], v[p])
      BY <2>1, <2>2, <2>3, <3>1, SameNotions DEF InHand
    <3>5. entry = "extend_sorted_bsearch" => \A p \in hi .. i - 1 : S!Less(tmp[1], v[p])
      BY <2>1, <2>2, <2>3, <3>1, SameNotions DEF InHand
    <3>6. entry # "extend_sorted_bsearch" => \A p \in j .. i - 1 : S!Less(tmp[1], v[p])
      BY <2>1, <2>2, <2>3, <3>1, SameNotions DEF InHand
    <3> QED
      BY <1>4, <2>5, <3>2, <3>3, <3>4, <3>5, <3>6, SameNotions DEF S!InsertionPoint
  <2> QED
    BY <2>4, <2>5
<1> QED
  BY <1>1, <1>2, <1>3, <1>4 DEF S!SmallInvariant, S!NothingOverwritten, S!InsertionPoint

\* Between two steps of a merge.
LEMMA MergeInvInvariant == MergeInv => SmallInvariant
<1> SUFFICES ASSUME MergeInv PROVE S!SmallInvariant
  BY DEF SmallInvariant
<1>1. pc \in {"call", "merge", "done"} /\ N \in Nat /\ n \in 0 .. N /\ k \in 0 .. n
  BY NAssumption DEF MergeInv, CallFacts
<1>2. pc \in {"call", "done"} => S!IsArrangement(v)
  BY UntouchedArrangement, SameNotions DEF MergeInv, Completed
<1>3. ASSUME pc = "merge"
      PROVE  /\ j = i + t
             /\ S!IsArrangement([p \in S!Pos |-> IF p \in i .. j - 1 THEN tmp[p - i + 1] ELSE v[p]])
  <2>1. Merging
    BY <1>3 DEF MergeInv
  <2>2. /\ i \in 0 .. k /\ t \in 0 .. n - k /\ j = i + t
        /\ tmp = [x \in 1 .. n - k |-> k + x - 1] /\ IsArrangement(Refilled)
    BY <2>1 DEF Merging
  <2>3. \A p \in Pos : p \in i .. j - 1 => tmp[p - i + 1] = k + (p - i)
    <3> SUFFICES ASSUME NEW p \in Pos, p \in i .. j - 1 PROVE tmp[p - i + 1] = k + (p - i)
      OBVIOUS
    <3>1. p - i + 1 \in 1 .. n - k /\ k + (p - i + 1) - 1 = k + (p - i)
      BY <1>1, <2>2
    <3> QED
      BY <2>2, <3>1
  <2>4. Refilled = [p \in Pos |-> IF p \in i .. j - 1 THEN tmp[p - i + 1] ELSE v[p]]
    BY <2>3 DEF Refilled
  <2> QED
    BY <2>2, <2>4, SameNotions
<1> QED
  BY <1>1, <1>2, <1>3 DEF S!SmallInvariant, S!NothingOverwritten, S!InsertionPoint

\* As many different elements as cells are all the elements.
LEMMA AllAreHeld ==
    ASSUME NEW m \in Nat, NEW a, HoldsOnce(a, m), NEW e \in 0 .. m - 1
    PROVE  \E p \in 0 .. m - 1 : a[p] = e
<1> DEFINE cells == 0 .. m - 1
<1>1. IsFiniteSet(cells)
  BY FS_Interval
<1>2. a \in Injection(cells, cells)
  BY DEF HoldsOnce, Injection, IsInjective
<1> HIDE DEF cells
<1>3. a \in Surjection(cells, cells)
  BY <1>1, <1>2, FS_Injection
<1> QED
  BY <1>3 DEF Surjection, cells

\* Between two gates of a sort.
LEMMA SortInvInvariant == SortInv => SmallInvariant
<1> SUFFICES ASSUME SortInv PROVE S!SmallInvariant
  BY DEF SmallInvariant
<1>1. pc \in {"call", "run", "done"} /\ N \in Nat /\ n \in 0 .. N /\ n \in Nat
  BY NAssumption DEF SortInv, CallFacts
<1>2. pc \in {"call", "done"} => S!IsArrangement(v)
  BY UntouchedArrangement, SameNotions DEF SortInv, Completed
<1>3. ASSUME pc = "run"
      PROVE  S!IsArrangement(v) /\ (buf # <<>> => {buf[p] : p \in DOMAIN buf} = 0 .. n - 1)
  <2>1. Running /\ HoldsOnce(Held, n)
    BY <1>3 DEF SortInv, Running
  <2>2. CASE S!InRegisters(entry, n)
    <3>1. Untouched /\ buf \in [1 .. n -> 0 .. n - 1] /\ Held = BlockAt(buf, 1, n)
      BY <2>1, <2>2 DEF Running, Held
    <3>2. ASSUME NEW e \in 0 .. n - 1 PROVE e \in {buf[p] : p \in DOMAIN buf}
      <4>1. PICK p \in 0 .. n - 1 : Held[p] = e
        BY <1>1, <2>1, AllAreHeld
      <4>2. buf[p + 1] = e /\ p + 1 \in 1 .. n
        BY <1>1, <3>1, <4>1 DEF BlockAt
      <4> QED
        BY <3>1, <4>2
    <3>3. {buf[p] : p \in DOMAIN buf} \subseteq 0 .. n - 1
      BY <3>1
    <3> QED
      BY <3>1, <3>2, <3>3, UntouchedArrangement, SameNotions
  <2>3. CASE ~ S!InRegisters(entry, n)
    <3>1. /\ buf = <<>> /\ v \in [Pos -> Pos] /\ (\A p \in Pos : p >= n => v[p] = p)
          /\ Held = BlockAt(v, 0, n)
      BY <2>1, <2>3 DEF Running, Held
    <3>2. \A p \in 0 .. n - 1 : Held[p] = v[p]
      BY <1>1, <3>1 DEF BlockAt
    <3>3. ASSUME NEW r \in Pos
          PROVE  \/ r \in 0 .. n - 1 /\ v[r] \in 0 .. n - 1 /\ v[r] = Held[r]
                 \/ r >= n /\ v[r] = r
      <4>1. r \in 0 .. n - 1 \/ r >= n
        BY <1>1 DEF Pos
      <4>2. r \in 0 .. n - 1 => Held[r] \in 0 .. n - 1
        BY <2>1 DEF HoldsOnce
      <4> QED
        BY <3>1, <3>2, <4>1, <4>2
    <3>4. ASSUME NEW p \in Pos, NEW q \in Pos, v[p] = v[q] PROVE p = q
      BY <1>1, <2>1, <3>3, <3>4 DEF HoldsOnce, Pos
    <3> QED
      BY <3>1, <3>4, SameNotions DEF IsArrangement
  <2> QED
    BY <2>2, <2>3
<1> QED
  BY <1>1, <1>2, <1>3 DEF S!SmallInvariant, S!NothingOverwritten, S!InsertionPoint

LEMMA SmallIInvInvariant == SmallIInv => SmallInvariant
  BY ExtendInvInvariant, MergeInvInvariant, SortInvInvariant DEF SmallIInv

\* small_sort.hpp and small_merge.hpp, for a block of any length up to N and keys of any
\* values: between two steps no element is lost; an insertion leaves sorted cells
\* behind and its interval still holds the place of the element; the writes of a
\* merge never reach what is left of the prefix; and a block in registers holds
\* the elements it was loaded with.
THEOREM SmallInvariantHolds == S!Spec => []SmallInvariant
<1> USE SmallParameters DEF SmallParameters
<1>1. S!Init => SmallIInv
  BY SmallIInvInit
<1>2. SmallIInv /\ [S!Next]_(S!vars) => SmallIInv'
  BY SmallIInvNext
<1>3. SmallIInv => SmallInvariant
  BY SmallIInvInvariant
<1> QED
  BY <1>1, <1>2, <1>3, PTL DEF S!Spec

\* small_sort.hpp and small_merge.hpp: every sort, extension and merge that returns has
\* sorted the block, whatever the keys are, with the elements it found there and
\* no other cell touched; extend_sorted in its three forms, merge_sorted and
\* insertion_sort have kept the order of equal keys.  Of a list of exchanges only
\* zeros and ones are assumed to come out sorted.
THEOREM SortsTheBlockHolds == S!Spec => []SortsTheBlock
<1> USE SmallParameters DEF SmallParameters
<1>1. S!Init => SmallIInv
  BY SmallIInvInit
<1>2. SmallIInv /\ [S!Next]_(S!vars) => SmallIInv'
  BY SmallIInvNext
<1>3. SmallIInv => SortsTheBlock
  BY SmallIInvSorts
<1> QED
  BY <1>1, <1>2, <1>3, PTL DEF S!Spec
=============================================================================

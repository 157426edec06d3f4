----------------------------- MODULE SmallSort -----------------------------
(***************************************************************************)
(* small_sort.hpp: sorting a block of a fixed small size.  Every form runs *)
(* a fixed list of exchanges: the listed networks, Batcher's odd-even      *)
(* merge sort, a branchless insertion sort, or (varsort, 2 to 5 elements)  *)
(* the libc++ routines.  sort_reg and varsort run it on a copy of the      *)
(* block.  With small_merge.hpp these are all the routines for blocks that *)
(* the library does not only halve.                                        *)
(***************************************************************************)
EXTENDS SmallMerge, SortingNetworks, SequencesExt

VARIABLES
    gates,      \* the exchanges still to be made
    buf         \* the local copy of the block, <<>> without one

vars == <<entry, key, v, n, k, cursors, gates, buf, pc>>

Sorts == {"sort", "sort_network_oems", "insertion_sort", "sort_reg", "varsort"}
-----------------------------------------------------------------------------
\* next_pow2: p = 1; while (p < n) p *= 2
next_pow2(real) ==
    LET p[x \in Nat] == IF x < real THEN p[2 * x] ELSE x
    IN  p[1]

\* An exchange with a cell beyond the block is left out.
MaybeCswap(x, y, real) == IF x < real /\ y < real THEN <<<<x, y>>>> ELSE <<>>

\* oe_emit, oe_merge, oe_sort_pow2: size is their N, r their R
OeEmit(from, limit, r, step, real) ==
    LET emit[x \in Nat] ==
            IF x + r <= limit THEN MaybeCswap(x, x + r, real) \o emit[x + step] ELSE <<>>
    IN  emit[from]

OeMerge(from, length, real) ==
    LET merge[low, size, r \in Nat] ==
            IF 2 * r < size
            THEN merge[low, size, 2 * r] \o merge[low + r, size - r, 2 * r]
                    \o OeEmit(low + r, low + size - r, r, 2 * r, real)
            ELSE MaybeCswap(low, low + r, real)
    IN  merge[from, length, 1]

OemsSort(real) ==
    LET sort[low, size \in Nat] ==
            IF size > 1
            THEN sort[low, size \div 2] \o sort[low + size \div 2, size \div 2]
                    \o OeMerge(low, size, real)
            ELSE <<>>
    IN  sort[0, next_pow2(real)]

\* for (i = 1; i < n; ++i) for (j = i; j > 0; --j) cswap(first[j - 1], first[j])
InsertionGates(size) ==
    FlattenSeq([x \in 1 .. size - 1 |-> [y \in 1 .. x |-> <<x - y, x - y + 1>>]])

\* varsort_block<N> for N = 2 to 5: three cells stand for partially_sorted_swap,
\* two for cas.
VarsortGates ==
    <<<<<<0, 1>>>>, <<<<0, 1>>, <<1, 2>>, <<0, 1>>>>,
      <<<<0, 1>>, <<1, 2>>, <<0, 1>>, <<2, 3>>, <<1, 2>>, <<0, 1>>>>,
      <<<<0, 1>>, <<3, 4>>, <<2, 3, 4>>, <<1, 4>>, <<0, 2, 3>>, <<1, 2, 3>>>>>>

\* What the dispatch on n picks.
GatesFor(e, size) ==
    CASE size <= 1 -> <<>>
      [] size > 1 /\ e = "sort_network_oems" -> OemsSort(size)
      [] size > 1 /\ (e = "insertion_sort"
                      \/ (e # "sort_network_oems" /\ size > LargestNetwork)) ->
            InsertionGates(size)
      [] size \in 2 .. 5 /\ e = "varsort" -> VarsortGates[size - 1]
      [] OTHER -> Network(size)

\* The forms that load the block into locals.
InRegisters(e, size) == e \in {"sort_reg", "varsort"} /\ size \in 2 .. LargestNetwork

StartSort ==
    /\ pc = "call"
    /\ entry \in Sorts
    /\ gates' = GatesFor(entry, n)
    /\ buf' = IF InRegisters(entry, n) THEN [p \in 1 .. n |-> v[p - 1]] ELSE <<>>
    /\ pc' = "run"
    /\ UNCHANGED <<entry, key, v, n, k, cursors>>
-----------------------------------------------------------------------------
\* What a gate does to an array of keys, whichever of two equal ones it moves.
KeyGate(a, g) ==
    IF Len(g) = 2
    THEN IF a[g[2]] < a[g[1]] THEN Swap(a, g[1], g[2]) ELSE a
    ELSE LET lesser  == IF a[g[3]] < a[g[1]] THEN a[g[3]] ELSE a[g[1]]
             greater == IF a[g[3]] < a[g[1]] THEN a[g[1]] ELSE a[g[3]]
         IN  [a EXCEPT ![g[3]] = greater,
                       ![g[1]] = IF lesser < a[g[2]] THEN lesser ELSE a[g[2]],
                       ![g[2]] = IF lesser < a[g[2]] THEN a[g[2]] ELSE lesser]

\* The arrays of keys before the first, second, ... gate of net and after the last.
KeyRun(a, net) ==
    LET after[c \in 0 .. Len(net)] == IF c = 0 THEN a ELSE KeyGate(after[c - 1], net[c])
    IN  after

\* Two cells, or three different ones, of a block.
Wiring(size) ==
    LET cells == 0 .. size - 1
    IN  (cells \X cells) \cup
        {g \in cells \X cells \X cells : g[1] # g[2] /\ g[1] # g[3] /\ g[2] # g[3]}

\* net sorts every block of zeros and ones, and calls partially_sorted_swap with
\* y <= z only (verify_small_sort.cpp:1-6, small_sort.hpp:733).
SortsBits(net, size) ==
    \A bits \in [0 .. size - 1 -> {0, 1}] : LET after == KeyRun(bits, net) IN
        /\ \A c \in 1 .. Len(net) : Len(net[c]) = 3 =>
              after[c - 1][net[c][2]] <= after[c - 1][net[c][3]]
        /\ \A p \in 1 .. size - 1 : after[Len(net)][p - 1] <= after[Len(net)][p]

\* Assumed where the module is instantiated.
GatesAssumption ==
    \A e \in Sorts, size \in 0 .. N :
        /\ GatesFor(e, size) \in Seq(Wiring(size))
        /\ SortsBits(GatesFor(e, size), size)
-----------------------------------------------------------------------------
\* cswap(a, b): on a tie nothing is exchanged; cas(x, y): on a tie they are.
Exchanged(x, y) ==
    IF entry = "varsort" /\ n <= 5 THEN ~ Less(x, y) ELSE Less(y, x)

ExchangeIn(a, g, base) ==
    LET x == g[1] + base
        y == g[2] + base
    IN  IF Exchanged(a[x], a[y]) THEN Swap(a, x, y) ELSE a

\* A slip: the middle cell keeps its element whatever r2 says.
PartialSortIn_KeepsMiddle(a, g, base) ==
    LET x  == g[1] + base
        y  == g[2] + base
        z  == g[3] + base
        r1 == Less(a[z], a[x])
        r2 == Less(IF r1 THEN a[z] ELSE a[x], a[y])
    IN  [a EXCEPT ![z] = IF r1 THEN a[x] ELSE a[z],
                  ![x] = IF r2 THEN a[x] ELSE a[y]]

\* partially_sorted_swap(x, y, z), y <= z: r1 = z < x, tmp the lesser of the two;
\* r2 = tmp < y, and the code leaves x alone when r2 holds.
PartialSortIn(a, g, base) ==
    LET x  == g[1] + base
        y  == g[2] + base
        z  == g[3] + base
        r1 == Less(a[z], a[x])
        tm == IF r1 THEN a[z] ELSE a[x]
        r2 == Less(tm, a[y])
    IN  [a EXCEPT ![z] = IF r1 THEN a[x] ELSE a[z],
                  ![x] = IF r2 THEN a[x] ELSE a[y],
                  ![y] = IF r2 THEN a[y] ELSE tm]

GateIn(a, g, base) ==
    IF Len(g) = 2 THEN ExchangeIn(a, g, base) ELSE PartialSortIn(a, g, base)

\* The next exchange, in the array or in the copy.
RunGate ==
    /\ pc = "run"
    /\ gates # <<>>
    /\ IF InRegisters(entry, n)
       THEN buf' = GateIn(buf, Head(gates), 1) /\ UNCHANGED v
       ELSE v' = GateIn(v, Head(gates), 0) /\ UNCHANGED buf
    /\ gates' = Tail(gates)
    /\ UNCHANGED <<entry, key, n, k, cursors, pc>>

\* A slip: the last cell of the copy is not stored back.
FinishSort_KeepsLast ==
    /\ pc = "run"
    /\ gates = <<>>
    /\ v' = IF InRegisters(entry, n)
            THEN [p \in Pos |-> IF p < n - 1 THEN buf[p + 1] ELSE v[p]]
            ELSE v
    /\ pc' = "done"
    /\ UNCHANGED <<entry, key, n, k, cursors, gates, buf>>

\* The list is done; the copy is stored back.
FinishSort ==
    /\ pc = "run"
    /\ gates = <<>>
    /\ v' = IF InRegisters(entry, n)
            THEN [p \in Pos |-> IF p < n THEN buf[p + 1] ELSE v[p]]
            ELSE v
    /\ pc' = "done"
    /\ UNCHANGED <<entry, key, n, k, cursors, gates, buf>>
-----------------------------------------------------------------------------
Init ==
    /\ entry \in Sorts \cup Extends \cup Merges
    /\ key \in [Pos -> Keys]
    /\ v = [p \in Pos |-> p]
    /\ n \in 0 .. N
    /\ k \in 0 .. n
    /\ i = 0 /\ j = 0 /\ lo = 0 /\ hi = 0 /\ tmp = <<>> /\ t = 0
    /\ gates = <<>> /\ buf = <<>>
    /\ entry \in Sorts => k = 0
    /\ entry \in Extends \cup Merges => SortedFrom(0, k)
    /\ entry \in Merges => SortedFrom(k, n)
    /\ pc = "call"

Terminating == pc = "done" /\ UNCHANGED vars

Next ==
    \/ StartSort \/ RunGate \/ FinishSort
    \/ MergeNext /\ UNCHANGED <<gates, buf>>
    \/ Terminating

Spec == Init /\ [][Next]_vars
-----------------------------------------------------------------------------
\* The invariant of the completions and of the copied block: no element is lost
\* on the way, and an insertion never leaves an unsorted cell behind.
SmallInvariant ==
    /\ NothingOverwritten
    /\ InsertionPoint
    /\ pc = "run" => IsArrangement(v)
    /\ pc = "run" /\ buf # <<>> => {buf[p] : p \in DOMAIN buf} = 0 .. n - 1

\* The forms that keep elements with equal keys in their order: a merge is
\* "stable (equal keys keep prefix-before-tail order)" (small_merge.hpp:120), an
\* insertion lands "after the existing equal run" (small_merge.hpp:77-78).
\* merge_sorted_branchless and the networks make no such promise.
Stable == Extends \cup {"merge_sorted", "insertion_sort"}

\* On return the block is sorted, holds what it held, and the cells outside it
\* are untouched; the stable forms have kept the order of equal keys.
SortsTheBlock ==
    pc = "done" =>
        /\ IsArrangement(v)
        /\ SortedFrom(0, n)
        /\ SameOutside(v, [p \in Pos |-> p], 0, n)
        /\ entry \in Stable =>
              \A p, q \in 0 .. n - 1 : p < q /\ key[v[p]] = key[v[q]] => v[p] < v[q]
=============================================================================

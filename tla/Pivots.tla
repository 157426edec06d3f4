------------------------------- MODULE Pivots -------------------------------
(***************************************************************************)
(* The pivot strategies of pivot.hpp that look at a few elements of the    *)
(* block: which cells they sample, and what rank among the samples their   *)
(* choice has.  A strategy falls back to a simpler one on a block that is  *)
(* too short for it.                                                       *)
(*                                                                         *)
(* Sample w is wire w of a network.  A gate of two wires puts the lesser   *)
(* key on the first; where the code keeps only one of the two, the other   *)
(* wire is not read again.  A gate of three wires is median3, which moves  *)
(* the median to the middle wire, and a gate "sort" sorts its wires, as    *)
(* median_of_range sorts its iterators.  The network runs on all keys at   *)
(* once: for any threshold a key is 0 (at most it) or 1 (above it), and    *)
(* groups holds every array of zeros and ones the wires can hold.          *)
(***************************************************************************)
EXTENDS ZeroOne

CONSTANT MaxBlock           \* elements of a block

\* Assumed where the module is instantiated.
MaxBlockAssumption == MaxBlock \in Nat \ {0}

VARIABLES
    strategy,
    n,                      \* elements of the block
    samples,                \* the cell of each wire
    groups,                 \* what the wires can hold
    gates,                  \* the gates still to come
    pick,                   \* the wire of the result
    pc

vars == <<strategy, n, samples, groups, gates, pick, pc>>
-----------------------------------------------------------------------------
\* The networks of the value pivots, and the wire they return.
Pseudo15 == [pick |-> 7, net |->
    <<<<1,11>>,<<13,5>>,<<1,13>>,<<5,11>>,<<4,10>>,<<12,6>>,<<4,12>>,<<10,6>>,
      <<13,12>>,<<5,10>>,<<14,2>>,<<7,3>>,<<8,0>>,<<9,2>>,<<9,8>>,<<0,2>>,
      <<13,7>>,<<5,14>>,<<10,0>>,<<8,3>>,<<7,14>>,<<8,14>>,<<8,7>>,<<14,12>>,
      <<10,7>>,<<7,14>>,<<10,7>>>>]

Pseudo15_s5 == [pick |-> 10, net |->
    <<<<13,11>>,<<7,9>>,<<5,14>>,<<0,12>>,<<6,8>>,<<3,4>>,<<10,2>>,<<9,1>>,
      <<6,3>>,<<7,13>>,<<11,14>>,<<5,0>>,<<2,13>>,<<7,6>>,<<9,3>>,<<14,12>>,
      <<3,11>>,<<10,2>>,<<14,8>>,<<0,6>>,<<3,2>>,<<12,8>>,<<11,13>>,<<10,6>>,
      <<0,9>>,<<5,3>>,<<4,2>>,<<9,10>>,<<1,2>>,<<4,6>>,<<10,3>>,<<11,1>>,
      <<12,6>>,<<11,14>>,<<1,14>>,<<4,11>>,<<12,1>>,<<12,11>>,<<11,3>>,
      <<12,10>>,<<11,10>>>>]

Pseudo9 == [pick |-> 0, net |->
    <<<<6,1>>,<<2,0>>,<<5,8>>,<<7,3>>,<<0,8>>,<<5,2>>,<<1,7>>,<<6,4>>,<<3,4>>,
      <<1,2>>,<<0,7>>,<<2,0>>,<<2,3>>,<<0,3>>>>]

Pseudo9_s1 == [pick |-> 6, net |->
    <<<<5,0>>,<<2,1>>,<<7,4>>,<<6,7>>,<<3,2>>,<<5,8>>,<<0,8>>,<<2,1>>,<<7,4>>,
      <<5,6>>,<<8,1>>,<<7,2>>,<<3,6>>,<<7,0>>,<<4,8>>,<<2,0>>,<<6,4>>,<<2,4>>,
      <<2,6>>>>]

Pseudo9_s2 == [pick |-> 6, net |->
    <<<<4,5>>,<<8,0>>,<<1,3>>,<<8,7>>,<<0,2>>,<<4,8>>,<<2,3>>,<<1,0>>,<<5,7>>,
      <<6,8>>,<<0,5>>,<<2,7>>,<<8,5>>,<<1,0>>,<<2,8>>,<<0,6>>,<<2,6>>,<<6,8>>>>]

Pseudo9_s3 == [pick |-> 6, net |->
    <<<<3,7>>,<<1,8>>,<<0,4>>,<<3,6>>,<<4,7>>,<<2,0>>,<<8,6>>,<<3,1>>,<<5,4>>,
      <<8,0>>,<<6,4>>,<<2,1>>,<<8,5>>,<<6,0>>,<<6,5>>,<<5,1>>,<<5,6>>>>]

Pseudo9_s4 == [pick |-> 8, net |->
    <<<<0,5>>,<<3,4>>,<<6,1>>,<<8,7>>,<<2,5>>,<<0,6>>,<<7,1>>,<<2,8>>,<<7,5>>,
      <<6,8>>,<<2,3>>,<<6,3>>,<<8,4>>,<<3,8>>,<<7,3>>,<<8,3>>>>]

Pseudo9_s5 == [pick |-> 8, net |->
    <<<<4,3>>,<<6,5>>,<<8,2>>,<<7,0>>,<<7,8>>,<<5,3>>,<<4,6>>,<<2,0>>,<<8,1>>,
      <<6,5>>,<<5,1>>,<<6,8>>,<<2,5>>,<<8,5>>,<<2,8>>>>]

SortingNetwork9 == [pick |-> 4, net |->
    <<<<0,3>>,<<1,7>>,<<2,5>>,<<4,8>>,<<0,7>>,<<2,4>>,<<3,8>>,<<5,6>>,<<0,2>>,
      <<1,3>>,<<4,5>>,<<7,8>>,<<1,4>>,<<3,6>>,<<5,7>>,<<0,1>>,<<2,4>>,<<3,5>>,
      <<6,8>>,<<2,3>>,<<4,5>>,<<6,7>>,<<1,2>>,<<3,4>>,<<5,6>>>>]

ValueNetwork ==
    [pseudo15 |-> Pseudo15, pseudo15_s5 |-> Pseudo15_s5, pseudo9 |-> Pseudo9,
     pseudo9_s1 |-> Pseudo9_s1, pseudo9_s2 |-> Pseudo9_s2, pseudo9_s3 |-> Pseudo9_s3,
     pseudo9_s4 |-> Pseudo9_s4, pseudo9_s5 |-> Pseudo9_s5,
     sorting_network_9 |-> SortingNetwork9]

Values15 == {"pseudo15", "pseudo15_s5"}
Values9 == {"pseudo9", "pseudo9_s1", "pseudo9_s2", "pseudo9_s3", "pseudo9_s4",
             "pseudo9_s5", "sorting_network_9"}

Strategies ==
    Values15 \cup Values9 \cup
    {"first", "middle", "last", "random", "median_of_3", "median_of_3_inplace",
     "median_of_5", "ninther", "median_of_5_medians_of_5",
     "median_of_5_medians_of_5_898", "median_of_5_medians_of_3",
     "median_of_3_medians_of_5", "median_of_medians_5"}
-----------------------------------------------------------------------------
\* The shortest block a strategy samples itself, and what it does otherwise.
Shortest(s) ==
    CASE s \in {"median_of_3", "median_of_3_inplace"} -> 3
      [] s = "median_of_5" -> 5
      [] s = "ninther" -> 9
      [] s \in {"median_of_5_medians_of_3", "median_of_3_medians_of_5"} -> 15
      [] s \in {"median_of_5_medians_of_5", "median_of_5_medians_of_5_898"} -> 25
      [] OTHER -> 1

Fallback(s) ==
    CASE s \in {"median_of_3", "median_of_3_inplace"} -> "middle"
      [] s \in {"median_of_5", "ninther"} -> "median_of_3"
      [] OTHER -> "median_of_5"

\* The cells that are sampled, as offsets from first.
FirstAt(len) == [w \in 0 .. 0 |-> 0]
MiddleAt(len) == [w \in 0 .. 0 |-> len \div 2]

\* A slip: last is taken for the last element.
LastAt_PastEnd(len) == [w \in 0 .. 0 |-> len]

LastAt(len) == [w \in 0 .. 0 |-> len - 1]

MedianOf3At(len) ==
    [w \in 0 .. 2 |-> CASE w = 0 -> 0 [] w = 1 -> len \div 2 [] OTHER -> len - 1]

MedianOf5At(len) ==
    [w \in 0 .. 4 |-> CASE w = 0 -> 0 [] w = 1 -> len \div 4 [] w = 2 -> len \div 2
                        [] w = 3 -> (3 * len) \div 4 [] OTHER -> len - 1]

\* A slip: the spacing is rounded up.
NintherAt_RoundsUp(len) ==
    LET e == (len + 7) \div 8
    IN  [w \in 0 .. 8 |-> CASE w < 3 -> w * e
                            [] w \in 3 .. 5 -> len \div 2 + (w - 4) * e
                            [] OTHER -> (len - 1) - (8 - w) * e]

NintherAt(len) ==
    LET e == len \div 8
    IN  [w \in 0 .. 8 |-> CASE w < 3 -> w * e
                            [] w \in 3 .. 5 -> len \div 2 + (w - 4) * e
                            [] OTHER -> (len - 1) - (8 - w) * e]

\* A slip: the samples are spaced over len instead of len - 1.
EvenlyAt_WholeLength(len, count) == [w \in 0 .. count - 1 |-> (w * len) \div (count - 1)]

EvenlyAt(len, count) == [w \in 0 .. count - 1 |-> (w * (len - 1)) \div (count - 1)]

\* A slip: the middle cluster is not centred.
Clusters898At_Low(len) ==
    [w \in 0 .. 24 |-> CASE w < 8 -> w
                         [] w \in 8 .. 16 -> len \div 2 - 5 + (w - 8)
                         [] OTHER -> len - 8 + (w - 17)]

Clusters898At(len) ==
    [w \in 0 .. 24 |-> CASE w < 8 -> w
                         [] w \in 8 .. 16 -> len \div 2 - 4 + (w - 8)
                         [] OTHER -> len - 8 + (w - 17)]

StrideAt(len, count) == [w \in 0 .. count - 1 |-> w * (len \div count)]

SamplesOf(s, len) ==
    CASE s = "first" -> FirstAt(len)
      [] s = "middle" -> MiddleAt(len)
      [] s = "last" -> LastAt(len)
      [] s \in {"median_of_3", "median_of_3_inplace"} -> MedianOf3At(len)
      [] s = "median_of_5" -> MedianOf5At(len)
      [] s = "ninther" -> NintherAt(len)
      [] s = "median_of_5_medians_of_5" -> EvenlyAt(len, 25)
      [] s = "median_of_5_medians_of_5_898" -> Clusters898At(len)
      [] s \in {"median_of_5_medians_of_3", "median_of_3_medians_of_5"} -> EvenlyAt(len, 15)
      [] s \in Values15 -> StrideAt(len, 15)
      [] s \in Values9 -> StrideAt(len, 9)
      [] OTHER -> [w \in 0 .. len - 1 |-> w]
-----------------------------------------------------------------------------
\* `size` consecutive wires from w on.
Wires(w, size) == [x \in 1 .. size |-> w + x - 1]

SortWires(ws) == [kind |-> "sort", on |-> ws]
Median(ws) == [kind |-> "median3", on |-> ws]
Cas(ws) == [kind |-> "cas", on |-> ws]

\* Medians of count groups of size wires each, by gates of kind inner, then the
\* median of the medians, by one of kind outer.
MediansOf(count, size, inner, outer) ==
    Append([x \in 1 .. count |-> [kind |-> inner, on |-> Wires((x - 1) * size, size)]],
           [kind |-> outer, on |-> [x \in 1 .. count |-> (x - 1) * size + size \div 2]])

\* median_of_medians_5: groups of five and a shorter last one.
GroupCount(len) == (len + 4) \div 5
GroupSize(x, len) == IF 5 * x <= len THEN 5 ELSE len % 5
MedianWire(x, len) == 5 * (x - 1) + GroupSize(x, len) \div 2

BlockMedians(len) ==
    Append([x \in 1 .. GroupCount(len) |-> SortWires(Wires(5 * (x - 1), GroupSize(x, len)))],
           SortWires([x \in 1 .. GroupCount(len) |-> MedianWire(x, len)]))

GatesOf(s, len) ==
    CASE s = "median_of_3" -> <<Median(<<0, 1, 2>>)>>
      [] s = "median_of_3_inplace" -> <<Cas(<<0, 1>>), Cas(<<0, 2>>), Cas(<<1, 2>>)>>
      [] s = "median_of_5" -> <<SortWires(Wires(0, 5))>>
      [] s = "ninther" -> MediansOf(3, 3, "median3", "median3")
      [] s \in {"median_of_5_medians_of_5", "median_of_5_medians_of_5_898"} ->
            MediansOf(5, 5, "sort", "sort")
      [] s = "median_of_5_medians_of_3" -> MediansOf(5, 3, "median3", "sort")
      [] s = "median_of_3_medians_of_5" -> MediansOf(3, 5, "sort", "median3")
      [] s = "median_of_medians_5" -> BlockMedians(len)
      [] s \in Values15 \cup Values9 ->
            [x \in DOMAIN ValueNetwork[s].net |-> Cas(ValueNetwork[s].net[x])]
      [] OTHER -> <<>>

\* The wires that may be returned.
PicksOf(s, len) ==
    CASE s = "random" -> 0 .. len - 1
      [] s \in {"median_of_3", "median_of_3_inplace"} -> {1}
      [] s = "median_of_5" -> {2}
      [] s = "ninther" -> {4}
      [] s \in {"median_of_5_medians_of_5", "median_of_5_medians_of_5_898"} -> {12}
      [] s = "median_of_5_medians_of_3" -> {7}
      [] s = "median_of_3_medians_of_5" -> {7}
      [] s = "median_of_medians_5" -> {MedianWire(GroupCount(len) \div 2 + 1, len)}
      [] s \in Values15 \cup Values9 -> {ValueNetwork[s].pick}
      [] OTHER -> {0}
-----------------------------------------------------------------------------
\* A slip: the last comparison is of the wrong pair.
Median3_WrongPair(a, x, y, z) ==
    IF a[x] < a[y]
    THEN IF a[y] < a[z] THEN y ELSE IF a[y] < a[z] THEN z ELSE x
    ELSE IF a[x] < a[z] THEN x ELSE IF a[y] < a[z] THEN z ELSE y

\* The wire of the median of three.
Median3(a, x, y, z) ==
    IF a[x] < a[y]
    THEN IF a[y] < a[z] THEN y ELSE IF a[x] < a[z] THEN z ELSE x
    ELSE IF a[x] < a[z] THEN x ELSE IF a[y] < a[z] THEN z ELSE y

MovedTo(a, from, to) == [a EXCEPT ![from] = a[to], ![to] = a[from]]

\* The zeros first.
SortedOn(a, ws) ==
    LET zeros == Cardinality({x \in DOMAIN ws : a[ws[x]] = 0})
    IN  [w \in DOMAIN a |->
            IF \E x \in DOMAIN ws : ws[x] = w
            THEN IF (CHOOSE x \in DOMAIN ws : ws[x] = w) <= zeros THEN 0 ELSE 1
            ELSE a[w]]

GateOn(a, g) ==
    CASE g.kind = "cas" -> CompareExchange(a, g.on[1], g.on[2])
      [] g.kind = "median3" -> MovedTo(a, Median3(a, g.on[1], g.on[2], g.on[3]), g.on[2])
      [] OTHER -> SortedOn(a, g.on)
-----------------------------------------------------------------------------
Init ==
    /\ strategy \in Strategies
    /\ n \in 1 .. MaxBlock
    /\ samples = <<>> /\ groups = {} /\ gates = <<>> /\ pick = 0
    /\ pc = "choose"

\* if (n < 5) return median_of_3{}(first, last, comp, proj); and the like
FallBack ==
    /\ pc = "choose"
    /\ n < Shortest(strategy)
    /\ strategy' = Fallback(strategy)
    /\ UNCHANGED <<n, samples, groups, gates, pick, pc>>

\* The samples are read.  A stride of 0 reads the first element every time.
Sample ==
    /\ pc = "choose"
    /\ n >= Shortest(strategy)
    /\ samples' = SamplesOf(strategy, n)
    /\ groups' = IF (strategy \in Values15 /\ n < 15) \/ (strategy \in Values9 /\ n < 9)
                 THEN {[cells |-> DOMAIN samples',
                        arrays |-> {[w \in DOMAIN samples' |-> x] : x \in {0, 1}}]}
                 ELSE Unknown(DOMAIN samples')
    /\ gates' = GatesOf(strategy, n)
    /\ pick' \in PicksOf(strategy, n)
    /\ pc' = "run"
    /\ UNCHANGED <<strategy, n>>

RunGate ==
    /\ pc = "run"
    /\ gates # <<>>
    /\ LET g     == Head(gates)
           op(a) == GateOn(a, g)
       IN  groups' = Step(groups, {g.on[x] : x \in DOMAIN g.on}, op)
    /\ gates' = Tail(gates)
    /\ UNCHANGED <<strategy, n, samples, pick, pc>>

Return ==
    /\ pc = "run"
    /\ gates = <<>>
    /\ pc' = "done"
    /\ UNCHANGED <<strategy, n, samples, groups, gates, pick>>

Terminating == pc = "done" /\ UNCHANGED vars

Next == FallBack \/ Sample \/ RunGate \/ Return \/ Terminating

Spec == Init /\ [][Next]_vars
-----------------------------------------------------------------------------
\* Every sample is an element of the block, and when the block is long enough
\* no element is sampled twice: at the shortest block a strategy takes, and at
\* every rounding of its divisions.
SamplesInside ==
    pc \in {"run", "done"} =>
        /\ \A w \in DOMAIN samples : samples[w] \in 0 .. n - 1
        /\ pick \in DOMAIN samples
        /\ (strategy \in Values15 => n >= 15) /\ (strategy \in Values9 => n >= 9) =>
              \A w, x \in DOMAIN samples : samples[w] = samples[x] => w = x

\* How many samples are at most, and at least, the pivot that is returned.
AtMost(s, len) ==
    CASE s \in {"median_of_3", "median_of_3_inplace"} -> 2
      [] s = "median_of_5" -> 3
      [] s = "ninther" -> 4
      [] s \in {"median_of_5_medians_of_5", "median_of_5_medians_of_5_898"} -> 9
      [] s \in {"median_of_5_medians_of_3", "median_of_3_medians_of_5"} -> 6
      [] s = "median_of_medians_5" ->
            LET short == GroupSize(GroupCount(len), len)
            IN  3 * (GroupCount(len) \div 2) + short \div 2 + 1
      [] s = "pseudo15" -> 6
      [] s = "pseudo15_s5" -> 7
      [] s \in {"pseudo9_s1", "sorting_network_9"} -> 5
      [] s \in Values9 \ {"pseudo9_s1", "sorting_network_9"} -> 4
      [] OTHER -> 1

AtLeast(s, len) ==
    IF s = "median_of_medians_5"
    THEN LET short == GroupSize(GroupCount(len), len)
         IN  3 * (GroupCount(len) - GroupCount(len) \div 2 - 1) + short - short \div 2
    ELSE AtMost(s, len)

Count(a, key) == Cardinality({w \in DOMAIN a : a[w] = key})

\* The choice has a middle rank among the samples, whatever the keys: this is
\* what a quicksort gets from a strategy, and one wrong gate of a network, or
\* one wrong wire, weakens it for a few of the 2^15 inputs only.
RankBand ==
    pc = "done" /\ n >= Cardinality(DOMAIN samples) =>
        \A a \in GroupOf(groups, pick).arrays :
            IF a[pick] = 0 THEN Count(a, 0) >= AtMost(strategy, n)
                           ELSE Count(a, 1) >= AtLeast(strategy, n)

\* pivot.hpp:487-491: pseudo15 is "much shallower and tighter than any AxMED
\* catalog variant with the same +/-1 error tolerance": its choice is at most one
\* rank away from the median of its 15 samples.
Pseudo15WithinOne ==
    pc = "done" /\ strategy = "pseudo15" /\ n >= 15 =>
        \A a \in GroupOf(groups, pick).arrays : Count(a, a[pick]) >= 7
=============================================================================

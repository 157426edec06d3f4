----------------------- MODULE CyclicPartition_proofs -----------------------
(***************************************************************************)
(* Theorems about the partitions of a range that wraps around the end of a *)
(* ring and about the flat offset kernels, for a ring, a range, an offset  *)
(* and a predicate of any size, any size of the blocks and any gates of    *)
(* the dispatcher.                                                         *)
(*                                                                         *)
(* The argument is made in the logical view, where the range is flat.  In  *)
(* it every step of the fill exchanges at most three cells of the array    *)
(* with the lifted element put back, and the gap method takes the steps of *)
(* the flat one, whose invariant it inherits.                              *)
(***************************************************************************)
EXTENDS CyclicPartition, Ranges_proofs

GP == INSTANCE ScalarKernels_proofs WITH
    gv    <- IF GapCall THEN View(v) ELSE [p \in Pos |-> p],
    below <- ViewBelow,
    rev   <- FALSE,
    first <- ViewFirst,
    last  <- ViewFirst + n,
    tmp   <- IF GapCall THEN ViewElement(tmp) ELSE Hole,
    i     <- IF pc = "done" /\ GapCall THEN ViewFirst + ret ELSE ToView(pi),
    j     <- IF pc = "dispatch" THEN ViewFirst ELSE ToView(pj),
    gpc   <- IF ~GapCall \/ pc = "dispatch" THEN "start" ELSE pc,
    v     <- [p \in Pos |-> p], pc <- "left",
    lo    <- 0, hi <- 0, pivot <- 0, store <- 0, cur <- 0

\* The range in the view is [Low, High), TV[p] the place of cell p in it, FV[q]
\* the cell at place q; VB is what goes left and U the array, whole again.
Low  == ViewFirst
High == ViewFirst + n
TV   == [p \in Pos |-> ToView(p)]
FV   == [q \in Pos |-> FromView(q)]
VB   == ViewBelow
U    == View(Restored)

\* Within a block: the offsets whose slots are behind lo, and those already in
\* the slots from lo on.
Settled ==
    CASE pc \in {"rotate", "filled"} -> at
      [] pc = "second" -> cnt
      [] OTHER -> 0

InRun ==
    CASE pc = "rotate" -> k
      [] pc = "filled" -> cnt
      [] OTHER -> 0

\* The cells of the block that have been looked at.
BlockSize ==
    CASE pc = "scan" -> k
      [] pc \in {"rotate", "filled", "second"} -> B
      [] OTHER -> 0

\* In the view: the place of lo, the first place not known to be filled with an
\* element that goes left, the first of the suffix, and the first looked at.
Base   == Low + c1 + found + Settled
Front  == Base + InRun
Suffix == High - (last - sfirst)
Seen   == High - (last - slast)

\* The end of the block, and the first offset not yet used.
BlockEnd == Seen + BlockSize
Used     == Settled + InRun
-----------------------------------------------------------------------------
FillKernels ==
    {"prefix_fill", "part_swap", "seg_bridge", "seg_fill", "off_w1_seg", "off_w1_fill",
     "off_w2_fill", "off_w2_seg"}

\* The kernels whose slots are all the prefix.
PrefixKernels == {"prefix_fill", "part_swap", "off_w2_fill"}

InFill  == pc \in {"loop", "scan", "filled", "rotate", "second", "bridge"}
InBlock == pc \in {"scan", "filled", "rotate", "second"}
InGap   == pc \in {"close", "pull", "putback"}

\* The arguments are those of a legal call, and nothing has happened before the
\* dispatch; each kernel has statements of its own.
Called ==
    /\ call \in Calls
    /\ below \in SUBSET Pos
    /\ NoneIn([p \in Pos |-> p], VB, Low, Low + off)
    /\ pc = "dispatch" =>
          /\ v = [p \in Pos |-> p]
          /\ c1 = 0 /\ found = 0 /\ ret = 0
          /\ chunk = "A"
    /\ InFill \/ pc = "return" => Kernel \in FillKernels
    /\ InGap => GapCall
    /\ pc # "rotate" /\ ~InGap => tmp = Hole
    /\ ~GapCall \/ pc = "dispatch" => pi = first /\ pj = first

\* The slots that are left are next to each other in the view, in order, and
\* end where the suffix begins.
Layout ==
    InFill =>
        /\ lo <= loEnd /\ r2lo <= r2end
        /\ lo = loEnd => r2lo = r2end
        /\ InRun <= loEnd - lo
        /\ \A p \in lo .. loEnd - 1 : p \in Pos /\ TV[p] = Base + (p - lo)
        /\ \A p \in r2lo .. r2end - 1 : p \in Pos /\ TV[p] = Base + (loEnd - lo) + (p - r2lo)
        /\ Base + (loEnd - lo) + (r2end - r2lo) = Suffix
        /\ slotsRem = Suffix - (Low + c1 + found)
        /\ \A p \in sfirst .. last - 1 : p \in Pos /\ TV[p] = High - (last - p)
        /\ sfirst <= slast /\ slast + BlockSize <= last

\* No element is lost, and nothing outside the range moves.
Whole == IsArrangement(U) /\ SameOutside([p \in Pos |-> p], U, Low, High)

\* What is in the four parts of the range.
Content ==
    InFill =>
        /\ AllIn(U, VB, Low, Front)
        /\ NoneIn(U, VB, Front, Suffix)
        /\ NoneIn(U, VB, BlockEnd, High)
        /\ Kernel \in PrefixKernels =>
              Suffix = Low + off /\ \A q \in Front .. Suffix - 1 : U[q] = q

\* The offsets from the first not yet used are those of the elements of the block
\* that go left, and of no other.
Offsets ==
    InBlock =>
        /\ numR <= BlockSize /\ slotsRem >= B
        /\ \A s \in 0 .. numR - 1 : offR[s] \in 1 .. BlockSize
        /\ \A s, t \in 0 .. numR - 1 : s < t => offR[s] < offR[t]
        /\ \A q \in Seen .. BlockEnd - 1 :
              U[q] \in VB <=> \E s \in Used .. numR - 1 : q = BlockEnd - offR[s]

\* How far the block is.
Progress ==
    /\ pc = "scan" => k <= B /\ slast - sfirst >= B - k /\ run = 1
    /\ pc = "rotate" => 1 <= k /\ k <= cnt /\ tmp \in Pos /\ v[CellR(at + k - 1)] = Hole
    /\ pc \in {"rotate", "filled"} =>
          /\ run = 1 => at = 0 /\ cnt = Least(numR, loEnd - lo)
          /\ run = 2 => at + cnt = numR /\ cnt <= loEnd - lo /\ r2lo = r2end
    /\ pc = "second" =>
          /\ cnt <= numR /\ numR - cnt <= loEnd - lo /\ run = 2
          /\ cnt < numR => r2lo = r2end

\* The rest of the suffix is partitioned, and the call returns what it should.
Joining ==
    pc = "bridge" =>
        /\ m \in sfirst .. slast
        /\ AllIn(U, VB, Suffix, Suffix + (m - sfirst))
        /\ NoneIn(U, VB, Suffix + (m - sfirst), Seen)

Count == IF pc = "return" THEN c1 + found ELSE ret

Returned ==
    pc \in {"return", "done"} =>
        /\ Partitioned(U, VB, Low, Low + Count, High)
        /\ Kernel \in PrefixKernels => \A q \in Low + Count .. Low + off - 1 : U[q] = q

\* The segments that the cursors of the gap method are in.
Travel ==
    InGap =>
        /\ chunk = "A" =>
              pi \in first .. bufEnd - 1 /\ pj \in first .. bufEnd - 1 /\ pc # "putback"
        /\ chunk = "B1" => pi \in first .. bufEnd - 1 /\ pj \in bufBegin .. last - 1
        /\ chunk = "B2" => pi \in bufBegin .. last - 1 /\ pj \in bufBegin .. last - 1

FillInv == Whole /\ Layout /\ Content /\ Offsets /\ Progress /\ Joining /\ Returned

\* The inductive invariant.
CIInv == TypeOK /\ Called /\ FillInv /\ Travel /\ GP!GapIInv
-----------------------------------------------------------------------------
(***************************************************************************)
(* The view.                                                               *)
(***************************************************************************)
\* The arguments of a call, as numbers.
LEMMA CallBounds ==
    ASSUME call \in Calls
    PROVE  /\ N \in Nat /\ B \in Nat /\ B > 0
           /\ first \in Int /\ last \in Int /\ bufBegin \in Int /\ bufEnd \in Int /\ off \in Int
           /\ n \in Int /\ Low \in Int /\ High \in Int /\ High = Low + n
           /\ 0 <= bufBegin /\ bufBegin <= bufEnd /\ bufEnd <= N
           /\ bufBegin <= first /\ first <= bufEnd /\ bufBegin <= last /\ last <= bufEnd
           /\ 0 <= off /\ off <= n /\ bufBegin <= Low /\ Low <= High /\ High <= bufEnd
           /\ Wraps => /\ first < bufEnd /\ last < first /\ Low = bufBegin
                       /\ n = (bufEnd - first) + (last - bufBegin)
           /\ ~Wraps => /\ first <= last /\ Low = first /\ High = last /\ n = last - first
<1>1. N \in Nat /\ B \in Nat /\ B > 0
  BY NAssumption, BAssumption
<1>2. /\ first \in 0 .. N /\ last \in 0 .. N /\ bufBegin \in 0 .. N /\ bufEnd \in 0 .. N
      /\ off \in 0 .. N /\ bufBegin <= bufEnd
      /\ first \in bufBegin .. bufEnd /\ last \in bufBegin .. bufEnd
      /\ first > last => first < bufEnd
      /\ off <= IF first > last THEN (bufEnd - first) + (last - bufBegin) ELSE last - first
  BY DEF Calls, first, last, bufBegin, bufEnd, off
<1>3. CASE Wraps
  <2>1. n = (bufEnd - first) + (last - bufBegin) /\ Low = bufBegin /\ High = bufBegin + n
    BY <1>3 DEF n, Low, High, ViewFirst, len1, len2
  <2>2. first > last /\ last < first /\ first < bufEnd /\ off <= (bufEnd - first) + (last - bufBegin)
    BY <1>2, <1>3 DEF Wraps
  <2> QED
    BY <1>1, <1>2, <1>3, <2>1, <2>2
<1>4. CASE ~Wraps
  <2>1. n = last - first /\ Low = first /\ High = first + n
    BY <1>4 DEF n, Low, High, ViewFirst
  <2>2. ~ (first > last) /\ first <= last /\ off <= last - first
    BY <1>2, <1>4 DEF Wraps
  <2>3. 0 <= off /\ off <= n /\ bufBegin <= Low /\ Low <= High /\ High <= bufEnd /\ High = last
        /\ n \in Int /\ Low \in Int /\ High \in Int /\ High = Low + n
    BY <1>2, <2>1, <2>2
  <2> QED
    BY <1>1, <1>2, <1>4, <2>1, <2>2, <2>3
<1> QED
  BY <1>3, <1>4

LEMMA CallNumbers ==
    ASSUME Called
    PROVE  /\ N \in Nat /\ B \in Nat /\ B > 0
           /\ first \in Int /\ last \in Int /\ bufBegin \in Int /\ bufEnd \in Int /\ off \in Int
           /\ n \in Int /\ Low \in Int /\ High \in Int /\ High = Low + n
           /\ 0 <= bufBegin /\ bufBegin <= bufEnd /\ bufEnd <= N
           /\ bufBegin <= first /\ first <= bufEnd /\ bufBegin <= last /\ last <= bufEnd
           /\ 0 <= off /\ off <= n /\ bufBegin <= Low /\ Low <= High /\ High <= bufEnd
           /\ Wraps => /\ first < bufEnd /\ last < first /\ Low = bufBegin
                       /\ n = (bufEnd - first) + (last - bufBegin)
           /\ ~Wraps => /\ first <= last /\ Low = first /\ High = last /\ n = last - first
<1>1. call \in Calls
  BY DEF Called
<1> QED
  BY <1>1, CallBounds

\* t and c renumber the cells, and undo each other.
Mutual(t, c) ==
    /\ t \in [Pos -> Pos] /\ c \in [Pos -> Pos]
    /\ \A p \in Pos : t[c[p]] = p /\ c[t[p]] = p

LEMMA CallMutual == ASSUME call \in Calls PROVE Mutual(TV, FV)
<1>1. CASE Wraps
  <2>1. /\ len1 = bufEnd - first /\ \A p : p \in Pos <=> p \in Int /\ 0 <= p /\ p < N
        /\ bufBegin \in Int /\ bufEnd \in Int /\ first \in Int /\ N \in Int
        /\ bufBegin <= first /\ first < bufEnd /\ 0 <= bufBegin /\ bufEnd <= N
    BY <1>1, CallBounds DEF Pos, len1
  <2>2. \A p \in Pos :
          ToView(p) = IF p \in bufBegin .. bufEnd - 1
                      THEN IF p >= first THEN bufBegin + (p - first)
                                         ELSE bufBegin + (bufEnd - first) + (p - bufBegin)
                      ELSE p
    BY <1>1, <2>1 DEF ToView
  <2>3. \A q \in Pos :
          FromView(q) = IF q \in bufBegin .. bufEnd - 1
                        THEN IF q - bufBegin < bufEnd - first THEN first + (q - bufBegin)
                                                              ELSE q - (bufEnd - first)
                        ELSE q
    BY <1>1, <2>1 DEF FromView
  <2>4. \A p \in Pos : ToView(p) \in Pos /\ FromView(p) \in Pos
    BY <2>1, <2>2, <2>3
  <2>5. \A p \in Pos : ToView(FromView(p)) = p
    <3> SUFFICES ASSUME NEW p \in Pos PROVE ToView(FromView(p)) = p
      OBVIOUS
    <3>1. FromView(p) \in Pos
      BY <2>4
    <3> QED
      BY <2>1, <2>2, <2>3, <3>1
  <2>6. \A p \in Pos : FromView(ToView(p)) = p
    <3> SUFFICES ASSUME NEW p \in Pos PROVE FromView(ToView(p)) = p
      OBVIOUS
    <3>1. ToView(p) \in Pos
      BY <2>4
    <3> QED
      BY <2>1, <2>2, <2>3, <3>1
  <2> QED
    BY <2>4, <2>5, <2>6 DEF Mutual, TV, FV
<1>2. CASE ~Wraps
  <2>1. \A p \in Pos : ToView(p) = p /\ FromView(p) = p
    BY <1>2 DEF ToView, FromView
  <2> QED
    BY <2>1 DEF Mutual, TV, FV
<1> QED
  BY <1>1, <1>2

LEMMA ViewMutual == ASSUME Called PROVE Mutual(TV, FV)
<1>1. call \in Calls
  BY DEF Called
<1> QED
  BY <1>1, CallMutual

\* Each segment keeps its order in the view.
LEMMA ViewRuns ==
    ASSUME Called
    PROVE  /\ Wraps => \A p \in first .. bufEnd - 1 : p \in Pos /\ TV[p] = Low + (p - first)
           /\ Wraps => \A p \in bufBegin .. last - 1 : p \in Pos /\ TV[p] = High - (last - p)
           /\ ~Wraps => \A p \in Pos : TV[p] = p /\ FV[p] = p
           /\ \A p \in Pos : p \notin bufBegin .. bufEnd - 1 => TV[p] = p
           /\ TV \in [Pos -> Pos] /\ \A p \in Pos : TV[p] = ToView(p) /\ FV[p] = FromView(p)
<1>1. /\ len1 = bufEnd - first /\ \A p : p \in Pos <=> p \in Int /\ 0 <= p /\ p < N
      /\ bufBegin \in Int /\ bufEnd \in Int /\ first \in Int /\ last \in Int /\ N \in Int
      /\ bufBegin <= first /\ first <= bufEnd /\ 0 <= bufBegin /\ bufEnd <= N
      /\ last <= bufEnd /\ Low \in Int /\ n \in Int /\ High = Low + n
      /\ Wraps => /\ first < bufEnd /\ last < first /\ Low = bufBegin
                  /\ n = (bufEnd - first) + (last - bufBegin)
  BY CallNumbers DEF Pos, len1
<1>2. TV \in [Pos -> Pos] /\ \A p \in Pos : TV[p] = ToView(p) /\ FV[p] = FromView(p)
  BY ViewMutual DEF Mutual, TV, FV
<1>3. \A p \in Pos :
        ToView(p) = IF Wraps /\ p \in bufBegin .. bufEnd - 1
                    THEN IF p >= first THEN bufBegin + (p - first)
                                       ELSE bufBegin + (bufEnd - first) + (p - bufBegin)
                    ELSE p
  BY <1>1 DEF ToView
<1>4. ASSUME Wraps, NEW p \in first .. bufEnd - 1 PROVE p \in Pos /\ TV[p] = Low + (p - first)
  <2>1. p \in Pos /\ p \in bufBegin .. bufEnd - 1 /\ p >= first
    BY <1>1
  <2> QED
    BY <1>1, <1>2, <1>3, <1>4, <2>1
<1>5. ASSUME Wraps, NEW p \in bufBegin .. last - 1 PROVE p \in Pos /\ TV[p] = High - (last - p)
  <2>1. p \in Pos /\ p \in bufBegin .. bufEnd - 1 /\ ~ (p >= first) /\ p \in Int
    BY <1>1, <1>5
  <2>2. TV[p] = bufBegin + (bufEnd - first) + (p - bufBegin)
    BY <1>2, <1>3, <1>5, <2>1
  <2> QED
    BY <1>1, <1>5, <2>1, <2>2
<1>6. ASSUME ~Wraps, NEW p \in Pos PROVE TV[p] = p /\ FV[p] = p
  BY <1>2, <1>6 DEF ToView, FromView
<1>7. ASSUME NEW p \in Pos, p \notin bufBegin .. bufEnd - 1 PROVE TV[p] = p
  BY <1>2, <1>3, <1>7
<1> QED
  BY <1>2, <1>4, <1>5, <1>6, <1>7

\* The contents w of the array, cells and elements renumbered.
Renamed(t, c, w) == [q \in Pos |-> IF w[c[q]] = Hole THEN Hole ELSE t[w[c[q]]]]

LEMMA HoleNotInPos == Hole \notin Pos
BY NAssumption DEF Hole, Pos

LEMMA RenamedCells ==
    ASSUME NEW t, NEW c, Mutual(t, c), NEW w \in [Pos -> Pos \cup {Hole}]
    PROVE  /\ Renamed(t, c, w) \in [Pos -> Pos \cup {Hole}]
           /\ \A q \in Pos : w[c[q]] = Hole => Renamed(t, c, w)[q] = Hole
           /\ \A q \in Pos : w[c[q]] # Hole
                => w[c[q]] \in Pos /\ Renamed(t, c, w)[q] = t[w[c[q]]] /\ t[w[c[q]]] \in Pos
<1>1. ASSUME NEW q \in Pos
      PROVE  /\ c[q] \in Pos /\ w[c[q]] \in Pos \cup {Hole}
             /\ w[c[q]] # Hole => t[w[c[q]]] \in Pos
  BY DEF Mutual
<1> QED
  BY <1>1 DEF Renamed

\* e is put into cell x.  In the view that is cell t[x], and e has another name.
Put(w, x, e) == [w EXCEPT ![x] = e]
NewName(t, e) == IF e = Hole THEN Hole ELSE t[e]

LEMMA PutCells ==
    ASSUME NEW w \in [Pos -> Pos \cup {Hole}], NEW x \in Pos, NEW e \in Pos \cup {Hole}
    PROVE  /\ Put(w, x, e) \in [Pos -> Pos \cup {Hole}] /\ Put(w, x, e)[x] = e
           /\ \A p \in Pos : p # x => Put(w, x, e)[p] = w[p]
BY DEF Put

LEMMA RenamedPut ==
    ASSUME NEW t, NEW c, Mutual(t, c), NEW w \in [Pos -> Pos \cup {Hole}],
           NEW x \in Pos, NEW e \in Pos \cup {Hole}
    PROVE  /\ Renamed(t, c, Put(w, x, e)) = Put(Renamed(t, c, w), t[x], NewName(t, e))
           /\ NewName(t, e) \in Pos \cup {Hole} /\ t[x] \in Pos
<1> DEFINE w2 == Put(w, x, e)
           lhs == Renamed(t, c, w2)
           rhs == Put(Renamed(t, c, w), t[x], NewName(t, e))
<1>1. w2 \in [Pos -> Pos \cup {Hole}] /\ w2[x] = e /\ \A p \in Pos : p # x => w2[p] = w[p]
  BY PutCells
<1> HIDE DEF w2
<1>2. lhs \in [Pos -> Pos \cup {Hole}]
  BY <1>1, RenamedCells
<1>3. /\ t[x] \in Pos /\ NewName(t, e) \in Pos \cup {Hole}
      /\ Renamed(t, c, w) \in [Pos -> Pos \cup {Hole}]
  BY RenamedCells DEF Mutual, NewName
<1>4. /\ rhs \in [Pos -> Pos \cup {Hole}] /\ rhs[t[x]] = NewName(t, e)
      /\ \A p \in Pos : p # t[x] => rhs[p] = Renamed(t, c, w)[p]
  BY <1>3, PutCells
<1> HIDE DEF rhs
<1>5. ASSUME NEW q \in Pos PROVE lhs[q] = rhs[q]
  <2>1. c[q] \in Pos /\ t[c[q]] = q /\ c[t[x]] = x
    BY DEF Mutual
  <2>2. CASE q = t[x]
    <3>1. rhs[q] = NewName(t, e)
      BY <1>4, <2>2
    <3>2. w2[c[q]] = e
      BY <1>1, <2>1, <2>2
    <3> QED
      BY <1>1, <3>1, <3>2, RenamedCells DEF NewName
  <2>3. CASE q # t[x]
    <3>1. rhs[q] = Renamed(t, c, w)[q]
      BY <1>4, <2>3
    <3>2. w2[c[q]] = w[c[q]]
      BY <1>1, <2>1, <2>3
    <3>3. CASE w[c[q]] = Hole
      BY <1>1, <3>1, <3>2, <3>3, RenamedCells
    <3>4. CASE w[c[q]] # Hole
      BY <1>1, <3>1, <3>2, <3>4, RenamedCells
    <3> QED
      BY <3>3, <3>4
  <2> QED
    BY <2>2, <2>3
<1> HIDE DEF lhs
<1>6. lhs = rhs
  BY <1>2, <1>4, <1>5
<1> QED
  BY <1>3, <1>6 DEF lhs, rhs, w2

LEMMA RenamedSwap ==
    ASSUME NEW t, NEW c, Mutual(t, c), NEW w \in [Pos -> Pos], NEW x \in Pos, NEW y \in Pos
    PROVE  Renamed(t, c, Swap(w, x, y)) = Swap(Renamed(t, c, w), t[x], t[y])
<1> DEFINE w2 == Put(w, x, w[y])
           r == Renamed(t, c, w)
<1>1. /\ w \in [Pos -> Pos \cup {Hole}]
      /\ w[x] \in Pos /\ w[y] \in Pos /\ w[x] # Hole /\ w[y] # Hole
      /\ w[x] \in Pos \cup {Hole} /\ w[y] \in Pos \cup {Hole}
  BY HoleNotInPos
<1>2. w2 \in [Pos -> Pos \cup {Hole}]
  BY <1>1, PutCells
<1>3. Swap(w, x, y) = Put(w2, y, w[x])
  BY DEF Swap, Put
<1>4. Renamed(t, c, w2) = Put(r, t[x], NewName(t, w[y]))
  BY <1>1, RenamedPut
<1> HIDE DEF w2
<1>5. Renamed(t, c, Put(w2, y, w[x])) = Put(Renamed(t, c, w2), t[y], NewName(t, w[x]))
  BY <1>1, <1>2, RenamedPut
<1>6. r[t[x]] = t[w[x]] /\ r[t[y]] = t[w[y]]
  <2>1. t[x] \in Pos /\ t[y] \in Pos /\ c[t[x]] = x /\ c[t[y]] = y
    BY DEF Mutual
  <2> QED
    BY <1>1, <2>1, RenamedCells
<1>7. NewName(t, w[x]) = r[t[x]] /\ NewName(t, w[y]) = r[t[y]]
  BY <1>1, <1>6 DEF NewName
<1> HIDE DEF r
<1>8. Renamed(t, c, Swap(w, x, y)) = Put(Put(r, t[x], r[t[y]]), t[y], r[t[x]])
  BY <1>3, <1>4, <1>5, <1>7
<1>9. Put(Put(r, t[x], r[t[y]]), t[y], r[t[x]]) = Swap(r, t[x], t[y])
  BY DEF Swap, Put
<1> QED
  BY <1>8, <1>9 DEF r

\* The array is whole exactly if its view is.
LEMMA RenamedArrangement ==
    ASSUME NEW t, NEW c, Mutual(t, c), NEW w \in [Pos -> Pos \cup {Hole}]
    PROVE  IsArrangement(Renamed(t, c, w)) <=> IsArrangement(w)
<1> DEFINE r == Renamed(t, c, w)
<1>1. \A p \in Pos : c[p] \in Pos /\ t[p] \in Pos /\ t[c[p]] = p /\ c[t[p]] = p
  BY DEF Mutual
<1>2. /\ r \in [Pos -> Pos \cup {Hole}]
      /\ \A q \in Pos : w[c[q]] = Hole => r[q] = Hole
      /\ \A q \in Pos : w[c[q]] # Hole => w[c[q]] \in Pos /\ r[q] = t[w[c[q]]]
  BY RenamedCells
<1> HIDE DEF r
<1>3. ASSUME IsArrangement(w) PROVE IsArrangement(r)
  <2>1. \A q \in Pos : w[c[q]] \in Pos /\ w[c[q]] # Hole
    BY <1>1, <1>3, HoleNotInPos DEF IsArrangement
  <2>2. r \in [Pos -> Pos]
    BY <1>1, <1>2, <2>1
  <2>3. ASSUME NEW x \in Pos, NEW y \in Pos, r[x] = r[y] PROVE x = y
    <3>1. w[c[x]] = w[c[y]]
      BY <1>1, <1>2, <2>1, <2>3
    <3>2. c[x] = c[y]
      BY <1>1, <1>3, <3>1 DEF IsArrangement
    <3> QED
      BY <1>1, <3>2
  <2> QED
    BY <2>2, <2>3 DEF IsArrangement
<1>4. ASSUME IsArrangement(r) PROVE IsArrangement(w)
  <2>1. ASSUME NEW p \in Pos PROVE w[p] \in Pos /\ r[t[p]] = t[w[p]]
    <3>1. t[p] \in Pos /\ c[t[p]] = p /\ r[t[p]] # Hole
      BY <1>1, <1>4, HoleNotInPos DEF IsArrangement
    <3> QED
      BY <1>2, <3>1
  <2>2. w \in [Pos -> Pos]
    BY <2>1
  <2>3. ASSUME NEW x \in Pos, NEW y \in Pos, w[x] = w[y] PROVE x = y
    <3>1. r[t[x]] = r[t[y]]
      BY <2>1, <2>3
    <3>2. t[x] = t[y]
      BY <1>1, <1>4, <3>1 DEF IsArrangement
    <3> QED
      BY <1>1, <3>2
  <2> QED
    BY <2>2, <2>3 DEF IsArrangement
<1> QED
  BY <1>3, <1>4 DEF r

\* The view of the model is such a renumbering.
LEMMA ViewRenamed ==
    ASSUME Called, NEW w \in [Pos -> Pos \cup {Hole}]
    PROVE  View(w) = Renamed(TV, FV, w)
<1>1. Mutual(TV, FV) /\ \A p \in Pos : TV[p] = ToView(p) /\ FV[p] = FromView(p)
  BY ViewMutual, ViewRuns
<1>2. Renamed(TV, FV, w) \in [Pos -> Pos \cup {Hole}]
  BY <1>1, RenamedCells
<1>3. CASE Wraps
  <2>1. View(w) = [q \in Pos |-> ViewElement(w[FromView(q)])]
    BY <1>3 DEF View
  <2>2. \A q \in Pos : View(w)[q] = ViewElement(w[FV[q]])
    BY <1>1, <2>1
  <2>3. ASSUME NEW q \in Pos PROVE ViewElement(w[FV[q]]) = Renamed(TV, FV, w)[q]
    <3>1. w[FV[q]] = Hole \/ w[FV[q]] \in Pos
      BY <1>1 DEF Mutual
    <3>2. CASE w[FV[q]] = Hole
      BY <1>1, <3>2, RenamedCells DEF ViewElement
    <3>3. CASE w[FV[q]] # Hole
      BY <1>1, <3>1, <3>3, RenamedCells DEF ViewElement
    <3> QED
      BY <3>2, <3>3
  <2>4. View(w) = [q \in Pos |-> View(w)[q]]
    BY <2>1
  <2> QED
    BY <1>2, <2>2, <2>3, <2>4
<1>4. CASE ~Wraps
  <2>1. View(w) = w
    BY <1>4 DEF View
  <2>2. \A p \in Pos : TV[p] = p /\ FV[p] = p
    BY <1>4, ViewRuns
  <2>3. ASSUME NEW q \in Pos PROVE w[q] = Renamed(TV, FV, w)[q]
    <3>1. w[q] = Hole \/ w[q] \in Pos
      OBVIOUS
    <3>2. CASE w[q] = Hole
      BY <1>1, <2>2, <3>2, RenamedCells
    <3>3. CASE w[q] # Hole
      BY <1>1, <2>2, <3>1, <3>3, RenamedCells
    <3> QED
      BY <3>2, <3>3
  <2> QED
    BY <1>2, <2>1, <2>3
<1> QED
  BY <1>3, <1>4

\* An element goes left in the view if it goes left.
LEMMA ViewBelowMember ==
    ASSUME Called
    PROVE  VB \in SUBSET Pos /\ \A x \in Pos : TV[x] \in VB <=> x \in below
<1>1. /\ Mutual(TV, FV) /\ \A p \in Pos : TV[p] = ToView(p)
      /\ below \in SUBSET Pos
  BY ViewMutual, ViewRuns DEF Called
<1>2. CASE Wraps
  <2>1. VB = {TV[x] : x \in below}
    BY <1>1, <1>2 DEF VB, ViewBelow
  <2> QED
    BY <1>1, <2>1 DEF Mutual
<1>3. CASE ~Wraps
  <2>1. VB = below /\ \A p \in Pos : TV[p] = p
    BY <1>3, ViewRuns DEF VB, ViewBelow
  <2> QED
    BY <1>1, <2>1
<1> QED
  BY <1>2, <1>3
-----------------------------------------------------------------------------
(***************************************************************************)
(* What every step leaves alone, and the numbers of a fill.                *)
(***************************************************************************)
LEMMA ArgumentsFixed ==
    ASSUME [Next]_vars
    PROVE  call' = call /\ below' = below
BY DEF Next, vars, Flat, EmptySuffix, SegmentOne, SpillFill, SpillSeg, FlatOffset,
       FillReturns, GapStep, GapLift, GapClose, PullFlat, PullAcross, PullBeforeWrap,
       PullAfterWrap, GapPull, GapCloseLast, GapPutBack, Filling, FillStep, StartBlock, Scan,
       FirstRun, RotateStep, RotateClose, RunDone, SecondRun, BlockDone, StraddleDone, Tally,
       PartitionRest, Bridge, Terminating

LEMMA ViewFixed ==
    ASSUME call' = call, below' = below
    PROVE  /\ TV' = TV /\ FV' = FV /\ VB' = VB /\ Low' = Low /\ High' = High
           /\ first' = first /\ last' = last /\ bufBegin' = bufBegin /\ bufEnd' = bufEnd
           /\ off' = off /\ n' = n /\ Kernel' = Kernel /\ (Wraps' <=> Wraps)
           /\ (GapCall' <=> GapCall) /\ len1' = len1
           /\ \A p : ToView(p)' = ToView(p)
<1>1. /\ first' = first /\ last' = last /\ bufBegin' = bufBegin /\ bufEnd' = bufEnd
      /\ off' = off
  BY DEF first, last, bufBegin, bufEnd, off
<1>2. (Wraps' <=> Wraps) /\ len1' = len1 /\ len2' = len2
  BY <1>1 DEF Wraps, len1, len2
<1>3. n' = n /\ ViewFirst' = ViewFirst
  BY <1>1, <1>2 DEF n, ViewFirst
<1>4. Kernel' = Kernel
  BY <1>1, <1>2, <1>3 DEF Kernel, PlainKernel, OffsetKernel, OffGapMax
<1>5. \A p : ToView(p)' = ToView(p) /\ FromView(p)' = FromView(p)
  BY <1>1, <1>2 DEF ToView, FromView
<1>6. TV' = TV /\ FV' = FV
  BY <1>5 DEF TV, FV
<1>7. VB' = VB
  BY <1>2, <1>5 DEF VB, ViewBelow
<1> QED
  BY <1>1, <1>2, <1>3, <1>4, <1>5, <1>6, <1>7 DEF Low, High, GapCall

\* The array in the view.
LEMMA ViewState ==
    ASSUME TypeOK, Called
    PROVE  /\ Restored \in [Pos -> Pos \cup {Hole}] /\ v \in [Pos -> Pos \cup {Hole}]
           /\ U = Renamed(TV, FV, Restored) /\ View(v) = Renamed(TV, FV, v)
           /\ Mutual(TV, FV)
<1>1. v \in [Pos -> Pos \cup {Hole}] /\ tmp \in Pos \cup {Hole}
  BY DEF TypeOK
<1>2. Restored \in [Pos -> Pos \cup {Hole}]
  BY <1>1 DEF Restored, Refilled
<1> QED
  BY <1>1, <1>2, ViewRenamed, ViewMutual DEF U

LEMMA ViewStateNext ==
    TypeOK /\ Called
        => Restored \in [Pos -> Pos \cup {Hole}] /\ U = Renamed(TV, FV, Restored)
BY ViewState

\* While the array is whole, so is it in memory; the element in a cell is the one
\* at the place of the cell.
LEMMA MemoryWhole ==
    ASSUME TypeOK, Called, Whole
    PROVE  /\ IsArrangement(Restored) /\ Restored \in [Pos -> Pos] /\ U \in [Pos -> Pos]
           /\ \A p \in Pos : TV[p] \in Pos /\ U[TV[p]] = TV[Restored[p]]
           /\ \A p \in Pos : U[TV[p]] \in VB <=> Restored[p] \in below
<1>1. /\ Mutual(TV, FV) /\ U = Renamed(TV, FV, Restored)
      /\ Restored \in [Pos -> Pos \cup {Hole}]
  BY ViewState
<1>2. IsArrangement(U) /\ U \in [Pos -> Pos]
  BY DEF Whole, IsArrangement
<1>3. IsArrangement(Restored) /\ Restored \in [Pos -> Pos]
  BY <1>1, <1>2, RenamedArrangement DEF IsArrangement
<1>4. ASSUME NEW p \in Pos
      PROVE  /\ TV[p] \in Pos /\ U[TV[p]] = TV[Restored[p]]
             /\ U[TV[p]] \in VB <=> Restored[p] \in below
  <2>1. TV[p] \in Pos /\ FV[TV[p]] = p
    BY <1>1 DEF Mutual
  <2>2. Restored[p] \in Pos /\ Restored[p] # Hole
    BY <1>3, HoleNotInPos
  <2>3. U[TV[p]] = TV[Restored[p]]
    BY <1>1, <2>1, <2>2, RenamedCells
  <2> QED
    BY <2>1, <2>2, <2>3, ViewBelowMember
<1> QED
  BY <1>2, <1>3, <1>4

LEMMA FillNumbers ==
    ASSUME TypeOK, Called, Layout, InFill
    PROVE  /\ N \in Nat /\ B \in Nat /\ B > 0
           /\ Low \in Int /\ High \in Int /\ Base \in Int /\ Front \in Int /\ Suffix \in Int
           /\ Seen \in Int /\ Settled \in Int /\ InRun \in Int /\ BlockSize \in Int
           /\ c1 \in Int /\ found \in Int /\ off \in Int /\ last \in Int /\ first \in Int
           /\ lo \in Int /\ loEnd \in Int /\ r2lo \in Int /\ r2end \in Int
           /\ sfirst \in Int /\ slast \in Int /\ slotsRem \in Int /\ numR \in Int
           /\ cnt \in Int /\ at \in Int /\ k \in Int
           /\ 0 <= Low /\ 0 <= c1 /\ 0 <= found /\ 0 <= Settled /\ 0 <= InRun /\ 0 <= BlockSize
           /\ Base = Low + c1 + found + Settled /\ Front = Base + InRun
           /\ Suffix = High - (last - sfirst) /\ Seen = High - (last - slast)
           /\ Low <= Base /\ Base <= Front /\ Front <= Suffix /\ Suffix <= Seen
           /\ Seen + BlockSize <= High /\ High <= N
           /\ BlockEnd \in Int /\ BlockEnd = Seen + BlockSize /\ Used \in Int /\ Used = Settled + InRun
           /\ 0 <= numR /\ numR <= B /\ 0 <= cnt /\ cnt <= B /\ 0 <= at /\ at <= B /\ 0 <= k
<1>1. /\ N \in Nat /\ B \in Nat /\ B > 0 /\ Low \in Int /\ High \in Int /\ first \in Int
      /\ last \in Int /\ off \in Int /\ 0 <= Low /\ High <= N
  BY CallNumbers
<1>2. /\ lo \in 0 .. N /\ loEnd \in 0 .. N /\ r2lo \in 0 .. N /\ r2end \in 0 .. N
      /\ sfirst \in 0 .. N /\ slast \in 0 .. N /\ slotsRem \in 0 .. N /\ numR \in 0 .. B
      /\ cnt \in 0 .. B /\ at \in 0 .. B /\ k \in 0 .. B /\ c1 \in 0 .. N /\ found \in 0 .. N
  BY DEF TypeOK
<1>3. Settled \in 0 .. B /\ InRun \in 0 .. B /\ BlockSize \in 0 .. B
  BY <1>1, <1>2 DEF Settled, InRun, BlockSize
<1>4. /\ lo <= loEnd /\ r2lo <= r2end /\ InRun <= loEnd - lo
      /\ Base + (loEnd - lo) + (r2end - r2lo) = Suffix
      /\ sfirst <= slast /\ slast + BlockSize <= last
  BY DEF Layout
<1>5. /\ Base = Low + c1 + found + Settled /\ Front = Base + InRun
      /\ Suffix = High - (last - sfirst) /\ Seen = High - (last - slast)
      /\ BlockEnd = Seen + BlockSize /\ Used = Settled + InRun
  BY DEF Base, Front, Suffix, Seen, BlockEnd, Used
<1> QED
  BY <1>1, <1>2, <1>3, <1>4, <1>5
-----------------------------------------------------------------------------
(***************************************************************************)
(* One slot is filled: the slot at place f gets the element at z, the cell *)
(* x emptied before gets the slot's element, and the cell z the lifted one.*)
(***************************************************************************)
LEMMA SlotFilled ==
    ASSUME NEW g, IsArrangement(g), NEW b, NEW l \in Int, NEW f \in Int, NEW s \in Int,
           NEW e \in Int, NEW d \in Int, NEW h \in Int,
           0 <= l, l <= f, f < s, s <= e, d <= h, h <= N,
           NEW x \in e .. d - 1, NEW z \in e .. d - 1,
           SameOutside([p \in Pos |-> p], g, l, h), AllIn(g, b, l, f), NoneIn(g, b, f, s),
           NoneIn(g, b, d, h), g[z] \in b, x = z \/ g[x] \notin b,
           NEW w, w = Swap(Swap(g, f, z), x, z)
    PROVE  /\ IsArrangement(w) /\ SameOutside([p \in Pos |-> p], w, l, h)
           /\ AllIn(w, b, l, f + 1) /\ NoneIn(w, b, f + 1, s) /\ NoneIn(w, b, d, h)
           /\ \A q \in f + 1 .. s - 1 : w[q] = g[q]
           /\ \A q \in e .. d - 1 : w[q] \in b <=> g[q] \in b /\ q # z
<1> DEFINE w1 == Swap(g, f, z)
<1>1. /\ f \in Pos /\ x \in Pos /\ z \in Pos /\ N \in Nat
      /\ \A q : q \in Pos <=> q \in Int /\ 0 <= q /\ q < N
  BY NAssumption DEF Pos
<1>2. /\ IsArrangement(w1) /\ w1[f] = g[z] /\ w1[z] = g[f]
      /\ \A p \in Pos : p # f /\ p # z => w1[p] = g[p]
  BY <1>1, ExchangeRearranges
<1> HIDE DEF w1
<1>3. w = Swap(w1, x, z)
  BY DEF w1
<1>4. /\ IsArrangement(w) /\ w[x] = w1[z] /\ w[z] = w1[x]
      /\ \A p \in Pos : p # x /\ p # z => w[p] = w1[p]
  BY <1>1, <1>2, <1>3, ExchangeRearranges
<1>5. f # x /\ f # z
  OBVIOUS
<1>6. /\ w[f] = g[z] /\ w[x] = g[f] /\ (x # z => w[z] = g[x])
      /\ \A p \in Pos : p # f /\ p # x /\ p # z => w[p] = g[p]
  BY <1>1, <1>2, <1>4, <1>5
<1>7. g[f] \notin b
  BY DEF NoneIn
<1>8. SameOutside([p \in Pos |-> p], w, l, h)
  <2> SUFFICES ASSUME NEW p \in Pos, p \notin l .. h - 1 PROVE p = w[p]
    BY DEF SameOutside
  <2>1. p # f /\ p # x /\ p # z
    OBVIOUS
  <2>2. g[p] = p
    BY DEF SameOutside
  <2> QED
    BY <1>6, <2>1, <2>2
<1>9. AllIn(w, b, l, f + 1)
  <2> SUFFICES ASSUME NEW q \in l .. f PROVE w[q] \in b
    BY DEF AllIn
  <2>1. q \in Pos /\ q # x /\ q # z
    BY <1>1
  <2>2. CASE q = f
    BY <1>6, <2>2
  <2>3. CASE q # f
    <3>1. q \in l .. f - 1
      BY <2>3
    <3>2. g[q] \in b
      BY <3>1 DEF AllIn
    <3> QED
      BY <1>6, <2>1, <2>3, <3>2
  <2> QED
    BY <2>2, <2>3
<1>10. \A q \in f + 1 .. s - 1 : w[q] = g[q] /\ q \in f .. s - 1
  <2> SUFFICES ASSUME NEW q \in f + 1 .. s - 1 PROVE w[q] = g[q] /\ q \in f .. s - 1
    OBVIOUS
  <2>1. q \in Pos /\ q # x /\ q # z /\ q # f
    BY <1>1
  <2> QED
    BY <1>6, <2>1
<1>11. NoneIn(w, b, f + 1, s)
  BY <1>10 DEF NoneIn
<1>12. NoneIn(w, b, d, h)
  <2> SUFFICES ASSUME NEW q \in d .. h - 1 PROVE w[q] \notin b
    BY DEF NoneIn
  <2>1. q \in Pos /\ q # x /\ q # z /\ q # f
    BY <1>1
  <2>2. g[q] \notin b
    BY DEF NoneIn
  <2> QED
    BY <1>6, <2>1, <2>2
<1>13. ASSUME NEW q \in e .. d - 1 PROVE w[q] \in b <=> g[q] \in b /\ q # z
  <2>1. q \in Pos /\ q # f
    BY <1>1
  <2>2. CASE q = z
    BY <1>6, <1>7, <2>2
  <2>3. CASE q = x /\ x # z
    BY <1>6, <1>7, <2>3
  <2>4. CASE q # x /\ q # z
    BY <1>6, <2>1, <2>4
  <2> QED
    BY <2>2, <2>3, <2>4
<1> QED
  BY <1>4, <1>8, <1>9, <1>10, <1>11, <1>12, <1>13
-----------------------------------------------------------------------------
(***************************************************************************)
(* The steps of the fill.                                                  *)
(***************************************************************************)
FillFrame == UNCHANGED <<call, c1, gapVars, ret>>

\* A step of the fill changes no argument and none of the gap method's cursors.
LEMMA FillCalled ==
    ASSUME CIInv, InFill, call' = call, below' = below, FillFrame, InFill' \/ pc' = "return",
           pc' # "rotate" => tmp' = Hole
    PROVE  Called' /\ Travel' /\ GP!GapIInv'
<1>1. /\ call \in Calls /\ below \in SUBSET Pos
      /\ NoneIn([p \in Pos |-> p], VB, Low, Low + off) /\ Kernel \in FillKernels
      /\ (~GapCall \/ pc = "dispatch" => pi = first /\ pj = first)
  BY DEF CIInv, Called
<1>2. /\ VB' = VB /\ Low' = Low /\ off' = off /\ Kernel' = Kernel /\ first' = first
      /\ (GapCall' <=> GapCall) /\ High' = High /\ \A p : ToView(p)' = ToView(p)
  BY ViewFixed
<1>3. /\ ~GapCall /\ ~InGap' /\ pc' # "dispatch" /\ pi' = pi /\ pj' = pj /\ pc # "dispatch"
  BY <1>1 DEF GapCall, FillKernels, InGap, InFill, FillFrame, gapVars
<1>4. Called'
  BY <1>1, <1>2, <1>3 DEF Called
<1>5. Travel'
  BY <1>3 DEF Travel
<1>6. UNCHANGED GP!G!vars
  BY <1>2, <1>3 DEF GP!G!vars, VB, Low, High
<1>7. GP!GapIInv'
  BY <1>6, NAssumption, GP!GapIInvStep DEF GP!NAssumption, CIInv
<1> QED
  BY <1>4, <1>5, <1>7

LEMMA SameView ==
    ASSUME TypeOK, Called, TypeOK', Called', Whole, call' = call, below' = below,
           Restored' = Restored
    PROVE  U' = U /\ Whole'
<1>1. U = Renamed(TV, FV, Restored)
  BY ViewState
<1>2. U' = Renamed(TV, FV, Restored)'
  <2>1. (TypeOK /\ Called
            => Restored \in [Pos -> Pos \cup {Hole}] /\ U = Renamed(TV, FV, Restored))'
    BY ViewStateNext, PTL
  <2> QED
    BY <2>1
<1>3. Renamed(TV, FV, Restored)' = Renamed(TV, FV, Restored)
  BY ViewFixed DEF Renamed
<1>4. U' = U /\ Low' = Low /\ High' = High
  BY <1>1, <1>2, <1>3, ViewFixed
<1> QED
  BY <1>4 DEF Whole

LEMMA CStartBlock == ASSUME CIInv, StartBlock, FillFrame PROVE CIInv'
<1>1. /\ pc = "loop" /\ pc' = "scan" /\ slotsRem >= B /\ slast - sfirst >= B
      /\ numR' = 0 /\ k' = 0 /\ run' = 1 /\ v' = v /\ tmp' = tmp
      /\ lo' = lo /\ loEnd' = loEnd /\ r2lo' = r2lo /\ r2end' = r2end /\ offR' = offR
      /\ slotsRem' = slotsRem /\ found' = found /\ sfirst' = sfirst /\ slast' = slast
      /\ c1' = c1 /\ call' = call /\ below' = below
  BY DEF StartBlock, WholeBlock, slots, tally, FillFrame
<1>0. TypeOK /\ Called /\ Whole /\ Layout /\ Content /\ InFill
  BY <1>1 DEF CIInv, FillInv, InFill
<1>2. TypeOK'
  <2>1. /\ at' = at /\ cnt' = cnt /\ fused' = fused /\ m' = m /\ pi' = pi /\ pj' = pj
        /\ chunk' = chunk /\ ret' = ret
    BY <1>1 DEF StartBlock, FillFrame, gapVars
  <2>2. 0 \in 0 .. B
    BY BAssumption
  <2>3. /\ v' \in [Pos -> Pos \cup {Hole}] /\ below' \in SUBSET Pos
        /\ offR' \in [0 .. B - 1 -> 0 .. B] /\ tmp' \in Pos \cup {Hole}
    BY <1>0, <1>1 DEF TypeOK
  <2>4. /\ {lo, loEnd, r2lo, r2end, sfirst, slast, m, pi, pj}' \subseteq 0 .. N
        /\ slotsRem' \in 0 .. N /\ found' \in 0 .. N /\ c1' \in 0 .. N
    BY <1>0, <1>1, <2>1 DEF TypeOK
  <2>5. /\ numR' \in 0 .. B /\ run' \in {1, 2} /\ at' \in 0 .. B /\ cnt' \in 0 .. B
        /\ k' \in 0 .. B /\ fused' \in BOOLEAN
    BY <1>0, <1>1, <2>1, <2>2 DEF TypeOK
  <2>6. /\ chunk' \in {"A", "B1", "B2"} /\ ret' \in 0 .. N
        /\ pc' \in {"dispatch", "loop", "scan", "filled", "rotate", "second", "bridge",
                    "return", "close", "pull", "putback", "done"}
    BY <1>0, <1>1, <2>1 DEF TypeOK
  <2> QED
    BY <2>3, <2>4, <2>5, <2>6 DEF TypeOK
<1>3. Called' /\ Travel' /\ GP!GapIInv'
  BY <1>0, <1>1, FillCalled DEF InFill, Called, InGap
<1>4. U' = U /\ Whole'
  <2>1. Restored' = Restored
    BY <1>1 DEF Restored
  <2> QED
    BY <1>0, <1>1, <1>2, <1>3, <2>1, SameView
<1>5. /\ TV' = TV /\ VB' = VB /\ Low' = Low /\ High' = High /\ last' = last
      /\ off' = off /\ Kernel' = Kernel
  BY <1>1, ViewFixed
<1>6. /\ Settled = 0 /\ InRun = 0 /\ BlockSize = 0 /\ Settled' = 0 /\ InRun' = 0 /\ BlockSize' = 0
  BY <1>1 DEF Settled, InRun, BlockSize
<1>7. /\ Base' = Base /\ Front' = Front /\ Suffix' = Suffix /\ Seen' = Seen
      /\ BlockEnd' = BlockEnd /\ BlockEnd = Seen
  BY <1>0, <1>1, <1>5, <1>6, FillNumbers DEF Base, Front, Suffix, Seen, BlockEnd
<1>8. Layout' /\ Content'
  BY <1>0, <1>1, <1>4, <1>5, <1>6, <1>7 DEF Layout, Content, InFill
<1>9. Offsets'
  BY <1>1, <1>6, <1>7, <1>0, FillNumbers DEF Offsets
<1>10. Progress'
  BY <1>1, <1>0, FillNumbers DEF Progress
<1>11. Joining' /\ Returned'
  BY <1>1 DEF Joining, Returned
<1> QED
  BY <1>2, <1>3, <1>4, <1>8, <1>9, <1>10, <1>11 DEF CIInv, FillInv

LEMMA CScan == ASSUME CIInv, Scan, FillFrame PROVE CIInv'
<1>1. /\ pc = "scan" /\ pc' = "scan" /\ k < B /\ slast' = slast - 1 /\ k' = k + 1
      /\ offR' = [offR EXCEPT ![numR] = k + 1]
      /\ numR' = (IF v[slast - 1] \in below THEN numR + 1 ELSE numR)
      /\ run' = run /\ v' = v /\ tmp' = tmp /\ at' = at /\ cnt' = cnt
      /\ lo' = lo /\ loEnd' = loEnd /\ r2lo' = r2lo /\ r2end' = r2end
      /\ slotsRem' = slotsRem /\ found' = found /\ sfirst' = sfirst
      /\ c1' = c1 /\ call' = call /\ below' = below
  BY DEF Scan, slots, tally, piece, FillFrame
<1>0. TypeOK /\ Called /\ Whole /\ Layout /\ Content /\ InFill /\ Offsets /\ Progress /\ InBlock
  BY <1>1 DEF CIInv, FillInv, InFill, InBlock
<1>6. /\ Settled = 0 /\ InRun = 0 /\ BlockSize = k /\ Settled' = 0 /\ InRun' = 0
      /\ BlockSize' = k + 1
  BY <1>1 DEF Settled, InRun, BlockSize
<1>n. /\ B \in Int /\ k \in Int /\ slast \in Int /\ sfirst \in Int /\ numR \in Int /\ last \in Int
      /\ High \in Int /\ Seen \in Int /\ Suffix \in Int /\ 0 <= k /\ 0 <= numR /\ numR <= k
      /\ slast - sfirst >= B - k /\ slast + k <= last /\ Seen = High - (last - slast)
      /\ Suffix <= Seen /\ Seen + k <= High /\ slotsRem >= B /\ run = 1
      /\ slast \in 0 .. N /\ N \in Nat /\ offR \in [0 .. B - 1 -> 0 .. B]
  <2>1. numR <= k /\ slotsRem >= B
    BY <1>0, <1>6 DEF Offsets
  <2>2. slast - sfirst >= B - k /\ run = 1
    BY <1>0, <1>1 DEF Progress
  <2>3. slast + k <= last
    BY <1>0, <1>6 DEF Layout
  <2>4. slast \in 0 .. N /\ offR \in [0 .. B - 1 -> 0 .. B]
    BY <1>0 DEF TypeOK
  <2> QED
    BY <1>0, <1>6, <2>1, <2>2, <2>3, <2>4, FillNumbers
<1>2. TypeOK'
  <2>1. slast - 1 \in 0 .. N /\ k + 1 \in 0 .. B /\ numR + 1 \in 0 .. B /\ numR \in 0 .. B - 1
    <3>1. sfirst \in 0 .. N
      BY <1>0 DEF TypeOK
    <3> QED
      BY <1>1, <1>n, <3>1
  <2>2. numR' \in 0 .. B /\ offR' \in [0 .. B - 1 -> 0 .. B]
    BY <1>1, <1>n, <2>1
  <2>3. /\ at' = at /\ cnt' = cnt /\ fused' = fused /\ m' = m /\ pi' = pi /\ pj' = pj
        /\ chunk' = chunk /\ ret' = ret
    BY <1>1 DEF Scan, FillFrame, gapVars
  <2>4. /\ v' \in [Pos -> Pos \cup {Hole}] /\ below' \in SUBSET Pos /\ tmp' \in Pos \cup {Hole}
    BY <1>0, <1>1 DEF TypeOK
  <2>5. /\ {lo, loEnd, r2lo, r2end, sfirst, slast, m, pi, pj}' \subseteq 0 .. N
        /\ slotsRem' \in 0 .. N /\ found' \in 0 .. N /\ c1' \in 0 .. N
    BY <1>0, <1>1, <2>1, <2>3 DEF TypeOK
  <2>6. /\ run' \in {1, 2} /\ at' \in 0 .. B /\ cnt' \in 0 .. B
        /\ k' \in 0 .. B /\ fused' \in BOOLEAN
    BY <1>0, <1>1, <2>1, <2>3 DEF TypeOK
  <2>7. /\ chunk' \in {"A", "B1", "B2"} /\ ret' \in 0 .. N
        /\ pc' \in {"dispatch", "loop", "scan", "filled", "rotate", "second", "bridge",
                    "return", "close", "pull", "putback", "done"}
    BY <1>0, <1>1, <2>3 DEF TypeOK
  <2> QED
    BY <2>2, <2>4, <2>5, <2>6, <2>7 DEF TypeOK
<1>3. Called' /\ Travel' /\ GP!GapIInv'
  BY <1>0, <1>1, FillCalled DEF InFill, Called, InGap
<1>4. U' = U /\ Whole'
  <2>1. Restored' = Restored
    BY <1>1 DEF Restored
  <2> QED
    BY <1>0, <1>1, <1>2, <1>3, <2>1, SameView
<1>5. /\ TV' = TV /\ VB' = VB /\ Low' = Low /\ High' = High /\ last' = last
      /\ off' = off /\ Kernel' = Kernel
  BY <1>1, ViewFixed
<1>7. Base' = Base /\ Front' = Front /\ Suffix' = Suffix /\ Seen' = Seen - 1
  BY <1>1, <1>5, <1>6, <1>n DEF Base, Front, Suffix, Seen
<1>8. /\ BlockEnd' = BlockEnd /\ BlockEnd = Seen + k /\ Used = 0 /\ Used' = 0
  BY <1>6, <1>7, <1>n DEF BlockEnd, Used
<1>9. Content'
  BY <1>0, <1>1, <1>4, <1>5, <1>7, <1>8 DEF Content, InFill
<1>10. Layout'
  <2>1. sfirst <= slast' /\ slast' + BlockSize' <= last
    BY <1>1, <1>6, <1>n
  <2> QED
    BY <1>0, <1>1, <1>5, <1>6, <1>7, <2>1 DEF Layout, InFill
<1>11. U[Seen - 1] \in VB <=> v[slast - 1] \in below
  <2>1. slast - 1 \in sfirst .. last - 1
    BY <1>1, <1>n
  <2>2. slast - 1 \in Pos /\ TV[slast - 1] = High - (last - (slast - 1))
    BY <1>0, <2>1 DEF Layout
  <2>3. TV[slast - 1] = Seen - 1
    BY <1>n, <2>2
  <2>4. Restored = v
    BY <1>1 DEF Restored
  <2> QED
    BY <1>0, <2>2, <2>3, <2>4, MemoryWhole
<1>12. Offsets'
  <2>1. /\ \A s \in 0 .. numR - 1 : offR[s] \in 1 .. k
        /\ \A s, t \in 0 .. numR - 1 : s < t => offR[s] < offR[t]
        /\ \A q \in Seen .. BlockEnd - 1 :
              U[q] \in VB <=> \E s \in 0 .. numR - 1 : q = BlockEnd - offR[s]
    BY <1>0, <1>6, <1>8 DEF Offsets
  <2>2. /\ \A s \in 0 .. numR - 1 : offR'[s] = offR[s]
        /\ offR'[numR] = k + 1
    BY <1>1, <1>n
  <2>3. \A s \in 0 .. numR' - 1 : s \in 0 .. numR - 1 \/ (s = numR /\ v[slast - 1] \in below)
    BY <1>1, <1>n
  <2>4. \A s \in 0 .. numR' - 1 : offR'[s] \in 1 .. k + 1
    BY <1>n, <2>1, <2>2, <2>3
  <2>5. ASSUME NEW s \in 0 .. numR' - 1, NEW t \in 0 .. numR' - 1, s < t
        PROVE  offR'[s] < offR'[t]
    <3>1. s \in 0 .. numR - 1 /\ offR'[s] = offR[s] /\ offR[s] \in 1 .. k
      BY <1>n, <2>1, <2>2, <2>3, <2>5
    <3>2. CASE t \in 0 .. numR - 1
      BY <2>1, <2>2, <2>5, <3>1, <3>2
    <3>3. CASE t = numR
      BY <1>n, <2>2, <3>1, <3>3
    <3> QED
      BY <2>3, <3>2, <3>3
  <2>6. ASSUME NEW q \in Seen - 1 .. BlockEnd - 1
        PROVE  U[q] \in VB <=> \E s \in 0 .. numR' - 1 : q = BlockEnd - offR'[s]
    <3>1. CASE q = Seen - 1
      <4>1. ASSUME v[slast - 1] \in below PROVE \E s \in 0 .. numR' - 1 : q = BlockEnd - offR'[s]
        <5>1. numR \in 0 .. numR' - 1
          BY <1>1, <1>8, <1>n, <4>1
        <5>2. q = BlockEnd - offR'[numR]
          BY <1>8, <1>n, <2>2, <3>1
        <5> QED
          BY <5>1, <5>2
      <4>2. ASSUME NEW s \in 0 .. numR' - 1, q = BlockEnd - offR'[s], v[slast - 1] \notin below
            PROVE  FALSE
        <5>1. s \in 0 .. numR - 1 /\ offR'[s] \in 1 .. k
          BY <2>1, <2>2, <2>3, <4>2
        <5> QED
          BY <1>8, <1>n, <3>1, <4>2, <5>1
      <4> QED
        BY <1>11, <3>1, <4>1, <4>2
    <3>2. CASE q \in Seen .. BlockEnd - 1
      <4>1. ASSUME NEW s \in 0 .. numR - 1, q = BlockEnd - offR[s]
            PROVE  s \in 0 .. numR' - 1 /\ q = BlockEnd - offR'[s]
        BY <1>1, <1>8, <1>n, <2>2, <4>1
      <4>2. ASSUME NEW s \in 0 .. numR' - 1, q = BlockEnd - offR'[s]
            PROVE  s \in 0 .. numR - 1 /\ q = BlockEnd - offR[s]
        <5>1. s # numR
          BY <1>8, <1>n, <2>2, <3>2, <4>2
        <5> QED
          BY <2>2, <2>3, <4>2, <5>1
      <4> QED
        BY <2>1, <3>2, <4>1, <4>2
    <3> QED
      BY <1>8, <1>n, <3>1, <3>2
  <2>7. numR' <= k + 1 /\ slotsRem' >= B
    BY <1>1, <1>n
  <2>8. \A q \in Seen' .. BlockEnd' - 1 :
            U'[q] \in VB' <=> \E s \in Used' .. numR' - 1 : q = BlockEnd' - offR'[s]
    BY <1>4, <1>5, <1>7, <1>8, <2>6
  <2> QED
    BY <1>1, <1>6, <2>4, <2>5, <2>7, <2>8 DEF Offsets
<1>13. Progress'
  BY <1>1, <1>n DEF Progress
<1>14. Joining' /\ Returned'
  BY <1>1 DEF Joining, Returned
<1> QED
  BY <1>2, <1>3, <1>4, <1>9, <1>10, <1>12, <1>13, <1>14 DEF CIInv, FillInv

LEMMA SlotStep ==
    ASSUME TypeOK, Called, Whole, Layout, Content, Offsets, InBlock,
           call' = call, below' = below, pc' = "rotate", BlockSize = B,
           lo' = lo, loEnd' = loEnd, r2lo' = r2lo, r2end' = r2end, slotsRem' = slotsRem,
           found' = found, c1' = c1, offR' = offR, numR' = numR, sfirst' = sfirst, slast' = slast,
           Settled' = Settled, InRun' = InRun + 1, InRun < loEnd - lo, Used < numR,
           NEW x \in Seen .. BlockEnd - 1, NEW z \in Seen .. BlockEnd - 1,
           z = BlockEnd - offR[Used], x = z \/ U[x] \notin VB,
           U' = Swap(Swap(U, Front, z), x, z)
    PROVE  Whole' /\ Layout' /\ Content' /\ Offsets'
<1> DEFINE w == U'
<1>1. /\ TV' = TV /\ VB' = VB /\ Low' = Low /\ High' = High /\ last' = last
      /\ off' = off /\ Kernel' = Kernel
  BY ViewFixed
<1>2. InFill /\ InFill' /\ BlockSize' = B
  BY DEF InFill, InBlock, BlockSize
<1>3. /\ N \in Nat /\ B \in Int /\ Low \in Int /\ High \in Int /\ Base \in Int /\ Front \in Int
      /\ Suffix \in Int /\ Seen \in Int /\ BlockEnd \in Int /\ Used \in Int /\ numR \in Int
      /\ InRun \in Int /\ lo \in Int /\ loEnd \in Int /\ r2lo \in Int /\ r2end \in Int
      /\ 0 <= Low /\ Low <= Front /\ Suffix <= Seen /\ BlockEnd <= High /\ High <= N
      /\ BlockEnd = Seen + B /\ Front = Base + InRun /\ 0 <= Used /\ Settled \in Int
      /\ Used = Settled + InRun
  BY <1>2, FillNumbers
<1>4. Front < Suffix
  BY <1>2, <1>3 DEF Layout
<1>5. /\ Base' = Base /\ Front' = Front + 1 /\ Suffix' = Suffix /\ Seen' = Seen
      /\ BlockEnd' = BlockEnd /\ Used' = Used + 1
  BY <1>1, <1>2, <1>3 DEF Base, Front, Suffix, Seen, BlockEnd, Used
<1>6. /\ \A s \in 0 .. numR - 1 : offR[s] \in 1 .. B
      /\ \A s, t \in 0 .. numR - 1 : s < t => offR[s] < offR[t]
      /\ \A q \in Seen .. BlockEnd - 1 :
            U[q] \in VB <=> \E s \in Used .. numR - 1 : q = BlockEnd - offR[s]
      /\ numR <= BlockSize /\ slotsRem >= B
  BY DEF Offsets
<1>7. U[z] \in VB
  <2>1. Used \in Used .. numR - 1
    BY <1>3
  <2> QED
    BY <1>6, <2>1
<1>8. /\ IsArrangement(U) /\ SameOutside([p \in Pos |-> p], U, Low, High)
      /\ AllIn(U, VB, Low, Front) /\ NoneIn(U, VB, Front, Suffix) /\ NoneIn(U, VB, BlockEnd, High)
      /\ Kernel \in PrefixKernels =>
              Suffix = Low + off /\ \A q \in Front .. Suffix - 1 : U[q] = q
  BY <1>2 DEF Whole, Content
<1>9. /\ IsArrangement(w) /\ SameOutside([p \in Pos |-> p], w, Low, High)
      /\ AllIn(w, VB, Low, Front + 1) /\ NoneIn(w, VB, Front + 1, Suffix)
      /\ NoneIn(w, VB, BlockEnd, High)
      /\ \A q \in Front + 1 .. Suffix - 1 : w[q] = U[q]
      /\ \A q \in Seen .. BlockEnd - 1 : w[q] \in VB <=> U[q] \in VB /\ q # z
  BY <1>3, <1>4, <1>7, <1>8, SlotFilled
<1> HIDE DEF w
<1>10. Whole'
  BY <1>1, <1>9 DEF Whole, w
<1>11. Content'
  <2>1. Kernel \in PrefixKernels =>
              Suffix = Low + off /\ \A q \in Front + 1 .. Suffix - 1 : w[q] = q
    BY <1>3, <1>4, <1>8, <1>9
  <2> QED
    BY <1>1, <1>5, <1>9, <2>1 DEF Content, w
<1>12. Layout'
  <2>1. InRun' <= loEnd - lo
    BY <1>3
  <2> QED
    BY <1>1, <1>2, <1>5, <2>1 DEF Layout
<1>13. Offsets'
  <2>1. ASSUME NEW q \in Seen .. BlockEnd - 1
        PROVE  w[q] \in VB <=> \E s \in Used + 1 .. numR - 1 : q = BlockEnd - offR[s]
    <3>1. ASSUME NEW s \in Used .. numR - 1, q = BlockEnd - offR[s], q # z
          PROVE  s \in Used + 1 .. numR - 1
      BY <1>3, <3>1
    <3>2. ASSUME NEW s \in Used + 1 .. numR - 1, q = BlockEnd - offR[s]
          PROVE  s \in Used .. numR - 1 /\ q # z
      <4>1. s \in 0 .. numR - 1 /\ Used \in 0 .. numR - 1 /\ Used < s
        BY <1>3
      <4>2. offR[Used] < offR[s] /\ offR[Used] \in 1 .. B /\ offR[s] \in 1 .. B
        BY <1>6, <4>1
      <4> QED
        BY <1>3, <3>2, <4>2
    <3>3. U[q] \in VB <=> \E s \in Used .. numR - 1 : q = BlockEnd - offR[s]
      BY <1>6
    <3> QED
      BY <1>9, <3>1, <3>2, <3>3
  <2>2. InBlock' /\ numR' <= BlockSize' /\ slotsRem' >= B
    BY <1>2, <1>6 DEF InBlock
  <2>3. \A q \in Seen' .. BlockEnd' - 1 :
            U'[q] \in VB' <=> \E s \in Used' .. numR' - 1 : q = BlockEnd' - offR'[s]
    BY <1>1, <1>5, <2>1 DEF w
  <2>4. /\ \A s \in 0 .. numR' - 1 : offR'[s] \in 1 .. BlockSize'
        /\ \A s, t \in 0 .. numR' - 1 : s < t => offR'[s] < offR'[t]
    BY <1>2, <1>6
  <2> QED
    BY <2>2, <2>3, <2>4 DEF Offsets
<1> QED
  BY <1>10, <1>11, <1>12, <1>13

\* Where the cells of a block, and the slots, are in the view.
LEMMA BlockCells ==
    ASSUME TypeOK, Called, Layout, Offsets, InBlock, BlockSize = B, NEW s \in 0 .. numR - 1
    PROVE  /\ CellR(s) \in Pos /\ TV[CellR(s)] = BlockEnd - offR[s]
           /\ BlockEnd - offR[s] \in Seen .. BlockEnd - 1
<1>1. InFill
  BY DEF InFill, InBlock
<1>2. offR[s] \in 1 .. B /\ CellR(s) = slast + B - offR[s]
  BY DEF Offsets, CellR
<1>3. /\ sfirst \in Int /\ slast \in Int /\ last \in Int /\ B \in Int /\ High \in Int
      /\ Seen \in Int /\ Seen = High - (last - slast) /\ BlockEnd = Seen + B
  BY <1>1, FillNumbers
<1>4. sfirst <= slast /\ slast + B <= last
  BY <1>1 DEF Layout
<1>5. CellR(s) \in sfirst .. last - 1
  BY <1>2, <1>3, <1>4
<1>6. CellR(s) \in Pos /\ TV[CellR(s)] = High - (last - CellR(s))
  BY <1>1, <1>5 DEF Layout
<1> QED
  BY <1>2, <1>3, <1>6

LEMMA SlotCell ==
    ASSUME TypeOK, Called, Layout, InFill, NEW d \in Int, 0 <= d, d < loEnd - lo
    PROVE  lo + d \in Pos /\ TV[lo + d] = Base + d
<1>1. lo \in Int /\ loEnd \in Int /\ Base \in Int
  BY FillNumbers
<1>2. lo + d \in lo .. loEnd - 1
  BY <1>1
<1>3. lo + d \in Pos /\ TV[lo + d] = Base + ((lo + d) - lo)
  BY <1>2 DEF Layout
<1> QED
  BY <1>1, <1>3

\* The lift of FillSlots and its first move exchange the slot and the cell of
\* the first offset.
LEMMA SwapTwice ==
    ASSUME NEW w, IsArrangement(w), NEW x \in Pos, NEW y \in Pos
    PROVE  Swap(Swap(w, x, y), y, y) = Swap(w, x, y)
<1>1. Swap(w, x, y) \in [Pos -> Pos]
  BY SwapArrangement DEF IsArrangement
<1> HIDE DEF Swap
<1> DEFINE g == Swap(w, x, y)
<1> HIDE DEF g
<1>2. g \in [Pos -> Pos]
  BY <1>1 DEF g
<1>3. Swap(g, y, y) = g
  BY <1>2 DEF Swap
<1> QED
  BY <1>3 DEF g

\* FillSlots, in either of its calls: at is set to Settled, cnt to what it is given.
SlotsTaken ==
    /\ at' = Settled /\ k' = 1 /\ run' = run
    /\ cnt' \in 0 .. B /\ Settled + cnt' <= numR /\ cnt' <= loEnd - lo
    /\ cnt' = 0 => pc' = "filled" /\ v' = v /\ tmp' = tmp
    /\ cnt' # 0 =>
          /\ tmp' = v[lo]
          /\ v' = [v EXCEPT ![lo] = v[CellR(Settled)], ![CellR(Settled)] = Hole]
          /\ pc' = "rotate"
    /\ run \in {1, 2}
    /\ run = 1 => Settled = 0 /\ cnt' = Least(numR, loEnd - lo)
    /\ run = 2 => Settled + cnt' = numR /\ r2lo = r2end
    /\ UNCHANGED <<below, slots, tally, buf, sfirst, slast, fused, m>>
    /\ FillFrame

LEMMA RoomLeft ==
    \A b, x, y, z \in Int :
        0 <= x /\ 0 <= y /\ x + y <= z /\ z <= b
            => x <= z /\ x \in 0 .. b /\ (y # 0 => x \in 0 .. z - 1 /\ 1 <= y)
OBVIOUS

LEMMA FillSlotsStep ==
    ASSUME CIInv, pc \in {"scan", "second"}, BlockSize = B, SlotsTaken
    PROVE  CIInv'
<1>0. /\ TypeOK /\ Called /\ Whole /\ Layout /\ Content /\ Offsets /\ InFill /\ InBlock
      /\ pc # "rotate" /\ InRun = 0
  BY DEF CIInv, FillInv, InFill, InBlock, InRun
<1>1. /\ at' = Settled /\ k' = 1 /\ run' = run /\ cnt' \in 0 .. B /\ cnt' <= loEnd - lo
      /\ lo' = lo /\ loEnd' = loEnd /\ r2lo' = r2lo /\ r2end' = r2end /\ slotsRem' = slotsRem
      /\ found' = found /\ c1' = c1 /\ offR' = offR /\ numR' = numR /\ sfirst' = sfirst
      /\ slast' = slast /\ call' = call /\ below' = below /\ fused' = fused /\ m' = m
      /\ pi' = pi /\ pj' = pj /\ chunk' = chunk /\ ret' = ret
      /\ Settled + cnt' <= numR
  BY DEF SlotsTaken, slots, tally, buf, FillFrame, gapVars
<1>2. /\ N \in Nat /\ B \in Int /\ 0 < B /\ numR \in Int /\ Settled \in Int /\ 0 <= Settled
      /\ Used = Settled /\ numR <= B /\ lo \in Int /\ loEnd \in Int /\ Base \in Int
      /\ Front = Base /\ BlockEnd = Seen + B /\ Seen \in Int
  BY <1>0, FillNumbers
<1>3. /\ TV' = TV /\ VB' = VB /\ Low' = Low /\ High' = High /\ last' = last
      /\ off' = off /\ Kernel' = Kernel /\ FV' = FV
  BY <1>1, ViewFixed
<1>4. Restored = v /\ IsArrangement(v) /\ v \in [Pos -> Pos] /\ tmp = Hole
  <2>1. Restored = v /\ tmp = Hole
    BY <1>0 DEF Restored, InFill, Called, InGap
  <2> QED
    BY <1>0, <2>1, MemoryWhole
<1>n. cnt' \in Int /\ 0 <= cnt' /\ cnt' <= B /\ at' \in 0 .. B /\ k' \in 0 .. B /\ Settled <= numR
  <2>1. cnt' \in Int /\ 0 <= cnt' /\ cnt' <= B
    BY <1>1
  <2>3. Settled + cnt' <= numR
    BY <1>1
  <2>4. /\ numR \in Int /\ Settled \in Int /\ 0 <= Settled /\ numR <= B /\ B \in Int /\ 0 < B
    BY <1>2
  <2>2. Settled <= numR /\ Settled \in 0 .. B
    BY ONLY <2>1, <2>3, <2>4, RoomLeft
  <2>5. 1 \in 0 .. B
    BY <2>4
  <2> QED
    BY <1>1, <2>1, <2>2, <2>5
<1>r. /\ run' \in {1, 2}
      /\ run' = 1 => at' = 0 /\ cnt' = Least(numR', loEnd' - lo')
      /\ run' = 2 => at' + cnt' = numR' /\ r2lo' = r2end'
  BY <1>1 DEF SlotsTaken
<1>5. CASE cnt' = 0
  <2>1. pc' = "filled" /\ v' = v /\ tmp' = tmp
    BY <1>5 DEF SlotsTaken
  <2>2. TypeOK'
    BY <1>0, <1>1, <1>n, <2>1 DEF TypeOK
  <2>3. Called' /\ Travel' /\ GP!GapIInv'
    BY <1>0, <1>1, <1>4, <2>1, FillCalled DEF InFill, FillFrame, gapVars
  <2>4. U' = U /\ Whole'
    <3>1. Restored' = Restored
      BY <1>0, <2>1 DEF Restored, InFill
    <3> QED
      BY <1>0, <1>1, <2>2, <2>3, <3>1, SameView
  <2>5. Settled' = Settled /\ InRun' = 0 /\ BlockSize' = B
    BY <1>1, <1>5, <2>1 DEF Settled, InRun, BlockSize
  <2>6. /\ Base' = Base /\ Front' = Front /\ Suffix' = Suffix /\ Seen' = Seen
        /\ BlockEnd' = BlockEnd /\ Used' = Used
    BY <1>0, <1>1, <1>3, <2>5 DEF Base, Front, Suffix, Seen, BlockEnd, Used
  <2>7. Layout'
    BY <1>0, <1>1, <1>3, <2>5, <2>6 DEF Layout
  <2>8. Content'
    BY <1>0, <1>3, <2>4, <2>6 DEF Content
  <2>9. Offsets'
    BY <1>0, <1>1, <1>3, <2>4, <2>5, <2>6 DEF Offsets
  <2>10. Progress'
    BY <1>1, <1>5, <1>r, <2>1 DEF Progress
  <2>11. Joining' /\ Returned'
    BY <2>1 DEF Joining, Returned
  <2> QED
    BY <2>2, <2>3, <2>4, <2>7, <2>8, <2>9, <2>10, <2>11 DEF CIInv, FillInv
<1>6. CASE cnt' # 0
  <2> DEFINE y == CellR(Settled)
             z == BlockEnd - offR[Settled]
  <2>1. /\ pc' = "rotate" /\ tmp' = v[lo] /\ v' = [v EXCEPT ![lo] = v[y], ![y] = Hole]
    BY <1>6 DEF SlotsTaken
  <2>2. Settled \in 0 .. numR - 1 /\ 1 <= cnt' /\ 0 < loEnd - lo /\ cnt' \in Int
    <3>1. /\ Settled + cnt' <= numR /\ cnt' <= loEnd - lo
      BY <1>1
    <3>2. /\ numR \in Int /\ Settled \in Int /\ 0 <= Settled /\ lo \in Int /\ loEnd \in Int
          /\ B \in Int /\ numR <= B
      BY <1>2
    <3>3. cnt' \in Int /\ 0 <= cnt' /\ cnt' # 0
      BY <1>6, <1>n
    <3>4. Settled \in 0 .. numR - 1 /\ 1 <= cnt'
      BY ONLY <3>1, <3>2, <3>3, RoomLeft
    <3>5. 0 < loEnd - lo
      BY ONLY <3>1, <3>2, <3>3, <3>4
    <3> QED
      BY <3>3, <3>4, <3>5
  <2>3. y \in Pos /\ TV[y] = z /\ z \in Seen .. BlockEnd - 1
    BY <1>0, <2>2, BlockCells
  <2>4. lo \in Pos /\ TV[lo] = Base
    <3>1. lo + 0 \in Pos /\ TV[lo + 0] = Base + 0
      BY <1>0, <2>2, SlotCell
    <3> QED
      BY <1>2, <3>1
  <2> HIDE DEF y, z
  <2>5. TypeOK'
    <3>1. v' \in [Pos -> Pos \cup {Hole}] /\ tmp' \in Pos \cup {Hole} /\ Settled \in 0 .. B
          /\ 1 \in 0 .. B
      BY <1>2, <1>4, <2>1, <2>2, <2>3, <2>4
    <3> QED
      BY <1>0, <1>1, <2>1, <3>1 DEF TypeOK
  <2>6. Called' /\ Travel' /\ GP!GapIInv'
    BY <1>0, <1>1, <2>1, FillCalled DEF InFill, FillFrame, gapVars
  <2>7. y = CellR(at + k - 1)'
    <3>1. at' + k' - 1 = Settled
      BY <1>1, <1>2
    <3> QED
      BY <1>1, <3>1 DEF CellR, y
  <2>8. Restored' = Swap(Restored, lo, y)
    <3>1. Restored' = [v' EXCEPT ![y] = tmp']
      BY <2>1, <2>7 DEF Restored, Refilled
    <3> QED
      BY <1>4, <2>1, <2>3, <2>4, <3>1 DEF Swap
  <2>9. U' = Swap(U, Base, z)
    <3>1. (TypeOK /\ Called
              => Restored \in [Pos -> Pos \cup {Hole}] /\ U = Renamed(TV, FV, Restored))'
      BY ViewStateNext, PTL
    <3>2. U' = Renamed(TV', FV', Restored')
      BY <2>5, <2>6, <3>1 DEF Renamed
    <3>3. U' = Renamed(TV, FV, Swap(Restored, lo, y))
      BY <1>3, <2>8, <3>2
    <3>4. Mutual(TV, FV) /\ U = Renamed(TV, FV, Restored)
      BY <1>0, ViewState
    <3> QED
      BY <1>4, <2>3, <2>4, <3>3, <3>4, RenamedSwap
  <2>10. U' = Swap(Swap(U, Front, z), z, z)
    <3>1. IsArrangement(U) /\ Base \in Pos /\ z \in Pos
      BY <1>0, <2>3, <2>4, MemoryWhole DEF Whole
    <3> QED
      BY <1>2, <2>9, <3>1, SwapTwice
  <2>11. Settled' = Settled /\ InRun' = InRun + 1 /\ InRun < loEnd - lo /\ Used < numR
    <3>1. Settled' = at' /\ InRun' = k'
      BY <2>1 DEF Settled, InRun
    <3> QED
      BY <1>0, <1>1, <1>2, <2>2, <3>1
  <2>12. z = BlockEnd - offR[Used]
    BY <1>2 DEF z
  <2>13. Whole' /\ Layout' /\ Content' /\ Offsets'
    BY <1>0, <1>1, <2>1, <2>3, <2>10, <2>11, <2>12, SlotStep
  <2>14. Progress'
    <3>1. v'[y] = Hole
      BY <1>4, <2>1, <2>3, <2>4
    <3>2. tmp' \in Pos
      BY <1>4, <2>1, <2>4
    <3>3. v'[CellR(at + k - 1)'] = Hole
      BY <2>7, <3>1
    <3> QED
      BY <1>1, <1>r, <2>1, <2>2, <3>2, <3>3 DEF Progress
  <2>15. Joining' /\ Returned'
    BY <2>1 DEF Joining, Returned
  <2> QED
    BY <2>5, <2>6, <2>13, <2>14, <2>15 DEF CIInv, FillInv
<1> QED
  BY <1>5, <1>6

LEMMA LeastNumbers ==
    ASSUME NEW x \in Int, NEW y \in Int
    PROVE  Least(x, y) \in Int /\ Least(x, y) <= x /\ Least(x, y) <= y /\ Least(x, y) \in {x, y}
BY DEF Least

LEMMA CFirstRun == ASSUME CIInv, FirstRun, FillFrame PROVE CIInv'
<1> DEFINE c == Least(numR, loEnd - lo)
<1>1. pc = "scan" /\ k = B /\ FillSlots(0, c)
      /\ UNCHANGED <<below, slots, tally, buf, run, sfirst, slast, fused, m>>
  BY DEF FirstRun
<1>2. Settled = 0 /\ BlockSize = B /\ InFill
  BY <1>1 DEF Settled, BlockSize, InFill
<1>3. TypeOK /\ Called /\ Layout /\ run = 1 /\ numR <= B
  <2>1. TypeOK /\ Called /\ Layout /\ Progress
    BY <1>2 DEF CIInv, FillInv
  <2>2. run = 1
    BY <1>1, <2>1 DEF Progress
  <2>3. numR \in 0 .. B
    BY <2>1 DEF TypeOK
  <2> QED
    BY <2>1, <2>2, <2>3, BAssumption
<1>4. numR \in Int /\ lo \in Int /\ loEnd \in Int /\ 0 <= numR /\ lo <= loEnd /\ B \in Int /\ numR <= B
  BY <1>2, <1>3, FillNumbers DEF Layout
<1>5. c \in Int /\ 0 <= c /\ c <= numR /\ c <= loEnd - lo /\ c \in 0 .. B
  <2>1. loEnd - lo \in Int /\ 0 <= loEnd - lo
    BY <1>4
  <2>2. c \in Int /\ c <= numR /\ c <= loEnd - lo /\ c \in {numR, loEnd - lo}
    BY <1>4, <2>1, LeastNumbers
  <2> HIDE DEF c
  <2> QED
    BY <1>4, <2>1, <2>2
<1> HIDE DEF c
<1>6. at' = 0 /\ cnt' = c /\ k' = 1 /\ run' = run
  BY <1>1 DEF FillSlots
<1>7. SlotsTaken
  <2>1. cnt' = 0 => pc' = "filled" /\ v' = v /\ tmp' = tmp
    BY <1>1, <1>6 DEF FillSlots
  <2>2. cnt' # 0 =>
          /\ tmp' = v[lo]
          /\ v' = [v EXCEPT ![lo] = v[CellR(Settled)], ![CellR(Settled)] = Hole]
          /\ pc' = "rotate"
    BY <1>1, <1>2, <1>6 DEF FillSlots
  <2>3. Settled + cnt' <= numR
    BY <1>2, <1>5, <1>6
  <2> QED
    BY <1>1, <1>2, <1>3, <1>5, <1>6, <2>1, <2>2, <2>3 DEF SlotsTaken, c
<1> QED
  BY <1>1, <1>2, <1>7, FillSlotsStep

LEMMA CSecondRun == ASSUME CIInv, SecondRun, FillFrame PROVE CIInv'
<1> DEFINE c == numR - cnt
<1>1. pc = "second" /\ cnt < numR /\ FillSlots(cnt, c)
      /\ UNCHANGED <<below, slots, tally, buf, run, sfirst, slast, fused, m>>
  BY DEF SecondRun
<1>2. Settled = cnt /\ BlockSize = B /\ InFill
  BY <1>1 DEF Settled, BlockSize, InFill
<1>3. /\ TypeOK /\ Called /\ Layout /\ run = 2 /\ cnt <= numR /\ c <= loEnd - lo
      /\ r2lo = r2end
  BY <1>1 DEF CIInv, FillInv, Progress
<1>4. numR \in Int /\ cnt \in Int /\ 0 <= cnt /\ B \in Int /\ numR <= B /\ c \in 0 .. B /\ c \in Int
  BY <1>1, <1>2, <1>3, FillNumbers
<1>5. cnt + c <= numR /\ cnt + c = numR
  BY <1>4
<1> HIDE DEF c
<1>6. at' = cnt /\ cnt' = c /\ k' = 1 /\ run' = run
  BY <1>1 DEF FillSlots
<1>7. SlotsTaken
  <2>1. cnt' = 0 => pc' = "filled" /\ v' = v /\ tmp' = tmp
    BY <1>1, <1>6 DEF FillSlots
  <2>2. cnt' # 0 =>
          /\ tmp' = v[lo]
          /\ v' = [v EXCEPT ![lo] = v[CellR(Settled)], ![CellR(Settled)] = Hole]
          /\ pc' = "rotate"
    BY <1>1, <1>2, <1>6 DEF FillSlots
  <2> QED
    BY <1>1, <1>2, <1>3, <1>4, <1>5, <1>6, <2>1, <2>2 DEF SlotsTaken
<1> QED
  BY <1>1, <1>2, <1>7, FillSlotsStep

\* A call of FillSlots stays within the offsets and within the current run.
LEMMA RunFits ==
    ASSUME TypeOK, Called, Layout, Progress, pc \in {"rotate", "filled"}
    PROVE  /\ InFill /\ BlockSize = B /\ Settled = at
           /\ at + cnt <= numR /\ cnt <= loEnd - lo
<1>1. InFill /\ BlockSize = B /\ Settled = at /\ run \in {1, 2}
  BY DEF InFill, BlockSize, Settled, TypeOK
<1>2. /\ numR \in Int /\ lo \in Int /\ loEnd \in Int /\ at \in Int /\ cnt \in Int
  BY <1>1, FillNumbers
<1>3. CASE run = 1
  <2>1. at = 0 /\ cnt = Least(numR, loEnd - lo)
    BY <1>3 DEF Progress
  <2>2. loEnd - lo \in Int
    BY <1>2
  <2>3. cnt <= numR /\ cnt <= loEnd - lo
    BY <1>2, <2>1, <2>2, LeastNumbers
  <2> QED
    BY <1>1, <1>2, <2>1, <2>3
<1>4. CASE run = 2
  BY <1>1, <1>2, <1>4 DEF Progress
<1> QED
  BY <1>1, <1>3, <1>4

Moved(w, x, y, z) == [w EXCEPT ![x] = w[y], ![y] = w[z], ![z] = Hole]

\* A move of the rotation: the vacant cell x gets the slot y, the slot the cell z,
\* and with the lifted element e put back these are two exchanges.
LEMMA RotationMove ==
    ASSUME NEW w \in [Pos -> Pos \cup {Hole}], NEW x \in Pos, NEW y \in Pos, NEW z \in Pos,
           x # y, x # z, y # z, NEW e \in Pos
    PROVE  /\ Moved(w, x, y, z) \in [Pos -> Pos \cup {Hole}] /\ Moved(w, x, y, z)[z] = Hole
           /\ Put(Moved(w, x, y, z), z, e) = Swap(Swap(Put(w, x, e), y, z), x, z)
BY DEF Swap, Moved, Put

LEMMA CRotateStep == ASSUME CIInv, RotateStep, FillFrame PROVE CIInv'
<1> DEFINE x == CellR(at + k - 1)
           y == lo + k
           z == CellR(at + k)
           fx == BlockEnd - offR[at + k - 1]
           fz == BlockEnd - offR[at + k]
<1>1. /\ pc = "rotate" /\ pc' = "rotate" /\ k < cnt /\ k' = k + 1
      /\ v' = [v EXCEPT ![x] = v[y], ![y] = v[z], ![z] = Hole]
      /\ at' = at /\ cnt' = cnt /\ run' = run /\ tmp' = tmp
      /\ lo' = lo /\ loEnd' = loEnd /\ r2lo' = r2lo /\ r2end' = r2end /\ slotsRem' = slotsRem
      /\ found' = found /\ c1' = c1 /\ offR' = offR /\ numR' = numR /\ sfirst' = sfirst
      /\ slast' = slast /\ call' = call /\ below' = below /\ fused' = fused /\ m' = m
      /\ pi' = pi /\ pj' = pj /\ chunk' = chunk /\ ret' = ret
  BY DEF RotateStep, slots, tally, buf, piece, FillFrame, gapVars
<1>0. /\ TypeOK /\ Called /\ Whole /\ Layout /\ Content /\ Offsets /\ Progress /\ InBlock
      /\ InFill /\ BlockSize = B /\ Settled = at /\ at + cnt <= numR /\ cnt <= loEnd - lo
      /\ InRun = k
  BY <1>1, RunFits DEF CIInv, FillInv, InBlock, InRun
<1>2. /\ N \in Nat /\ B \in Int /\ 0 < B /\ numR \in Int /\ numR <= B /\ at \in Int /\ 0 <= at
      /\ cnt \in Int /\ k \in Int /\ Used = at + k /\ lo \in Int /\ loEnd \in Int
      /\ Base \in Int /\ Front = Base + k /\ BlockEnd = Seen + B /\ Seen \in Int
      /\ Front \in Int /\ Suffix \in Int /\ Suffix <= Seen /\ cnt <= B
  BY <1>0, FillNumbers
<1>3. 1 <= k /\ tmp \in Pos /\ v[x] = Hole
  BY <1>1 DEF Progress, CIInv, FillInv
<1>4. at + k - 1 \in 0 .. numR - 1 /\ at + k \in 0 .. numR - 1
  BY <1>0, <1>1, <1>2, <1>3
<1>5. /\ x \in Pos /\ TV[x] = fx /\ fx \in Seen .. BlockEnd - 1
      /\ z \in Pos /\ TV[z] = fz /\ fz \in Seen .. BlockEnd - 1
  BY <1>0, <1>4, BlockCells
<1>6. y \in Pos /\ TV[y] = Front
  <2>1. 0 <= k /\ k < loEnd - lo
    BY <1>0, <1>1, <1>2, <1>3
  <2> QED
    BY <1>0, <1>2, <2>1, SlotCell
<1>7. Front < Suffix
  <2>1. /\ Base + (loEnd - lo) + (r2end - r2lo) = Suffix /\ r2lo <= r2end
        /\ r2lo \in Int /\ r2end \in Int
    BY <1>0, FillNumbers DEF Layout
  <2>2. k < loEnd - lo
    BY <1>0, <1>1, <1>2
  <2> QED
    BY <1>2, <2>1, <2>2
<1>8. fx # fz /\ \A s \in at + k .. numR - 1 : fx # BlockEnd - offR[s]
  <2>1. ASSUME NEW s \in at + k .. numR - 1 PROVE fx # BlockEnd - offR[s]
    <3>1. s \in 0 .. numR - 1 /\ at + k - 1 < s
      BY <1>2, <1>4
    <3>2. /\ offR[at + k - 1] < offR[s] /\ offR[s] \in 1 .. B
          /\ offR[at + k - 1] \in 1 .. B
      BY <1>0, <1>4, <3>1 DEF Offsets
    <3> QED
      BY <1>2, <3>2
  <2>2. at + k \in at + k .. numR - 1
    BY <1>2, <1>4
  <2> QED
    BY <2>1, <2>2
<1>9. U[fx] \notin VB
  BY <1>0, <1>2, <1>5, <1>8 DEF Offsets
<1>10. x # y /\ x # z /\ y # z
  <2>1. Front # fx /\ Front # fz /\ fx # fz
    BY <1>2, <1>5, <1>7, <1>8
  <2> QED
    BY <1>5, <1>6, <2>1
<1> HIDE DEF x, y, z, fx, fz
<1>11. v \in [Pos -> Pos \cup {Hole}]
  BY <1>0 DEF TypeOK
<1>12. Restored = [v EXCEPT ![x] = tmp]
  BY <1>1 DEF Restored, Refilled, x
<1>13. z = CellR(at + k - 1)'
  <2>1. at' + k' - 1 = at + k
    BY <1>1, <1>2
  <2> QED
    BY <1>1, <2>1 DEF CellR, z
<1>14. Restored' = [v' EXCEPT ![z] = tmp]
  BY <1>1, <1>13 DEF Restored, Refilled
<1>15. /\ v' \in [Pos -> Pos \cup {Hole}] /\ v'[z] = Hole
       /\ Restored' = Swap(Swap(Restored, y, z), x, z)
  <2>1. v' = Moved(v, x, y, z) /\ Restored = Put(v, x, tmp) /\ Restored' = Put(v', z, tmp)
    BY <1>1, <1>12, <1>14 DEF Moved, Put
  <2> QED
    BY <1>3, <1>5, <1>6, <1>10, <1>11, <2>1, RotationMove
<1>16. TypeOK'
  <2>1. k' \in 0 .. B
    BY <1>1, <1>2, <1>3
  <2> QED
    BY <1>0, <1>1, <1>15, <2>1 DEF TypeOK
<1>17. Called' /\ Travel' /\ GP!GapIInv'
  BY <1>0, <1>1, FillCalled DEF InFill, FillFrame, gapVars
<1>18. U' = Swap(Swap(U, Front, fz), fx, fz)
  <2>1. (TypeOK /\ Called
              => Restored \in [Pos -> Pos \cup {Hole}] /\ U = Renamed(TV, FV, Restored))'
    BY ViewStateNext, PTL
  <2>2. TV' = TV /\ FV' = FV
    BY <1>1, ViewFixed
  <2>3. U' = Renamed(TV, FV, Swap(Swap(Restored, y, z), x, z))
    BY <1>15, <1>16, <1>17, <2>1, <2>2 DEF Renamed
  <2>4. Mutual(TV, FV) /\ U = Renamed(TV, FV, Restored)
    BY <1>0, ViewState
  <2>5. IsArrangement(Restored) /\ Restored \in [Pos -> Pos]
    BY <1>0, MemoryWhole
  <2>6. Swap(Restored, y, z) \in [Pos -> Pos]
    BY <1>5, <1>6, <2>5, SwapArrangement DEF IsArrangement
  <2>7. Renamed(TV, FV, Swap(Restored, y, z)) = Swap(U, Front, fz)
    BY <1>5, <1>6, <2>4, <2>5, RenamedSwap
  <2> QED
    BY <1>5, <2>3, <2>4, <2>6, <2>7, RenamedSwap
<1>19. Settled' = Settled /\ InRun' = InRun + 1 /\ InRun < loEnd - lo /\ Used < numR
  <2>1. Settled' = at' /\ InRun' = k'
    BY <1>1 DEF Settled, InRun
  <2> QED
    BY <1>0, <1>1, <1>2, <2>1
<1>20. fz = BlockEnd - offR[Used]
  BY <1>2 DEF fz
<1>21. Whole' /\ Layout' /\ Content' /\ Offsets'
  BY <1>0, <1>1, <1>5, <1>9, <1>18, <1>19, <1>20, SlotStep
<1>22. Progress'
  <2>1. 1 <= k' /\ k' <= cnt'
    BY <1>1, <1>2, <1>3
  <2>2. v'[CellR(at + k - 1)'] = Hole
    BY <1>13, <1>15
  <2>3. /\ run' = 1 => at' = 0 /\ cnt' = Least(numR', loEnd' - lo')
        /\ run' = 2 => at' + cnt' = numR' /\ cnt' <= loEnd' - lo' /\ r2lo' = r2end'
    BY <1>0, <1>1 DEF Progress
  <2> QED
    BY <1>1, <1>3, <2>1, <2>2, <2>3 DEF Progress
<1>23. Joining' /\ Returned'
  BY <1>1 DEF Joining, Returned
<1> QED
  BY <1>16, <1>17, <1>21, <1>22, <1>23 DEF CIInv, FillInv

LEMMA CRotateClose == ASSUME CIInv, RotateClose, FillFrame PROVE CIInv'
<1> DEFINE x == CellR(at + k - 1)
<1>1. /\ pc = "rotate" /\ pc' = "filled" /\ k = cnt /\ k' = k
      /\ v' = [v EXCEPT ![x] = tmp] /\ tmp' = Hole
      /\ at' = at /\ cnt' = cnt /\ run' = run
      /\ lo' = lo /\ loEnd' = loEnd /\ r2lo' = r2lo /\ r2end' = r2end /\ slotsRem' = slotsRem
      /\ found' = found /\ c1' = c1 /\ offR' = offR /\ numR' = numR /\ sfirst' = sfirst
      /\ slast' = slast /\ call' = call /\ below' = below /\ fused' = fused /\ m' = m
      /\ pi' = pi /\ pj' = pj /\ chunk' = chunk /\ ret' = ret
  BY DEF RotateClose, slots, tally, buf, piece, FillFrame, gapVars
<1>0. /\ TypeOK /\ Called /\ Whole /\ Layout /\ Content /\ Offsets /\ Progress /\ InBlock
      /\ InFill /\ BlockSize = B /\ Settled = at /\ InRun = k
  BY <1>1, RunFits DEF CIInv, FillInv, InBlock, InRun
<1>2. Restored = [v EXCEPT ![x] = tmp] /\ Restored' = v'
  BY <1>1 DEF Restored, Refilled, x
<1> HIDE DEF x
<1>3. Restored' = Restored
  BY <1>1, <1>2
<1>4. TypeOK'
  <2>1. v' \in [Pos -> Pos \cup {Hole}]
    BY <1>0, <1>1, <1>2, ViewState
  <2> QED
    BY <1>0, <1>1, <2>1 DEF TypeOK
<1>5. Called' /\ Travel' /\ GP!GapIInv'
  BY <1>0, <1>1, FillCalled DEF InFill, FillFrame, gapVars
<1>6. U' = U /\ Whole'
  BY <1>0, <1>1, <1>3, <1>4, <1>5, SameView
<1>7. Settled' = Settled /\ InRun' = InRun /\ BlockSize' = BlockSize /\ InFill' /\ InBlock'
  BY <1>0, <1>1 DEF Settled, InRun, BlockSize, InFill, InBlock
<1>8. /\ TV' = TV /\ VB' = VB /\ Low' = Low /\ High' = High /\ last' = last
      /\ off' = off /\ Kernel' = Kernel
  BY <1>1, ViewFixed
<1>9. /\ Base' = Base /\ Front' = Front /\ Suffix' = Suffix /\ Seen' = Seen
      /\ BlockEnd' = BlockEnd /\ Used' = Used
  BY <1>1, <1>7, <1>8 DEF Base, Front, Suffix, Seen, BlockEnd, Used
<1>10. Layout'
  BY <1>0, <1>1, <1>7, <1>8, <1>9 DEF Layout
<1>11. Content'
  BY <1>0, <1>6, <1>8, <1>9 DEF Content
<1>12. Offsets'
  BY <1>0, <1>1, <1>6, <1>7, <1>8, <1>9 DEF Offsets
<1>13. Progress'
  <2>1. /\ run' = 1 => at' = 0 /\ cnt' = Least(numR', loEnd' - lo')
        /\ run' = 2 => at' + cnt' = numR' /\ cnt' <= loEnd' - lo' /\ r2lo' = r2end'
    BY <1>0, <1>1 DEF Progress
  <2> QED
    BY <1>1, <2>1 DEF Progress
<1>14. Joining' /\ Returned'
  BY <1>1 DEF Joining, Returned
<1> QED
  BY <1>4, <1>5, <1>6, <1>10, <1>11, <1>12, <1>13, <1>14 DEF CIInv, FillInv

\* The slots of InRun are taken off the runs, and when the first run is used up the
\* second may take its place.
RunKept ==
    /\ lo' = lo + InRun /\ loEnd' = loEnd /\ r2lo' = r2lo
    /\ lo + InRun = loEnd => r2lo = r2end

RunSwitched == lo + InRun = loEnd /\ lo' = r2lo /\ loEnd' = r2end /\ r2lo' = r2end

SlotsCounted == slotsRem' = Suffix - (Low + c1' + found')

LEMMA RunsShifted ==
    ASSUME TypeOK, Called, Layout, InFill, InFill', call' = call, below' = below,
           InRun' = 0, slast + BlockSize' <= last, sfirst' = sfirst, slast' = slast,
           r2end' = r2end, Base' = Front, SlotsCounted, RunKept \/ RunSwitched
    PROVE  Layout'
<1>1. /\ TV' = TV /\ Low' = Low /\ High' = High /\ last' = last
  BY ViewFixed
<1>2. /\ Base \in Int /\ Front = Base + InRun /\ InRun \in Int /\ lo \in Int /\ loEnd \in Int
      /\ r2lo \in Int /\ r2end \in Int /\ Suffix \in Int /\ slast \in Int /\ last \in Int
      /\ BlockSize \in Int
  BY FillNumbers
<1>3. Suffix' = Suffix
  BY <1>1 DEF Suffix
<1>4. /\ lo <= loEnd /\ r2lo <= r2end
      /\ InRun <= loEnd - lo
      /\ Base + (loEnd - lo) + (r2end - r2lo) = Suffix
      /\ sfirst <= slast /\ slast + BlockSize <= last
  BY DEF Layout
<1>5. /\ \A p \in lo .. loEnd - 1 : p \in Pos /\ TV[p] = Base + (p - lo)
      /\ \A p \in r2lo .. r2end - 1 : p \in Pos /\ TV[p] = Base + (loEnd - lo) + (p - r2lo)
      /\ \A p \in sfirst .. last - 1 : p \in Pos /\ TV[p] = High - (last - p)
  BY DEF Layout
<1>6. slotsRem' = Suffix' - (Low' + c1' + found')
  BY <1>1, <1>3 DEF SlotsCounted
<1>7. CASE RunKept
  <2>0. /\ lo' = lo + InRun /\ loEnd' = loEnd /\ r2lo' = r2lo
        /\ (lo + InRun = loEnd => r2lo = r2end)
    BY <1>7 DEF RunKept
  <2>1. ASSUME NEW p \in lo + InRun .. loEnd - 1 PROVE p \in Pos /\ TV[p] = Front + (p - (lo + InRun))
    <3>1. p \in lo .. loEnd - 1
      <4>1. 0 <= InRun
        BY FillNumbers
      <4> QED
        BY <1>2, <4>1
    <3> QED
      BY <1>2, <1>5, <3>1
  <2>2. ASSUME NEW p \in r2lo .. r2end - 1
        PROVE  p \in Pos /\ TV[p] = Front + (loEnd - (lo + InRun)) + (p - r2lo)
    BY <1>2, <1>5
  <2>3. /\ lo + InRun <= loEnd /\ 0 <= loEnd - (lo + InRun)
        /\ Front + (loEnd - (lo + InRun)) + (r2end - r2lo) = Suffix
    BY <1>2, <1>4
  <2> QED
    BY <1>1, <1>3, <1>4, <1>5, <1>6, <2>0, <2>1, <2>2, <2>3 DEF Layout
<1>8. CASE RunSwitched
  <2>0. lo + InRun = loEnd /\ lo' = r2lo /\ loEnd' = r2end /\ r2lo' = r2end
    BY <1>8 DEF RunSwitched
  <2>1. ASSUME NEW p \in r2lo .. r2end - 1 PROVE p \in Pos /\ TV[p] = Front + (p - r2lo)
    <3>1. p \in Pos /\ TV[p] = Base + (loEnd - lo) + (p - r2lo)
      BY <1>5
    <3> QED
      BY <1>2, <2>0, <3>1
  <2>2. \A p \in r2end .. r2end - 1 : FALSE
    BY <1>2
  <2>3. Front + (r2end - r2lo) + (r2end - r2end) = Suffix /\ r2end <= r2end /\ 0 <= r2end - r2lo
    BY <1>2, <1>4, <2>0
  <2> QED
    BY <1>1, <1>3, <1>4, <1>5, <1>6, <2>0, <2>1, <2>2, <2>3 DEF Layout
<1> QED
  BY <1>7, <1>8

LEMMA CRunDone == ASSUME CIInv, RunDone, FillFrame PROVE CIInv'
<1>1. /\ pc = "filled" /\ pc' = "second" /\ run = 1 /\ run' = 2 /\ k' = k
      /\ v' = v /\ tmp' = tmp /\ at' = at /\ cnt' = cnt
      /\ r2end' = r2end /\ slotsRem' = slotsRem
      /\ found' = found /\ c1' = c1 /\ offR' = offR /\ numR' = numR /\ sfirst' = sfirst
      /\ slast' = slast /\ call' = call /\ below' = below /\ fused' = fused /\ m' = m
      /\ pi' = pi /\ pj' = pj /\ chunk' = chunk /\ ret' = ret
  BY DEF RunDone, slots, tally, buf, piece, FillFrame, gapVars
<1>s. \/ lo + cnt # loEnd /\ lo' = lo + cnt /\ loEnd' = loEnd /\ r2lo' = r2lo
      \/ lo + cnt = loEnd /\ lo' = r2lo /\ loEnd' = r2end /\ r2lo' = r2end
  BY DEF RunDone
<1>0. /\ TypeOK /\ Called /\ Whole /\ Layout /\ Content /\ Offsets /\ Progress /\ InBlock
      /\ InFill /\ BlockSize = B /\ Settled = 0 /\ at = 0 /\ InRun = cnt
      /\ cnt = Least(numR, loEnd - lo) /\ cnt <= numR /\ tmp = Hole
  <2>1. /\ TypeOK /\ Called /\ Whole /\ Layout /\ Content /\ Offsets /\ Progress
    BY DEF CIInv, FillInv
  <2>2. /\ InFill /\ InBlock /\ BlockSize = B /\ Settled = at /\ InRun = cnt
    BY <1>1 DEF InBlock, InRun, InFill, BlockSize, Settled
  <2>3. at = 0 /\ cnt = Least(numR, loEnd - lo)
    BY <1>1, <2>1 DEF Progress
  <2>4. numR \in Int /\ loEnd - lo \in Int
    BY <2>1, <2>2, FillNumbers
  <2>5. cnt <= numR
    BY <2>3, <2>4, LeastNumbers
  <2>6. tmp = Hole
    BY <1>1, <2>1 DEF Called, InGap
  <2> QED
    BY <2>1, <2>2, <2>3, <2>5, <2>6
<1>2. /\ lo \in Int /\ loEnd \in Int /\ r2lo \in Int /\ r2end \in Int /\ cnt \in Int /\ numR \in Int
      /\ Base \in Int /\ Front = Base + cnt /\ Low \in Int /\ c1 \in Int /\ found \in Int
      /\ Base = Low + c1 + found + 0 /\ Suffix \in Int /\ B \in Int /\ numR <= B /\ N \in Nat
      /\ 0 <= cnt
  BY <1>0, FillNumbers
<1>3. /\ lo <= loEnd /\ r2lo <= r2end /\ cnt <= loEnd - lo
      /\ Base + (loEnd - lo) + (r2end - r2lo) = Suffix
      /\ slotsRem = Suffix - (Low + c1 + found) /\ slast + B <= last
  BY <1>0 DEF Layout
<1>r. RunKept \/ RunSwitched
  BY <1>0, <1>s DEF RunKept, RunSwitched
<1>4. TypeOK'
  <2>1. lo' \in 0 .. N /\ loEnd' \in 0 .. N /\ r2lo' \in 0 .. N
    <3>1. lo \in 0 .. N /\ loEnd \in 0 .. N /\ r2lo \in 0 .. N /\ r2end \in 0 .. N
      BY <1>0 DEF TypeOK
    <3>2. lo + cnt \in 0 .. N
      BY <1>2, <1>3, <3>1
    <3> QED
      BY <1>s, <3>1, <3>2
  <2> QED
    BY <1>0, <1>1, <2>1 DEF TypeOK
<1>5. Called' /\ Travel' /\ GP!GapIInv'
  BY <1>0, <1>1, FillCalled DEF InFill, FillFrame, gapVars
<1>6. U' = U /\ Whole'
  <2>1. Restored' = Restored
    BY <1>1 DEF Restored
  <2> QED
    BY <1>0, <1>1, <1>4, <1>5, <2>1, SameView
<1>7. Settled' = cnt /\ InRun' = 0 /\ BlockSize' = B /\ InFill' /\ InBlock'
  BY <1>1 DEF Settled, InRun, BlockSize, InFill, InBlock
<1>8. /\ TV' = TV /\ VB' = VB /\ Low' = Low /\ High' = High /\ last' = last
      /\ off' = off /\ Kernel' = Kernel
  BY <1>1, ViewFixed
<1>9. /\ Base' = Front /\ Front' = Front /\ Suffix' = Suffix /\ Seen' = Seen
      /\ BlockEnd' = BlockEnd /\ Used' = Used
  <2>1. Base' = Front
    BY <1>1, <1>2, <1>7, <1>8 DEF Base
  <2>2. Front' = Base' + 0 /\ Used' = cnt + 0 /\ Used = 0 + cnt
    BY <1>0, <1>7 DEF Front, Used
  <2> QED
    BY <1>0, <1>1, <1>2, <1>7, <1>8, <2>1, <2>2 DEF Suffix, Seen, BlockEnd
<1>10. Layout'
  <2>1. SlotsCounted /\ slast + BlockSize' <= last
    BY <1>1, <1>3, <1>7 DEF SlotsCounted
  <2> QED
    BY <1>0, <1>1, <1>7, <1>9, <1>r, <2>1, RunsShifted
<1>11. Content'
  BY <1>0, <1>6, <1>8, <1>9 DEF Content
<1>12. Offsets'
  BY <1>0, <1>1, <1>6, <1>7, <1>8, <1>9 DEF Offsets
<1>13. Progress'
  <2>1. slotsRem >= B
    BY <1>0 DEF Offsets
  <2>2. CASE cnt = numR
    <3>1. lo' <= loEnd'
      BY <1>10, <1>7 DEF Layout
    <3>2. lo' \in Int /\ loEnd' \in Int
      BY <1>2, <1>s
    <3>3. 0 <= loEnd' - lo'
      <4>1. \A x, y \in Int : x <= y => 0 <= y - x
        OBVIOUS
      <4> QED
        BY <3>1, <3>2, <4>1
    <3>4. numR - cnt = 0 /\ ~ (cnt < numR)
      BY <1>2, <2>2
    <3>5. cnt' <= numR' /\ numR' - cnt' <= loEnd' - lo' /\ ~ (cnt' < numR')
      BY <1>0, <1>1, <3>3, <3>4
    <3> QED
      BY <1>1, <3>5 DEF Progress
  <2>3. CASE cnt # numR
    <3>1. cnt = loEnd - lo
      BY <1>0, <1>2, <2>3, LeastNumbers
    <3>2. lo' = r2lo /\ loEnd' = r2end /\ r2lo' = r2end
      BY <1>s, <1>2, <3>1
    <3>3. numR - cnt <= r2end - r2lo
      BY <1>2, <1>3, <2>1, <3>1
    <3> QED
      BY <1>1, <1>0, <3>2, <3>3 DEF Progress
  <2> QED
    BY <2>2, <2>3
<1>14. Joining' /\ Returned'
  BY <1>1 DEF Joining, Returned
<1> QED
  BY <1>4, <1>5, <1>6, <1>10, <1>11, <1>12, <1>13, <1>14 DEF CIInv, FillInv

\* The end of a block: all its offsets are used.
BlockClosed ==
    /\ lo' = lo + InRun /\ slast' = slast
    /\ lo + InRun = loEnd => r2lo = r2end
    /\ Tally
    /\ FillFrame

LEMMA BlockEnds ==
    ASSUME CIInv, pc \in {"filled", "second"}, BlockSize = B, Used = numR, BlockClosed
    PROVE  CIInv'
<1>1. /\ pc' = "loop" /\ k' = k /\ run' = run /\ v' = v /\ tmp' = tmp /\ at' = at /\ cnt' = cnt
      /\ loEnd' = loEnd /\ r2lo' = r2lo /\ r2end' = r2end
      /\ c1' = c1 /\ offR' = offR /\ numR' = numR /\ sfirst' = sfirst
      /\ slast' = slast /\ call' = call /\ below' = below /\ fused' = fused /\ m' = m
      /\ pi' = pi /\ pj' = pj /\ chunk' = chunk /\ ret' = ret
  BY DEF BlockClosed, Tally, buf, piece, FillFrame, gapVars
<1>s. slotsRem' = slotsRem - numR /\ found' = found + numR /\ lo' = lo + InRun
  BY DEF BlockClosed, Tally
<1>0. /\ TypeOK /\ Called /\ Whole /\ Layout /\ Content /\ Offsets /\ InBlock
      /\ InFill /\ tmp = Hole
  <2>1. /\ TypeOK /\ Called /\ Whole /\ Layout /\ Content /\ Offsets
    BY DEF CIInv, FillInv
  <2>2. /\ InFill /\ InBlock
    BY <1>1 DEF InBlock, InFill
  <2>6. tmp = Hole
    BY <1>1, <2>1 DEF Called, InGap
  <2> QED
    BY <2>1, <2>2, <2>6
<1>2. /\ lo \in Int /\ loEnd \in Int /\ r2lo \in Int /\ r2end \in Int /\ numR \in Int
      /\ Base \in Int /\ Front = Base + InRun /\ Low \in Int /\ c1 \in Int /\ found \in Int
      /\ Base = Low + c1 + found + Settled /\ Suffix \in Int /\ B \in Int /\ numR <= B /\ N \in Nat
      /\ 0 <= InRun /\ 0 <= Settled /\ InRun \in Int /\ Settled \in Int /\ numR = Settled + InRun
      /\ 0 <= Low /\ 0 <= c1 /\ 0 <= found /\ Front <= Suffix /\ Suffix <= Seen
      /\ BlockEnd <= High /\ High <= N /\ Seen \in Int /\ High \in Int /\ BlockEnd = Seen + B
      /\ slast \in Int /\ last \in Int /\ slotsRem \in Int /\ Front \in Int /\ BlockEnd \in Int
      /\ 0 <= numR /\ 0 < B
  BY <1>0, FillNumbers
<1>3. /\ lo <= loEnd /\ r2lo <= r2end /\ InRun <= loEnd - lo
      /\ Base + (loEnd - lo) + (r2end - r2lo) = Suffix
      /\ slotsRem = Suffix - (Low + c1 + found) /\ slast + B <= last
  BY <1>0 DEF Layout
<1>r. RunKept
  BY <1>1 DEF RunKept, BlockClosed
<1>4. TypeOK'
  <2>1. lo + InRun \in 0 .. N
    <3>1. lo \in 0 .. N /\ loEnd \in 0 .. N
      BY <1>0 DEF TypeOK
    <3> QED
      BY <1>2, <1>3, <3>1
  <2>2. slotsRem - numR \in 0 .. N
    <3>1. slotsRem \in 0 .. N /\ slotsRem >= B
      BY <1>0 DEF TypeOK, Offsets
    <3> QED
      BY <1>2, <3>1
  <2>3. found + numR \in 0 .. N
    BY <1>2
  <2> QED
    BY <1>0, <1>1, <1>s, <2>1, <2>2, <2>3 DEF TypeOK
<1>5. Called' /\ Travel' /\ GP!GapIInv'
  BY <1>0, <1>1, FillCalled DEF InFill, FillFrame, gapVars
<1>6. U' = U /\ Whole'
  <2>1. Restored' = Restored
    BY <1>1 DEF Restored
  <2> QED
    BY <1>0, <1>1, <1>4, <1>5, <2>1, SameView
<1>7. Settled' = 0 /\ InRun' = 0 /\ BlockSize' = 0 /\ InFill' /\ ~InBlock'
  BY <1>1 DEF Settled, InRun, BlockSize, InFill, InBlock
<1>8. /\ TV' = TV /\ VB' = VB /\ Low' = Low /\ High' = High /\ last' = last
      /\ off' = off /\ Kernel' = Kernel
  BY <1>1, ViewFixed
<1>9. /\ Base' = Front /\ Front' = Front /\ Suffix' = Suffix /\ Seen' = Seen /\ BlockEnd' = Seen
  <2>1. Base' = Low + c1 + (found + numR) + 0
    BY <1>1, <1>s, <1>7, <1>8 DEF Base
  <2>2. Base' = Front
    BY <1>2, <2>1
  <2>3. Front' = Base' + 0
    BY <1>7 DEF Front
  <2>4. Suffix' = Suffix /\ Seen' = Seen
    BY <1>1, <1>8 DEF Suffix, Seen
  <2>5. BlockEnd' = Seen' + 0
    BY <1>7 DEF BlockEnd
  <2> QED
    BY <1>2, <2>2, <2>3, <2>4, <2>5
<1>10. Layout'
  <2>1. SlotsCounted
    <3>1. slotsRem - numR = Suffix - (Low + c1 + (found + numR))
      BY <1>2, <1>3
    <3> QED
      BY <1>1, <1>s, <3>1 DEF SlotsCounted
  <2>2. slast + BlockSize' <= last
    BY <1>2, <1>3, <1>7
  <2> QED
    BY <1>0, <1>1, <1>7, <1>9, <1>r, <2>1, <2>2, RunsShifted
<1>11. Content'
  <2>1. ASSUME NEW q \in Seen .. High - 1 PROVE U[q] \notin VB
    <3>1. CASE q \in Seen .. BlockEnd - 1
      <4>1. \A s \in Used .. numR - 1 : FALSE
        BY <1>2
      <4> QED
        BY <1>0, <3>1, <4>1 DEF Offsets
    <3>2. CASE q \in BlockEnd .. High - 1
      BY <1>0, <3>2 DEF Content, NoneIn
    <3> QED
      BY <1>2, <3>1, <3>2
  <2>2. NoneIn(U, VB, Seen, High)
    BY <2>1 DEF NoneIn
  <2> QED
    BY <1>0, <1>6, <1>8, <1>9, <2>2 DEF Content
<1>12. Offsets' /\ Progress' /\ Joining' /\ Returned'
  BY <1>1, <1>7 DEF Offsets, Progress, Joining, Returned
<1> QED
  BY <1>4, <1>5, <1>6, <1>10, <1>11, <1>12 DEF CIInv, FillInv

LEMMA CBlockDone == ASSUME CIInv, BlockDone, FillFrame PROVE CIInv'
<1>1. pc = "second" /\ cnt = numR /\ lo' = lo /\ slast' = slast /\ Tally
  BY DEF BlockDone
<1>2. BlockSize = B /\ Settled = numR /\ InRun = 0 /\ InFill
  BY <1>1 DEF BlockSize, Settled, InRun, InFill
<1>3. lo \in Int /\ numR \in Int /\ Used = numR + 0 /\ (lo = loEnd => r2lo = r2end)
  BY <1>2, FillNumbers DEF CIInv, FillInv, Layout, Used
<1>4. BlockClosed /\ Used = numR
  BY <1>1, <1>2, <1>3 DEF BlockClosed
<1> QED
  BY <1>1, <1>2, <1>4, BlockEnds

LEMMA CStraddleDone == ASSUME CIInv, StraddleDone, FillFrame PROVE CIInv'
<1>1. pc = "filled" /\ run = 2 /\ lo' = lo + cnt /\ slast' = slast /\ Tally
  BY DEF StraddleDone
<1>2. BlockSize = B /\ Settled = at /\ InRun = cnt /\ InFill
  BY <1>1 DEF BlockSize, Settled, InRun, InFill
<1>3. at + cnt = numR /\ r2lo = r2end
  BY <1>1 DEF CIInv, FillInv, Progress
<1>4. BlockClosed /\ Used = numR
  BY <1>1, <1>2, <1>3 DEF BlockClosed, Used
<1> QED
  BY <1>1, <1>2, <1>4, BlockEnds
-----------------------------------------------------------------------------
(***************************************************************************)
(* Partitioning a run of the range, and exchanging two runs.               *)
(***************************************************************************)
\* What the contract allows of a call of the flat partition.
LEMMA OutcomeFacts ==
    ASSUME NEW g, NEW s, NEW a, NEW b, NEW o \in PartitionOutcomes(g, s, a, b)
    PROVE  /\ IsArrangement(o.array) /\ o.boundary \in a .. b
           /\ AllIn(o.array, s, a, o.boundary) /\ NoneIn(o.array, s, o.boundary, b)
           /\ SameOutside(g, o.array, a, b)
<1> DEFINE arrays == {[p \in Pos |-> IF p \in a .. b - 1 THEN g[f[p]] ELSE g[p]] :
                          f \in Permutations(a .. b - 1)}
<1>1. /\ o \in [array : arrays, boundary : a .. b]
      /\ Partitioned(o.array, s, a, o.boundary, b)
      /\ IsArrangement(o.array)
  BY DEF PartitionOutcomes
<1>2. o.array \in arrays /\ o.boundary \in a .. b
  BY <1>1
<1>3. \A p \in Pos : p \notin a .. b - 1 => o.array[p] = g[p]
  BY <1>2
<1> HIDE DEF arrays
<1> QED
  BY <1>1, <1>2, <1>3 DEF Partitioned, SameOutside

\* The cells [a, b) are a run of the view, from place f on.
IsRun(t, a, b, f) == \A p \in a .. b - 1 : p \in Pos /\ t[p] = f + (p - a)

LEMMA RunPlaces ==
    ASSUME NEW t, NEW c, Mutual(t, c), NEW a \in Int, NEW b \in Int, NEW f \in Int,
           IsRun(t, a, b, f)
    PROVE  /\ \A q \in f .. f + (b - a) - 1 :
                 q \in Pos /\ a + (q - f) \in a .. b - 1 /\ c[q] = a + (q - f)
           /\ \A q \in Pos : q \notin f .. f + (b - a) - 1 => c[q] \in Pos /\ c[q] \notin a .. b - 1
<1>1. \A p \in Pos : t[p] \in Pos /\ c[p] \in Pos /\ t[c[p]] = p /\ c[t[p]] = p
  BY DEF Mutual
<1>2. ASSUME NEW q \in f .. f + (b - a) - 1
      PROVE  q \in Pos /\ a + (q - f) \in a .. b - 1 /\ c[q] = a + (q - f)
  <2>1. a + (q - f) \in a .. b - 1 /\ f + ((a + (q - f)) - a) = q
    OBVIOUS
  <2>2. a + (q - f) \in Pos /\ t[a + (q - f)] = f + ((a + (q - f)) - a)
    BY <2>1 DEF IsRun
  <2>3. t[a + (q - f)] = q
    BY <2>1, <2>2
  <2> QED
    BY <1>1, <2>1, <2>2, <2>3
<1>3. ASSUME NEW q \in Pos, c[q] \in a .. b - 1 PROVE q \in f .. f + (b - a) - 1
  <2>1. t[c[q]] = f + (c[q] - a) /\ t[c[q]] = q
    BY <1>1, <1>3 DEF IsRun
  <2>2. c[q] \in Int /\ a <= c[q] /\ c[q] <= b - 1
    BY <1>3
  <2> QED
    BY <2>1, <2>2
<1> QED
  BY <1>1, <1>2, <1>3

\* A run of the array g is partitioned, which gives w; in the view it is the same
\* run that is partitioned.
LEMMA RunPartitioned ==
    ASSUME Called, NEW g, IsArrangement(g), NEW w, IsArrangement(w),
           NEW a \in Int, NEW b \in Int, NEW f \in Int, IsRun(TV, a, b, f), NEW d \in a .. b,
           AllIn(w, below, a, d), NoneIn(w, below, d, b), SameOutside(g, w, a, b),
           NEW u, u = Renamed(TV, FV, g), NEW y, y = Renamed(TV, FV, w)
    PROVE  /\ IsArrangement(y)
           /\ AllIn(y, VB, f, f + (d - a)) /\ NoneIn(y, VB, f + (d - a), f + (b - a))
           /\ \A q \in Pos : q \notin f .. f + (b - a) - 1 => y[q] = u[q]
<1>1. /\ Mutual(TV, FV) /\ g \in [Pos -> Pos \cup {Hole}] /\ w \in [Pos -> Pos \cup {Hole}]
      /\ \A p \in Pos : g[p] \in Pos /\ w[p] \in Pos /\ g[p] # Hole /\ w[p] # Hole
  BY ViewMutual, HoleNotInPos DEF IsArrangement
<1>2. /\ \A q \in f .. f + (b - a) - 1 :
             q \in Pos /\ a + (q - f) \in a .. b - 1 /\ FV[q] = a + (q - f)
      /\ \A q \in Pos : q \notin f .. f + (b - a) - 1 => FV[q] \in Pos /\ FV[q] \notin a .. b - 1
  BY <1>1, RunPlaces
<1>3. IsArrangement(y)
  BY <1>1, RenamedArrangement
<1>4. ASSUME NEW q \in Pos
      PROVE  /\ FV[q] \in Pos /\ y[q] = TV[w[FV[q]]] /\ u[q] = TV[g[FV[q]]]
             /\ y[q] \in VB <=> w[FV[q]] \in below
  <2>1. FV[q] \in Pos
    BY <1>1 DEF Mutual
  <2>2. y[q] = TV[w[FV[q]]] /\ u[q] = TV[g[FV[q]]] /\ w[FV[q]] \in Pos
    BY <1>1, <2>1, RenamedCells
  <2> QED
    BY <2>1, <2>2, ViewBelowMember
<1>5. ASSUME NEW q \in f .. f + (d - a) - 1 PROVE y[q] \in VB
  <2>1. q \in f .. f + (b - a) - 1 /\ a + (q - f) \in a .. d - 1
    OBVIOUS
  <2>2. w[FV[q]] \in below
    BY <1>2, <2>1 DEF AllIn
  <2> QED
    BY <1>2, <1>4, <2>1, <2>2
<1>6. ASSUME NEW q \in f + (d - a) .. f + (b - a) - 1 PROVE y[q] \notin VB
  <2>1. q \in f .. f + (b - a) - 1 /\ a + (q - f) \in d .. b - 1
    OBVIOUS
  <2>2. w[FV[q]] \notin below
    BY <1>2, <2>1 DEF NoneIn
  <2> QED
    BY <1>2, <1>4, <2>1, <2>2
<1>7. ASSUME NEW q \in Pos, q \notin f .. f + (b - a) - 1 PROVE y[q] = u[q]
  BY <1>2, <1>4, <1>7 DEF SameOutside
<1> QED
  BY <1>3, <1>5, <1>6, <1>7 DEF AllIn, NoneIn

\* The cells that have not been looked at are a run of the view.
LEMMA SuffixRun ==
    ASSUME TypeOK, Called, Layout, InFill
    PROVE  IsRun(TV, sfirst, slast, Suffix) /\ Suffix + (slast - sfirst) = Seen
<1>1. /\ sfirst \in Int /\ slast \in Int /\ last \in Int /\ Suffix = High - (last - sfirst)
      /\ Seen = High - (last - slast) /\ High \in Int /\ BlockSize \in Int /\ 0 <= BlockSize
  BY FillNumbers
<1>2. slast <= last
  BY <1>1 DEF Layout
<1>3. ASSUME NEW p \in sfirst .. slast - 1 PROVE p \in Pos /\ TV[p] = Suffix + (p - sfirst)
  <2>1. p \in sfirst .. last - 1
    BY <1>1, <1>2
  <2>2. p \in Pos /\ TV[p] = High - (last - p)
    BY <2>1 DEF Layout
  <2> QED
    BY <1>1, <2>1, <2>2
<1> QED
  BY <1>1, <1>3 DEF IsRun

LEMMA CPartitionRest == ASSUME CIInv, PartitionRest, FillFrame PROVE CIInv'
<1>1. /\ pc = "loop" /\ pc' = "bridge" /\ k' = k /\ run' = run /\ tmp' = tmp /\ at' = at
      /\ cnt' = cnt /\ lo' = lo /\ loEnd' = loEnd /\ r2lo' = r2lo /\ r2end' = r2end
      /\ slotsRem' = slotsRem /\ found' = found
      /\ c1' = c1 /\ offR' = offR /\ numR' = numR /\ sfirst' = sfirst
      /\ slast' = slast /\ call' = call /\ below' = below /\ fused' = fused
      /\ pi' = pi /\ pj' = pj /\ chunk' = chunk /\ ret' = ret
  BY DEF PartitionRest, slots, tally, buf, piece, FillFrame, gapVars
<1>0. /\ TypeOK /\ Called /\ Whole /\ Layout /\ Content /\ InFill /\ tmp = Hole /\ Restored = v
  <2>1. /\ TypeOK /\ Called /\ Whole /\ Layout /\ Content
    BY DEF CIInv, FillInv
  <2> QED
    BY <1>1, <2>1 DEF Called, InGap, InFill, Restored
<1>2. PICK o \in PartitionOutcomes(v, below, sfirst, slast) : v' = o.array /\ m' = o.boundary
  BY DEF PartitionRest
<1>3. PICK w, d : w = v' /\ d = m'
  OBVIOUS
<1>4. /\ IsArrangement(w) /\ d \in sfirst .. slast
      /\ AllIn(w, below, sfirst, d) /\ NoneIn(w, below, d, slast)
      /\ SameOutside(v, w, sfirst, slast)
  BY <1>2, <1>3, OutcomeFacts
<1>n. /\ N \in Nat /\ sfirst \in Int /\ slast \in Int /\ Suffix \in Int /\ Front \in Int
      /\ Seen \in Int /\ High \in Int /\ Low \in Int /\ Low <= Front /\ Front <= Suffix
      /\ Suffix <= Seen /\ Seen <= High /\ 0 <= Low /\ High <= N
  <2>1. Seen + BlockSize <= High /\ 0 <= BlockSize /\ BlockSize \in Int
    BY <1>0, FillNumbers
  <2> QED
    BY <1>0, <2>1, FillNumbers
<1>5. TypeOK'
  <2>1. v' \in [Pos -> Pos \cup {Hole}]
    BY <1>3, <1>4 DEF IsArrangement
  <2>2. m' \in 0 .. N
    <3>1. sfirst \in 0 .. N /\ slast \in 0 .. N
      BY <1>0 DEF TypeOK
    <3> QED
      BY <1>3, <1>4, <1>n, <3>1
  <2> QED
    BY <1>0, <1>1, <2>1, <2>2 DEF TypeOK
<1>6. Called' /\ Travel' /\ GP!GapIInv'
  BY <1>0, <1>1, FillCalled DEF InFill, FillFrame, gapVars
<1>7. U = Renamed(TV, FV, v) /\ IsArrangement(v)
  BY <1>0, ViewState, MemoryWhole
<1>8. PICK y : y = Renamed(TV, FV, w)
  OBVIOUS
<1>9. U' = y
  <2>1. (TypeOK /\ Called
              => Restored \in [Pos -> Pos \cup {Hole}] /\ U = Renamed(TV, FV, Restored))'
    BY ViewStateNext, PTL
  <2>2. TV' = TV /\ FV' = FV /\ Restored' = w
    BY <1>1, <1>3, ViewFixed DEF Restored
  <2> QED
    BY <1>5, <1>6, <1>8, <2>1, <2>2 DEF Renamed
<1>10. /\ IsArrangement(y)
       /\ AllIn(y, VB, Suffix, Suffix + (d - sfirst)) /\ NoneIn(y, VB, Suffix + (d - sfirst), Seen)
       /\ \A q \in Pos : q \notin Suffix .. Seen - 1 => y[q] = U[q]
  <2>1. IsRun(TV, sfirst, slast, Suffix) /\ Suffix + (slast - sfirst) = Seen
    BY <1>0, SuffixRun
  <2>2. /\ IsArrangement(y)
        /\ AllIn(y, VB, Suffix, Suffix + (d - sfirst))
        /\ NoneIn(y, VB, Suffix + (d - sfirst), Suffix + (slast - sfirst))
        /\ \A q \in Pos : q \notin Suffix .. Suffix + (slast - sfirst) - 1 => y[q] = U[q]
    BY <1>0, <1>4, <1>7, <1>8, <1>n, <2>1, RunPartitioned
  <2>3. \A q \in Suffix + (d - sfirst) .. Seen - 1 : y[q] \notin VB
    BY <2>1, <2>2 DEF NoneIn
  <2>4. ASSUME NEW q \in Pos, q \notin Suffix .. Seen - 1 PROVE y[q] = U[q]
    <3>1. q \notin Suffix .. Suffix + (slast - sfirst) - 1
      BY <1>n, <2>1, <2>4 DEF Pos
    <3> QED
      BY <2>2, <3>1
  <2> QED
    BY <2>2, <2>3, <2>4 DEF NoneIn
<1>11. Settled' = Settled /\ InRun' = InRun /\ BlockSize' = 0 /\ BlockSize = 0 /\ InFill'
       /\ ~InBlock'
  BY <1>1 DEF Settled, InRun, BlockSize, InFill, InBlock
<1>12. /\ TV' = TV /\ VB' = VB /\ Low' = Low /\ High' = High /\ last' = last
       /\ off' = off /\ Kernel' = Kernel
  BY <1>1, ViewFixed
<1>13. /\ Base' = Base /\ Front' = Front /\ Suffix' = Suffix /\ Seen' = Seen
       /\ BlockEnd' = BlockEnd /\ BlockEnd = Seen
  <2>1. BlockEnd = Seen + 0
    BY <1>11 DEF BlockEnd
  <2> QED
    BY <1>1, <1>11, <1>12, <1>n, <2>1 DEF Base, Front, Suffix, Seen, BlockEnd
<1>14. Layout'
  BY <1>0, <1>1, <1>11, <1>12, <1>13 DEF Layout
<1>15. ASSUME NEW q \in Low .. High - 1, q < Suffix \/ q >= Seen PROVE y[q] = U[q]
  <2>1. q \in Pos /\ q \notin Suffix .. Seen - 1
    BY <1>15, <1>n DEF Pos
  <2> QED
    BY <1>10, <2>1
<1>16. Whole'
  <2>1. SameOutside([p \in Pos |-> p], y, Low, High)
    <3> SUFFICES ASSUME NEW q \in Pos, q \notin Low .. High - 1 PROVE q = y[q]
      BY DEF SameOutside
    <3>1. q \notin Suffix .. Seen - 1
      BY <1>n
    <3>2. U[q] = q
      BY <1>0 DEF Whole, SameOutside
    <3> QED
      BY <1>10, <3>1, <3>2
  <2> QED
    BY <1>9, <1>10, <1>12, <2>1 DEF Whole
<1>17. Content'
  <2>0. /\ AllIn(U, VB, Low, Front) /\ NoneIn(U, VB, Front, Suffix) /\ NoneIn(U, VB, Seen, High)
        /\ Kernel \in PrefixKernels =>
              Suffix = Low + off /\ \A q \in Front .. Suffix - 1 : U[q] = q
    BY <1>0, <1>13 DEF Content
  <2>1. \A q \in Low .. Front - 1 : y[q] = U[q]
    BY <1>n, <1>15
  <2>2. \A q \in Front .. Suffix - 1 : y[q] = U[q]
    BY <1>n, <1>15
  <2>3. \A q \in Seen .. High - 1 : y[q] = U[q]
    BY <1>n, <1>15
  <2>4. AllIn(y, VB, Low, Front) /\ NoneIn(y, VB, Front, Suffix) /\ NoneIn(y, VB, Seen, High)
    BY <2>0, <2>1, <2>2, <2>3 DEF AllIn, NoneIn
  <2>5. Kernel \in PrefixKernels =>
              Suffix = Low + off /\ \A q \in Front .. Suffix - 1 : y[q] = q
    BY <2>0, <2>2
  <2> QED
    BY <1>9, <1>12, <1>13, <2>4, <2>5 DEF Content
<1>18. Joining'
  BY <1>1, <1>3, <1>4, <1>9, <1>10, <1>12, <1>13 DEF Joining
<1>19. Offsets' /\ Progress' /\ Returned'
  BY <1>1, <1>11 DEF Offsets, Progress, Returned
<1> QED
  BY <1>5, <1>6, <1>14, <1>16, <1>17, <1>18, <1>19 DEF CIInv, FillInv

\* w is u with the runs of l cells at x and at y exchanged.
Exchanged(w, u, x, y, l) ==
    /\ w \in [Pos -> Pos]
    /\ \A p \in x .. x + l - 1 : w[p] = u[y + (p - x)]
    /\ \A p \in y .. y + l - 1 : w[p] = u[x + (p - y)]
    /\ \A p \in Pos : p \notin x .. x + l - 1 /\ p \notin y .. y + l - 1 => w[p] = u[p]

LEMMA SwapRangesExchanges ==
    ASSUME NEW u \in [Pos -> Pos], NEW x \in Int, NEW y \in Int, NEW l \in Int,
           \A p \in x .. x + l - 1 : p \in Pos, \A p \in y .. y + l - 1 : p \in Pos,
           \A p \in x .. x + l - 1 : p \notin y .. y + l - 1
    PROVE  Exchanged(SwapRanges(u, x, y, l), u, x, y, l)
<1> DEFINE w == SwapRanges(u, x, y, l)
<1>1. ASSUME NEW p \in Pos
      PROVE  /\ p \in x .. x + l - 1 => w[p] = u[y + (p - x)]
             /\ p \notin x .. x + l - 1 /\ p \in y .. y + l - 1 => w[p] = u[x + (p - y)]
             /\ p \notin x .. x + l - 1 /\ p \notin y .. y + l - 1 => w[p] = u[p]
  BY DEF SwapRanges
<1>2. w = [p \in Pos |-> w[p]]
  BY DEF SwapRanges
<1> HIDE DEF w
<1>3. ASSUME NEW p \in x .. x + l - 1 PROVE y + (p - x) \in Pos
  <2>1. y + (p - x) \in y .. y + l - 1
    OBVIOUS
  <2> QED
    BY <2>1
<1>4. ASSUME NEW p \in y .. y + l - 1 PROVE x + (p - y) \in Pos
  <2>1. x + (p - y) \in x .. x + l - 1
    OBVIOUS
  <2> QED
    BY <2>1
<1>5. ASSUME NEW p \in Pos PROVE w[p] \in Pos
  <2>1. CASE p \in x .. x + l - 1
    BY <1>1, <1>3, <2>1
  <2>2. CASE p \notin x .. x + l - 1 /\ p \in y .. y + l - 1
    BY <1>1, <1>4, <2>2
  <2>3. CASE p \notin x .. x + l - 1 /\ p \notin y .. y + l - 1
    BY <1>1, <2>3
  <2> QED
    BY <2>1, <2>2, <2>3
<1>6. w \in [Pos -> Pos]
  BY <1>2, <1>5
<1>7. ASSUME NEW p \in x .. x + l - 1 PROVE w[p] = u[y + (p - x)]
  BY <1>1
<1>8. ASSUME NEW p \in y .. y + l - 1 PROVE w[p] = u[x + (p - y)]
  <2>1. p \notin x .. x + l - 1 /\ p \in Pos
    OBVIOUS
  <2> QED
    BY <1>1, <2>1
<1> QED
  BY <1>1, <1>6, <1>7, <1>8 DEF Exchanged, w

\* Exchanging two runs of the memory exchanges two runs of the view.
LEMMA RenamedExchange ==
    ASSUME NEW t, NEW c, Mutual(t, c), NEW w \in [Pos -> Pos],
           NEW x \in Int, NEW y \in Int, NEW l \in Int, NEW f \in Int, NEW g \in Int,
           IsRun(t, x, x + l, f), IsRun(t, y, y + l, g), f + l <= g \/ g + l <= f
    PROVE  /\ Exchanged(Renamed(t, c, SwapRanges(w, x, y, l)), Renamed(t, c, w), f, g, l)
           /\ SwapRanges(w, x, y, l) \in [Pos -> Pos]
<1> DEFINE w2 == SwapRanges(w, x, y, l)
           r  == Renamed(t, c, w)
           r2 == Renamed(t, c, w2)
<1>1. ASSUME NEW p \in x .. x + l - 1 PROVE p \notin y .. y + l - 1
  <2> SUFFICES ASSUME p \in y .. y + l - 1 PROVE FALSE
    OBVIOUS
  <2>1. p \in x .. (x + l) - 1 /\ p \in y .. (y + l) - 1 /\ p \in Int /\ x <= p /\ p < x + l
        /\ y <= p /\ p < y + l
    OBVIOUS
  <2>2. t[p] = f + (p - x) /\ t[p] = g + (p - y)
    BY <2>1 DEF IsRun
  <2> QED
    BY <2>1, <2>2
<1>2. /\ \A p \in x .. x + l - 1 : p \in Pos
      /\ \A p \in y .. y + l - 1 : p \in Pos
  BY DEF IsRun
<1>3. Exchanged(w2, w, x, y, l)
  BY <1>1, <1>2, SwapRangesExchanges
<1> HIDE DEF w2
<1>4. /\ w2 \in [Pos -> Pos] /\ w \in [Pos -> Pos \cup {Hole}] /\ w2 \in [Pos -> Pos \cup {Hole}]
      /\ \A p \in Pos : w[p] \in Pos /\ w2[p] \in Pos /\ w[p] # Hole /\ w2[p] # Hole
  BY <1>3, HoleNotInPos DEF Exchanged
<1>5. ASSUME NEW q \in Pos
      PROVE  c[q] \in Pos /\ r[q] = t[w[c[q]]] /\ r2[q] = t[w2[c[q]]] /\ r2[q] \in Pos
  <2>1. c[q] \in Pos
    BY DEF Mutual
  <2> QED
    BY <1>4, <2>1, RenamedCells
<1>6. r2 = [q \in Pos |-> r2[q]]
  BY DEF Renamed
<1> HIDE DEF r, r2
<1>7. r2 \in [Pos -> Pos]
  BY <1>5, <1>6
<1>8. /\ \A q \in f .. f + l - 1 : q \in Pos /\ x + (q - f) \in x .. x + l - 1 /\ c[q] = x + (q - f)
      /\ \A q \in Pos : q \notin f .. f + l - 1 => c[q] \notin x .. x + l - 1
  <2>1. (x + l) - x = l /\ x + l \in Int
    OBVIOUS
  <2>2. /\ \A q \in f .. f + ((x + l) - x) - 1 :
                 q \in Pos /\ x + (q - f) \in x .. (x + l) - 1 /\ c[q] = x + (q - f)
        /\ \A q \in Pos : q \notin f .. f + ((x + l) - x) - 1
                 => c[q] \in Pos /\ c[q] \notin x .. (x + l) - 1
    BY <2>1, RunPlaces
  <2> QED
    BY <2>1, <2>2
<1>9. /\ \A q \in g .. g + l - 1 : q \in Pos /\ y + (q - g) \in y .. y + l - 1 /\ c[q] = y + (q - g)
      /\ \A q \in Pos : q \notin g .. g + l - 1 => c[q] \notin y .. y + l - 1
  <2>1. (y + l) - y = l /\ y + l \in Int
    OBVIOUS
  <2>2. /\ \A q \in g .. g + ((y + l) - y) - 1 :
                 q \in Pos /\ y + (q - g) \in y .. (y + l) - 1 /\ c[q] = y + (q - g)
        /\ \A q \in Pos : q \notin g .. g + ((y + l) - y) - 1
                 => c[q] \in Pos /\ c[q] \notin y .. (y + l) - 1
    BY <2>1, RunPlaces
  <2> QED
    BY <2>1, <2>2
<1>10. ASSUME NEW q \in f .. f + l - 1 PROVE r2[q] = r[g + (q - f)]
  <2>1. g + (q - f) \in g .. g + l - 1
    OBVIOUS
  <2>2. y + ((x + (q - f)) - x) = y + ((g + (q - f)) - g)
    OBVIOUS
  <2>3. q \in Pos /\ g + (q - f) \in Pos /\ c[g + (q - f)] = y + ((g + (q - f)) - g)
        /\ c[q] = x + (q - f) /\ x + (q - f) \in x .. x + l - 1
    BY <1>8, <1>9, <2>1
  <2>4. w2[c[q]] = w[y + ((x + (q - f)) - x)]
    BY <1>3, <2>3 DEF Exchanged
  <2> QED
    BY <1>5, <2>2, <2>3, <2>4
<1>11. ASSUME NEW q \in g .. g + l - 1 PROVE r2[q] = r[f + (q - g)]
  <2>1. f + (q - g) \in f .. f + l - 1
    OBVIOUS
  <2>2. x + ((y + (q - g)) - y) = x + ((f + (q - g)) - f)
    OBVIOUS
  <2>3. q \in Pos /\ f + (q - g) \in Pos /\ c[f + (q - g)] = x + ((f + (q - g)) - f)
        /\ c[q] = y + (q - g) /\ y + (q - g) \in y .. y + l - 1
    BY <1>8, <1>9, <2>1
  <2>4. w2[c[q]] = w[x + ((y + (q - g)) - y)]
    BY <1>3, <2>3 DEF Exchanged
  <2> QED
    BY <1>5, <2>2, <2>3, <2>4
<1>12. ASSUME NEW q \in Pos, q \notin f .. f + l - 1, q \notin g .. g + l - 1 PROVE r2[q] = r[q]
  <2>1. c[q] \in Pos /\ c[q] \notin x .. x + l - 1 /\ c[q] \notin y .. y + l - 1
    BY <1>5, <1>8, <1>9, <1>12
  <2>2. w2[c[q]] = w[c[q]]
    BY <1>3, <2>1 DEF Exchanged
  <2> QED
    BY <1>5, <2>2
<1> QED
  BY <1>4, <1>7, <1>10, <1>11, <1>12 DEF Exchanged, r, r2, w2

LEMMA ExchangedBack ==
    ASSUME NEW w, NEW u, NEW x, NEW y, NEW l, Exchanged(w, u, x, y, l)
    PROVE  Exchanged(w, u, y, x, l)
BY DEF Exchanged

LEMMA ExchangedTwice ==
    ASSUME NEW w, NEW u, NEW z, NEW x \in Int, NEW y \in Int, NEW l \in Int, NEW j \in Int,
           0 <= l, 0 <= j, 0 <= x, x + l + j <= y, y + l + j <= N,
           Exchanged(w, u, x, y, l), Exchanged(z, w, x + l, y + l, j)
    PROVE  Exchanged(z, u, x, y, l + j)
<1>0. N \in Nat /\ \A p : p \in Pos <=> p \in Int /\ 0 <= p /\ p < N
  BY NAssumption DEF Pos
<1>1. /\ \A p \in x .. x + l - 1 : w[p] = u[y + (p - x)]
      /\ \A p \in y .. y + l - 1 : w[p] = u[x + (p - y)]
      /\ \A p \in Pos : p \notin x .. x + l - 1 /\ p \notin y .. y + l - 1 => w[p] = u[p]
  BY DEF Exchanged
<1>2. /\ z \in [Pos -> Pos]
      /\ \A p \in x + l .. x + l + j - 1 : z[p] = w[y + l + (p - (x + l))]
      /\ \A p \in y + l .. y + l + j - 1 : z[p] = w[x + l + (p - (y + l))]
      /\ \A p \in Pos : p \notin x + l .. x + l + j - 1 /\ p \notin y + l .. y + l + j - 1
             => z[p] = w[p]
  BY DEF Exchanged
<1>3. ASSUME NEW p \in x .. x + (l + j) - 1 PROVE z[p] = u[y + (p - x)]
  <2>1. CASE p < x + l
    <3>1. p \in Pos /\ p \in x .. x + l - 1 /\ p \notin x + l .. x + l + j - 1
          /\ p \notin y + l .. y + l + j - 1
      BY <1>0, <2>1
    <3> QED
      BY <1>1, <1>2, <3>1
  <2>2. CASE p >= x + l
    <3>1. p \in x + l .. x + l + j - 1
      BY <2>2
    <3>2. z[p] = w[y + l + (p - (x + l))]
      BY <1>2, <3>1
    <3>3. y + l + (p - (x + l)) = y + (p - x)
      OBVIOUS
    <3>4. y + (p - x) \in Pos /\ y + (p - x) \notin x .. x + l - 1
          /\ y + (p - x) \notin y .. y + l - 1
      BY <1>0, <3>1
    <3> QED
      BY <1>1, <3>2, <3>3, <3>4
  <2> QED
    BY <2>1, <2>2
<1>4. ASSUME NEW p \in y .. y + (l + j) - 1 PROVE z[p] = u[x + (p - y)]
  <2>1. CASE p < y + l
    <3>1. p \in Pos /\ p \in y .. y + l - 1 /\ p \notin x + l .. x + l + j - 1
          /\ p \notin y + l .. y + l + j - 1
      BY <1>0, <2>1
    <3> QED
      BY <1>1, <1>2, <3>1
  <2>2. CASE p >= y + l
    <3>1. p \in y + l .. y + l + j - 1
      BY <2>2
    <3>2. z[p] = w[x + l + (p - (y + l))]
      BY <1>2, <3>1
    <3>3. x + l + (p - (y + l)) = x + (p - y)
      OBVIOUS
    <3>4. x + (p - y) \in Pos /\ x + (p - y) \notin x .. x + l - 1
          /\ x + (p - y) \notin y .. y + l - 1
      BY <1>0, <3>1
    <3> QED
      BY <1>1, <3>2, <3>3, <3>4
  <2> QED
    BY <2>1, <2>2
<1>5. ASSUME NEW p \in Pos, p \notin x .. x + (l + j) - 1, p \notin y .. y + (l + j) - 1
      PROVE  z[p] = u[p]
  <2>1. p \notin x .. x + l - 1 /\ p \notin y .. y + l - 1
        /\ p \notin x + l .. x + l + j - 1 /\ p \notin y + l .. y + l + j - 1
    BY <1>0, <1>5
  <2> QED
    BY <1>1, <1>2, <2>1
<1> QED
  BY <1>2, <1>3, <1>4, <1>5 DEF Exchanged

LEMMA ExchangedWhole ==
    ASSUME NEW u, IsArrangement(u), NEW w, NEW x \in Int, NEW y \in Int, NEW l \in Int,
           0 <= x, x + l <= y, y + l <= N, Exchanged(w, u, x, y, l)
    PROVE  IsArrangement(w)
<1> DEFINE E(p) == IF p \in x .. x + l - 1 THEN y + (p - x)
                   ELSE IF p \in y .. y + l - 1 THEN x + (p - y) ELSE p
<1>0. N \in Nat /\ \A p : p \in Pos <=> p \in Int /\ 0 <= p /\ p < N
  BY NAssumption DEF Pos
<1>1. ASSUME NEW p \in Pos PROVE E(p) \in Pos /\ w[p] = u[E(p)]
  <2>1. E(p) \in Pos
    BY <1>0
  <2>2. w[p] = u[E(p)]
    BY DEF Exchanged
  <2> QED
    BY <2>1, <2>2
<1>2. ASSUME NEW p \in Pos, NEW q \in Pos, E(p) = E(q) PROVE p = q
  BY <1>0, <1>2
<1> HIDE DEF E
<1>3. ASSUME NEW p \in Pos, NEW q \in Pos, w[p] = w[q] PROVE p = q
  <2>1. E(p) = E(q)
    BY <1>1, <1>3 DEF IsArrangement
  <2> QED
    BY <1>2, <2>1
<1> QED
  BY <1>3 DEF IsArrangement, Exchanged

LEMMA SubRun ==
    ASSUME NEW t, NEW a \in Int, NEW b \in Int, NEW f \in Int, IsRun(t, a, b, f),
           NEW d \in Int, NEW e \in Int, a <= d, e <= b
    PROVE  IsRun(t, d, e, f + (d - a))
<1> SUFFICES ASSUME NEW p \in d .. e - 1 PROVE p \in Pos /\ t[p] = f + (d - a) + (p - d)
  BY DEF IsRun
<1>1. p \in a .. b - 1
  OBVIOUS
<1>2. p \in Pos /\ t[p] = f + (p - a)
  BY <1>1 DEF IsRun
<1> QED
  BY <1>2

LEMMA EmptyRun ==
    ASSUME NEW t, NEW a \in Int, NEW b \in Int, b <= a, NEW f
    PROVE  IsRun(t, a, b, f)
BY DEF IsRun

\* The exchanges of two runs each, one after the other, in the view.
LEMMA TwoExchanges ==
    ASSUME NEW t, NEW c, Mutual(t, c), NEW w \in [Pos -> Pos],
           NEW x \in Int, NEW y \in Int, NEW l \in Int, NEW x2 \in Int, NEW y2 \in Int, NEW j \in Int,
           NEW f \in Int, NEW g \in Int, 0 <= l, 0 <= j, 0 <= f, f + l + j <= g, g + l + j <= N,
           NEW w1,
           \/ /\ w1 = SwapRanges(SwapRanges(w, x, y, l), x2, y2, j)
              /\ IsRun(t, x, x + l, f) /\ IsRun(t, y, y + l, g)
              /\ IsRun(t, x2, x2 + j, f + l) /\ IsRun(t, y2, y2 + j, g + l)
           \/ /\ w1 = SwapRanges(SwapRanges(w, x, y, l), x2, y2, j)
              /\ IsRun(t, x, x + l, g) /\ IsRun(t, y, y + l, f)
              /\ IsRun(t, x2, x2 + j, g + l) /\ IsRun(t, y2, y2 + j, f + l)
    PROVE  Exchanged(Renamed(t, c, w1), Renamed(t, c, w), f, g, l + j) /\ w1 \in [Pos -> Pos]
<1> DEFINE h == SwapRanges(w, x, y, l)
<1>0. /\ f + l \in Int /\ g + l \in Int /\ f + l <= g /\ (f + l) + j <= g + l
      /\ g + l + j <= N
  OBVIOUS
<1>1. w1 = SwapRanges(h, x2, y2, j)
  OBVIOUS
<1>2. CASE /\ IsRun(t, x, x + l, f) /\ IsRun(t, y, y + l, g)
           /\ IsRun(t, x2, x2 + j, f + l) /\ IsRun(t, y2, y2 + j, g + l)
  <2>1. Exchanged(Renamed(t, c, h), Renamed(t, c, w), f, g, l) /\ h \in [Pos -> Pos]
    BY <1>0, <1>2, RenamedExchange
  <2> HIDE DEF h
  <2>2. /\ Exchanged(Renamed(t, c, w1), Renamed(t, c, h), f + l, g + l, j)
        /\ w1 \in [Pos -> Pos]
    BY <1>0, <1>1, <1>2, <2>1, RenamedExchange
  <2> QED
    BY <1>0, <2>1, <2>2, ExchangedTwice
<1>3. CASE /\ IsRun(t, x, x + l, g) /\ IsRun(t, y, y + l, f)
           /\ IsRun(t, x2, x2 + j, g + l) /\ IsRun(t, y2, y2 + j, f + l)
  <2>1. Exchanged(Renamed(t, c, h), Renamed(t, c, w), g, f, l) /\ h \in [Pos -> Pos]
    BY <1>0, <1>3, RenamedExchange
  <2> HIDE DEF h
  <2>2. /\ Exchanged(Renamed(t, c, w1), Renamed(t, c, h), g + l, f + l, j)
        /\ w1 \in [Pos -> Pos]
    BY <1>0, <1>1, <1>3, <2>1, RenamedExchange
  <2>3. /\ Exchanged(Renamed(t, c, h), Renamed(t, c, w), f, g, l)
        /\ Exchanged(Renamed(t, c, w1), Renamed(t, c, h), f + l, g + l, j)
    BY <2>1, <2>2, ExchangedBack
  <2> QED
    BY <1>0, <2>2, <2>3, ExchangedTwice
<1> QED
  BY <1>2, <1>3

\* The slots that are left are runs of the view.
LEMMA SlotRuns ==
    ASSUME TypeOK, Called, Layout, InFill
    PROVE  /\ IsRun(TV, lo, loEnd, Base) /\ IsRun(TV, r2lo, r2end, Base + (loEnd - lo))
           /\ IsRun(TV, sfirst, last, Suffix)
<1>1. /\ sfirst \in Int /\ last \in Int /\ Suffix = High - (last - sfirst) /\ High \in Int
  BY FillNumbers
<1>2. ASSUME NEW p \in sfirst .. last - 1 PROVE p \in Pos /\ TV[p] = Suffix + (p - sfirst)
  <2>1. p \in Pos /\ TV[p] = High - (last - p)
    BY DEF Layout
  <2> QED
    BY <1>1, <2>1
<1> QED
  BY <1>2 DEF IsRun, Layout

\* What Joined does in the view: the last of the elements that go left are exchanged
\* with the first of the slots.
LEMMA JoinedView ==
    ASSUME TypeOK, Called, Layout, pc = "bridge", m \in sfirst .. slast,
           NEW w \in [Pos -> Pos], w = v,
           NEW y, y = Renamed(TV, FV, Joined),
           NEW c \in Int, c = m - sfirst, NEW s \in Int, s = Suffix - Front
    PROVE  /\ Joined \in [Pos -> Pos]
           /\ c <= s => Exchanged(y, Renamed(TV, FV, v), Front, Suffix, c)
           /\ c > s  => Exchanged(y, Renamed(TV, FV, v), Front, Suffix + (c - s), s)
<1>1. InFill /\ InRun = 0 /\ Mutual(TV, FV)
  BY ViewMutual DEF InFill, InRun
<1>2. /\ N \in Nat /\ sfirst \in Int /\ slast \in Int /\ last \in Int /\ m \in Int /\ Suffix \in Int
      /\ lo \in Int /\ loEnd \in Int /\ r2lo \in Int /\ r2end \in Int /\ Base \in Int
      /\ Front = Base /\ Front \in Int /\ 0 <= Front /\ High \in Int /\ High <= N
      /\ Suffix = High - (last - sfirst) /\ BlockSize \in Int /\ 0 <= BlockSize
  <2>1. /\ N \in Nat /\ sfirst \in Int /\ slast \in Int /\ last \in Int /\ Suffix \in Int
        /\ lo \in Int /\ loEnd \in Int /\ r2lo \in Int /\ r2end \in Int /\ Base \in Int
        /\ Front = Base + InRun /\ Front \in Int /\ High \in Int /\ High <= N
        /\ Suffix = High - (last - sfirst) /\ BlockSize \in Int /\ 0 <= BlockSize
        /\ 0 <= Low /\ Low \in Int /\ Low <= Base
    BY <1>1, FillNumbers
  <2> QED
    BY <1>1, <2>1
<1>3. /\ lo <= loEnd /\ r2lo <= r2end /\ Base + (loEnd - lo) + (r2end - r2lo) = Suffix
      /\ sfirst <= slast /\ slast <= last
  BY <1>1, <1>2 DEF Layout
<1>4. /\ IsRun(TV, lo, loEnd, Front) /\ IsRun(TV, r2lo, r2end, Front + (loEnd - lo))
      /\ IsRun(TV, sfirst, last, Suffix)
  BY <1>1, <1>2, SlotRuns
<1> DEFINE s1 == loEnd - lo
           s2 == r2end - r2lo
<1>5. /\ s1 \in Int /\ s2 \in Int /\ 0 <= s1 /\ 0 <= s2 /\ s = s1 + s2 /\ 0 <= c
      /\ Suffix + c <= N /\ sfirst + c <= last /\ m = sfirst + c /\ Front + s = Suffix
  BY <1>2, <1>3
<1>6. CASE c <= s
  <2> DEFINE k1 == Least(c, s1)
  <2>1. Joined = SwapRanges(SwapRanges(v, sfirst, lo, k1), sfirst + k1, r2lo, c - k1)
    BY <1>5, <1>6 DEF Joined
  <2>2. k1 \in Int /\ k1 <= c /\ k1 <= s1 /\ (k1 = c \/ k1 = s1)
    BY <1>5, LeastNumbers
  <2> HIDE DEF k1
  <2>3. 0 <= k1 /\ c - k1 \in Int /\ 0 <= c - k1 /\ (c - k1 > 0 => k1 = s1) /\ c - k1 <= s2
        /\ k1 + (c - k1) = c /\ Front + k1 + (c - k1) <= Suffix /\ Suffix + k1 + (c - k1) <= N
        /\ sfirst + k1 \in Int
    BY <1>2, <1>5, <1>6, <2>2
  <2>4. IsRun(TV, sfirst, sfirst + k1, Suffix)
    <3>1. IsRun(TV, sfirst, sfirst + k1, Suffix + (sfirst - sfirst))
      BY <1>2, <1>4, <1>5, <2>2, SubRun
    <3> QED
      BY <1>2, <3>1
  <2>5. IsRun(TV, sfirst + k1, sfirst + k1 + (c - k1), Suffix + k1)
    <3>1. sfirst + k1 + (c - k1) \in Int /\ sfirst + k1 + (c - k1) <= last /\ sfirst <= sfirst + k1
      BY <1>2, <1>5, <2>2, <2>3
    <3>2. IsRun(TV, sfirst + k1, sfirst + k1 + (c - k1), Suffix + ((sfirst + k1) - sfirst))
      BY <1>2, <1>4, <2>3, <3>1, SubRun
    <3> QED
      BY <1>2, <2>2, <3>2
  <2>6. IsRun(TV, lo, lo + k1, Front)
    <3>1. lo + k1 \in Int /\ lo + k1 <= loEnd
      BY <1>2, <1>5, <2>2
    <3>2. IsRun(TV, lo, lo + k1, Front + (lo - lo))
      BY <1>2, <1>4, <3>1, SubRun
    <3> QED
      BY <1>2, <3>2
  <2>7. IsRun(TV, r2lo, r2lo + (c - k1), Front + k1)
    <3>1. CASE c - k1 > 0
      <4>1. r2lo + (c - k1) \in Int /\ r2lo + (c - k1) <= r2end /\ k1 = loEnd - lo
            /\ Front + (loEnd - lo) \in Int
        BY <1>2, <1>5, <2>2, <2>3, <3>1
      <4>2. IsRun(TV, r2lo, r2lo + (c - k1), Front + (loEnd - lo) + (r2lo - r2lo))
        BY <1>2, <1>4, <4>1, SubRun
      <4>3. Front + (loEnd - lo) + (r2lo - r2lo) = Front + k1
        BY <1>2, <4>1
      <4> QED
        BY <4>2, <4>3
    <3>2. CASE c - k1 = 0
      <4>1. r2lo + (c - k1) \in Int /\ r2lo + (c - k1) <= r2lo
        BY <1>2, <2>3, <3>2
      <4> QED
        BY <1>2, <4>1, EmptyRun
    <3> QED
      BY <2>3, <3>1, <3>2
  <2>8. Exchanged(y, Renamed(TV, FV, v), Front, Suffix, k1 + (c - k1)) /\ Joined \in [Pos -> Pos]
    BY <1>1, <1>2, <2>1, <2>2, <2>3, <2>4, <2>5, <2>6, <2>7, TwoExchanges
  <2> QED
    BY <1>6, <2>3, <2>8
<1>7. CASE c > s
  <2> DEFINE G == Suffix + (c - s)
  <2>1. Joined = SwapRanges(SwapRanges(v, lo, m - (s1 + s2), s1), r2lo, m - s2, s2)
    BY <1>5, <1>7 DEF Joined
  <2>2. /\ m - (s1 + s2) \in Int /\ m - s2 \in Int /\ (m - (s1 + s2)) - sfirst = c - s
        /\ sfirst <= m - (s1 + s2) /\ (m - (s1 + s2)) + s1 <= last
        /\ sfirst <= m - s2 /\ (m - s2) + s2 <= last /\ (m - s2) - sfirst = (c - s) + s1
        /\ (m - (s1 + s2)) + s1 \in Int /\ (m - s2) + s2 \in Int
    BY <1>2, <1>5, <1>7
  <2>3. G \in Int /\ Front + s1 + s2 <= G /\ G + s1 + s2 <= N
    BY <1>2, <1>5, <1>7
  <2>4. IsRun(TV, m - (s1 + s2), (m - (s1 + s2)) + s1, G)
    <3>1. IsRun(TV, m - (s1 + s2), (m - (s1 + s2)) + s1, Suffix + ((m - (s1 + s2)) - sfirst))
      BY <1>2, <1>4, <2>2, SubRun
    <3> QED
      BY <2>2, <3>1
  <2>5. IsRun(TV, m - s2, (m - s2) + s2, G + s1)
    <3>1. IsRun(TV, m - s2, (m - s2) + s2, Suffix + ((m - s2) - sfirst))
      BY <1>2, <1>4, <2>2, SubRun
    <3>2. Suffix + ((m - s2) - sfirst) = G + s1
      BY <1>2, <1>5, <2>2
    <3> QED
      BY <3>1, <3>2
  <2>6. lo + s1 = loEnd /\ r2lo + s2 = r2end
    BY <1>2
  <2>7. IsRun(TV, lo, lo + s1, Front) /\ IsRun(TV, r2lo, r2lo + s2, Front + s1)
    BY <1>4, <2>6
  <2> HIDE DEF G, s1, s2
  <2>8. Exchanged(y, Renamed(TV, FV, v), Front, G, s1 + s2) /\ Joined \in [Pos -> Pos]
    BY <1>1, <1>2, <1>5, <2>1, <2>2, <2>3, <2>4, <2>5, <2>7, TwoExchanges
  <2> QED
    BY <1>5, <1>7, <2>8 DEF G
<1> QED
  BY <1>2, <1>6, <1>7

\* The places before f hold elements that go left, those from f to s slots, then come c
\* elements that go left and the rest: the exchange partitions the range.
LEMMA JoinedContent ==
    ASSUME NEW u, IsArrangement(u), NEW b, NEW l \in Int, NEW f \in Int, NEW s \in Int,
           NEW c \in Int, NEW h \in Int, 0 <= l, l <= f, f <= s, 0 <= c, s + c <= h, h <= N,
           SameOutside([p \in Pos |-> p], u, l, h),
           AllIn(u, b, l, f), NoneIn(u, b, f, s), AllIn(u, b, s, s + c), NoneIn(u, b, s + c, h),
           NEW w, NEW r \in Int, r = s - f, c <= r => Exchanged(w, u, f, s, c),
           c > r => Exchanged(w, u, f, s + (c - r), r)
    PROVE  /\ IsArrangement(w) /\ SameOutside([p \in Pos |-> p], w, l, h)
           /\ AllIn(w, b, l, f + c) /\ NoneIn(w, b, f + c, h)
           /\ \A q \in f + c .. s - 1 : w[q] = u[q]
<1>0. N \in Nat /\ \A p : p \in Pos <=> p \in Int /\ 0 <= p /\ p < N
  BY NAssumption DEF Pos
<1>1. PICK d \in Int, g \in Int :
            /\ Exchanged(w, u, f, g, d) /\ 0 <= d /\ f + d <= s /\ s <= g /\ g + d = s + c
            /\ (g = s \/ f + d = s) /\ d <= c
  <2>1. CASE c <= r
    <3>1. 0 <= c /\ f + c <= s /\ s <= s /\ s + c = s + c
      BY <2>1
    <3> QED
      BY <2>1, <3>1
  <2>2. CASE c > r
    <3>1. /\ s + (c - r) \in Int /\ 0 <= r /\ f + r <= s
          /\ s <= s + (c - r) /\ (s + (c - r)) + r = s + c
          /\ f + r = s /\ r <= c
      BY <2>2
    <3> QED
      BY <2>2, <3>1
  <2> QED
    BY <2>1, <2>2
<1>2. /\ w \in [Pos -> Pos]
      /\ \A p \in f .. f + d - 1 : w[p] = u[g + (p - f)]
      /\ \A p \in g .. g + d - 1 : w[p] = u[f + (p - g)]
      /\ \A p \in Pos : p \notin f .. f + d - 1 /\ p \notin g .. g + d - 1 => w[p] = u[p]
  BY <1>1 DEF Exchanged
<1>3. IsArrangement(w)
  <2>1. f + d <= g /\ g + d <= N /\ 0 <= f
    BY <1>0, <1>1
  <2> QED
    BY <1>1, <2>1, ExchangedWhole
<1>4. SameOutside([p \in Pos |-> p], w, l, h)
  <2> SUFFICES ASSUME NEW p \in Pos, p \notin l .. h - 1 PROVE p = w[p]
    BY DEF SameOutside
  <2>1. p \notin f .. f + d - 1 /\ p \notin g .. g + d - 1
    BY <1>0, <1>1
  <2>2. u[p] = p
    BY DEF SameOutside
  <2> QED
    BY <1>2, <2>1, <2>2
<1>5. ASSUME NEW q \in l .. f + c - 1 PROVE w[q] \in b
  <2>1. CASE q \in f .. f + d - 1
    <3>1. g + (q - f) \in s .. s + c - 1
      BY <1>1, <2>1
    <3> QED
      BY <1>2, <2>1, <3>1 DEF AllIn
  <2>2. CASE q \notin f .. f + d - 1
    <3>1. q \in Pos /\ q \notin g .. g + d - 1
      BY <1>0, <1>1, <2>2
    <3>2. q \in l .. f - 1 \/ q \in s .. s + c - 1
      BY <1>1, <2>2
    <3>3. u[q] \in b
      BY <3>2 DEF AllIn
    <3> QED
      BY <1>2, <2>2, <3>1, <3>3
  <2> QED
    BY <2>1, <2>2
<1>6. ASSUME NEW q \in f + c .. h - 1 PROVE w[q] \notin b
  <2>1. CASE q \in g .. g + d - 1
    <3>1. f + (q - g) \in f .. s - 1
      BY <1>1, <2>1
    <3> QED
      BY <1>2, <2>1, <3>1 DEF NoneIn
  <2>2. CASE q \notin g .. g + d - 1
    <3>1. q \in Pos /\ q \notin f .. f + d - 1
      BY <1>0, <1>1, <2>2
    <3>2. q \in f .. s - 1 \/ q \in s + c .. h - 1
      BY <1>1, <2>2
    <3>3. u[q] \notin b
      BY <3>2 DEF NoneIn
    <3> QED
      BY <1>2, <2>2, <3>1, <3>3
  <2> QED
    BY <2>1, <2>2
<1>7. ASSUME NEW q \in f + c .. s - 1 PROVE w[q] = u[q]
  <2>1. q \in Pos /\ q \notin f .. f + d - 1 /\ q \notin g .. g + d - 1
    BY <1>0, <1>1
  <2> QED
    BY <1>2, <2>1
<1> QED
  BY <1>3, <1>4, <1>5, <1>6, <1>7 DEF AllIn, NoneIn

LEMMA CBridge == ASSUME CIInv, Bridge, FillFrame PROVE CIInv'
<1>1. /\ pc = "bridge" /\ pc' = "return" /\ k' = k /\ run' = run /\ tmp' = tmp /\ at' = at
      /\ cnt' = cnt /\ lo' = lo /\ loEnd' = loEnd /\ r2lo' = r2lo /\ r2end' = r2end
      /\ slotsRem' = slotsRem /\ m' = m
      /\ c1' = c1 /\ offR' = offR /\ numR' = numR /\ sfirst' = sfirst
      /\ slast' = slast /\ call' = call /\ below' = below /\ fused' = fused
      /\ pi' = pi /\ pj' = pj /\ chunk' = chunk /\ ret' = ret
      /\ v' = Joined
  BY DEF Bridge, slots, buf, piece, FillFrame, gapVars
<1>f. found' = found + (m - sfirst)
  BY DEF Bridge
<1>0. /\ TypeOK /\ Called /\ Whole /\ Layout /\ Content /\ Joining
      /\ InFill /\ tmp = Hole /\ Restored = v
  <2>1. /\ TypeOK /\ Called /\ Whole /\ Layout /\ Content /\ Joining
    BY DEF CIInv, FillInv
  <2> QED
    BY <1>1, <2>1 DEF Called, InGap, InFill, Restored
<1>2. Settled = 0 /\ InRun = 0 /\ BlockSize = 0
  BY <1>1 DEF Settled, InRun, BlockSize
<1>3. /\ N \in Nat /\ sfirst \in Int /\ slast \in Int /\ Suffix \in Int /\ Front \in Int
      /\ Seen \in Int /\ High \in Int /\ Low \in Int /\ Low <= Front /\ Front <= Suffix
      /\ Suffix <= Seen /\ Seen <= High /\ 0 <= Low /\ High <= N /\ c1 \in Int /\ found \in Int
      /\ 0 <= c1 /\ 0 <= found /\ Front = Low + c1 + found /\ BlockEnd = Seen /\ off \in Int
  <2>1. /\ N \in Nat /\ sfirst \in Int /\ slast \in Int /\ Suffix \in Int /\ Front \in Int
        /\ Seen \in Int /\ High \in Int /\ Low \in Int /\ Low <= Base /\ Base <= Front
        /\ Front <= Suffix /\ Suffix <= Seen /\ Seen + BlockSize <= High
        /\ 0 <= Low /\ High <= N /\ c1 \in Int /\ found \in Int /\ off \in Int
        /\ 0 <= c1 /\ 0 <= found /\ Base = Low + c1 + found + Settled /\ Front = Base + InRun
        /\ BlockEnd = Seen + BlockSize
    BY <1>0, FillNumbers
  <2> QED
    BY <1>2, <2>1
<1>4. PICK c \in Int : c = m - sfirst /\ 0 <= c /\ Suffix + c <= Seen
  <2>1. m \in sfirst .. slast
    BY <1>0, <1>1 DEF Joining
  <2>2. Suffix + (slast - sfirst) = Seen
    BY <1>0, SuffixRun
  <2>3. m - sfirst \in Int /\ 0 <= m - sfirst /\ Suffix + (m - sfirst) <= Seen
    BY <1>3, <2>1, <2>2
  <2> QED
    BY <2>3
<1>5. /\ AllIn(U, VB, Low, Front) /\ NoneIn(U, VB, Front, Suffix)
      /\ AllIn(U, VB, Suffix, Suffix + c) /\ NoneIn(U, VB, Suffix + c, High)
  <2>1. /\ AllIn(U, VB, Low, Front) /\ NoneIn(U, VB, Front, Suffix) /\ NoneIn(U, VB, Seen, High)
    BY <1>0, <1>3 DEF Content
  <2>2. /\ AllIn(U, VB, Suffix, Suffix + c) /\ NoneIn(U, VB, Suffix + c, Seen)
    BY <1>0, <1>1, <1>4 DEF Joining
  <2>3. \A q \in Suffix + c .. High - 1 : q \in Suffix + c .. Seen - 1 \/ q \in Seen .. High - 1
    BY <1>3, <1>4
  <2>4. NoneIn(U, VB, Suffix + c, High)
    BY <2>1, <2>2, <2>3 DEF NoneIn
  <2> QED
    BY <2>1, <2>2, <2>4
<1>6. U = Renamed(TV, FV, v) /\ IsArrangement(v) /\ IsArrangement(U) /\ v \in [Pos -> Pos]
      /\ SameOutside([p \in Pos |-> p], U, Low, High)
  BY <1>0, ViewState, MemoryWhole DEF Whole, IsArrangement
<1>7. PICK y : y = Renamed(TV, FV, Joined)
  OBVIOUS
<1>8. PICK s \in Int : s = Suffix - Front
  BY <1>3
<1>9. /\ Joined \in [Pos -> Pos]
      /\ c <= s => Exchanged(y, U, Front, Suffix, c)
      /\ c > s  => Exchanged(y, U, Front, Suffix + (c - s), s)
  <2>1. m \in sfirst .. slast
    BY <1>0, <1>1 DEF Joining
  <2> QED
    BY <1>0, <1>1, <1>4, <1>6, <1>7, <1>8, <2>1, JoinedView
<1>10. /\ IsArrangement(y) /\ SameOutside([p \in Pos |-> p], y, Low, High)
       /\ AllIn(y, VB, Low, Front + c) /\ NoneIn(y, VB, Front + c, High)
       /\ \A q \in Front + c .. Suffix - 1 : y[q] = U[q]
  <2>1. Suffix + c <= High
    BY <1>3, <1>4
  <2>2. /\ Low \in Int /\ Front \in Int /\ Suffix \in Int /\ c \in Int /\ High \in Int
        /\ s \in Int /\ 0 <= Low /\ Low <= Front /\ Front <= Suffix /\ 0 <= c
        /\ Suffix + c <= High /\ High <= N /\ s = Suffix - Front
    BY <1>3, <1>4, <1>8, <2>1
  <2>3. /\ IsArrangement(U) /\ SameOutside([p \in Pos |-> p], U, Low, High)
    BY <1>6
  <2>4. /\ c <= s => Exchanged(y, U, Front, Suffix, c)
        /\ c > s  => Exchanged(y, U, Front, Suffix + (c - s), s)
    BY <1>9
  <2> QED
    BY ONLY <1>5, <2>2, <2>3, <2>4, JoinedContent
<1>11. TypeOK'
  <2>1. v' \in [Pos -> Pos \cup {Hole}]
    BY <1>1, <1>9
  <2>2. found' \in 0 .. N
    BY <1>3, <1>4, <1>f
  <2> QED
    BY <1>0, <1>1, <2>1, <2>2 DEF TypeOK
<1>12. Called' /\ Travel' /\ GP!GapIInv'
  BY <1>0, <1>1, FillCalled DEF InFill, FillFrame, gapVars
<1>13. /\ TV' = TV /\ FV' = FV /\ VB' = VB /\ Low' = Low /\ High' = High /\ off' = off
       /\ Kernel' = Kernel
  BY <1>1, ViewFixed
<1>14. U' = y
  <2>1. (TypeOK /\ Called
              => Restored \in [Pos -> Pos \cup {Hole}] /\ U = Renamed(TV, FV, Restored))'
    BY ViewStateNext, PTL
  <2>2. Restored' = Joined
    BY <1>1 DEF Restored
  <2> QED
    BY <1>7, <1>11, <1>12, <1>13, <2>1, <2>2 DEF Renamed
<1>15. Whole'
  BY <1>10, <1>13, <1>14 DEF Whole
<1>16. Low' + Count' = Front + c
  <2>1. Count' = c1 + (found + c)
    BY <1>1, <1>4, <1>f DEF Count
  <2> QED
    BY <1>3, <1>13, <2>1
<1>17. Returned'
  <2>1. Partitioned(y, VB, Low, Front + c, High)
    BY <1>3, <1>4, <1>10 DEF Partitioned
  <2>2. Kernel \in PrefixKernels => \A q \in Front + c .. Low + off - 1 : y[q] = q
    <3>1. Kernel \in PrefixKernels =>
              Suffix = Low + off /\ \A q \in Front .. Suffix - 1 : U[q] = q
      BY <1>0 DEF Content
    <3>2. ASSUME Kernel \in PrefixKernels, NEW q \in Front + c .. Low + off - 1 PROVE y[q] = q
      <4>1. q \in Front + c .. Suffix - 1 /\ q \in Front .. Suffix - 1
        BY <1>3, <1>4, <3>1, <3>2
      <4> QED
        BY <1>10, <3>1, <3>2, <4>1
    <3> QED
      BY <3>2
  <2> QED
    BY <1>13, <1>14, <1>16, <2>1, <2>2 DEF Returned
<1>18. Layout' /\ Content' /\ Offsets' /\ Progress' /\ Joining'
  BY <1>1 DEF InFill, InBlock, Layout, Content, Offsets, Progress, Joining
<1> QED
  BY <1>11, <1>12, <1>15, <1>17, <1>18 DEF CIInv, FillInv
-----------------------------------------------------------------------------
(***************************************************************************)
(* The dispatch.                                                           *)
(***************************************************************************)
\* What the dispatcher has tested when it picks a kernel.
LEMMA KernelMeans ==
    ASSUME Called
    PROVE  /\ Kernel = "flat" => ~Wraps \/ last = bufBegin
           /\ Kernel = "empty" => n - off <= 0
           /\ Kernel \in {"seg_bridge", "seg_fill", "off_w1_seg", "off_w1_fill", "off_w2_fill",
                          "off_w2_seg", "gap"} => Wraps
           /\ Kernel = "off_w2_fill" => ~ (off <= len1)
           /\ Kernel = "off_w2_seg" => off >= len1
           /\ Kernel \in {"prefix_fill", "part_swap"} => ~Wraps
           /\ Kernel = "gap" => bufBegin < last /\ off < n
<1>1. /\ call \in Calls /\ off \in Int /\ n \in Int /\ last \in Int /\ bufBegin \in Int
      /\ bufBegin <= last /\ len1 \in Int /\ (Wraps => 0 < n)
      /\ last = call.last /\ off = call.off /\ bufBegin = call.bufBegin /\ first = call.first
      /\ bufEnd = call.bufEnd /\ first \in Int
  <2>1. call \in Calls
    BY DEF Called
  <2>2. first \in Int /\ bufEnd \in Int
    BY CallNumbers
  <2>3. Wraps => n = (bufEnd - first) + (last - bufBegin) /\ first < bufEnd /\ bufBegin <= last
    BY CallNumbers
  <2> QED
    BY <2>1, <2>2, <2>3, CallNumbers DEF len1, last, off, bufBegin, first, bufEnd
<1>2. /\ call.form \in {"cyclic", "cyclic_offset", "off_w2_seg", "prefix_fill", "part_swap"}
      /\ call.form = "cyclic" => off = 0
      /\ call.form \in {"prefix_fill", "part_swap"} => ~Wraps
      /\ call.form = "off_w2_seg" => Wraps /\ off >= len1
  BY <1>1 DEF Calls, Wraps, len1
<1>3. PlainKernel \in {"gap", "seg_bridge", "seg_fill"}
  BY DEF PlainKernel
<1>4. /\ OffsetKernel \in {"empty", "gap", "off_w1_seg", "off_w1_fill", "off_w2_fill"}
      /\ OffsetKernel = "empty" => n - off <= 0
      /\ OffsetKernel = "gap" => n - off > 0
      /\ OffsetKernel = "off_w2_fill" => n - off <= 0 \/ ~ (off <= len1) \/ ~ (n - off > OffGapMax)
  BY DEF OffsetKernel
<1>5. OffsetKernel = "off_w2_fill" => ~ (off <= len1)
  <2>1. OffGapMax \in Int
    BY TuningAssumption DEF OffGapMax
  <2> QED
    BY <1>1, <2>1 DEF OffsetKernel
<1>6. CASE call.form \in {"prefix_fill", "part_swap", "off_w2_seg"}
  <2>1. Kernel = call.form
    BY <1>6 DEF Kernel
  <2> QED
    BY <1>2, <1>6, <2>1
<1>7. CASE call.form \in {"cyclic", "cyclic_offset"}
  <2>1. call.form \notin {"prefix_fill", "part_swap", "off_w2_seg"}
    BY <1>7
  <2>2. CASE ~Wraps \/ last = bufBegin
    <3>1. Kernel = "flat"
      BY <2>1, <2>2 DEF Kernel
    <3> QED
      BY <2>2, <3>1
  <2>3. CASE Wraps /\ last # bufBegin /\ call.form = "cyclic"
    <3>1. Kernel = PlainKernel /\ off = 0 /\ 0 < n
      BY <1>1, <1>2, <2>1, <2>3 DEF Kernel
    <3>2. bufBegin < last /\ off < n
      BY <1>1, <2>3, <3>1
    <3> QED
      BY <1>3, <2>3, <3>1, <3>2
  <2>4. CASE Wraps /\ last # bufBegin /\ call.form = "cyclic_offset"
    <3>1. Kernel = OffsetKernel
      BY <2>1, <2>4 DEF Kernel
    <3>2. OffsetKernel = "gap" => bufBegin < last /\ off < n
      BY <1>1, <1>4, <2>4
    <3> QED
      BY <1>4, <1>5, <2>4, <3>1, <3>2
  <2> QED
    BY <1>7, <2>2, <2>3, <2>4
<1> QED
  BY <1>2, <1>6, <1>7

LEMMA FirstPlace == ASSUME Called PROVE ToView(first) = Low
<1>1. CASE Wraps
  <2>1. first \in bufBegin .. bufEnd - 1 /\ first >= first /\ Low = bufBegin
    BY <1>1, CallNumbers
  <2>2. first \in Int /\ bufBegin \in Int
    BY CallNumbers
  <2>3. ToView(first) = bufBegin + (first - first)
    BY <1>1, <2>1 DEF ToView
  <2> QED
    BY <2>1, <2>2, <2>3
<1>2. CASE ~Wraps
  BY <1>2, CallNumbers DEF ToView
<1> QED
  BY <1>1, <1>2

\* A step of a call that the gap method does not serve leaves that method alone.
LEMMA OtherCalled ==
    ASSUME CIInv, ~GapCall, pc \in {"dispatch", "return", "done"}, call' = call, below' = below,
           UNCHANGED gapVars, pc' # "dispatch", ~InGap', pc' # "rotate", tmp' = Hole,
           InFill' \/ pc' = "return" => Kernel \in FillKernels
    PROVE  Called' /\ Travel' /\ GP!GapIInv'
<1>1. /\ call \in Calls /\ below \in SUBSET Pos
      /\ NoneIn([p \in Pos |-> p], VB, Low, Low + off) /\ pi = first /\ pj = first /\ Called
  BY DEF CIInv, Called
<1>2. /\ VB' = VB /\ Low' = Low /\ off' = off /\ Kernel' = Kernel /\ first' = first
      /\ (GapCall' <=> GapCall) /\ High' = High /\ \A p : ToView(p)' = ToView(p)
      /\ pi' = pi /\ pj' = pj
  BY ViewFixed DEF gapVars
<1>3. Called'
  BY <1>1, <1>2 DEF Called
<1>4. Travel'
  BY DEF Travel
<1>5. UNCHANGED GP!G!vars
  <2>1. ToView(pj) = ViewFirst /\ ToView(pj)' = ToView(pj)
    <3>1. ToView(pj) = ViewFirst
      BY <1>1, FirstPlace DEF Low
    <3>2. ToView(pj)' = ToView(pj)
      BY <1>2 DEF ToView, Wraps, first, last, bufBegin, bufEnd, len1
    <3> QED
      BY <3>1, <3>2
  <2>2. ToView(pi)' = ToView(pi)
    BY <1>2 DEF ToView, Wraps, first, last, bufBegin, bufEnd, len1
  <2> QED
    BY <1>2, <2>1, <2>2 DEF GP!G!vars, VB, Low, High
<1>6. GP!GapIInv'
  BY <1>5, NAssumption, GP!GapIInvStep DEF GP!NAssumption, CIInv
<1> QED
  BY <1>3, <1>4, <1>6

\* Before the dispatch nothing has moved, in the view either.
LEMMA Unmoved ==
    ASSUME TypeOK, Called, pc = "dispatch"
    PROVE  /\ Restored = v /\ v = [p \in Pos |-> p] /\ IsArrangement(v) /\ U = Renamed(TV, FV, v)
           /\ tmp = Hole /\ c1 = 0 /\ found = 0 /\ ret = 0
           /\ U \in [Pos -> Pos] /\ \A q \in Pos : U[q] = q
           /\ \A q \in Low .. Low + off - 1 : U[q] = q /\ U[q] \notin VB
<1>1. Restored = v /\ v = [p \in Pos |-> p] /\ tmp = Hole /\ c1 = 0 /\ found = 0 /\ ret = 0
  BY DEF Restored, Called, InGap
<1>2. IsArrangement(v)
  BY <1>1 DEF IsArrangement
<1>3. U = Renamed(TV, FV, v) /\ Mutual(TV, FV) /\ v \in [Pos -> Pos \cup {Hole}]
  BY <1>1, ViewState
<1>4. ASSUME NEW q \in Pos PROVE U[q] = q
  <2>1. FV[q] \in Pos /\ TV[FV[q]] = q
    BY <1>3 DEF Mutual
  <2>2. v[FV[q]] = FV[q] /\ v[FV[q]] # Hole
    BY <1>1, <2>1, HoleNotInPos
  <2> QED
    BY <1>3, <2>1, <2>2, RenamedCells
<1>5. U = [q \in Pos |-> U[q]]
  BY <1>3 DEF Renamed
<1>6. ASSUME NEW q \in Low .. Low + off - 1 PROVE U[q] = q /\ U[q] \notin VB
  <2>1. q \in Pos
    BY CallNumbers DEF Pos
  <2>2. q \notin VB
    <3>1. PICK w : w = [p \in Pos |-> p]
      OBVIOUS
    <3>2. NoneIn(w, VB, Low, Low + off) /\ w[q] = q
      BY <2>1, <3>1 DEF Called
    <3>3. \A i \in Low .. Low + off - 1 : w[i] \notin VB
      BY <3>2, CallNumbers DEF NoneIn
    <3>4. w[q] \notin VB
      BY <3>3
    <3> QED
      BY <3>2, <3>4
  <2> QED
    BY <1>4, <2>1, <2>2
<1> QED
  BY <1>1, <1>2, <1>3, <1>4, <1>5, <1>6

\* The fill is entered with the slots [a1, a2) and [b1, b2) and the suffix that
\* starts at cell sf.
EnteredAt(a1, a2, b1, b2, sf) ==
    /\ lo' = a1 /\ loEnd' = a2 /\ r2lo' = b1 /\ r2end' = b2
    /\ slotsRem' = (a2 - a1) + (b2 - b1)
    /\ sfirst' = sf /\ slast' = last
    /\ fused' \in BOOLEAN
    /\ pc' = "loop"
    /\ UNCHANGED <<found, buf, piece, k, m, below, tmp, call, gapVars, ret>>

\* The slots are next to each other in the view, from place f to the suffix at
\* place s.
SlotsJoin(a1, a2, b1, b2, sf, f, s) ==
    /\ IsRun(TV, a1, a2, f) /\ IsRun(TV, b1, b2, f + (a2 - a1)) /\ IsRun(TV, sf, last, s)
    /\ f + (a2 - a1) + (b2 - b1) = s
    /\ s = High - (last - sf)
    /\ a1 <= a2 /\ b1 <= b2 /\ sf <= last
    /\ a1 = a2 => b1 = b2

LEMMA FillEntered ==
    ASSUME CIInv, pc = "dispatch", Kernel \in FillKernels,
           NEW a1 \in 0 .. N, NEW a2 \in 0 .. N, NEW b1 \in 0 .. N, NEW b2 \in 0 .. N,
           NEW sf \in 0 .. N, NEW f \in Int, NEW s \in Int,
           EnteredAt(a1, a2, b1, b2, sf), SlotsJoin(a1, a2, b1, b2, sf, f, s),
           NEW c \in 0 .. N, c1' = c, f = Low + c, NEW w \in [Pos -> Pos], w = v',
           NEW y, y = Renamed(TV, FV, w), IsArrangement(y),
           SameOutside([p \in Pos |-> p], y, Low, High),
           AllIn(y, VB, Low, f), NoneIn(y, VB, f, s),
           Kernel \in PrefixKernels => s = Low + off /\ \A q \in f .. s - 1 : y[q] = q
    PROVE  CIInv'
<1>1. /\ lo' = a1 /\ loEnd' = a2 /\ r2lo' = b1 /\ r2end' = b2 /\ sfirst' = sf /\ slast' = last
      /\ pc' = "loop" /\ found' = found /\ offR' = offR /\ numR' = numR /\ run' = run
      /\ at' = at /\ cnt' = cnt /\ k' = k /\ m' = m /\ below' = below /\ tmp' = tmp /\ call' = call
      /\ pi' = pi /\ pj' = pj /\ chunk' = chunk /\ ret' = ret /\ fused' \in BOOLEAN
  BY DEF EnteredAt, buf, piece, gapVars
<1>2. slotsRem' = (a2 - a1) + (b2 - b1)
  BY DEF EnteredAt
<1>0. TypeOK /\ Called /\ tmp = Hole /\ found = 0 /\ ~GapCall
  BY Unmoved DEF CIInv, GapCall, FillKernels
<1>3. /\ TV' = TV /\ FV' = FV /\ VB' = VB /\ Low' = Low /\ High' = High /\ off' = off
      /\ Kernel' = Kernel /\ last' = last
  BY <1>1, ViewFixed
<1>n. /\ N \in Nat /\ Low \in Int /\ High \in Int /\ last \in Int /\ 0 <= Low /\ High <= N
      /\ last <= N /\ off \in Int /\ 0 <= last
  <2>1. /\ N \in Nat /\ Low \in Int /\ High \in Int /\ last \in Int /\ off \in Int
        /\ bufBegin \in Int /\ bufEnd \in Int
    BY <1>0, CallNumbers
  <2>2. /\ 0 <= bufBegin /\ bufBegin <= last /\ last <= bufEnd /\ bufEnd <= N
        /\ bufBegin <= Low /\ High <= bufEnd
    BY <1>0, CallNumbers
  <2> QED
    BY <2>1, <2>2
<1>4. /\ f + (a2 - a1) + (b2 - b1) = s /\ s = High - (last - sf)
      /\ a1 <= a2 /\ b1 <= b2 /\ sf <= last /\ (a1 = a2 => b1 = b2)
  BY DEF SlotsJoin
<1>5. TypeOK'
  <2>1. (a2 - a1) + (b2 - b1) \in 0 .. N
    <3>1. Low <= f
      BY <1>n
    <3> QED
      BY <1>n, <1>4, <3>1
  <2>2. v' \in [Pos -> Pos \cup {Hole}]
    OBVIOUS
  <2>3. last \in 0 .. N
    BY <1>n
  <2> QED
    BY <1>0, <1>1, <1>2, <2>1, <2>2, <2>3 DEF TypeOK
<1>6. InFill' /\ ~InBlock' /\ ~InGap' /\ Settled' = 0 /\ InRun' = 0 /\ BlockSize' = 0
  BY <1>1 DEF InFill, InBlock, InGap, Settled, InRun, BlockSize
<1>7. Called' /\ Travel' /\ GP!GapIInv'
  BY <1>0, <1>1, <1>6, OtherCalled DEF gapVars
<1>8. U' = y
  <2>1. (TypeOK /\ Called
              => Restored \in [Pos -> Pos \cup {Hole}] /\ U = Renamed(TV, FV, Restored))'
    BY ViewStateNext, PTL
  <2>2. Restored' = w
    BY <1>1 DEF Restored
  <2> QED
    BY <1>3, <1>5, <1>7, <2>1, <2>2 DEF Renamed
<1>9. Base' = f /\ Front' = f /\ Suffix' = s /\ Seen' = High /\ BlockEnd' = High
  <2>1. Base' = Low + c + 0 + 0
    BY <1>0, <1>1, <1>3, <1>6 DEF Base
  <2>2. Base' = f
    BY <1>n, <2>1
  <2>3. Front' = Base' + 0 /\ BlockEnd' = Seen' + 0 /\ Seen' = High - (last - last)
    BY <1>1, <1>3, <1>6 DEF Front, BlockEnd, Seen
  <2>4. Suffix' = s
    BY <1>1, <1>3, <1>4 DEF Suffix
  <2> QED
    BY <1>n, <2>2, <2>3, <2>4
<1>10. Whole'
  BY <1>3, <1>8 DEF Whole
<1>11. Layout'
  <2>1. /\ \A p \in a1 .. a2 - 1 : p \in Pos /\ TV[p] = f + (p - a1)
        /\ \A p \in b1 .. b2 - 1 : p \in Pos /\ TV[p] = f + (a2 - a1) + (p - b1)
    BY DEF SlotsJoin, IsRun
  <2>2. ASSUME NEW p \in sf .. last - 1 PROVE p \in Pos /\ TV[p] = High - (last - p)
    <3>1. p \in Pos /\ TV[p] = s + (p - sf)
      BY DEF SlotsJoin, IsRun
    <3> QED
      BY <1>n, <1>4, <3>1
  <2>3. (a2 - a1) + (b2 - b1) = s - (Low + c + 0)
    BY <1>n, <1>4
  <2>4. 0 <= a2 - a1 /\ last + 0 <= last
    BY <1>n, <1>4
  <2> QED
    BY <1>0, <1>1, <1>2, <1>3, <1>4, <1>6, <1>9, <2>1, <2>2, <2>3, <2>4 DEF Layout
<1>12. Content'
  <2>1. NoneIn(y, VB, High, High)
    BY <1>n DEF NoneIn
  <2> QED
    BY <1>3, <1>8, <1>9, <2>1 DEF Content
<1>13. Offsets' /\ Progress' /\ Joining' /\ Returned'
  BY <1>1, <1>6 DEF Offsets, Progress, Joining, Returned
<1> QED
  BY <1>5, <1>7, <1>10, <1>11, <1>12, <1>13 DEF CIInv, FillInv

\* In the runs of a call: the segments of a wrapped range, and what a flat range
\* consists of.
LEMMA SegmentRuns ==
    ASSUME Called
    PROVE  /\ Wraps => IsRun(TV, first, bufEnd, Low) /\ IsRun(TV, bufBegin, last, Low + len1)
           /\ ~Wraps => IsRun(TV, first, last, Low)
<1>1. /\ N \in Nat /\ first \in Int /\ last \in Int /\ bufBegin \in Int /\ bufEnd \in Int
      /\ Low \in Int /\ High \in Int /\ n \in Int /\ High = Low + n /\ len1 = bufEnd - first
      /\ 0 <= bufBegin /\ bufBegin <= first /\ bufEnd <= N /\ last <= bufEnd
      /\ Wraps => n = (bufEnd - first) + (last - bufBegin)
      /\ ~Wraps => Low = first
  BY CallNumbers DEF len1
<1>2. /\ Wraps => \A p \in first .. bufEnd - 1 : p \in Pos /\ TV[p] = Low + (p - first)
      /\ Wraps => \A p \in bufBegin .. last - 1 : p \in Pos /\ TV[p] = High - (last - p)
      /\ ~Wraps => \A p \in Pos : TV[p] = p
  BY ViewRuns
<1>3. ASSUME Wraps, NEW p \in bufBegin .. last - 1
      PROVE  p \in Pos /\ TV[p] = Low + len1 + (p - bufBegin)
  <2>1. p \in Pos /\ TV[p] = High - (last - p)
    BY <1>2, <1>3
  <2> QED
    BY <1>1, <1>3, <2>1
<1>4. ASSUME ~Wraps, NEW p \in first .. last - 1 PROVE p \in Pos /\ TV[p] = Low + (p - first)
  <2>1. p \in Pos
    BY <1>1 DEF Pos
  <2> QED
    BY <1>1, <1>2, <1>4, <2>1
<1> QED
  BY <1>2, <1>3, <1>4 DEF IsRun

LEMMA OneRunSlots ==
    ASSUME NEW x \in Int, NEW y \in Int
    PROVE  OneRun(x, y).lo = x /\ OneRun(x, y).loEnd = y
           /\ OneRun(x, y).r2lo = y /\ OneRun(x, y).r2end = y
BY DEF OneRun, SlotsFrom

\* Segment one is partitioned: its elements that go left stay, the others are slots.
LEMMA CSegmentOne == ASSUME CIInv, SegmentOne PROVE CIInv'
<1>1. /\ pc = "dispatch" /\ Kernel \in {"seg_bridge", "seg_fill", "off_w1_seg", "off_w1_fill"}
      /\ UNCHANGED <<below, tmp, call, gapVars, ret>>
  BY DEF SegmentOne
<1>0. TypeOK /\ Called
  BY DEF CIInv
<1>2. PICK o \in PartitionOutcomes(v, below, first, bufEnd) :
          /\ v' = o.array
          /\ c1' = o.boundary - first
          /\ Enter(OneRun(o.boundary, bufEnd), bufBegin, last,
                   Kernel \in {"seg_fill", "off_w1_fill"})
  BY DEF SegmentOne
<1>3. PICK w, d : w = o.array /\ d = o.boundary
  OBVIOUS
<1>4. /\ IsArrangement(w) /\ d \in first .. bufEnd
      /\ AllIn(w, below, first, d) /\ NoneIn(w, below, d, bufEnd)
      /\ SameOutside(v, w, first, bufEnd)
  BY <1>3, OutcomeFacts
<1>5. /\ Kernel \in FillKernels /\ Kernel \notin PrefixKernels /\ Wraps
  BY <1>0, <1>1, KernelMeans DEF FillKernels, PrefixKernels
<1>n. /\ N \in Nat /\ first \in Int /\ last \in Int /\ bufBegin \in Int /\ bufEnd \in Int
      /\ Low \in Int /\ High \in Int /\ 0 <= bufBegin /\ bufBegin <= first /\ first < bufEnd
      /\ bufEnd <= N /\ bufBegin <= last /\ last <= bufEnd /\ Low = bufBegin /\ len1 = bufEnd - first
      /\ High = Low + len1 + (last - bufBegin) /\ High <= N /\ last < first
  <2>1. /\ N \in Nat /\ first \in Int /\ last \in Int /\ bufBegin \in Int /\ bufEnd \in Int
        /\ Low \in Int /\ High \in Int /\ 0 <= bufBegin /\ bufBegin <= first /\ first < bufEnd
        /\ bufEnd <= N /\ bufBegin <= last /\ last <= bufEnd /\ Low = bufBegin
        /\ High = Low + n /\ n = (bufEnd - first) + (last - bufBegin) /\ High <= bufEnd
        /\ last < first
    BY <1>0, <1>5, CallNumbers
  <2>2. len1 = bufEnd - first
    BY DEF len1
  <2> QED
    BY <2>1, <2>2
<1>6. PICK c \in 0 .. N : c = d - first /\ c1' = c /\ d = first + c /\ d \in 0 .. N
  <2>1. d - first \in 0 .. N /\ d = first + (d - first) /\ d \in 0 .. N
    BY <1>4, <1>n
  <2>2. c1' = d - first
    BY <1>2, <1>3
  <2> QED
    BY <2>1, <2>2
<1>7. PICK f \in Int, s \in Int : f = Low + c /\ s = Low + len1
  <2>1. Low + c \in Int /\ Low + len1 \in Int
    BY <1>n, <1>6
  <2> QED
    BY <2>1
<1>8. EnteredAt(d, bufEnd, bufEnd, bufEnd, bufBegin)
  <2>1. d \in Int /\ bufEnd \in Int
    BY <1>6, <1>n
  <2>2. OneRun(d, bufEnd).lo = d /\ OneRun(d, bufEnd).loEnd = bufEnd
        /\ OneRun(d, bufEnd).r2lo = bufEnd /\ OneRun(d, bufEnd).r2end = bufEnd
    BY <2>1, OneRunSlots
  <2>3. Enter(OneRun(d, bufEnd), bufBegin, last, Kernel \in {"seg_fill", "off_w1_fill"})
    BY <1>2, <1>3
  <2>4. (Kernel \in {"seg_fill", "off_w1_fill"}) \in BOOLEAN
    OBVIOUS
  <2> QED
    BY <1>1, <2>2, <2>3, <2>4 DEF Enter, EnteredAt
<1>9. SlotsJoin(d, bufEnd, bufEnd, bufEnd, bufBegin, f, s)
  <2>1. IsRun(TV, first, bufEnd, Low) /\ IsRun(TV, bufBegin, last, s)
    BY <1>0, <1>5, <1>7, SegmentRuns
  <2>2. IsRun(TV, d, bufEnd, f)
    <3>1. IsRun(TV, d, bufEnd, Low + (d - first))
      BY <1>n, <1>4, <2>1, SubRun
    <3> QED
      BY <1>6, <1>7, <3>1
  <2>3. IsRun(TV, bufEnd, bufEnd, f + (bufEnd - d))
    BY <1>n, EmptyRun
  <2>4. /\ f + (bufEnd - d) + (bufEnd - bufEnd) = s /\ s = High - (last - bufBegin)
        /\ d <= bufEnd /\ bufEnd <= bufEnd /\ bufBegin <= last
    BY <1>n, <1>4, <1>6, <1>7
  <2> QED
    BY <2>1, <2>2, <2>3, <2>4 DEF SlotsJoin
<1>10. PICK y : y = Renamed(TV, FV, w)
  OBVIOUS
<1>11. /\ U = Renamed(TV, FV, v) /\ IsArrangement(v) /\ \A q \in Pos : U[q] = q
  BY <1>0, <1>1, Unmoved
<1>12. /\ IsArrangement(y) /\ AllIn(y, VB, Low, f) /\ NoneIn(y, VB, f, s)
       /\ \A q \in Pos : q \notin Low .. s - 1 => y[q] = q
  <2>1. IsRun(TV, first, bufEnd, Low)
    BY <1>0, <1>5, SegmentRuns
  <2>2. /\ IsArrangement(y)
        /\ AllIn(y, VB, Low, Low + (d - first))
        /\ NoneIn(y, VB, Low + (d - first), Low + (bufEnd - first))
        /\ \A q \in Pos : q \notin Low .. Low + (bufEnd - first) - 1 => y[q] = U[q]
    BY <1>0, <1>4, <1>10, <1>11, <1>n, <2>1, RunPartitioned
  <2>3. Low + (d - first) = f /\ Low + (bufEnd - first) = s
    BY <1>n, <1>6, <1>7
  <2>4. NoneIn(y, VB, f, s) /\ AllIn(y, VB, Low, f)
    BY <2>2, <2>3
  <2>5. ASSUME NEW q \in Pos, q \notin Low .. s - 1 PROVE y[q] = U[q]
    <3>1. q \notin Low .. Low + (bufEnd - first) - 1
      BY <1>n, <1>7, <2>3, <2>5 DEF Pos
    <3> QED
      BY <2>2, <3>1
  <2> QED
    BY <1>11, <2>2, <2>4, <2>5
<1>13. SameOutside([p \in Pos |-> p], y, Low, High)
  <2> SUFFICES ASSUME NEW q \in Pos, q \notin Low .. High - 1 PROVE q = y[q]
    BY DEF SameOutside
  <2>1. q \notin Low .. s - 1
    BY <1>n, <1>7
  <2> QED
    BY <1>12, <2>1
<1>14. w \in [Pos -> Pos] /\ w = v'
  BY <1>2, <1>3, <1>4 DEF IsArrangement
<1>15. bufEnd \in 0 .. N /\ bufBegin \in 0 .. N
  BY <1>n
<1> QED
  BY <1>1, <1>5, <1>6, <1>7, <1>8, <1>9, <1>10, <1>12, <1>13, <1>14, <1>15, FillEntered

\* The prefix is the slots: nothing has been moved yet.
LEMMA PrefixEntered ==
    ASSUME CIInv, pc = "dispatch", Kernel \in FillKernels,
           NEW a1 \in 0 .. N, NEW a2 \in 0 .. N, NEW b1 \in 0 .. N, NEW b2 \in 0 .. N,
           NEW sf \in 0 .. N, NEW s \in Int, s <= Low + off, Kernel \in PrefixKernels => s = Low + off,
           EnteredAt(a1, a2, b1, b2, sf), SlotsJoin(a1, a2, b1, b2, sf, Low, s),
           v' = v, c1' = c1
    PROVE  CIInv'
<1>0. TypeOK /\ Called
  BY DEF CIInv
<1>1. /\ v = [p \in Pos |-> p] /\ IsArrangement(v) /\ U = Renamed(TV, FV, v) /\ c1 = 0
      /\ U \in [Pos -> Pos] /\ \A q \in Pos : U[q] = q
      /\ \A q \in Low .. Low + off - 1 : U[q] = q /\ U[q] \notin VB
  BY <1>0, Unmoved
<1>2. Low \in Int /\ off \in Int /\ N \in Nat /\ Low = Low + 0
  BY <1>0, CallNumbers
<1>3. IsArrangement(U)
  BY <1>1 DEF IsArrangement
<1>4. SameOutside([p \in Pos |-> p], U, Low, High)
  BY <1>1 DEF SameOutside
<1>5. ASSUME NEW q \in Low .. s - 1 PROVE U[q] = q /\ U[q] \notin VB
  <2>1. q \in Low .. Low + off - 1
    BY <1>2
  <2> QED
    BY <1>1, <2>1
<1>6. AllIn(U, VB, Low, Low) /\ NoneIn(U, VB, Low, s)
  <2>1. \A q \in Low .. Low - 1 : FALSE
    BY <1>2
  <2> QED
    BY <1>5, <2>1 DEF AllIn, NoneIn
<1>7. PICK w \in [Pos -> Pos] : w = v' /\ U = Renamed(TV, FV, w)
  BY <1>1
<1>8. c1' = 0 /\ 0 \in 0 .. N
  BY <1>1, <1>2
<1> QED
  BY <1>2, <1>3, <1>4, <1>5, <1>6, <1>7, <1>8, FillEntered

LEMMA CSpillFill == ASSUME CIInv, SpillFill PROVE CIInv'
<1> DEFINE p == bufBegin + (off - len1)
<1>1. /\ pc = "dispatch" /\ Kernel = "off_w2_fill"
      /\ Enter(SlotsFrom(first, bufEnd, bufBegin, p), p, last, TRUE)
      /\ UNCHANGED <<v, below, tmp, call, c1, gapVars, ret>>
  BY DEF SpillFill
<1>0. TypeOK /\ Called
  BY DEF CIInv
<1>2. Kernel \in FillKernels /\ Kernel \in PrefixKernels /\ Wraps /\ ~ (off <= len1)
  BY <1>0, <1>1, KernelMeans DEF FillKernels, PrefixKernels
<1>3. /\ N \in Nat /\ first \in Int /\ last \in Int /\ bufBegin \in Int /\ bufEnd \in Int
      /\ Low \in Int /\ High \in Int /\ off \in Int /\ len1 \in Int /\ len1 = bufEnd - first
      /\ 0 <= bufBegin /\ bufBegin <= first /\ first < bufEnd /\ bufEnd <= N
      /\ last <= bufEnd /\ High = Low + len1 + (last - bufBegin) /\ off <= len1 + (last - bufBegin)
  <2>1. /\ N \in Nat /\ first \in Int /\ last \in Int /\ bufBegin \in Int /\ bufEnd \in Int
        /\ Low \in Int /\ High \in Int /\ off \in Int /\ off <= n
        /\ 0 <= bufBegin /\ bufBegin <= first /\ first < bufEnd /\ bufEnd <= N
        /\ last <= bufEnd /\ High = Low + n /\ n = (bufEnd - first) + (last - bufBegin)
    BY <1>0, <1>2, CallNumbers
  <2>2. len1 = bufEnd - first
    BY DEF len1
  <2> QED
    BY <2>1, <2>2
<1>4. p \in Int /\ bufBegin < p /\ p <= last /\ p - bufBegin = off - len1
  BY <1>2, <1>3
<1> HIDE DEF p
<1>5. /\ first \in 0 .. N /\ bufEnd \in 0 .. N /\ bufBegin \in 0 .. N /\ p \in 0 .. N
      /\ first # bufEnd
  BY <1>3, <1>4
<1>6. EnteredAt(first, bufEnd, bufBegin, p, p)
  <2>1. SlotsFrom(first, bufEnd, bufBegin, p)
          = [lo |-> first, loEnd |-> bufEnd, r2lo |-> bufBegin, r2end |-> p]
    BY <1>5 DEF SlotsFrom
  <2> QED
    BY <1>1, <2>1 DEF Enter, EnteredAt
<1>7. PICK s \in Int : s = Low + off
  BY <1>3
<1>8. SlotsJoin(first, bufEnd, bufBegin, p, p, Low, s)
  <2>1. IsRun(TV, first, bufEnd, Low) /\ IsRun(TV, bufBegin, last, Low + len1)
    BY <1>0, <1>2, SegmentRuns
  <2>2. IsRun(TV, bufBegin, p, Low + (bufEnd - first))
    <3>1. Low + len1 \in Int
      BY <1>3
    <3>2. IsRun(TV, bufBegin, p, Low + len1 + (bufBegin - bufBegin))
      BY <1>3, <1>4, <2>1, <3>1, SubRun
    <3>3. Low + len1 + (bufBegin - bufBegin) = Low + (bufEnd - first)
      BY <1>3
    <3> QED
      BY <3>2, <3>3
  <2>3. IsRun(TV, p, last, s)
    <3>1. Low + len1 \in Int
      BY <1>3
    <3>2. IsRun(TV, p, last, Low + len1 + (p - bufBegin))
      BY <1>3, <1>4, <2>1, <3>1, SubRun
    <3>3. Low + len1 + (p - bufBegin) = s
      BY <1>3, <1>4, <1>7
    <3> QED
      BY <3>2, <3>3
  <2>4. /\ Low + (bufEnd - first) + (p - bufBegin) = s /\ s = High - (last - p)
        /\ first <= bufEnd /\ bufBegin <= p /\ p <= last
    BY <1>3, <1>4, <1>7
  <2> QED
    BY <1>5, <2>1, <2>2, <2>3, <2>4 DEF SlotsJoin
<1>9. s <= Low + off
  BY <1>7
<1> QED
  BY <1>1, <1>2, <1>5, <1>6, <1>7, <1>8, <1>9, PrefixEntered

LEMMA CSpillSeg == ASSUME CIInv, SpillSeg PROVE CIInv'
<1>1. /\ pc = "dispatch" /\ Kernel = "off_w2_seg"
      /\ Enter(OneRun(first, bufEnd), bufBegin, last, FALSE)
      /\ UNCHANGED <<v, below, tmp, call, c1, gapVars, ret>>
  BY DEF SpillSeg
<1>0. TypeOK /\ Called
  BY DEF CIInv
<1>2. Kernel \in FillKernels /\ Kernel \notin PrefixKernels /\ Wraps /\ off >= len1
  BY <1>0, <1>1, KernelMeans DEF FillKernels, PrefixKernels
<1>3. /\ N \in Nat /\ first \in Int /\ last \in Int /\ bufBegin \in Int /\ bufEnd \in Int
      /\ Low \in Int /\ High \in Int /\ off \in Int /\ len1 \in Int /\ len1 = bufEnd - first
      /\ 0 <= bufBegin /\ bufBegin <= first /\ first < bufEnd /\ bufEnd <= N /\ bufBegin <= last
      /\ last <= bufEnd /\ High = Low + len1 + (last - bufBegin)
  <2>1. /\ N \in Nat /\ first \in Int /\ last \in Int /\ bufBegin \in Int /\ bufEnd \in Int
        /\ Low \in Int /\ High \in Int /\ off \in Int
        /\ 0 <= bufBegin /\ bufBegin <= first /\ first < bufEnd /\ bufEnd <= N /\ bufBegin <= last
        /\ last <= bufEnd /\ High = Low + n /\ n = (bufEnd - first) + (last - bufBegin)
    BY <1>0, <1>2, CallNumbers
  <2>2. len1 = bufEnd - first
    BY DEF len1
  <2> QED
    BY <2>1, <2>2
<1>5. first \in 0 .. N /\ bufEnd \in 0 .. N /\ bufBegin \in 0 .. N
  BY <1>3
<1>6. EnteredAt(first, bufEnd, bufEnd, bufEnd, bufBegin)
  <2>2. OneRun(first, bufEnd).lo = first /\ OneRun(first, bufEnd).loEnd = bufEnd
        /\ OneRun(first, bufEnd).r2lo = bufEnd /\ OneRun(first, bufEnd).r2end = bufEnd
    BY <1>3, OneRunSlots
  <2> QED
    BY <1>1, <2>2 DEF Enter, EnteredAt
<1>7. PICK s \in Int : s = Low + len1
  BY <1>3
<1>8. SlotsJoin(first, bufEnd, bufEnd, bufEnd, bufBegin, Low, s)
  <2>1. IsRun(TV, first, bufEnd, Low) /\ IsRun(TV, bufBegin, last, s)
    BY <1>0, <1>2, <1>7, SegmentRuns
  <2>2. IsRun(TV, bufEnd, bufEnd, Low + (bufEnd - first))
    BY <1>3, EmptyRun
  <2>4. /\ Low + (bufEnd - first) + (bufEnd - bufEnd) = s /\ s = High - (last - bufBegin)
        /\ first <= bufEnd /\ bufEnd <= bufEnd /\ bufBegin <= last
    BY <1>3, <1>7
  <2> QED
    BY <1>5, <2>1, <2>2, <2>4 DEF SlotsJoin
<1>9. s <= Low + off
  BY <1>2, <1>3, <1>7
<1> QED
  BY <1>1, <1>2, <1>5, <1>6, <1>7, <1>8, <1>9, PrefixEntered

LEMMA CFlatOffset == ASSUME CIInv, FlatOffset PROVE CIInv'
<1> DEFINE p == first + off
<1>1. /\ pc = "dispatch" /\ Kernel \in {"prefix_fill", "part_swap"}
      /\ Enter(OneRun(first, p), p, last, Kernel = "prefix_fill")
      /\ UNCHANGED <<v, below, tmp, call, c1, gapVars, ret>>
  BY DEF FlatOffset
<1>0. TypeOK /\ Called
  BY DEF CIInv
<1>2. Kernel \in FillKernels /\ Kernel \in PrefixKernels /\ ~Wraps
  BY <1>0, <1>1, KernelMeans DEF FillKernels, PrefixKernels
<1>3. /\ N \in Nat /\ first \in Int /\ last \in Int /\ 0 <= first /\ last <= N
      /\ Low \in Int /\ High \in Int /\ off \in Int /\ 0 <= off
      /\ High = last /\ Low = first /\ off <= last - first
  <2>1. /\ N \in Nat /\ first \in Int /\ last \in Int /\ bufBegin \in Int /\ bufEnd \in Int
        /\ Low \in Int /\ High \in Int /\ off \in Int /\ 0 <= off /\ off <= n
        /\ 0 <= bufBegin /\ bufBegin <= first /\ bufEnd <= N
        /\ last <= bufEnd /\ High = last /\ Low = first /\ n = last - first
    BY <1>0, <1>2, CallNumbers
  <2> QED
    BY <2>1
<1>4. p \in Int /\ first <= p /\ p <= last /\ p - first = off
  BY <1>3
<1> HIDE DEF p
<1>5. first \in 0 .. N /\ p \in 0 .. N
  BY <1>3, <1>4
<1>6. EnteredAt(first, p, p, p, p)
  <2>1. (Kernel = "prefix_fill") \in BOOLEAN
    OBVIOUS
  <2>2. OneRun(first, p).lo = first /\ OneRun(first, p).loEnd = p
        /\ OneRun(first, p).r2lo = p /\ OneRun(first, p).r2end = p
    BY <1>3, <1>4, OneRunSlots
  <2> QED
    BY <1>1, <2>1, <2>2 DEF Enter, EnteredAt
<1>7. PICK s \in Int : s = Low + off
  BY <1>3
<1>8. SlotsJoin(first, p, p, p, p, Low, s)
  <2>1. IsRun(TV, first, last, Low)
    BY <1>0, <1>2, SegmentRuns
  <2>2. IsRun(TV, p, p, Low + (p - first))
    BY <1>4, EmptyRun
  <2>3. IsRun(TV, first, p, Low)
    <3>1. IsRun(TV, first, p, Low + (first - first))
      BY <1>3, <1>4, <2>1, SubRun
    <3> QED
      BY <1>3, <3>1
  <2>4. IsRun(TV, p, last, s)
    <3>1. IsRun(TV, p, last, Low + (p - first))
      BY <1>3, <1>4, <2>1, SubRun
    <3> QED
      BY <1>4, <1>7, <3>1
  <2>5. /\ Low + (p - first) + (p - p) = s /\ s = High - (last - p)
        /\ first <= p /\ p <= p /\ p <= last
    BY <1>3, <1>4, <1>7
  <2> QED
    BY <1>5, <2>2, <2>3, <2>4, <2>5 DEF SlotsJoin
<1>9. s <= Low + off
  BY <1>7
<1> QED
  BY <1>1, <1>2, <1>5, <1>6, <1>7, <1>8, <1>9, PrefixEntered

\* A call that is served before the fill or the gap method has begun.
LEMMA CallServed ==
    ASSUME CIInv, pc = "dispatch", ~GapCall, Kernel \notin PrefixKernels, pc' = "done",
           UNCHANGED <<below, fillVars, tmp, call, c1, gapVars>>,
           NEW r \in 0 .. N, r = ret', NEW w \in [Pos -> Pos], w = v',
           NEW y, y = Renamed(TV, FV, w), IsArrangement(y),
           SameOutside([p \in Pos |-> p], y, Low, High),
           Partitioned(y, VB, Low, Low + r, High)
    PROVE  CIInv'
<1>1. /\ lo' = lo /\ loEnd' = loEnd /\ r2lo' = r2lo /\ r2end' = r2end /\ sfirst' = sfirst
      /\ slast' = slast /\ slotsRem' = slotsRem /\ fused' = fused /\ c1' = c1
      /\ found' = found /\ offR' = offR /\ numR' = numR /\ run' = run
      /\ at' = at /\ cnt' = cnt /\ k' = k /\ m' = m /\ below' = below /\ tmp' = tmp /\ call' = call
      /\ pi' = pi /\ pj' = pj /\ chunk' = chunk
  BY DEF fillVars, slots, tally, buf, piece, gapVars
<1>0. TypeOK /\ Called /\ tmp = Hole
  BY Unmoved DEF CIInv
<1>2. TypeOK'
  <2>1. v' \in [Pos -> Pos \cup {Hole}] /\ ret' \in 0 .. N
    OBVIOUS
  <2> QED
    BY <1>0, <1>1, <2>1 DEF TypeOK
<1>3. ~InFill' /\ ~InBlock' /\ ~InGap'
  BY DEF InFill, InBlock, InGap
<1>4. Called' /\ Travel' /\ GP!GapIInv'
  BY <1>0, <1>1, <1>3, OtherCalled DEF gapVars
<1>5. /\ TV' = TV /\ FV' = FV /\ VB' = VB /\ Low' = Low /\ High' = High /\ off' = off
      /\ Kernel' = Kernel
  BY <1>1, ViewFixed
<1>6. U' = y
  <2>1. (TypeOK /\ Called
              => Restored \in [Pos -> Pos \cup {Hole}] /\ U = Renamed(TV, FV, Restored))'
    BY ViewStateNext, PTL
  <2>2. Restored' = w
    BY DEF Restored
  <2> QED
    BY <1>2, <1>4, <1>5, <2>1, <2>2 DEF Renamed
<1>7. Whole'
  BY <1>5, <1>6 DEF Whole
<1>8. Returned'
  <2>1. Count' = r
    BY DEF Count
  <2> QED
    BY <1>5, <1>6, <2>1 DEF Returned
<1>9. Layout' /\ Content' /\ Offsets' /\ Progress' /\ Joining'
  BY <1>3 DEF InFill, InBlock, Layout, Content, Offsets, Progress, Joining
<1> QED
  BY <1>2, <1>4, <1>7, <1>8, <1>9 DEF CIInv, FillInv

\* A flat range, or one whose second segment is empty.
LEMMA CFlat == ASSUME CIInv, Flat PROVE CIInv'
<1> DEFINE e == IF Wraps THEN bufEnd ELSE last
<1>1. /\ pc = "dispatch" /\ Kernel = "flat" /\ pc' = "done"
      /\ UNCHANGED <<below, fillVars, tmp, call, c1, gapVars>>
  BY DEF Flat
<1>0. TypeOK /\ Called
  BY DEF CIInv
<1>2. ~GapCall /\ Kernel \notin PrefixKernels /\ (~Wraps \/ last = bufBegin)
  BY <1>0, <1>1, KernelMeans DEF GapCall, PrefixKernels
<1>3. PICK o \in PartitionOutcomes(v, below, first, e) :
          v' = o.array /\ ret' = o.boundary - first
  BY DEF Flat
<1>4. /\ N \in Nat /\ first \in Int /\ e \in Int /\ Low \in Int /\ High \in Int
      /\ 0 <= first /\ first <= e /\ e <= N /\ High = Low + (e - first)
      /\ IsRun(TV, first, e, Low)
  <2>1. /\ N \in Nat /\ first \in Int /\ last \in Int /\ bufBegin \in Int /\ bufEnd \in Int
        /\ Low \in Int /\ High \in Int /\ High = Low + n
        /\ 0 <= bufBegin /\ bufBegin <= first /\ first <= bufEnd /\ bufEnd <= N /\ last <= bufEnd
        /\ Wraps => n = (bufEnd - first) + (last - bufBegin)
        /\ ~Wraps => first <= last /\ n = last - first
    BY <1>0, CallNumbers
  <2>2. /\ Wraps => IsRun(TV, first, bufEnd, Low)
        /\ ~Wraps => IsRun(TV, first, last, Low)
    BY <1>0, SegmentRuns
  <2>3. CASE Wraps
    BY <1>2, <2>1, <2>2, <2>3
  <2>4. CASE ~Wraps
    BY <2>1, <2>2, <2>4
  <2> QED
    BY <2>3, <2>4
<1> HIDE DEF e
<1>5. PICK w, d : w = o.array /\ d = o.boundary
  OBVIOUS
<1>6. /\ IsArrangement(w) /\ d \in first .. e
      /\ AllIn(w, below, first, d) /\ NoneIn(w, below, d, e)
      /\ SameOutside(v, w, first, e)
  BY <1>3, <1>5, OutcomeFacts
<1>7. PICK r \in 0 .. N : r = d - first /\ r = ret' /\ Low + (d - first) = Low + r
                          /\ Low + r \in Low .. High
  <2>1. d - first \in 0 .. N /\ Low + (d - first) \in Low .. High
    BY <1>4, <1>6
  <2>2. ret' = d - first
    BY <1>3, <1>5
  <2> QED
    BY <2>1, <2>2
<1>8. PICK y : y = Renamed(TV, FV, w)
  OBVIOUS
<1>9. /\ U = Renamed(TV, FV, v) /\ IsArrangement(v) /\ \A q \in Pos : U[q] = q
  BY <1>0, <1>1, Unmoved
<1>10. /\ IsArrangement(y)
       /\ AllIn(y, VB, Low, Low + (d - first))
       /\ NoneIn(y, VB, Low + (d - first), Low + (e - first))
       /\ \A q \in Pos : q \notin Low .. Low + (e - first) - 1 => y[q] = U[q]
  BY <1>0, <1>4, <1>6, <1>8, <1>9, RunPartitioned
<1>11. Partitioned(y, VB, Low, Low + r, High)
  <2>1. AllIn(y, VB, Low, Low + r) /\ NoneIn(y, VB, Low + r, High)
    BY <1>4, <1>7, <1>10
  <2> QED
    BY <1>7, <2>1 DEF Partitioned
<1>12. SameOutside([p \in Pos |-> p], y, Low, High)
  <2> SUFFICES ASSUME NEW q \in Pos, q \notin Low .. High - 1 PROVE q = y[q]
    BY DEF SameOutside
  <2>1. q \notin Low .. Low + (e - first) - 1
    BY <1>4
  <2> QED
    BY <1>9, <1>10, <2>1
<1>13. w \in [Pos -> Pos] /\ w = v'
  BY <1>3, <1>5, <1>6 DEF IsArrangement
<1> QED
  BY <1>1, <1>2, <1>7, <1>8, <1>10, <1>11, <1>12, <1>13, CallServed

LEMMA CEmptySuffix == ASSUME CIInv, EmptySuffix PROVE CIInv'
<1>1. /\ pc = "dispatch" /\ Kernel = "empty" /\ pc' = "done" /\ ret' = 0 /\ v' = v
      /\ UNCHANGED <<below, fillVars, tmp, call, c1, gapVars>>
  BY DEF EmptySuffix
<1>0. TypeOK /\ Called
  BY DEF CIInv
<1>2. ~GapCall /\ Kernel \notin PrefixKernels /\ n - off <= 0
  BY <1>0, <1>1, KernelMeans DEF GapCall, PrefixKernels
<1>3. /\ v = [p \in Pos |-> p] /\ IsArrangement(v) /\ U = Renamed(TV, FV, v)
      /\ U \in [Pos -> Pos] /\ \A q \in Pos : U[q] = q
      /\ \A q \in Low .. Low + off - 1 : U[q] = q /\ U[q] \notin VB
  BY <1>0, <1>1, Unmoved
<1>4. /\ Low \in Int /\ High \in Int /\ N \in Nat /\ Low + 0 = Low /\ Low + 0 \in Low .. High
      /\ Low + off = High /\ 0 \in 0 .. N
  <2>1. /\ Low \in Int /\ High \in Int /\ High = Low + n /\ off \in Int /\ n \in Int
        /\ Low <= High /\ off <= n /\ N \in Nat
    BY <1>0, CallNumbers
  <2> QED
    BY <1>2, <2>1
<1>5. IsArrangement(U) /\ SameOutside([p \in Pos |-> p], U, Low, High)
  BY <1>3 DEF IsArrangement, SameOutside
<1>6. Partitioned(U, VB, Low, Low + 0, High)
  <2>1. \A q \in Low .. Low - 1 : FALSE
    BY <1>4
  <2>2. ASSUME NEW q \in Low .. High - 1 PROVE U[q] \notin VB
    <3>1. off \in Int
      BY <1>0, CallNumbers
    <3>2. q \in Low .. Low + off - 1
      BY <1>4, <3>1
    <3> QED
      BY <1>3, <3>2
  <2>3. AllIn(U, VB, Low, Low) /\ NoneIn(U, VB, Low, High)
    BY <2>1, <2>2 DEF AllIn, NoneIn
  <2> QED
    BY <1>4, <2>3 DEF Partitioned
<1>7. v \in [Pos -> Pos] /\ v = v'
  BY <1>1, <1>3 DEF IsArrangement
<1> QED
  BY <1>1, <1>2, <1>3, <1>4, <1>5, <1>6, <1>7, CallServed

LEMMA CFillReturns == ASSUME CIInv, FillReturns PROVE CIInv'
<1>1. /\ pc = "return" /\ pc' = "done" /\ v' = v
      /\ lo' = lo /\ loEnd' = loEnd /\ r2lo' = r2lo /\ r2end' = r2end /\ sfirst' = sfirst
      /\ slast' = slast /\ slotsRem' = slotsRem /\ fused' = fused /\ c1' = c1
      /\ found' = found /\ offR' = offR /\ numR' = numR /\ run' = run
      /\ at' = at /\ cnt' = cnt /\ k' = k /\ m' = m /\ below' = below /\ tmp' = tmp /\ call' = call
      /\ pi' = pi /\ pj' = pj /\ chunk' = chunk /\ ret' = c1 + found
  BY DEF FillReturns, fillVars, slots, tally, buf, piece, gapVars
<1>0. TypeOK /\ Called /\ Whole /\ Returned
  BY DEF CIInv, FillInv
<1>2. ~GapCall /\ tmp = Hole
  BY <1>0, <1>1 DEF GapCall, Called, FillKernels, InGap
<1>3. Count = c1 + found /\ Count' = ret' /\ Count' = Count
  BY <1>1 DEF Count
<1>4. Partitioned(U, VB, Low, Low + Count, High)
  BY <1>0, <1>1 DEF Returned
<1>5. c1 + found \in 0 .. N
  <2>1. /\ Low \in Int /\ High \in Int /\ N \in Nat /\ bufBegin \in Int /\ bufEnd \in Int
        /\ 0 <= bufBegin /\ bufBegin <= Low /\ High <= bufEnd /\ bufEnd <= N
    BY <1>0, CallNumbers
  <2>2. c1 \in Int /\ found \in Int
    BY <1>0 DEF TypeOK
  <2>3. Low + (c1 + found) \in Low .. High
    BY <1>3, <1>4 DEF Partitioned
  <2> QED
    BY <2>1, <2>2, <2>3
<1>6. TypeOK'
  BY <1>0, <1>1, <1>5 DEF TypeOK
<1>7. ~InFill' /\ ~InBlock' /\ ~InGap'
  BY <1>1 DEF InFill, InBlock, InGap
<1>8. Called' /\ Travel' /\ GP!GapIInv'
  BY <1>0, <1>1, <1>2, <1>7, OtherCalled DEF gapVars
<1>9. U' = U /\ Whole'
  <2>1. Restored' = Restored
    BY <1>1 DEF Restored
  <2> QED
    BY <1>0, <1>1, <1>6, <1>8, <2>1, SameView
<1>10. VB' = VB /\ Low' = Low /\ High' = High /\ off' = off /\ Kernel' = Kernel
  BY <1>1, ViewFixed
<1>11. Returned'
  BY <1>0, <1>1, <1>3, <1>9, <1>10 DEF Returned
<1>12. Layout' /\ Content' /\ Offsets' /\ Progress' /\ Joining'
  BY <1>1, <1>7 DEF InFill, InBlock, Layout, Content, Offsets, Progress, Joining
<1> QED
  BY <1>6, <1>8, <1>9, <1>11, <1>12 DEF CIInv, FillInv

\* A step that changes nothing, seen by the flat method.
LEMMA FlatUnchanged == ASSUME UNCHANGED vars PROVE UNCHANGED GP!G!vars
<1>1. /\ v' = v /\ below' = below /\ tmp' = tmp /\ call' = call /\ pc' = pc
      /\ pi' = pi /\ pj' = pj /\ ret' = ret
  BY DEF vars, gapVars
<1>2. /\ VB' = VB /\ Low' = Low /\ High' = High /\ off' = off /\ (GapCall' <=> GapCall)
  BY <1>1, ViewFixed
<1>3. /\ ToView(pi)' = ToView(pi) /\ ToView(pj)' = ToView(pj)
  BY <1>1 DEF ToView, Wraps, first, last, bufBegin, bufEnd, len1
<1>4. View(v)' = View(v)
  BY <1>1 DEF View, ViewElement, FromView, ToView, Wraps, first, last, bufBegin, bufEnd, len1
<1>5. ViewElement(tmp)' = ViewElement(tmp)
  BY <1>1 DEF ViewElement, ToView, Wraps, first, last, bufBegin, bufEnd, len1
<1> QED
  BY <1>1, <1>2, <1>3, <1>4, <1>5 DEF GP!G!vars, VB, Low, High

\* A step that changes nothing.
LEMMA CUnchanged == ASSUME CIInv, UNCHANGED vars PROVE CIInv'
<1>1. /\ lo' = lo /\ loEnd' = loEnd /\ r2lo' = r2lo /\ r2end' = r2end /\ sfirst' = sfirst
      /\ slast' = slast /\ slotsRem' = slotsRem /\ fused' = fused /\ c1' = c1 /\ pc' = pc
      /\ found' = found /\ offR' = offR /\ numR' = numR /\ run' = run /\ v' = v
      /\ at' = at /\ cnt' = cnt /\ k' = k /\ m' = m /\ below' = below /\ tmp' = tmp /\ call' = call
      /\ pi' = pi /\ pj' = pj /\ chunk' = chunk /\ ret' = ret
  BY DEF vars, fillVars, slots, tally, buf, piece, gapVars
<1>0. TypeOK /\ Called /\ Whole
  BY DEF CIInv, FillInv
<1>2. /\ TV' = TV /\ VB' = VB /\ Low' = Low /\ High' = High /\ off' = off /\ Kernel' = Kernel
      /\ first' = first /\ last' = last /\ bufBegin' = bufBegin /\ bufEnd' = bufEnd
      /\ (GapCall' <=> GapCall) /\ \A p : ToView(p)' = ToView(p)
      /\ (Wraps' <=> Wraps) /\ len1' = len1
  BY <1>1, ViewFixed
<1>3. TypeOK'
  BY <1>0, <1>1 DEF TypeOK
<1>4. /\ (InFill' <=> InFill) /\ (InBlock' <=> InBlock) /\ (InGap' <=> InGap)
      /\ Settled' = Settled /\ InRun' = InRun /\ BlockSize' = BlockSize
  BY <1>1 DEF InFill, InBlock, InGap, Settled, InRun, BlockSize
<1>5. Called'
  BY <1>0, <1>1, <1>2, <1>4 DEF Called
<1>6. Restored' = Restored
  BY <1>1, <1>2 DEF Restored, Refilled, CellR
<1>7. U' = U /\ Whole'
  BY <1>0, <1>1, <1>3, <1>5, <1>6, SameView
<1>8. /\ Base' = Base /\ Front' = Front /\ Suffix' = Suffix /\ Seen' = Seen
      /\ BlockEnd' = BlockEnd /\ Used' = Used /\ Count' = Count
  BY <1>1, <1>2, <1>4 DEF Base, Front, Suffix, Seen, BlockEnd, Used, Count
<1>9. Layout' /\ Content'
  <2>1. Layout /\ Content
    BY DEF CIInv, FillInv
  <2> QED
    BY <1>1, <1>2, <1>4, <1>7, <1>8, <2>1 DEF Layout, Content
<1>10. Offsets'
  <2>1. Offsets
    BY DEF CIInv, FillInv
  <2> QED
    BY <1>1, <1>2, <1>4, <1>7, <1>8, <2>1 DEF Offsets
<1>11. Progress'
  <2>1. Progress
    BY DEF CIInv, FillInv
  <2> QED
    BY <1>1, <2>1 DEF Progress, CellR
<1>12. Joining' /\ Returned'
  <2>1. Joining /\ Returned
    BY DEF CIInv, FillInv
  <2> QED
    BY <1>1, <1>2, <1>7, <1>8, <2>1 DEF Joining, Returned
<1>13. Travel'
  <2>1. Travel
    BY DEF CIInv
  <2> QED
    BY <1>1, <1>2, <1>4, <2>1 DEF Travel
<1>14. GP!GapIInv'
  BY FlatUnchanged, NAssumption, GP!GapIInvStep DEF GP!NAssumption, CIInv
<1> QED
  BY <1>3, <1>5, <1>7, <1>9, <1>10, <1>11, <1>12, <1>13, <1>14 DEF CIInv, FillInv
-----------------------------------------------------------------------------
(***************************************************************************)
(* The calls the specification starts with.                                *)
(***************************************************************************)
LEMMA StartCalled == ASSUME NEW c \in Calls, Start(c) PROVE TypeOK /\ Called
<1>1. /\ v = [p \in Pos |-> p] /\ call = c /\ below \in SUBSET Pos /\ Idle /\ tmp = Hole /\ c1 = 0
      /\ pi = first /\ pj = first /\ chunk = "A" /\ ret = 0 /\ pc = "dispatch"
      /\ \A q \in ViewFirst .. ViewFirst + off - 1 : FromView(q) \notin below
  BY DEF Start
<1>2. call \in Calls /\ first \in 0 .. N
  <2>1. call \in Calls
    BY <1>1
  <2>2. call.first \in 0 .. N
    BY <2>1 DEF Calls
  <2> QED
    BY <2>1, <2>2 DEF first
<1>3. N \in Nat /\ B \in Nat /\ B > 0
  BY NAssumption, BAssumption
<1>4. TypeOK
  <2>1. v \in [Pos -> Pos \cup {Hole}]
    BY <1>1
  <2>2. offR \in [0 .. B - 1 -> 0 .. B]
    BY <1>1, <1>3 DEF Idle
  <2>3. 0 \in 0 .. N /\ 0 \in 0 .. B
    BY <1>3
  <2> QED
    BY <1>1, <1>2, <2>1, <2>2, <2>3 DEF TypeOK, Idle
<1>5. /\ ~InGap /\ ~InFill /\ found = 0
  BY <1>1 DEF InGap, InFill, Idle
<1>6. ASSUME NEW q \in Low .. Low + off - 1 PROVE q \in Pos /\ q \notin VB
  <2>1. q \in Pos /\ FromView(q) \notin below
    <3>1. /\ Low \in Int /\ off \in Int /\ 0 <= Low /\ Low + off <= N
      <4>1. /\ Low \in Int /\ off \in Int /\ n \in Int /\ High = Low + n /\ off <= n
            /\ bufBegin \in Int /\ bufEnd \in Int /\ 0 <= bufBegin /\ bufBegin <= Low
            /\ High <= bufEnd /\ bufEnd <= N
        BY <1>2, CallBounds
      <4> QED
        BY <1>3, <4>1
    <3>2. q \in Pos
      BY <1>3, <3>1 DEF Pos
    <3> QED
      BY <1>1, <3>2 DEF Low
  <2>2. ToView(FromView(q)) = q /\ \A x \in Pos : FromView(ToView(x)) = x
    <3>1. Mutual(TV, FV) /\ TV = [x \in Pos |-> ToView(x)] /\ FV = [x \in Pos |-> FromView(x)]
      BY <1>2, CallMutual DEF TV, FV
    <3> QED
      BY <2>1, <3>1 DEF Mutual
  <2>3. q \notin VB
    <3>1. CASE Wraps
      <4>1. VB = {ToView(x) : x \in below} /\ below \in SUBSET Pos
        BY <1>1, <3>1 DEF VB, ViewBelow
      <4> QED
        BY <2>1, <2>2, <4>1
    <3>2. CASE ~Wraps
      BY <2>1, <3>2 DEF VB, ViewBelow, FromView
    <3> QED
      BY <3>1, <3>2
  <2> QED
    BY <2>1, <2>3
<1>7. Called
  <2>1. NoneIn([p \in Pos |-> p], VB, Low, Low + off)
    <3>1. Low \in Int /\ off \in Int
      BY <1>2, CallBounds
    <3> QED
      BY <1>6, <3>1 DEF NoneIn
  <2> QED
    BY <1>1, <1>2, <1>5, <2>1 DEF Called
<1> QED
  BY <1>4, <1>7

\* The gap method of the flat range begins where that of the ring does.
LEMMA GapBegins == ASSUME TypeOK, Called, pc = "dispatch" PROVE GP!G!Init
<1>1. /\ VB \in SUBSET Pos /\ Low \in 0 .. N /\ High \in Low .. N /\ off \in 0 .. High - Low
      /\ Low \in Int /\ High \in Int /\ off \in Int
  <2>1. /\ N \in Nat /\ Low \in Int /\ High \in Int /\ off \in Int /\ bufBegin \in Int
        /\ bufEnd \in Int /\ n \in Int /\ 0 <= bufBegin /\ bufBegin <= Low /\ Low <= High
        /\ High <= bufEnd /\ bufEnd <= N /\ 0 <= off /\ off <= n /\ High = Low + n
    BY CallNumbers
  <2>2. Low \in 0 .. N /\ High \in Low .. N /\ off \in 0 .. High - Low
    BY <2>1
  <2> QED
    BY <2>1, <2>2, ViewBelowMember
<1>2. /\ Restored = v /\ tmp = Hole /\ \A q \in Pos : U[q] = q
      /\ U = Renamed(TV, FV, v)
  BY Unmoved
<1>3. U = [p \in Pos |-> p] /\ U = View(v)
  <2>1. U = [q \in Pos |-> U[q]]
    BY <1>2 DEF Renamed
  <2> QED
    BY <1>2, <2>1 DEF U
<1>4. /\ (IF GapCall THEN View(v) ELSE [p \in Pos |-> p]) = [p \in Pos |-> p]
      /\ (IF GapCall THEN ViewElement(tmp) ELSE Hole) = Hole
      /\ (IF pc = "done" /\ GapCall THEN Low + ret ELSE ToView(pi)) = Low
  <2>1. ToView(pi) = Low
    BY FirstPlace DEF Called
  <2> QED
    BY <1>2, <1>3, <2>1 DEF ViewElement
<1>5. NoneIn([p \in Pos |-> p], VB, Low, Low + off)
  BY DEF Called
<1> QED
  BY <1>1, <1>4, <1>5 DEF GP!G!Init, GP!G!Pos, GP!Pos, GP!G!NoneIn, GP!NoneIn, GP!G!GoesLeft,
     GP!G!Hole, Hole, Pos, NoneIn,
     VB, Low, High

LEMMA InitCIInv == Init => CIInv
<1> SUFFICES ASSUME Init PROVE CIInv
  OBVIOUS
<1>1. PICK c \in Calls : Start(c)
  BY DEF Init
<1>2. TypeOK /\ Called /\ pc = "dispatch"
  BY <1>1, StartCalled DEF Start
<1>3. GP!GapIInv
  BY <1>2, GapBegins, GP!GapInitIInv, NAssumption DEF GP!NAssumption
<1>4. Whole
  <2>1. IsArrangement(v) /\ U = Renamed(TV, FV, v) /\ \A q \in Pos : U[q] = q
    BY <1>2, Unmoved
  <2>2. U \in [Pos -> Pos]
    BY <1>2, Unmoved
  <2> QED
    BY <2>1, <2>2 DEF Whole, IsArrangement, SameOutside
<1>5. Layout /\ Content /\ Offsets /\ Progress /\ Joining /\ Returned /\ Travel
  BY <1>2 DEF Layout, Content, Offsets, Progress, Joining, Returned, Travel, InFill, InBlock, InGap
<1> QED
  BY <1>2, <1>3, <1>4, <1>5 DEF CIInv, FillInv
-----------------------------------------------------------------------------
(***************************************************************************)
(* The gap method.  Each of its steps is one of the flat range, in the     *)
(* view; the invariant of that one gives the rest.                         *)
(***************************************************************************)
LEMMA ViewCellsNext == TypeOK /\ Called => View(v) = Renamed(TV, FV, v) /\ U = View(Restored)
BY ViewState DEF U

\* An element has the same name in both descriptions of the view.
LEMMA ElementName == ASSUME Called, NEW e \in Pos \cup {Hole} PROVE ViewElement(e) = NewName(TV, e)
<1>1. CASE e = Hole
  BY <1>1 DEF ViewElement, NewName
<1>2. CASE e # Hole
  BY <1>2, ViewRuns DEF ViewElement, NewName
<1> QED
  BY <1>1, <1>2

\* An element is moved from cell y to cell x.
LEMMA ViewMoved ==
    ASSUME TypeOK, Called, TypeOK', Called', call' = call, below' = below,
           NEW x \in Pos, NEW y \in Pos, v' = [v EXCEPT ![x] = v[y], ![y] = Hole]
    PROVE  View(v)' = [View(v) EXCEPT ![TV[x]] = View(v)[TV[y]], ![TV[y]] = Hole]
<1>1. View(v) = Renamed(TV, FV, v) /\ Mutual(TV, FV) /\ v \in [Pos -> Pos \cup {Hole}]
  BY ViewState
<1>2. View(v)' = Renamed(TV, FV, v')
  <2>1. (TypeOK /\ Called => View(v) = Renamed(TV, FV, v) /\ U = View(Restored))'
    BY ViewCellsNext, PTL
  <2>2. TV' = TV /\ FV' = FV
    BY ViewFixed
  <2> QED
    BY <2>1, <2>2 DEF Renamed
<1>3. v' = Put(Put(v, x, v[y]), y, Hole)
  BY DEF Put
<1>4. PICK e : e = v[y]
  OBVIOUS
<1>5. e \in Pos \cup {Hole} /\ NewName(TV, e) = View(v)[TV[y]] /\ TV[y] \in Pos
  <2>1. TV[y] \in Pos /\ FV[TV[y]] = y
    BY <1>1 DEF Mutual
  <2>2. View(v)[TV[y]] = IF v[y] = Hole THEN Hole ELSE TV[v[y]]
    BY <1>1, <2>1 DEF Renamed
  <2> QED
    BY <1>1, <1>4, <2>1, <2>2 DEF NewName
<1>6. PICK w : w = Put(v, x, e)
  OBVIOUS
<1>7. w \in [Pos -> Pos \cup {Hole}] /\ Renamed(TV, FV, w) = Put(View(v), TV[x], View(v)[TV[y]])
  BY <1>1, <1>5, <1>6, PutCells, RenamedPut
<1>8. Renamed(TV, FV, Put(w, y, Hole)) = Put(Renamed(TV, FV, w), TV[y], NewName(TV, Hole))
  BY <1>1, <1>7, RenamedPut
<1>9. NewName(TV, Hole) = Hole
  BY DEF NewName
<1> QED
  BY <1>2, <1>3, <1>4, <1>6, <1>7, <1>8, <1>9 DEF Put

LEMMA ViewPut ==
    ASSUME TypeOK, Called, TypeOK', Called', call' = call, below' = below,
           NEW x \in Pos, NEW e \in Pos \cup {Hole}, v' = [v EXCEPT ![x] = e]
    PROVE  View(v)' = [View(v) EXCEPT ![TV[x]] = ViewElement(e)]
<1>1. View(v) = Renamed(TV, FV, v) /\ Mutual(TV, FV) /\ v \in [Pos -> Pos \cup {Hole}]
  BY ViewState
<1>2. View(v)' = Renamed(TV, FV, v')
  <2>1. (TypeOK /\ Called => View(v) = Renamed(TV, FV, v) /\ U = View(Restored))'
    BY ViewCellsNext, PTL
  <2>2. TV' = TV /\ FV' = FV
    BY ViewFixed
  <2> QED
    BY <2>1, <2>2 DEF Renamed
<1>3. Renamed(TV, FV, Put(v, x, e)) = Put(View(v), TV[x], NewName(TV, e))
  BY <1>1, RenamedPut
<1> QED
  BY <1>2, <1>3, ElementName DEF Put

\* The cell that is vacant in the gap method.
RingGap == IF pc = "close" THEN pj ELSE pi

\* The array with the lifted element put back is the same for both methods.
LEMMA GapRestored ==
    TypeOK /\ Called /\ GapCall /\ (pc \in {"dispatch", "done"} \/ (InGap /\ RingGap \in Pos))
        => U = GP!G!Restored
<1> SUFFICES ASSUME TypeOK, Called, GapCall, pc \in {"dispatch", "done"} \/ (InGap /\ RingGap \in Pos)
             PROVE  U = GP!G!Restored
  OBVIOUS
<1>1. View(v) = Renamed(TV, FV, v) /\ Mutual(TV, FV) /\ v \in [Pos -> Pos \cup {Hole}]
      /\ U = Renamed(TV, FV, Restored)
  BY ViewState
<1>2. CASE pc \in {"dispatch", "done"}
  <2>1. Restored = v
    BY <1>2 DEF Restored
  <2>2. GP!G!Restored = View(v)
    BY <1>2 DEF GP!G!Restored, GP!G!Open
  <2> QED
    BY <1>1, <2>1, <2>2
<1>3. CASE InGap /\ RingGap \in Pos
  <2>1. Restored = Put(v, RingGap, tmp)
    BY <1>3 DEF InGap, Restored, RingGap, Put
  <2>2. tmp \in Pos \cup {Hole}
    BY DEF TypeOK
  <2>3. U = Put(View(v), TV[RingGap], NewName(TV, tmp))
    BY <1>1, <1>3, <2>1, <2>2, RenamedPut
  <2>4. ViewElement(tmp) = NewName(TV, tmp) /\ TV[RingGap] = ToView(RingGap)
    BY <1>3, <2>2, ElementName, ViewRuns
  <2>5. GP!G!Open /\ GP!G!Gap = ToView(RingGap)
    BY <1>3 DEF GP!G!Open, GP!G!Gap, InGap, RingGap
  <2>6. GP!G!Restored = [View(v) EXCEPT ![ToView(RingGap)] = ViewElement(tmp)]
    BY <2>5 DEF GP!G!Restored
  <2> QED
    BY <2>3, <2>4, <2>6 DEF Put
<1> QED
  BY <1>2, <1>3

\* Where the cursors are while an element is lifted, in the view.
LEMMA GapPlaces ==
    ASSUME CIInv, InGap
    PROVE  /\ GapCall /\ Wraps /\ TypeOK /\ Called /\ pc # "dispatch" /\ pc # "done"
           /\ pi \in Pos /\ pj \in Pos
           /\ ToView(pi) \in Int /\ ToView(pj) \in Int
           /\ TV[pi] = ToView(pi) /\ TV[pj] = ToView(pj)
           /\ Low <= ToView(pi) /\ ToView(pi) <= ToView(pj) /\ ToView(pj) < High
           /\ pc = "pull" => ToView(pj) < High - 1
           /\ pc = "putback" => ToView(pj) = High - 1
<1>1. TypeOK /\ Called /\ GapCall /\ Travel /\ pc \in {"close", "pull", "putback"}
  BY DEF CIInv, Called, InGap
<1>2. Wraps
  BY <1>1, KernelMeans DEF GapCall
<1>3. pi \in Pos /\ pj \in Pos
  <2>1. /\ bufEnd \in Int /\ bufBegin \in Int /\ first \in Int /\ last \in Int /\ N \in Nat
        /\ 0 <= bufBegin /\ bufBegin <= first /\ bufEnd <= N /\ last <= bufEnd
    BY <1>1, CallNumbers
  <2>2. /\ pi \in first .. bufEnd - 1 \/ pi \in bufBegin .. last - 1
        /\ pj \in first .. bufEnd - 1 \/ pj \in bufBegin .. last - 1
    BY <1>1 DEF Travel, InGap, TypeOK
  <2> QED
    BY <2>1, <2>2 DEF Pos
<1>4. TV[pi] = ToView(pi) /\ TV[pj] = ToView(pj)
  BY <1>1, <1>3, ViewRuns
<1>5. GP!G!TypeOK /\ GP!G!GapInvariant
  BY DEF CIInv, GP!GapIInv
<1>6. GP!G!Open
  BY <1>1 DEF GP!G!Open
<1>7. /\ (IF ~GapCall \/ pc = "dispatch" THEN "start" ELSE pc) = pc
      /\ (IF pc = "done" /\ GapCall THEN ViewFirst + ret ELSE ToView(pi)) = ToView(pi)
      /\ (IF pc = "dispatch" THEN ViewFirst ELSE ToView(pj)) = ToView(pj)
      /\ pc # "dispatch" /\ pc # "done"
  BY <1>1
<1>8. ToView(pi) \in Low .. High /\ ToView(pj) \in Low .. High
  BY <1>5, <1>7 DEF GP!G!TypeOK, Low, High
<1>9. /\ pc = "close" => ToView(pi) <= ToView(pj) /\ ToView(pj) < High
      /\ pc = "pull" => ToView(pi) <= ToView(pj) /\ ToView(pj) < High - 1
      /\ pc = "putback" => ToView(pi) <= ToView(pj) /\ ToView(pj) = High - 1
  BY <1>5, <1>7 DEF GP!G!GapInvariant, High
<1>10. Low \in Int /\ High \in Int
  BY <1>1, CallNumbers
<1>11. ToView(pj) < High
  BY <1>1, <1>8, <1>9, <1>10
<1> QED
  BY <1>1, <1>2, <1>3, <1>4, <1>7, <1>8, <1>9, <1>10, <1>11

\* A step of the gap method preserves the invariant when its cells and cursors
\* are where they should be and it is a step of the flat method.
LEMMA GapServed ==
    ASSUME CIInv, GapCall, pc \in {"dispatch", "close", "pull", "putback"},
           pc' \in {"close", "pull", "putback", "done"}, call' = call, below' = below,
           pc' = "done" => tmp' = Hole,
           TypeOK', Travel', pc' # "done" => RingGap' \in Pos, pc # "dispatch" => RingGap \in Pos,
           [GP!G!Next]_(GP!G!vars)
    PROVE  CIInv'
<1>1. TypeOK /\ Called /\ Whole
  BY DEF CIInv, FillInv
<1>2. /\ VB' = VB /\ Low' = Low /\ High' = High /\ off' = off /\ Kernel' = Kernel /\ GapCall'
  BY ViewFixed
<1>3. ~InFill' /\ ~InBlock' /\ (InGap' <=> pc' # "done")
  BY DEF InFill, InBlock, InGap
<1>4. Called'
  <2>1. /\ call \in Calls /\ below \in SUBSET Pos
        /\ NoneIn([p \in Pos |-> p], VB, Low, Low + off)
    BY <1>1 DEF Called
  <2> QED
    BY <1>2, <1>3, <2>1 DEF Called
<1>5. GP!GapIInv /\ GP!GapIInv'
  BY GP!GapIInvStep, NAssumption DEF CIInv, GP!NAssumption
<1>6. U = GP!G!Restored /\ U' = GP!G!Restored'
  <2>1. U = GP!G!Restored
    <3>1. pc \in {"dispatch", "done"} \/ (InGap /\ RingGap \in Pos)
      BY DEF InGap
    <3> QED
      BY <1>1, <3>1, GapRestored
  <2>2. (TypeOK /\ Called /\ GapCall /\ (pc \in {"dispatch", "done"} \/ (InGap /\ RingGap \in Pos))
            => U = GP!G!Restored)'
    BY GapRestored, PTL
  <2>3. (pc \in {"dispatch", "done"} \/ (InGap /\ RingGap \in Pos))'
    BY <1>3
  <2>4. (TypeOK /\ Called /\ GapCall)'
    BY <1>2, <1>4
  <2>5. (U = GP!G!Restored)'
    BY <2>2, <2>3, <2>4
  <2> QED
    BY <2>1, <2>5
<1>7. Whole'
  <2>1. IsArrangement(U)'
    <3>1. GP!G!OneGap'
      BY <1>5 DEF GP!GapIInv
    <3> QED
      BY <1>6, <3>1 DEF GP!G!OneGap, GP!G!IsArrangement, GP!IsArrangement, GP!G!Pos, GP!Pos,
         IsArrangement, Pos
  <2>2. SameOutside([p \in Pos |-> p], U', Low, High)
    <3>1. \/ U' = U
          \/ \E p, q \in Low .. High - 1 : U' = Swap(U, p, q)
      BY <1>5, <1>6, GP!GapRestoredStep, NAssumption DEF GP!NAssumption, GP!G!Swap, GP!Swap,
         Swap, Low, High
    <3>2. SameOutside([p \in Pos |-> p], U, Low, High) /\ U \in [Pos -> Pos]
      BY <1>1 DEF Whole, IsArrangement
    <3>3. ASSUME NEW p \in Low .. High - 1, NEW q \in Low .. High - 1, NEW x \in Pos,
                 x \notin Low .. High - 1
          PROVE  Swap(U, p, q)[x] = U[x]
      BY <3>2, <3>3 DEF Swap
    <3> QED
      BY <3>1, <3>2, <3>3 DEF SameOutside
  <2> QED
    BY <1>2, <2>1, <2>2 DEF Whole, IsArrangement
<1>8. Returned'
  <2>1. CASE pc' = "done"
    <3>1. GP!G!TypeOK' /\ GP!G!GapInvariant'
      BY <1>5 DEF GP!GapIInv
    <3>2. /\ (IF ~GapCall \/ pc = "dispatch" THEN "start" ELSE pc)' = "done"
          /\ (IF pc = "done" /\ GapCall THEN ViewFirst + ret ELSE ToView(pi))' = Low + ret'
          /\ (IF GapCall THEN View(v) ELSE [p \in Pos |-> p])' = View(v)'
      BY <1>2, <2>1 DEF Low
    <3>3. View(v)' = U'
      BY <1>6, <2>1, <3>2 DEF GP!G!Restored, GP!G!Open
    <3>4. Low + ret' \in Low .. High
      BY <1>2, <3>1, <3>2 DEF GP!G!TypeOK, Low, High
    <3>5. AllIn(U', VB, Low, Low + ret') /\ NoneIn(U', VB, Low + ret', High)
      BY <1>2, <3>1, <3>2, <3>3 DEF GP!G!GapInvariant, GP!G!AllIn, GP!AllIn, GP!G!NoneIn,
         GP!NoneIn, GP!G!GoesLeft, AllIn,
         NoneIn, VB, Low, High
    <3>6. Partitioned(U', VB, Low, Low + ret', High)
      BY <3>4, <3>5 DEF Partitioned
    <3>7. Count' = ret' /\ Kernel' \notin PrefixKernels
      BY <1>2, <2>1 DEF Count, GapCall, PrefixKernels
    <3> QED
      BY <1>2, <3>6, <3>7 DEF Returned
  <2>2. CASE pc' # "done"
    BY <2>2 DEF Returned
  <2> QED
    BY <2>1, <2>2
<1>9. Layout' /\ Content' /\ Offsets' /\ Progress' /\ Joining'
  <2>1. pc' \notin {"loop", "scan", "filled", "rotate", "second", "bridge"}
    OBVIOUS
  <2> QED
    BY <1>3, <2>1 DEF Layout, Content, Offsets, Progress, Joining
<1> QED
  BY <1>4, <1>5, <1>7, <1>8, <1>9 DEF CIInv, FillInv

\* The cells of each segment, in the view.
LEMMA SegmentCells ==
    ASSUME Called, Wraps
    PROVE  /\ first \in Int /\ last \in Int /\ bufBegin \in Int /\ bufEnd \in Int /\ len1 \in Int
           /\ N \in Nat /\ Low \in Int /\ High \in Int /\ len1 = bufEnd - first
           /\ 0 <= bufBegin /\ bufBegin <= first /\ first < bufEnd /\ bufEnd <= N /\ last < first
           /\ bufBegin <= last /\ High = Low + len1 + (last - bufBegin)
           /\ \A p \in first .. bufEnd - 1 :
                 p \in Pos /\ ToView(p) = Low + (p - first) /\ TV[p] = ToView(p)
           /\ \A p \in bufBegin .. last - 1 :
                 p \in Pos /\ ToView(p) = High - (last - p) /\ TV[p] = ToView(p)
<1>1. /\ first \in Int /\ last \in Int /\ bufBegin \in Int /\ bufEnd \in Int
      /\ N \in Nat /\ Low \in Int /\ High \in Int /\ len1 = bufEnd - first
      /\ 0 <= bufBegin /\ bufBegin <= first /\ first < bufEnd /\ bufEnd <= N /\ last < first
      /\ bufBegin <= last /\ High = Low + n /\ n = (bufEnd - first) + (last - bufBegin)
  BY CallNumbers DEF len1
<1>2. /\ \A p \in first .. bufEnd - 1 : p \in Pos /\ TV[p] = Low + (p - first)
      /\ \A p \in bufBegin .. last - 1 : p \in Pos /\ TV[p] = High - (last - p)
      /\ \A p \in Pos : TV[p] = ToView(p)
  BY ViewRuns
<1>3. len1 \in Int /\ High = Low + len1 + (last - bufBegin)
  BY <1>1
<1> QED
  BY <1>1, <1>2, <1>3

\* An element that goes left does so in the view.
LEMMA AdvanceView ==
    ASSUME Called, NEW e \in Pos \cup {Hole}
    PROVE  GP!G!Advance(ViewElement(e)) = Advance(e) /\ Advance(e) \in {0, 1}
<1>1. ViewElement(e) \in VB <=> e \in below
  <2>1. CASE e = Hole
    <3>1. ViewElement(e) = Hole /\ VB \in SUBSET Pos /\ below \in SUBSET Pos
      BY <2>1, ViewBelowMember DEF ViewElement, Called
    <3> QED
      BY <2>1, <3>1, HoleNotInPos
  <2>2. CASE e # Hole
    BY <2>2, ViewBelowMember, ViewRuns DEF ViewElement
  <2> QED
    BY <2>1, <2>2
<1> QED
  BY <1>1 DEF GP!G!Advance, GP!G!GoesLeft, Advance, VB

LEMMA CGapLift == ASSUME CIInv, GapLift PROVE CIInv' /\ GP!G!Lift
<1> DEFINE g == IF off < len1 THEN first + off ELSE bufBegin + (off - len1)
<1>1. /\ pc = "dispatch" /\ Kernel = "gap" /\ pc' = "close"
      /\ tmp' = v[g] /\ v' = [v EXCEPT ![g] = Hole] /\ pj' = g
      /\ chunk' = (IF off < len1 THEN "A" ELSE "B1")
      /\ UNCHANGED <<below, fillVars, call, c1, pi, ret>>
  BY DEF GapLift
<1>2. /\ lo' = lo /\ loEnd' = loEnd /\ r2lo' = r2lo /\ r2end' = r2end /\ sfirst' = sfirst
      /\ slast' = slast /\ slotsRem' = slotsRem /\ fused' = fused /\ c1' = c1
      /\ found' = found /\ offR' = offR /\ numR' = numR /\ run' = run
      /\ at' = at /\ cnt' = cnt /\ k' = k /\ m' = m /\ below' = below /\ call' = call
      /\ pi' = pi /\ ret' = ret
  BY <1>1 DEF fillVars, slots, tally, buf, piece
<1>0. TypeOK /\ Called /\ GapCall /\ Wraps /\ off < n /\ bufBegin < last /\ pi = first
  <2>1. TypeOK /\ Called
    BY DEF CIInv
  <2>2. Wraps /\ bufBegin < last /\ off < n
    BY <1>1, <2>1, KernelMeans
  <2> QED
    BY <1>1, <2>1, <2>2 DEF GapCall, Called
<1>3. /\ first \in Int /\ last \in Int /\ bufBegin \in Int /\ bufEnd \in Int /\ len1 \in Int
      /\ N \in Nat /\ Low \in Int /\ High \in Int /\ len1 = bufEnd - first
      /\ 0 <= bufBegin /\ bufBegin <= first /\ first < bufEnd /\ bufEnd <= N /\ last < first
      /\ bufBegin <= last /\ High = Low + len1 + (last - bufBegin)
      /\ \A p \in first .. bufEnd - 1 :
            p \in Pos /\ ToView(p) = Low + (p - first) /\ TV[p] = ToView(p)
      /\ \A p \in bufBegin .. last - 1 :
            p \in Pos /\ ToView(p) = High - (last - p) /\ TV[p] = ToView(p)
  BY <1>0, SegmentCells
<1>4. off \in Int /\ 0 <= off /\ Low + off < High
  <2>1. off \in Int /\ 0 <= off /\ n \in Int /\ High = Low + n
    BY <1>0, CallNumbers
  <2> QED
    BY <1>0, <1>3, <2>1
<1>5. /\ g \in Pos /\ ToView(g) = Low + off /\ TV[g] = ToView(g) /\ g \in 0 .. N
      /\ off < len1 => g \in first .. bufEnd - 1
      /\ ~ (off < len1) => g \in bufBegin .. last - 1
  <2>1. CASE off < len1
    <3>1. g \in first .. bufEnd - 1 /\ g - first = off
      BY <1>3, <1>4, <2>1
    <3> HIDE DEF g
    <3> QED
      BY <1>3, <1>4, <2>1, <3>1 DEF Pos
  <2>2. CASE ~ (off < len1)
    <3>1. g \in bufBegin .. last - 1 /\ High - (last - g) = Low + off
      BY <1>3, <1>4, <2>2
    <3> HIDE DEF g
    <3> QED
      BY <1>3, <1>4, <2>2, <3>1 DEF Pos
  <2> QED
    BY <2>1, <2>2
<1> HIDE DEF g
<1>6. v[g] \in Pos \cup {Hole}
  BY <1>0, <1>5 DEF TypeOK
<1>7. TypeOK'
  <2>1. v' \in [Pos -> Pos \cup {Hole}] /\ below' \in SUBSET Pos
        /\ offR' \in [0 .. B - 1 -> 0 .. B] /\ tmp' \in Pos \cup {Hole}
    BY <1>0, <1>1, <1>2, <1>6 DEF TypeOK
  <2>2. /\ {lo, loEnd, r2lo, r2end, sfirst, slast, m, pi, pj}' \subseteq 0 .. N
        /\ slotsRem' \in 0 .. N /\ found' \in 0 .. N /\ c1' \in 0 .. N
    BY <1>0, <1>1, <1>2, <1>5 DEF TypeOK
  <2>3. /\ numR' \in 0 .. B /\ run' \in {1, 2} /\ at' \in 0 .. B /\ cnt' \in 0 .. B
        /\ k' \in 0 .. B /\ fused' \in BOOLEAN
    BY <1>0, <1>2 DEF TypeOK
  <2>4. /\ chunk' \in {"A", "B1", "B2"} /\ ret' \in 0 .. N
        /\ pc' \in {"dispatch", "loop", "scan", "filled", "rotate", "second", "bridge",
                    "return", "close", "pull", "putback", "done"}
    BY <1>0, <1>1, <1>2 DEF TypeOK
  <2> QED
    BY <2>1, <2>2, <2>3, <2>4 DEF TypeOK
<1>8. first' = first /\ bufEnd' = bufEnd /\ bufBegin' = bufBegin /\ last' = last /\ off' = off
      /\ VB' = VB /\ Low' = Low /\ High' = High /\ GapCall' /\ Kernel' = Kernel
      /\ \A p : ToView(p)' = ToView(p)
  BY <1>0, <1>2, ViewFixed
<1>9. Travel'
  <2>1. pi' \in first .. bufEnd - 1
    BY <1>0, <1>2, <1>3
  <2> QED
    BY <1>1, <1>5, <1>8, <2>1 DEF Travel
<1>10. RingGap' \in Pos
  BY <1>1, <1>5 DEF RingGap
<1>11. Called'
  <2>1. /\ call \in Calls /\ below \in SUBSET Pos
        /\ NoneIn([p \in Pos |-> p], VB, Low, Low + off)
    BY <1>0 DEF Called
  <2> QED
    BY <1>1, <1>2, <1>8, <2>1 DEF Called, InFill, InGap
<1>12. GP!G!Lift
  <2>1. View(v)' = [View(v) EXCEPT ![Low + off] = Hole]
    <3>1. View(v)' = [View(v) EXCEPT ![TV[g]] = ViewElement(Hole)]
      BY <1>0, <1>1, <1>2, <1>5, <1>7, <1>11, ViewPut
    <3> QED
      BY <1>5, <3>1 DEF ViewElement
  <2>2. ViewElement(tmp)' = View(v)[Low + off]
    <3>1. ViewElement(v[g]) = NewName(TV, v[g])
      BY <1>0, <1>6, ElementName
    <3>2. View(v) = Renamed(TV, FV, v) /\ Mutual(TV, FV)
      BY <1>0, ViewState
    <3>3. FV[Low + off] = g /\ Low + off \in Pos
      BY <1>5, <3>2 DEF Mutual
    <3>4. View(v)[Low + off] = NewName(TV, v[g])
      BY <3>2, <3>3 DEF Renamed, NewName
    <3>5. ViewElement(tmp)' = ViewElement(v[g])
      BY <1>1, <1>8 DEF ViewElement
    <3> QED
      BY <3>1, <3>4, <3>5
  <2>3. /\ (IF ~GapCall \/ pc = "dispatch" THEN "start" ELSE pc) = "start"
        /\ (IF ~GapCall \/ pc = "dispatch" THEN "start" ELSE pc)' = "close"
        /\ (IF GapCall THEN View(v) ELSE [p \in Pos |-> p]) = View(v)
        /\ (IF GapCall THEN View(v) ELSE [p \in Pos |-> p])' = View(v)'
        /\ (IF GapCall THEN ViewElement(tmp) ELSE Hole)' = ViewElement(tmp)'
        /\ (IF pc = "dispatch" THEN ViewFirst ELSE ToView(pj))' = Low + off
        /\ UNCHANGED (IF pc = "done" /\ GapCall THEN ViewFirst + ret ELSE ToView(pi))
    <3>1. ToView(pj)' = Low + off
      BY <1>1, <1>5, <1>8
    <3>2. ToView(pi)' = ToView(pi)
      BY <1>2, <1>8
    <3> QED
      BY <1>0, <1>1, <1>8, <3>1, <3>2
  <2>4. Low + off < High
    BY <1>4
  <2> QED
    BY <1>8, <2>1, <2>2, <2>3, <2>4 DEF GP!G!Lift, GP!G!args, GP!G!Hole, Hole, VB, Low, High
<1>13. [GP!G!Next]_(GP!G!vars)
  BY <1>12 DEF GP!G!Next
<1>14. CIInv'
  BY <1>0, <1>1, <1>2, <1>7, <1>9, <1>10, <1>13, GapServed
<1> QED
  BY <1>12, <1>14

\* The gap is closed: the element at the boundary is moved into it.
LEMMA GapClosed ==
    ASSUME CIInv, pc = "close", v' = [v EXCEPT ![pj] = v[pi], ![pi] = Hole],
           pc' \in {"pull", "putback"}, pc' = "putback" => chunk # "A",
           UNCHANGED <<below, fillVars, tmp, call, c1, gapVars, ret>>,
           pc' = "pull" <=> ToView(pj) < High - 1, pc' = "putback" <=> ToView(pj) = High - 1
    PROVE  CIInv' /\ (GP!G!CloseGap \/ GP!G!CloseLast)
<1>1. /\ lo' = lo /\ loEnd' = loEnd /\ r2lo' = r2lo /\ r2end' = r2end /\ sfirst' = sfirst
      /\ slast' = slast /\ slotsRem' = slotsRem /\ fused' = fused /\ c1' = c1
      /\ found' = found /\ offR' = offR /\ numR' = numR /\ run' = run /\ tmp' = tmp
      /\ at' = at /\ cnt' = cnt /\ k' = k /\ m' = m /\ below' = below /\ call' = call
      /\ pi' = pi /\ pj' = pj /\ chunk' = chunk /\ ret' = ret
  BY DEF fillVars, slots, tally, buf, piece, gapVars
<1>2. /\ GapCall /\ Wraps /\ TypeOK /\ Called /\ pi \in Pos /\ pj \in Pos
      /\ TV[pi] = ToView(pi) /\ TV[pj] = ToView(pj) /\ Travel
  BY GapPlaces DEF InGap, CIInv
<1>3. /\ first' = first /\ bufEnd' = bufEnd /\ bufBegin' = bufBegin /\ last' = last /\ off' = off
      /\ VB' = VB /\ Low' = Low /\ High' = High /\ GapCall' /\ Kernel' = Kernel
      /\ \A p : ToView(p)' = ToView(p)
  BY <1>1, <1>2, ViewFixed
<1>4. TypeOK'
  <2>1. v' \in [Pos -> Pos \cup {Hole}]
    <3>1. v \in [Pos -> Pos \cup {Hole}] /\ v[pi] \in Pos \cup {Hole}
      BY <1>2 DEF TypeOK
    <3> QED
      BY <1>2, <3>1
  <2> QED
    BY <1>1, <1>2, <2>1 DEF TypeOK
<1>5. Travel'
  BY <1>1, <1>2, <1>3 DEF Travel, InGap
<1>6. RingGap' \in Pos /\ RingGap \in Pos
  BY <1>1, <1>2 DEF RingGap
<1>7. Called'
  <2>1. /\ call \in Calls /\ below \in SUBSET Pos
        /\ NoneIn([p \in Pos |-> p], VB, Low, Low + off)
    BY <1>2 DEF Called
  <2> QED
    BY <1>1, <1>3, <2>1 DEF Called, InFill, InGap
<1>8. GP!G!CloseGap \/ GP!G!CloseLast
  <2>1. View(v)' = [View(v) EXCEPT ![ToView(pj)] = View(v)[ToView(pi)], ![ToView(pi)] = Hole]
    <3>1. View(v)' = [View(v) EXCEPT ![TV[pj]] = View(v)[TV[pi]], ![TV[pi]] = Hole]
      BY <1>1, <1>2, <1>4, <1>7, ViewMoved
    <3> QED
      BY <1>2, <3>1
  <2>2. ViewElement(tmp)' = ViewElement(tmp) /\ ToView(pi)' = ToView(pi)
        /\ ToView(pj)' = ToView(pj)
    BY <1>1, <1>3 DEF ViewElement
  <2>3. /\ (IF ~GapCall \/ pc = "dispatch" THEN "start" ELSE pc) = "close"
        /\ (IF ~GapCall \/ pc = "dispatch" THEN "start" ELSE pc)' = pc'
        /\ (IF GapCall THEN View(v) ELSE [p \in Pos |-> p]) = View(v)
        /\ (IF GapCall THEN View(v) ELSE [p \in Pos |-> p])' = View(v)'
        /\ UNCHANGED (IF GapCall THEN ViewElement(tmp) ELSE Hole)
        /\ (IF pc = "dispatch" THEN ViewFirst ELSE ToView(pj)) = ToView(pj)
        /\ UNCHANGED (IF pc = "dispatch" THEN ViewFirst ELSE ToView(pj))
        /\ (IF pc = "done" /\ GapCall THEN ViewFirst + ret ELSE ToView(pi)) = ToView(pi)
        /\ UNCHANGED (IF pc = "done" /\ GapCall THEN ViewFirst + ret ELSE ToView(pi))
    BY <1>2, <1>3, <2>2
  <2>4. CASE pc' = "pull"
    BY <1>3, <2>1, <2>3, <2>4 DEF GP!G!CloseGap, GP!G!args, GP!G!Hole, Hole, VB, Low, High
  <2>5. CASE pc' = "putback"
    BY <1>3, <2>1, <2>3, <2>5 DEF GP!G!CloseLast, GP!G!args, GP!G!Hole, Hole, VB, Low, High
  <2> QED
    BY <2>4, <2>5
<1>9. [GP!G!Next]_(GP!G!vars)
  BY <1>8 DEF GP!G!Next
<1>10. CIInv'
  BY <1>1, <1>2, <1>4, <1>5, <1>6, <1>9, GapServed
<1> QED
  BY <1>8, <1>10

LEMMA CGapClose == ASSUME CIInv, GapClose PROVE CIInv' /\ (GP!G!CloseGap \/ GP!G!CloseLast)
<1>1. /\ pc = "close" /\ ~GapLast /\ v' = [v EXCEPT ![pj] = v[pi], ![pi] = Hole] /\ pc' = "pull"
      /\ UNCHANGED <<below, fillVars, tmp, call, c1, gapVars, ret>>
  BY DEF GapClose
<1>2. GapCall /\ Called /\ Wraps /\ ToView(pj) \in Int /\ ToView(pj) < High /\ Travel /\ TypeOK
  BY <1>1, GapPlaces DEF InGap, CIInv
<1>3. ToView(pj) < High - 1
  <2>1. /\ first \in Int /\ last \in Int /\ bufBegin \in Int /\ bufEnd \in Int /\ len1 \in Int
        /\ Low \in Int /\ High \in Int /\ len1 = bufEnd - first
        /\ High = Low + len1 + (last - bufBegin)
        /\ \A p \in first .. bufEnd - 1 : ToView(p) = Low + (p - first)
        /\ \A p \in bufBegin .. last - 1 : ToView(p) = High - (last - p)
    BY <1>2, SegmentCells
  <2>2. bufBegin < last
    BY <1>2, KernelMeans DEF GapCall
  <2>3. CASE chunk = "A"
    <3>1. pj \in first .. bufEnd - 1
      BY <1>1, <1>2, <2>3 DEF Travel, InGap
    <3> QED
      BY <2>1, <2>2, <3>1
  <2>4. CASE chunk # "A"
    <3>1. pj \in bufBegin .. last - 1 /\ pj # last - 1
      BY <1>1, <1>2, <2>4 DEF Travel, InGap, GapLast, TypeOK
    <3> QED
      BY <2>1, <3>1
  <2> QED
    BY <2>3, <2>4
<1>4. High \in Int
  BY <1>2, CallNumbers
<1>5. ToView(pj) # High - 1
  BY <1>2, <1>3, <1>4
<1> QED
  BY <1>1, <1>3, <1>5, GapClosed

LEMMA CGapCloseLast == ASSUME CIInv, GapCloseLast PROVE CIInv' /\ (GP!G!CloseGap \/ GP!G!CloseLast)
<1>1. /\ pc = "close" /\ chunk # "A" /\ pj = last - 1
      /\ v' = [v EXCEPT ![pj] = v[pi], ![pi] = Hole] /\ pc' = "putback"
      /\ UNCHANGED <<below, fillVars, tmp, call, c1, gapVars, ret>>
  BY DEF GapCloseLast, GapLast
<1>2. GapCall /\ Called /\ Wraps /\ ToView(pj) \in Int /\ Travel /\ TypeOK
  BY <1>1, GapPlaces DEF InGap, CIInv
<1>3. ToView(pj) = High - 1 /\ ~ (ToView(pj) < High - 1)
  <2>1. /\ last \in Int /\ bufBegin \in Int /\ High \in Int
        /\ \A p \in bufBegin .. last - 1 : ToView(p) = High - (last - p)
    BY <1>2, SegmentCells
  <2>2. pj \in bufBegin .. last - 1
    BY <1>1, <1>2 DEF Travel, InGap, TypeOK
  <2> QED
    BY <1>1, <2>1, <2>2
<1> QED
  BY <1>1, <1>3, GapClosed

\* The element at the cell x behind the gap is moved to the boundary, and its
\* cell is the gap: what is common to the three loops.
LEMMA GapPulled ==
    ASSUME CIInv, NEW x \in Pos, GapPull(x), NEW p \in 0 .. N, p = pi',
           chunk' \in {"A", "B1", "B2"}, Travel', ToView(x) = ToView(pj) + 1,
           ToView(p) = ToView(pi) + Advance(v[x]), TV[x] = ToView(x)
    PROVE  CIInv' /\ GP!G!Pull
<1>1. /\ pc = "pull" /\ pc' = "close" /\ v' = [v EXCEPT ![pi] = v[x], ![x] = Hole] /\ pj' = x
      /\ lo' = lo /\ loEnd' = loEnd /\ r2lo' = r2lo /\ r2end' = r2end /\ sfirst' = sfirst
      /\ slast' = slast /\ slotsRem' = slotsRem /\ fused' = fused /\ c1' = c1
      /\ found' = found /\ offR' = offR /\ numR' = numR /\ run' = run /\ tmp' = tmp
      /\ at' = at /\ cnt' = cnt /\ k' = k /\ m' = m /\ below' = below /\ call' = call
      /\ ret' = ret
  BY DEF GapPull, fillVars, slots, tally, buf, piece
<1>2. /\ GapCall /\ TypeOK /\ Called /\ pi \in Pos /\ TV[pi] = ToView(pi)
  BY <1>1, GapPlaces DEF InGap
<1>3. /\ first' = first /\ bufEnd' = bufEnd /\ bufBegin' = bufBegin /\ last' = last /\ off' = off
      /\ VB' = VB /\ Low' = Low /\ High' = High /\ GapCall' /\ Kernel' = Kernel
      /\ \A q : ToView(q)' = ToView(q)
  BY <1>1, <1>2, ViewFixed
<1>4. v[x] \in Pos \cup {Hole}
  BY <1>2 DEF TypeOK
<1>5. TypeOK'
  <2>1. v' \in [Pos -> Pos \cup {Hole}]
    <3>1. v \in [Pos -> Pos \cup {Hole}]
      BY <1>2 DEF TypeOK
    <3> QED
      BY <1>1, <1>2, <1>4, <3>1
  <2>2. pj' \in 0 .. N /\ pi' \in 0 .. N
    BY <1>1, NAssumption DEF Pos
  <2>3. {lo, loEnd, r2lo, r2end, sfirst, slast, m, pi, pj}' \subseteq 0 .. N
    <3>1. {lo, loEnd, r2lo, r2end, sfirst, slast, m} \subseteq 0 .. N
      BY <1>2 DEF TypeOK
    <3> QED
      BY <1>1, <2>2, <3>1
  <2>4. /\ below' \in SUBSET Pos
        /\ slotsRem' \in 0 .. N /\ found' \in 0 .. N /\ c1' \in 0 .. N
        /\ offR' \in [0 .. B - 1 -> 0 .. B] /\ numR' \in 0 .. B
        /\ run' \in {1, 2} /\ at' \in 0 .. B /\ cnt' \in 0 .. B /\ k' \in 0 .. B
        /\ fused' \in BOOLEAN
        /\ tmp' \in Pos \cup {Hole}
        /\ ret' \in 0 .. N
    BY <1>1, <1>2 DEF TypeOK
  <2>5. chunk' \in {"A", "B1", "B2"} /\ pc' = "close"
    BY <1>1
  <2> QED
    BY <2>1, <2>3, <2>4, <2>5 DEF TypeOK
<1>6. RingGap' \in Pos /\ RingGap \in Pos
  BY <1>1, <1>2 DEF RingGap
<1>7. Called'
  <2>1. /\ call \in Calls /\ below \in SUBSET Pos
        /\ NoneIn([q \in Pos |-> q], VB, Low, Low + off)
    BY <1>2 DEF Called
  <2> QED
    BY <1>1, <1>3, <2>1 DEF Called, InFill, InGap
<1>8. GP!G!Pull
  <2>1. View(v)' = [View(v) EXCEPT ![ToView(pi)] = View(v)[ToView(pj) + 1],
                                   ![ToView(pj) + 1] = Hole]
    <3>1. View(v)' = [View(v) EXCEPT ![TV[pi]] = View(v)[TV[x]], ![TV[x]] = Hole]
      BY <1>1, <1>2, <1>5, <1>7, ViewMoved
    <3>2. TV[x] = ToView(pj) + 1
      OBVIOUS
    <3> QED
      BY <1>2, <3>1, <3>2
  <2>2. ViewElement(tmp)' = ViewElement(tmp) /\ ToView(pj)' = ToView(pj) + 1
    BY <1>1, <1>3 DEF ViewElement
  <2>3. ToView(pi)' = ToView(pi) + GP!G!Advance(View(v)[ToView(pj) + 1])
    <3>1. View(v)[ToView(pj) + 1] = ViewElement(v[x])
      <4>1. View(v) = Renamed(TV, FV, v) /\ Mutual(TV, FV)
        BY <1>2, ViewState
      <4>2. TV[x] \in Pos /\ FV[TV[x]] = x
        BY <4>1 DEF Mutual
      <4>3. View(v)[TV[x]] = NewName(TV, v[x])
        BY <4>1, <4>2 DEF Renamed, NewName
      <4> QED
        BY <1>2, <1>4, <4>3, ElementName
    <3>2. GP!G!Advance(ViewElement(v[x])) = Advance(v[x])
      BY <1>2, <1>4, AdvanceView
    <3>3. ToView(pi)' = ToView(p)
      BY <1>3
    <3> QED
      BY <3>1, <3>2, <3>3
  <2>4. /\ (IF ~GapCall \/ pc = "dispatch" THEN "start" ELSE pc) = "pull"
        /\ (IF ~GapCall \/ pc = "dispatch" THEN "start" ELSE pc)' = "close"
        /\ (IF GapCall THEN View(v) ELSE [q \in Pos |-> q]) = View(v)
        /\ (IF GapCall THEN View(v) ELSE [q \in Pos |-> q])' = View(v)'
        /\ UNCHANGED (IF GapCall THEN ViewElement(tmp) ELSE Hole)
        /\ (IF pc = "dispatch" THEN ViewFirst ELSE ToView(pj)) = ToView(pj)
        /\ (IF pc = "dispatch" THEN ViewFirst ELSE ToView(pj))' = ToView(pj)'
        /\ (IF pc = "done" /\ GapCall THEN ViewFirst + ret ELSE ToView(pi)) = ToView(pi)
        /\ (IF pc = "done" /\ GapCall THEN ViewFirst + ret ELSE ToView(pi))' = ToView(pi)'
    BY <1>1, <1>2, <1>3, <2>2
  <2> QED
    BY <1>3, <2>1, <2>2, <2>3, <2>4 DEF GP!G!Pull, GP!G!args, GP!G!Hole, Hole, VB, Low, High
<1>9. [GP!G!Next]_(GP!G!vars)
  BY <1>8 DEF GP!G!Next
<1>10. CIInv'
  BY <1>1, <1>2, <1>5, <1>6, <1>9, GapServed
<1> QED
  BY <1>8, <1>10

\* What the three loops start from.
LEMMA PullFacts ==
    ASSUME CIInv, pc = "pull"
    PROVE  /\ GapCall /\ Called /\ Wraps /\ Travel /\ TypeOK /\ InGap
           /\ pi \in Int /\ pj \in Int /\ ToView(pi) <= ToView(pj) /\ ToView(pj) < High - 1
           /\ \A x \in Pos : Advance(v[x]) \in {0, 1}
<1>1. /\ GapCall /\ Called /\ Wraps /\ TypeOK /\ Travel /\ InGap
      /\ pi \in Pos /\ pj \in Pos /\ ToView(pi) <= ToView(pj) /\ ToView(pj) < High - 1
  BY GapPlaces DEF InGap, CIInv
<1>2. pi \in Int /\ pj \in Int
  BY <1>1 DEF Pos
<1> QED
  BY <1>1, <1>2 DEF Advance

LEMMA CPullFlat == ASSUME CIInv, PullFlat PROVE CIInv' /\ GP!G!Pull
<1>1. /\ chunk = "A" /\ pj # bufEnd - 1 /\ GapPull(pj + 1) /\ pi' = pi + Advance(v[pj + 1])
      /\ chunk' = chunk /\ pc = "pull" /\ call' = call /\ below' = below /\ pj' = pj + 1
      /\ pc' = "close"
  BY DEF PullFlat, GapPull
<1>2. /\ Called /\ Wraps /\ pi \in Int /\ pj \in Int
      /\ ToView(pi) <= ToView(pj) /\ \A x \in Pos : Advance(v[x]) \in {0, 1}
      /\ pi \in first .. bufEnd - 1 /\ pj \in first .. bufEnd - 1
  BY <1>1, PullFacts DEF Travel
<1>3. /\ first \in Int /\ bufEnd \in Int /\ Low \in Int /\ N \in Nat /\ 0 <= first /\ bufEnd <= N
      /\ \A q \in first .. bufEnd - 1 :
            q \in Pos /\ ToView(q) = Low + (q - first) /\ TV[q] = ToView(q)
  <2>1. /\ bufBegin \in Int /\ 0 <= bufBegin /\ bufBegin <= first
    BY <1>2, SegmentCells
  <2> QED
    BY <1>2, <2>1, SegmentCells
<1>4. PICK x \in Int : x = pj + 1
  BY <1>2
<1>5. x \in first .. bufEnd - 1 /\ x \in Pos /\ ToView(x) = ToView(pj) + 1 /\ TV[x] = ToView(x)
  <2>1. x \in first .. bufEnd - 1 /\ x - first = (pj - first) + 1
    BY <1>1, <1>2, <1>3, <1>4
  <2>2. ToView(x) = Low + (x - first) /\ ToView(pj) = Low + (pj - first)
    BY <1>2, <1>3, <2>1
  <2> QED
    BY <1>2, <1>3, <2>1, <2>2
<1>6. PICK a \in {0, 1} : a = Advance(v[x])
  BY <1>2, <1>5
<1>7. PICK p \in Int : p = pi + a
  BY <1>2
<1>8. p \in first .. bufEnd - 1 /\ ToView(p) = ToView(pi) + a /\ p \in 0 .. N
  <2>1. pi <= pj
    BY <1>2, <1>3
  <2>2. p \in first .. bufEnd - 1 /\ p - first = (pi - first) + a /\ p \in 0 .. N
    BY <1>2, <1>3, <1>4, <1>5, <1>7, <2>1
  <2>3. ToView(p) = Low + (p - first) /\ ToView(pi) = Low + (pi - first)
    BY <1>2, <1>3, <2>2
  <2> QED
    BY <1>2, <1>3, <2>2, <2>3
<1>9. p = pi' /\ pj' = x /\ chunk' = "A"
  BY <1>1, <1>4, <1>6, <1>7
<1>10. Travel'
  <2>1. first' = first /\ bufEnd' = bufEnd
    BY <1>1, ViewFixed
  <2> QED
    BY <1>1, <1>5, <1>8, <1>9, <2>1 DEF Travel
<1>11. GapPull(x)
  BY <1>1, <1>4
<1>12. ToView(p) = ToView(pi) + Advance(v[x])
  BY <1>6, <1>8
<1> QED
  BY <1>5, <1>8, <1>9, <1>10, <1>11, <1>12, GapPulled

LEMMA CPullAcross == ASSUME CIInv, PullAcross PROVE CIInv' /\ GP!G!Pull
<1>1. /\ chunk = "A" /\ pj = bufEnd - 1 /\ GapPull(bufBegin)
      /\ pi' = (IF pi + Advance(v[bufBegin]) = bufEnd THEN bufBegin
                ELSE pi + Advance(v[bufBegin]))
      /\ chunk' = (IF pi + Advance(v[bufBegin]) = bufEnd THEN "B2" ELSE "B1")
      /\ pc = "pull" /\ call' = call /\ below' = below /\ pj' = bufBegin
      /\ pc' = "close"
  BY DEF PullAcross, GapPull
<1>2. /\ Called /\ Wraps /\ pi \in Int /\ pj \in Int /\ GapCall
      /\ ToView(pi) <= ToView(pj) /\ \A x \in Pos : Advance(v[x]) \in {0, 1}
      /\ pi \in first .. bufEnd - 1 /\ pj \in first .. bufEnd - 1
  BY <1>1, PullFacts DEF Travel
<1>3. /\ first \in Int /\ bufEnd \in Int /\ Low \in Int /\ High \in Int /\ last \in Int
      /\ N \in Nat /\ bufBegin \in Int /\ 0 <= bufBegin /\ bufBegin <= first /\ bufEnd <= N
      /\ bufBegin < last /\ High = Low + (bufEnd - first) + (last - bufBegin)
      /\ \A q \in first .. bufEnd - 1 :
            q \in Pos /\ ToView(q) = Low + (q - first) /\ TV[q] = ToView(q)
      /\ \A q \in bufBegin .. last - 1 :
            q \in Pos /\ ToView(q) = High - (last - q) /\ TV[q] = ToView(q)
  <2>1. bufBegin < last
    BY <1>2, KernelMeans DEF GapCall
  <2> QED
    BY <1>2, <2>1, SegmentCells
<1>4. /\ bufBegin \in bufBegin .. last - 1 /\ bufBegin \in Pos /\ bufBegin \in 0 .. N
      /\ TV[bufBegin] = ToView(bufBegin) /\ ToView(bufBegin) = Low + (bufEnd - first)
      /\ ToView(bufBegin) = ToView(pj) + 1
  <2>1. bufBegin \in bufBegin .. last - 1
    BY <1>3
  <2>2. ToView(bufBegin) = High - (last - bufBegin) /\ ToView(pj) = Low + (pj - first)
    BY <1>2, <1>3, <2>1
  <2> QED
    BY <1>1, <1>2, <1>3, <2>1, <2>2 DEF Pos
<1>5. PICK a \in {0, 1} : a = Advance(v[bufBegin])
  BY <1>2, <1>4
<1>6. PICK p \in Int : p = IF pi + a = bufEnd THEN bufBegin ELSE pi + a
  BY <1>2, <1>3
<1>7. p = pi' /\ chunk' \in {"A", "B1", "B2"}
  BY <1>1, <1>5, <1>6
<1>8. CASE pi + a = bufEnd
  <2>1. p = bufBegin /\ ToView(pi) = Low + (pi - first)
    BY <1>2, <1>3, <1>6, <1>8
  <2>2. ToView(p) = ToView(pi) + a
    BY <1>2, <1>3, <1>4, <1>8, <2>1
  <2>3. Travel'
    <3>1. chunk' = "B2"
      BY <1>1, <1>5, <1>8
    <3>2. bufBegin' = bufBegin /\ last' = last
      BY <1>1, ViewFixed
    <3> QED
      BY <1>1, <1>4, <1>7, <2>1, <3>1, <3>2 DEF Travel
  <2>4. ToView(p) = ToView(pi) + Advance(v[bufBegin]) /\ p \in 0 .. N
    BY <1>4, <1>5, <2>1, <2>2
  <2> QED
    BY <1>1, <1>4, <1>7, <2>3, <2>4, GapPulled
<1>9. CASE pi + a # bufEnd
  <2>1. p \in first .. bufEnd - 1 /\ p = pi + a /\ p \in 0 .. N
    BY <1>2, <1>3, <1>6, <1>9
  <2>2. ToView(p) = ToView(pi) + a
    <3>1. ToView(p) = Low + (p - first) /\ ToView(pi) = Low + (pi - first)
      BY <1>2, <1>3, <2>1
    <3> QED
      BY <1>2, <1>3, <2>1, <3>1
  <2>3. Travel'
    <3>1. chunk' = "B1"
      BY <1>1, <1>5, <1>9
    <3>2. bufBegin' = bufBegin /\ last' = last /\ first' = first /\ bufEnd' = bufEnd
      BY <1>1, ViewFixed
    <3> QED
      BY <1>1, <1>4, <1>7, <2>1, <3>1, <3>2 DEF Travel
  <2>4. ToView(p) = ToView(pi) + Advance(v[bufBegin])
    BY <1>5, <2>2
  <2> QED
    BY <1>1, <1>4, <1>7, <2>1, <2>3, <2>4, GapPulled
<1> QED
  BY <1>8, <1>9

LEMMA CPullBeforeWrap == ASSUME CIInv, PullBeforeWrap PROVE CIInv' /\ GP!G!Pull
<1>1. /\ chunk = "B1" /\ GapPull(pj + 1)
      /\ (pi + Advance(v[pj + 1]) = bufEnd => pi' = bufBegin /\ chunk' = "B2")
      /\ (pi + Advance(v[pj + 1]) # bufEnd
              => pi' = pi + Advance(v[pj + 1]) /\ chunk' = chunk)
      /\ pc = "pull" /\ call' = call /\ below' = below /\ pj' = pj + 1
      /\ pc' = "close"
  BY DEF PullBeforeWrap, GapPull
<1>2. /\ Called /\ Wraps /\ pi \in Int /\ pj \in Int /\ GapCall
      /\ ToView(pj) < High - 1 /\ \A x \in Pos : Advance(v[x]) \in {0, 1}
      /\ pi \in first .. bufEnd - 1 /\ pj \in bufBegin .. last - 1
  BY <1>1, PullFacts DEF Travel
<1>3. /\ first \in Int /\ bufEnd \in Int /\ Low \in Int /\ High \in Int /\ last \in Int
      /\ N \in Nat /\ bufBegin \in Int /\ 0 <= bufBegin /\ bufBegin <= first
      /\ first < bufEnd /\ bufEnd <= N /\ bufBegin < last /\ High = Low + (bufEnd - first) + (last - bufBegin)
      /\ \A q \in first .. bufEnd - 1 :
            q \in Pos /\ ToView(q) = Low + (q - first) /\ TV[q] = ToView(q)
      /\ \A q \in bufBegin .. last - 1 :
            q \in Pos /\ ToView(q) = High - (last - q) /\ TV[q] = ToView(q)
  <2>1. bufBegin < last
    BY <1>2, KernelMeans DEF GapCall
  <2> QED
    BY <1>2, <2>1, SegmentCells
<1>4. PICK x \in Int : x = pj + 1
  BY <1>2
<1>5. /\ x \in bufBegin .. last - 1 /\ x \in Pos /\ TV[x] = ToView(x)
      /\ ToView(x) = ToView(pj) + 1
  <2>1. ToView(pj) = High - (last - pj)
    BY <1>2, <1>3
  <2>2. x \in bufBegin .. last - 1
    BY <1>2, <1>3, <1>4, <2>1
  <2>3. ToView(x) = High - (last - x)
    BY <1>3, <2>2
  <2> QED
    BY <1>2, <1>3, <1>4, <2>1, <2>2, <2>3
<1>6. PICK a \in {0, 1} : a = Advance(v[x])
  BY <1>2, <1>5
<1>7. pj' = x /\ GapPull(x)
  BY <1>1, <1>4
<1>8. CASE pi + a = bufEnd
  <2>1. pi' = bufBegin /\ chunk' = "B2"
    BY <1>1, <1>4, <1>6, <1>8
  <2>2. bufBegin \in bufBegin .. last - 1 /\ bufBegin \in 0 .. N
    BY <1>3
  <2>3. ToView(bufBegin) = ToView(pi) + a
    <3>1. ToView(bufBegin) = High - (last - bufBegin) /\ ToView(pi) = Low + (pi - first)
      BY <1>2, <1>3, <2>2
    <3> QED
      BY <1>2, <1>3, <1>8, <3>1
  <2>4. Travel'
    <3>1. bufBegin' = bufBegin /\ last' = last
      BY <1>1, ViewFixed
    <3> QED
      BY <1>5, <1>7, <2>1, <2>2, <3>1, <1>1 DEF Travel
  <2>5. ToView(bufBegin) = ToView(pi) + Advance(v[x]) /\ chunk' \in {"A", "B1", "B2"}
    BY <1>6, <2>1, <2>3
  <2> QED
    BY <1>5, <1>7, <2>1, <2>2, <2>4, <2>5, GapPulled
<1>9. CASE pi + a # bufEnd
  <2>1. PICK p \in Int : p = pi + a
    BY <1>2
  <2>2. pi' = p /\ chunk' = "B1"
    BY <1>1, <1>4, <1>6, <1>9, <2>1
  <2>3. p \in first .. bufEnd - 1 /\ p \in 0 .. N
    BY <1>2, <1>3, <1>9, <2>1
  <2>4. ToView(p) = ToView(pi) + a
    <3>1. ToView(p) = Low + (p - first) /\ ToView(pi) = Low + (pi - first)
      BY <1>2, <1>3, <2>3
    <3> QED
      BY <1>2, <1>3, <2>1, <3>1
  <2>5. Travel'
    <3>1. bufBegin' = bufBegin /\ last' = last /\ first' = first /\ bufEnd' = bufEnd
      BY <1>1, ViewFixed
    <3> QED
      BY <1>1, <1>5, <1>7, <2>2, <2>3, <3>1 DEF Travel
  <2>6. ToView(p) = ToView(pi) + Advance(v[x]) /\ chunk' \in {"A", "B1", "B2"}
    BY <1>6, <2>2, <2>4
  <2> QED
    BY <1>5, <1>7, <2>2, <2>3, <2>5, <2>6, GapPulled
<1> QED
  BY <1>8, <1>9

LEMMA CPullAfterWrap == ASSUME CIInv, PullAfterWrap PROVE CIInv' /\ GP!G!Pull
<1>1. /\ chunk = "B2" /\ GapPull(pj + 1) /\ pi' = pi + Advance(v[pj + 1])
      /\ chunk' = chunk /\ pc = "pull" /\ call' = call /\ below' = below /\ pj' = pj + 1
      /\ pc' = "close"
  BY DEF PullAfterWrap, GapPull
<1>2. /\ Called /\ Wraps /\ pi \in Int /\ pj \in Int
      /\ ToView(pi) <= ToView(pj) /\ ToView(pj) < High - 1
      /\ \A x \in Pos : Advance(v[x]) \in {0, 1}
      /\ pi \in bufBegin .. last - 1 /\ pj \in bufBegin .. last - 1
  BY <1>1, PullFacts DEF Travel
<1>3. /\ High \in Int /\ last \in Int
      /\ N \in Nat /\ bufBegin \in Int /\ 0 <= bufBegin /\ last <= N
      /\ \A q \in bufBegin .. last - 1 :
            q \in Pos /\ ToView(q) = High - (last - q) /\ TV[q] = ToView(q)
  <2>1. first \in Int /\ bufEnd \in Int /\ last < first /\ first < bufEnd /\ bufEnd <= N /\ N \in Nat
        /\ last \in Int
    BY <1>2, SegmentCells
  <2>2. last <= N
    BY <2>1
  <2> QED
    BY <1>2, <2>2, SegmentCells
<1>4. PICK x \in Int : x = pj + 1
  BY <1>2
<1>5. /\ x \in bufBegin .. last - 1 /\ x \in Pos /\ TV[x] = ToView(x)
      /\ ToView(x) = ToView(pj) + 1
  <2>1. ToView(pj) = High - (last - pj)
    BY <1>2, <1>3
  <2>2. x \in bufBegin .. last - 1
    BY <1>2, <1>3, <1>4, <2>1
  <2>3. ToView(x) = High - (last - x)
    BY <1>3, <2>2
  <2> QED
    BY <1>2, <1>3, <1>4, <2>1, <2>2, <2>3
<1>6. PICK a \in {0, 1} : a = Advance(v[x])
  BY <1>2, <1>5
<1>7. PICK p \in Int : p = pi + a
  BY <1>2
<1>8. p \in bufBegin .. last - 1 /\ ToView(p) = ToView(pi) + a /\ p \in 0 .. N
  <2>1. pi <= pj
    <3>1. ToView(pi) = High - (last - pi) /\ ToView(pj) = High - (last - pj)
      BY <1>2, <1>3
    <3> QED
      BY <1>2, <1>3, <3>1
  <2>2. p \in bufBegin .. last - 1 /\ p \in 0 .. N
    BY <1>2, <1>3, <1>4, <1>5, <1>7, <2>1
  <2>3. ToView(p) = High - (last - p) /\ ToView(pi) = High - (last - pi)
    BY <1>2, <1>3, <2>2
  <2> QED
    BY <1>2, <1>3, <1>7, <2>2, <2>3
<1>9. p = pi' /\ pj' = x /\ chunk' = "B2"
  BY <1>1, <1>4, <1>6, <1>7
<1>10. Travel'
  <2>1. bufBegin' = bufBegin /\ last' = last
    BY <1>1, ViewFixed
  <2> QED
    BY <1>1, <1>5, <1>8, <1>9, <2>1 DEF Travel
<1>11. GapPull(x)
  BY <1>1, <1>4
<1>12. ToView(p) = ToView(pi) + Advance(v[x])
  BY <1>6, <1>8
<1> QED
  BY <1>5, <1>8, <1>9, <1>10, <1>11, <1>12, GapPulled

LEMMA CGapPutBack == ASSUME CIInv, GapPutBack PROVE CIInv' /\ GP!G!PutBack
<1>1. /\ pc = "putback" /\ pc' = "done" /\ v' = [v EXCEPT ![pi] = tmp] /\ tmp' = Hole
      /\ ret' = (IF pi >= first THEN pi - first ELSE len1 + (pi - bufBegin)) + Advance(tmp)
      /\ lo' = lo /\ loEnd' = loEnd /\ r2lo' = r2lo /\ r2end' = r2end /\ sfirst' = sfirst
      /\ slast' = slast /\ slotsRem' = slotsRem /\ fused' = fused /\ c1' = c1
      /\ found' = found /\ offR' = offR /\ numR' = numR /\ run' = run
      /\ at' = at /\ cnt' = cnt /\ k' = k /\ m' = m /\ below' = below /\ call' = call
      /\ pi' = pi /\ pj' = pj /\ chunk' = chunk
  BY DEF GapPutBack, fillVars, slots, tally, buf, piece, gapVars
<1>2. /\ GapCall /\ Wraps /\ TypeOK /\ Called /\ pi \in Pos /\ TV[pi] = ToView(pi)
      /\ ToView(pi) <= ToView(pj) /\ ToView(pj) < High /\ ToView(pi) \in Int
      /\ ToView(pj) \in Int /\ Travel
  BY <1>1, GapPlaces DEF InGap, CIInv
<1>3. /\ first \in Int /\ last \in Int /\ bufBegin \in Int /\ bufEnd \in Int /\ len1 \in Int
      /\ N \in Nat /\ Low \in Int /\ High \in Int /\ len1 = bufEnd - first
      /\ 0 <= bufBegin /\ bufBegin <= first /\ first < bufEnd /\ bufEnd <= N /\ last < first
      /\ bufBegin <= last /\ High = Low + len1 + (last - bufBegin)
      /\ \A p \in first .. bufEnd - 1 : ToView(p) = Low + (p - first)
      /\ \A p \in bufBegin .. last - 1 : ToView(p) = High - (last - p)
  BY <1>2, SegmentCells
<1>4. PICK b \in Nat :
          /\ b = IF pi >= first THEN pi - first ELSE len1 + (pi - bufBegin)
          /\ ToView(pi) = Low + b
  <2>1. CASE chunk = "B1"
    <3>1. pi \in first .. bufEnd - 1
      BY <1>1, <1>2, <2>1 DEF Travel, InGap
    <3>2. pi >= first /\ pi - first \in Nat /\ ToView(pi) = Low + (pi - first)
      BY <1>3, <3>1
    <3> QED
      BY <3>2
  <2>2. CASE chunk = "B2"
    <3>1. pi \in bufBegin .. last - 1
      BY <1>1, <1>2, <2>2 DEF Travel, InGap
    <3>2. ~ (pi >= first) /\ len1 + (pi - bufBegin) \in Nat
      BY <1>3, <3>1
    <3>3. ToView(pi) = Low + (len1 + (pi - bufBegin))
      BY <1>3, <3>1
    <3> QED
      BY <3>2, <3>3
  <2> QED
    BY <1>1, <1>2, <2>1, <2>2 DEF Travel, InGap, TypeOK
<1>5. tmp \in Pos \cup {Hole}
  BY <1>2 DEF TypeOK
<1>6. PICK a \in {0, 1} : a = Advance(tmp) /\ a = GP!G!Advance(ViewElement(tmp))
  BY <1>2, <1>5, AdvanceView
<1>7. PICK r \in 0 .. N : r = b + a /\ r = ret' /\ Low + r = ToView(pi) + a
  <2>1. ret' = b + a
    BY <1>1, <1>4, <1>6
  <2>2. Low + b < High
    BY <1>2, <1>3, <1>4
  <2>3. High <= bufEnd /\ bufBegin <= Low
    BY <1>2, CallNumbers
  <2>4. b + a \in 0 .. N /\ Low + (b + a) = Low + b + a
    BY <1>3, <2>2, <2>3
  <2> QED
    BY <1>4, <2>1, <2>4
<1>8. /\ first' = first /\ bufEnd' = bufEnd /\ bufBegin' = bufBegin /\ last' = last /\ off' = off
      /\ VB' = VB /\ Low' = Low /\ High' = High /\ GapCall' /\ Kernel' = Kernel
      /\ \A p : ToView(p)' = ToView(p)
  BY <1>1, <1>2, ViewFixed
<1>9. TypeOK'
  <2>1. v' \in [Pos -> Pos \cup {Hole}]
    <3>1. v \in [Pos -> Pos \cup {Hole}]
      BY <1>2 DEF TypeOK
    <3> QED
      BY <1>1, <1>2, <1>5, <3>1
  <2>2. {lo, loEnd, r2lo, r2end, sfirst, slast, m, pi, pj}' \subseteq 0 .. N
    BY <1>1, <1>2 DEF TypeOK
  <2>3. /\ below' \in SUBSET Pos
        /\ slotsRem' \in 0 .. N /\ found' \in 0 .. N /\ c1' \in 0 .. N
        /\ offR' \in [0 .. B - 1 -> 0 .. B] /\ numR' \in 0 .. B
        /\ run' \in {1, 2} /\ at' \in 0 .. B /\ cnt' \in 0 .. B /\ k' \in 0 .. B
        /\ fused' \in BOOLEAN
        /\ chunk' \in {"A", "B1", "B2"}
    BY <1>1, <1>2 DEF TypeOK
  <2>4. tmp' \in Pos \cup {Hole} /\ ret' \in 0 .. N /\ pc' = "done"
    BY <1>1, <1>7
  <2> QED
    BY <2>1, <2>2, <2>3, <2>4 DEF TypeOK
<1>10. Travel' /\ RingGap \in Pos
  BY <1>1, <1>2 DEF Travel, InGap, RingGap
<1>11. Called'
  <2>1. /\ call \in Calls /\ below \in SUBSET Pos
        /\ NoneIn([q \in Pos |-> q], VB, Low, Low + off)
    BY <1>2 DEF Called
  <2> QED
    BY <1>1, <1>8, <2>1 DEF Called, InFill, InGap
<1>12. GP!G!PutBack
  <2>1. View(v)' = [View(v) EXCEPT ![ToView(pi)] = ViewElement(tmp)]
    <3>1. View(v)' = [View(v) EXCEPT ![TV[pi]] = ViewElement(tmp)]
      BY <1>1, <1>2, <1>5, <1>9, <1>11, ViewPut
    <3> QED
      BY <1>2, <3>1
  <2>2. ViewElement(tmp)' = Hole /\ ToView(pj)' = ToView(pj)
    BY <1>1, <1>8 DEF ViewElement
  <2>3. /\ (IF ~GapCall \/ pc = "dispatch" THEN "start" ELSE pc) = "putback"
        /\ (IF ~GapCall \/ pc = "dispatch" THEN "start" ELSE pc)' = "done"
        /\ (IF GapCall THEN View(v) ELSE [q \in Pos |-> q]) = View(v)
        /\ (IF GapCall THEN View(v) ELSE [q \in Pos |-> q])' = View(v)'
        /\ (IF GapCall THEN ViewElement(tmp) ELSE Hole) = ViewElement(tmp)
        /\ (IF GapCall THEN ViewElement(tmp) ELSE Hole)' = Hole
        /\ UNCHANGED (IF pc = "dispatch" THEN ViewFirst ELSE ToView(pj))
        /\ (IF pc = "done" /\ GapCall THEN ViewFirst + ret ELSE ToView(pi)) = ToView(pi)
        /\ (IF pc = "done" /\ GapCall THEN ViewFirst + ret ELSE ToView(pi))'
              = ToView(pi) + GP!G!Advance(ViewElement(tmp))
    <3>1. (ViewFirst + ret)' = ToView(pi) + GP!G!Advance(ViewElement(tmp))
      BY <1>6, <1>7, <1>8 DEF Low
    <3> QED
      BY <1>1, <1>2, <1>8, <2>2, <3>1
  <2> QED
    BY <1>8, <2>1, <2>3 DEF GP!G!PutBack, GP!G!args, GP!G!Hole, Hole, VB, Low, High
<1>13. [GP!G!Next]_(GP!G!vars)
  BY <1>12 DEF GP!G!Next
<1>14. CIInv'
  BY <1>1, <1>2, <1>9, <1>10, <1>13, GapServed
<1> QED
  BY <1>12, <1>14

\* Each step of the gap method of the ring is one of the flat method.
LEMMA CGap == ASSUME CIInv, GapStep PROVE CIInv' /\ GP!G!Next
<1>1. CIInv' /\ (GP!G!Lift \/ GP!G!CloseGap \/ GP!G!CloseLast \/ GP!G!Pull \/ GP!G!PutBack)
  BY CGapLift, CGapClose, CPullFlat, CPullAcross, CPullBeforeWrap, CPullAfterWrap,
     CGapCloseLast, CGapPutBack DEF GapStep
<1> QED
  BY <1>1 DEF GP!G!Next
-----------------------------------------------------------------------------
(***************************************************************************)
(* The invariant, and what follows from it.                                *)
(***************************************************************************)
LEMMA CFilling == ASSUME CIInv, Filling PROVE CIInv' /\ call' = call /\ below' = below /\ InFill
<1>1. FillFrame /\ FillStep
  BY DEF Filling, FillFrame
<1>2. call' = call
  BY <1>1 DEF FillFrame
<1>3. InFill /\ below' = below
  <2>1. CASE StartBlock \/ Scan \/ FirstRun
    BY <2>1 DEF StartBlock, Scan, FirstRun, FillSlots, InFill
  <2>2. CASE RotateStep \/ RotateClose \/ RunDone
    BY <2>2 DEF RotateStep, RotateClose, RunDone, InFill
  <2>3. CASE SecondRun \/ BlockDone \/ StraddleDone
    BY <2>3 DEF SecondRun, FillSlots, BlockDone, StraddleDone, Tally, InFill
  <2>4. CASE PartitionRest \/ Bridge
    BY <2>4 DEF PartitionRest, Bridge, InFill
  <2> QED
    BY <1>1, <2>1, <2>2, <2>3, <2>4 DEF FillStep
<1>4. CIInv'
  BY <1>1, CStartBlock, CScan, CFirstRun, CRotateStep, CRotateClose, CRunDone, CSecondRun,
     CBlockDone, CStraddleDone, CPartitionRest, CBridge DEF FillStep
<1> QED
  BY <1>2, <1>3, <1>4

LEMMA CIInvStep == CIInv /\ [Next]_vars => CIInv'
<1> SUFFICES ASSUME CIInv, [Next]_vars PROVE CIInv'
  OBVIOUS
<1>1. CASE Flat \/ EmptySuffix \/ FillReturns
  BY <1>1, CFlat, CEmptySuffix, CFillReturns
<1>2. CASE SegmentOne \/ SpillFill \/ SpillSeg \/ FlatOffset
  BY <1>2, CSegmentOne, CSpillFill, CSpillSeg, CFlatOffset
<1>3. CASE GapStep
  BY <1>3, CGap
<1>4. CASE Filling
  BY <1>4, CFilling
<1>5. CASE Terminating \/ UNCHANGED vars
  BY <1>5, CUnchanged DEF Terminating
<1> QED
  BY <1>1, <1>2, <1>3, <1>4, <1>5 DEF Next

LEMMA CInvariance == Spec => []CIInv
<1>1. Init => CIInv
  BY InitCIInv
<1>2. CIInv /\ [Next]_vars => CIInv'
  BY CIInvStep
<1> QED
  BY <1>1, <1>2, PTL DEF Spec

\* The parts of the fill, in the words of the run.
LEMMA FillSays == CIInv => SlotInvariant
<1> SUFFICES ASSUME CIInv PROVE SlotInvariant
  OBVIOUS
<1>0. TypeOK /\ Called /\ Whole /\ Layout /\ Content /\ Joining /\ Progress
  BY DEF CIInv, FillInv
<1>1. ASSUME pc \notin {"close", "pull", "putback"} PROVE OneCellVacant
  <2>1. Restored = Refilled
    BY <1>1 DEF Restored, Refilled
  <2>2. IsArrangement(Refilled)
    BY <1>0, <2>1, MemoryWhole
  <2>3. pc = "rotate" => v[CellR(at + k - 1)] = Hole /\ tmp # Hole
    BY <1>0, HoleNotInPos DEF Progress
  <2> QED
    BY <2>2, <2>3 DEF OneCellVacant
<1>2. ASSUME pc \in {"loop", "bridge"} PROVE SlotsAndBlocks
  <2>1. /\ InFill /\ Settled = 0 /\ InRun = 0 /\ BlockSize = 0 /\ Restored = v
    BY <1>2 DEF InFill, Settled, InRun, BlockSize, Restored
  <2>2. /\ Low \in Int /\ High \in Int /\ c1 \in Int /\ found \in Int /\ sfirst \in Int
        /\ slast \in Int /\ last \in Int /\ lo \in Int /\ loEnd \in Int /\ r2lo \in Int
        /\ r2end \in Int /\ Suffix \in Int /\ Seen \in Int /\ Base \in Int /\ slotsRem \in Int
        /\ Base = Low + c1 + found + Settled /\ Front = Base + InRun
    BY <1>0, <2>1, FillNumbers
  <2>3. /\ Base = Low + c1 + found /\ Front = Low + c1 + found /\ BlockEnd = Seen
    BY <2>1, <2>2 DEF BlockEnd
  <2>4. View(v) = U
    BY <2>1 DEF U
  <2>5. /\ AllIn(U, VB, Low, Low + c1 + found)
        /\ NoneIn(U, VB, Low + c1 + found, Suffix)
        /\ NoneIn(U, VB, Seen, High)
    BY <1>0, <2>1, <2>3 DEF Content
  <2>6. /\ slotsRem = Suffix - (Low + c1 + found)
        /\ slotsRem = (loEnd - lo) + (r2end - r2lo)
    <3>1. slotsRem = Suffix - (Low + c1 + found)
          /\ Base + (loEnd - lo) + (r2end - r2lo) = Suffix
      BY <1>0, <2>1 DEF Layout
    <3> QED
      BY <2>2, <2>3, <3>1
  <2>7. slotsRem > 0 => ToView(lo) = Low + c1 + found
    <3> SUFFICES ASSUME slotsRem > 0 PROVE ToView(lo) = Low + c1 + found
      OBVIOUS
    <3>1. lo <= loEnd /\ (lo = loEnd => r2lo = r2end)
      BY <1>0, <2>1 DEF Layout
    <3>2. lo \in lo .. loEnd - 1
      BY <2>2, <2>6, <3>1
    <3>3. lo \in Pos /\ TV[lo] = Base + (lo - lo)
      BY <1>0, <2>1, <3>2 DEF Layout
    <3>4. TV[lo] = ToView(lo)
      BY <1>0, <3>3, ViewRuns
    <3> QED
      BY <2>2, <2>3, <3>3, <3>4
  <2>8. ASSUME pc = "bridge" PROVE Partitioned(v, below, sfirst, m, slast)
    <3>1. /\ m \in sfirst .. slast /\ m \in Int
          /\ AllIn(U, VB, Suffix, Suffix + (m - sfirst))
          /\ NoneIn(U, VB, Suffix + (m - sfirst), Seen)
      <4>1. m \in sfirst .. slast
        BY <1>0, <2>8 DEF Joining
      <4> QED
        BY <1>0, <2>2, <2>8, <4>1 DEF Joining
    <3>2. IsRun(TV, sfirst, slast, Suffix) /\ Suffix + (slast - sfirst) = Seen
      BY <1>0, <2>1, SuffixRun
    <3>3. \A p \in Pos : U[TV[p]] \in VB <=> v[p] \in below
      BY <1>0, <2>1, MemoryWhole
    <3>4. ASSUME NEW p \in sfirst .. m - 1 PROVE v[p] \in below
      <4>1. p \in sfirst .. slast - 1
        BY <2>2, <3>1
      <4>2. p \in Pos /\ TV[p] = Suffix + (p - sfirst)
        BY <3>2, <4>1 DEF IsRun
      <4>3. Suffix + (p - sfirst) \in Suffix .. Suffix + (m - sfirst) - 1
        BY <2>2, <3>1
      <4>4. \A q \in Suffix .. Suffix + (m - sfirst) - 1 : U[q] \in VB
        BY <2>2, <3>1 DEF AllIn
      <4>5. U[TV[p]] \in VB
        BY <4>2, <4>3, <4>4
      <4> QED
        BY <3>3, <4>2, <4>5
    <3>5. ASSUME NEW p \in m .. slast - 1 PROVE v[p] \notin below
      <4>1. p \in sfirst .. slast - 1
        BY <2>2, <3>1
      <4>2. p \in Pos /\ TV[p] = Suffix + (p - sfirst)
        BY <3>2, <4>1 DEF IsRun
      <4>3. Suffix + (p - sfirst) \in Suffix + (m - sfirst) .. Seen - 1
        BY <2>2, <3>1, <3>2
      <4>4. \A q \in Suffix + (m - sfirst) .. Seen - 1 : U[q] \notin VB
        BY <2>2, <3>1 DEF NoneIn
      <4>5. U[TV[p]] \notin VB
        BY <4>2, <4>3, <4>4
      <4> QED
        BY <3>3, <4>2, <4>5
    <3> QED
      BY <3>1, <3>4, <3>5 DEF Partitioned, AllIn, NoneIn
  <2>9. /\ AllIn(View(v), ViewBelow, ViewFirst, ViewFirst + c1 + found)
        /\ NoneIn(View(v), ViewBelow, ViewFirst + c1 + found, ViewFirst + n - (last - sfirst))
        /\ NoneIn(View(v), ViewBelow, ViewFirst + n - (last - slast), ViewFirst + n)
        /\ slotsRem = (ViewFirst + n - (last - sfirst)) - (ViewFirst + c1 + found)
        /\ slotsRem > 0 => ToView(lo) = ViewFirst + c1 + found
    <3>1. /\ AllIn(View(v), VB, Low, Low + c1 + found)
          /\ NoneIn(View(v), VB, Low + c1 + found, Suffix)
          /\ NoneIn(View(v), VB, Seen, High)
          /\ slotsRem = Suffix - (Low + c1 + found)
          /\ slotsRem > 0 => ToView(lo) = Low + c1 + found
      BY ONLY <2>4, <2>5, <2>6, <2>7
    <3>2. /\ Suffix = ViewFirst + n - (last - sfirst) /\ Seen = ViewFirst + n - (last - slast)
      <4>1. n \in Int /\ Low = ViewFirst /\ High = Low + n
        BY <1>0, CallNumbers DEF Low
      <4> QED
        BY <2>2, <4>1 DEF Suffix, Seen
    <3>3. VB = ViewBelow /\ Low = ViewFirst /\ High = ViewFirst + n
      BY DEF VB, Low, High
    <3> QED
      BY ONLY <3>1, <3>2, <3>3
  <2> QED
    BY <2>6, <2>8, <2>9 DEF SlotsAndBlocks
<1>3. ASSUME pc \notin {"loop", "bridge"} PROVE SlotsAndBlocks
  BY <1>3 DEF SlotsAndBlocks
<1> QED
  BY <1>0, <1>1, <1>2, <1>3 DEF SlotInvariant

\* The fill of a prefix, flat or across the end of the ring, loses no element
\* while one is in the temporary, and between two blocks its slots, its two
\* counts and the suffix fit together: on every ring, range, offset, predicate
\* and block size.
THEOREM SlotInvariantHolds == Spec => []SlotInvariant
BY CInvariance, FillSays, PTL
-----------------------------------------------------------------------------
LEMMA PrefixSays == CIInv => SlotsOnly
<1> SUFFICES ASSUME CIInv, pc = "done", Kernel \in PrefixKernels,
                    NEW q \in Low .. Low + off - 1
             PROVE  View(v)[q] # q <=> q < Low + ret
  BY DEF SlotsOnly, PrefixKernels, Low
<1>0. TypeOK /\ Called /\ Returned
  BY DEF CIInv, FillInv
<1>1. View(v) = U /\ Count = ret
  BY DEF U, Restored, Count
<1>2. /\ AllIn(U, VB, Low, Low + ret) /\ Low + ret \in Low .. High
      /\ \A p \in Low + ret .. Low + off - 1 : U[p] = p
  BY <1>0, <1>1 DEF Returned, Partitioned
<1>3. Low \in Int /\ High \in Int /\ off \in Int /\ off <= n /\ n \in Int /\ High = Low + n
      /\ ret \in Int /\ q \in Int /\ N \in Nat /\ 0 <= Low /\ High <= N
  <2>1. /\ Low \in Int /\ High \in Int /\ off \in Int /\ off <= n /\ n \in Int /\ High = Low + n
        /\ N \in Nat /\ 0 <= bufBegin /\ bufBegin <= Low /\ High <= bufEnd /\ bufEnd <= N
        /\ bufBegin \in Int /\ bufEnd \in Int
    BY <1>0, CallNumbers
  <2>2. ret \in Int
    BY <1>0 DEF TypeOK
  <2> QED
    BY <2>1, <2>2
<1>4. CASE q < Low + ret
  <2>1. U[q] \in VB
    <3>1. q \in Low .. Low + ret - 1
      BY <1>3, <1>4
    <3>2. \A p \in Low .. Low + ret - 1 : U[p] \in VB
      BY <1>2, <1>3 DEF AllIn
    <3> QED
      BY <3>1, <3>2
  <2>2. q \notin VB
    <3>1. PICK w : w = [p \in Pos |-> p]
      OBVIOUS
    <3>2. NoneIn(w, VB, Low, Low + off) /\ w[q] = q
      <4>1. q \in Pos
        BY <1>3 DEF Pos
      <4> QED
        BY <1>0, <3>1, <4>1 DEF Called
    <3>3. \A p \in Low .. Low + off - 1 : w[p] \notin VB
      BY <1>3, <3>2 DEF NoneIn
    <3> QED
      BY <3>2, <3>3
  <2> QED
    BY <1>1, <1>4, <2>1, <2>2
<1>5. CASE ~ (q < Low + ret)
  <2>1. q \in Low + ret .. Low + off - 1
    BY <1>3, <1>5
  <2> QED
    BY <1>1, <1>2, <1>5, <2>1
<1> QED
  BY <1>4, <1>5

\* With c elements going left, a prefix that is the supply of slots changes in its
\* first c cells, in each of them, and in no other.
THEOREM SlotsOnlyHolds == Spec => []SlotsOnly
BY CInvariance, PrefixSays, PTL
-----------------------------------------------------------------------------
\* A call that another kernel serves is, for the flat method, one that has not
\* started.
LEMMA OtherIdle ==
    ASSUME CIInv, CIInv', ~GapCall, call' = call, below' = below
    PROVE  UNCHANGED GP!G!vars
<1>1. /\ VB' = VB /\ Low' = Low /\ High' = High /\ off' = off /\ ~GapCall'
      /\ \A p : ToView(p)' = ToView(p)
  BY ViewFixed
<1>2. Called /\ pi = first /\ pj = first /\ pi' = first' /\ pj' = first' /\ first' = first
  BY <1>1, ViewFixed DEF CIInv, Called
<1>3. ToView(pi) = Low /\ ToView(pj) = Low
  BY <1>2, FirstPlace
<1>4. ToView(pi)' = Low /\ ToView(pj)' = Low
  BY <1>1, <1>2, <1>3
<1>5. /\ UNCHANGED (IF GapCall THEN View(v) ELSE [p \in Pos |-> p])
      /\ UNCHANGED (IF GapCall THEN ViewElement(tmp) ELSE Hole)
      /\ UNCHANGED (IF pc = "done" /\ GapCall THEN ViewFirst + ret ELSE ToView(pi))
      /\ UNCHANGED (IF ~GapCall \/ pc = "dispatch" THEN "start" ELSE pc)
  BY <1>1, <1>3, <1>4
<1>6. UNCHANGED (IF pc = "dispatch" THEN ViewFirst ELSE ToView(pj))
  BY <1>1, <1>3, <1>4 DEF Low
<1> QED
  BY <1>1, <1>5, <1>6 DEF GP!G!vars, VB, Low, High

LEMMA FlatStep == CIInv /\ CIInv' /\ [Next]_vars => [GP!G!Next]_(GP!G!vars)
<1> SUFFICES ASSUME CIInv, CIInv', [Next]_vars PROVE GP!G!Next \/ UNCHANGED GP!G!vars
  OBVIOUS
<1>0. Called
  BY DEF CIInv
<1>1. CASE Flat \/ EmptySuffix \/ SegmentOne \/ SpillFill \/ SpillSeg \/ FlatOffset
  <2>1. ~GapCall
    BY <1>1 DEF GapCall, Flat, EmptySuffix, SegmentOne, SpillFill, SpillSeg, FlatOffset
  <2>2. call' = call /\ below' = below
    BY <1>1 DEF Flat, EmptySuffix, SegmentOne, SpillFill, SpillSeg, FlatOffset
  <2> QED
    BY <2>1, <2>2, OtherIdle
<1>2. CASE FillReturns
  <2>1. ~GapCall /\ call' = call /\ below' = below
    BY <1>0, <1>2 DEF FillReturns, Called, GapCall, FillKernels
  <2> QED
    BY <2>1, OtherIdle
<1>3. CASE Filling
  <2>1. ~GapCall /\ call' = call /\ below' = below
    BY <1>0, <1>3, CFilling DEF Called, GapCall, FillKernels
  <2> QED
    BY <2>1, OtherIdle
<1>4. CASE GapStep
  BY <1>4, CGap
<1>5. CASE Terminating \/ UNCHANGED vars
  BY <1>5, FlatUnchanged DEF Terminating
<1> QED
  BY <1>1, <1>2, <1>3, <1>4, <1>5 DEF Next

LEMMA FlatBegins == Init => GP!G!Init
<1> SUFFICES ASSUME Init PROVE GP!G!Init
  OBVIOUS
<1>1. TypeOK /\ Called /\ pc = "dispatch"
  BY StartCalled DEF Init, Start
<1> QED
  BY <1>1, GapBegins

\* The gap method of the ring, its wraps and its chunks included, takes the steps
\* of the gap method of a flat range, on every ring, range, offset and predicate.
THEOREM GapRefinement == Spec => GapRefines
<1>1. Init => Flat_!Init
  BY FlatBegins DEF Flat_!Init, GP!G!Init, Flat_!GoesLeft, GP!G!GoesLeft, Flat_!Pos, GP!G!Pos,
     GP!Pos,
     Flat_!NoneIn, GP!G!NoneIn, GP!NoneIn, Flat_!Hole, GP!G!Hole
<1>2. CIInv /\ CIInv' /\ [Next]_vars => [Flat_!Next]_(Flat_!vars)
  BY FlatStep DEF Flat_!Next, Flat_!vars, Flat_!args, Flat_!Hole, Flat_!Advance, Flat_!GoesLeft,
     Flat_!Pos, Flat_!Empty, Flat_!Lift, Flat_!CloseGap, Flat_!Pull, Flat_!CloseLast,
     Flat_!PutBack, Flat_!Terminating, GP!G!Next, GP!G!vars, GP!G!args, GP!G!Hole, GP!G!Advance,
     GP!G!GoesLeft, GP!G!Pos, GP!Pos, GP!G!Empty, GP!G!Lift, GP!G!CloseGap, GP!G!Pull,
     GP!G!CloseLast, GP!G!PutBack,
     GP!G!Terminating
<1> QED
  BY <1>1, <1>2, CInvariance, PTL DEF Spec, GapRefines, Flat_!Spec
-----------------------------------------------------------------------------
\* The place in the view of the iterator that is made of the count.
ReturnPlace == IF Wraps THEN ToView(Iterator) ELSE Iterator

LEMMA IteratorPlace == Called /\ ret \in Int /\ Low + ret \in Low .. High => ReturnPlace = Low + ret
<1> SUFFICES ASSUME Called, ret \in Int, Low + ret \in Low .. High PROVE ReturnPlace = Low + ret
  OBVIOUS
<1>1. CASE ~Wraps
  <2>1. Low = first
    BY <1>1, CallNumbers
  <2> QED
    BY <1>1, <2>1 DEF ReturnPlace, Iterator
<1>2. CASE Wraps
  <2>1. /\ first \in Int /\ last \in Int /\ bufBegin \in Int /\ bufEnd \in Int /\ len1 \in Int
        /\ Low \in Int /\ High \in Int /\ len1 = bufEnd - first
        /\ bufBegin <= first /\ first < bufEnd /\ last < first
        /\ bufBegin <= last /\ High = Low + len1 + (last - bufBegin)
    BY <1>2, SegmentCells
  <2>2. Low = bufBegin /\ 0 <= ret
    BY <1>2, <2>1, CallNumbers
  <2>3. ReturnPlace = ToView(Iterator)
    BY <1>2 DEF ReturnPlace
  <2>4. CASE ret < len1
    <3>1. PICK p \in Int : p = first + ret
      BY <2>1
    <3>2. Iterator = p
      BY <2>4, <3>1 DEF Iterator
    <3>3. p \in bufBegin .. bufEnd - 1 /\ p >= first
      BY <2>1, <2>2, <2>4, <3>1
    <3>4. ToView(p) = bufBegin + (p - first)
      BY <1>2, <3>3 DEF ToView
    <3> QED
      BY <2>1, <2>2, <2>3, <3>1, <3>2, <3>4
  <2>5. CASE ~ (ret < len1)
    <3>1. PICK p \in Int : p = bufBegin + (ret - len1)
      BY <2>1
    <3>2. Iterator = p
      BY <1>2, <2>5, <3>1 DEF Iterator
    <3>3. p \in bufBegin .. bufEnd - 1 /\ ~ (p >= first)
      BY <2>1, <2>2, <2>5, <3>1
    <3>4. ToView(p) = bufBegin + len1 + (p - bufBegin)
      BY <1>2, <3>3 DEF ToView
    <3> QED
      BY <2>1, <2>2, <2>3, <3>1, <3>2, <3>4
  <2> QED
    BY <2>4, <2>5
<1> QED
  BY <1>1, <1>2

\* No step disturbs an element outside the range or loses one.
LEMMA StepRearranges ==
    ASSUME CIInv, CIInv', call' = call, below' = below
    PROVE  Contract!Rearranges
<1>1. Whole /\ Whole' /\ Low' = Low /\ High' = High
  BY ViewFixed DEF CIInv, FillInv
<1>2. IsArrangement(U') /\ \A p \in Pos : p \notin Low .. High - 1 => U[p] = U'[p]
  <2>1. SameOutside([p \in Pos |-> p], U, Low, High) /\ SameOutside([p \in Pos |-> p], U', Low, High)
    BY <1>1 DEF Whole
  <2>2. IsArrangement(U')
    BY <1>1 DEF Whole, IsArrangement
  <2> QED
    BY <2>1, <2>2 DEF SameOutside
<1> QED
  BY <1>1, <1>2 DEF Contract!Rearranges, Contract!IsArrangement, Contract!SameOutside, Contract!Pos,
     IsArrangement, Pos, U, Low, High

LEMMA ContractBegins == Init => Contract!Init
<1> SUFFICES ASSUME Init PROVE Contract!Init
  OBVIOUS
<1>1. TypeOK /\ Called /\ pc = "dispatch"
  BY StartCalled DEF Init, Start
<1>2. U = Renamed(TV, FV, v) /\ \A q \in Pos : U[q] = q
  BY <1>1, Unmoved
<1>3. U = [q \in Pos |-> q]
  BY <1>2 DEF Renamed
<1>4. /\ VB \in SUBSET Pos /\ Low \in 0 .. N /\ High \in Low .. N
  <2>1. /\ N \in Nat /\ Low \in Int /\ High \in Int /\ bufBegin \in Int /\ bufEnd \in Int
        /\ 0 <= bufBegin /\ bufBegin <= Low /\ Low <= High /\ High <= bufEnd /\ bufEnd <= N
    BY <1>1, CallNumbers
  <2> QED
    BY <1>1, <2>1, ViewBelowMember
<1> QED
  BY <1>1, <1>3, <1>4 DEF Contract!Init, Contract!Pos, Pos, U, VB, Low, High

\* A step of a call is one of the abstract partition, or invisible to it.
LEMMA ContractStep == CIInv /\ CIInv' /\ [Next]_vars => [Contract!Next]_(Contract!vars)
<1> SUFFICES ASSUME CIInv, CIInv', [Next]_vars PROVE Contract!Next \/ UNCHANGED Contract!vars
  OBVIOUS
<1>1. CASE Terminating \/ UNCHANGED vars
  <2>1. UNCHANGED vars
    BY <1>1 DEF Terminating
  <2>2. /\ v' = v /\ below' = below /\ tmp' = tmp /\ call' = call /\ pc' = pc
        /\ pi' = pi /\ pj' = pj /\ ret' = ret /\ at' = at /\ k' = k /\ slast' = slast /\ offR' = offR
    BY <2>1 DEF vars, gapVars, fillVars, slots, tally, buf, piece
  <2>3. /\ VB' = VB /\ Low' = Low /\ High' = High
    BY <2>2, ViewFixed
  <2>4. U' = U
    <3>1. Restored' = Restored
      BY <2>2 DEF Restored, Refilled, CellR
    <3> QED
      BY <2>2, <3>1, SameView DEF CIInv, FillInv
  <2>5. UNCHANGED (IF pc # "done" THEN ViewFirst ELSE IF Wraps THEN ToView(Iterator) ELSE Iterator)
    BY <2>2 DEF ViewFirst, Iterator, ToView, Wraps, first, last, bufBegin, bufEnd, len1
  <2> QED
    BY <2>2, <2>3, <2>4, <2>5 DEF Contract!vars, U, VB, Low, High
<1>2. CASE ~ (Terminating \/ UNCHANGED vars)
  <2>1. call' = call /\ below' = below /\ pc # "done"
    <3>1. CASE Flat \/ EmptySuffix \/ SegmentOne \/ SpillFill \/ SpillSeg \/ FlatOffset \/ FillReturns
      BY <3>1 DEF Flat, EmptySuffix, SegmentOne, SpillFill, SpillSeg, FlatOffset, FillReturns
    <3>2. CASE Filling
      BY <3>2, CFilling DEF InFill
    <3>3. CASE GapStep
      BY <3>3 DEF GapStep, GapLift, GapClose, PullFlat, PullAcross, PullBeforeWrap, PullAfterWrap,
         GapPull, GapCloseLast, GapPutBack
    <3> QED
      BY <1>2, <3>1, <3>2, <3>3 DEF Next
  <2>2. Contract!Rearranges
    BY <2>1, StepRearranges
  <2>3. VB' = VB /\ Low' = Low /\ High' = High
    BY <2>1, ViewFixed
  <2>4. CASE pc' # "done"
    BY <2>1, <2>2, <2>3, <2>4 DEF Contract!Next, Contract!Work, VB, Low, High
  <2>5. CASE pc' = "done"
    <3>1. TypeOK' /\ Called' /\ Returned' /\ Count' = ret'
      BY <2>5 DEF CIInv, FillInv, Count
    <3>2. Partitioned(U', VB, Low, Low + ret', High)
      BY <2>3, <2>5, <3>1 DEF Returned
    <3>3. ReturnPlace' = Low + ret'
      <4>1. (Called /\ ret \in Int /\ Low + ret \in Low .. High => ReturnPlace = Low + ret)'
        BY IteratorPlace, PTL
      <4>2. ret' \in Int
        BY <3>1 DEF TypeOK
      <4>3. Low + ret' \in Low .. High
        BY <3>2 DEF Partitioned
      <4> QED
        BY <2>3, <3>1, <4>1, <4>2, <4>3
    <3>4. (IF pc # "done" THEN ViewFirst ELSE IF Wraps THEN ToView(Iterator) ELSE Iterator)'
             = Low + ret'
      BY <2>5, <3>3 DEF ReturnPlace
    <3>5. Contract!Partitioned(U', VB, Low, Low + ret', High)
      BY <3>2 DEF Contract!Partitioned, Contract!AllIn, Contract!NoneIn, Partitioned, AllIn, NoneIn
    <3> QED
      BY <2>1, <2>2, <2>3, <2>5, <3>4, <3>5 DEF Contract!Next, Contract!Return, U, VB, Low, High
  <2> QED
    BY <2>4, <2>5
<1> QED
  BY <1>1, <1>2

\* Every kernel for a range that wraps, and both flat offset kernels, implement
\* the abstract partition of concepts.hpp in the logical view, on every input; the
\* boundary is the iterator that cyclic_partition makes of the count.
THEOREM CyclicImplementation == Spec => Implements
<1>1. Init => Contract!Init
  BY ContractBegins
<1>2. CIInv /\ CIInv' /\ [Next]_vars => [Contract!Next]_(Contract!vars)
  BY ContractStep
<1> QED
  BY <1>1, <1>2, CInvariance, PTL DEF Spec, Implements, Contract!Spec
=============================================================================

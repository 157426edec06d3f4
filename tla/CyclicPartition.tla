--------------------------- MODULE CyclicPartition ---------------------------
(***************************************************************************)
(* Partitioning a range that may wrap around the end of a ring buffer      *)
(* (cyclic_partition, cyclic_partition_count, cyclic_offset_partition),    *)
(* and the flat offset kernels it generalises (prefix_fill_off,            *)
(* part_swap_off).                                                         *)
(*                                                                         *)
(* The ring is the cells [bufBegin, bufEnd) of the array.  A range with    *)
(* first <= last is flat; with first > last it is S1 = [first, bufEnd)     *)
(* followed by S2 = [bufBegin, last).  The caller promises that the first  *)
(* `off` elements do not go left; they are never compared.  A dispatcher   *)
(* picks a kernel from the sizes and the class of the comparator.          *)
(*                                                                         *)
(* The ring is hidden from the contract by the logical view: cells and     *)
(* elements are renumbered so that the range starts at bufBegin and is     *)
(* flat.  In that view the gap method of the ring is GapLomuto.            *)
(***************************************************************************)
EXTENDS SlotFill

CONSTANTS
    GapMax_lex, GapMax_mlex, GapMax_plain,        \* tuning::cyclic_gap_max...
    BridgeMax_mlex,                               \* cyclic_bridge_max_mlex
    OffGapMax_lex, OffGapMax_mlex, OffGapMax_plain

ASSUME TuningAssumption ==
    /\ {GapMax_lex, GapMax_mlex, GapMax_plain, BridgeMax_mlex} \subseteq Nat
    /\ {OffGapMax_lex, OffGapMax_mlex, OffGapMax_plain} \subseteq Nat

VARIABLES
    call,       \* the arguments: form, cls, first, last, bufBegin, bufEnd, off
    c1,         \* m1 - first: the elements of S1 that go left
    pi, pj,     \* the cursors of the gap method: boundary and gap
    chunk,      \* the loop it is in: "A", "B1" (pi still in S1) or "B2"
    ret         \* the count that is returned

gapVars  == <<pi, pj, chunk>>
vars     == <<v, below, fillVars, tmp, pc, call, c1, gapVars, ret>>

first    == call.first
last     == call.last
bufBegin == call.bufBegin
bufEnd   == call.bufEnd
off      == call.off

Wraps     == first > last
len1      == bufEnd - first
len2      == last - bufBegin
n         == IF Wraps THEN len1 + len2 ELSE last - first
-----------------------------------------------------------------------------
\* The logical view.  ViewFirst is the place of the range's first element.
ViewFirst == IF Wraps THEN bufBegin ELSE first

ToView(p) ==
    IF Wraps /\ p \in bufBegin .. bufEnd - 1
    THEN IF p >= first THEN bufBegin + (p - first) ELSE bufBegin + len1 + (p - bufBegin)
    ELSE p

FromView(q) ==
    IF Wraps /\ q \in bufBegin .. bufEnd - 1
    THEN IF q - bufBegin < len1 THEN first + (q - bufBegin) ELSE q - len1
    ELSE q

ViewElement(x) == IF x = Hole THEN Hole ELSE ToView(x)
View(a)        == IF Wraps THEN [q \in Pos |-> ViewElement(a[FromView(q)])] ELSE a
ViewBelow      == IF Wraps THEN {ToView(x) : x \in below} ELSE below
-----------------------------------------------------------------------------
\* cyclic_partition_count: the gap method up to a size, then the bridge or the
\* fused fill, by the cost of a comparison.
PlainKernel ==
    CASE call.cls = "lex"  -> IF n <= GapMax_lex THEN "gap" ELSE "seg_bridge"
      [] call.cls = "mlex" -> CASE n <= GapMax_mlex -> "gap"
                                [] n > GapMax_mlex /\ n <= BridgeMax_mlex -> "seg_bridge"
                                [] OTHER -> "seg_fill"
      [] OTHER -> IF n <= GapMax_plain THEN "gap" ELSE "seg_fill"

OffGapMax ==
    CASE call.cls = "lex" -> OffGapMax_lex
      [] call.cls = "mlex" -> OffGapMax_mlex
      [] OTHER -> OffGapMax_plain

\* cyclic_offset_partition: gates on the suffix; W1 is a prefix that ends in S1.
OffsetKernel ==
    CASE n - off <= 0 -> "empty"
      [] n - off > 0 /\ n - off <= OffGapMax -> "gap"
      [] n - off > OffGapMax /\ off <= len1 ->
            IF call.cls = "lex" THEN "off_w1_seg" ELSE "off_w1_fill"
      [] OTHER -> "off_w2_fill"

\* The kernel that serves the call.  The flat offset kernels and off_w2_seg,
\* which no dispatcher picks, are called by their own names.
Kernel ==
    CASE call.form \in {"prefix_fill", "part_swap", "off_w2_seg"} -> call.form
      [] call.form \notin {"prefix_fill", "part_swap", "off_w2_seg"}
            /\ (~Wraps \/ last = bufBegin) -> "flat"
      [] call.form = "cyclic" /\ Wraps /\ last # bufBegin -> PlainKernel
      [] OTHER -> OffsetKernel

\* The arguments a call may have: the wrapped kernels want both segments, the
\* flat offset kernels a flat range.
Calls ==
    {c \in [form : {"cyclic", "cyclic_offset", "off_w2_seg", "prefix_fill", "part_swap"},
            cls : {"lex", "mlex", "plain"}, first : 0 .. N, last : 0 .. N,
            bufBegin : 0 .. N, bufEnd : 0 .. N, off : 0 .. N] :
        /\ c.bufBegin <= c.bufEnd
        /\ c.first \in c.bufBegin .. c.bufEnd
        /\ c.last \in c.bufBegin .. c.bufEnd
        /\ c.first > c.last => c.first < c.bufEnd
        /\ c.off <= IF c.first > c.last
                    THEN (c.bufEnd - c.first) + (c.last - c.bufBegin)
                    ELSE c.last - c.first
        /\ c.form = "cyclic" => c.off = 0
        /\ c.form \in {"prefix_fill", "part_swap"} => c.first <= c.last
        /\ c.form = "off_w2_seg" =>
              /\ c.first > c.last
              /\ c.bufBegin < c.last
              /\ c.off >= c.bufEnd - c.first}

Start(c) ==
    /\ v = [p \in Pos |-> p]
    /\ call = c
    /\ below \in SUBSET Pos
    /\ \A q \in ViewFirst .. ViewFirst + off - 1 : FromView(q) \notin below
    /\ Idle
    /\ tmp = Hole
    /\ c1 = 0
    /\ pi = first /\ pj = first /\ chunk = "A"
    /\ ret = 0
    /\ pc = "dispatch"

Init == \E c \in Calls : Start(c)
-----------------------------------------------------------------------------
\* return sized_partition(first, last, ...) - first; and the flat offset form,
\* also for a wrapped range whose S2 is empty
Flat ==
    /\ pc = "dispatch"
    /\ Kernel = "flat"
    /\ \E o \in PartitionOutcomes(v, below, first, IF Wraps THEN bufEnd ELSE last) :
          v' = o.array /\ ret' = o.boundary - first
    /\ pc' = "done"
    /\ UNCHANGED <<below, fillVars, tmp, call, c1, gapVars>>

\* if (suffix <= 0) return 0;
EmptySuffix ==
    /\ pc = "dispatch"
    /\ Kernel = "empty"
    /\ ret' = 0
    /\ pc' = "done"
    /\ UNCHANGED <<v, below, fillVars, tmp, call, c1, gapVars>>

\* One run of slots; the second is empty.
OneRun(r1lo, r1end) == SlotsFrom(r1lo, r1end, r1end, r1end)

\* m1 = sized_partition(first, buf_end, ...), or sized_off, which promises the
\* same; the tail of S1 is the slots and S2 the suffix.
SegmentOne ==
    /\ pc = "dispatch"
    /\ Kernel \in {"seg_bridge", "seg_fill", "off_w1_seg", "off_w1_fill"}
    /\ \E o \in PartitionOutcomes(v, below, first, bufEnd) :
          /\ v' = o.array
          /\ c1' = o.boundary - first
          /\ Enter(OneRun(o.boundary, bufEnd), bufBegin, last,
                   Kernel \in {"seg_fill", "off_w1_fill"})
    /\ UNCHANGED <<below, tmp, call, gapVars, ret>>

\* off_w2_fill: all of S1 and the part of S2 that the prefix spills into
SpillFill ==
    /\ pc = "dispatch"
    /\ Kernel = "off_w2_fill"
    /\ LET p == bufBegin + (off - len1)
       IN  Enter(SlotsFrom(first, bufEnd, bufBegin, p), p, last, TRUE)
    /\ UNCHANGED <<v, below, tmp, call, c1, gapVars, ret>>

\* off_w2_seg: S2 is partitioned by itself, S1 is the slots
SpillSeg ==
    /\ pc = "dispatch"
    /\ Kernel = "off_w2_seg"
    /\ Enter(OneRun(first, bufEnd), bufBegin, last, FALSE)
    /\ UNCHANGED <<v, below, tmp, call, c1, gapVars, ret>>

\* prefix_fill_off and part_swap_off: the prefix is the slots
FlatOffset ==
    /\ pc = "dispatch"
    /\ Kernel \in {"prefix_fill", "part_swap"}
    /\ Enter(OneRun(first, first + off), first + off, last, Kernel = "prefix_fill")
    /\ UNCHANGED <<v, below, tmp, call, c1, gapVars, ret>>

\* return (m1 - first) + cross_fill2(...);
FillReturns ==
    /\ pc = "return"
    /\ ret' = c1 + found
    /\ pc' = "done"
    /\ UNCHANGED <<v, below, fillVars, tmp, call, c1, gapVars>>
-----------------------------------------------------------------------------
Advance(x) == IF x \in below THEN 1 ELSE 0

\* I gap = offset < len1 ? first + offset : buf_begin + (offset - len1);
\* tmp = move(*gap); pi = first;
GapLift ==
    /\ pc = "dispatch"
    /\ Kernel = "gap"
    /\ LET gap == IF off < len1 THEN first + off ELSE bufBegin + (off - len1)
       IN  /\ tmp' = v[gap]
           /\ v' = [v EXCEPT ![gap] = Hole]
           /\ pj' = gap
    /\ chunk' = IF off < len1 THEN "A" ELSE "B1"
    /\ pc' = "close"
    /\ UNCHANGED <<below, fillVars, call, c1, pi, ret>>

GapLast == chunk # "A" /\ pj = last - 1

\* *pj = move(*pi); in each of the loops and at the wrap
GapClose ==
    /\ pc = "close"
    /\ ~GapLast
    /\ v' = [v EXCEPT ![pj] = v[pi], ![pi] = Hole]
    /\ pc' = "pull"
    /\ UNCHANGED <<below, fillVars, tmp, call, c1, gapVars, ret>>

\* x = move(*next); *pi = x; and the cell of x is the gap
GapPull(next) ==
    /\ pc = "pull"
    /\ v' = [v EXCEPT ![pi] = v[next], ![next] = Hole]
    /\ pj' = next
    /\ pc' = "close"
    /\ UNCHANGED <<below, fillVars, tmp, call, c1, ret>>

\* Chunk A: the gap and its successor are both in S1.
PullFlat ==
    /\ chunk = "A"
    /\ pj # bufEnd - 1
    /\ GapPull(pj + 1)
    /\ pi' = pi + Advance(v[pj + 1])
    /\ UNCHANGED chunk

\* A slip: pi is not brought back when it reaches the end of the buffer with
\* the gap.
PullAcross_NoNormalize ==
    /\ chunk = "A"
    /\ pj = bufEnd - 1
    /\ GapPull(bufBegin)
    /\ pi' = pi + Advance(v[bufBegin])
    /\ chunk' = "B1"

\* The gap's successor is S2[0]; pi = pi == buf_end ? buf_begin : pi
PullAcross ==
    /\ chunk = "A"
    /\ pj = bufEnd - 1
    /\ GapPull(bufBegin)
    /\ LET p == pi + Advance(v[bufBegin])
       IN  /\ pi' = IF p = bufEnd THEN bufBegin ELSE p
           /\ chunk' = IF p = bufEnd THEN "B2" ELSE "B1"

\* A slip: the one-shot wrap is tested for before pi has moved.
PullBeforeWrap_TestedEarly ==
    /\ chunk = "B1"
    /\ GapPull(pj + 1)
    /\ IF pi = bufEnd
       THEN pi' = bufBegin /\ chunk' = "B2"
       ELSE pi' = pi + Advance(v[pj + 1]) /\ UNCHANGED chunk

\* Chunk B while pi is in S1: if (pi == buf_end) { pi = buf_begin; ++pj; break; }
PullBeforeWrap ==
    /\ chunk = "B1"
    /\ GapPull(pj + 1)
    /\ LET p == pi + Advance(v[pj + 1])
       IN  IF p = bufEnd
           THEN pi' = bufBegin /\ chunk' = "B2"
           ELSE pi' = p /\ UNCHANGED chunk

\* The rest of chunk B, with no test at all
PullAfterWrap ==
    /\ chunk = "B2"
    /\ GapPull(pj + 1)
    /\ pi' = pi + Advance(v[pj + 1])
    /\ UNCHANGED chunk

\* *(last - 1) = move(*pi);
GapCloseLast ==
    /\ pc = "close"
    /\ GapLast
    /\ v' = [v EXCEPT ![pj] = v[pi], ![pi] = Hole]
    /\ pc' = "putback"
    /\ UNCHANGED <<below, fillVars, tmp, call, c1, gapVars, ret>>

\* *pi = move(tmp); return (pi >= first ? pi - first
\*                                      : len1 + (pi - buf_begin)) + below(tmp);
GapPutBack ==
    /\ pc = "putback"
    /\ v' = [v EXCEPT ![pi] = tmp]
    /\ tmp' = Hole
    /\ ret' = (IF pi >= first THEN pi - first ELSE len1 + (pi - bufBegin)) + Advance(tmp)
    /\ pc' = "done"
    /\ UNCHANGED <<below, fillVars, call, c1, gapVars>>

GapStep ==
    \/ GapLift \/ GapClose \/ PullFlat \/ PullAcross \/ PullBeforeWrap \/ PullAfterWrap
    \/ GapCloseLast \/ GapPutBack
-----------------------------------------------------------------------------
Filling == FillStep /\ UNCHANGED <<call, c1, gapVars, ret>>

Terminating == pc = "done" /\ UNCHANGED vars

Next ==
    \/ Flat \/ EmptySuffix \/ SegmentOne \/ SpillFill \/ SpillSeg \/ FlatOffset
    \/ FillReturns
    \/ GapStep
    \/ Filling
    \/ Terminating

Spec == Init /\ [][Next]_vars

FairSpec == Spec /\ WF_vars(Next)
-----------------------------------------------------------------------------
\* The iterator that cyclic_partition makes of the count.
Iterator ==
    IF ~Wraps \/ ret < len1 THEN first + ret ELSE bufBegin + (ret - len1)

\* refactored_partitions.hpp:2003: the iterator that cyclic_partition returns is
\* normalized into [buf_begin, buf_end), so that a caller may dereference it.
Normalized ==
    pc = "done" /\ call.form = "cyclic" /\ bufBegin < bufEnd =>
        Iterator \in bufBegin .. bufEnd - 1

TypeOK ==
    /\ v \in [Pos -> Pos \cup {Hole}]
    /\ below \in SUBSET Pos
    /\ {lo, loEnd, r2lo, r2end, sfirst, slast, m, pi, pj} \subseteq 0 .. N
    /\ slotsRem \in 0 .. N /\ found \in 0 .. N /\ c1 \in 0 .. N
    /\ offR \in [0 .. B - 1 -> 0 .. B] /\ numR \in 0 .. B
    /\ run \in {1, 2} /\ at \in 0 .. B /\ cnt \in 0 .. B /\ k \in 0 .. B
    /\ fused \in BOOLEAN
    /\ tmp \in Pos \cup {Hole}
    /\ chunk \in {"A", "B1", "B2"}
    /\ ret \in 0 .. N
    /\ pc \in {"dispatch", "loop", "scan", "filled", "rotate", "second", "bridge",
               "return", "close", "pull", "putback", "done"}

\* What is still to do, in the view, is what the two halves of a call are told:
\* the range is filled up to c1 + found; from there to the suffix every element
\* is a slot; the blocks already looked at hold no element that goes left.  The
\* supply that slots_rem counts is the room of the two runs, and the next slot
\* is the one after those already filled.
SlotsAndBlocks ==
    LET next   == ViewFirst + c1 + found
        suffix == ViewFirst + n - (last - sfirst)
        seen   == ViewFirst + n - (last - slast)
        a      == View(v)
    IN  /\ pc \in {"loop", "bridge"} =>
              /\ AllIn(a, ViewBelow, ViewFirst, next)
              /\ Kernel # "off_w2_seg" =>
                    /\ NoneIn(a, ViewBelow, next, suffix)
                    /\ slotsRem = suffix - next
              /\ NoneIn(a, ViewBelow, seen, ViewFirst + n)
              /\ slotsRem = (loEnd - lo) + (r2end - r2lo)
              /\ slotsRem > 0 => ToView(lo) = next
        /\ pc = "bridge" => Partitioned(v, below, sfirst, m, slast)

\* The invariant of the fill, in each of its uses: no element is lost while
\* one is in the temporary, and the parts above hold.
SlotInvariant == TypeOK /\ (pc \notin {"close", "pull", "putback"} => OneCellVacant)
                        /\ SlotsAndBlocks

\* A prefix is rearranged only as far as it is needed, also across the end of
\* the ring: with c elements going left, no cell of it from the c-th on changes
\* (the boundary of the call is then in the prefix), and none before it keeps
\* its element.
SlotsOnly ==
    pc = "done" /\ Kernel \in {"prefix_fill", "part_swap", "off_w2_fill"} =>
        \A q \in ViewFirst .. ViewFirst + off - 1 :
            View(v)[q] # q <=> q < ViewFirst + ret

\* The array with whatever is lifted put back.
Restored ==
    CASE pc = "rotate" -> Refilled
      [] pc = "close"  -> [v EXCEPT ![pj] = tmp]
      [] pc \in {"pull", "putback"} -> [v EXCEPT ![pi] = tmp]
      [] OTHER -> v

\* The promise of concepts.hpp, in the view; the boundary is the iterator that
\* cyclic_partition returns.
Contract == INSTANCE PartitionContract WITH
    v        <- View(Restored),
    goesLeft <- ViewBelow,
    first    <- ViewFirst,
    last     <- ViewFirst + n,
    done     <- pc = "done",
    ret      <- IF pc # "done" THEN ViewFirst
                ELSE IF Wraps THEN ToView(Iterator) ELSE Iterator

Implements == Contract!Spec

\* The gap method of the ring takes the steps of the flat one: chunks, the
\* wrap of each cursor and the lifted element included.  A call that another
\* kernel serves is a gap method that has not started.
GapCall == Kernel = "gap"

Flat_ == INSTANCE GapLomuto WITH
    v     <- IF GapCall THEN View(v) ELSE [p \in Pos |-> p],
    below <- ViewBelow,
    rev   <- FALSE,
    first <- ViewFirst,
    last  <- ViewFirst + n,
    tmp   <- IF GapCall THEN ViewElement(tmp) ELSE Hole,
    i     <- IF pc = "done" /\ GapCall THEN ViewFirst + ret ELSE ToView(pi),
    j     <- IF pc = "dispatch" THEN ViewFirst ELSE ToView(pj),
    pc    <- IF ~GapCall \/ pc = "dispatch" THEN "start" ELSE pc

GapRefines == Flat_!Spec

\* Every call returns: each block shortens the suffix that is left, and each
\* step of the gap brings it closer to the end.
Termination == <>(pc = "done")
=============================================================================

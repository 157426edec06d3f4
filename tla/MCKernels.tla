----------------------------- MODULE MCKernels ------------------------------
(***************************************************************************)
(* The block kernel and the two kernels that write every element twice,    *)
(* for model checking: a behaviour is one call of one of the three, and    *)
(* the variables of the others keep their initial values.  The arguments   *)
(* of the calls are chosen for the cases that matter.                      *)
(***************************************************************************)
EXTENDS Ranges, FiniteSets, Sequences

CONSTANTS
    B, Save, Chunk, W,
    BlockN, CompressN       \* the longest ranges of the two kernels

VARIABLES
    kernel, v, below, n, pc,
    first, last, l, r, offL, numL, startL, offR, numR, startR, k, ret,
    swap, ptr, pta, tpa, m, cnt, c,
    held, i, j, sl, sr, tmp

L == INSTANCE Block
F == INSTANCE Fulcrum
D == INSTANCE Compress

ASSUME KernelParameters == L!BAssumption /\ F!SaveAssumption /\ W \in Nat \ {0}

\* The variables of one kernel that no other has.
ofBlock    == <<first, last, l, r, offL, numL, startL, offR, numR, startR, k, ret>>
ofFulcrum  == <<swap, ptr, pta, tpa, m, cnt, c>>
ofCompress == <<held, i, j, sl, sr, tmp>>

others(x) ==
    /\ kernel = x
    /\ UNCHANGED kernel
    /\ x # "block" => UNCHANGED ofBlock
    /\ x # "fulcrum" => UNCHANGED ofFulcrum
    /\ x # "compress" => UNCHANGED ofCompress
    /\ x = "block" => UNCHANGED n

allVars == <<kernel, v, below, n, pc, ofBlock, ofFulcrum, ofCompress>>
-----------------------------------------------------------------------------
NotBlock ==
    /\ first = 0 /\ last = 0 /\ l = 0 /\ r = 0 /\ offL = <<>> /\ numL = 0 /\ startL = 0
    /\ offR = <<>> /\ numR = 0 /\ startR = 0 /\ k = 0 /\ ret = 0

NotFulcrum ==
    swap = <<>> /\ ptr = 0 /\ pta = 0 /\ tpa = 0 /\ m = 0 /\ cnt = 0 /\ c = 0

NotCompress ==
    held = <<>> /\ i = 0 /\ j = 0 /\ sl = 0 /\ sr = 0 /\ tmp = <<>>

\* Every predicate on [from, to), all or none of the elements elsewhere.
Below(from, to) ==
    {s \cup t : s \in SUBSET (from .. to - 1), t \in {{}, Pos \ (from .. to - 1)}}

\* A long range, at the start of the array or after a foreign cell, or one too
\* short for the block loop.
BlockCalls ==
    /\ kernel = "block" /\ n = N /\ NotFulcrum /\ NotCompress
    /\ first \in 0 .. 1
    /\ last \in {x \in first .. BlockN : x = BlockN \/ x <= 2 * B}
    /\ below \in Below(first, last)
    /\ L!Init

\* Long ranges are needed for either side to run out of room, so only the middle
\* gets every predicate; the saved elements, which are all placed last, follow
\* one of five patterns.
Saved(len) == 0 .. Save - 1 \cup len - Save .. len - 1

SavedBelow(len) ==
    {{}, Saved(len), 0 .. Save - 1, len - Save .. len - 1, {p \in Saved(len) : p % 2 = 0}}

FulcrumCalls ==
    /\ kernel = "fulcrum" /\ NotBlock /\ NotCompress
    /\ n \in 2 * Save + Chunk .. N
    /\ \E s \in SavedBelow(n), b \in SUBSET (Save .. n - Save - 1) : below = s \cup b
    /\ F!Init

CompressCalls ==
    /\ kernel = "compress" /\ NotBlock /\ NotFulcrum
    /\ n \in 2 * W .. CompressN
    /\ below \in SUBSET (0 .. n - 1)
    /\ D!Init

MCInit == BlockCalls \/ FulcrumCalls \/ CompressCalls

MCNext ==
    \/ others("block") /\ L!RefillLeft
    \/ others("block") /\ L!FillLeft
    \/ others("block") /\ L!LeftReady
    \/ others("block") /\ L!RefillRight
    \/ others("block") /\ L!FillRight
    \/ others("block") /\ L!RightReady
    \/ others("block") /\ L!SwapPair
    \/ others("block") /\ L!Advance
    \/ others("block") /\ L!FinishWindow
    \/ others("fulcrum") /\ F!NoRoomLeft
    \/ others("fulcrum") /\ F!ChunkLeft
    \/ others("fulcrum") /\ F!NoRoomRight
    \/ others("fulcrum") /\ F!ChunkRight
    \/ others("fulcrum") /\ F!LastChunk
    \/ others("fulcrum") /\ F!PlaceLeft
    \/ others("fulcrum") /\ F!PlaceRight
    \/ others("fulcrum") /\ F!ChunkPlaced
    \/ others("fulcrum") /\ F!PlaceSaved
    \/ others("compress") /\ D!LoadLeft
    \/ others("compress") /\ D!LoadRight
    \/ others("compress") /\ D!CopyTail
    \/ others("compress") /\ D!PlaceTail
    \/ others("compress") /\ D!Return
    \/ pc = "done" /\ UNCHANGED allVars

MCSpec == MCInit /\ [][MCNext]_allVars /\ WF_allVars(MCNext)
-----------------------------------------------------------------------------
\* The invariants of the three calls, stated in the kernels' modules.
WindowInvariant   == kernel = "block" => L!WindowInvariant
FulcrumInvariant  == kernel = "fulcrum" => F!FulcrumInvariant
CompressInvariant == kernel = "compress" => D!CompressInvariant

\* The promise of concepts.hpp, whichever kernel is called.  The double writes
\* duplicate elements while a call runs: of those two kernels only the array
\* that is returned is looked at.
Contract == INSTANCE PartitionContract WITH
    v        <- IF kernel = "block" \/ pc = "done" THEN v ELSE [p \in Pos |-> p],
    goesLeft <- below,
    first    <- first,
    last     <- IF kernel = "block" THEN last ELSE n,
    done     <- pc = "done",
    ret      <- CASE kernel = "block" -> ret
                  [] kernel = "fulcrum" /\ pc = "done" -> m
                  [] kernel = "compress" /\ pc = "done" -> sl
                  [] OTHER -> 0

Implements == Contract!Spec

\* Every call returns: a window shrinks, a side has room, the middle is used up.
Termination == <>(pc = "done")
=============================================================================

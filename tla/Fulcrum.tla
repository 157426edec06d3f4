------------------------------ MODULE Fulcrum ------------------------------
(***************************************************************************)
(* algo::detail::fulcrum_partition (the crumsort partition).  Every        *)
(* element is written twice, to the left slot ptl[m] and to the right slot *)
(* ptr[m]; m += below commits one of the two writes, and the other cell is *)
(* overwritten later.  So that no write destroys an element that is still  *)
(* to be read, the first and the last Save elements are saved in a buffer  *)
(* (they are placed last) and the two cursors that read the middle are     *)
(* advanced in chunks of Chunk elements, on whichever side has room.       *)
(*                                                                         *)
(* In the code Save is 32 and Chunk is 16, and the constants of its tests  *)
(* are Chunk == 16, Save + Chunk == 48 and 2 * Save / Chunk == 4.          *)
(***************************************************************************)
EXTENDS Ranges, FiniteSets

CONSTANTS
    Save,       \* elements saved on each side
    Chunk       \* elements placed by one chunk

\* Assumed where the module is instantiated.
SaveAssumption ==
    /\ Save \in Nat \ {0} /\ Chunk \in Nat \ {0}
    /\ Save = 2 * Chunk

VARIABLES
    v,          \* the array; first is cell 0 (ptl never moves)
    below,      \* the elements x with comp(proj(x), piv)
    n,          \* the range is [0, n)
    swap,       \* the saved elements
    ptr,        \* right write base
    pta, tpa,   \* left and right read cursors
    m,          \* elements placed on the left
    cnt,        \* chunks still to be placed
    c,          \* elements still to be placed from the current source
    pc          \* "left", "right": the two tests of the loop, ...

vars == <<v, below, n, swap, ptr, pta, tpa, m, cnt, c, pc>>
args == <<below, n, swap>>

\* fulcrum_partition is called for n >= fulcrum_cutoff == 2 * Save + Chunk.
Init ==
    /\ v = [p \in Pos |-> p]
    /\ below \in SUBSET Pos
    /\ n \in 2 * Save + Chunk .. N
    /\ swap = [s \in 0 .. 2 * Save - 1 |-> IF s < Save THEN v[s] ELSE v[n - 2 * Save + s]]
    /\ ptr = n - 1
    /\ pta = Save
    /\ tpa = n - 1 - Save
    /\ m = 0
    /\ cnt = n \div Chunk - 2 * (Save \div Chunk)
    /\ c = 0
    /\ pc = "left"
-----------------------------------------------------------------------------
\* A slip: m is advanced between the two writes.
Place_CountsFirst(x) ==
    LET d == IF x \in below THEN 1 ELSE 0
    IN  /\ v' = [v EXCEPT ![m] = x, ![ptr + m + d] = x]
        /\ m' = m + d
        /\ ptr' = ptr - 1

\* ptl[m] = x; ptr[m] = x; m += below(x); --ptr;
Place(x) ==
    /\ v' = [v EXCEPT ![m] = x, ![ptr + m] = x]
    /\ m' = IF x \in below THEN m + 1 ELSE m
    /\ ptr' = ptr - 1

Slack == pta - m                \* (pta - ptl) - m

\* Slips: the left test is dropped; the right test asks for more than the left
\* one leaves open.
RoomLeft_Any == TRUE
RoomRight_Far == Slack > 2 * Save

\* The tests for a chunk from the left, (pta - ptl) - m <= 48, and from the right,
\* (pta - ptl) - m >= 16.
RoomLeft == Slack <= Save + Chunk
RoomRight == Slack >= Chunk

\* if (slack <= 48) { if (cnt-- == 0) break; place 16 from the left }
NoRoomLeft ==
    /\ pc = "left"
    /\ ~RoomLeft
    /\ pc' = "right"
    /\ UNCHANGED <<v, args, ptr, pta, tpa, m, cnt, c>>

ChunkLeft ==
    /\ pc = "left"
    /\ RoomLeft
    /\ cnt > 0
    /\ cnt' = cnt - 1
    /\ c' = Chunk
    /\ pc' = "placeLeft"
    /\ UNCHANGED <<v, args, ptr, pta, tpa, m>>

\* if (slack >= 16) { if (cnt-- == 0) break; place 16 from the right }
NoRoomRight ==
    /\ pc = "right"
    /\ ~RoomRight
    /\ pc' = "left"
    /\ UNCHANGED <<v, args, ptr, pta, tpa, m, cnt, c>>

ChunkRight ==
    /\ pc = "right"
    /\ RoomRight
    /\ cnt > 0
    /\ cnt' = cnt - 1
    /\ c' = Chunk
    /\ pc' = "placeRight"
    /\ UNCHANGED <<v, args, ptr, pta, tpa, m>>

\* A slip: a whole chunk instead of the remainder.
LastChunk_Full ==
    /\ \/ pc = "left"  /\ RoomLeft
       \/ pc = "right" /\ RoomRight
    /\ cnt = 0
    /\ c' = Chunk
    /\ pc' = IF RoomLeft THEN "restLeft" ELSE "restRight"
    /\ UNCHANGED <<v, args, ptr, pta, tpa, m, cnt>>

\* The chunks are used up: n % 16 elements are left, all on one side.
LastChunk ==
    /\ \/ pc = "left"  /\ RoomLeft
       \/ pc = "right" /\ RoomRight
    /\ cnt = 0
    /\ c' = n % Chunk
    /\ pc' = IF RoomLeft THEN "restLeft" ELSE "restRight"
    /\ UNCHANGED <<v, args, ptr, pta, tpa, m, cnt>>

PlaceLeft ==
    /\ pc \in {"placeLeft", "restLeft"}
    /\ c > 0
    /\ Place(v[pta])
    /\ pta' = pta + 1
    /\ c' = c - 1
    /\ UNCHANGED <<args, tpa, cnt, pc>>

PlaceRight ==
    /\ pc \in {"placeRight", "restRight"}
    /\ c > 0
    /\ Place(v[tpa])
    /\ tpa' = tpa - 1
    /\ c' = c - 1
    /\ UNCHANGED <<args, pta, cnt, pc>>

ChunkPlaced ==
    /\ c = 0
    /\ \/ pc = "placeLeft"  /\ pc' = "right" /\ c' = 0
       \/ pc = "placeRight" /\ pc' = "left"  /\ c' = 0
       \/ pc \in {"restLeft", "restRight"} /\ pc' = "saved" /\ c' = 2 * Save
    /\ UNCHANGED <<v, args, ptr, pta, tpa, m, cnt>>

\* for (c = 0; c < 2 * Save; ++c) place(*ps++); return first + m;
PlaceSaved ==
    /\ pc = "saved"
    /\ c > 0
    /\ Place(swap[2 * Save - c])
    /\ c' = c - 1
    /\ pc' = IF c = 1 THEN "done" ELSE "saved"
    /\ UNCHANGED <<args, pta, tpa, cnt>>

Next ==
    \/ NoRoomLeft \/ ChunkLeft \/ NoRoomRight \/ ChunkRight \/ LastChunk
    \/ PlaceLeft \/ PlaceRight \/ ChunkPlaced \/ PlaceSaved

Spec == Init /\ [][Next]_vars
-----------------------------------------------------------------------------
Right == ptr + m + 1            \* [Right, n) has been placed on the right

TypeOK ==
    /\ v \in [Pos -> Pos]
    /\ below \in SUBSET Pos
    /\ n \in 2 * Save + Chunk .. N
    /\ swap \in [0 .. 2 * Save - 1 -> Pos]
    /\ ptr \in -1 .. n - 1
    /\ pta \in Save .. n - Save
    /\ tpa \in Save - 1 .. n - 1 - Save
    /\ m \in 0 .. n
    /\ cnt \in 0 .. n
    /\ c \in 0 .. 2 * Save
    /\ pc \in {"left", "right", "placeLeft", "placeRight", "restLeft",
               "restRight", "saved", "done"}

\* Every element is in exactly one of four places: placed on the left, placed
\* on the right, not read yet, or saved and not placed yet.
Remaining == IF pc = "saved" THEN c ELSE IF pc = "done" THEN 0 ELSE 2 * Save

NothingClobbered ==
    LET saved == 2 * Save - Remaining .. 2 * Save - 1
        kept  == 0 .. m - 1 \cup Right .. n - 1 \cup pta .. tpa
    IN  {v[p] : p \in kept} \cup {swap[s] : s \in saved} = 0 .. n - 1

\* "reads stay ahead of writes" (algorithms.hpp:588-591): neither of the two
\* cells the next placement writes holds an unread element, unless it is the
\* very element being placed.  (The comment says ahead "by >= 16"; a chunk may
\* use up all of the other side's slack, so 0 is what the tests leave.)
WritesBehindReads ==
    /\ pc \in {"placeLeft", "restLeft"} /\ c > 0 =>
          {m, ptr + m} \cap (pta + 1 .. tpa) = {}
    /\ pc \in {"placeRight", "restRight"} /\ c > 0 =>
          {m, ptr + m} \cap (pta .. tpa - 1) = {}
    /\ pc \in {"saved", "done"} => pta > tpa

\* Both ends of the range hold only elements of their side.
Sandwich ==
    /\ AllIn(v, below, 0, m)
    /\ NoneIn(v, below, Right, n)
    /\ pc = "done" => Right = m

\* The invariant of the call: the parts above, at every step.
FulcrumInvariant == TypeOK /\ NothingClobbered /\ WritesBehindReads /\ Sandwich

\* The promise of concepts.hpp.  The double writes duplicate elements while the
\* call runs, so it is kept of the call as a whole: only on return is the array
\* looked at.
Contract == INSTANCE PartitionContract WITH
    v        <- IF pc = "done" THEN v ELSE [p \in Pos |-> p],
    goesLeft <- below,
    first    <- 0,
    last     <- n,
    done     <- pc = "done",
    ret      <- IF pc = "done" THEN m ELSE 0

Implements == Contract!Spec
=============================================================================

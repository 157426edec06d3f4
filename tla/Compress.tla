------------------------------ MODULE Compress ------------------------------
(***************************************************************************)
(* algo::detail_amd::compress_partition.  A vector of W elements is read   *)
(* from one end of the unread middle [i, j), compacted, the elements below *)
(* the pivot first, and stored whole at both write cursors: at sl, which   *)
(* advances by the elements below, and before sr, which recedes by the     *)
(* others.  What lies between the cursors is overwritten later.  The first *)
(* and the last vector are held back to make room and are placed last,     *)
(* one element at a time, with the middle that is shorter than a vector.   *)
(* The pivot is of the elements' type: a caller's key has been converted.  *)
(***************************************************************************)
EXTENDS Ranges, VectorLanes

VARIABLES
    v,                      \* the array a
    below,                  \* the elements x with x < pivot
    n,                      \* the range is [0, n)
    held,                   \* vL and vR, the vectors read first
    i, j,                   \* the middle not read yet is [i, j)
    sl, sr,                 \* [0, sl) and [sr, n) are placed
    tmp,                    \* the elements of the tail still to be placed
    pc

vars == <<v, below, n, held, i, j, sl, sr, tmp, pc>>
args == <<below, n, held>>

\* The vector at p, as a sequence.
Vector(p) == [lane \in 1 .. W |-> v[p + lane - 1]]

\* Called for n >= 2 * W.
Init ==
    /\ v = [p \in Pos |-> p]
    /\ below \in SUBSET Pos
    /\ n \in 2 * W .. N
    /\ held = Vector(0) \o Vector(n - W)
    /\ i = W /\ j = n - W
    /\ sl = 0 /\ sr = n
    /\ tmp = <<>>
    /\ pc = "loop"
-----------------------------------------------------------------------------
\* cstore(x)
Store(x) ==
    LET mask == {lane \in Lanes : x[lane + 1] \in below}
        y    == [s \in 1 .. W |-> x[LutPerm(mask)[s] + 1]]
    IN  /\ v' = [p \in Pos |-> CASE p \in sr - W .. sr - 1 -> y[p - (sr - W) + 1]
                                 [] p \in (sl .. sl + W - 1) \ (sr - W .. sr - 1) ->
                                        y[p - sl + 1]
                                 [] OTHER -> v[p]]
        /\ sl' = sl + Cardinality(mask)
        /\ sr' = sr - (W - Cardinality(mask))

\* A slip: the side with more room is refilled.
MoreRoomLeft_Swapped == i - sl >= sr - j

\* (i - sl) <= (sr - j): the reads on the left are the fewer cells ahead.
MoreRoomLeft == i - sl <= sr - j

\* A slip: an element too few is enough.
Full_Short == j - i >= W - 1

\* while (j - i >= W)
Full == j - i >= W

LoadLeft ==
    /\ pc = "loop"
    /\ Full
    /\ MoreRoomLeft
    /\ Store(Vector(i))
    /\ i' = i + W
    /\ UNCHANGED <<args, j, tmp, pc>>

LoadRight ==
    /\ pc = "loop"
    /\ Full
    /\ ~MoreRoomLeft
    /\ Store(Vector(j - W))
    /\ j' = j - W
    /\ UNCHANGED <<args, i, tmp, pc>>

\* The two vectors held back and the rest of the middle are copied.
CopyTail ==
    /\ pc = "loop"
    /\ ~Full
    /\ tmp' = held \o [s \in 1 .. j - i |-> v[i + s - 1]]
    /\ pc' = "tail"
    /\ UNCHANGED <<v, args, i, j, sl, sr>>

\* if (x < pivot) a[sl++] = x; else a[--sr] = x;
PlaceTail ==
    /\ pc = "tail"
    /\ tmp # <<>>
    /\ IF Head(tmp) \in below
       THEN v' = [v EXCEPT ![sl] = Head(tmp)] /\ sl' = sl + 1 /\ sr' = sr
       ELSE v' = [v EXCEPT ![sr - 1] = Head(tmp)] /\ sr' = sr - 1 /\ sl' = sl
    /\ tmp' = Tail(tmp)
    /\ UNCHANGED <<args, i, j, pc>>

Return ==
    /\ pc = "tail"
    /\ tmp = <<>>
    /\ pc' = "done"
    /\ UNCHANGED <<v, args, i, j, sl, sr, tmp>>

Next == LoadLeft \/ LoadRight \/ CopyTail \/ PlaceTail \/ Return

Spec == Init /\ [][Next]_vars
-----------------------------------------------------------------------------
\* The elements that are held outside the array.
Outside == IF pc = "loop" THEN held ELSE tmp

Unread == IF pc = "loop" THEN i .. j - 1 ELSE {}

\* Every element is in exactly one of four places: placed on the left, placed on
\* the right, not read yet, or held.
NothingClobbered ==
    /\ {v[p] : p \in 0 .. sl - 1 \cup sr .. n - 1 \cup Unread}
          \cup {Outside[s] : s \in 1 .. Len(Outside)} = 0 .. n - 1
    /\ sl + (n - sr) + Cardinality(Unread) + Len(Outside) = n

\* The room between the write cursors and the unread middle is two vectors, and
\* a whole store on the side that is not read from next fits in front of it
\* (algorithms_amd.hpp:248-249: "Reads are kept ahead of writes by always
\* refilling the side with less slack").
RoomForStore ==
    pc = "loop" =>
        /\ (i - sl) + (sr - j) = 2 * W
        /\ i - sl >= 0 /\ sr - j >= 0
        /\ Full => IF MoreRoomLeft THEN sr - j >= W ELSE i - sl >= W

\* Both ends of the range hold only elements of their side.
Sandwich ==
    /\ 0 <= sl /\ sl <= sr /\ sr <= n
    /\ AllIn(v, below, 0, sl)
    /\ NoneIn(v, below, sr, n)

\* The invariant of the call: the parts above, at every step.
CompressInvariant == NothingClobbered /\ RoomForStore /\ Sandwich

\* The promise of concepts.hpp, of the call as a whole: while it runs elements
\* are duplicated and held.
Contract == INSTANCE PartitionContract WITH
    v        <- IF pc = "done" THEN v ELSE [p \in Pos |-> p],
    goesLeft <- below,
    first    <- 0,
    last     <- n,
    done     <- pc = "done",
    ret      <- IF pc = "done" THEN sl ELSE 0

Implements == Contract!Spec
=============================================================================

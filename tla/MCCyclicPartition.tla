-------------------------- MODULE MCCyclicPartition --------------------------
(***************************************************************************)
(* Calls for model checking.  The ring starts after a foreign cell; cells  *)
(* outside the range, in the ring or not, go left.  Flat offset calls use  *)
(* the whole array.  The flat partition ends in any rearrangement that its *)
(* contract allows, so what it is given is kept to FlatBound elements; the *)
(* gap method alone takes ranges of up to GapBound.                        *)
(***************************************************************************)
EXTENDS CyclicPartition

CONSTANTS SuffixBound, FlatBound, GapBound

Call(f, c, a, b, bb, be, o) ==
    [form |-> f, cls |-> c, first |-> a, last |-> b, bufBegin |-> bb, bufEnd |-> be,
     off |-> o]

Size(c) == IF c.first > c.last THEN (c.bufEnd - c.first) + (c.last - c.bufBegin)
           ELSE c.last - c.first

\* A wrapped call with len1 = a, len2 = b and g cells of the ring outside it.
Wrapped(f, c, a, b, g, o) == Call(f, c, 1 + b + g, 1 + b, 1, 1 + a + b + g, o)

FlatOffsetCalls ==
    {Call(f, "plain", a, N, a, N, o) :
        f \in {"prefix_fill", "part_swap"}, a \in 0 .. 1, o \in 0 .. N}

FlatCalls ==
    {Call(f, "plain", a, b, 1, 1 + FlatBound, o) :
        f \in {"cyclic", "cyclic_offset"}, a \in 1 .. 2, b \in 2 .. 1 + FlatBound,
        o \in 0 .. 1}

RingCalls ==
    {Wrapped(f, c, a, b, g, o) :
        f \in {"cyclic", "cyclic_offset", "off_w2_seg"}, c \in {"lex", "mlex", "plain"},
        a \in 1 .. N, b \in 0 .. N, g \in 1 .. 2, o \in 0 .. N}

Room(c) ==
    /\ c.bufEnd <= N - 1
    /\ c.first - c.last = 2 => Size(c) <= 4

\* What is compared at most: the whole of a plain call, the suffix of the others.
Small ==
    CASE Kernel = "gap" -> n <= GapBound
      [] Kernel = "flat" -> n <= FlatBound
      [] Kernel \in {"seg_bridge", "off_w1_seg"} -> len1 < FlatBound /\ len2 < FlatBound
      [] Kernel \in {"seg_fill", "off_w1_fill"} ->
            len1 <= FlatBound /\ len2 <= FlatBound /\ n - off <= SuffixBound
      [] Kernel = "off_w2_seg" -> len1 <= FlatBound /\ len2 < FlatBound
      [] Kernel = "off_w2_fill" -> n - off <= IF off >= B THEN SuffixBound - 2 ELSE FlatBound - 2
      [] Kernel = "part_swap" -> n - off <= FlatBound
      [] OTHER -> n - off <= IF off >= B THEN SuffixBound ELSE FlatBound

MCInit ==
    /\ \E c \in {d \in FlatOffsetCalls \cup FlatCalls \cup {x \in RingCalls : Room(x)} : d \in Calls} :
          /\ call = c
          /\ Small
          /\ Start(c)
    /\ \A p \in Pos : ToView(p) \notin ViewFirst .. ViewFirst + n - 1 => p \in below

MCSpec == MCInit /\ [][Next]_vars /\ WF_vars(Next)
=============================================================================

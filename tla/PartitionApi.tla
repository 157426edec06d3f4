---------------------------- MODULE PartitionApi ----------------------------
(***************************************************************************)
(* The four calling forms of partition_api.hpp, composed with the size     *)
(* dispatch of sized, boost_block, their reversed and offset mirrors and   *)
(* quick_partition, and with the scalar kernels they end up in.            *)
(*                                                                         *)
(* A kernel is an instance of its own module.  Only one runs in a call, so *)
(* the instances share the cursors lo and hi.  std::partition and the      *)
(* large kernels, branchless_partition in its scalar and vector forms,     *)
(* compress_partition, fulcrum_partition and prefix_fill, whose own        *)
(* modules show the contract, are one step here that ends in any outcome   *)
(* the contract allows.                                                    *)
(*                                                                         *)
(* The key of partition_by_key may be of any type.  The vector kernels     *)
(* convert it to the type of the elements, so they may tell the elements   *)
(* apart in another way than the comparator does: `cast`.                  *)
(*                                                                         *)
(* A kernel called through reverse iterators sees the mirror image of the  *)
(* memory: cell p is its cell N - 1 - p.  `v` is what the kernel sees.     *)
(***************************************************************************)
EXTENDS PartitionCall

CONSTANTS
    SizedCutoff,        \* sized_cutoff<T>
    BlockCutoff,        \* boost_scalar_cutoff and fused_scalar_cutoff, both 16
    FulcrumCutoff,      \* fulcrum_cutoff
    LomutoMax,          \* kLomutoMax<T>, 64
    CompressCutoff,     \* block_compress_amd::cutoff, 64
    CompressMax,        \* kCompressMax<T>
    Narrow              \* sizeof(T) <= 8

ASSUME CutoffAssumption ==
    {SizedCutoff, BlockCutoff, FulcrumCutoff, LomutoMax, CompressCutoff, CompressMax}
        \subseteq Nat
ASSUME NarrowAssumption == Narrow \in BOOLEAN

VARIABLES
    form,               \* the function called
    alg,                \* the algorithm it was given
    below,              \* the elements x with comp(proj(x), pivot)
    cast,               \* the elements x with x < static_cast<T>(pivot)
    first, last,        \* the range of the call
    pivot,              \* the pivot's position, in the position forms
    off,                \* the length of the prefix, in the offset form
    kernel,             \* the kernel that runs
    v,                  \* the array as the kernel sees it
    lo, hi, tmp,        \* the kernel's cursors and its lifted element
    pc                  \* "call", or the next statement of the kernel

call == <<form, alg, below, cast, first, last, pivot, off>>
vars == <<call, kernel, v, lo, hi, tmp, pc>>

ValueForms    == {"by_key", "reverse_by_key"}
PositionForms == {"by_position", "reverse_by_position"}
ValueAlgs     == {"std_partition", "lomuto", "lomuto_branchless", "fulcrum"}
OffsetAlgs    == {"scan_swap_off", "fused_block_off", "sized_off"}
ReversedAlgs  == {"boost_block_rev", "sized_rev"}
PositionAlgs  ==                                        \* those with an `at`
    {"hoare_guarded", "boost_block", "sized", "block_compress_amd", "quick_partition"}

VectorAlgs    == {"block_compress_amd", "quick_partition"}

\* The algorithm objects each of the functions is called with.
AlgsOf(f) ==
    CASE f = "offset_partition" -> OffsetAlgs
      [] f = "by_key"           -> ValueAlgs \cup PositionAlgs \cup ReversedAlgs
      [] OTHER                  -> ValueAlgs \cup PositionAlgs

\* The position form's fast path is taken.
AtPath == form \in PositionForms /\ alg \in PositionAlgs

\* ... over the reversed range
Mirrored == AtPath /\ form = "reverse_by_position"

\* A slip: the comparator is negated for reverse_by_key only.
Negated_KeyOnly == form = "reverse_by_key"

\* The comparator handed on is negate_comp(comp).
Negated == form \in {"reverse_by_key", "reverse_by_position"} /\ ~Mirrored

\* The elements for which the kernel's comparator holds against the pivot.
Keep == IF Negated THEN Pos \ below ELSE below

\* The kernel is one of the reversed family, which negates by itself.
Rev == alg \in ReversedAlgs
KeptLeft == IF Rev THEN Pos \ Keep ELSE Keep

Seen(a) == IF Mirrored THEN [p \in Pos |-> a[N - 1 - p]] ELSE a

From  == IF Mirrored THEN N - last ELSE first
To    == IF Mirrored THEN N - first ELSE last

\* A slip: the reverse iterator is made from pivot and not from pivot + 1.
GuardCell_NoPlusOne == IF Mirrored /\ pivot > first THEN N - pivot ELSE pivot

\* make_reverse_iterator(pivot + 1)
GuardCell == IF Mirrored THEN N - 1 - pivot ELSE pivot

\* What the conversion of a key may make of its comparison: anything, the key may
\* be a fraction, out of range or of another sign.  The position forms read the
\* key from an element, and only the vector algorithms convert one.
CastsOf(f, a, s) == IF f = "by_key" /\ a \in VectorAlgs THEN SUBSET Pos ELSE {s}

Init ==
    /\ form \in ValueForms \cup PositionForms \cup {"offset_partition"}
    /\ alg \in AlgsOf(form)
    /\ below \in SUBSET Pos
    /\ cast \in CastsOf(form, alg, below)
    /\ first \in 0 .. N
    /\ last \in first .. N
    /\ IF form \in PositionForms
       THEN pivot \in first .. last - 1 /\ pivot \notin below
       ELSE pivot = first
    /\ off \in 0 .. IF form = "offset_partition" THEN last - first ELSE 0
    /\ \A p \in first .. first + off - 1 : p \notin below
    /\ kernel = "none"
    /\ v = [p \in Pos |-> p]
    /\ lo = first
    /\ hi = last
    /\ tmp = -1
    /\ pc = "call"
-----------------------------------------------------------------------------
H  == INSTANCE Hoare WITH below <- Keep, first <- From, last <- To, rev <- Rev
HG == INSTANCE HoareGuarded WITH
          below <- Keep, first <- From, last <- To, pivot <- GuardCell
L  == INSTANCE Lomuto WITH
          below <- Keep, first <- From, last <- To, store <- lo, cur <- hi
G  == INSTANCE GapLomuto WITH
          below <- Keep, first <- From, last <- To, i <- lo, j <- hi, rev <- Rev

BoostBlock(n) ==
    IF n < BlockCutoff THEN "hoare" ELSE "block"

\* A slip: the comparator handed on is not looked at.
Eligible_AnyComp == ~Mirrored

\* simd_eligible, for a type it admits: the default comparator and contiguous
\* memory.  Other calls of the vector algorithms end in boost_block or sized.
Eligible == ~Mirrored /\ ~Negated

Compress(n) ==
    IF Eligible /\ n >= CompressCutoff THEN "compress" ELSE BoostBlock(n)

\* sized: a short range is walked, a longer one goes by blocks.
Sized(n) == IF n <= SizedCutoff THEN "gap" ELSE BoostBlock(n)

\* block_simd_amd: boost_block with vector fills
BlockSimd(n) ==
    IF n < BlockCutoff THEN "hoare" ELSE "block_simd"

QuickPartition(n) ==
    CASE ~Eligible                       -> Sized(n)
      [] Eligible /\ n < LomutoMax       -> "gap"
      [] Eligible /\ n \in LomutoMax .. CompressMax -> Compress(n)
      [] OTHER                           -> BlockSimd(n)

Suffix == last - first - off

SizedOff ==
    IF Suffix <= SizedCutoff \/ (Narrow /\ off >= Suffix) THEN "gap" ELSE "prefix_fill"

\* The size dispatch, on both paths.
Dispatched ==
    LET n == last - first
    IN  CASE alg = "std_partition"               -> "std_partition"
          [] alg \in {"lomuto", "scan_swap_off"} -> "lomuto"
          [] alg = "lomuto_branchless"           -> "gap"
          [] alg = "hoare_guarded"               -> IF AtPath THEN "guarded" ELSE "hoare"
          [] alg \in {"boost_block", "boost_block_rev"} -> BoostBlock(n)
          [] alg = "fulcrum"                     ->
                IF n < FulcrumCutoff THEN BoostBlock(n) ELSE "fulcrum"
          [] alg \in {"sized", "sized_rev"}      -> Sized(n)
          [] alg = "block_compress_amd"          -> Compress(n)
          [] alg = "quick_partition"             -> QuickPartition(n)
          [] alg = "fused_block_off"             ->
                IF Suffix < BlockCutoff THEN "lomuto" ELSE "block"
          [] alg = "sized_off"                   -> SizedOff

\* The call reaches its kernel, which sets up its cursors.
Dispatch ==
    /\ pc = "call"
    /\ kernel' = Dispatched
    /\ v' = Seen(v)
    /\ lo' = From
    /\ hi' = CASE Dispatched = "lomuto" -> From + off
               [] Dispatched = "gap"    -> From
               [] OTHER                 -> To
    /\ pc' = CASE Dispatched = "hoare"   -> "left"
               [] Dispatched = "guarded" -> "guard"
               [] Dispatched = "lomuto"  -> "scan"
               [] Dispatched = "gap"     -> "start"
               [] OTHER                  -> "contract"
    /\ UNCHANGED <<call, tmp>>

Running(k) == kernel = k /\ UNCHANGED <<call, kernel>>

RunHoare   == Running("hoare")   /\ H!Next  /\ UNCHANGED tmp
RunGuarded == Running("guarded") /\ HG!Next /\ UNCHANGED tmp
RunLomuto  == Running("lomuto")  /\ L!Next  /\ UNCHANGED tmp
RunGap     == Running("gap")     /\ G!Next

\* The sets of elements the kernel may take for those that go left.
\* compress_partition has the converted key only, and `<` built in; block_simd_amd
\* has a whole block looked at with the converted key and everything else with
\* the caller's, each element once.
TakenForLeft ==
    CASE kernel = "compress"   -> {cast}
      [] kernel = "block_simd" ->
            {s \in SUBSET Pos : below \cap cast \subseteq s /\ s \subseteq below \cup cast}
      [] OTHER                 -> {KeptLeft}

\* std::partition, branchless_partition, branchless_partition_rev, _off or _amd,
\* compress_partition, fulcrum_partition or prefix_fill_off, by contract: the
\* last three conjuncts are the contract, PartitionOutcomes lists its outcomes.
RunByContract ==
    /\ pc = "contract"
    /\ \E s \in TakenForLeft :
          /\ \E o \in PartitionOutcomes(v, s, From, To) :
                v' = o.array /\ lo' = o.boundary
          /\ IsArrangement(v')
          /\ SameOutside(v, v', From, To)
          /\ Partitioned(v', s, From, lo', To)
    /\ pc' = "done"
    /\ UNCHANGED <<call, kernel, hi, tmp>>

Terminating == pc = "done" /\ UNCHANGED vars

Next ==
    \/ Dispatch
    \/ RunHoare \/ RunGuarded \/ RunLomuto \/ RunGap \/ RunByContract
    \/ Terminating

Spec == Init /\ [][Next]_vars

\* Sequential code that never blocks: its next step is always taken.
FairSpec == Spec /\ WF_vars(Next)
-----------------------------------------------------------------------------
\* A slip: the boundary of the reversed range is used as it is.
Returned_NoBase == lo

\* rp.base()
Returned == IF Mirrored THEN N - lo ELSE lo

\* The caller's array, the element a kernel has lifted put back.
Memory ==
    CASE pc = "call"                   -> v
      [] pc # "call" /\ kernel = "gap" -> Seen(G!Restored)
      [] OTHER                         -> Seen(v)

\* The guard "holds throughout" (algorithms.hpp:146-148) wherever the pivot
\* was and in whichever direction: the scan without a bound always has an
\* element before it, inside the range, that stops it, and both cursors have
\* left behind only elements of their side.
GuardHolds ==
    kernel = "guarded" => HG!TypeOK /\ HG!Guarded /\ HG!Sandwich

\* lomuto and scan_swap_off are the schemes of the library that keep the order
\* of the elements that go left; the others of their range are all in place.
KeptInOrder ==
    kernel = "lomuto" => L!TypeOK /\ L!LoopInvariant /\ L!KeptInOrder

\* Where the key is converted, it compares as before: a key of the element's
\* type does, and so does one that this type represents.
KeyPreserved == Dispatched \in {"compress", "block_simd"} => cast = below

\* The elements the caller wants before the boundary.
CallersLeft ==
    IF Rev \/ form \in {"reverse_by_key", "reverse_by_position"}
    THEN Pos \ below ELSE below

\* Whatever the form, the algorithm and the size, the caller of a key that
\* KeyPreserved admits gets what partition_api.hpp:5-27 promises: forward,
\* [first, m) is less than the pivot and [m, last) is not; reverse, the other
\* way round; nothing else moves.
Contract == INSTANCE PartitionContract WITH
    v        <- Memory,
    goesLeft <- CallersLeft,
    done     <- pc = "done",
    ret      <- IF pc = "done" THEN Returned ELSE first

Implements == Contract!Spec

\* concepts.hpp:21-26: "every element for which comp(proj(x), pivot) is true
\* precedes every element for which it is false", and the partition point between
\* them is returned.  No type of key is excepted there.
DocumentedBoundary ==
    pc = "done" => Partitioned(Memory, CallersLeft, first, Returned, last)

\* Every call returns.
Termination == <>(pc = "done")
=============================================================================

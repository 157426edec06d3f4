# A verification project for the partition library

TLA+ models of the partition kernels of this repository, of the sorts and
selections built on them and of the ring-buffer partitions, checked with TLC on
small instances. For arrays of every size TLAPS proves the scalar kernels, their
composition by the dispatchers, the block partitions with their vector fills and
permutation index, the vector kernels, the ring-buffer partitions, `quicksort`,
`quicksort_lr`, the low-half extractions, `select_nth`, the small sorts and merges, and
the samples of the pivot strategies.

## 1. The system

A header-only C++ library of partition algorithms. A *partitioner* takes a
range, a pivot key, a comparator and a projection, reorders the range so that
the elements below the pivot come first and returns the boundary. Everything is
sequential: there are no threads, no input or output, nothing is stored. What
is hard is elsewhere: each algorithm keeps several cursors and buffers whose
relation must hold over every sequence of data-dependent steps, several of them
drop the bound of a scan because some element is known to stop it, several hold
an element outside of the array between two moves or write every element twice,
the vector forms store more than they count, and the sorts derive information
instead of storing it.

| component | source | state it keeps | operations | what makes it correct |
|---|---|---|---|---|
| partition contract | `include/partitions/concepts.hpp`, `tests/verify.hpp` | the range | partition | a permutation of the range, the right boundary, nothing outside touched |
| scalar kernels | `include/partitions/algorithms.hpp` | cursors, two offset buffers, a lifted element, a swap buffer | `hoare`, `hoare_guarded::at`, `lomuto`, `lomuto_branchless`, `block`, `boost_block`, `fulcrum`, `sized` | the contract, scans that stay inside, no element lost between two moves |
| reverse kernels | `reverse_partition.hpp` | the same, mirrored | `hoare_rev`, `lomuto_branchless_rev`, `boost_block_rev`, `sized_rev` | the contract with the sides exchanged, without negating the comparator |
| offset kernels | `offset_partition.hpp` | a prefix known to go right, slots, buffers | `scan_swap_off`, `gap_off`, `part_swap_off`, `prefix_fill_off`, `fused_block_off`, `sized_off` | the contract, the prefix never compared and touched only where needed |
| AVX2 kernels | `algorithms_amd.hpp` | vectors, offset buffers with overhang | `vfill_*`, `compress_partition`, `branchless_partition_amd` | the same, stores that stay in their buffers, reads that stay ahead of the double writes |
| dispatch, calling forms | `quick_partition.hpp`, `partition_api.hpp`, `partition_with_pivot.hpp` | none | choose a kernel by size and type; pivot by key or by position, forward or reverse | the precondition of the chosen kernel holds |
| pivot selection | `pivot.hpp` | none | sampling strategies, an in-place selection | positions inside the range, a pivot of middle rank |
| halving networks | `small_halve*.hpp` | none | fixed lists of compare-exchanges | they halve |
| small sorts and merges | `small_sort.hpp`, `small_merge.hpp` | a lifted element, a copied tail | networks, insertion, variable sort, completions of a sorted prefix | a sorted permutation, stability where it is promised, nothing overwritten unread |
| quicksort | `quicksort.hpp`, `quicksort_rev.hpp` | the call stack | `quicksort`, `halve_sort`, reversed forms | sorted permutation, logarithmic stack, progress on equal keys |
| left-to-right quicksort | `quicksort_lr.hpp` | its own stack of block beginnings | `quicksort_lr_impl`, minimum scans | the same, front to back; derived ends are right; stack bound |
| low-half extraction | `move_low_half.hpp`, `offset_low_half.hpp` | a sample, the bounds of a quickselect | `quickselect(_rev)`, `move_low_half(_exact)`, `offset_low_half(_exact)` | the split, the count, progress |
| single-header library | `refactored_partitions.hpp` | as above; ring buffers | twins of the kernels; `cyclic_partition*`, `cyclic_offset_partition` | as above, across the end of the ring |
| permutation tracking | `refactored_partitions_with_permutation.hpp` | an inverse index | twins that also maintain the index | the index is exact after every exchange and every call |
| the rest | `statistics.hpp`, `types.hpp`, `distributions.hpp`, `tests/`, `benchmarks/`, `optimizers/`, `python/`, `tools/`, `docs/`, `Plan*.md`, `seeds/` | | measuring, searching, documenting | |

How they interact: the dispatchers call kernels; `block`, `part_swap_off`,
`prefix_fill_off` and the cyclic kernels finish with another kernel; the sorts
and selections call `algo::sized` (or `sized_rev`) on a block without its pivot,
and a network, an insertion sort or a selection sort on small blocks; the
permutation library is the kernels with index writes between the moves. All
communication is by arguments, the array and the returned boundary.

## 2. How the code is modelled

* **Elements.** In the kernels an element is named by the cell it was in when
  the call was made, so the contents of the array are a permutation and losing or
  duplicating an element is visible whatever the keys. The comparator, the
  projection, the key type and the pivot are one set `below`, the elements for
  which `comp(proj(x), pivot)` holds; a scalar kernel learns nothing else, and all
  sets are initial states. In the sorts an element is its key, from a small ordered
  set with repetitions; in the small sorts it is both, because stability is
  part of what they promise.
* **Converted keys.** The vector kernels compare with the key converted to the
  type of the elements (`algorithms_amd.hpp:359` and 507,
  `refactored_partitions.hpp:1381` and 1492), and nothing looks at the type the caller's
  key has. `PartitionApi`, where a key of any type comes in, therefore has a second
  set, `cast`, the elements less than the converted key, which may be any. The
  vector kernels' own modules (`Compress`, the vector forms of `BranchlessPartition`,
  the vector fills of `SlotFill` and `PermPartition`) are about a key of the elements'
  type, for which the two sets are the same.
* **Ranges.** A call is on `[first, last)` of a larger array. The other cells are
  the caller's; the contract says that they do not change.
* **Steps.** One step is one iteration of a loop (one evaluation of the predicate
  with what the code does on its outcome) or, where the order of single moves
  matters (the gap of the branchless Lomuto, the rotation of pairs, the double
  writes of fulcrum and compress), one move. A moved-from cell holds `Hole` until
  it is written. A vector instruction is one step over its lanes.
* **Calls.** A kernel or sort that calls a kernel takes one step to any outcome
  the contract allows (`PartitionCall` for elements, `KeyArrays` for keys): it may
  rely on nothing else, so the result does not depend on which kernel the
  dispatch picks. `PartitionApi` is the other half: there the dispatch and the
  kernels it picks run step by step, as instances of their modules.
* **Families.** Functions that are the same code mirrored, with a bound compiled
  out, with a prefix, or with a vector fill, are one module with a variable that
  says which was called (`rev`, `form`, `off`, `call`, `entry`).
* **Sizes.** 128-element blocks, 8-lane vectors, 32-element buffers and cutoffs are
  constants of the modules; runs make them small. The widths of offsets do not
  matter below block size 256, which the code guarantees by a constant.
* **Assumptions.** A module names what it assumes of its constants. Modules that
  a run reaches only through `INSTANCE` define the assumption, and the run's
  module states it.
* **Slips.** An operator named `X_Something` before a definition `X` is a plausible
  mistake in `X`. It is in no specification; substituted for `X` it makes the
  property it is listed with in `PROJECT.json` fail, which shows that the property
  depends on the code.

| module | models | composed with |
|---|---|---|
| `Ranges` | array, cells, exchange, contract predicates | |
| `PartitionContract` | abstract: what every partitioner promises | target of the kernels' `Implements` |
| `PartitionCall` | a call of a kernel, by contract | `Block`, `SlotFill`, `PartitionApi` |
| `Hoare` | `hoare`, `hoare_rev` | |
| `HoareGuarded` | `hoare_guarded::at` | |
| `Lomuto` | `lomuto`, `scan_swap_off` | |
| `GapLomuto` | `lomuto_branchless`, `lomuto_branchless_rev`, `gap_off` | |
| `VectorLanes` | the look-up tables of the vector fills: lane masks to offsets | `BranchlessPartition`, `Compress` |
| `BranchlessPartition` | `detail::branchless_partition` guarded and unguarded, `branchless_partition_rev`, `branchless_partition_off`, `branchless_partition_amd` guarded and unguarded with `vfill_left`, `vfill_right`; `swap_offsets` | |
| `PermPartition` | `branchless_partition_perm`, `swap_offsets_perm` | extends `BranchlessPartition` |
| `PartitionApi` | the calling forms of `partition_api.hpp`, `offset_partition`, the size dispatch of `boost_block`, `fulcrum`, `sized`, `quick_partition` and their reversed, offset and vector forms | instances of `Hoare`, `HoareGuarded`, `Lomuto`, `GapLomuto`; the larger kernels by contract |
| `Block` | `block` | calls `hoare` |
| `Fulcrum` | `fulcrum_partition` | |
| `Compress` | `compress_partition` | |
| `MCScalar` | `Hoare` and then `GapLomuto`, called alike | |
| `MCKernels` | `Block`, `Fulcrum` and `Compress` side by side | |
| `SlotFill` | filling slots by blocks: `fill_slots`, `part_swap_off`, `prefix_fill_off`, and the same over two runs of slots (`cross_fill2`) | calls `sized` |
| `CyclicPartition` | `cyclic_partition`, `cyclic_partition_count`, `cyclic_offset_partition`: the gates, `gap_cyclic`, the bridges and fills of the two segments | extends `SlotFill`; `GapRefines` maps it to `GapLomuto` |
| `KeyArrays` | arrays of keys, a call of a kernel on them, by contract | the sorts and selections |
| `FrontToBackSort`, `SortByCuts`, `LowHalfContract` | abstract: what the sorts and the low-half extractions promise | targets of `SortsFrontToBack`, `Implements`, `TakesLowHalf` |
| `QuicksortLR` | `quicksort_lr_impl`, minimum scans, inlined median and ninther | calls `sized` |
| `LowHalf` | `quickselect`, `quickselect_rev`, `move_low_half`, `offset_low_half` and their exact forms | calls `sized`, `sized_rev` |
| `SelectNth` | `detail::select_nth` behind `median_of_medians_5_inplace` | |
| `MCSelection` | `QuicksortLR`, `LowHalf` and `SelectNth` side by side | |
| `HalvingNetworks` | the 23 halving networks, `halve`, `halve_rev` | used by `Quicksort` |
| `Quicksort` | `quicksort`, `quicksort_rev`, `halve_sort`, `halve_sort_rev` | calls `sized`, `sized_rev`; uses the networks |
| `SortingNetworks` | the 23 listed networks of `small_sort.hpp`, Batcher's odd-even merge sort | used by `SmallSort`, `Pivots` |
| `ZeroOne` | what a network does to zeros and ones | `MCSmall`, `Pivots` |
| `SmallMerge` | insertion sort, the three extensions of a sorted prefix, the two merges | |
| `SmallSort` | `small_sort` in place and on a copy, and the entries of `SmallMerge` | extends `SmallMerge`, `SortingNetworks` |
| `Pivots` | every strategy of `pivot.hpp` that picks among samples | `MCSmall` |
| `MCSmall` | `SmallSort` and `Pivots` side by side, beside `Quicksort`, which stays idle | |
| `MCPartitionApi`, `MCBranchlessPartition`, `MCCyclicPartition`, `MCQuicksort` | the calls a run starts from | |
| `*_proofs` | proofs (section 5) | |

State variables carry the names of the C++ locals (`lo`, `hi`, `num_l` as `numL`,
`offsets_l_base` as `baseL`, `pta`, ...); `pc` names the loop or statement that
is next. `map` in `PROJECT.json` gives for each definition the lines it stands for.

## 3. What the runs check

Deadlock is checked in every run; a call that has returned stutters.

**`scalar`** (N = 6, every range and set, both forms, every offset the precondition
allows; `hoare` and, when it has returned, the gap walk on a copy of the array).
`hoare`: what each cursor has passed is on its side (`Sandwich`), an element moves at
most once and only to its side (`MovesHome`), the contract (`Implements`). The gap
walk: at every moment exactly one cell is vacant and nothing is lost (`OneGap`), the
gap invariant, only the cells documented as its footprint change (`Footprint`), the
contract (`GapImplements`).

**`api`** (N = 5; ranges that leave out at most one cell on a side). Eleven
algorithm objects in four calling forms, and the three offset algorithms, each
dispatched by size and type to its kernel. Position forms on reverse iterators
run the kernel on the mirrored memory; value forms hand on the negated
comparator, which makes some calls ineligible for the compressing kernel. The
scan without a bound of `hoare_guarded::at` is always stopped by an element
inside the range, wherever the pivot was and in both directions (`GuardHolds`);
`lomuto` and `scan_swap_off` keep the order of what goes left (`KeptInOrder`); the
caller gets the boundary the header documents for the form it called
(`Implements`); every call returns, which is where the termination of the four
scalar kernels is checked. The cutoffs are 1 (`sized`), 3 (blocks, compress), 5
(fulcrum), and `quick_partition` goes from the walk to compress above 2 and to
blocks above 4, so that five cells reach every branch of the dispatch, the rule
of `sized_off` for long prefixes included. `Narrow` is TRUE: with FALSE that
rule is compiled out and nothing is added. The keys are those that compare as before
where the kernel picked converts them (`KeyPreserved`): a key of the elements' type
or one that this type represents, and any key on every other path.

**`branchless`** (N = 11, B = 4, W = 2; six forms, the guarded and the unguarded one
with and without the permutation index, and the vectorised ones). Scans without a
bound stay inside; the buffers hold exactly the misplaced elements of the scanned
cells, in the ascending order that draining from the end relies on, a vector
store never goes past its buffer, and the rotation loses nothing
(`BlockInvariant`); the caller's inverse index is exact after each exchange,
rotation and drain step (`PermInverse`); the contract and termination. Eleven
cells and blocks of four give refills of either side, leftovers carried over,
partial last blocks, full blocks filled by two vectors each, and rotations of up
to four pairs.

**`kernels`**. `block` (up to 10 cells, B = 2): the buffers hold exactly the
misplaced elements of a block that still lies in the window, so a half-used block
may be handed to hoare (`WindowInvariant`). `fulcrum` (chunks of 2, buffers of 4,
10 to 18 elements, that is every remainder over several rounds): every element is
in exactly one place that still counts, and no double write hits an unread cell
(`FulcrumInvariant`). `compress_partition` (two lanes, 4 to 12 elements): a vector
stored on both sides at once destroys nothing that is unread
(`CompressInvariant`). The contract for all three, and every loop finds room
(`Termination`; a side without room would deadlock).

**`cyclic`** (a ring in an array of ten cells, blocks of three, small gates that
differ by comparator class). Slots and blocks never meet, over one run of slots
or two and across the end of the ring, and the supply counted by `slots_rem` is
the room that is left (`SlotInvariant`); the prefix is rearranged exactly as far as
it has to be (`SlotsOnly`); the gap method of the ring takes the steps of the flat
one, chunk by chunk (`GapRefines`, with `GapLomuto` as the abstract specification);
whichever kernel the gates pick, the contract holds of the logical range and the
returned iterator (`Implements`); termination. Flat parts that are partitioned by
contract are kept to four elements because every arrangement the contract allows
is a successor.

**`selection`**. `quicksort_lr` (six cells with four keys and eight with two,
threshold 2, ninther above 4, so the ninther's samples are not just the median of
three's): the derived end of every block is the right one and pivots on the stack
separate the whole array (`StackInvariant`); the stack is at most half as deep as
the range is long beyond the threshold, so its assertion cannot fail up to 2 *
qslr_stack_cap + Threshold cells (`SpineBound`); the array is finalised from front
to back and sorted (`SortsFrontToBack`). The low-half extractions (six cells with
three keys, sampled from five cells on): what the quickselect has cut off is in
its place and the rank stays inside, an estimate is always below the key, and an
offset call that falls back still meets the precondition of the exact form
(`SelectInvariant`); the k least elements arrive at the documented end
(`TakesLowHalf`). The exact and short calls start from descending arrays: they
begin with a partition by contract, which forgets the order. `select_nth` (eight
cells with two keys, six with three, groups of three, leaves of two): recursion on
the medians is properly nested, the three-way partition is exact, the pivot has
the rank the median of medians is chosen for, the right element is returned (in
`SelectInvariant`). Every call returns on repeated keys too.

**`quicksort`** (six cells with three keys and nine with two, cutoff 3, both
orders). Pending blocks never overlap and halving frames lie above partitioning
ones (`StackInvariant`); the stack of `quicksort` frames is logarithmic
(`BoundedStack`; with nine cells it gets two deep); no element crosses a cut and
the range comes out sorted (`Implements`); termination on equal keys. `Quicksort`
assumes of the networks it uses that they halve every 0-1 input in both directions
(`HalversHalve`); TLC evaluates this before the run for 2 to 14 cells
(`HalversHalveTo14`).

**`small`** (zero-one arrays of up to eight cells for the sorts, three keys on up to
five cells for the completions and merges, every pivot strategy on blocks of 1 to
30 elements). Nothing is overwritten before it is copied and an insertion leaves
no unsorted cell behind (`SmallInvariant`); the block comes out sorted, the stable
forms keep the order of equal keys (`SortsTheBlock`); samples are elements of the
block and distinct when it is long enough (`SamplesInside`); the pivot has the rank
band the strategy is chosen for, over all inputs of its network (`RankBand`). TLC
first evaluates `NetworksSort`: every listed network and the odd-even merge sort of
up to one cell more than the largest sort every 0-1 input. The eight cells bound
the state space of the steps; the networks themselves are checked at full size. TLC
also evaluates what the proofs assume of the lists of exchanges of every form
(`GatesAssumption`), for blocks of up to nine cells. Every call returns (`Returns`).

**Disagreements** between a comment and the code, each shown by a run that
violates the comment's statement:

| run | the comment | the code |
|---|---|---|
| `cyclic_boundary` | the returned boundary is normalized into `[buf_begin, buf_end)` (`refactored_partitions.hpp:2001-2003`, 2467) | a flat range that ends at `buf_end` with every element below the key yields `buf_end` |
| `low_half_dups` | `move_low_half` takes about half of the elements below the key (`move_low_half.hpp:4-9`) | it takes none when the elements below the key are all equal |
| `api_key` | every element for which `comp(proj(x), pivot)` is true comes before every one for which it is false (`concepts.hpp:21-26`); an eligible comparison is `x < pivot` (`algorithms_amd.hpp:110-111`) | from 64 elements on `block_compress_amd` compares with `static_cast<T>(pivot)` (507): 2.5 becomes 2, and 2^33 becomes 0 for 32-bit elements; the vector fills convert likewise |
| `pseudo15_error` | pseudo15 has the same error tolerance of one rank as the catalogued networks (`pivot.hpp:487-491`) | its choice can be two ranks off |

Others were met and have no run of their own: `algorithms.hpp:112-114` has hoare
split all-equal input down the middle, it returns `first`;
`algorithms.hpp:284-288` (and 377-379) has equal counts take the rotation, they take
the swaps; `algorithms.hpp:589-591` has fulcrum's reads stay ahead of its writes by
at least 16, the distance can reach 0 and what holds is that no write passes a
read; `refactored_partitions_with_permutation.hpp:344-346` gives a rotation the net
effect of pairwise swaps, which holds for one pair only and is contradicted by the
file itself at 321-328; `offset_partition.hpp:438` has the slot cursor of
`prefix_fill_off` always before the end of the prefix, which it reaches; the table
of `quicksort.hpp:14-16` has blocks halved from 16 elements down, the code (line 51)
from 24; the 30-70 percentile band of `median_of_medians_5` does not hold for six
elements.

## 4. Fairness

The liveness properties say that a call returns. They assume weak fairness of
the next-state relation: a sequential call that can take its next step takes it.
There is no scheduler, lock or input it could wait for, and every module's `Next`
is one thread of control, so nothing stronger or finer is needed.

## 5. What is proved

For every `N`, every range, every predicate, every admissible offset or pivot and,
where there are blocks, every block size and vector width:

| theorem | states |
|---|---|
| `ScalarKernels_proofs!TypeCorrect`, `SandwichHolds` | the cursors stay in the range; what they have passed is on its side |
| `ScalarKernels_proofs!MovesHomeHolds` | a step of `hoare` or `hoare_rev` that changes a cell takes out an element that belongs on the other side and puts in one that belongs there |
| `ScalarKernels_proofs!Implementation` | `hoare` and `hoare_rev` implement `PartitionContract` |
| `ScalarKernels_proofs!LomutoLoopInvariantHolds`, `LomutoOrderHolds`, `LomutoImplementation` | `lomuto` and `scan_swap_off`: the loop invariant, the order of what goes left is kept, the contract |
| `ScalarKernels_proofs!GuardedSandwichHolds`, `GuardedScan`, `GuardedImplementation` | `hoare_guarded::at`: the same for a pivot by position; its scan without a bound stays inside |
| `ScalarKernels_proofs!GapTypeCorrect`, `OneGapHolds`, `GapInvariantHolds`, `FootprintHolds` | the branchless Lomuto family: cursors, exactly one vacant cell, the loop invariant, the cells that may change |
| `ScalarKernels_proofs!GapImplementation` | it implements `PartitionContract` |
| `PartitionApi_proofs!GuardAlwaysHolds`, `OrderAlwaysKept`, `Implementation` | every calling form of every algorithm object, through every dispatch: the guard holds, order is kept where it should be, and, for a key that a vector kernel's conversion leaves comparing as it did, the caller gets the documented partition and boundary |
| `BranchlessPartition_proofs!Invariance`, `BlockInvariantHolds` | the block partition in its six forms: scans that stay inside, buffers that hold exactly the misplaced elements, in order, rotations that lose nothing |
| `BranchlessPartition_proofs!Implementation` | it implements `PartitionContract`, vector fills included |
| `BranchlessPartition_proofs!PermIsPartition`, `PermInverseHolds` | `branchless_partition_perm` takes the steps of the block partition, and its index is exact whenever no rotation is under way |
| `MCKernels_proofs!WindowInvariantHolds` | `block`: the buffers hold exactly the misplaced elements of blocks that still lie in the window |
| `MCKernels_proofs!FulcrumInvariantHolds`, `CompressInvariantHolds` | `fulcrum_partition`, `compress_partition`: every element is in exactly one place that counts, no write hits what is still to be read |
| `MCKernels_proofs!KernelsInvariance`, `KernelsImplement` | the inductive invariants of the three, and that each implements `PartitionContract` |
| `MCSelection_proofs!SelectionInvariance`, `StackInvariantHolds`, `SpineBoundHolds` | `quicksort_lr`: the block ends it derives and the pivots between postponed blocks, and that its stack is at most half as deep as the range is long |
| `MCSelection_proofs!QuicksortLRSortsFrontToBack` | `quicksort_lr` implements `FrontToBackSort`: nothing final is touched again, and on return the range is sorted |
| `MCSelection_proofs!HalvingInvariance`, `LowHalfInvariantHolds` | the low-half calls: what a selection cuts off is on its side, the rank it looks for is never cut off, the estimate is below the key, the fallback finds its precondition |
| `MCSelection_proofs!TakesLowHalfHolds` | they implement `LowHalfContract`: the k least elements are brought to the documented end, k is exactly half in the exact forms |
| `MCSelection_proofs!RankingInvariance`, `SelectInvariantHolds` | `select_nth`, at every depth of its recursion: the waiting ranges hold the running one, what is cut off is on its side, the median of medians is central, the cell returned holds the element of its rank; with the above, all of `SelectInvariant` |
| `MCSelection_proofs!SortsFrontToBackHolds` | the composed runs implement `FrontToBackSort`: `quicksort_lr` as above, and a step of `select_nth` rearranges nothing but the range of the call |
| `CyclicPartition_proofs!SlotInvariantHolds`, `SlotsOnlyHolds` | the fills of one and of two runs of slots, flat and across the end of a ring: what is filled, what is still a slot and what was looked at, and that the prefix changes only as far as it is needed |
| `CyclicPartition_proofs!GapRefinement` | `gap_cyclic` and its offset form, seen in the logical view, take the steps of the flat `GapLomuto` |
| `CyclicPartition_proofs!CyclicImplementation` | every kernel for a range that wraps, and both flat fills, implement `PartitionContract` in the logical view, with the iterator `cyclic_partition` returns as the boundary |
| `Sorts_proofs!StackInvariantHolds`, `BoundedStackHolds` | `quicksort`, `quicksort_rev`: pending blocks never overlap; a block below d frames of `quicksort` has less than a 2^d-th of the range |
| `Sorts_proofs!Implementation` | they implement `SortByCuts`: no element crosses a cut, and on return the range is sorted |
| `Sorts_proofs!HalverHalves` | the 0-1 principle: a halver of 0-1 blocks halves every block of integers, in both directions |
| `Sorts_proofs!SmallInvariantHolds` | the small sorts, extensions and merges, for any block and any keys: between two steps nothing is lost, sorted cells are left behind, the interval of the binary search holds the place |
| `Sorts_proofs!SortsTheBlockHolds` | they return the block sorted, with its elements, nothing else touched, and the stable forms keep the order of equal keys |
| `Sorts_proofs!SamplesInsideHolds` | every pivot strategy, for a block of any length: samples and pivot are elements of it, no element is sampled twice if it is long enough |

The assumptions are `NAssumption` (N is a natural number); in `PartitionApi`, that
the cutoffs are natural numbers and `Narrow` a Boolean, with no relation between
the cutoffs, and, for `Implementation` only, `KeyPreserved`, its hypothesis (without
it the run `api_key` shows the statement false); in `BranchlessPartition`, that the block size B and the vector width W
are positive and W divides B (`BAssumption`, `WAssumption`), as 128 and 8 do; in
`MCKernels`, that block size, chunk and vector width are positive and the buffer of
fulcrum holds two chunks. Its theorems are about `L!Spec`, `F!Spec` and
`D!Spec`, the kernels on any range, and about `MCSpec`, which the run checks; in
`MCSelection`, that the keys are integers and the threshold of `quicksort_lr` is at
least 2 (it takes a median of three cells), that the bounds of the low-half calls are
positive and a range that is sampled is at least as long as its divisor,
and that a group of `select_nth` has at least two elements
(`SelectionParameters`), for `Q!Spec`, `H!Spec` and `R!Spec`, the calls on any range,
and for `MCSpec`; in `CyclicPartition`, that the block size is positive and the gates
of the dispatch are natural numbers, with no relation between them; in `Quicksort`, that
the keys are integers, that the cutoff is at least 1 and at most the size of the largest
halver, and that the halvers up to the cutoff halve zeros and ones (`HalversHalve`, see
the end of section 6); for `S!Spec` and `P!Spec`, the small sorts and the choice of a
pivot, that there is a longest block for the latter, and that the list of exchanges of
every form for every size up to N works on cells of the block, sorts zeros and ones, and
calls `partially_sorted_swap` only with its second and third cell in order
(`GatesAssumption`). Nothing else is assumed of a list: not how it was generated, and no
block of other keys.

*Hoare.* The inductive invariant is `TypeOK`, `Sandwich` and that the array is an
arrangement (each element once). `Sandwich` alone is not inductive because an
exchange may only be shown to touch the two cursors' cells when these are known
to be distinct cells of the array; the arrangement is what the refinement needs. The
theorems on the kernels of `ScalarKernels_proofs` are about each kernel's own `Spec`,
the gap walk's (`G!Spec`) included.
`Ranges_proofs` has the two facts about exchanges all of it rests on. `MovesHome` names
the final boundary by the number of elements that go left. At an exchange it lies
between the two cells, because the cells up to `lo` get elements that go left and those
that go left fit before `hi - 1`: two sets counted (`BoundaryBetween`).

*Lomuto.* The order of what goes left is only kept because the cells at and after
the reading cursor still hold what they held at the call; so the invariant says
which cells are untouched, which are passed, and where the cursors are at the end.

*HoareGuarded.* The right scan has no bound. It is stopped because the pivot was
first brought to the left end of the range and stays there until the scans are
over; the invariant carries that cell as well as the sandwich.

*GapLomuto.* While an element is lifted the array is not an arrangement, so the
refinement maps the array to `Restored`, the array with the lifted element put
into the vacant cell, and the inductive invariant is `TypeOK`, `OneGap`,
`GapInvariant` and `GapPromised` (the part of the prefix that is still in place
goes right, which is what a step needs to know of the cell it moves from
without comparing it). The central lemma `GapRestoredStep` says what each move does
to `Restored`: the two moves of an iteration are one exchange of two cells. The
footprint needs that cells not yet reached, and those before the first move, hold
their own element.

*PartitionApi.* The kernels' theorems are used, not repeated: the proof module of
the scalar kernels (`ScalarKernels_proofs`) is instantiated with what the kernel sees,
and the invariant is that the call's arguments are admissible and that the kernel the
dispatch picked satisfies its own inductive invariant. What is added is the part
no kernel can know: that each dispatch establishes the precondition of the kernel
it picks, that the mirrored memory of the reverse forms maps a partition back to
one with the sides exchanged, that the pivot put back by the position forms lands
on the boundary, and that the kernels that are not instantiated (`std::partition`
and the large ones) do what their contract says, for the comparison they make: that
this is the caller's is where `KeyPreserved` is needed, and only there
(`VectorComparator`).

*BranchlessPartition.* `BlockInvariant` says what the buffers hold and does not say
why the next step keeps it so. The inductive invariant `IInv` adds what the
opening scans have passed (`Scanned`: an element that stops the scan without a
bound is ahead of it), the part of the prefix the middle still has (`PrefixKept`:
the left scan of the offset form skips it), how a fill's counter, base and split
fit the unknown middle and the free part of the buffer (`Fills`), that the offsets
are cells of the scanned parts in strict order (`Cells`), that the misplaced
elements of the scanned parts are those of the offsets not yet exchanged
(`Misfits`), and what a return needs (`Returned`). It speaks of `Restored`, the
array with the element a rotation holds put into the vacant cell, so that a move
of the rotation and an exchange are the same event: `PairPlacedStep` covers both.
The fills are proved once for any number of elements (`LeftExtended`,
`RightExtended`); a scalar fill is the case of one element, a vector fill that of
W. For the latter `TableInOrder` says what a row of the look-up table holds and
`StoredOffsets` that storing all of it behind the offsets in use appends the lanes
that count and stays in the buffer: W divides B, and so does the number of
elements read so far. `MarksShifted` is the start index moved over what was
exchanged; `MarksDrainedUp` and `MarksDrainedDown` are the drains, which need the
offsets in order: the element that comes back from the boundary must not be in a
cell a pending offset names.

*PermPartition.* Between rotations the index is exact at every cell. During a
rotation it is exact outside the cells of its pairs (`PermIInv`): the moves stay
within those cells, and its end writes the entries of all of them. That the
partition is not disturbed is `PermIsPartition`, through which the invariant above
is used as it stands.

*Fulcrum.* `FulcrumInvariant` says that what is placed, what is still in the
middle and what is in the buffer make up the range. That the next write meets a
cell whose content was read needs the accounts of the loop (`FIInv`): how many
elements are unread and how many of them the current chunk still owes
(`FBudget`), and that the room on the two sides together is always what the
buffer took out, so that a side with at most a chunk of room leaves the other
with enough (`F!Slack`). An element is written to both sides and one cursor moves:
the other write is to a cell that does not count, which is the content of the
lemmas on `F!Place`.

*Compress.* The same accounts with vectors (`CIInv`): the room on both sides is
two vectors while the loop runs, a vector stored at both ends counts as stored on
each side only up to the number of its lanes that belong there (`Permuted`: a row
of the table lists the lanes of the mask and then the others), and in the tail as
many elements are held as there are cells between the cursors.

*Block.* `WindowInvariant` speaks of the blocks as wholes. Its inductive form
(`BIInv`) says for a fill under way that the buffer lists each misplaced element
of the part seen so far exactly once, and for exchanges under way that this holds
of the entries not yet exchanged. The entries name distinct cells, so an exchange
empties one entry on each side; the window is wide enough for both blocks while a
fill runs. The call of `hoare` on what is left is by `PartitionCall`.

*QuicksortLR.* `StackInvariant` is not inductive. `QIInv` adds that the entries of
the stack descend (a pop has to know the entry below the next one), that the k-th
entry is at least 2k - 1 cells from the end (`TwoPerBlock`, from which the depth
follows at a push), and what is final (`InPlace`). A partition is any outcome of
its contract: `Q!SizedCall` states the contract as a conjunct, so nothing is said of
how outcomes are listed, which a recursive function does. That a postponed block
costs two cells is `PivotDominated`: whichever of `median3_pos` and the ninther
picked it, another cell of the block has a key not less than the pivot, also when
the groups of the ninther overlap, so the boundary is never the block's end. The
facts about how often a key occurs, and what exchanges and rearrangements of a part
of the range do to that (`SwapShuffles`, `ShuffledWider`), are in `Ranges_proofs`.

*LowHalf.* The parts of `SelectInvariant` do not imply each other's next step. `HIInv`
adds two. `Sampled`: while a sample is in use the range is long enough for one, and
the rank looked for in it is less than the number of samples below the key. That the
estimate is below the key follows at the end of the selection and only there
(`RankEnds`): the cells from the rank on hold no less than the estimate, so were it
not below the key, at most as many samples as the rank would be. `Halved`: while an
exact form selects, the elements below the key are exactly the block it works on, and
the rank is what leaves half of it. Both are about counts, and a selection rearranges
without counting; `ShuffledCounts` says that a rearrangement keeps the number of keys
in any set, by a bijection between the cells of each key. What is cut off stays in
order with the rest while the rest is rearranged (`CutStays`), and a pivot in its
place extends it (`CutAround`), for both directions at once: `MayPrecede` is the order
of the form. The pivot is any element and a partition any outcome of its contract
(`H!Call`), and a leaf is sorted by contract (`H!Ordered`).

*SelectNth.* The parts of its invariant speak of the outermost range and of the
running partition; what an invocation in between may count on when its pivot comes
back is what `RIInv` adds, for every level d of the recursion at once. `LevelPlaced`:
the range it was called on (`LevelBase`, `LevelTop`) is the medians of the next outer
one, and range and rank, which change together, still name the same cell
(`LevelGoal`). `LevelCut`: both ends of its range cut what it was called on.
`LevelCounted`: of the next inner call's range, each median stands for its share of
the group it came from. The last is a statement about counts (for any key x, if c
medians are at most x, then (c - 1) * w + 1 elements are), because the inner call
rearranges the medians and the link between a median and its group is lost; a
rearrangement keeps counts. The 1 is the last group, which may be short: `Gathered`,
without that slack, holds as long as the groups are whole. Rearranging what the
running invocation has left disturbs no level (`ContentsKept`). A return is then
`GoalSeparates` (the cell looked for separates the range called on) and
`MedianCentral`. `small_sort` is used by contract (`InOrder`), which TLC meets with
the sorted sequence itself.

*CyclicPartition.* `ToView` and `FromView` are inverse to each other on the cells
(`ViewMutual`), so the argument is made in the view, where the range is flat and
the array is `U`: the cells in logical order, the element a rotation holds put back.
Every step of a fill, a move of a rotation included, is an exchange of two or
three cells of `U`, and the bridge at the end is the exchange of two ranges
(`JoinedContent`). `SlotInvariant` says nothing within a block, so the inductive
invariant is stronger: `Layout` places the two runs of slots side by side in the
view, from the first place not yet filled to the suffix, which is what makes the
second run the continuation of the first; `Content` says which side the four parts
of the range are on; `Offsets` that the stored offsets, in order, are those of the
block's elements that go left and are not yet used; `Progress` how far the block is;
`Joining` and `Returned` what the bridge and the caller need. `Called` keeps the
arguments legal and the prefix going right, which is why a slot may be overwritten at
all. For the gap method nothing is proved twice: `GP` is the flat proof module seen
through the same mapping as `GapRefines`, `GP!GapIInv` is part of the invariant, and
each of the moves within or between the two segments (`Travel` says which segment
each cursor is in) is shown to be a step of the flat one. That the count becomes the
right iterator, at the end of the ring too, is `IteratorPlace`.

*Quicksort.* `StackInvariant` is not inductive and says nothing of the keys. `IInv` adds
`Phase` (while `quicksort` runs, no frame of `halve_sort` is below it), `SmallBlocks`
(only blocks the networks are for are halved), `Shrinking` (the bound of `BoundedStack`
for the block of every frame, each at its own depth: a return has to meet it too) and
`CutsHold` (at every place that lies inside no pending block, nothing before it is
greater than anything after it). A turn of the loop of `quicksort` and a step of
`halve_sort` are the same event, `Split`: the block at hand is rearranged, the function
goes on with one part and pushes a frame for another, and what lies in neither is cut
off. The invariant is preserved by any `Split` (`SplitDisjoint`, `SplitShrinks`,
`SplitCuts`, ...) and what is special to the two is only that they are one: for the
partition, that the pivot at its rank separates the two parts (`PartitionSplits`), which
needs the contract alone (`SizedCall`), and for the halving, what the network does
(`HalveSortSplits`). The latter is `HalverHalves`: a threshold turns keys into zeros and
ones, and a compare-exchange of keys does to their bits what it does to any bits
(`GateOnBits`, in both directions), so the bits of what a network makes of the keys are
what it makes of their bits (`NetworkOnBits`). The run of a network is a recursive
function; that it exists for every list of exchanges is an induction up to its length,
which is done with the least number for which it fails (`CountUp`). Powers of two are
numbers of subsets (`TwoToNext`), from which the doubling in `Shrinking` follows.

*SmallSort.* `Before` is the order of the form that runs: by key and, in the stable
forms, by the place an element came from where keys are equal; so sortedness and
stability are one notion, `Completed`, for all three families (`SmallIInv`). An
extension (`ExtendInv`): while element i is in hand the array is some completed array
`w`, of which `extend_sorted` has moved the last cells up already (`MovedUp`) and the
other two forms nothing, so the one lemma `InsertionCompletes` is about all of them. A
merge (`MergeInv`): what is left of the tail fits exactly into the cells between the
prefix and what has been placed (`Refilled`), and everything still to be placed is
`Before` what has been. `PrefixPlaced` and `TailPlaced` are the two ways to place one,
and the two merges differ only in how they choose. `merge_sorted_branchless` takes the
prefix on a tie: it makes no promise of stability, and its `Before` asks for none. A
sort (`SortInv`): for every threshold the zeros and ones of the block after c exchanges
are what c exchanges make of those of the unsorted block (`Reached`; `PairGate` and
`TripleGate` say so for one exchange, in place and on the copy in registers alike by
`GateInBlock`), so the 0-1 principle is an invariant here, and at the end the threshold
just above each key gives `KeysSorted`. It is also why the three-cell exchange is right:
it needs its last two cells in order, which the threshold above the last one shows of
the keys because `GatesAssumption` says it of the bits. The exchanges of
`insertion_sort` are of neighbours (`InsertionNeighbours`), which is why it is stable
(`NeighboursKeepTies`).

*Pivots.* `PivotInv` says that the samples are those of the strategy the fallbacks ended
with and that the block is long enough for it (`StrategyFits`); that the samples are
then apart and inside is arithmetic, per strategy.

## 6. What is only model-checked

* Termination, everywhere: the prover does not handle liveness.
* `RankBand`, `NetworksSort`, `GatesAssumption`, `HalversHalve`: what a list of exchanges does
  to zeros and ones, or to the ranks of the samples, is a fact about data of fixed size. The
  lists of Batcher's sort and of the pivot networks are generated, or written out, per size; that
  such a list sorts for every size is an induction over data.

All of them are checked on the instances of section 3, by exhaustion over 0-1 inputs: up to 14
cells for the halvers (the ten larger ones are checked in the same way, in 2^24 inputs at
most, by `tools/verify_small_halve*.cpp`), at full size for the listed sorting networks and
Batcher's, up to nine cells for all forms of the small sorts. That the zeros and ones are
enough is proved: `HalverHalves` for the halvers, `SortsTheBlockHolds` for the sorts.

## 7. What is not modelled

* The rest of the permutation family (`hoare_perm`, `fulcrum_perm`, `gap_off_perm`,
  `prefix_fill_perm`, `sized_perm`): the kernels are modelled, the index writes
  between their moves only for the block partition, where they are not local to a
  move. `find_min`, `cyclic_find_min` and `median_partition` of the single-header
  library.
* Two pivot strategies that return the midpoint of two keys, which need not be an
  element; the class of 9-element AVX sorts at the end of `pivot.hpp`, which
  nothing uses.
* The fallback of `halve` for more than 24 elements (a full sort), which no caller
  in the library reaches, and the register-blocked copies of the networks.
* `statistics.hpp`, `types.hpp`, `distributions.hpp` (counters, example types and
  generators no algorithm depends on), tests, benchmarks, the network searches in
  `optimizers/` and `python/`, documents and seeds: nothing in them is state of the
  library.

Next: the index writes of the remaining permutation kernels as an extension of `Hoare`,
`GapLomuto` and `Fulcrum`, in the way `PermPartition` extends `BranchlessPartition`, and the
rank of a pivot (`RankBand`) from the networks' effect on thresholds, in the way of `Reached`.

\* 8 cells with two keys, 6 with four.  quicksort_lr: blocks of more than 2 are
\* partitioned, of more than 4 with the ninther.  Low half: ranges of 5 and more
\* are sampled, up to 4 samples of every second cell, and a half has 2 elements.  select_nth:
\* groups of 3, and ranges of 2 are sorted at once.
CONSTANT N = 8
CONSTANT Keys = {1, 2, 3, 4}
CONSTANT FewKeys = {1, 3}
CONSTANT HalfKeys = {1, 2, 3}
CONSTANT Threshold = 2
CONSTANT NintherCutoff = 4
CONSTANT LeafMax = 2
CONSTANT MinHalf = 2
CONSTANT SampleMin = 5
CONSTANT SampleDiv = 2
CONSTANT SampleMax = 4
CONSTANT Group = 3
SPECIFICATION MCSpec
INVARIANT StackInvariant
INVARIANT SpineBound
INVARIANT SelectInvariant
PROPERTY SortsFrontToBack
PROPERTY TakesLowHalf
PROPERTY Termination

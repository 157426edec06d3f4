\* 5 cells; sized_off's two rules differ from a suffix of 2 on, boost_block calls hoare below 3,
\* and quick_partition walks below 2, compacts up to 4 and goes by blocks at 5.
CONSTANT N = 5
CONSTANT SizedCutoff = 1
CONSTANT BlockCutoff = 3
CONSTANT FulcrumCutoff = 5
CONSTANT LomutoMax = 2
CONSTANT CompressCutoff = 3
CONSTANT CompressMax = 4
CONSTANT Narrow = TRUE
SPECIFICATION MCSpec
INVARIANT GuardHolds
INVARIANT KeptInOrder
PROPERTY Implements
PROPERTY Termination

\* Blocks of 3; small gates, different for each class, so that every kernel
\* serves calls of most sizes.
CONSTANT N = 10
CONSTANT B = 3
CONSTANT GapMax_lex = 2
CONSTANT GapMax_mlex = 1
CONSTANT GapMax_plain = 6
CONSTANT BridgeMax_mlex = 4
CONSTANT OffGapMax_lex = 2
CONSTANT OffGapMax_mlex = 1
CONSTANT OffGapMax_plain = 4
CONSTANT SuffixBound = 6
CONSTANT FlatBound = 4
CONSTANT GapBound = 7
SPECIFICATION MCSpec
INVARIANT Normalized

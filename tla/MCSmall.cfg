\* Zero-one keys for the sorts of up to 8 cells, three keys for up to 5; every
\* pivot strategy on blocks of 1 to 30 elements.
CONSTANT N = 9
CONSTANT Keys = {0, 1, 2}
CONSTANT HalveCutoff = 1
CONSTANT Forms = {}
CONSTANT ZeroOneBound = 8
CONSTANT KeyBound = 5
CONSTANT PivotBlock = 30
SPECIFICATION MCSpec
INVARIANT SmallInvariant
INVARIANT SortsTheBlock
INVARIANT SamplesInside
INVARIANT RankBand
PROPERTY Returns

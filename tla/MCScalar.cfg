\* Every range, offset and predicate over an array of 6 elements, both directions.
CONSTANT N = 6
SPECIFICATION ScalarSpec
INVARIANT Sandwich
INVARIANT OneGap
INVARIANT GapInvariant
INVARIANT Footprint
PROPERTY MovesHome
PROPERTY Implements
PROPERTY GapImplements

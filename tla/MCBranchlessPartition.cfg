\* 11 cells, blocks of 4 and vectors of 2: a second round, rotations of up to 4
\* pairs, leftovers on either side.
CONSTANT N = 11
CONSTANT B = 4
CONSTANT W = 2
SPECIFICATION MCSpec
INVARIANT BlockInvariant
INVARIANT PermInverse
PROPERTY Implements
PROPERTY Termination

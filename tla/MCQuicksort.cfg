\* 9 cells with two keys, 6 with three, both orders; blocks of more than 3 cells are partitioned.
CONSTANT N = 9
CONSTANT Keys = {1, 2, 3}
CONSTANT FewKeys = {1, 3}
CONSTANT HalveCutoff = 3
CONSTANT Forms = {"forward", "reverse"}
SPECIFICATION MCSpec
INVARIANT StackInvariant
INVARIANT BoundedStack
PROPERTY Implements
PROPERTY Termination

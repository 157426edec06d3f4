\* Blocks on both sides of the fifteen elements the strategy needs.
CONSTANT MaxBlock = 16
SPECIFICATION Spec
INVARIANT Pseudo15WithinOne

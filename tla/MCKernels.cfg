\* block: ranges of up to 10 cells and blocks of 2, up to three rounds with buffers
\* carried over.  fulcrum: chunks of 2 and buffers of 4 for the code's 16 and 32,
\* ranges of 10 to 18 elements.  compress_partition: vectors of 2, up to four.
CONSTANT N = 18
CONSTANT B = 2
CONSTANT Save = 4
CONSTANT Chunk = 2
CONSTANT W = 2
CONSTANT BlockN = 10
CONSTANT CompressN = 12
SPECIFICATION MCSpec
INVARIANT WindowInvariant
INVARIANT FulcrumInvariant
INVARIANT CompressInvariant
PROPERTY Implements
PROPERTY Termination

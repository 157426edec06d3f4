\* The constants of MCPartitionApi.cfg.
CONSTANT N = 5
CONSTANT SizedCutoff = 1
CONSTANT BlockCutoff = 3
CONSTANT FulcrumCutoff = 5
CONSTANT LomutoMax = 2
CONSTANT CompressCutoff = 3
CONSTANT CompressMax = 4
CONSTANT Narrow = TRUE
SPECIFICATION AnyKeySpec
INVARIANT DocumentedBoundary

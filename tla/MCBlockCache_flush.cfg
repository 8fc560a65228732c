SPECIFICATION Spec
CONSTANTS
  BlockSize = 2
  LastLba = 4
  CacheSize = 2
  CountModulus = 4
  Release = TRUE
  Careful = FALSE
  Lengths = {1, 3, 6}
  MaxWrites = 2
  MaxFaults = 0
CHECK_DEADLOCK FALSE
INVARIANTS FlushedIsOnMedium

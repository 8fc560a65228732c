\* Blocks of 2 bytes, 5 of them; up to three blocks at once.
CONSTANTS
  Programs = {"readlot", "hash", "throughput", "latency"}
  BlockLength = 2
  LastLba = 4
  Partitions <- MCPartitions
  Files <- MCFiles
  BufSize = 3
  ReadSize = 2
  CountModulus = 4
  Cluster = 4
  Passes = 2
  Reads = 5
SPECIFICATION Spec
INVARIANTS
  TypeOK
  DeliveredInPlace
  WholeOrNothing
  NoErrorWithoutFault
PROPERTIES
  Terminates
\* The program ends.
CHECK_DEADLOCK FALSE

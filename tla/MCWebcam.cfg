\* Frames of three parts, two packets at a time; u32 has 18 bits.
CONSTANTS
  U32 = 262144
  EndpointSets <- MCEndpointSets
  Parts = 3
  NumPackets = 2
  MaxFrame = 2
  Attempts = 2
  Sizes <- MCSizes
SPECIFICATION Spec
INVARIANTS
  TypeOK
  CommitAsNegotiated
  FindsPackets
  NeverMixesNeighbours
  WholeUnlessMissed
  BuffersFit
\* The camera stops after MaxFrame, and a failed start ends the program.
CHECK_DEADLOCK FALSE

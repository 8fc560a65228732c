SPECIFICATION FairSpec
CONSTANTS
  t1 = t1
  t2 = t2
  Transfer <- Both
  Out <- JustT2
  Timed <- JustT1
  Status <- Endings
  Resubmits = FALSE
  Abandons = TRUE
  Closing = "quiescent"
  LoopBreaks = FALSE
CHECK_DEADLOCK FALSE
PROPERTIES AwaitReturns DroppedIsReleased ContractSpec

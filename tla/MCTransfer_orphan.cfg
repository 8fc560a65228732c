SPECIFICATION FairSpec
CONSTANTS
  t1 = t1
  t2 = t2
  Transfer <- One
  Out <- JustT2
  Timed <- Nothing
  Status <- Statuses
  Resubmits = FALSE
  Abandons = TRUE
  Closing = "dropped"
  LoopBreaks = FALSE
CHECK_DEADLOCK FALSE
PROPERTIES DroppedIsReleased

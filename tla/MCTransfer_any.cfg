SPECIFICATION Spec
CONSTANTS
  t1 = t1
  t2 = t2
  Transfer <- Both
  Out <- JustT2
  Timed <- JustT1
  Status <- Statuses
  Resubmits = TRUE
  Abandons = TRUE
  Closing = "any"
  LoopBreaks = TRUE
CHECK_DEADLOCK FALSE
INVARIANTS TypeOK FreedOnce KernelPinsBuffer PublishedBeforeFreed NoCompletionLost

SPECIFICATION FairSpec
CONSTANTS
  stick = stick
  camera = camera
  h1 = h1
  h2 = h2
  Device <- BothDevices
  Handle <- OneHandle
  Allowed <- JustStick
  Readable <- BothDevices
  HasHotplug = TRUE
  LoopBreaks = TRUE
  MaxSlots = 2
CHECK_DEADLOCK FALSE
INVARIANTS TypeOK RefsAccounted EventsInOrder NoneMissed OnlyAllowed
PROPERTIES DepartureAnnounced

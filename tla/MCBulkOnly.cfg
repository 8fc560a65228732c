SPECIFICATION Spec
CONSTANTS
  Clients <- BothClients
  MaxCommands = 8
CHECK_DEADLOCK FALSE
INVARIANTS TypeOK OkIsMine WriteConfirmed
PROPERTIES MediumHoldsOnlyData

\* A turn takes one to four units of 50 ms, the power of a pellet six.
CONSTANTS
  Height = 5
  Width = 5
  Boards <- MCBoards
  Ghosts <- MCGhosts
  StartPos <- MCStartPos
  Configurations <- MCConfigurations
  PowerTime = 6
  MoveDelay = 3
  MaxWait = 2
  MaxSleep = 2
SPECIFICATION Spec
INVARIANTS
  TypeOK
  PacmanWhereItIs
  ScoreIsEaten
  PowerIsCurrent
  OneMovePerPress
\* A program that found no controller, or lost it, stops.
CHECK_DEADLOCK FALSE

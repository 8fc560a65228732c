------------------------------ MODULE MazeProofs -----------------------------
(***************************************************************************)
(* Proofs about Maze: for every closed maze, every placing of the ghosts   *)
(* and all times.  The invariants are inductive once each is taken with    *)
(* the types; OneMovePerPress also needs that nothing is used up of a      *)
(* press unless button_down is set.                                        *)
(***************************************************************************)
EXTENDS Maze, FiniteSetTheorems, TLAPS

\* What no action changes once the game runs, and the maze it plays in
LEMMA Inside ==
  ASSUME NEW board, IsMaze(board),
         NEW cell \in Cells, board[cell] # "WALL",
         NEW direction \in Directions
  PROVE  Neighbour(cell, direction) \in Cells /\ Neighbour(cell, direction) # cell
<1>1. cell = <<cell[1], cell[2]>> /\ cell[1] \in 0 .. Height - 1 /\ cell[2] \in 0 .. Width - 1
  BY DEF Cells
<1>2. cell[1] \notin {0, Height - 1} /\ cell[2] \notin {0, Width - 1}
  BY DEF IsMaze
<1>3. Height \in Nat /\ Width \in Nat
  BY MazeAssumption
<1>4. /\ cell[1] + Dy(direction) \in 0 .. Height - 1
      /\ cell[2] + Dx(direction) \in 0 .. Width - 1
      /\ cell[1] + Dy(direction) # cell[1] \/ cell[2] + Dx(direction) # cell[2]
  BY <1>1, <1>2, <1>3 DEF Dy, Dx, Directions
<1> QED
  BY <1>1, <1>4 DEF Neighbour, Cells

\* The maze a game starts with has the walls of its board, and PACMAN where the
\* board has it.
LEMMA StartIsMaze ==
  ASSUME NEW g \in Games
  PROVE  IsMaze(Start(g)) /\ Start(g)[StartPos] = "PACMAN"
<1>1. IsMaze(Boards[g]) /\ StartPos \in Cells
  BY MazeAssumption
<1>2. \A cell \in Cells : Start(g)[cell] # Boards[g][cell] =>
        /\ Start(g)[cell] = "GHOST"
        /\ Boards[g][cell] \notin {"WALL", "PACMAN"}
  BY MazeAssumption DEF Start
<1>3. Start(g) \in [Cells -> CellKinds]
  BY <1>1 DEF Start, IsMaze, CellKinds
<1> QED
  BY <1>1, <1>2, <1>3 DEF IsMaze

-----------------------------------------------------------------------------
(* PACMAN in the maze *)

\* A board that stands to its start as a maze in play does
Played(g, board, at) ==
  /\ board \in [Cells -> CellKinds]
  /\ at \in Cells
  /\ \A cell \in Cells :
       /\ board[cell] = "PACMAN" <=> cell = at
       /\ board[cell] = "WALL" <=> Start(g)[cell] = "WALL"
       /\ board[cell] \in {Start(g)[cell], "EMPTY", "PACMAN"}

\* A step from PACMAN's cell to a neighbour that is no wall keeps it so.
LEMMA StepPlayed ==
  ASSUME NEW g \in Games, NEW board, NEW at, Played(g, board, at),
         NEW direction \in Directions,
         board[Neighbour(at, direction)] # "WALL"
  PROVE  /\ Neighbour(at, direction) \in Cells
         /\ Neighbour(at, direction) # at
         /\ Played(g, Moved(board, at, Neighbour(at, direction)), Neighbour(at, direction))
<1> DEFINE to == Neighbour(at, direction)
<1>1. at \in Cells /\ Start(g)[at] # "WALL"
  BY DEF Played
<1>2. to \in Cells /\ to # at
  BY <1>1, Inside, StartIsMaze
<1>3. board[to] # "WALL"
  OBVIOUS
<1> HIDE DEF to
<1>4. Moved(board, at, to) \in [Cells -> CellKinds]
  BY <1>2 DEF Moved, Played, CellKinds
<1>5. \A cell \in Cells : Moved(board, at, to)[cell] =
        IF cell = to THEN "PACMAN" ELSE IF cell = at THEN "EMPTY" ELSE board[cell]
  BY <1>2 DEF Moved, Played
<1>6. Played(g, Moved(board, at, to), to)
  BY <1>1, <1>2, <1>3, <1>4, <1>5 DEF Played
<1> QED
  BY <1>2, <1>6 DEF to

\* So does each of the four tests of a turn of xbox-maze, which walks only in a
\* direction that is pressed.
IsWalk(g, dpad, st) ==
  /\ Played(g, st.maze, st.pos)
  /\ st.walked \subseteq dpad \cap Directions

LEMMA WalkPlayed ==
  ASSUME NEW g \in Games, NEW dpad, NEW st, IsWalk(g, dpad, st),
         NEW direction \in Directions
  PROVE  IsWalk(g, dpad, Walk(direction, dpad, st))
<1> DEFINE to == Neighbour(st.pos, direction)
<1>1. CASE direction \in dpad /\ st.maze[to] # "WALL"
  <2>1. Played(g, Moved(st.maze, st.pos, to), to)
    BY <1>1, StepPlayed DEF IsWalk
  <2> QED
    BY <1>1, <2>1 DEF Walk, IsWalk
<1>2. CASE ~(direction \in dpad /\ st.maze[to] # "WALL")
  BY <1>2 DEF Walk
<1> QED
  BY <1>1, <1>2

LEMMA WalkAllPlayed ==
  ASSUME NEW dpad, game \in Games, Played(game, maze, pos)
  PROVE  IsWalk(game, dpad, WalkAll(dpad))
<1> DEFINE s0 == [maze |-> maze, pos |-> pos, walked |-> {}]
           s1 == Walk("right", dpad, s0)
           s2 == Walk("left", dpad, s1)
           s3 == Walk("up", dpad, s2)
           s4 == Walk("down", dpad, s3)
<1>1. IsWalk(game, dpad, s0)
  BY DEF IsWalk
<1>2. {"up", "down", "left", "right"} = Directions
  BY DEF Directions
<1> HIDE DEF s0
<1>3. IsWalk(game, dpad, s1)
  BY <1>1, <1>2, WalkPlayed
<1> HIDE DEF s1
<1>4. IsWalk(game, dpad, s2)
  BY <1>3, <1>2, WalkPlayed
<1> HIDE DEF s2
<1>5. IsWalk(game, dpad, s3)
  BY <1>4, <1>2, WalkPlayed
<1> HIDE DEF s3
<1>6. IsWalk(game, dpad, s4)
  BY <1>5, <1>2, WalkPlayed
<1> QED
  BY <1>6 DEF WalkAll, s0, s1, s2, s3

-----------------------------------------------------------------------------
(* Types and the maze *)

MazeInv == TypeOK /\ Played(game, maze, pos)

\* The parsers yield directions only.
LEMMA ReadingType ==
  ASSUME NEW type \in Controllers, NEW kind \in Kinds, NEW hat \in Hats, NEW stick \in Hats,
         NEW reading \in Readings(type, kind, hat, stick)
  PROVE  reading.dpad \subseteq Directions /\ reading.stick \subseteq Directions
<1>1. \A h : HatDirections(h) \subseteq Directions
  BY DEF HatDirections
<1> HIDE DEF HatDirections
<1>2. CASE kind = "input"
  BY <1>1, <1>2 DEF Readings, ReadByXbox, ReadByPs5
<1>3. CASE kind = "other"
  BY <1>1, <1>3 DEF Readings, ReadByXbox, ReadByPs5, Neutral
<1>4. CASE kind = "short"
  BY <1>4 DEF Readings, ReadByXbox, ReadByPs5, Neutral
<1> QED
  BY <1>2, <1>3, <1>4 DEF Kinds

LEMMA HeadingType == \A type \in Controllers : Headings[type] \subseteq Directions
  BY DEF Headings, Heading, Directions

LEMMA MazeInit == Init => MazeInv
<1> SUFFICES ASSUME Init PROVE MazeInv
  OBVIOUS
<1>1. IsMaze(Start(game)) /\ Start(game)[StartPos] = "PACMAN" /\ StartPos \in Cells
  BY StartIsMaze, MazeAssumption DEF Init
<1>2. press \in Int /\ press <= 1
  BY DEF Init
<1>3. maze \in [Cells -> CellKinds] /\ pos \in Cells
  BY <1>1 DEF Init, IsMaze
<1>4. TypeOK
  <2>1. PowerTime \in Nat
    BY MazeAssumption
  <2>2. {score, power, sinceMove, lag, sincePellet} \subseteq Nat
    BY <2>1 DEF Init
  <2>3. /\ controller \in Controllers
        /\ phase \in {"list", "open", "play", "failed"}
        /\ button_down \in BOOLEAN
        /\ game \in Games
    BY DEF Init, Controllers
  <2> QED
    BY <1>2, <1>3, <2>2, <2>3 DEF TypeOK
<1>5. Played(game, maze, pos)
  BY <1>1 DEF Played, Init, IsMaze
<1> QED
  BY <1>4, <1>5 DEF MazeInv

\* The types of what one turn of ps5-maze computes
LEMMA ElapseType ==
  ASSUME TypeOK, NEW what, NEW wait \in Nat, Elapse(what, wait)
  PROVE  power' \in Nat /\ sincePellet' \in Nat
<1>1. PowerTime \in Nat /\ lag \in Nat /\ power \in Nat /\ sincePellet \in Nat
  BY MazeAssumption DEF TypeOK
<1> QED
  BY <1>1 DEF Elapse, Tick, Least

LEMMA MazeStep == MazeInv /\ [Next]_vars => MazeInv'
<1> SUFFICES ASSUME MazeInv, [Next]_vars PROVE MazeInv'
  OBVIOUS
<1> USE DEF MazeInv
<1>0. {MoveDelay, MaxWait, MaxSleep} \subseteq Nat
  BY MazeAssumption
<1>1. ASSUME ListDevices \/ ListNothing \/ OpenPs5Maze \/ OpenXboxMaze \/ OpenFails \/ TurnFails
      PROVE  MazeInv'
  BY <1>1 DEF ListDevices, ListNothing, OpenPs5Maze, OpenXboxMaze, OpenFails, TurnFails,
              setupVars, ps5Vars, xboxVars, TypeOK, Played
<1>2. ASSUME NEW wait \in 0 .. MaxWait, NEW sleep \in 1 .. MaxSleep, Ps5Move(wait, sleep)
      PROVE  MazeInv'
  <2>1. PICK direction \in Headings[controller] :
          LET to == Neighbour(pos, direction)
          IN  maze[to] # "WALL" /\ Take(to) /\ Elapse(maze[to], wait)
    BY <1>2 DEF Ps5Move
  <2> DEFINE to == Neighbour(pos, direction)
  <2>2. direction \in Directions
    BY <2>1, HeadingType DEF TypeOK
  <2>3. to \in Cells /\ Played(game, Moved(maze, pos, to), to)
    BY <2>1, <2>2, StepPlayed DEF TypeOK
  <2>4. Played(game, maze, pos)'
    BY <2>1, <2>3, <1>2 DEF Take, Ps5Move, setupVars, Played
  <2>5. Worth(maze[to]) \in Nat
    BY DEF Worth
  <2>6. score' \in Nat
    BY <2>1, <2>5 DEF Take, TypeOK
  <2>7. power' \in Nat /\ sincePellet' \in Nat
    BY <1>0, <2>1, ElapseType
  <2>8. sinceMove' \in Nat /\ lag' \in Nat
    BY <1>0, <1>2 DEF Ps5Move, Least
  <2>9. TypeOK'
    BY <2>4, <2>6, <2>7, <2>8, <1>2 DEF Ps5Move, Played, TypeOK, setupVars, xboxVars
  <2> QED
    BY <2>4, <2>9
<1>3. ASSUME NEW wait \in 0 .. MaxWait, NEW sleep \in 1 .. MaxSleep, Ps5Stay(wait, sleep)
      PROVE  MazeInv'
  <2>1. power' \in Nat /\ sincePellet' \in Nat
    BY <1>0, <1>3, ElapseType DEF Ps5Stay
  <2>2. sinceMove' \in Nat /\ lag' \in Nat
    BY <1>0, <1>3 DEF Ps5Stay, Least, TypeOK
  <2>3. TypeOK'
    BY <2>1, <2>2, <1>3 DEF Ps5Stay, TypeOK, setupVars, xboxVars
  <2> QED
    BY <2>3, <1>3 DEF Ps5Stay, setupVars, Played
<1>4. ASSUME XboxTurn PROVE MazeInv'
  <2>1. game' = game /\ game \in Games
    BY <1>4 DEF XboxTurn, setupVars, TypeOK
  <2>2. /\ Played(game, maze', pos') /\ button_down' \in BOOLEAN
        /\ press' \in Int /\ press' <= 1
    <3>1. PICK kind \in Kinds, hat \in Hats : \E reading \in Readings(controller, kind, hat, Released) :
            IF button_down
            THEN /\ button_down' = Pressed(reading.dpad)
                 /\ press' = PressAfter(hat, kind, {})
                 /\ UNCHANGED <<maze, pos>>
            ELSE LET end == WalkAll(reading.dpad)
                 IN  /\ maze' = end.maze /\ pos' = end.pos
                     /\ button_down' = Pressed(reading.dpad)
                     /\ press' = PressAfter(hat, kind, end.walked)
      BY <1>4 DEF XboxTurn
    <3>2. \A walked : PressAfter(hat, kind, walked) \in Int /\ PressAfter(hat, kind, walked) <= 1
      BY DEF TypeOK, PressAfter, Least
    <3>3. CASE button_down
      BY <3>1, <3>2, <3>3 DEF Pressed
    <3>4. CASE ~button_down
      <4>1. PICK reading \in Readings(controller, kind, hat, Released) :
              LET end == WalkAll(reading.dpad)
              IN  /\ maze' = end.maze /\ pos' = end.pos
                  /\ button_down' = Pressed(reading.dpad)
                  /\ press' = PressAfter(hat, kind, end.walked)
        BY <3>1, <3>4
      <4>2. IsWalk(game, reading.dpad, WalkAll(reading.dpad))
        BY <2>1, WalkAllPlayed
      <4> QED
        BY <3>2, <4>1, <4>2 DEF IsWalk, Pressed
    <3> QED
      BY <3>3, <3>4 DEF TypeOK
  <2>3. Played(game, maze, pos)'
    BY <2>1, <2>2 DEF Played
  <2>4. TypeOK'
    BY <2>1, <2>2, <1>4 DEF XboxTurn, Played, TypeOK, setupVars, ps5Vars
  <2> QED
    BY <2>3, <2>4
<1>5. ASSUME UNCHANGED vars PROVE MazeInv'
  BY <1>5 DEF vars, setupVars, ps5Vars, xboxVars, TypeOK, Played
<1> QED
  BY <1>1, <1>2, <1>3, <1>4, <1>5 DEF Next

LEMMA MazeAlways == Spec => []MazeInv
  BY MazeInit, MazeStep, PTL DEF Spec

\* Every variable keeps its type, the timer of ps5-maze among them.
THEOREM TypeCorrect == Spec => []TypeOK
<1>1. MazeInv => TypeOK
  BY DEF MazeInv
<1> QED
  BY <1>1, MazeAlways, PTL

\* In every maze that is closed, PACMAN is in one cell, and the walls stay.
THEOREM PacmanCorrect == Spec => []PacmanWhereItIs
<1>1. MazeInv => PacmanWhereItIs
  BY DEF MazeInv, Played, PacmanWhereItIs
<1> QED
  BY <1>1, MazeAlways, PTL

-----------------------------------------------------------------------------
(* The score *)

LEMMA CellsFinite == IsFiniteSet(Cells)
<1>1. 0 \in Int /\ Height - 1 \in Int /\ Width - 1 \in Int
  BY MazeAssumption
<1>2. IsFiniteSet(0 .. Height - 1) /\ IsFiniteSet(0 .. Width - 1)
  BY <1>1, FS_Interval
<1> QED
  BY <1>2, FS_Product DEF Cells

LEMMA EatenFinite ==
  ASSUME NEW what
  PROVE  IsFiniteSet(Eaten(what)) /\ Cardinality(Eaten(what)) \in Nat
<1>1. Eaten(what) \subseteq Cells
  BY DEF Eaten
<1> QED
  BY <1>1, CellsFinite, FS_Subset, FS_CardinalityType

\* What PACMAN takes from a cell is eaten from then on, and nothing else is.
LEMMA EatenByStep ==
  ASSUME game \in Games, Played(game, maze, pos), game' = game,
         NEW direction \in Directions,
         maze[Neighbour(pos, direction)] # "WALL",
         maze' = Moved(maze, pos, Neighbour(pos, direction)),
         NEW what \in {"FOOD", "POWER_PELLET"}
  PROVE  Cardinality(Eaten(what)') = Cardinality(Eaten(what))
           + IF maze[Neighbour(pos, direction)] = what THEN 1 ELSE 0
<1> DEFINE to == Neighbour(pos, direction)
<1>1. to \in Cells /\ to # pos /\ pos \in Cells
  BY StepPlayed DEF Played
<1>2. \A cell \in Cells : maze'[cell] =
        IF cell = to THEN "PACMAN" ELSE IF cell = pos THEN "EMPTY" ELSE maze[cell]
  BY <1>1 DEF Moved, Played
<1>3. \A cell \in Cells : Start(game)'[cell] = Start(game)[cell]
  BY DEF Start
<1>4. maze[pos] = "PACMAN" /\ maze[to] # "PACMAN"
  BY <1>1 DEF Played
<1>5. maze[to] \in {Start(game)[to], "EMPTY", "PACMAN"}
  BY <1>1 DEF Played
<1> HIDE DEF to
<1>6. CASE maze[to] = what
  <2>1. Start(game)[to] = what /\ to \notin Eaten(what)
    BY <1>4, <1>5, <1>6 DEF Eaten
  <2>2. Eaten(what)' = Eaten(what) \cup {to}
    BY <1>1, <1>2, <1>3, <1>4, <2>1 DEF Eaten
  <2> QED
    BY <1>6, <2>1, <2>2, EatenFinite, FS_AddElement DEF to
<1>7. CASE maze[to] # what
  <2>1. Eaten(what)' = Eaten(what)
    BY <1>1, <1>2, <1>3, <1>4, <1>5, <1>7 DEF Eaten
  <2> QED
    BY <1>7, <2>1, EatenFinite DEF to
<1> QED
  BY <1>6, <1>7

LEMMA ScoreStep == MazeInv /\ ScoreIsEaten /\ [Next]_vars => ScoreIsEaten'
<1> SUFFICES ASSUME MazeInv, ScoreIsEaten, [Next]_vars, game' = "ps5" PROVE ScoreIsEaten'
  BY DEF ScoreIsEaten
<1>1. game' = game
  BY DEF Next, vars, setupVars, ListDevices, ListNothing, OpenPs5Maze, OpenXboxMaze,
         OpenFails, Ps5Move, Ps5Stay, XboxTurn, TurnFails
<1>2. CASE UNCHANGED <<maze, score>>
  BY <1>1, <1>2 DEF ScoreIsEaten, Eaten, Start
<1>3. ASSUME NEW wait \in 0 .. MaxWait, NEW sleep \in 1 .. MaxSleep, Ps5Move(wait, sleep)
      PROVE  ScoreIsEaten'
  <2>1. PICK direction \in Headings[controller] :
          maze[Neighbour(pos, direction)] # "WALL" /\ Take(Neighbour(pos, direction))
    BY <1>3 DEF Ps5Move
  <2> DEFINE to == Neighbour(pos, direction)
             food == Cardinality(Eaten("FOOD"))
             pellets == Cardinality(Eaten("POWER_PELLET"))
  <2>2. direction \in Directions /\ game \in Games /\ Played(game, maze, pos)
    BY <2>1, HeadingType DEF MazeInv, TypeOK
  <2>3. maze' = Moved(maze, pos, to) /\ score' = score + Worth(maze[to])
    BY <2>1 DEF Take
  <2>4. food' = food + IF maze[to] = "FOOD" THEN 1 ELSE 0
    BY <1>1, <2>1, <2>2, <2>3, EatenByStep
  <2>5. pellets' = pellets + IF maze[to] = "POWER_PELLET" THEN 1 ELSE 0
    BY <1>1, <2>1, <2>2, <2>3, EatenByStep
  <2>6. food \in Nat /\ pellets \in Nat
    BY EatenFinite
  <2>7. score = 10 * food + 50 * pellets
    BY <1>1 DEF ScoreIsEaten
  <2>8. CASE maze[to] = "FOOD"
    <3>1. Worth(maze[to]) = 10
      BY <2>8 DEF Worth
    <3> HIDE DEF food, pellets, to
    <3>2. score' = 10 * food' + 50 * pellets'
      BY <2>3, <2>4, <2>5, <2>6, <2>7, <2>8, <3>1
    <3> QED
      BY <3>2 DEF ScoreIsEaten, food, pellets
  <2>9. CASE maze[to] = "POWER_PELLET"
    <3>1. Worth(maze[to]) = 50
      BY <2>9 DEF Worth
    <3> HIDE DEF food, pellets, to
    <3>2. score' = 10 * food' + 50 * pellets'
      BY <2>3, <2>4, <2>5, <2>6, <2>7, <2>9, <3>1
    <3> QED
      BY <3>2 DEF ScoreIsEaten, food, pellets
  <2>10. CASE maze[to] \notin {"FOOD", "POWER_PELLET"}
    <3>1. Worth(maze[to]) = 0
      BY <2>10 DEF Worth
    <3> HIDE DEF food, pellets, to
    <3>2. score' = 10 * food' + 50 * pellets'
      BY <2>3, <2>4, <2>5, <2>6, <2>7, <2>10, <3>1
    <3> QED
      BY <3>2 DEF ScoreIsEaten, food, pellets
  <2> QED
    BY <2>8, <2>9, <2>10
<1>4. CASE XboxTurn
  BY <1>1, <1>4 DEF XboxTurn
<1> QED
  BY <1>2, <1>3, <1>4 DEF Next, vars, setupVars, ps5Vars, ListDevices, ListNothing,
     OpenPs5Maze, OpenXboxMaze, OpenFails, Ps5Stay, TurnFails

\* The score of ps5-maze is what is gone from the maze, in every maze.
THEOREM ScoreCorrect == Spec => []ScoreIsEaten
<1>1. Init => ScoreIsEaten
  <2> SUFFICES ASSUME Init PROVE ScoreIsEaten
    OBVIOUS
  <2>1. Eaten("FOOD") = {} /\ Eaten("POWER_PELLET") = {}
    BY DEF Init, Eaten
  <2> QED
    BY <2>1, FS_EmptySet DEF Init, ScoreIsEaten
<1> QED
  BY <1>1, ScoreStep, MazeAlways, PTL DEF Spec

-----------------------------------------------------------------------------
(* The timer *)

\* last_frame was taken at most MaxSleep before a turn starts.
PowerInv == PowerIsCurrent /\ lag \in 0 .. MaxSleep

LEMMA PowerElapse ==
  ASSUME MazeInv, PowerInv, NEW what, NEW wait \in 0 .. MaxWait, Elapse(what, wait)
  PROVE  PowerIsCurrent'
<1>1. PowerTime \in Nat /\ MaxWait \in Nat /\ MaxSleep \in Nat
  BY MazeAssumption
<1>2. power \in Nat /\ sincePellet \in Nat
  BY DEF MazeInv, TypeOK
<1> QED
  BY <1>1, <1>2 DEF PowerInv, Elapse, PowerIsCurrent, Left, Tick, Least

LEMMA PowerStep == MazeInv /\ PowerInv /\ [Next]_vars => PowerInv'
<1> SUFFICES ASSUME MazeInv, PowerInv, [Next]_vars PROVE PowerInv'
  OBVIOUS
<1>1. MaxSleep \in Nat
  BY MazeAssumption
<1>2. CASE UNCHANGED <<power, sincePellet, lag>>
  BY <1>2 DEF PowerInv, PowerIsCurrent, Left
<1>3. ASSUME NEW wait \in 0 .. MaxWait, NEW sleep \in 1 .. MaxSleep,
             Ps5Move(wait, sleep) \/ Ps5Stay(wait, sleep)
      PROVE  PowerInv'
  <2>1. PICK what : Elapse(what, wait)
    BY <1>3 DEF Ps5Move, Ps5Stay
  <2>2. lag' \in 0 .. MaxSleep
    BY <1>1, <1>3 DEF Ps5Move, Ps5Stay
  <2> QED
    BY <2>1, <2>2, PowerElapse DEF PowerInv
<1> QED
  BY <1>2, <1>3 DEF Next, vars, ps5Vars, ListDevices, ListNothing, OpenPs5Maze,
     OpenXboxMaze, OpenFails, XboxTurn, TurnFails

\* Whatever reads and sleeps take, the power of a pellet is off by a turn at most.
THEOREM PowerCorrect == Spec => []PowerIsCurrent
<1>1. Init => PowerInv
  BY MazeAssumption DEF Init, PowerInv, PowerIsCurrent, Left
<1>2. PowerInv => PowerIsCurrent
  BY DEF PowerInv
<1> QED
  BY <1>1, <1>2, PowerStep, MazeAlways, PTL DEF Spec

-----------------------------------------------------------------------------
(* The press *)

\* Nothing is used up of a press unless the button is down.
PressInv ==
  /\ OneMovePerPress
  /\ ~button_down => press = 1

\* A hat that is held reads as a direction.
LEMMA HeldIsRead ==
  ASSUME NEW type \in Controllers, NEW hat \in Hats, hat # Released,
         NEW reading \in Readings(type, "input", hat, Released)
  PROVE  Pressed(reading.dpad)
<1>1. reading.dpad = HatDirections(hat)
  BY DEF Readings, ReadByXbox, ReadByPs5
<1>2. \E direction \in Directions : direction \in HatDirections(hat)
  <2>1. hat \in {0, 1, 7} \/ hat \in {1, 2, 3} \/ hat \in {3, 4, 5} \/ hat \in {5, 6, 7}
    BY DEF Hats, Released
  <2> QED
    BY <2>1 DEF HatDirections, Directions
<1> QED
  BY <1>1, <1>2 DEF Pressed

LEMMA PressStep == MazeInv /\ PressInv /\ [Next]_vars => PressInv'
<1> SUFFICES ASSUME MazeInv, PressInv, [Next]_vars PROVE PressInv'
  OBVIOUS
<1>1. CASE UNCHANGED <<press, button_down>>
  BY <1>1 DEF PressInv, OneMovePerPress
<1>2. CASE XboxTurn
  <2>1. PICK kind \in Kinds, hat \in Hats :
          \E reading \in Readings(controller, kind, hat, Released) : \E walked :
            /\ button_down' = Pressed(reading.dpad)
            /\ press' = PressAfter(hat, kind, walked)
            /\ button_down => walked = {}
    BY <1>2 DEF XboxTurn
  <2>2. PICK reading \in Readings(controller, kind, hat, Released) : \E walked :
            /\ button_down' = Pressed(reading.dpad)
            /\ press' = PressAfter(hat, kind, walked)
            /\ button_down => walked = {}
    BY <2>1
  <2>3. PICK walked :
            /\ button_down' = Pressed(reading.dpad)
            /\ press' = PressAfter(hat, kind, walked)
            /\ button_down => walked = {}
    BY <2>2
  <2>4. press \in {0, 1} /\ (walked # {} => press = 1)
    BY <2>3 DEF PressInv, OneMovePerPress, MazeInv, TypeOK
  <2>5. CASE hat = Released \/ kind # "input"
    <3>1. press' = 1
      BY <2>3, <2>4, <2>5 DEF PressAfter, Least
    <3> QED
      BY <3>1 DEF PressInv, OneMovePerPress
  <2>6. CASE hat # Released /\ kind = "input"
    <3>1. button_down'
      BY <2>3, <2>6, HeldIsRead DEF MazeInv, TypeOK
    <3>2. press' >= 0
      BY <2>3, <2>4, <2>6 DEF PressAfter
    <3> QED
      BY <3>1, <3>2 DEF PressInv, OneMovePerPress
  <2> QED
    BY <2>5, <2>6
<1> QED
  BY <1>1, <1>2 DEF Next, vars, xboxVars, ListDevices, ListNothing, OpenPs5Maze,
     OpenXboxMaze, OpenFails, Ps5Move, Ps5Stay, TurnFails

\* However long it is held, a press moves PACMAN in one turn, and in one more for
\* each report in between that is read as a release.
THEOREM PressCorrect == Spec => []OneMovePerPress
<1>1. Init => PressInv
  BY DEF Init, PressInv, OneMovePerPress
<1>2. PressInv => OneMovePerPress
  BY DEF PressInv
<1> QED
  BY <1>1, <1>2, PressStep, MazeAlways, PTL DEF Spec
=============================================================================

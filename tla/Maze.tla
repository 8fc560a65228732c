--------------------------------- MODULE Maze --------------------------------
(***************************************************************************)
(* The two maze guests: ps5-maze (usb-wasi-guest/examples/ps5-maze) and    *)
(* xbox-maze (usb-wasi-guest/examples/xbox-maze).  Each plays with either  *)
(* controller: it finds one, opens it, and then reads one report after the *)
(* other to move PACMAN.                                                   *)
(*                                                                         *)
(* ps5-maze moves while a direction is held, once in MoveDelay at most,    *)
(* keeps a score and a timer that a power pellet sets, and ignores errors. *)
(* xbox-maze moves when a direction is pressed and again after a report    *)
(* without one, keeps no score, and ends at the first error.  The ghosts   *)
(* of both are cells of the maze and never move.                           *)
(*                                                                         *)
(* A unit of time is 50 ms.                                                *)
(***************************************************************************)
EXTENDS Integers, Sequences, FiniteSets

CONSTANTS
  Height, Width,   \* 14 rows of 30 cells
  Boards,          \* for each game the maze as it is written in the source
  Ghosts,          \* the cells where ps5-maze then puts its ghosts
  StartPos,        \* where PACMAN is
  Configurations,  \* of the controllers: for each interface the directions of
                   \* its interrupt endpoints
  PowerTime,       \* what a pellet sets power_timer to: 10 s
  MoveDelay,       \* move_delay
  MaxWait,         \* timeout_ms of a read
  MaxSleep         \* bound: how long the sleep between two turns takes

Games == {"ps5", "xbox"}
Controllers == {"Xbox", "PS5"}
Directions == {"up", "down", "left", "right"}
CellKinds == {"WALL", "FOOD", "POWER_PELLET", "EMPTY", "PACMAN", "GHOST"}
Cells == (0 .. Height - 1) \X (0 .. Width - 1)

\* A maze is closed, and PACMAN is in it once.
IsMaze(board) ==
  /\ board \in [Cells -> CellKinds]
  /\ \A cell \in Cells :
       \/ cell[1] \in {0, Height - 1}
       \/ cell[2] \in {0, Width - 1}
       => board[cell] = "WALL"
  /\ \A cell \in Cells : board[cell] = "PACMAN" <=> cell = StartPos

ASSUME MazeAssumption ==
  /\ {Height, Width, PowerTime, MoveDelay, MaxWait, MaxSleep} \subseteq Nat
  /\ StartPos \in Cells
  /\ \A game \in Games : IsMaze(Boards[game])
  /\ Ghosts \subseteq Cells
  /\ \A cell \in Ghosts : Boards["ps5"][cell] \notin {"WALL", "PACMAN"}

VARIABLES
  game,         \* which of the two programs runs
  phase,        \* "list", "open", "play" or "failed": run returned an error
  controller,   \* controller_type
  maze,
  pos,          \* current_pos
  score,
  power,        \* power_timer
  sinceMove,    \* from last_move to the start of the turn, up to MoveDelay + 1
  lag,          \* from last_frame to the start of the turn
  button_down,  \* of xbox-maze
  sincePellet,  \* history: the time since a pellet was eaten, up to PowerTime
  press         \* history: how many turns may yet move PACMAN while the player
                \* holds a direction; a report that is no input allows one again

setupVars == <<game, controller>>
ps5Vars   == <<score, power, sinceMove, lag, sincePellet>>
xboxVars  == <<button_down, press>>
vars == <<setupVars, phase, maze, pos, ps5Vars, xboxVars>>

-----------------------------------------------------------------------------
(* Mutants: slips that would break a property; the specification uses none *)

\* The cell PACMAN leaves is not emptied.
MovedTrail(board, from, to) == [board EXCEPT ![to] = "PACMAN"]

\* A pellet counts as food.
WorthFlat(cell) == IF cell \in {"FOOD", "POWER_PELLET"} THEN 10 ELSE 0

\* The timer goes below zero.
TickBelow(timer, delta) == timer - delta

\* The timer is not counted down.
TickNever(timer, delta) == timer

\* One direction does not mark the button as down.
PressedNotLeft(dpad) == dpad \ {"left"} # {}

-----------------------------------------------------------------------------
(* Reports.  The player holds a hat (0 to 7 clockwise from up, 8 neutral), *)
(* and a stick that is out by half or more, in the same eight directions.  *)

\* The hat of byte 8, 0 to 7 clockwise from up
HatDirections(hat) ==
  {direction \in Directions :
     hat \in CASE direction = "up"    -> {0, 1, 7}
              [] direction = "right" -> {1, 2, 3}
              [] direction = "down"  -> {3, 4, 5}
              [] direction = "left"  -> {5, 6, 7}}

Hats == 0 .. 8
Released == 8
Kinds == {"input", "other", "short"}
Neutral == [dpad |-> {}, stick |-> {}]

\* parse_xbox_controller_data: the first byte is not looked at, so a message of
\* another kind is read as some input.
ReadByXbox(kind, hat, stick) ==
  CASE kind = "input" -> {[dpad |-> HatDirections(hat), stick |-> HatDirections(stick)]}
    [] kind = "other" -> [dpad : SUBSET Directions, stick : {HatDirections(s) : s \in Hats}]
    [] kind = "short" -> {Neutral}

\* parse_ps5_controller_data
ReadByPs5(kind, hat, stick) ==
  IF kind = "input"
  THEN {[dpad |-> HatDirections(hat), stick |-> HatDirections(stick)]}
  ELSE {Neutral}

Readings(type, kind, hat, stick) ==
  IF type = "Xbox" THEN ReadByXbox(kind, hat, stick) ELSE ReadByPs5(kind, hat, stick)

-----------------------------------------------------------------------------
(* The maze *)

Dy(direction) == CASE direction = "up" -> -1 [] direction = "down" -> 1 [] OTHER -> 0
Dx(direction) == CASE direction = "left" -> -1 [] direction = "right" -> 1 [] OTHER -> 0
Neighbour(cell, direction) == <<cell[1] + Dy(direction), cell[2] + Dx(direction)>>

\* The maze when the game starts: ps5-maze puts its ghosts over the cells.
Start(g) ==
  [cell \in Cells |-> IF g = "ps5" /\ cell \in Ghosts THEN "GHOST" ELSE Boards[g][cell]]

Moved(board, from, to) == [board EXCEPT ![from] = "EMPTY", ![to] = "PACMAN"]

Worth(cell) == CASE cell = "FOOD" -> 10 [] cell = "POWER_PELLET" -> 50 [] OTHER -> 0

-----------------------------------------------------------------------------
(* Finding and opening a controller *)

Init ==
  /\ game \in Games
  /\ phase = "list"
  /\ controller = "Xbox"
  /\ maze = Start(game) /\ pos = StartPos
  /\ score = 0 /\ power = 0 /\ sinceMove = 0 /\ lag = 0
  /\ button_down = FALSE
  /\ sincePellet = PowerTime
  /\ press = 1

\* The first supported device of the list
ListDevices ==
  /\ phase = "list"
  /\ controller' \in Controllers
  /\ phase' = "open"
  /\ UNCHANGED <<game, maze, pos, ps5Vars, xboxVars>>

\* list_devices fails, or lists no supported device.
ListNothing ==
  /\ phase = "list"
  /\ phase' = "failed"
  /\ UNCHANGED <<setupVars, maze, pos, ps5Vars, xboxVars>>

\* ps5-maze claims the first interface with an interrupt IN endpoint, and the
\* Xbox controller is initialised through an OUT endpoint found up to there.
Playable(configuration) ==
  LET Has(direction) ==
        {i \in DOMAIN configuration : direction \in configuration[i]}
  IN  /\ Has("in") # {}
      /\ controller = "Xbox" => \E o \in Has("out") : \A i \in Has("in") : o <= i

\* ps5-maze ignores errors of the reset, of the configuration, of the claim and
\* of the initialising transfer.
OpenPs5Maze ==
  /\ game = "ps5" /\ phase = "open"
  /\ \E configuration \in Configurations : Playable(configuration)
  /\ phase' = "play"
  /\ UNCHANGED <<setupVars, maze, pos, ps5Vars, xboxVars>>

\* xbox-maze knows interface and endpoints, and ignores errors of the
\* initialising transfer only.
OpenXboxMaze ==
  /\ game = "xbox" /\ phase = "open"
  /\ phase' = "play"
  /\ UNCHANGED <<setupVars, maze, pos, ps5Vars, xboxVars>>

\* No descriptor, no endpoint, no handle; in xbox-maze also no interface
OpenFails ==
  /\ phase = "open"
  /\ phase' = "failed"
  /\ UNCHANGED <<setupVars, maze, pos, ps5Vars, xboxVars>>

-----------------------------------------------------------------------------
(* A turn of ps5-maze: a read of up to MaxWait, then a sleep *)

Least(a, b) == IF a < b THEN a ELSE b

\* up before down before left before right, from the hat or from the stick
Heading(held) ==
  IF "up" \in held THEN "up" ELSE IF "down" \in held THEN "down" ELSE
  IF "left" \in held THEN "left" ELSE "right"

\* Where the reports of a controller may send PACMAN
Headings == [type \in Controllers |->
  {Heading(reading.dpad \cup reading.stick) :
     reading \in {r \in UNION {Readings(type, kind, hat, stick) :
                                 kind \in Kinds, hat \in Hats, stick \in Hats} :
                    r.dpad \cup r.stick # {}}}]

\* power_timer, when frame_delta has passed
Tick(timer, delta) == IF timer > delta THEN timer - delta ELSE 0

\* PACMAN goes to a cell and takes what is there.
Take(to) ==
  /\ maze' = Moved(maze, pos, to)
  /\ pos' = to
  /\ score' = score + Worth(maze[to])

\* The timers at the end of a turn in which PACMAN met what
Elapse(what, wait) ==
  LET delta == lag + wait
  IN  /\ power' = Tick(IF what = "POWER_PELLET" THEN PowerTime ELSE power, delta)
      /\ sincePellet' = IF what = "POWER_PELLET" THEN 0
                        ELSE Least(sincePellet + delta, PowerTime)

Ps5Move(wait, sleep) ==
  /\ game = "ps5" /\ phase = "play"
  /\ sinceMove + wait > MoveDelay
  /\ \E direction \in Headings[controller] :
       LET to == Neighbour(pos, direction)
       IN  /\ maze[to] # "WALL"
           /\ Take(to)
           /\ Elapse(maze[to], wait)
  /\ sinceMove' = Least(sleep, MoveDelay + 1) /\ lag' = sleep
  /\ UNCHANGED <<setupVars, phase, xboxVars>>

\* No report, an error, or a report that does not move PACMAN
Ps5Stay(wait, sleep) ==
  /\ game = "ps5" /\ phase = "play"
  /\ Elapse("EMPTY", wait)
  /\ sinceMove' = Least(sinceMove + wait + sleep, MoveDelay + 1) /\ lag' = sleep
  /\ UNCHANGED <<setupVars, phase, maze, pos, score, xboxVars>>

-----------------------------------------------------------------------------
(* A turn of xbox-maze *)

\* One of the four tests of a turn: board, position and directions after it
Walk(direction, dpad, st) ==
  LET to == Neighbour(st.pos, direction)
  IN  IF direction \in dpad /\ st.maze[to] # "WALL"
      THEN [maze   |-> Moved(st.maze, st.pos, to),
            pos    |-> to,
            walked |-> st.walked \cup {direction}]
      ELSE st

\* right, left, up, down, each from where the one before has led
WalkAll(dpad) ==
  Walk("down", dpad, Walk("up", dpad, Walk("left", dpad, Walk("right", dpad,
    [maze |-> maze, pos |-> pos, walked |-> {}]))))

Pressed(dpad) == dpad # {}

\* What is left of the press when the player holds hat, a report of some kind is
\* read and PACMAN walks
PressAfter(hat, kind, walked) ==
  LET left == IF walked = {} THEN press ELSE press - 1
  IN  IF hat = Released THEN 1
      ELSE IF kind = "input" THEN left ELSE Least(left + 1, 1)

XboxTurn ==
  /\ game = "xbox" /\ phase = "play"
  /\ \E kind \in Kinds, hat \in Hats :
       \E reading \in Readings(controller, kind, hat, Released) :
         IF button_down
         THEN /\ button_down' = Pressed(reading.dpad)
              /\ press' = PressAfter(hat, kind, {})
              /\ UNCHANGED <<maze, pos>>
         ELSE LET end == WalkAll(reading.dpad)
              IN  /\ maze' = end.maze /\ pos' = end.pos
                  /\ button_down' = Pressed(reading.dpad)
                  /\ press' = PressAfter(hat, kind, end.walked)
  /\ UNCHANGED <<setupVars, phase, ps5Vars>>

-----------------------------------------------------------------------------
\* The end of either: in ps5-maze new_transfer panics, or the screen cannot be
\* flushed; in xbox-maze a read fails, or a second passes without a report.
TurnFails ==
  /\ phase = "play"
  /\ phase' = "failed"
  /\ UNCHANGED <<setupVars, maze, pos, ps5Vars, xboxVars>>

-----------------------------------------------------------------------------
Next ==
  \/ ListDevices \/ ListNothing
  \/ OpenPs5Maze \/ OpenXboxMaze \/ OpenFails
  \/ \E wait \in 0 .. MaxWait, sleep \in 1 .. MaxSleep :
       Ps5Move(wait, sleep) \/ Ps5Stay(wait, sleep)
  \/ XboxTurn \/ TurnFails

Spec == Init /\ [][Next]_vars

-----------------------------------------------------------------------------
(* Properties *)

\* Every variable has its type; the timer of ps5-maze, a Duration, is never
\* negative.
TypeOK ==
  /\ game \in Games /\ controller \in Controllers
  /\ phase \in {"list", "open", "play", "failed"}
  /\ maze \in [Cells -> CellKinds] /\ pos \in Cells
  /\ {score, power, sinceMove, lag, sincePellet} \subseteq Nat
  /\ button_down \in BOOLEAN
  /\ press \in Int /\ press <= 1

\* PACMAN is drawn in one cell, the one current_pos names, and whatever is
\* pressed the walls stay as they were: no turn indexes outside the maze.
PacmanWhereItIs ==
  \A cell \in Cells :
    /\ maze[cell] = "PACMAN" <=> cell = pos
    /\ maze[cell] = "WALL" <=> Start(game)[cell] = "WALL"

Eaten(what) == {cell \in Cells : Start(game)[cell] = what /\ maze[cell] # what}

\* The score of ps5-maze is what is gone from the maze: ten for each food and
\* fifty for each pellet, each counted once however often PACMAN passes.
ScoreIsEaten ==
  game = "ps5" =>
    score = 10 * Cardinality(Eaten("FOOD")) + 50 * Cardinality(Eaten("POWER_PELLET"))

Left(time) == IF time < PowerTime THEN PowerTime - time ELSE 0

\* The power of a pellet lasts for PowerTime less at most one turn: the time
\* that the turn had taken before the pellet was eaten is taken off at once.
PowerIsCurrent ==
  /\ power <= Left(sincePellet)
  /\ power >= Left(sincePellet + MaxWait + MaxSleep)

\* However long the buttons are held, one press moves PACMAN of xbox-maze in one
\* turn, and in one more only for each short report, or report that is no input,
\* that was read in between.
OneMovePerPress == press >= 0
=============================================================================

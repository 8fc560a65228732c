-------------------------------- MODULE MCMaze -------------------------------
(* Instance of Maze for TLC. *)
EXTENDS Maze

\* Eight cells around a wall: food, and in ps5-maze two pellets
MCBoard(pellet) ==
  [cell \in Cells |->
     CASE cell = <<1, 1>> -> "PACMAN"
       [] cell \in {<<1, 3>>, <<3, 2>>} -> pellet
       [] cell = <<2, 2>> -> "WALL"
       [] cell[1] \in {0, 4} \/ cell[2] \in {0, 4} -> "WALL"
       [] cell = <<3, 1>> -> "EMPTY"
       [] OTHER -> "FOOD"]

MCBoards == [g \in Games |-> MCBoard(IF g = "ps5" THEN "POWER_PELLET" ELSE "FOOD")]
MCGhosts == {<<3, 3>>}
MCStartPos == <<1, 1>>

\* No IN; IN and OUT together; OUT before IN; IN without OUT before it
MCConfigurations ==
  {<<{"out"}>>, <<{}, {"in", "out"}>>, <<{"out"}, {"in"}>>, <<{"in"}, {"out"}>>}
=============================================================================

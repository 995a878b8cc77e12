-------------------------------- MODULE Grid --------------------------------
(***************************************************************************)
(* The rectangle of cells a game is played on: lib/game_lib/map_point and  *)
(* the dimensions of GameMap.  A cell is a pair <<x, y>>; y grows          *)
(* downwards.                                                              *)
(***************************************************************************)
EXTENDS Integers

CONSTANTS
  Width, Height,  \* map_width_ and map_height_ of the settings
  Walls           \* the cells drawn with '#' on the map of the settings

Directions == {"UP", "DOWN", "LEFT", "RIGHT"}

Cells == (0 .. Width - 1) \X (0 .. Height - 1)

\* A wall never becomes anything else, so these are the cells one may enter
Open == Cells \ Walls

\* GetNewPosition
Step(c, d) ==
  CASE d = "UP"    -> <<c[1], c[2] - 1>>
    [] d = "DOWN"  -> <<c[1], c[2] + 1>>
    [] d = "LEFT"  -> <<c[1] - 1, c[2]>>
    [] d = "RIGHT" -> <<c[1] + 1, c[2]>>
    [] OTHER       -> c

Adjacent(c, n) == \E d \in Directions : Step(c, d) = n

ASSUME GridAssumption ==
  /\ Width \in Nat \ {0} /\ Height \in Nat \ {0}
  /\ Walls \subseteq Cells
=============================================================================

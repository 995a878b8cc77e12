------------------------------- MODULE MCGame -------------------------------
(***************************************************************************)
(* Small maps for Game.  The searches are those of Pathfinding.            *)
(***************************************************************************)
EXTENDS Game, Pathfinding, TLC

CONSTANTS p1, p2, p3, b1, b2

NoWalls == {}

\* A field of 3 x 2 cells with a wall in the upper left corner: a square with a tail
FieldWalls == {<<0, 0>>}

NoItems == [c \in {} |-> 0]

\* A health pack in the lower left corner and a mine in the lower right one
FieldItems == (<<0, 1>> :> 1) @@ (<<2, 1>> :> -1)

(***************************************************************************)
(* FirstSteps in closed form for the maps of the runs: sideways first,     *)
(* unless a wall is there.  TLC evaluates the searches again and again, so *)
(* the runs use this table.                                                *)
(***************************************************************************)
StraightSteps ==
  [s \in Open |-> [e \in Open \ {s} |->
     CASE e[1] > s[1] -> "RIGHT"
       [] e[1] < s[1] /\ Step(s, "LEFT") \in Open -> "LEFT"
       [] e[2] > s[2] -> "DOWN"
       [] OTHER -> "UP"]]

ASSUME StraightStepsAssumption == FirstSteps = StraightSteps

\* stay_health_drop_ of the shipped settings: a cfg cannot write a negative number
Healing == -1

Symmetry == Permutations(Players) \cup Permutations(Bullets)

(***************************************************************************)
(* Standing still heals without limit (stay_health_drop_ is -1 in the      *)
(* shipped settings); the runs look no further than this health.           *)
(***************************************************************************)
MaxHealth == InitialHealth + 1

HealthBound == \A p \in Players : health[p] <= MaxHealth
=============================================================================

----------------------------- MODULE Pathfinding -----------------------------
(***************************************************************************)
(* What the two breadth-first searches of ProjectileObject compute:        *)
(* FindTarget and TargetDirection of                                       *)
(* lib/game_lib/game_objects/projectile_game_object.cpp.  Both expand the  *)
(* cells in the order of a FIFO queue and look at the neighbours of a cell *)
(* to the right, left, below and above, in this order; walls are the only  *)
(* obstacle.                                                               *)
(***************************************************************************)
EXTENDS Grid, Sequences, FiniteSets

\* The neighbours of a cell in the order the loop body tries them
Neighbours(c) ==
  LET beside == <<Step(c, "RIGHT"), Step(c, "LEFT"), Step(c, "DOWN"), Step(c, "UP")>>
  IN  SelectSeq(beside, LAMBDA n : n \in Open)

\* The loop body: the n-th cell is popped and its unseen neighbours are pushed
Expanded == [queued \in Seq(Open), n \in Nat |->
  LET Unseen(c) == \A i \in DOMAIN queued : queued[i] # c
  IN  IF n > Len(queued) THEN queued
      ELSE queued \o SelectSeq(Neighbours(queued[n]), Unseen)]

\* All the cells ever pushed on the queue, in that order
Queued(start) ==
  LET pushed[n \in 0 .. Cardinality(Open)] ==
        IF n = 0 THEN <<start>> ELSE Expanded[pushed[n - 1], n]
  IN  pushed[Cardinality(Open)]

\* The order in which FindTarget looks at the other cells
DiscoveryOrder == [start \in Open |-> Tail(Queued(start))]

\* previous_point: the first expanded cell that is a neighbour
Previous(start) ==
  LET queued == Queued(start)
      Parent(c) == CHOOSE i \in DOMAIN queued :
                     /\ Adjacent(queued[i], c)
                     /\ \A j \in DOMAIN queued : Adjacent(queued[j], c) => i <= j
  IN  [c \in {queued[i] : i \in 2 .. Len(queued)} |-> queued[Parent(c)]]

\* TargetDirection: back from the target to the cell next to the start
FirstSteps ==
  [start \in Open |->
     LET previous == Previous(start)
         back[c \in DOMAIN previous] ==
           IF previous[c] = start
           THEN CHOOSE d \in Directions : Step(start, d) = c
           ELSE back[previous[c]]
     IN  [end \in Open \ {start} |->
            IF end \in DOMAIN previous THEN back[end] ELSE "UNKNOWN_DIRECTION"]]
=============================================================================

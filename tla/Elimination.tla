----------------------------- MODULE Elimination -----------------------------
(***************************************************************************)
(* What the game is to everybody outside the engine: players are           *)
(* eliminated, never revived, and once at most one is left the game is     *)
(* found to be over.  The engine (Game) implements it; the room (Room)     *)
(* sees no more of the game than this and implements it as well, however   *)
(* commands, ticks and lost connections interleave.                        *)
(*                                                                         *)
(* The source is Game::UpdateGame and Game::KillPlayer in                  *)
(* lib/game_lib/game.cpp, and IsEnded.                                     *)
(***************************************************************************)
CONSTANT Players

VARIABLES
  alive,  \* the players with health above zero
  over    \* is_ended_

\* At most one is left
Decided == \A p, q \in alive : p = q

Init ==
  /\ alive = Players
  /\ over = FALSE

\* One player or several lose, and a tick may notice that nobody is left to win
Next ==
  /\ alive' \in SUBSET alive
  /\ \/ UNCHANGED over
     \/ over' = TRUE /\ Decided'

\* A tick notices
Finish ==
  /\ Decided
  /\ over' = TRUE
  /\ UNCHANGED alive

Spec == Init /\ [][Next]_<<alive, over>>

FairSpec == Spec /\ WF_<<alive, over>>(Finish)
=============================================================================

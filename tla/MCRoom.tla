------------------------------- MODULE MCRoom -------------------------------
(***************************************************************************)
(* Small rooms for Room.                                                   *)
(***************************************************************************)
EXTENDS Room, TLC

CONSTANTS host, j1, j2, j3

Symmetry == Permutations(Joiners)

(***************************************************************************)
(* Constraints that keep a counterexample to the case it is about: no use  *)
(* of freed memory, and nobody leaves after the host started the game.     *)
(***************************************************************************)
NothingFreed == \A i \in DOMAIN batch : batch[i].data # "freed"

LeftBeforeStart ==
  /\ NothingFreed
  /\ state # "WAITING" => \A f \in Clients : peer[f] = "open" \/ f \in closed
=============================================================================

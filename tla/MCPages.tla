------------------------------ MODULE MCPages -------------------------------
(***************************************************************************)
(* Windows and places on the map for Pages.                                *)
(***************************************************************************)
EXTENDS Pages

NarrowWindow == {<<76, 24>>}

\* In the middle of the map the surroundings of a player are as large as they get
OnePlace == {<<30, 6>>}
=============================================================================

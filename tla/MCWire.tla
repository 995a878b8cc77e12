------------------------------- MODULE MCWire -------------------------------
(***************************************************************************)
(* A session for Wire: a room, its host and the joiner, and a map of one   *)
(* row.  Bytes have three values, so a number is below 81.                 *)
(***************************************************************************)
EXTENDS Wire

OneRoom == << <<5, 1>> >>

JoinerLogin == <<2, 1>>

HostAndJoiner == << <<3, <<1>>>>, <<4, <<2, 1>>>> >>

OneRow == << <<0, 2>> >>

OnePlayer == << <<4, 7, 1, 0>> >>

TwoOrders == <<1, 5>>
=============================================================================

----------------------------- MODULE MCRoomLife -----------------------------
(***************************************************************************)
(* TLC instance of RoomLife.                                               *)
(***************************************************************************)
EXTENDS RoomLife, TLC

CONSTANTS n1, n2

MCName == {n1, n2}
MCCanon == n1 :> n1 @@ n2 :> n2
=============================================================================

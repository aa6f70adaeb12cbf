---------------------------- MODULE MCRoomState ----------------------------
(***************************************************************************)
(* A room with another person, opened twice.                               *)
(***************************************************************************)
EXTENDS RoomState

CONSTANT ann

MCContacts == {ann}
=============================================================================

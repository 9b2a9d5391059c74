--------------------------- MODULE MCRoomHandlers ---------------------------
(***************************************************************************)
(* RoomHandlers for TLC.                                                   *)
(***************************************************************************)
EXTENDS RoomHandlers, TLC

Symmetry == Permutations(Accounts) \cup Permutations(Handlers)
=============================================================================

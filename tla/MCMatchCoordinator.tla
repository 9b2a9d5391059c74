-------------------------- MODULE MCMatchCoordinator --------------------------
(***************************************************************************)
(* MatchCoordinator for TLC.  Chips are scaled down: RoomRules asks for    *)
(* 100 or more, and no rule depends on the size of a chip.                 *)
(***************************************************************************)
EXTENDS MatchCoordinator
=============================================================================

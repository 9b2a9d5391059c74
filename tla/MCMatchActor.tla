---------------------------- MODULE MCMatchActor ----------------------------
(***************************************************************************)
(* MatchActor for TLC.  Calls and command ids are interchangeable, and so  *)
(* are accounts; symmetry is used in the runs that check safety only.      *)
(***************************************************************************)
EXTENDS MatchActor, TLC

Symmetry == Permutations(Accounts) \cup Permutations(CommandIds) \cup Permutations(Calls)
=============================================================================

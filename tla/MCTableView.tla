----------------------------- MODULE MCTableView -----------------------------
(***************************************************************************)
(* TableView for TLC: four players with gaps between their seats, the      *)
(* viewer in the middle.  Sounds, bets, the chat and the seats share       *)
(* nothing but the snapshots, so a behaviour of the run uses one of them.  *)
(***************************************************************************)
EXTENDS TableView, TLC

CONSTANTS o1, o2, o3
MCSeatOf == (o1 :> 1) @@ (Me :> 3) @@ (o2 :> 6) @@ (o3 :> 7)
MCLimitsAt == (0 :> [min |-> 2, max |-> 4]) @@ (1 :> [min |-> 6, max |-> 9])
              @@ (2 :> [min |-> 3, max |-> 3])

OneConcern ==
    LET silent == muted /\ ~hidden /\ library = "none" /\ heard = {} /\ saved = "on"
        bets   == bet # 0 \/ sent # None
        talks  == said > 0 \/ open
        seats  == srv.in # Players
    IN /\ bets \/ talks \/ seats => silent
       /\ bets  => ~talks /\ ~seats
       /\ talks => pub = None /\ results = {}
=============================================================================

------------------------------ MODULE MCRoomPage ------------------------------
(***************************************************************************)
(* RoomPage for TLC: forms at and beside the limits of both checks.        *)
(***************************************************************************)
EXTENDS RoomPage, TLC

Default == [players |-> 8, chips |-> 1000, small |-> 10, big |-> 20, ante |-> 0,
            increase |-> 10, timed |-> TRUE, time |-> 30, fixed |-> FALSE, hands |-> 50,
            locked |-> FALSE]
MCForms ==
    {[Default EXCEPT !.locked = l] : l \in BOOLEAN}
    \cup {[Default EXCEPT !.players = p, !.chips = c] : p \in {0, 1, 2, 8, 9}, c \in {0, 99, 100001}}
    \cup {[Default EXCEPT !.small = s, !.big = b, !.ante = a] :
            s \in {0, 1, 10}, b \in {0, 19, 20, 21}, a \in {0, 1}}
    \cup {[Default EXCEPT !.increase = i, !.fixed = TRUE, !.hands = h] :
            i \in {0, 4, 5, 20, 21}, h \in {0, 4, 5, 20, 21}}
    \cup {[Default EXCEPT !.timed = t, !.time = n] : t \in BOOLEAN, n \in {9, 10, 300, 301}}
=============================================================================

---------------------------- MODULE SerialMatch ----------------------------
(***************************************************************************)
(* What a match promises to those who send it commands: it is a sequence   *)
(* of decision points, numbered by version; each is left by one command, a *)
(* player's or a timer's; an id is applied at most once; and whoever asks  *)
(* for an id is told the version its command produced, or nothing.         *)
(*                                                                         *)
(* It has no queue, no timer and no registry: MatchActor implements it.    *)
(***************************************************************************)
EXTENDS Naturals

CONSTANTS CommandIds, Calls, None

VARIABLES
    version,  \* the number of decisions taken
    over,     \* the match is over
    asked,    \* the id each call asks for, None before the call
    resolved, \* the version the command of an id produced, 0 if none
    told      \* the version each call was told, 0 if none

vars == <<version, over, asked, resolved, told>>

Init ==
    /\ version = 0
    /\ over = FALSE
    /\ asked = [k \in Calls |-> None]
    /\ resolved = [i \in CommandIds |-> 0]
    /\ told = [k \in Calls |-> 0]

\* A call asks for an id; it is told at once when the id is resolved.
Ask(k) ==
    /\ asked[k] = None
    /\ \E i \in CommandIds:
         /\ asked' = [asked EXCEPT ![k] = i]
         /\ told' \in {told, [told EXCEPT ![k] = resolved[i]]}
    /\ UNCHANGED <<version, over, resolved>>

\* The command of id i takes the current decision.  Calls that asked for it
\* and were told nothing yet may be told now.
Decide(i) ==
    /\ ~over
    /\ resolved[i] = 0
    /\ \E k \in Calls: asked[k] = i
    /\ version' = version + 1
    /\ resolved' = [resolved EXCEPT ![i] = version + 1]
    /\ \E S \in SUBSET {k \in Calls: asked[k] = i /\ told[k] = 0}:
         told' = [k \in Calls |-> IF k \in S THEN version + 1 ELSE told[k]]
    /\ over' \in BOOLEAN
    /\ UNCHANGED asked

\* A timer takes the current decision.
DecideByTimer ==
    /\ ~over
    /\ version' = version + 1
    /\ over' \in BOOLEAN
    /\ UNCHANGED <<asked, resolved, told>>

Next ==
    \/ \E k \in Calls: Ask(k)
    \/ \E i \in CommandIds: Decide(i)
    \/ DecideByTimer

Spec == Init /\ [][Next]_vars
=============================================================================

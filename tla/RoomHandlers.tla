---------------------------- MODULE RoomHandlers ----------------------------
(***************************************************************************)
(* One room through the handlers of backend/app/realtime/room_handlers.py, *)
(* close_room_admin and the startup of the server: the room's row in the   *)
(* database, its RoomRuntime objects in the RoomRegistry, its matches in   *)
(* the MatchRegistry, and the rows of the matches.                         *)
(*                                                                         *)
(* A handler runs without interruption from one await to the next, and     *)
(* others run while it waits for the database, for a broadcast or for the  *)
(* task of an actor.  An action is therefore the effect of the call a      *)
(* handler waited for and the code up to its next wait.  What a handler    *)
(* read before a wait and uses after it is kept in its local variables;    *)
(* objects have an identity, so that it may hold one the registry dropped. *)
(*                                                                         *)
(* A match is reduced to its players and whether it is over: MatchActor    *)
(* says what happens inside.  Commands that complete no hand change        *)
(* nothing here and are left out.                                          *)
(***************************************************************************)
EXTENDS Naturals, Sequences, FiniteSets

CONSTANTS
    Accounts,
    Handlers,    \* bound: handlers under way at the same time
    MaxPlayers,  \* rules.max_players
    MaxRooms,    \* bound: RoomRuntime objects made for the room
    MaxMatches,  \* bound: matches started in the room; at either bound the
                 \* handler ends as when reading from the database raises
    Trouble,     \* what may go wrong: "database", "early", "admin", "restart"
    MaxTroubles, \* bound: kinds of them in one behaviour
    None         \* Python's None

ASSUME RoomAssumption ==
    /\ MaxPlayers \in 2..8
    /\ MaxRooms \in Nat \ {0}
    /\ MaxMatches \in Nat \ {0}
    /\ Trouble \subseteq {"database", "early", "admin", "restart"}
    /\ MaxTroubles \in Nat
    /\ None \notin Accounts \cup Nat

VARIABLES
    row,       \* the row in table rooms: its status and host_account_id
    heap,      \* the RoomRuntime objects made so far
    current,   \* RoomRegistry._rooms: index of the object, or None
    byRoom,    \* MatchRegistry._by_room: the match, or None
    byId,      \* MatchRegistry._by_match
    match,     \* the matches started so far
    matchRow,  \* the status of their rows in table matches
    local,     \* per handler: where it waits, and its local variables
    troubles   \* history: what went wrong so far, also "late": a handler that was
               \* overtaken by a match

roomVars == <<row, heap, current>>
matchVars == <<byRoom, byId, match, matchRow>>
vars == <<roomVars, matchVars, local, troubles>>

-----------------------------------------------------------------------------
Rows == [status: {"waiting", "active", "closed"}, host: Accounts]

\* members in the order of join_order, which is that of the dict
Rooms == [host: Accounts, members: Seq(Accounts), ready: SUBSET Accounts]

\* players who have not quit, whether the match is complete, and whether the
\* clients were told of it
Matches == [players: SUBSET Accounts, over: BOOLEAN, told: BOOLEAN]

Waits == {"idle",
          "join", "close", "remove", "host", "kick",
          "start", "names", "insert", "activate", "abort", "aborted",
          "queued", "applied", "persist", "void", "settle", "closing", "reopen", "quit",
          "admin", "adminclosing"}

Ids == 1..MaxMatches
Objects == 1..MaxRooms

Locals == [wait: Waits, me: Accounts \cup {None}, row: Rows \cup {None},
           room: Objects \cup {None}, match: Ids \cup {None},
           ids: SUBSET Accounts, quits: BOOLEAN, ends: BOOLEAN]

Idle == [wait |-> "idle", me |-> None, row |-> None, room |-> None, match |-> None,
         ids |-> {}, quits |-> FALSE, ends |-> FALSE]

Members(o) == {o.members[n] : n \in DOMAIN o.members}

\* Type invariant: above all, an account is a member of a room object once,
\* however often it joins.
TypeOK ==
    /\ row \in Rows
    /\ heap \in Seq(Rooms) /\ Len(heap) <= MaxRooms
    /\ \A n \in DOMAIN heap: Cardinality(Members(heap[n])) = Len(heap[n].members)
    /\ current \in DOMAIN heap \cup {None}
    /\ match \in Seq(Matches) /\ Len(match) <= MaxMatches
    /\ byRoom \in DOMAIN match \cup {None}
    /\ byId \subseteq DOMAIN match
    /\ matchRow \in Seq({"none", "active", "complete", "void"}) /\ Len(matchRow) = Len(match)
    /\ local \in [Handlers -> Locals]
    /\ troubles \subseteq Trouble \cup {"late"}

-----------------------------------------------------------------------------
(***************************************************************************)
(* RoomRegistry: what its methods make of a RoomRuntime.                   *)
(***************************************************************************)

NewRoom(host) == [host |-> host, members |-> <<>>, ready |-> {}]

\* Fault: who is a member already joins as a new one.
JoinedAgain(o, a) ==
    IF Len(o.members) >= MaxPlayers THEN o ELSE [o EXCEPT !.members = Append(@, a)]

\* join; a full room raises
Joined(o, a) ==
    IF a \in Members(o) \/ Len(o.members) >= MaxPlayers THEN o
    ELSE [o EXCEPT !.members = Append(@, a)]

\* Fault: nobody becomes the host.
LeftOnly(o, a) ==
    [o EXCEPT !.members = SelectSeq(@, LAMBDA b: b # a), !.ready = @ \ {a}]

\* leave, of a member: the first who joined becomes the host if the host left
Left(o, a) ==
    LET n == CHOOSE i \in DOMAIN o.members: o.members[i] = a
        rest == SubSeq(o.members, 1, n - 1) \o SubSeq(o.members, n + 1, Len(o.members))
    IN  [host |-> IF a = o.host /\ rest # <<>> THEN Head(rest) ELSE o.host,
         members |-> rest,
         ready |-> o.ready \ {a}]

\* reset_waiting_state
Reset(o) == [o EXCEPT !.ready = {}]

Here == current # None
Runtime == heap[current]
IsMember(a) == Here /\ a \in Members(Runtime)
Update(o) == heap' = [heap EXCEPT ![current] = o]

-----------------------------------------------------------------------------
(***************************************************************************)
(* Handlers.                                                               *)
(***************************************************************************)
At(h, w) == local[h].wait = w
Begin(h, w, fields) ==
    local' = [local EXCEPT ![h] = [f \in DOMAIN Idle |->
                IF f = "wait" THEN w ELSE IF f \in DOMAIN fields THEN fields[f] ELSE Idle[f]]]
Goto(h, w) == local' = [local EXCEPT ![h].wait = w]
Return(h) == local' = [local EXCEPT ![h] = Idle]

Hits(t) ==
    /\ t \in Trouble
    /\ troubles' = troubles \cup {t}
    /\ Cardinality(troubles' \ {"late"}) <= MaxTroubles

\* What a handler checked before it waited holds no more, since a match began.
Overtaken(late) == troubles' = IF late THEN troubles \cup {"late"} ELSE troubles

\* A player of the room's match is about to leave the room.
Plays(a) == IsMember(a) /\ byRoom # None /\ a \in match[byRoom].players

\* A call of the database raises; the handler does not catch it.
DatabaseFails(h) == Hits("database") /\ Return(h)

SetStatus(s) == row' = [row EXCEPT !.status = s]

(***************************************************************************)
(* room:join                                                               *)
(***************************************************************************)
RoomJoin(h, a) ==
    /\ At(h, "idle")
    /\ Begin(h, "join", [me |-> a, row |-> row])
    /\ UNCHANGED <<roomVars, matchVars, troubles>>

\* Into a waiting room; in an active one a member only gets a new socket, which
\* is not followed here, and a closed one is not found.
RoomJoinEnters(h) ==
    /\ At(h, "join")
    /\ LET a == local[h].me
           seen == local[h].row
           enters == seen.status = "waiting" /\ (Here \/ Len(heap) < MaxRooms)
       IN  /\ heap' = IF ~enters THEN heap
                      ELSE IF Here THEN [heap EXCEPT ![current] = Joined(@, a)]
                      ELSE Append(heap, Joined(NewRoom(seen.host), a))
           /\ current' = IF enters /\ ~Here THEN Len(heap) + 1 ELSE current
    /\ Return(h)
    /\ UNCHANGED <<row, matchVars, troubles>>

(***************************************************************************)
(* room:ready                                                              *)
(***************************************************************************)
RoomReady(a, ready) ==
    /\ IsMember(a) /\ byRoom = None
    /\ Update([Runtime EXCEPT !.ready = IF ready THEN @ \cup {a} ELSE @ \ {a}])
    /\ UNCHANGED <<row, current, matchVars, local, troubles>>

(***************************************************************************)
(* room:leave                                                              *)
(***************************************************************************)
\* Fault: members may leave during a match.
RoomLeaveAnytime(h, a) ==
    /\ At(h, "idle")
    /\ IsMember(a)
    /\ LET o == Left(Runtime, a)
       IN  /\ Update(o)
           /\ IF Len(Runtime.members) = 1
                THEN Begin(h, "close", [me |-> a])
                ELSE Begin(h, "host", [me |-> o.host])
    /\ UNCHANGED <<row, current, matchVars, troubles>>

RoomLeave(h, a) ==
    /\ At(h, "idle")
    /\ IsMember(a) /\ byRoom = None
    /\ LET o == Left(Runtime, a)
       IN  /\ Update(o)
           /\ IF Len(Runtime.members) = 1
                THEN Begin(h, "close", [me |-> a])
                ELSE Begin(h, "host", [me |-> o.host])
    /\ UNCHANGED <<row, current, matchVars, troubles>>

\* _set_room_status(CLOSED) after the last member left
RoomLeaveCloses(h) ==
    /\ At(h, "close")
    /\ \/ SetStatus("closed") /\ Goto(h, "remove") /\ UNCHANGED troubles
       \/ DatabaseFails(h) /\ UNCHANGED row
    /\ UNCHANGED <<heap, current, matchVars>>

\* remove_if_empty, though a match may have opened the room again
RoomLeaveRemoves(h) ==
    LET empty == Here /\ Runtime.members = <<>>
    IN  /\ At(h, "remove")
        /\ current' = IF empty THEN None ELSE current
        /\ Overtaken(empty /\ row.status # "closed")
        /\ Return(h)
        /\ UNCHANGED <<row, heap, matchVars>>

\* _set_room_host, with the host that was read before the call
SetRoomHost(h) ==
    /\ At(h, "host")
    /\ \/ row' = [row EXCEPT !.host = local[h].me] /\ Return(h) /\ UNCHANGED troubles
       \/ DatabaseFails(h) /\ UNCHANGED row
    /\ UNCHANGED <<heap, current, matchVars>>

(***************************************************************************)
(* room:kick                                                               *)
(***************************************************************************)
RoomKick(h, a, target) ==
    /\ At(h, "idle")
    /\ IsMember(target) /\ byRoom = None
    /\ a = Runtime.host /\ target # Runtime.host
    /\ Begin(h, "kick", [me |-> target])
    /\ UNCHANGED <<roomVars, matchVars, troubles>>

\* after room:kicked was sent, though a match may have begun
RoomKickLeaves(h) ==
    /\ At(h, "kick")
    /\ heap' = IF IsMember(local[h].me)
                 THEN [heap EXCEPT ![current] = Left(@, local[h].me)] ELSE heap
    /\ Overtaken(Plays(local[h].me))
    /\ Return(h)
    /\ UNCHANGED <<row, current, matchVars>>

(***************************************************************************)
(* room:start                                                              *)
(***************************************************************************)
RoomStart(h, a) ==
    /\ At(h, "idle")
    /\ Begin(h, "start", [me |-> a, row |-> row])
    /\ UNCHANGED <<roomVars, matchVars, troubles>>

\* The checks, and the list of players.
RoomStartChecks(h) ==
    /\ At(h, "start")
    /\ LET a == local[h].me
           seen == local[h].row
       IN  IF /\ seen.status = "waiting" /\ a = seen.host
              /\ IsMember(a) /\ byRoom = None
              /\ Len(Runtime.members) >= 2
              /\ Members(Runtime) \subseteq Runtime.ready
             THEN Begin(h, "names", [room |-> current, ids |-> Members(Runtime)])
             ELSE Return(h)
    /\ UNCHANGED <<roomVars, matchVars, troubles>>

\* Fault: a match is added beside the one that was started meanwhile.
RoomStartAddsAnyway(h) ==
    /\ At(h, "names")
    /\ LET ids == local[h].ids
       IN  IF ids \subseteq Members(heap[local[h].room]) /\ Len(match) < MaxMatches
             THEN /\ match' = Append(match, [players |-> ids, over |-> FALSE, told |-> FALSE])
                  /\ matchRow' = Append(matchRow, "none")
                  /\ byRoom' = Len(match) + 1
                  /\ byId' = byId \cup {Len(match) + 1}
                  /\ Begin(h, "insert", [match |-> Len(match) + 1])
             ELSE Return(h) /\ UNCHANGED matchVars
    /\ UNCHANGED <<roomVars, troubles>>

\* The names are there: seats are given (not followed here), the match is
\* registered and runs.  A player who is gone raises KeyError, and a match that
\* is there already MatchRuntimeError.
RoomStartAdds(h) ==
    /\ At(h, "names")
    /\ LET ids == local[h].ids
       IN  IF /\ ids \subseteq Members(heap[local[h].room]) /\ byRoom = None
              /\ Len(match) < MaxMatches
             THEN /\ match' = Append(match, [players |-> ids, over |-> FALSE, told |-> FALSE])
                  /\ matchRow' = Append(matchRow, "none")
                  /\ byRoom' = Len(match) + 1
                  /\ byId' = byId \cup {Len(match) + 1}
                  /\ Begin(h, "insert", [match |-> Len(match) + 1])
             ELSE Return(h) /\ UNCHANGED matchVars
    /\ UNCHANGED <<roomVars, troubles>>

\* An exception of room:start's own calls of the database is caught.
Aborts(h) == Hits("database") /\ Goto(h, "abort")

\* _persist_match_start
RoomStartInserts(h) ==
    /\ At(h, "insert")
    /\ \/ /\ matchRow' = [matchRow EXCEPT ![local[h].match] = "active"]
          /\ Goto(h, "activate")
          /\ UNCHANGED troubles
       \/ Aborts(h) /\ UNCHANGED matchRow
    /\ UNCHANGED <<roomVars, byRoom, byId, match>>

\* _set_room_status(ACTIVE), after which the clients are told
RoomStartActivates(h) ==
    /\ At(h, "activate")
    /\ \/ /\ SetStatus("active")
          /\ match' = [match EXCEPT ![local[h].match].told = TRUE]
          /\ Return(h)
          /\ UNCHANGED troubles
       \/ Aborts(h) /\ UNCHANGED <<row, match>>
    /\ UNCHANGED <<heap, current, byRoom, byId, matchRow>>

\* MatchRegistry.remove: whatever match the room has is no longer its match.
Remove(m) ==
    /\ byRoom' = None
    /\ byId' = byId \ {m}

\* _void_persistence_failure: a missing or a void row raises, as the database
\* may, and no exception leaves it.
VoidsRow(m) ==
    \/ /\ matchRow' = [matchRow EXCEPT ![m] = IF @ = "none" THEN "none" ELSE "void"]
       /\ UNCHANGED troubles
    \/ Hits("database") /\ UNCHANGED matchRow

RoomStartVoids(h) ==
    /\ At(h, "abort")
    /\ VoidsRow(local[h].match)
    /\ Remove(local[h].match)
    /\ Goto(h, "aborted")
    /\ UNCHANGED <<roomVars, match>>

\* The handler of a timer's command is the actor's own task.
Automatic(h) == local[h].me = None

Handling == {"applied", "persist", "void", "settle", "closing", "reopen"}

ActorIsBusy(m) ==
    \E g \in Handlers: Automatic(g) /\ local[g].match = m /\ local[g].wait \in Handling

\* Fault: close waits for the task, whoever calls it.
CloseJoins(h) ==
    /\ \A g \in Handlers: ~(At(g, "queued") /\ local[g].match = local[h].match)
    /\ ~ActorIsBusy(local[h].match)

\* close returns when the actor's task has come to its end: what was queued is
\* done.  To its own task it returns at once.
CloseReturns(h) ==
    \/ Automatic(h) /\ local[h].wait \in Handling
    \/ /\ \A g \in Handlers: ~(At(g, "queued") /\ local[g].match = local[h].match)
       /\ ~ActorIsBusy(local[h].match)

RoomStartAborted(h) ==
    /\ At(h, "aborted")
    /\ CloseReturns(h)
    /\ Return(h)
    /\ UNCHANGED <<roomVars, matchVars, troubles>>

(***************************************************************************)
(* game:action and game:quit, and a timer's command                        *)
(***************************************************************************)

\* Nobody knows the match before it is told, but a client that reconnects
\* in time, or a timer if the database is slow.
Known(m) ==
    \/ match[m].told /\ UNCHANGED troubles
    \/ ~match[m].told /\ Hits("early")

GameCommand(h, a, m, quits) ==
    /\ At(h, "idle")
    /\ m \in byId /\ IsMember(a) /\ a \in match[m].players
    /\ Known(m)
    /\ Begin(h, "queued", [me |-> a, match |-> m, quits |-> quits,
                          room |-> IF quits THEN current ELSE None])
    /\ UNCHANGED <<roomVars, matchVars>>

TimerCommand(h, m) ==
    /\ At(h, "idle")
    /\ m \in byId /\ ~match[m].over
    /\ Known(m)
    /\ Begin(h, "queued", [match |-> m])
    /\ UNCHANGED <<roomVars, matchVars>>

\* The actor refuses the command.
CommandRefused(h) ==
    /\ At(h, "queued") /\ ~ActorIsBusy(local[h].match)
    /\ Return(h)
    /\ UNCHANGED <<roomVars, matchVars, troubles>>

\* The actor applies it and a hand is complete, perhaps the last one.
CommandApplied(h) ==
    LET m == local[h].match
        a == local[h].me
        left == match[m].players \ (IF local[h].quits THEN {a} ELSE {})
    IN  /\ At(h, "queued") /\ ~ActorIsBusy(m)
        /\ ~match[m].over
        /\ a \in match[m].players \cup {None}
        /\ \E ends \in BOOLEAN:
             /\ Cardinality(left) < 2 => ends
             /\ match' = [match EXCEPT ![m].players = left, ![m].over = ends]
             /\ local' = [local EXCEPT ![h].wait = "applied", ![h].ends = ends]
        /\ UNCHANGED <<roomVars, byRoom, byId, matchRow, troubles>>

(***************************************************************************)
(* _handle_match_result                                                    *)
(***************************************************************************)

\* The room of the match may be gone.
ResultTaken(h) ==
    /\ At(h, "applied")
    /\ IF Here THEN Goto(h, "persist") ELSE Return(h)
    /\ UNCHANGED <<roomVars, matchVars, troubles>>

\* _persist_completed_hand: one transaction.  The hand needs the match's row, and
\* complete_match an active one.  After a failure game:quit will not go on.
HandPersisted(h) ==
    LET m == local[h].match
        fits == matchRow[m] # "none" /\ (local[h].ends => matchRow[m] = "active")
    IN  /\ At(h, "persist")
        /\ \/ /\ fits
              /\ matchRow' = [matchRow EXCEPT ![m] = IF local[h].ends THEN "complete" ELSE @]
              /\ Goto(h, "settle")
              /\ UNCHANGED troubles
           \/ /\ (~fits /\ UNCHANGED troubles) \/ Hits("database")
              /\ local' = [local EXCEPT ![h].wait = "void", ![h].quits = FALSE]
              /\ UNCHANGED matchRow
        /\ UNCHANGED <<roomVars, byRoom, byId, match>>

\* _void_persistence_failure, then the match is removed.
ResultVoids(h) ==
    /\ At(h, "void")
    /\ VoidsRow(local[h].match)
    /\ Remove(local[h].match)
    /\ Goto(h, "closing")
    /\ UNCHANGED <<roomVars, match>>

\* The hand and the snapshots are broadcast.
ResultSettles(h) ==
    /\ At(h, "settle")
    /\ IF local[h].ends
         THEN Remove(local[h].match) /\ Goto(h, "closing")
         ELSE /\ UNCHANGED <<byRoom, byId>>
              /\ IF local[h].quits THEN Goto(h, "quit") ELSE Return(h)
    /\ UNCHANGED <<roomVars, match, matchRow, troubles>>

\* reset_waiting_state once the actor is closed; it raises without a room.
ResultCloses(h) ==
    /\ At(h, "closing")
    /\ CloseReturns(h)
    /\ IF Here THEN Update(Reset(Runtime)) /\ Goto(h, "reopen")
               ELSE Return(h) /\ UNCHANGED heap
    /\ UNCHANGED <<row, current, matchVars, troubles>>

\* Fault: a quit does not open the room again.
ResultReopensLater(h) ==
    /\ At(h, "reopen")
    /\ \/ /\ IF local[h].quits THEN UNCHANGED row /\ Goto(h, "quit")
                               ELSE SetStatus("waiting") /\ Return(h)
          /\ UNCHANGED troubles
       \/ DatabaseFails(h) /\ UNCHANGED row
    /\ UNCHANGED <<heap, current, matchVars>>

\* _set_room_status(WAITING)
ResultReopens(h) ==
    /\ At(h, "reopen")
    /\ \/ /\ SetStatus("waiting")
          /\ IF local[h].quits THEN Goto(h, "quit") ELSE Return(h)
          /\ UNCHANGED troubles
       \/ DatabaseFails(h) /\ UNCHANGED row
    /\ UNCHANGED <<heap, current, matchVars>>

\* game:quit goes on: the player leaves the room, in which he may be the last or
\* already play the next match, and the host of the object he saw first is written.
QuitLeaves(h) ==
    /\ At(h, "quit")
    /\ IF IsMember(local[h].me)
         THEN LET after == [heap EXCEPT ![current] = Left(@, local[h].me)]
              IN  heap' = after /\ Begin(h, "host", [me |-> after[local[h].room].host])
         ELSE UNCHANGED heap /\ Return(h)
    /\ Overtaken(Plays(local[h].me))
    /\ UNCHANGED <<row, current, matchVars>>

(***************************************************************************)
(* close_room_admin                                                        *)
(***************************************************************************)
AdminCloses(h) ==
    /\ At(h, "idle")
    /\ row.status # "closed"
    /\ Hits("admin")
    /\ SetStatus("closed")
    /\ Begin(h, "admin", [me |-> None])
    /\ UNCHANGED <<heap, current, matchVars>>

AdminRemoves(h) ==
    /\ At(h, "admin")
    /\ IF Here /\ byRoom # None
         THEN Remove(byRoom) /\ Begin(h, "adminclosing", [match |-> byRoom])
              /\ UNCHANGED current
         ELSE current' = None /\ Return(h) /\ UNCHANGED <<byRoom, byId>>
    /\ UNCHANGED <<row, heap, match, matchRow, troubles>>

AdminClosed(h) ==
    /\ At(h, "adminclosing")
    /\ CloseReturns(h)
    /\ current' = None
    /\ Return(h)
    /\ UNCHANGED <<row, heap, matchVars, troubles>>

(***************************************************************************)
(* The process ends and starts again: main.py voids the active matches.    *)
(***************************************************************************)
\* Fault: the rows of the matches stay as they were.
RestartForgets ==
    /\ "restart" \notin troubles
    /\ Hits("restart")
    /\ current' = None
    /\ byRoom' = None
    /\ byId' = {}
    /\ local' = [h \in Handlers |-> Idle]
    /\ UNCHANGED <<row, heap, match, matchRow>>

Restart ==
    /\ "restart" \notin troubles
    /\ Hits("restart")
    /\ current' = None
    /\ byRoom' = None
    /\ byId' = {}
    /\ local' = [h \in Handlers |-> Idle]
    /\ matchRow' = [m \in DOMAIN matchRow |->
                      IF matchRow[m] = "active" THEN "void" ELSE matchRow[m]]
    /\ UNCHANGED <<row, heap, match>>

-----------------------------------------------------------------------------

\* create_room has inserted the row.
Init ==
    /\ \E a \in Accounts: row = [status |-> "waiting", host |-> a]
    /\ heap = <<>>
    /\ current = None
    /\ byRoom = None
    /\ byId = {}
    /\ match = <<>>
    /\ matchRow = <<>>
    /\ local = [h \in Handlers |-> Idle]
    /\ troubles = {}

Requests(h) ==
    \/ \E a \in Accounts: RoomJoin(h, a) \/ RoomLeave(h, a) \/ RoomStart(h, a)
    \/ \E a, b \in Accounts: RoomKick(h, a, b)
    \/ \E m \in DOMAIN match: TimerCommand(h, m)
    \/ \E m \in DOMAIN match, a \in Accounts, quits \in BOOLEAN: GameCommand(h, a, m, quits)
    \/ AdminCloses(h)

\* A handler that waits goes on.
Continues(h) ==
    \/ RoomJoinEnters(h)
    \/ RoomLeaveCloses(h) \/ RoomLeaveRemoves(h) \/ SetRoomHost(h)
    \/ RoomKickLeaves(h)
    \/ RoomStartChecks(h) \/ RoomStartAdds(h) \/ RoomStartInserts(h)
    \/ RoomStartActivates(h) \/ RoomStartVoids(h) \/ RoomStartAborted(h)
    \/ CommandRefused(h) \/ CommandApplied(h)
    \/ ResultTaken(h) \/ HandPersisted(h) \/ ResultVoids(h) \/ ResultSettles(h)
    \/ ResultCloses(h) \/ ResultReopens(h) \/ QuitLeaves(h)
    \/ AdminRemoves(h) \/ AdminClosed(h)

Next ==
    \/ \E h \in Handlers: Requests(h) \/ Continues(h)
    \/ \E a \in Accounts, ready \in BOOLEAN: RoomReady(a, ready)
    \/ Restart

Spec == Init /\ [][Next]_vars

-----------------------------------------------------------------------------
(***************************************************************************)
(* Properties.                                                             *)
(***************************************************************************)

Quiet == \A h \in Handlers: At(h, "idle")

\* A host who is a member of the room is followed, when he leaves, by a member of
\* the room, whoever joined, left or was kicked in between (RoomRegistry.leave).
HostStays ==
    [][(Here /\ current' = current /\ Runtime.host \in Members(Runtime))
         => heap'[current].host \in Members(heap'[current]) \/ heap'[current].members = <<>>]_vars

\* A handler that closes an actor, or whose command waits behind the result
\* the actor is handling.
Blocked(h) ==
    \/ local[h].wait \in {"aborted", "closing", "adminclosing"} /\ ~CloseReturns(h)
    \/ At(h, "queued") /\ ActorIsBusy(local[h].match)

\* Handlers never wait for each other in a circle: close knows the actor's own
\* task (MatchActor.close), and an actor closed twice still comes to its end.
SomebodyGoesOn ==
    (\E h \in Handlers: Blocked(h)) => \E h \in Handlers: ~At(h, "idle") /\ ~Blocked(h)

\* When no handler is under way and nothing went wrong, a room whose row is
\* active has a match: players can act, and the room will be opened again.
ActiveRoomHasMatch ==
    (troubles = {} /\ Quiet /\ row.status = "active") => byRoom # None

\* Both indexes of the MatchRegistry agree: the room has one match at most, though
\* two room:start may pass the checks together.
OneMatch == troubles \subseteq {"restart"} => byId \subseteq {byRoom}

\* A match in the registry has its room: no leave removes the runtime
\* _handle_match_result needs, unless a kick or an earlier quit takes a player
\* out of his match.
MatchHasRoom == (troubles \subseteq {"restart"} /\ byId # {}) => Here

\* The rows tell what became of the matches: an active one is running, and of
\* one that is over the result was written, unless the restart voided it.
RowsTellOutcome ==
    (troubles \subseteq {"restart"} /\ Quiet) => \A m \in DOMAIN match:
        /\ matchRow[m] = "active" => m \in byId
        /\ match[m].over => matchRow[m] \in {"complete"} \cup (IF troubles = {} THEN {} ELSE {"void"})
=============================================================================

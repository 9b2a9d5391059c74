------------------------------- MODULE RoomPage -------------------------------
(***************************************************************************)
(* How one user of a browser tab gets into a room, through its waiting     *)
(* room and matches, and out again: pages/Lobby.tsx, RoomContainer.tsx,    *)
(* WaitingRoom.tsx and the leave, quit and result parts of PokerTable.tsx, *)
(* over the room part of store/game.ts, with the server handlers they      *)
(* call.  Another player of the room acts too.  Snapshots of the game,     *)
(* retries of commands and a second tab are in ClientStore.                *)
(*                                                                         *)
(* A request of the tab is a record: what it asks, which code waits for    *)
(* its acknowledgement (the page's effect, the password form, the store    *)
(* after a reconnect, the page's cleanup, a button), and in which visit of *)
(* the page it was made; the effect of the page runs anew in every visit.  *)
(***************************************************************************)
EXTENDS Integers, Sequences, FiniteSets

CONSTANTS
    None, Me, Other,
    Forms,        \* what is typed into the form that creates a room
    MaxVisits,    \* runs of the page's effect
    MaxTroubles,  \* lost connections, late answers, kicks and closed rooms
    MaxMatches,   \* matches of the room
    MaxDown       \* events on the way to the tab

\* What the tab is told of a room.
Snapshots == [phase: {"none", "waiting", "active", "closed"}, members: SUBSET {Me, Other},
              host: {Me, Other}, ready: SUBSET {Me, Other}]

ASSUME RoomPageAssumption ==
    /\ Me # Other /\ None \notin Snapshots
    /\ {MaxVisits, MaxTroubles, MaxMatches, MaxDown} \subseteq Nat
    /\ Forms \subseteq [players: Int, chips: Int, small: Int, big: Int, ante: Int, increase: Int,
                       timed: BOOLEAN, time: Int, fixed: BOOLEAN, hands: Int, locked: BOOLEAN]

VARIABLES
    srv,       \* the room: phase, members, host, ready members, password, matches
    up,        \* requests not handled yet
    answers,   \* acknowledgements of joins that are still stored and broadcast
    down,      \* events on the way to the tab
    conn,      \* the socket is connected
    held,      \* commands that wait for the connection
    asks,      \* requests whose acknowledgement is awaited
    view,      \* the route: lobby or room
    visit,     \* the effect's run; a result for an earlier one is not active
    mounted,   \* the run in which the page was mounted
    joined,    \* joinedRoomRef is set
    loading, pw, err,   \* loading, passwordRequired, errorMsg
    room,      \* currentRoom
    overlay,   \* matchSettled
    refused,   \* the rules the server refused last
    troubles,
    lapses     \* known ways to lose track that happened (history): "member", the
               \* user may stay a member; "shown", the page may show another
               \* room state than the server's; "hung", a form waits for ever

page  == <<view, visit, mounted, joined, loading, pw, err>>
store == <<room, overlay>>
net   == <<conn, held, asks>>
vars  == <<srv, up, answers, down, net, page, store, refused, troubles, lapses>>

Snapshot(s) == [phase |-> s.phase, members |-> s.members, host |-> s.host, ready |-> s.ready]

Room(s)         == [k |-> "room", room |-> Snapshot(s)]
Kicked          == [k |-> "kicked"]
Over            == [k |-> "over"]
Ack(r, why, s)  == [k |-> "ack", r |-> r, why |-> why,
                    room |-> IF r.k = "join" /\ why = "ok" THEN Snapshot(s) ELSE None]

Req(what, by, n) == [k |-> what, by |-> by, visit |-> n, behind |-> FALSE]
\* A leave reads nothing before it takes effect; a join loads the room first,
\* so it is handled after the leaves sent before it.
Behind(r) == [r EXCEPT !.behind = TRUE]

-----------------------------------------------------------------------------
(* Creating a room.                                                        *)

\* The number fields: nothing, or zero, is the field's default.
OrElse(n, default) == IF n = 0 THEN default ELSE n
Entered(f) ==
    [f EXCEPT !.players = OrElse(@, 8), !.chips = OrElse(@, 1000), !.time = OrElse(@, 30),
              !.small = OrElse(@, 10), !.big = OrElse(@, 20), !.increase = OrElse(@, 10),
              !.hands = OrElse(@, 50)]

\* The most that the fields take: chips and big blind, small blind and ante.
MostChips == 100000
MostSmall == 50000

\* Fault: the upper limit of the players is not checked.
FormAcceptsMorePlayers(f) ==
    /\ f.players >= 2
    /\ f.chips \in 100..MostChips /\ f.increase \in 5..100 /\ f.ante \in 0..MostSmall
    /\ f.small \in 1..MostSmall /\ f.big \in 2..MostChips /\ f.big >= 2 * f.small
    /\ f.timed => f.time \in 10..300
\* handleCreateSubmit: what the page lets through.
FormAccepts(f) ==
    /\ f.players \in 2..8
    /\ f.chips \in 100..MostChips /\ f.increase \in 5..100 /\ f.ante \in 0..MostSmall
    /\ f.small \in 1..MostSmall /\ f.big \in 2..MostChips /\ f.big >= 2 * f.small
    /\ f.timed => f.time \in 10..300

\* The rules that are sent: the fields of modes that are not chosen are not.
Rules(f) ==
    [players |-> f.players, chips |-> f.chips, small |-> f.small, big |-> f.big,
     ante |-> f.ante, increase |-> f.increase,
     hands |-> IF f.fixed THEN f.hands ELSE None, time |-> IF f.timed THEN f.time ELSE None]

\* RoomRules: what the server takes.
ServerAccepts(r) ==
    /\ r.players \in 2..8 /\ r.chips >= 100 /\ r.increase \in 2..20
    /\ r.small >= 1 /\ r.big = 2 * r.small /\ r.ante = 0
    /\ r.hands # None => r.hands \in 5..20
    /\ r.time # None => r.time >= 1

NewRoom(phase, members, host, locked) ==
    [phase |-> phase, members |-> members, host |-> host, ready |-> {},
     locked |-> locked, matches |-> 0]

Init ==
    /\ \/ srv = NewRoom("none", {}, Me, FALSE)
       \/ \E locked \in BOOLEAN : srv = NewRoom("waiting", {Other}, Other, locked)
    /\ up = {} /\ answers = {} /\ down = <<>>
    /\ conn = TRUE /\ held = {} /\ asks = {} /\ troubles = 0
    /\ view = "lobby" /\ visit = 0 /\ mounted = 0
    /\ joined = FALSE /\ loading = FALSE /\ pw = FALSE /\ err = FALSE
    /\ room = None /\ overlay = FALSE
    /\ refused = None /\ lapses = {}

-----------------------------------------------------------------------------
(* Requests.                                                               *)

\* runCommand and joinRoom wait for the connection, then emit.
Send(rs) ==
    /\ asks' = asks \cup rs
    /\ IF conn THEN up' = up \cup rs /\ UNCHANGED held
               ELSE held' = held \cup rs /\ UNCHANGED up

\* Events reach the tab while it is connected.
Emit(es) ==
    /\ Len(down) + Len(es) <= MaxDown
    /\ down' = IF conn THEN down \o es ELSE down

\* Those for the room, or for the member itself, reach it only in the room.
EmitToMember(es) == Emit(IF Me \in srv.members THEN es ELSE <<>>)

Reset == room' = None /\ overlay' = FALSE

Trouble == troubles < MaxTroubles /\ troubles' = troubles + 1

Lapse(is, names) == lapses' = IF is THEN lapses \cup names ELSE lapses

-----------------------------------------------------------------------------
(* Into the room page.                                                     *)

\* attemptJoin in the visit that begins; the store is emptied first.
Attempt(rs) ==
    /\ visit < MaxVisits /\ visit' = visit + 1
    /\ loading' = TRUE /\ err' = FALSE /\ joined' = FALSE
    /\ Reset
    /\ Send(rs \cup {IF rs = {} /\ \A r \in up \cup held : r.k # "leave"
                     THEN Req("join", "page", visit + 1)
                     ELSE Behind(Req("join", "page", visit + 1))})

Mount ==
    /\ view = "lobby" /\ view' = "room"
    /\ mounted' = visit + 1 /\ pw' = FALSE
    /\ Attempt({})

\* A card of the lobby, or the address.
OpenRoom ==
    /\ srv.phase # "none"
    /\ Mount
    /\ UNCHANGED <<srv, answers, down, conn, troubles, refused, lapses>>

\* The form; what the server takes becomes a room of the user, opened at once.
CreateRoom ==
    /\ view = "lobby" /\ srv.phase = "none"
    /\ \E f \in {Entered(typed) : typed \in Forms} :
        /\ FormAccepts(f)
        /\ IF ServerAccepts(Rules(f))
           THEN /\ srv' = NewRoom("waiting", {}, Me, f.locked)
                /\ refused' = None
                /\ Mount
           ELSE /\ refused' = Rules(f)
                /\ UNCHANGED <<srv, up, held, asks, page, store>>
    /\ UNCHANGED <<answers, down, conn, troubles, lapses>>

\* The effect's cleanup: what was joined, and is still shown, is left.
CleanupRequests == IF joined /\ room # None THEN {Req("leave", "cleanup", visit)} ELSE {}

Joining == \E r \in asks : r.k = "join" /\ r.by = "page" /\ r.visit = visit

\* A member whose page or store does not know it, and who leaves the page.
Untold == Me \in srv.members /\ joined # (room # None) /\ ~Joining

\* The user navigates away.
LeavePage ==
    /\ view = "room" /\ view' = "lobby"
    /\ Send(CleanupRequests)
    /\ joined' = FALSE /\ loading' = FALSE /\ pw' = FALSE /\ err' = FALSE
    /\ Lapse(Untold, {"member"})
    /\ UNCHANGED <<srv, answers, down, conn, troubles, visit, mounted, store, refused>>

\* The texts are dependencies of the effect: a new language leaves the room
\* and joins it again.
\* Bound: not while the password form is in use.
ChangeLanguage ==
    /\ view = "room" /\ ~pw /\ \A r \in asks : r.by # "form"
    /\ Attempt(CleanupRequests)
    /\ Lapse(Untold, {"member"})
    /\ UNCHANGED <<srv, answers, down, conn, troubles, view, mounted, pw, refused>>

\* handlePasswordSubmit.
SubmitPassword ==
    /\ view = "room" /\ pw /\ ~loading
    /\ Req("join", "form", visit) \notin asks \cup up
    /\ loading' = TRUE /\ err' = FALSE
    /\ Reset
    /\ Send({Req("join", "form", visit)})
    /\ UNCHANGED <<srv, answers, down, conn, troubles, view, visit, mounted, joined, pw,
                   refused, lapses>>

-----------------------------------------------------------------------------
(* In the room.                                                            *)

Screen ==
    CASE view = "lobby"                -> "lobby"
      [] view = "room" /\ pw           -> "password"
      [] view = "room" /\ ~pw /\ loading /\ room = None         -> "loading"
      [] view = "room" /\ ~pw /\ ~loading /\ err /\ room = None -> "error"
      [] OTHER -> IF overlay \/ (room # None /\ room.phase = "active") THEN "table"
                  ELSE IF room # None THEN "waiting" ELSE "blank"

\* Acknowledgements on the way; a click is not repeated while one is.
Acknowledged == {down[i].r : i \in {i \in 1..Len(down) : down[i].k = "ack"}}

Click(r) ==
    /\ r \notin asks \cup up \cup {a.r : a \in answers} \cup Acknowledged
    /\ Send({r})
    /\ UNCHANGED <<srv, answers, down, conn, troubles, page, store, refused, lapses>>

Leaving  == Req("leave", "button", visit) \in asks
Quitting == Req("quit", "button", visit) \in asks

\* handleLeave of the waiting room, of the table and of its result.
ClickLeave ==
    /\ Screen \in {"waiting", "table"} /\ ~Leaving /\ ~Quitting
    /\ Click(Req("leave", "button", visit))

\* handleQuit; the result covers the button.
ClickQuit ==
    /\ Screen = "table" /\ ~overlay /\ ~Leaving /\ ~Quitting
    /\ Click(Req("quit", "button", visit))

-----------------------------------------------------------------------------
(* The server.                                                             *)

\* A member leaves: the next one hosts, the last one closes the room.
Without(s, who) ==
    [s EXCEPT !.members = @ \ {who}, !.ready = @ \ {who},
              !.host = IF @ = who /\ s.members # {who}
                       THEN CHOOSE p \in s.members \ {who} : TRUE ELSE @,
              !.phase = IF s.members = {who} THEN "closed" ELSE @]

\* What a request of the tab is told, if anybody still waits for it.
Answer(r, why)      == IF r \in asks THEN <<Ack(r, why, srv')>> ELSE <<>>
Handled(r)          == up' = up \ {r}
ServerOnly          == UNCHANGED <<net, page, store, refused, troubles, lapses>>

\* The answer to a join that the user has left since, or was kicked from, tells
\* the tab of a room he is not in.
Overtakes(s) == Lapse(Me \in srv.members \ s.members /\ \E a \in answers : a.r.k = "join",
                      {"shown"})
\* A leave that is handled before a join sent earlier is undone by it.
Overtaken(r, s) ==
    LET joins == \E j \in up : j.k = "join"
        told  == \E a \in answers : a.r.k = "join"
    IN lapses' = lapses \cup (IF Me \in srv.members \ s.members /\ told THEN {"shown"} ELSE {})
                       \cup (IF r.by = "button" /\ joins THEN {"member"} ELSE {})

\* room:join: a member gets back into a running match, but into a waiting room
\* only with its password.
JoinRefused(r) ==
    CASE srv.phase = "closed"                           -> "closed"
      [] srv.phase = "active" /\ Me \notin srv.members  -> "active"
      [] srv.phase = "waiting" /\ srv.locked /\ r.by # "form" -> "password"
      [] OTHER -> "no"

HandleJoin ==
    /\ \E r \in up :
        /\ r.k = "join" /\ (r.behind => \A s \in up : s.k # "leave" \/ s.visit = r.visit)
        /\ Handled(r)
        /\ \/ /\ JoinRefused(r) = "no"
              /\ srv' = [srv EXCEPT !.members = @ \cup {Me}]
              /\ Emit(<<Room(srv')>>)
              /\ answers' = answers \cup (IF r \in asks THEN {Ack(r, "ok", srv')} ELSE {})
           \/ /\ JoinRefused(r) # "no" \/ (r.by = "form" /\ srv.phase = "waiting" /\ srv.locked)
              /\ UNCHANGED <<srv, answers>>
              /\ Emit(Answer(r, IF JoinRefused(r) = "no" THEN "password" ELSE JoinRefused(r)))
    /\ ServerOnly

\* room:leave: refused during a match; the last member closes the room.
\* Bound: its answer is not overtaken by what happens after it.
HandleLeave(by, n) ==
    /\ \E r \in up :
        /\ r.k = "leave" /\ r.by = by /\ r.visit = n
        /\ Handled(r)
        /\ IF srv.phase = "waiting" /\ Me \in srv.members
           THEN srv' = Without(srv, Me) /\ Emit(Answer(r, "ok"))
           ELSE /\ UNCHANGED srv
                /\ Emit(Answer(r, IF srv.phase = "active" THEN "active" ELSE "gone"))
        /\ Overtaken(r, srv')
    /\ UNCHANGED <<answers, net, page, store, refused, troubles>>

\* Bound: what is not a race with joining and leaving happens while nothing is
\* on its way, and a match lasts until the tab has heard of it.
CaughtUp == down = <<>> /\ answers = {} /\ up = {}

CanStart(who) ==
    /\ srv.phase = "waiting" /\ srv.host = who
    /\ srv.members = {Me, Other} /\ srv.ready = srv.members
    /\ srv.matches < MaxMatches

Started == [srv EXCEPT !.phase = "active", !.matches = @ + 1]

\* Ready, start and kick by the user: nobody waits for the answer, so the click
\* and the handler are one step; what the handler refuses changes nothing.
Command(s) ==
    /\ conn /\ CaughtUp /\ Screen = "waiting" /\ srv.phase = "waiting" /\ Me \in srv.members
    /\ srv' = s /\ Emit(<<Room(s)>>)
    /\ UNCHANGED <<up, answers>> /\ ServerOnly

ClickReady == Command([srv EXCEPT !.ready = IF Me \in room.ready THEN @ \ {Me} ELSE @ \cup {Me}])

ClickStart ==
    /\ room # None /\ room.host = Me /\ Cardinality(room.members) >= 2 /\ room.ready = room.members
    /\ CanStart(Me) /\ Command(Started)

ClickKick ==
    /\ room # None /\ room.host = Me /\ Other \in room.members
    /\ srv.host = Me /\ Other \in srv.members
    /\ Command(Without(srv, Other))

\* Fault: the members of the last match are still ready.
OpenedReady(s) == [s EXCEPT !.phase = "waiting"]
\* A match of two ends: reset_waiting_state and the room is open again.
Opened(s) == [s EXCEPT !.phase = "waiting", !.ready = {}]

\* game:quit by the user: the match is over, then the user leaves.
HandleQuit ==
    /\ \E r \in up :
        /\ r.k = "quit"
        /\ Handled(r)
        /\ IF srv.phase = "active" /\ Me \in srv.members
           THEN /\ srv' = Without(Opened(srv), Me)
                /\ Emit(<<Over, Room(Opened(srv))>> \o Answer(r, "ok"))
           ELSE /\ UNCHANGED srv
                /\ Emit(Answer(r, "gone"))
        /\ Overtaken(r, srv')
    /\ UNCHANGED <<answers, net, page, store, refused, troubles>>

\* The last step of a join: the acknowledgement, after it was stored and
\* broadcast.
Answered ==
    /\ \E a \in answers :
        /\ answers' = answers \ {a}
        /\ Emit(<<a>>)
    /\ UNCHANGED <<srv, up>> /\ ServerOnly

\* What the other player and the administrator do.
Elsewhere(s, es) ==
    /\ srv' = s /\ EmitToMember(es)
    /\ Overtakes(s)
    /\ UNCHANGED <<up, answers, net, page, store, refused>>

OtherActs ==
    /\ srv.phase = "waiting" /\ CaughtUp
    /\ \/ LET s == [srv EXCEPT !.members = @ \cup {Other}]
          IN Other \notin srv.members /\ Elsewhere(s, <<Room(s)>>)
       \/ Other \in srv.members /\ Elsewhere(Without(srv, Other), <<Room(Without(srv, Other))>>)
       \/ LET s == [srv EXCEPT !.ready = @ \cup {Other}]
          IN Other \in srv.members \ srv.ready /\ Elsewhere(s, <<Room(s)>>)
       \/ CanStart(Other) /\ Elsewhere(Started, <<Room(Started)>>)
    /\ UNCHANGED troubles

\* room:kick by the other player
OtherKicks ==
    /\ srv.phase = "waiting" /\ srv.host = Other /\ {Me, Other} \subseteq srv.members
    /\ Trouble
    /\ Elsewhere(Without(srv, Me), <<Kicked>>)

MatchEnds ==
    /\ srv.phase = "active" /\ down = <<>>
    /\ Elsewhere(Opened(srv), <<Over, Room(Opened(srv))>>)
    /\ UNCHANGED troubles

OtherQuits ==
    /\ srv.phase = "active" /\ down = <<>>
    /\ LET s == Without(Opened(srv), Other)
       IN Elsewhere(s, <<Over, Room(Opened(srv)), Room(s)>>)
    /\ UNCHANGED troubles

AdminCloses ==
    /\ srv.phase \in {"waiting", "active"} /\ Trouble
    /\ Elsewhere([srv EXCEPT !.phase = "closed", !.members = {}, !.ready = {}], <<Kicked>>)

-----------------------------------------------------------------------------
(* What arrives.                                                           *)

Active(r) == view = "room" /\ r.visit = visit
Alive(r)  == view = "room" /\ r.visit >= mounted

OnRoom(s) ==
    /\ room' = s
    /\ UNCHANGED <<overlay, asks, up, held, page, lapses>>

\* Fault: a kick from a running match is taken for one from the waiting room.
OnKickedWaiting ==
    /\ IF room # None /\ room.phase = "active" THEN UNCHANGED store ELSE Reset
    /\ UNCHANGED <<asks, up, held, page, lapses>>
OnKicked ==
    /\ Reset
    /\ UNCHANGED <<asks, up, held, page, lapses>>

OnOver ==
    /\ overlay' = TRUE
    /\ UNCHANGED <<room, asks, up, held, page, lapses>>

\* Fault: a page that is gone forgets that it joined.
ForgetJoin(r) == {}
\* attemptJoin: a join that succeeds after its visit is undone.
UndoJoin(r) == IF Active(r) THEN {} ELSE {Req("leave", "cleanup", r.visit)}

\* attemptJoin after joinRoom.
PageJoined(r, ok, why) ==
    LET leave == IF ok THEN UndoJoin(r) ELSE {}
    IN /\ asks' = (asks \ {r}) \cup leave /\ up' = up \cup leave
       /\ IF Active(r)
          THEN /\ loading' = FALSE
               /\ joined' = ok
               /\ pw' = (IF ok THEN FALSE ELSE pw \/ why = "password")
               /\ err' = (~ok /\ why # "password")
          ELSE UNCHANGED <<loading, joined, pw, err>>

\* handlePasswordSubmit after joinRoom: it asks nobody whether it is active.
FormJoined(r, ok) ==
    /\ asks' = asks \ {r} /\ UNCHANGED up
    /\ IF Alive(r)
       THEN /\ loading' = FALSE /\ err' = ~ok
            /\ joined' = (joined \/ ok) /\ pw' = (pw /\ ~ok)
       ELSE UNCHANGED <<loading, joined, pw, err>>

\* The rejoin of a reconnected store: nobody looks at its result.
SocketJoined(r) == asks' = asks \ {r} /\ UNCHANGED <<up, loading, joined, pw, err>>

\* A member may be refused (a locked room asks for its password again), and the
\* form and the store join for pages that are gone.
OnJoinAck(a) ==
    LET ok == \/ a.why = "ok"
              \/ a.why = "active" /\ room # None /\ room.phase = "active"
        by == a.r.by
        ghost == \/ ~ok /\ Me \in srv.members
                 \/ ok /\ by = "form" /\ ~Active(a.r)
                 \/ ok /\ by = "socket" /\ view = "lobby"
    IN /\ room' = IF a.why = "ok" THEN a.room ELSE room
       /\ CASE by = "page"   -> PageJoined(a.r, ok, a.why)
            [] by = "form"   -> FormJoined(a.r, ok)
            [] by = "socket" -> SocketJoined(a.r)
       /\ lapses' = lapses \cup (IF ghost THEN {"member"} ELSE {})
                          \cup (IF by = "socket" /\ ~ok THEN {"shown"} ELSE {})
       /\ UNCHANGED <<overlay, held, view, visit, mounted>>

\* leaveRoom and quitMatch empty the store, whatever page shows it by now; the
\* button then navigates to the lobby, which runs the cleanup.
OnLeaveAck(a) ==
    LET wiped == a.why = "ok" /\ (room # None \/ a.r.k = "quit")
        goes  == a.why = "ok" /\ a.r.by = "button" /\ view = "room"
        shown == room # None /\ ~wiped
        leave == IF goes /\ joined /\ shown THEN {Req("leave", "cleanup", visit)} ELSE {}
    IN /\ IF wiped THEN Reset ELSE UNCHANGED store
       /\ asks' = (asks \ {a.r}) \cup leave /\ up' = up \cup leave
       /\ IF goes
          THEN /\ view' = "lobby" /\ joined' = FALSE
               /\ loading' = FALSE /\ pw' = FALSE /\ err' = FALSE
          ELSE UNCHANGED <<view, joined, loading, pw, err>>
       /\ lapses' = lapses
            \cup (IF a.why = "active" /\ a.r.by = "cleanup" THEN {"member"} ELSE {})
            \cup (IF wiped /\ a.r.visit # visit THEN {"member", "shown"} ELSE {})
       /\ UNCHANGED <<held, visit, mounted>>

Receive ==
    /\ down # <<>> /\ down' = Tail(down)
    /\ LET e == Head(down)
       IN CASE e.k = "room"   -> OnRoom(e.room)
            [] e.k = "kicked" -> OnKicked
            [] e.k = "over"   -> OnOver
            [] e.k = "ack" /\ e.r \notin asks ->
                 UNCHANGED <<asks, up, held, page, store, lapses>>
            [] e.k = "ack" /\ e.r \in asks ->
                 IF e.r.k = "join" THEN OnJoinAck(e) ELSE OnLeaveAck(e)
    /\ UNCHANGED <<srv, answers, conn, troubles, refused>>

-----------------------------------------------------------------------------
(* The connection.                                                         *)

\* Requests failed: the user may stay a member, a page may miss what came of
\* it, and the form waits for ever.
Missed(rs) ==
    lapses' = lapses \cup (IF rs = {} THEN {} ELSE IF conn' THEN {"member", "shown"} ELSE {"member"})
                     \cup (IF \E r \in rs : r.by = "form" THEN {"hung"} ELSE {})

\* Fault: the effect does not see that its join failed.
FailUnseen(rs) ==
    /\ asks' = asks \ rs
    /\ Missed(rs)
    /\ UNCHANGED <<loading, err, view, visit, mounted, joined, pw>>
\* The code that waits for these is told that they failed: the effect shows
\* the error, the form waits for ever, the others show at most a message.
Fail(rs) ==
    /\ asks' = asks \ rs
    /\ IF \E r \in rs : r.k = "join" /\ r.by = "page" /\ Active(r)
       THEN loading' = FALSE /\ err' = TRUE
       ELSE UNCHANGED <<loading, err>>
    /\ Missed(rs)
    /\ UNCHANGED <<view, visit, mounted, joined, pw>>

\* Eight seconds without an acknowledgement.
AckTimeout ==
    /\ conn /\ Trouble
    /\ UNCHANGED <<srv, up, answers, down, conn, held, store, refused>>
    /\ \E r \in asks \ held : Fail({r})

\* Eight seconds without a connection.
WaitTimeout ==
    /\ ~conn
    /\ UNCHANGED <<srv, up, answers, down, conn, troubles, store, refused>>
    /\ \E r \in held : Fail({r}) /\ held' = held \ {r}

\* What was on its way is lost, unless the server has read it.
Drop ==
    /\ conn /\ Trouble
    /\ conn' = FALSE /\ down' = <<>> /\ answers' = {}
    /\ \E read \in SUBSET up : up' = read
    /\ Fail(asks)
    /\ UNCHANGED <<srv, held, store, refused>>

\* The server rebinds a member and sends the room before the 'connect' event;
\* a tab that shows a room then joins it, and what waited is sent.  Connecting reads the
\* database too: requests read before the loss are handled by then.
Connect ==
    /\ ~conn /\ up = {} /\ conn' = TRUE
    /\ LET shows == Me \in srv.members \/ room # None
           join  == IF shows THEN {Req("join", "socket", 0)} ELSE {}
       IN /\ IF shows THEN Reset ELSE UNCHANGED store
          /\ asks' = asks \cup join
          /\ up' = up \cup held \cup join
    /\ held' = {}
    /\ UNCHANGED <<srv, answers, down, troubles, page, refused, lapses>>

Next ==
    \/ OpenRoom \/ CreateRoom \/ LeavePage \/ ChangeLanguage \/ SubmitPassword
    \/ ClickLeave \/ ClickQuit \/ ClickReady \/ ClickStart \/ ClickKick
    \/ HandleJoin \/ HandleQuit
    \/ \E by \in {"cleanup", "button"}, n \in 1..MaxVisits : HandleLeave(by, n)
    \/ Answered
    \/ OtherActs \/ OtherKicks \/ MatchEnds \/ OtherQuits \/ AdminCloses
    \/ Receive \/ AckTimeout \/ WaitTimeout \/ Drop \/ Connect

Spec == Init /\ [][Next]_vars

\* Handlers end, events arrive, timers fire and the socket keeps dialling.
Fairness ==
    /\ WF_vars(HandleJoin) /\ WF_vars(HandleQuit) /\ WF_vars(Answered)
    /\ \A by \in {"cleanup", "button"}, n \in 1..MaxVisits : WF_vars(HandleLeave(by, n))
    /\ WF_vars(Receive) /\ WF_vars(Connect)
FairSpec == Spec /\ Fairness

-----------------------------------------------------------------------------
(* Properties.                                                             *)

Quiet == conn /\ up = {} /\ answers = {} /\ down = <<>> /\ asks = {} /\ held = {}

\* Who is back in the lobby has left: a user without a page is no member of a
\* waiting room, whatever the page was doing when it was closed (joining,
\* leaving, joining again in another language).  The exceptions are known: a
\* leave refused because a match was on, a request that got no answer or no
\* connection, a leave that overlaps a join, a join by the password form that
\* is answered too late, a member refused by his own locked room, and a page
\* closed while the store did not know what it had joined.
LeavingLeaves ==
    Quiet /\ view = "lobby" /\ srv.phase = "waiting" /\ Me \in srv.members =>
        "member" \in lapses

\* The page shows a room exactly to a member of it, once nothing is under way,
\* also after a kick, a closed room, a lost connection.  The exceptions: a
\* reconnect to a locked room, which is refused without its password; an answer
\* to a join that is overtaken by a leave, a kick or the closing of the room;
\* one to a leave that comes when the room was joined again; a lost answer.
ShownIsMember ==
    Quiet /\ Screen \in {"waiting", "table", "blank"} /\ "shown" \notin lapses =>
        (room # None <=> Me \in srv.members)

\* The result of a match never covers the next one: while it is on the screen
\* the user is not ready, so no match can start with him, and none is on.
ResultCoversNoMatch ==
    overlay /\ Me \in srv.members => Me \notin srv.ready /\ (conn => srv.phase # "active")

\* A form that the page lets through is refused by the server only for what
\* the page does not ask: exactly doubled blinds, no ante, five to twenty
\* hands (the field of a fixed number begins with fifty), and blinds that rise
\* at least every twenty hands.
RefusalIsKnown ==
    refused # None =>
        \/ refused.big # 2 * refused.small \/ refused.ante # 0
        \/ refused.hands \notin {None} \cup 5..20 \/ refused.increase > 20

\* The page stops loading, unless the password form got no answer.
LoadingEnds == loading ~> ~loading \/ "hung" \in lapses
=============================================================================

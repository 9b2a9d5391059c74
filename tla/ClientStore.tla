----------------------------- MODULE ClientStore -----------------------------
(***************************************************************************)
(* The game store of one browser tab (store/game.ts over api/socket.ts)    *)
(* while its user sits in a room that plays its matches, and what the      *)
(* server does to that tab: the handlers game:action, room:join and        *)
(* game:request-snapshot, the broadcasts of the other players' actions,    *)
(* and the rebinding of a connection.                                      *)
(*                                                                         *)
(* A handler of the server that still has something to emit is the         *)
(* sequence of what is left; handlers take turns at every emission, so two *)
(* broadcasts may reach the client interleaved.  One connection keeps the   *)
(* order of what is emitted to it, so the time an event travels is counted *)
(* into the time before its emission.  A snapshot is what the merge rules *)
(* compare: its match, hand and version, and whether the user is to act.   *)
(* A private one also carries the cards, named by the hand they are of.    *)
(* The user is member 'me' of the room all along, and the database works.    *)
(***************************************************************************)
EXTENDS Integers, Sequences, FiniteSets

CONSTANTS
    None,
    MaxIds,       \* commands the user's clicks create
    MaxMatch,     \* matches played in the room
    MaxVersion,   \* versions of a match
    MaxDrops,     \* connections the tab loses
    MaxHandlers   \* server handlers at work at once

ASSUME BoundsAssumption ==
    /\ MaxMatch \in Nat \ {0} /\ MaxVersion \in Nat /\ MaxDrops \in Nat
    /\ MaxHandlers \in Nat \ {0}
    /\ MaxIds \in Nat /\ None \notin Int

Ids == 1..MaxIds

VARIABLES
    srv,        \* the match actor and the phase of its room
    applied,    \* the user's commands the actor accepted, at which version
    handlers,   \* server handlers with emissions left
    up,         \* requests on the way to the server
    drops,
    status,     \* connection status of the store; "replaced": by another tab
    dial,       \* the socket tries to connect
    room,       \* currentRoom: None, or the match of the room (0: waiting)
    pub, priv,  \* publicSnapshot, privateSnapshot
    settled,    \* handSettled
    timer,      \* the hand the settlement timer was set for
    over,       \* matchSettled
    pending,    \* pendingAction: the id of the command
    made,       \* the envelope every id was created with
    loops       \* attempt a submitAction waits for; 0: none

server == <<srv, applied, handlers>>
table  == <<pub, priv, settled, timer, over>>
vars   == <<server, up, drops, status, dial, room, table, pending, made, loops>>

Snapshot == [match : 1..MaxMatch, hand : Nat, version : 0..MaxVersion, turn : BOOLEAN]
Hand     == [match : 1..MaxMatch, hand : Nat]
HandOf(s) == [match |-> s.match, hand |-> s.hand]
PrivateSnapshot ==
    [match : 1..MaxMatch, hand : Nat, version : 0..MaxVersion, turn : BOOLEAN, cards : Nat]
ASSUME NoneAssumption == None \notin Snapshot \cup PrivateSnapshot

-----------------------------------------------------------------------------
(* What the server emits to the client.                                    *)

Room(m)      == [k |-> "room", match |-> m]
Public(s)    == [k |-> "public", s |-> s]
Private(s)   == [k |-> "private", s |-> s]
MyPrivate(s) == [k |-> "myprivate", s |-> s]
Settled(h)   == [k |-> "settled", hand |-> h]
Over(m)      == [k |-> "over", match |-> m]
Snapshots    == [k |-> "snapshots"]            \* public and private, taken when sent
MySnapshots  == [k |-> "mysnapshots"]          \* the same, for one connection
Remove       == [k |-> "remove"]               \* the match leaves the registry
Rejected(m)  == [k |-> "rejected", match |-> m]
Ack(id, n, ok)   == [k |-> "ack", id |-> id, n |-> n, ok |-> ok]
JoinAck(ok, m)   == [k |-> "joined", ok |-> ok, match |-> m]

\* Emissions addressed to a connection are lost with it; those to the room
\* or to a member reach the next one.
ForConnection(e) == e.k \in {"mysnapshots", "myprivate", "rejected", "ack", "joined"}

\* A handler answers its own connection last: this many emissions come before.
Shared(h) == Cardinality({i \in 1..Len(h) : ~ForConnection(h[i])})

Action(id, n)      == [k |-> "action", id |-> id, n |-> n]
SnapshotRequest(m) == [k |-> "snapshot", match |-> m]
Join               == [k |-> "join"]

\* The cards of a private snapshot are read when it is sent, whatever version
\* the snapshot says it is of.
Dealt(s) == [match |-> s.match, hand |-> s.hand, version |-> s.version, turn |-> s.turn,
             cards |-> srv.hand]
\* What a command says it was made for.
Envelope(s) == [match |-> s.match, hand |-> s.hand, version |-> s.version, turn |-> s.turn]

Current == [match |-> srv.match, hand |-> srv.hand, version |-> srv.version, turn |-> srv.turn]

Init ==
    /\ srv = [match |-> 1, hand |-> 1, version |-> 0, turn |-> TRUE, phase |-> "live"]
    /\ applied = {} /\ handlers = {<<Room(1), Snapshots>>}
    /\ up = {} /\ drops = 0
    /\ status = "connected" /\ dial = FALSE
    /\ room = 0
    /\ pub = None /\ priv = None /\ settled = None /\ timer = None /\ over = None
    /\ pending = None /\ made = [i \in Ids |-> None] /\ loops = [i \in Ids |-> 0]

-----------------------------------------------------------------------------
(* The server.                                                             *)

Start(h) == /\ Cardinality(handlers) < MaxHandlers
            /\ handlers' = handlers \cup ({h} \ {<<>>})

\* A command takes effect: the next decision, the next hand or the end; the
\* handler that brought it reports what happened and then answers.
Advance(answer) ==
    /\ srv.phase = "live" /\ srv.version < MaxVersion
    /\ \E turn \in BOOLEAN, outcome \in {"decision", "hand", "end"} :
        /\ outcome = "end" => srv.version + 1 = MaxVersion
        /\ srv.version + 1 = MaxVersion => ~turn
        /\ srv' = [srv EXCEPT !.version = @ + 1, !.turn = turn,
                              !.hand = IF outcome = "hand" THEN @ + 1 ELSE @,
                              !.phase = IF outcome = "end" THEN "over" ELSE @]
        /\ Start((IF outcome = "decision" THEN <<>> ELSE <<Settled(HandOf(srv))>>)
                 \o <<Snapshots>>
                 \o (IF outcome = "end" THEN <<Over(srv.match), Remove, Room(0)>> ELSE <<>>)
                 \o answer)

\* Fault: a command sent again is judged again.
KnowsNothing(c) == FALSE
\* The actor remembers the commands it applied, as long as its match is
\* registered; after that the match is not found, whoever asks.
Registered(m) == m = srv.match /\ srv.phase \in {"live", "over"}
Known(c) == c \in applied /\ Registered(c.at.match)

\* The user acts, in the state the command was made for.
Applies(c) == c.at = Current /\ srv.turn /\ srv.phase = "live"

\* game:action: replay a known command, apply a current one, reject the rest.
\* Attempt 0 came over a connection that is gone: nobody hears the answer.
HandleAction ==
    /\ \E r \in up :
        /\ r.k = "action"
        /\ up' = up \ {r}
        /\ LET c == [id |-> r.id, at |-> made[r.id]]
               answer(s) == IF r.n > 0 THEN s ELSE <<>>
           IN \/ /\ Known(c)
                 /\ Start(answer(<<Ack(r.id, r.n, TRUE)>>))
                 /\ UNCHANGED <<srv, applied>>
              \/ /\ ~Known(c) /\ Applies(c)
                 /\ applied' = applied \cup {c}
                 /\ Advance(answer(<<Ack(r.id, r.n, TRUE)>>))
              \/ /\ ~Known(c) /\ ~Applies(c)
                 /\ Start(answer(<<Rejected(c.at.match), Ack(r.id, r.n, FALSE)>>))
                 /\ UNCHANGED <<srv, applied>>
    /\ UNCHANGED <<drops, status, dial, room, table, pending, made, loops>>

\* Another player acts, or a timer acts for anybody.
OthersAct ==
    /\ Advance(<<>>)
    /\ UNCHANGED <<applied, up, drops, status, dial, room, table, pending, made, loops>>

\* game:request-snapshot: a match that is not registered is refused.
HandleSnapshotRequest ==
    /\ \E r \in up :
        /\ r.k = "snapshot"
        /\ up' = up \ {r}
        /\ IF Registered(r.match) THEN Start(<<MySnapshots>>) ELSE UNCHANGED handlers
    /\ UNCHANGED <<srv, applied, drops, status, dial, room, table, pending, made, loops>>

\* room:join by a member.  Between the removal of the match and the row's
\* return to WAITING the room is neither.
HandleJoin ==
    /\ Join \in up
    /\ up' = up \ {Join}
    /\ Start(CASE srv.phase \in {"live", "over"} ->
                    <<Room(srv.match), MySnapshots, JoinAck(TRUE, srv.match)>>
               [] srv.phase = "removed" -> <<JoinAck(FALSE, 0)>>
               [] srv.phase = "waiting" -> <<Room(0), JoinAck(TRUE, 0)>>)
    /\ UNCHANGED <<srv, applied, drops, status, dial, room, table, pending, made, loops>>

\* The members start the next match of the room: the user is one of them and
\* has to see the waiting room to be ready, which takes longer than a result
\* or a retry stays.  The others open the next match.
StartNext ==
    /\ srv.phase = "waiting" /\ srv.match < MaxMatch
    /\ status = "connected" /\ room = 0 /\ over = None
    /\ handlers = {} /\ up = {}
    /\ timer = None /\ \A id \in Ids : loops[id] = 0
    /\ srv' = [match |-> srv.match + 1, hand |-> 1, version |-> 0, turn |-> FALSE, phase |-> "live"]
    /\ Start(<<Room(srv.match + 1), Snapshots>>)
    /\ UNCHANGED <<applied, up, drops, status, dial, room, table, pending, made, loops>>

-----------------------------------------------------------------------------
(* The client: what the handlers of store/game.ts do with an event.        *)

VersionOf(s) == IF s = None THEN -1 ELSE s.version
CurrentVersion ==
    IF VersionOf(pub) > VersionOf(priv) THEN VersionOf(pub) ELSE VersionOf(priv)
CurrentMatch ==
    IF pub # None THEN pub.match ELSE IF priv # None THEN priv.match ELSE None

\* Fault: the cards of a version whose public half came first are dropped.
TakesNewer(s) == ~(CurrentMatch = s.match /\ s.version <= CurrentVersion)
\* A snapshot of the match on the table has to be at least as new as both
\* copies; one of another match is always taken.
Takes(s) == ~(CurrentMatch = s.match /\ s.version < CurrentVersion)

\* Fault: the cards stay whatever hand the public snapshot shows.
KeptPrivateAnyHand(s) == IF priv # None /\ priv.match = s.match THEN priv ELSE None
\* The cards stay with a public snapshot of the same hand only.
KeptPrivate(s) ==
    IF priv # None /\ HandOf(priv) = HandOf(s) THEN priv ELSE None

\* Fault: only an answer ends the wait.
PendingStays(s) == pending
\* A newer version of the match ends the wait for the command's effect.
PendingAfter(s) ==
    IF pending # None /\ made[pending].match = s.match /\ s.version > made[pending].version
    THEN None ELSE pending

\* The result of a hand leaves with its match.
SettledAfter(s) == IF settled # None /\ settled.match = s.match THEN settled ELSE None

Accept(s, private) ==
    IF Takes(s)
    THEN /\ pub' = s /\ priv' = private
         /\ settled' = SettledAfter(s) /\ pending' = PendingAfter(s)
    ELSE UNCHANGED <<pub, priv, settled, pending>>

OnPublic(s) ==
    /\ Accept(s, KeptPrivate(s))
    /\ UNCHANGED <<up, room, timer, over, loops>>

OnPrivate(s) ==
    /\ Accept(s, Dealt(s))
    /\ UNCHANGED <<up, room, timer, over, loops>>

OnRoom(m) ==
    /\ room' = m
    /\ up' = IF m # 0 THEN up \cup {SnapshotRequest(m)} ELSE up
    /\ UNCHANGED <<table, pending, loops>>

\* The result of a hand is shown until its timer fires; a later result takes
\* the timer over.
OnSettled(h) ==
    /\ settled' = h /\ timer' = h
    /\ UNCHANGED <<up, room, pub, priv, over, pending, loops>>

OnOver(m) ==
    /\ over' = m
    /\ UNCHANGED <<up, room, pub, priv, settled, timer, pending, loops>>

\* A rejection ends the wait, whichever command it answers.
OnRejected(m) ==
    /\ pending' = None
    /\ up' = up \cup {SnapshotRequest(m)}
    /\ UNCHANGED <<room, table, loops>>

\* The acknowledgement a loop waits for; that of an attempt it has given up
\* is dropped by the socket.
OnAck(id, n, ok) ==
    IF loops[id] = n
    THEN /\ loops' = [loops EXCEPT ![id] = 0]
         /\ pending' = IF ok THEN pending ELSE None
         /\ up' = up \cup {SnapshotRequest(made[id].match)}
         /\ UNCHANGED <<room, table>>
    ELSE UNCHANGED <<up, room, table, pending, loops>>

\* room:join is answered: the room of the answer, however old, is current.
OnJoined(ok, m) ==
    /\ room' = IF ok THEN m ELSE room
    /\ UNCHANGED <<up, table, pending, loops>>

Receive(e) ==
    CASE e.k = "public"   -> OnPublic(e.s)
      [] e.k \in {"private", "myprivate"} -> OnPrivate(e.s)
      [] e.k = "room"     -> OnRoom(e.match)
      [] e.k = "settled"  -> OnSettled(e.hand)
      [] e.k = "over"     -> OnOver(e.match)
      [] e.k = "rejected" -> OnRejected(e.match)
      [] e.k = "ack"      -> OnAck(e.id, e.n, e.ok)
      [] e.k = "joined"   -> OnJoined(e.ok, e.match)

\* One emission of one handler reaches the tab, if it is connected.  The state
\* of both snapshots is taken with the public one; the private one follows,
\* with the cards of that later moment.
Emit ==
    \E h \in handlers :
        LET e     == Head(h)
            taken == e.k \in {"snapshots", "mysnapshots"}
            rest  == CASE e = Snapshots   -> <<Private(Current)>> \o Tail(h)
                       [] e = MySnapshots -> <<MyPrivate(Current)>> \o Tail(h)
                       [] OTHER           -> Tail(h)
        IN /\ handlers' = (handlers \ {h}) \cup ({rest} \ {<<>>})
           /\ srv' = [srv EXCEPT !.phase = CASE e = Remove  -> "removed"
                                             [] e = Room(0) -> "waiting"
                                             [] OTHER       -> @]
           /\ IF status = "connected" /\ e # Remove
              THEN Receive(IF taken THEN Public(Current) ELSE e)
              ELSE UNCHANGED <<up, room, table, pending, loops>>
           /\ UNCHANGED <<applied, drops, status, dial, made>>

\* HAND_SETTLEMENT_DISPLAY_MS after the last result.
SettlementTimer ==
    /\ timer # None /\ timer' = None
    /\ settled' = IF settled = timer THEN None ELSE settled
    /\ UNCHANGED <<server, up, drops, status, dial, room, pub, priv, over,
                   pending, made, loops>>

-----------------------------------------------------------------------------
(* Commands.                                                               *)

\* The action bar: the user is to act and holds the cards of this version.
ActionBar == /\ pub # None /\ pub.turn
             /\ priv # None /\ HandOf(priv) = HandOf(pub) /\ priv.version = pub.version

\* createCommandId never repeats an id.
IsFresh(id) == made[id] = None /\ \A i \in 1..(id - 1) : made[i] # None

\* A click creates the command's id; submitAction keeps the whole envelope.
Submit ==
    /\ ActionBar /\ status = "connected" /\ pending = None /\ room # None
    /\ \E id \in Ids :
        /\ IsFresh(id)
        /\ made' = [made EXCEPT ![id] = Envelope(priv)]
        /\ pending' = id /\ loops' = [loops EXCEPT ![id] = 1]
        /\ up' = up \cup {Action(id, 1)}
    /\ UNCHANGED <<server, drops, status, dial, room, table>>

\* ACTION_RETRY_LIMIT retries after the first attempt.
Attempts == 2

\* An attempt that timed out is repeated as it was, the last is given up.
Retry(id) ==
    /\ loops' = [loops EXCEPT ![id] = @ + 1]
    /\ up' = up \cup {Action(id, loops[id] + 1)}
    /\ UNCHANGED <<made, pending>>

GiveUp(id) ==
    /\ loops' = [loops EXCEPT ![id] = 0]
    /\ pending' = None
    /\ up' = up \cup {SnapshotRequest(made[id].match)}
    /\ UNCHANGED made

\* No acknowledgement within eight seconds.
AckTimeout ==
    /\ status = "connected"
    /\ \E id \in Ids : \/ loops[id] \in 1..(Attempts - 1) /\ Retry(id)
                       \/ loops[id] = Attempts /\ GiveUp(id)
    /\ UNCHANGED <<server, drops, status, dial, room, table>>

-----------------------------------------------------------------------------
(* The connection.                                                         *)

\* Every acknowledgement still owed fails at once: its loop gives up.
Abandoned == pending' = IF \E id \in Ids : loops[id] # 0 THEN None ELSE pending

\* The connection breaks, or another tab of the account takes it over.  What
\* is on the way is lost; a command the server has read may still be applied.
\* Only a lost connection is dialled again by the socket, but a loop that
\* gives up asks for a snapshot, and that dials too.
Drop ==
    /\ status = "connected" /\ drops < MaxDrops /\ drops' = drops + 1
    /\ status' \in {"disconnected", "replaced"}
    /\ dial' = (status' = "disconnected" \/ \E id \in Ids : loops[id] # 0)
    /\ Abandoned
    /\ loops' = [id \in Ids |-> 0]
    /\ \E read \in SUBSET {r \in up : r.k = "action"} :
        up' = {[r EXCEPT !.n = 0] : r \in read}
    /\ handlers' = {SubSeq(h, 1, Shared(h)) : h \in handlers} \ {<<>>}
    /\ UNCHANGED <<srv, applied, room, table, made>>

\* A command of the user (a chat message, a leave) dials as well.
UserDials ==
    /\ status # "connected" /\ ~dial /\ room # None
    /\ dial' = TRUE
    /\ UNCHANGED <<server, up, drops, status, room, table, pending, made, loops>>

\* resetTransientState, as joinRoom starts.
Reset ==
    /\ room' = None /\ pub' = None /\ priv' = None /\ settled' = None /\ over' = None
    /\ pending' = None /\ UNCHANGED timer

\* The server binds the member to the connection and sends the room, which is
\* delivered before the 'connect' event; that joins the room again.
Connect ==
    /\ status # "connected" /\ dial
    /\ status' = "connected" /\ dial' = FALSE
    /\ Reset
    /\ up' = up \cup {Join} \cup
             (IF srv.phase \in {"live", "over"} THEN {SnapshotRequest(srv.match)} ELSE {})
    /\ UNCHANGED <<server, drops, made, loops>>

Next ==
    \/ HandleAction \/ OthersAct \/ HandleSnapshotRequest \/ HandleJoin \/ StartNext
    \/ Emit \/ SettlementTimer
    \/ Submit \/ AckTimeout
    \/ Drop \/ UserDials \/ Connect

Spec == Init /\ [][Next]_vars

\* Tasks of the event loop run, timers fire, events arrive and the socket
\* keeps dialling; nothing is assumed of users or of the network's failures.
Fairness ==
    /\ WF_vars(HandleAction) /\ WF_vars(HandleSnapshotRequest) /\ WF_vars(HandleJoin)
    /\ WF_vars(Emit) /\ WF_vars(SettlementTimer) /\ WF_vars(AckTimeout)
    /\ WF_vars(Connect)
FairSpec == Spec /\ Fairness

-----------------------------------------------------------------------------
(* Properties.                                                             *)

TypeOK ==
    /\ srv \in [match : 1..MaxMatch, hand : Nat, version : 0..MaxVersion, turn : BOOLEAN,
                phase : {"live", "over", "removed", "waiting"}]
    /\ status \in {"connected", "disconnected", "replaced"} /\ dial \in BOOLEAN
    /\ drops \in 0..MaxDrops
    /\ room \in 0..MaxMatch \cup {None}
    /\ pub \in Snapshot \cup {None} /\ priv \in PrivateSnapshot \cup {None}
    /\ settled \in Hand \cup {None} /\ timer \in Hand \cup {None}
    /\ over \in 1..MaxMatch \cup {None}
    /\ pending \in Ids \cup {None}
    /\ made \in [Ids -> Snapshot \cup {None}] /\ loops \in [Ids -> 0..Attempts]

\* The cards on the table belong to the hand on the table: whatever the order
\* in which snapshots of several hands and matches arrive, the store never
\* keeps a private snapshot beside a public one of another match or hand, nor
\* beside an older one (the merge rules of game:public-snapshot and
\* game:private-snapshot).
CardsMatchTable ==
    priv # None => /\ pub # None
                   /\ HandOf(priv) = HandOf(pub)
                   /\ priv.version <= pub.version

\* The user is told what happened: however often a submitAction sends its
\* command, over whichever connections and in whatever order the copies are
\* handled, an acknowledgement says ok exactly when the command was applied
\* (at the version the user saw, which is part of its envelope).  Only a match
\* that is gone meanwhile is "not found" for a command it had applied.
AnswersAgree ==
    \A h \in handlers : \A i \in 1..Len(h) :
        h[i].k = "ack" =>
            LET c == [id |-> h[i].id, at |-> made[h[i].id]]
            IN /\ h[i].ok => c \in applied
               /\ ~h[i].ok /\ c \in applied => ~Registered(c.at.match)

\* When nothing is under way any more, a connected tab shows the live match
\* of its room as the server has it, with the user's cards, and its buttons
\* are free.
NothingUnderWay ==
    /\ status = "connected" /\ handlers = {} /\ up = {}
    /\ \A id \in Ids : loops[id] = 0
SettledTableIsCurrent ==
    NothingUnderWay /\ srv.phase = "live" =>
        room = srv.match /\ pub = Current /\ priv = Dealt(Current) /\ pending = None

\* Within a match the table never goes back to an older version, unless it is
\* emptied in between (by the join after a reconnect).
VersionsAdvance ==
    [][pub # None /\ pub' # None /\ pub.match = pub'.match => pub'.version >= pub.version]_vars

\* The buttons come back: a pending command ends, by its effect, by a
\* rejection, by giving up, or because the tab joins again; only a tab that
\* was replaced, whose buttons are disabled anyway, may keep it.
PendingEnds == \A id \in Ids : pending = id ~> pending # id \/ status = "replaced"
=============================================================================

---------------------------- MODULE RoomPageProofs ----------------------------
(***************************************************************************)
(* Theorems about RoomPage, for every number of visits, matches, troubles  *)
(* and events under way, and for whatever is typed into the form.          *)
(***************************************************************************)
EXTENDS RoomPage, TLAPS

-----------------------------------------------------------------------------
(* The invariant: types.                                                   *)

Joins    == [k: {"join"}, by: {"page", "form", "socket"}, visit: 0..MaxVisits, behind: BOOLEAN]
Cleanups == [k: {"leave"}, by: {"cleanup"}, visit: 0..MaxVisits, behind: BOOLEAN]
Buttons  == [k: {"leave", "quit"}, by: {"button"}, visit: 0..MaxVisits, behind: BOOLEAN]
Requests == Joins \cup Cleanups \cup Buttons

Oks  == [k: {"ack"}, r: Joins, why: {"ok"}, room: Snapshots]
Acks == Oks \cup [k: {"ack"}, r: Joins, why: {"closed", "active", "password"}, room: {None}]
            \cup [k: {"ack"}, r: Cleanups \cup Buttons, why: {"ok", "active", "gone"}, room: {None}]
Events == Acks \cup [k: {"room"}, room: Snapshots] \cup {Kicked, Over}

Rooms == [phase: {"none", "waiting", "active", "closed"}, members: SUBSET {Me, Other},
          host: {Me, Other}, ready: SUBSET {Me, Other}, locked: BOOLEAN, matches: Nat]

NetTyped ==
    /\ srv \in Rooms
    /\ up \subseteq Requests /\ held \subseteq Requests /\ asks \subseteq Requests
    /\ answers \subseteq Oks /\ down \in Seq(Events) /\ conn \in BOOLEAN

PageTyped ==
    /\ view \in {"lobby", "room"} /\ visit \in 0..MaxVisits /\ mounted \in Nat
    /\ joined \in BOOLEAN /\ loading \in BOOLEAN /\ pw \in BOOLEAN /\ err \in BOOLEAN
    /\ room \in Snapshots \cup {None} /\ overlay \in BOOLEAN
    /\ lapses \subseteq {"member", "shown", "hung"}

TypeInv == NetTyped /\ PageTyped

-----------------------------------------------------------------------------
(* Facts about what the model is built from.                               *)

LEMMA RequestTyped ==
    ASSUME NEW n \in 0..MaxVisits
    PROVE  /\ \A by \in {"page", "form", "socket"}: Req("join", by, n) \in Joins
           /\ Behind(Req("join", "page", n)) \in Joins
           /\ Behind(Req("join", "page", n)).by = "page" /\ Behind(Req("join", "page", n)).visit = n
           /\ Req("leave", "cleanup", n) \in Cleanups
           /\ \A k \in {"leave", "quit"}: Req(k, "button", n) \in Buttons
           /\ \A k, by: /\ Req(k, by, n).k = k /\ Req(k, by, n).by = by /\ Req(k, by, n).visit = n
                       /\ Req(k, by, n).behind = FALSE
  BY DEF Req, Behind, Joins, Cleanups, Buttons

LEMMA RoomTyped ==
    ASSUME NEW s \in Rooms
    PROVE  /\ Snapshot(s) \in Snapshots
           /\ Room(s) \in Events /\ Room(s).k = "room" /\ Room(s).room \in Snapshots
  BY DEF Rooms, Snapshot, Snapshots, Room, Events

LEMMA AckTyped ==
    ASSUME NEW s \in Rooms, NEW r, NEW why,
           \/ r \in Joins /\ why \in {"ok", "closed", "active", "password"}
           \/ r \in Cleanups \cup Buttons /\ why \in {"ok", "active", "gone"}
    PROVE  /\ Ack(r, why, s) \in Acks /\ Ack(r, why, s) \in Events
           /\ (r \in Joins /\ why = "ok") => Ack(r, why, s) \in Oks
           /\ Ack(r, why, s).k = "ack" /\ Ack(r, why, s).r = r /\ Ack(r, why, s).why = why
  <1>1. CASE r \in Joins /\ why = "ok"
    <2>1. Ack(r, why, s) \in Oks
      BY <1>1, RoomTyped DEF Ack, Oks, Joins
    <2>. QED BY <2>1, <1>1 DEF Ack, Acks, Events
  <1>2. CASE r \in Joins /\ why \in {"closed", "active", "password"}
    BY <1>2 DEF Ack, Acks, Events, Joins
  <1>3. CASE r \in Cleanups \cup Buttons /\ why \in {"ok", "active", "gone"}
    BY <1>3 DEF Ack, Acks, Events, Cleanups, Buttons, Joins
  <1>. QED BY <1>1, <1>2, <1>3

\* Kinds of requests and of acknowledgements.
LEMMA RequestKinds ==
    ASSUME NEW r \in Requests
    PROVE  /\ r.visit \in 0..MaxVisits /\ r.by \in {"page", "form", "socket", "cleanup", "button"}
           /\ (r.by \in {"page", "form", "socket"}) <=> (r.k = "join")
           /\ r.k = "join" => r \in Joins
           /\ r.k # "join" => r \in Cleanups \cup Buttons
           /\ r.by = "cleanup" => r.k = "leave"
  BY DEF Requests, Joins, Cleanups, Buttons

LEMMA AckKinds ==
    ASSUME NEW a \in Acks
    PROVE  /\ a.k = "ack" /\ a.r \in Requests
           /\ a.r.k = "join" => a.why \in {"ok", "closed", "active", "password"}
           /\ (a.r.k = "join" /\ a.why = "ok") => (a.room \in Snapshots /\ a \in Oks)
           /\ a.r.k # "join" => a.why \in {"ok", "active", "gone"}
           /\ a \in Oks => (a.r.k = "join" /\ a.why = "ok")
  <1>1. CASE a \in Oks
    BY <1>1 DEF Oks, Requests, Joins
  <1>2. CASE a \in [k: {"ack"}, r: Joins, why: {"closed", "active", "password"}, room: {None}]
    BY <1>2 DEF Oks, Requests, Joins
  <1>3. CASE a \in [k: {"ack"}, r: Cleanups \cup Buttons, why: {"ok", "active", "gone"}, room: {None}]
    BY <1>3 DEF Oks, Requests, Joins, Cleanups, Buttons
  <1>. QED BY <1>1, <1>2, <1>3 DEF Acks

LEMMA WithoutTyped ==
    ASSUME NEW s \in Rooms, NEW who \in s.members, RoomPageAssumption
    PROVE  /\ Without(s, who) \in Rooms
           /\ Without(s, who).members = s.members \ {who}
           /\ Without(s, who).ready = s.ready \ {who}
           /\ Without(s, who).phase = IF s.members = {who} THEN "closed" ELSE s.phase
  <1>1. s.members \subseteq {Me, Other} /\ s.ready \subseteq {Me, Other} /\ s.host \in {Me, Other}
    BY DEF Rooms
  <1>2. s.members # {who} => (CHOOSE p \in s.members \ {who} : TRUE) \in {Me, Other}
    BY <1>1
  <1> DEFINE h == IF s.host = who /\ s.members # {who}
                  THEN CHOOSE p \in s.members \ {who} : TRUE ELSE s.host
  <1>3. h \in {Me, Other}
    BY <1>1, <1>2
  <1>4. Without(s, who) = [s EXCEPT !.members = s.members \ {who}, !.ready = s.ready \ {who},
              !.host = h, !.phase = IF s.members = {who} THEN "closed" ELSE s.phase]
    BY DEF Without, Rooms
  <1> HIDE DEF h
  <1> DEFINE w == Without(s, who)
             ph == IF s.members = {who} THEN "closed" ELSE s.phase
  <1>5. ph \in {"none", "waiting", "active", "closed"}
    BY DEF Rooms
  <1>6. w = [phase |-> ph, members |-> s.members \ {who}, host |-> h, ready |-> s.ready \ {who},
             locked |-> s.locked, matches |-> s.matches]
    BY <1>4 DEF Rooms
  <1>7. s.locked \in BOOLEAN /\ s.matches \in Nat
    BY DEF Rooms
  <1>8. w.members = s.members \ {who} /\ w.ready = s.ready \ {who} /\ w.phase = ph
    BY <1>6
  <1> HIDE DEF h, ph, w
  <1>9. w \in Rooms
    BY <1>1, <1>3, <1>5, <1>6, <1>7 DEF Rooms
  <1>. QED BY <1>8, <1>9 DEF w, ph

LEMMA EventCases ==
    ASSUME NEW e \in Events
    PROVE  /\ e.k \in {"ack", "room", "kicked", "over"}
           /\ e.k = "ack" => e \in Acks
           /\ e.k = "room" => e.room \in Snapshots
  BY AckKinds DEF Events, Kicked, Over

\* Events appended to those under way.
LEMMA Appended ==
    ASSUME NEW S, NEW q \in Seq(S), NEW es \in Seq(S)
    PROVE  /\ q \o es \in Seq(S)
           /\ \A i \in DOMAIN q: i \in DOMAIN (q \o es) /\ (q \o es)[i] = q[i]
           /\ \A i \in DOMAIN es: Len(q) + i \in DOMAIN (q \o es) /\ (q \o es)[Len(q) + i] = es[i]
           /\ \A i \in DOMAIN (q \o es): i \notin DOMAIN q => i - Len(q) \in DOMAIN es /\ (q \o es)[i] = es[i - Len(q)]
           /\ Len(q) \in Nat /\ DOMAIN q = 1..Len(q)
  <1> DEFINE w == q \o es
  <1>1. /\ w \in Seq(S) /\ Len(w) = Len(q) + Len(es) /\ Len(q) \in Nat /\ Len(es) \in Nat
        /\ DOMAIN q = 1..Len(q) /\ DOMAIN es = 1..Len(es) /\ DOMAIN w = 1..Len(w)
    OBVIOUS
  <1>2. \A i \in 1..(Len(q) + Len(es)): w[i] = IF i <= Len(q) THEN q[i] ELSE es[i - Len(q)]
    OBVIOUS
  <1> HIDE DEF w
  <1>3. \A i \in DOMAIN q: i \in DOMAIN w /\ w[i] = q[i]
    BY <1>1, <1>2
  <1>4. \A i \in DOMAIN es: Len(q) + i \in DOMAIN w /\ w[Len(q) + i] = es[i]
    <2>1. SUFFICES ASSUME NEW i \in DOMAIN es
                   PROVE  Len(q) + i \in DOMAIN w /\ w[Len(q) + i] = es[i]
      OBVIOUS
    <2>2. Len(q) + i \in 1..(Len(q) + Len(es)) /\ ~(Len(q) + i <= Len(q)) /\ (Len(q) + i) - Len(q) = i
      BY <1>1, <2>1
    <2>. QED BY <1>1, <1>2, <2>2
  <1>5. ASSUME NEW i \in DOMAIN w, i \notin DOMAIN q
        PROVE  i - Len(q) \in DOMAIN es /\ w[i] = es[i - Len(q)]
    <2>1. i \in 1..(Len(q) + Len(es)) /\ ~(i <= Len(q))
      BY <1>1, <1>5
    <2>2. i - Len(q) \in 1..Len(es)
      BY <1>1, <2>1
    <2>. QED BY <1>1, <1>2, <2>1, <2>2
  <1>. QED BY <1>1, <1>3, <1>4, <1>5 DEF w

\* The event at the head is taken.
LEMMA Taken ==
    ASSUME NEW S, NEW q \in Seq(S), q # <<>>
    PROVE  /\ Tail(q) \in Seq(S)
           /\ Head(q) = q[1] /\ Head(q) \in S /\ 1 \in DOMAIN q
           /\ DOMAIN q \subseteq Nat \ {0}
           /\ \A i \in DOMAIN Tail(q): i \in Nat \ {0} /\ i + 1 \in DOMAIN q /\ Tail(q)[i] = q[i + 1]
           /\ \A i \in DOMAIN q: i # 1 => i - 1 \in DOMAIN Tail(q) /\ Tail(q)[i - 1] = q[i]
  OBVIOUS

-----------------------------------------------------------------------------
(* Types are kept.                                                         *)

LEMMA SendTyped ==
    ASSUME TypeInv, NEW rs, rs \subseteq Requests, Send(rs)
    PROVE  up' \subseteq Requests /\ held' \subseteq Requests /\ asks' \subseteq Requests
  BY DEF TypeInv, NetTyped, Send

LEMMA EmitTyped ==
    ASSUME TypeInv, NEW es \in Seq(Events), Emit(es)
    PROVE  down' \in Seq(Events)
  BY Appended DEF TypeInv, NetTyped, Emit

LEMMA AnswerTyped ==
    ASSUME TypeInv, srv' \in Rooms, NEW r, NEW why,
           \/ r \in Joins /\ why \in {"ok", "closed", "active", "password"}
           \/ r \in Cleanups \cup Buttons /\ why \in {"ok", "active", "gone"}
    PROVE  Answer(r, why) \in Seq(Events)
  BY AckTyped DEF Answer

LEMMA ElsewhereTyped ==
    ASSUME TypeInv, NEW s \in Rooms, NEW es \in Seq(Events), Elsewhere(s, es)
    PROVE  TypeInv'
  <1>1. down' \in Seq(Events)
    <2>1. <<>> \in Seq(Events)
      OBVIOUS
    <2>2. Emit(es) \/ Emit(<<>>)
      BY DEF Elsewhere, EmitToMember
    <2>. QED BY <2>1, <2>2, EmitTyped
  <1>. QED BY <1>1 DEF Elsewhere, TypeInv, NetTyped, PageTyped, Overtakes, Lapse, net, page, store

LEMMA CommandTyped ==
    ASSUME TypeInv, NEW s \in Rooms, Command(s)
    PROVE  TypeInv'
  <1>1. down' \in Seq(Events)
    <2>1. <<Room(s)>> \in Seq(Events)
      BY RoomTyped
    <2>. QED BY <2>1, EmitTyped DEF Command
  <1>. QED BY <1>1 DEF Command, TypeInv, NetTyped, PageTyped, ServerOnly, net, page, store

\* The page is attempted again.
LEMMA AttemptTyped ==
    ASSUME TypeInv, NEW rs, rs \subseteq Requests, Attempt(rs)
    PROVE  /\ up' \subseteq Requests /\ held' \subseteq Requests /\ asks' \subseteq Requests
           /\ visit' \in 0..MaxVisits /\ visit' = visit + 1
           /\ loading' = TRUE /\ err' = FALSE /\ joined' = FALSE /\ room' = None /\ overlay' = FALSE
  <1>1. visit + 1 \in 0..MaxVisits
    BY RoomPageAssumption DEF TypeInv, PageTyped, Attempt
  <1>2. Req("join", "page", visit + 1) \in Requests /\ Behind(Req("join", "page", visit + 1)) \in Requests
    BY <1>1, RequestTyped DEF Requests
  <1>3. up' \subseteq Requests /\ held' \subseteq Requests /\ asks' \subseteq Requests
    <2>1. PICK q \in Requests: Send(rs \cup {q})
      BY <1>2 DEF Attempt
    <2>. QED BY <2>1, SendTyped
  <1>. QED BY <1>1, <1>3 DEF Attempt, Reset

LEMMA CleanupTyped ==
    ASSUME TypeInv
    PROVE  CleanupRequests \subseteq Requests
  <1>1. Req("leave", "cleanup", visit) \in Requests
    BY RequestTyped DEF TypeInv, PageTyped, Requests
  <1>. QED BY <1>1 DEF CleanupRequests

LEMMA ClickTyped ==
    ASSUME TypeInv, NEW r \in Requests, Click(r)
    PROVE  TypeInv'
  <1>1. up' \subseteq Requests /\ held' \subseteq Requests /\ asks' \subseteq Requests
    BY SendTyped DEF Click
  <1>. QED BY <1>1 DEF Click, TypeInv, NetTyped, PageTyped, page, store

LEMMA FailTyped ==
    ASSUME TypeInv, NEW rs, Fail(rs)
    PROVE  /\ asks' \subseteq Requests /\ loading' \in BOOLEAN /\ err' \in BOOLEAN
           /\ lapses' \subseteq {"member", "shown", "hung"}
           /\ UNCHANGED <<view, visit, mounted, joined, pw>>
  BY DEF TypeInv, NetTyped, PageTyped, Fail, Missed

-----------------------------------------------------------------------------
(* An event that arrives, case by case.                                    *)

Arrives(e) ==
    /\ down # <<>> /\ e = Head(down) /\ down' = Tail(down) /\ e \in Events
    /\ UNCHANGED <<srv, answers, conn, troubles, refused>>

Ignored == UNCHANGED <<asks, up, held, page, store, lapses>>

LEMMA ReceiveCases ==
    ASSUME TypeInv, Receive
    PROVE  \E e \in Events:
             /\ Arrives(e)
             /\ \/ e.k = "room" /\ e.room \in Snapshots /\ OnRoom(e.room)
                \/ e.k = "kicked" /\ OnKicked
                \/ e.k = "over" /\ OnOver
                \/ e.k = "ack" /\ e.r \notin asks /\ Ignored
                \/ e.k = "ack" /\ e \in Acks /\ e.r \in asks /\ e.r.k = "join" /\ OnJoinAck(e)
                \/ e.k = "ack" /\ e \in Acks /\ e.r \in asks /\ e.r.k # "join" /\ OnLeaveAck(e)
  <1> DEFINE e == Head(down)
  <1>1. e \in Events /\ Arrives(e)
    BY Taken DEF Receive, TypeInv, NetTyped, Arrives
  <1>2. /\ e.k \in {"ack", "room", "kicked", "over"}
        /\ e.k = "ack" => e \in Acks
        /\ e.k = "room" => e.room \in Snapshots
    BY <1>1, EventCases
  <1>3. CASE e.k = "room"
    BY <1>1, <1>2, <1>3 DEF Receive
  <1>4. CASE e.k = "kicked"
    BY <1>1, <1>4 DEF Receive
  <1>5. CASE e.k = "over"
    BY <1>1, <1>5 DEF Receive
  <1>6. CASE e.k = "ack" /\ e.r \notin asks
    BY <1>1, <1>6 DEF Receive, Ignored
  <1>7. CASE e.k = "ack" /\ e.r \in asks
    BY <1>1, <1>2, <1>7 DEF Receive
  <1>. QED BY <1>2, <1>3, <1>4, <1>5, <1>6, <1>7

\* The acknowledgement of a join, by who waits for it.
LEMMA JoinAckCases ==
    ASSUME NEW a \in Acks, a.r.k = "join", OnJoinAck(a)
    PROVE  \E ok \in BOOLEAN:
             /\ ok = (a.why = "ok" \/ (a.why = "active" /\ room # None /\ room.phase = "active"))
             /\ room' = IF a.why = "ok" THEN a.room ELSE room
             /\ \/ a.r.by = "page" /\ PageJoined(a.r, ok, a.why)
                \/ a.r.by = "form" /\ FormJoined(a.r, ok)
                \/ a.r.by = "socket" /\ SocketJoined(a.r)
             /\ lapses \subseteq lapses' /\ lapses' \subseteq lapses \cup {"member", "shown"}
             /\ ~ok /\ Me \in srv.members => "member" \in lapses'
             /\ ok /\ a.r.by = "form" /\ ~Active(a.r) => "member" \in lapses'
             /\ ok /\ a.r.by = "socket" /\ view = "lobby" => "member" \in lapses'
             /\ a.r.by = "socket" /\ ~ok => "shown" \in lapses'
             /\ UNCHANGED <<overlay, held, view, visit, mounted>>
  <1> DEFINE ok == a.why = "ok" \/ (a.why = "active" /\ room # None /\ room.phase = "active")
  <1>1. ok \in BOOLEAN
    OBVIOUS
  <1>2. \/ a.r.by = "page" /\ PageJoined(a.r, ok, a.why)
        \/ a.r.by = "form" /\ FormJoined(a.r, ok)
        \/ a.r.by = "socket" /\ SocketJoined(a.r)
    <2>1. CASE a.r.by = "page"
      BY <2>1 DEF OnJoinAck
    <2>2. CASE a.r.by = "form"
      BY <2>2 DEF OnJoinAck
    <2>3. CASE a.r.by = "socket"
      BY <2>3 DEF OnJoinAck
    <2>. QED BY <2>1, <2>2, <2>3, AckKinds, RequestKinds
  <1>3. /\ room' = IF a.why = "ok" THEN a.room ELSE room
        /\ UNCHANGED <<overlay, held, view, visit, mounted>>
    BY DEF OnJoinAck
  <1>4. lapses' = lapses \cup (IF \/ ~ok /\ Me \in srv.members
                                  \/ ok /\ a.r.by = "form" /\ ~Active(a.r)
                                  \/ ok /\ a.r.by = "socket" /\ view = "lobby" THEN {"member"} ELSE {})
                         \cup (IF a.r.by = "socket" /\ ~ok THEN {"shown"} ELSE {})
    BY DEF OnJoinAck
  <1> HIDE DEF ok
  <1>. QED BY <1>1, <1>2, <1>3, <1>4 DEF ok

\* A match of two ends.
LEMMA OpenedTyped ==
    ASSUME NEW s \in Rooms
    PROVE  /\ Opened(s) \in Rooms /\ Opened(s).phase = "waiting" /\ Opened(s).ready = {}
           /\ Opened(s).members = s.members
  BY DEF Opened, Rooms

LEMMA EventsTyped ==
    Kicked \in Events /\ Over \in Events /\ Kicked.k = "kicked" /\ Over.k = "over"
  BY DEF Events, Kicked, Over

\* What the handlers of room:join, room:leave and game:quit make of the room.
LEMMA JoinTyped ==
    ASSUME TypeInv, HandleJoin
    PROVE  \E r \in up:
             /\ r \in Joins /\ up' = up \ {r} /\ srv' \in Rooms
             /\ \/ /\ JoinRefused(r) = "no" /\ srv' = [srv EXCEPT !.members = @ \cup {Me}]
                   /\ Emit(<<Room(srv')>>) /\ <<Room(srv')>> \in Seq(Events)
                   /\ answers' = answers \cup (IF r \in asks THEN {Ack(r, "ok", srv')} ELSE {})
                   /\ Ack(r, "ok", srv') \in Oks
                \/ \E why \in {"closed", "active", "password"}:
                     /\ why = "closed" => srv.phase = "closed"
                     /\ why = "active" => srv.phase = "active" /\ Me \notin srv.members
                     /\ UNCHANGED <<srv, answers>>
                     /\ Emit(Answer(r, why)) /\ Answer(r, why) \in Seq(Events)
             /\ ServerOnly
  <1>1. PICK r \in up :
        /\ r.k = "join"
        /\ Handled(r)
        /\ \/ /\ JoinRefused(r) = "no"
              /\ srv' = [srv EXCEPT !.members = @ \cup {Me}]
              /\ Emit(<<Room(srv')>>)
              /\ answers' = answers \cup (IF r \in asks THEN {Ack(r, "ok", srv')} ELSE {})
           \/ /\ JoinRefused(r) # "no" \/ (r.by = "form" /\ srv.phase = "waiting" /\ srv.locked)
              /\ UNCHANGED <<srv, answers>>
              /\ Emit(Answer(r, IF JoinRefused(r) = "no" THEN "password" ELSE JoinRefused(r)))
    BY DEF HandleJoin
  <1>2. r \in Joins /\ up' = up \ {r}
    BY <1>1, RequestKinds DEF Handled, TypeInv, NetTyped
  <1>3. srv \in Rooms
    BY DEF TypeInv, NetTyped
  <1>4. CASE /\ JoinRefused(r) = "no" /\ srv' = [srv EXCEPT !.members = @ \cup {Me}]
             /\ Emit(<<Room(srv')>>)
             /\ answers' = answers \cup (IF r \in asks THEN {Ack(r, "ok", srv')} ELSE {})
    <2>1. srv' \in Rooms
      BY <1>3, <1>4 DEF Rooms
    <2>2. <<Room(srv')>> \in Seq(Events) /\ Ack(r, "ok", srv') \in Oks
      BY <1>2, <2>1, RoomTyped, AckTyped
    <2>. QED BY <1>2, <1>4, <2>1, <2>2 DEF HandleJoin
  <1>5. CASE /\ JoinRefused(r) # "no" \/ (r.by = "form" /\ srv.phase = "waiting" /\ srv.locked)
             /\ UNCHANGED <<srv, answers>>
             /\ Emit(Answer(r, IF JoinRefused(r) = "no" THEN "password" ELSE JoinRefused(r)))
    <2> DEFINE why == IF JoinRefused(r) = "no" THEN "password" ELSE JoinRefused(r)
    <2>1. /\ JoinRefused(r) \in {"closed", "active", "password", "no"}
          /\ JoinRefused(r) = "closed" => srv.phase = "closed"
          /\ JoinRefused(r) = "active" => srv.phase = "active" /\ Me \notin srv.members
      BY DEF JoinRefused
    <2>2. Emit(Answer(r, why)) /\ why \in {"closed", "active", "password"}
      BY <1>5, <2>1
    <2>3. why = "closed" => srv.phase = "closed"
      BY <2>1
    <2>4. why = "active" => srv.phase = "active" /\ Me \notin srv.members
      BY <2>1
    <2> HIDE DEF why
    <2>5. Answer(r, why) \in Seq(Events)
      BY <1>2, <1>3, <1>5, <2>2, AnswerTyped
    <2>. QED BY <1>2, <1>3, <1>5, <2>2, <2>3, <2>4, <2>5 DEF HandleJoin
  <1>. QED BY <1>1, <1>4, <1>5

LEMMA LeaveTyped ==
    ASSUME TypeInv, NEW by, NEW n, HandleLeave(by, n)
    PROVE  \E r \in up:
             /\ r \in Cleanups \cup Buttons /\ r.k = "leave" /\ up' = up \ {r} /\ srv' \in Rooms
             /\ \/ /\ srv.phase = "waiting" /\ Me \in srv.members /\ srv' = Without(srv, Me)
                   /\ Emit(Answer(r, "ok")) /\ Answer(r, "ok") \in Seq(Events)
                \/ /\ ~(srv.phase = "waiting" /\ Me \in srv.members) /\ UNCHANGED srv
                   /\ \E why \in {"active", "gone"}:
                        /\ why = "active" <=> srv.phase = "active"
                        /\ Emit(Answer(r, why)) /\ Answer(r, why) \in Seq(Events)
             /\ Overtaken(r, srv')
             /\ UNCHANGED <<answers, net, page, store, refused, troubles>>
  <1>1. PICK r \in up :
        /\ r.k = "leave"
        /\ Handled(r)
        /\ IF srv.phase = "waiting" /\ Me \in srv.members
           THEN srv' = Without(srv, Me) /\ Emit(Answer(r, "ok"))
           ELSE /\ UNCHANGED srv
                /\ Emit(Answer(r, IF srv.phase = "active" THEN "active" ELSE "gone"))
        /\ Overtaken(r, srv')
    BY DEF HandleLeave
  <1>2. r \in Cleanups \cup Buttons /\ up' = up \ {r}
    BY <1>1, RequestKinds DEF Handled, TypeInv, NetTyped
  <1>3. srv \in Rooms
    BY DEF TypeInv, NetTyped
  <1>4. CASE srv.phase = "waiting" /\ Me \in srv.members
    <2>1. srv' \in Rooms
      BY <1>1, <1>3, <1>4, WithoutTyped, RoomPageAssumption
    <2>2. Answer(r, "ok") \in Seq(Events)
      BY <1>2, <2>1, AnswerTyped
    <2>. QED BY <1>1, <1>2, <1>4, <2>1, <2>2 DEF HandleLeave
  <1>5. CASE ~(srv.phase = "waiting" /\ Me \in srv.members)
    <2> DEFINE why == IF srv.phase = "active" THEN "active" ELSE "gone"
    <2>1. srv' = srv /\ why \in {"active", "gone"} /\ Emit(Answer(r, why)) /\ (why = "active" <=> srv.phase = "active")
      BY <1>1, <1>5
    <2> HIDE DEF why
    <2>2. Answer(r, why) \in Seq(Events)
      BY <1>2, <1>3, <2>1, AnswerTyped
    <2>. QED BY <1>1, <1>2, <1>3, <1>5, <2>1, <2>2 DEF HandleLeave
  <1>. QED BY <1>4, <1>5

LEMMA QuitTyped ==
    ASSUME TypeInv, HandleQuit
    PROVE  \E r \in up:
             /\ r \in Buttons /\ r.k = "quit" /\ up' = up \ {r} /\ srv' \in Rooms
             /\ \/ /\ srv.phase = "active" /\ Me \in srv.members /\ srv' = Without(Opened(srv), Me)
                   /\ Emit(<<Over, Room(Opened(srv))>> \o Answer(r, "ok"))
                   /\ <<Over, Room(Opened(srv))>> \in Seq(Events) /\ Answer(r, "ok") \in Seq(Events)
                \/ /\ UNCHANGED srv
                   /\ Emit(Answer(r, "gone")) /\ Answer(r, "gone") \in Seq(Events)
             /\ Overtaken(r, srv')
             /\ UNCHANGED <<answers, net, page, store, refused, troubles>>
  <1>1. PICK r \in up :
        /\ r.k = "quit"
        /\ Handled(r)
        /\ IF srv.phase = "active" /\ Me \in srv.members
           THEN /\ srv' = Without(Opened(srv), Me)
                /\ Emit(<<Over, Room(Opened(srv))>> \o Answer(r, "ok"))
           ELSE /\ UNCHANGED srv
                /\ Emit(Answer(r, "gone"))
        /\ Overtaken(r, srv')
    BY DEF HandleQuit
  <1>2. r \in Buttons /\ up' = up \ {r}
    BY <1>1, RequestKinds DEF Handled, TypeInv, NetTyped, Cleanups
  <1>3. srv \in Rooms
    BY DEF TypeInv, NetTyped
  <1>4. CASE srv.phase = "active" /\ Me \in srv.members
    <2>1. Opened(srv) \in Rooms /\ Me \in Opened(srv).members
      BY <1>3, <1>4, OpenedTyped
    <2>2. srv' \in Rooms
      BY <1>1, <1>4, <2>1, WithoutTyped, RoomPageAssumption
    <2>3. Answer(r, "ok") \in Seq(Events)
      BY <1>2, <2>2, AnswerTyped
    <2>4. <<Over, Room(Opened(srv))>> \in Seq(Events)
      BY <2>1, RoomTyped, EventsTyped
    <2>. QED BY <1>1, <1>2, <1>4, <2>2, <2>3, <2>4 DEF HandleQuit
  <1>5. CASE ~(srv.phase = "active" /\ Me \in srv.members)
    <2>1. srv' = srv /\ Emit(Answer(r, "gone"))
      BY <1>1, <1>5
    <2>2. Answer(r, "gone") \in Seq(Events)
      BY <1>2, <1>3, <2>1, AnswerTyped
    <2>. QED BY <1>1, <1>2, <1>3, <2>1, <2>2 DEF HandleQuit
  <1>. QED BY <1>4, <1>5

-----------------------------------------------------------------------------
(* The room on the server.                                                 *)

\* Only members are ready; an empty room is a closed one; both play a match and
\* are ready until it ends.
RoomOK(s) ==
    /\ s.ready \subseteq s.members
    /\ s.phase \in {"none", "closed"} => s.members = {}
    /\ s.phase = "active" => s.members = {Me, Other} /\ s.ready = {Me, Other}

Untouched == UNCHANGED <<up, answers, net, page, store>>

\* What happens to the room without a request of the tab: another player, the
\* administrator, the end of a match, and the commands nobody waits for.
Happens ==
    \/ OtherActs \/ OtherKicks \/ MatchEnds \/ OtherQuits \/ AdminCloses
    \/ ClickReady \/ ClickStart \/ ClickKick

HappensTo(s, es) ==
    /\ s \in Rooms /\ RoomOK(s) /\ srv' = s
    /\ es \in Seq(Events) /\ Emit(es) /\ Untouched
    /\ srv.phase \in {"waiting", "active"} /\ s.phase # "none"
    /\ \A i \in DOMAIN es: es[i].k \in {"room", "kicked", "over"}
    /\ \A i \in DOMAIN es: es[i].k = "over" => s.ready = {}
    /\ Me \in s.ready \ srv.ready => ~overlay /\ down = <<>> /\ \A i \in DOMAIN es: es[i].k # "over"
    /\ Me \in s.members => Me \in srv.members
    /\ Me \in s.members => \A i \in DOMAIN es: es[i].k # "kicked"
    /\ Me \in srv.members /\ Me \notin s.members => es = <<Kicked>>
    /\ Me \notin srv.members => es = <<>>
    /\ lapses \subseteq lapses' /\ lapses' \subseteq lapses \cup {"shown"}
    /\ Me \in srv.members /\ Me \notin s.members /\ (\E a \in answers : a.r.k = "join") =>
         "shown" \in lapses'

\* One event.
LEMMA Single ==
    ASSUME NEW e \in Events
    PROVE  <<e>> \in Seq(Events) /\ DOMAIN <<e>> = {1} /\ <<e>>[1] = e
  OBVIOUS

LEMMA ElsewhereHappens ==
    ASSUME TypeInv, NEW s \in Rooms, RoomOK(s), NEW es \in Seq(Events), Elsewhere(s, es),
           srv.phase \in {"waiting", "active"}, s.phase # "none",
           Me \in srv.members =>
             /\ \A i \in DOMAIN es: es[i].k \in {"room", "kicked", "over"}
             /\ \A i \in DOMAIN es: es[i].k = "over" => s.ready = {}
             /\ Me \in s.members => \A i \in DOMAIN es: es[i].k # "kicked"
             /\ Me \notin s.members => es = <<Kicked>>,
           Me \in s.members => Me \in srv.members,
           Me \in s.ready => Me \in srv.ready
    PROVE  \E ev: HappensTo(s, ev)
  <1>1. lapses \subseteq lapses' /\ lapses' \subseteq lapses \cup {"shown"}
    BY DEF Elsewhere, Overtakes, Lapse
  <1>2. Me \in srv.members /\ Me \notin s.members /\ (\E a \in answers : a.r.k = "join") => "shown" \in lapses'
    BY DEF Elsewhere, Overtakes, Lapse
  <1>3. Untouched /\ srv' = s
    BY DEF Elsewhere, Untouched, net, page, store
  <1>4. CASE Me \in srv.members
    <2>1. Emit(es)
      BY <1>4 DEF Elsewhere, EmitToMember
    <2>. QED BY <1>1, <1>2, <1>3, <1>4, <2>1 DEF HappensTo
  <1>5. CASE Me \notin srv.members
    <2>1. Emit(<<>>) /\ <<>> \in Seq(Events) /\ DOMAIN <<>> = {}
      BY <1>5 DEF Elsewhere, EmitToMember
    <2>2. PICK ev: ev = <<>>
      OBVIOUS
    <2>3. Emit(ev) /\ ev \in Seq(Events) /\ DOMAIN ev = {}
      BY <2>1, <2>2
    <2>4. HappensTo(s, ev)
      BY <1>1, <1>2, <1>3, <1>5, <2>2, <2>3 DEF HappensTo
    <2>. QED BY <2>4
  <1>. QED BY <1>4, <1>5

LEMMA CommandHappens ==
    ASSUME TypeInv, NEW s \in Rooms, RoomOK(s), Command(s), s.phase # "none",
           Me \in s.members
    PROVE  HappensTo(s, <<Room(s)>>)
  <1>1. srv.phase = "waiting" /\ Me \in srv.members /\ Screen = "waiting" /\ CaughtUp
        /\ srv' = s /\ Emit(<<Room(s)>>) /\ Untouched /\ lapses' = lapses
    BY DEF Command, ServerOnly, Untouched, net, page, store
  <1>2. ~overlay /\ down = <<>>
    BY <1>1 DEF Screen, CaughtUp
  <1>3. Room(s) \in Events /\ Room(s).k = "room"
    BY RoomTyped
  <1>. QED BY <1>1, <1>2, <1>3, Single DEF HappensTo

\* A match starts.
LEMMA StartedTyped ==
    ASSUME srv \in Rooms
    PROVE  /\ Started \in Rooms /\ Started.members = srv.members /\ Started.ready = srv.ready
           /\ Started.phase = "active"
  <1> DEFINE m == srv.matches + 1
  <1>1. m \in Nat
    BY DEF Rooms
  <1>2. Started = [srv EXCEPT !.phase = "active", !.matches = m]
    BY DEF Started, Rooms
  <1> HIDE DEF m
  <1>. QED BY <1>1, <1>2 DEF Rooms

LEMMA HappensCases ==
    ASSUME TypeInv, RoomOK(srv), Happens
    PROVE  \E s, es: HappensTo(s, es)
  <1>0. /\ srv \in Rooms /\ srv.members \subseteq {Me, Other} /\ srv.ready \subseteq {Me, Other}
        /\ Me # Other
    BY RoomPageAssumption DEF TypeInv, NetTyped, Rooms
  <1>1. CASE OtherActs
    <2>1. ASSUME NEW s, s = [srv EXCEPT !.members = @ \cup {Other}], Elsewhere(s, <<Room(s)>>)
          PROVE  \E ev: HappensTo(s, ev)
      <3>1. /\ s \in Rooms /\ s.members = srv.members \cup {Other} /\ s.ready = srv.ready
            /\ s.phase = srv.phase
        BY <1>0, <2>1 DEF Rooms
      <3>2. srv.phase = "waiting"
        BY <1>1 DEF OtherActs
      <3>3. RoomOK(s)
        BY <1>0, <3>1, <3>2 DEF RoomOK
      <3>4. Room(s) \in Events /\ Room(s).k = "room"
        BY <3>1, RoomTyped
      <3>5. /\ <<Room(s)>> \in Seq(Events)
            /\ \A i \in DOMAIN <<Room(s)>>: <<Room(s)>>[i].k = "room"
        BY <3>4, Single
      <3>6. Me \in s.members <=> Me \in srv.members
        BY <1>0, <3>1
      <3>. QED BY <2>1, <3>1, <3>2, <3>3, <3>5, <3>6, ElsewhereHappens
    <2>2. ASSUME NEW s, s = Without(srv, Other), Other \in srv.members, Elsewhere(s, <<Room(s)>>)
          PROVE  \E ev: HappensTo(s, ev)
      <3>1. /\ s \in Rooms /\ s.members = srv.members \ {Other} /\ s.ready = srv.ready \ {Other}
            /\ s.phase = IF srv.members = {Other} THEN "closed" ELSE srv.phase
        BY <1>0, <2>2, WithoutTyped, RoomPageAssumption
      <3>2. srv.phase = "waiting"
        BY <1>1 DEF OtherActs
      <3>3. RoomOK(s)
        BY <1>0, <3>1, <3>2 DEF RoomOK
      <3>4. Room(s) \in Events /\ Room(s).k = "room"
        BY <3>1, RoomTyped
      <3>5. /\ <<Room(s)>> \in Seq(Events)
            /\ \A i \in DOMAIN <<Room(s)>>: <<Room(s)>>[i].k = "room"
        BY <3>4, Single
      <3>6. Me \in s.members <=> Me \in srv.members
        BY <1>0, <3>1
      <3>. QED BY <1>0, <2>2, <3>1, <3>2, <3>3, <3>5, <3>6, ElsewhereHappens
    <2>3. ASSUME NEW s, s = [srv EXCEPT !.ready = @ \cup {Other}], Other \in srv.members \ srv.ready,
                 Elsewhere(s, <<Room(s)>>)
          PROVE  \E ev: HappensTo(s, ev)
      <3>1. /\ s \in Rooms /\ s.members = srv.members /\ s.ready = srv.ready \cup {Other}
            /\ s.phase = srv.phase
        BY <1>0, <2>3 DEF Rooms
      <3>2. srv.phase = "waiting"
        BY <1>1 DEF OtherActs
      <3>3. RoomOK(s)
        BY <1>0, <2>3, <3>1, <3>2 DEF RoomOK
      <3>4. Room(s) \in Events /\ Room(s).k = "room"
        BY <3>1, RoomTyped
      <3>5. /\ <<Room(s)>> \in Seq(Events)
            /\ \A i \in DOMAIN <<Room(s)>>: <<Room(s)>>[i].k = "room"
        BY <3>4, Single
      <3>6. Me \in s.ready => Me \in srv.ready
        BY <1>0, <3>1
      <3>. QED BY <2>3, <3>1, <3>2, <3>3, <3>5, <3>6, ElsewhereHappens
    <2>4. ASSUME CanStart(Other), Elsewhere(Started, <<Room(Started)>>)
          PROVE  \E ev: HappensTo(Started, ev)
      <3>1. /\ Started \in Rooms /\ Started.members = srv.members /\ Started.ready = srv.ready
            /\ Started.phase = "active"
        BY <1>0, StartedTyped
      <3>2. srv.phase = "waiting" /\ srv.members = {Me, Other} /\ srv.ready = {Me, Other}
        BY <2>4 DEF CanStart
      <3>3. RoomOK(Started)
        BY <3>1, <3>2 DEF RoomOK
      <3>4. Room(Started) \in Events /\ Room(Started).k = "room"
        BY <3>1, RoomTyped
      <3>5. /\ <<Room(Started)>> \in Seq(Events)
            /\ \A i \in DOMAIN <<Room(Started)>>: <<Room(Started)>>[i].k = "room"
        BY <3>4, Single
      <3>. QED BY <2>4, <3>1, <3>2, <3>3, <3>5, ElsewhereHappens
    <2>. QED BY <1>1, <2>1, <2>2, <2>3, <2>4 DEF OtherActs
  <1>2. CASE OtherKicks
    <2> DEFINE s == Without(srv, Me)
    <2>1. srv.phase = "waiting" /\ Me \in srv.members /\ Other \in srv.members /\ Elsewhere(s, <<Kicked>>)
      BY <1>2 DEF OtherKicks
    <2>2. /\ s \in Rooms /\ s.members = srv.members \ {Me} /\ s.ready = srv.ready \ {Me}
          /\ s.phase = IF srv.members = {Me} THEN "closed" ELSE srv.phase
      BY <1>0, <2>1, WithoutTyped, RoomPageAssumption
    <2> HIDE DEF s
    <2>3. s.phase = "waiting" /\ RoomOK(s)
      BY <1>0, <2>1, <2>2 DEF RoomOK
    <2>4. <<Kicked>> \in Seq(Events) /\ \A i \in DOMAIN <<Kicked>>: <<Kicked>>[i].k = "kicked"
      BY EventsTyped, Single
    <2>. QED BY <2>1, <2>2, <2>3, <2>4, ElsewhereHappens
  <1>3. CASE MatchEnds
    <2> DEFINE s == Opened(srv)
    <2>1. srv.phase = "active" /\ Elsewhere(s, <<Over, Room(s)>>)
      BY <1>3 DEF MatchEnds
    <2>2. s \in Rooms /\ s.members = srv.members /\ s.ready = {} /\ s.phase = "waiting"
      BY <1>0, OpenedTyped
    <2> HIDE DEF s
    <2>3. RoomOK(s)
      BY <2>2 DEF RoomOK
    <2>4. Room(s) \in Events /\ Room(s).k = "room"
      BY <2>2, RoomTyped
    <2>5. /\ <<Over, Room(s)>> \in Seq(Events)
          /\ \A i \in DOMAIN <<Over, Room(s)>>: <<Over, Room(s)>>[i].k \in {"over", "room"}
      BY <2>4, EventsTyped
    <2>. QED BY <2>1, <2>2, <2>3, <2>5, ElsewhereHappens
  <1>4. CASE OtherQuits
    <2> DEFINE o == Opened(srv)
               s == Without(o, Other)
    <2>1. srv.phase = "active" /\ Elsewhere(s, <<Over, Room(o), Room(s)>>)
      BY <1>4 DEF OtherQuits
    <2>2. o \in Rooms /\ o.members = {Me, Other} /\ o.ready = {} /\ o.phase = "waiting"
      BY <1>0, <2>1, OpenedTyped DEF RoomOK
    <2> HIDE DEF o
    <2>3. /\ s \in Rooms /\ s.members = o.members \ {Other} /\ s.ready = o.ready \ {Other}
          /\ s.phase = IF o.members = {Other} THEN "closed" ELSE o.phase
      BY <2>2, WithoutTyped, RoomPageAssumption
    <2> HIDE DEF s
    <2>4. s.members = {Me} /\ s.ready = {} /\ s.phase = "waiting" /\ RoomOK(s)
      BY <1>0, <2>2, <2>3 DEF RoomOK
    <2>5. Room(s) \in Events /\ Room(s).k = "room" /\ Room(o) \in Events /\ Room(o).k = "room"
      BY <2>2, <2>3, RoomTyped
    <2>6. /\ <<Over, Room(o), Room(s)>> \in Seq(Events)
          /\ \A i \in DOMAIN <<Over, Room(o), Room(s)>>: <<Over, Room(o), Room(s)>>[i].k \in {"over", "room"}
      BY <2>5, EventsTyped
    <2>7. Me \in srv.members
      BY <2>1 DEF RoomOK
    <2>. QED BY <2>1, <2>3, <2>4, <2>6, <2>7, ElsewhereHappens
  <1>5. CASE AdminCloses
    <2> DEFINE s == [srv EXCEPT !.phase = "closed", !.members = {}, !.ready = {}]
    <2>1. srv.phase \in {"waiting", "active"} /\ Elsewhere(s, <<Kicked>>)
      BY <1>5 DEF AdminCloses
    <2>2. s \in Rooms /\ s.members = {} /\ s.ready = {} /\ s.phase = "closed"
      BY <1>0 DEF Rooms
    <2> HIDE DEF s
    <2>3. RoomOK(s)
      BY <2>2 DEF RoomOK
    <2>4. <<Kicked>> \in Seq(Events) /\ \A i \in DOMAIN <<Kicked>>: <<Kicked>>[i].k = "kicked"
      BY EventsTyped, Single
    <2>. QED BY <2>1, <2>2, <2>3, <2>4, ElsewhereHappens
  <1>6. CASE ClickReady
    <2> DEFINE d == IF Me \in room.ready THEN srv.ready \ {Me} ELSE srv.ready \cup {Me}
               s == [srv EXCEPT !.ready = d]
    <2>1. Command([srv EXCEPT !.ready = IF Me \in room.ready THEN @ \ {Me} ELSE @ \cup {Me}])
      BY <1>6 DEF ClickReady
    <2>2. [srv EXCEPT !.ready = IF Me \in room.ready THEN @ \ {Me} ELSE @ \cup {Me}] = s
      BY <1>0 DEF Rooms
    <2>3. srv.phase = "waiting" /\ Me \in srv.members
      BY <2>1 DEF Command
    <2>4. d \subseteq srv.members
      BY <1>0, <2>3 DEF RoomOK
    <2> HIDE DEF d
    <2>5. s \in Rooms /\ s.members = srv.members /\ s.ready = d /\ s.phase = srv.phase
      BY <1>0, <2>4 DEF Rooms
    <2> HIDE DEF s
    <2>6. RoomOK(s)
      BY <2>3, <2>4, <2>5 DEF RoomOK
    <2>7. Command(s)
      BY <2>1, <2>2
    <2>. QED BY <2>3, <2>5, <2>6, <2>7, CommandHappens
  <1>7. CASE ClickStart
    <2>1. Command(Started) /\ CanStart(Me)
      BY <1>7 DEF ClickStart
    <2>2. /\ Started \in Rooms /\ Started.members = srv.members /\ Started.ready = srv.ready
          /\ Started.phase = "active"
      BY <1>0, StartedTyped
    <2>3. srv.members = {Me, Other} /\ srv.ready = {Me, Other}
      BY <2>1 DEF CanStart
    <2>4. RoomOK(Started)
      BY <2>2, <2>3 DEF RoomOK
    <2>. QED BY <2>1, <2>2, <2>3, <2>4, CommandHappens
  <1>8. CASE ClickKick
    <2> DEFINE s == Without(srv, Other)
    <2>1. Command(s) /\ Other \in srv.members
      BY <1>8 DEF ClickKick
    <2>2. srv.phase = "waiting" /\ Me \in srv.members
      BY <2>1 DEF Command
    <2>3. /\ s \in Rooms /\ s.members = srv.members \ {Other} /\ s.ready = srv.ready \ {Other}
          /\ s.phase = IF srv.members = {Other} THEN "closed" ELSE srv.phase
      BY <1>0, <2>1, WithoutTyped, RoomPageAssumption
    <2> HIDE DEF s
    <2>4. RoomOK(s) /\ Me \in s.members /\ s.phase # "none"
      BY <1>0, <2>2, <2>3 DEF RoomOK
    <2>. QED BY <2>1, <2>3, <2>4, CommandHappens
  <1>. QED BY <1>1, <1>2, <1>3, <1>4, <1>5, <1>6, <1>7, <1>8 DEF Happens

-----------------------------------------------------------------------------
(* Every step keeps the types.                                             *)

\* The page opens.
LEMMA MountTyped ==
    ASSUME TypeInv, Mount
    PROVE  /\ up' \subseteq Requests /\ held' \subseteq Requests /\ asks' \subseteq Requests
           /\ visit' \in 0..MaxVisits /\ visit' = visit + 1 /\ mounted' = visit + 1 /\ mounted' \in Nat
           /\ view = "lobby" /\ view' = "room" /\ pw' = FALSE
           /\ loading' = TRUE /\ err' = FALSE /\ joined' = FALSE /\ room' = None /\ overlay' = FALSE
  <1>1. Attempt({}) /\ {} \subseteq Requests
    BY DEF Mount
  <1>2. visit' = visit + 1 /\ visit' \in 0..MaxVisits
    BY <1>1, AttemptTyped
  <1>3. visit' \in Nat
    BY <1>2
  <1>4. mounted' = visit + 1
    BY DEF Mount
  <1>. QED BY <1>1, <1>2, <1>3, <1>4, AttemptTyped DEF Mount

\* The fields of the form that are no numbers are sent as they are.
LEMMA OtherField ==
    ASSUME NEW t, "locked" \in DOMAIN t, NEW n, n # "locked", NEW x
    PROVE  "locked" \in DOMAIN [t EXCEPT ![n] = x] /\ [t EXCEPT ![n] = x]["locked"] = t["locked"]
  OBVIOUS

LEMMA NewRoomTyped ==
    ASSUME NEW l \in BOOLEAN
    PROVE  /\ NewRoom("waiting", {}, Me, l) \in Rooms
           /\ NewRoom("waiting", {Other}, Other, l) \in Rooms
           /\ NewRoom("none", {}, Me, l) \in Rooms
  BY DEF NewRoom, Rooms

\* A room is created, or refused.
LEMMA CreateCases ==
    ASSUME RoomPageAssumption, CreateRoom
    PROVE  /\ view = "lobby" /\ srv.phase = "none" /\ UNCHANGED <<answers, down, conn, troubles, lapses>>
           /\ \/ /\ \E l \in BOOLEAN: srv' = NewRoom("waiting", {}, Me, l)
                 /\ refused' = None /\ Mount
              \/ /\ \E f: /\ FormAccepts(f) /\ ~ServerAccepts(Rules(f)) /\ refused' = Rules(f)
                 /\ UNCHANGED <<srv, up, held, asks, page, store>>
  <1>1. PICK f \in {Entered(typed) : typed \in Forms} :
        /\ FormAccepts(f)
        /\ IF ServerAccepts(Rules(f))
           THEN /\ srv' = NewRoom("waiting", {}, Me, f.locked)
                /\ refused' = None
                /\ Mount
           ELSE /\ refused' = Rules(f)
                /\ UNCHANGED <<srv, up, held, asks, page, store>>
    BY DEF CreateRoom
  <1>2. f.locked \in BOOLEAN
    <2>1. PICK t \in Forms: f = Entered(t)
      BY <1>1
    <2>2. t \in [players: Int, chips: Int, small: Int, big: Int, ante: Int, increase: Int,
                 timed: BOOLEAN, time: Int, fixed: BOOLEAN, hands: Int, locked: BOOLEAN]
      BY <2>1, RoomPageAssumption
    <2>3. f.locked = t.locked
      <3> DEFINE a1 == [t EXCEPT !.players = OrElse(t.players, 8)]
                 a2 == [a1 EXCEPT !.chips = OrElse(t.chips, 1000)]
                 a3 == [a2 EXCEPT !.time = OrElse(t.time, 30)]
                 a4 == [a3 EXCEPT !.small = OrElse(t.small, 10)]
                 a5 == [a4 EXCEPT !.big = OrElse(t.big, 20)]
                 a6 == [a5 EXCEPT !.increase = OrElse(t.increase, 10)]
                 a7 == [a6 EXCEPT !.hands = OrElse(t.hands, 50)]
      <3>1. Entered(t) = a7
        BY Zenon DEF Entered
      <3>2. "locked" \in DOMAIN t
        BY <2>2
      <3>3. a7.locked = t.locked
        BY <3>2, OtherField
      <3>. QED BY <2>1, <3>1, <3>3
    <2>. QED BY <2>2, <2>3
  <1>3. CASE ServerAccepts(Rules(f))
    BY <1>1, <1>2, <1>3 DEF CreateRoom
  <1>4. CASE ~ServerAccepts(Rules(f))
    BY <1>1, <1>4 DEF CreateRoom
  <1>. QED BY <1>3, <1>4

LEMMA JoinAckTyped ==
    ASSUME TypeInv, NEW a \in Acks, a.r.k = "join", OnJoinAck(a)
    PROVE  /\ up' \subseteq Requests /\ held' = held /\ asks' \subseteq Requests
           /\ UNCHANGED <<view, visit, mounted, overlay>>
           /\ joined' \in BOOLEAN /\ loading' \in BOOLEAN /\ pw' \in BOOLEAN /\ err' \in BOOLEAN
           /\ room' \in Snapshots \cup {None}
           /\ lapses' \subseteq {"member", "shown", "hung"}
  <1>1. PICK ok \in BOOLEAN:
             /\ room' = IF a.why = "ok" THEN a.room ELSE room
             /\ \/ a.r.by = "page" /\ PageJoined(a.r, ok, a.why)
                \/ a.r.by = "form" /\ FormJoined(a.r, ok)
                \/ a.r.by = "socket" /\ SocketJoined(a.r)
             /\ lapses' \subseteq lapses \cup {"member", "shown"}
             /\ UNCHANGED <<overlay, held, view, visit, mounted>>
    BY JoinAckCases
  <1>2. room' \in Snapshots \cup {None}
    BY <1>1, AckKinds DEF TypeInv, PageTyped
  <1>3. a.r \in Requests /\ Req("leave", "cleanup", a.r.visit) \in Requests
    BY AckKinds, RequestKinds, RequestTyped DEF Requests
  <1>4. /\ up' \subseteq Requests /\ asks' \subseteq Requests
        /\ joined' \in BOOLEAN /\ loading' \in BOOLEAN /\ pw' \in BOOLEAN /\ err' \in BOOLEAN
    <2>1. CASE PageJoined(a.r, ok, a.why)
      BY <1>3, <2>1 DEF PageJoined, UndoJoin, TypeInv, NetTyped, PageTyped
    <2>2. CASE FormJoined(a.r, ok)
      BY <2>2 DEF FormJoined, TypeInv, NetTyped, PageTyped
    <2>3. CASE SocketJoined(a.r)
      BY <2>3 DEF SocketJoined, TypeInv, NetTyped, PageTyped
    <2>. QED BY <1>1, <2>1, <2>2, <2>3
  <1>. QED BY <1>1, <1>2, <1>4 DEF TypeInv, PageTyped

\* The acknowledgement of a leave or a quit: the button's cleanup finds nothing
\* to leave, for what it emptied is not shown.
LEMMA LeaveAckCases ==
    ASSUME TypeInv, NEW a \in Acks, a.r.k # "join", OnLeaveAck(a)
    PROVE  /\ asks' = asks \ {a.r} /\ UNCHANGED <<up, held, visit, mounted>>
           /\ IF a.why = "ok" THEN room' = None ELSE UNCHANGED <<room, overlay>>
           /\ overlay' = overlay \/ overlay' = FALSE
           /\ \/ /\ a.why = "ok" /\ a.r.by = "button" /\ view = "room"
                 /\ view' = "lobby" /\ joined' = FALSE /\ loading' = FALSE /\ pw' = FALSE /\ err' = FALSE
              \/ /\ ~(a.why = "ok" /\ a.r.by = "button" /\ view = "room")
                 /\ UNCHANGED <<view, joined, loading, pw, err>>
           /\ lapses \subseteq lapses' /\ lapses' \subseteq lapses \cup {"member", "shown"}
           /\ a.why = "active" /\ a.r.by = "cleanup" => "member" \in lapses'
           /\ a.why = "ok" /\ room # None /\ a.r.visit # visit => {"member", "shown"} \subseteq lapses'
  <1> DEFINE wiped == a.why = "ok" /\ (room # None \/ a.r.k = "quit")
             goes  == a.why = "ok" /\ a.r.by = "button" /\ view = "room"
             leave == IF goes /\ joined /\ (room # None /\ ~wiped)
                      THEN {Req("leave", "cleanup", visit)} ELSE {}
  <1>1. leave = {}
    OBVIOUS
  <1>2. /\ asks' = (asks \ {a.r}) \cup leave /\ up' = up \cup leave
        /\ UNCHANGED <<held, visit, mounted>>
        /\ IF wiped THEN Reset ELSE UNCHANGED store
        /\ IF goes
          THEN /\ view' = "lobby" /\ joined' = FALSE
               /\ loading' = FALSE /\ pw' = FALSE /\ err' = FALSE
          ELSE UNCHANGED <<view, joined, loading, pw, err>>
        /\ lapses' = lapses
            \cup (IF a.why = "active" /\ a.r.by = "cleanup" THEN {"member"} ELSE {})
            \cup (IF wiped /\ a.r.visit # visit THEN {"member", "shown"} ELSE {})
    BY DEF OnLeaveAck
  <1>. QED BY <1>1, <1>2 DEF Reset, store

LEMMA ReceiveTyped ==
    ASSUME TypeInv, Receive
    PROVE  TypeInv'
  <1>1. PICK e \in Events:
          /\ Arrives(e)
          /\ \/ e.k = "room" /\ e.room \in Snapshots /\ OnRoom(e.room)
             \/ e.k = "kicked" /\ OnKicked
             \/ e.k = "over" /\ OnOver
             \/ e.k = "ack" /\ e.r \notin asks /\ Ignored
             \/ e.k = "ack" /\ e \in Acks /\ e.r \in asks /\ e.r.k = "join" /\ OnJoinAck(e)
             \/ e.k = "ack" /\ e \in Acks /\ e.r \in asks /\ e.r.k # "join" /\ OnLeaveAck(e)
    BY ReceiveCases
  <1>2. down' \in Seq(Events) /\ UNCHANGED <<srv, answers, conn>>
    BY <1>1, Taken DEF Arrives, TypeInv, NetTyped
  <1>3. CASE e.k = "room" /\ e.room \in Snapshots /\ OnRoom(e.room)
    BY <1>2, <1>3 DEF OnRoom, TypeInv, NetTyped, PageTyped, page
  <1>4. CASE OnKicked
    BY <1>2, <1>4 DEF OnKicked, Reset, TypeInv, NetTyped, PageTyped, page
  <1>5. CASE OnOver
    BY <1>2, <1>5 DEF OnOver, TypeInv, NetTyped, PageTyped, page
  <1>6. CASE Ignored
    BY <1>2, <1>6 DEF Ignored, TypeInv, NetTyped, PageTyped, page, store
  <1>7. CASE e \in Acks /\ e.r.k = "join" /\ OnJoinAck(e)
    BY <1>2, <1>7, JoinAckTyped DEF TypeInv, NetTyped, PageTyped
  <1>8. CASE e \in Acks /\ e.r.k # "join" /\ OnLeaveAck(e)
    <2>1. /\ asks' = asks \ {e.r} /\ UNCHANGED <<up, held, visit, mounted>>
          /\ room' = None \/ room' = room
          /\ overlay' = overlay \/ overlay' = FALSE
          /\ view' \in {"lobby", view}
          /\ joined' \in BOOLEAN /\ loading' \in BOOLEAN /\ pw' \in BOOLEAN /\ err' \in BOOLEAN
          /\ lapses' \subseteq lapses \cup {"member", "shown"}
      BY <1>8, LeaveAckCases DEF TypeInv, PageTyped
    <2>. QED BY <1>2, <2>1 DEF TypeInv, NetTyped, PageTyped
  <1>. QED BY <1>1, <1>3, <1>4, <1>5, <1>6, <1>7, <1>8

\* Steps of the server keep the types.
LEMMA ServerTyped ==
    ASSUME TypeInv, srv' \in Rooms, up' \subseteq Requests, answers' \subseteq Oks,
           NEW es \in Seq(Events), Emit(es), UNCHANGED <<net, page, store>>,
           lapses' \subseteq lapses \cup {"member", "shown"}
    PROVE  TypeInv'
  <1>1. down' \in Seq(Events)
    BY EmitTyped
  <1>. QED BY <1>1 DEF TypeInv, NetTyped, PageTyped, net, page, store

LEMMA InitTyped == Init => TypeInv
  <1> SUFFICES ASSUME Init PROVE TypeInv
    OBVIOUS
  <1>1. srv \in Rooms
    BY NewRoomTyped DEF Init
  <1>2. <<>> \in Seq(Events) /\ 0 \in 0..MaxVisits
    BY RoomPageAssumption
  <1>. QED BY <1>1, <1>2 DEF Init, TypeInv, NetTyped, PageTyped

LEMMA HandlersTyped ==
    ASSUME TypeInv, HandleJoin \/ HandleQuit \/ (\E by, n: HandleLeave(by, n)) \/ Answered
    PROVE  TypeInv'
  <1>0. up \subseteq Requests /\ answers \subseteq Oks
    BY DEF TypeInv, NetTyped
  <1>1. CASE HandleJoin
    <2>1. PICK r \in up, es \in Seq(Events):
             /\ up' = up \ {r} /\ srv' \in Rooms /\ Emit(es) /\ ServerOnly
             /\ answers' = answers \/ (answers' \subseteq answers \cup {Ack(r, "ok", srv')} /\ Ack(r, "ok", srv') \in Oks)
      BY <1>1, JoinTyped DEF TypeInv, NetTyped
    <2>2. up' \subseteq Requests /\ answers' \subseteq Oks
      BY <1>0, <2>1
    <2>. QED BY <2>1, <2>2, ServerTyped DEF ServerOnly
  <1>2. CASE HandleQuit
    <2>1. PICK r \in up:
             /\ r \in Buttons /\ up' = up \ {r} /\ srv' \in Rooms
             /\ \/ /\ Emit(<<Over, Room(Opened(srv))>> \o Answer(r, "ok"))
                   /\ <<Over, Room(Opened(srv))>> \in Seq(Events) /\ Answer(r, "ok") \in Seq(Events)
                \/ Emit(Answer(r, "gone")) /\ Answer(r, "gone") \in Seq(Events)
             /\ Overtaken(r, srv')
             /\ UNCHANGED <<answers, net, page, store>>
      BY <1>2, QuitTyped
    <2>2. \E es \in Seq(Events): Emit(es)
      <3>1. CASE /\ Emit(<<Over, Room(Opened(srv))>> \o Answer(r, "ok"))
                 /\ <<Over, Room(Opened(srv))>> \in Seq(Events) /\ Answer(r, "ok") \in Seq(Events)
        BY <3>1, Appended
      <3>. QED BY <2>1, <3>1
    <2>3. lapses' \subseteq lapses \cup {"member", "shown"}
      BY <2>1 DEF Overtaken
    <2>4. up' \subseteq Requests /\ answers' \subseteq Oks
      BY <1>0, <2>1
    <2>. QED BY <2>1, <2>2, <2>3, <2>4, ServerTyped
  <1>3. ASSUME NEW by, NEW n, HandleLeave(by, n)
        PROVE  TypeInv'
    <2>1. PICK r \in up, es \in Seq(Events):
             /\ up' = up \ {r} /\ srv' \in Rooms /\ Emit(es)
             /\ Overtaken(r, srv')
             /\ UNCHANGED <<answers, net, page, store>>
      BY <1>3, LeaveTyped
    <2>2. lapses' \subseteq lapses \cup {"member", "shown"}
      BY <2>1 DEF Overtaken
    <2>3. up' \subseteq Requests /\ answers' \subseteq Oks
      BY <1>0, <2>1
    <2>. QED BY <2>1, <2>2, <2>3, ServerTyped
  <1>4. CASE Answered
    <2>1. PICK a \in answers: /\ answers' = answers \ {a} /\ Emit(<<a>>)
                              /\ UNCHANGED <<srv, up>> /\ ServerOnly
      BY <1>4 DEF Answered
    <2>2. a \in Events
      BY <1>0 DEF Events, Acks
    <2>3. <<a>> \in Seq(Events)
      BY <2>2, Single
    <2>4. srv' \in Rooms /\ up' \subseteq Requests /\ answers' \subseteq Oks
      BY <1>0, <2>1 DEF TypeInv, NetTyped
    <2>. QED BY <2>1, <2>3, <2>4, ServerTyped DEF ServerOnly
  <1>. QED BY <1>1, <1>2, <1>3, <1>4

LEMMA TypeNext ==
    ASSUME TypeInv, RoomOK(srv), [Next]_vars
    PROVE  TypeInv'
  <1>1. CASE OpenRoom
    BY <1>1, MountTyped DEF OpenRoom, TypeInv, NetTyped, PageTyped
  <1>2. CASE CreateRoom
    <2>1. CASE UNCHANGED <<srv, up, held, asks, page, store>>
      BY <1>2, <2>1, CreateCases, RoomPageAssumption DEF TypeInv, NetTyped, PageTyped, page, store
    <2>2. CASE (\E l \in BOOLEAN: srv' = NewRoom("waiting", {}, Me, l)) /\ Mount
      <3>1. srv' \in Rooms
        BY <2>2, NewRoomTyped
      <3>. QED BY <1>2, <2>2, <3>1, CreateCases, MountTyped, RoomPageAssumption
               DEF TypeInv, NetTyped, PageTyped
    <2>. QED BY <1>2, <2>1, <2>2, CreateCases, RoomPageAssumption
  <1>3. CASE LeavePage
    <2>1. up' \subseteq Requests /\ held' \subseteq Requests /\ asks' \subseteq Requests
      BY <1>3, CleanupTyped, SendTyped DEF LeavePage
    <2>. QED BY <1>3, <2>1 DEF LeavePage, Lapse, TypeInv, NetTyped, PageTyped, store
  <1>4. CASE ChangeLanguage
    <2>1. /\ up' \subseteq Requests /\ held' \subseteq Requests /\ asks' \subseteq Requests
          /\ visit' \in 0..MaxVisits /\ visit' = visit + 1
          /\ loading' = TRUE /\ err' = FALSE /\ joined' = FALSE /\ room' = None /\ overlay' = FALSE
      BY <1>4, CleanupTyped, AttemptTyped DEF ChangeLanguage
    <2>. QED BY <1>4, <2>1 DEF ChangeLanguage, Lapse, TypeInv, NetTyped, PageTyped
  <1>5. CASE SubmitPassword
    <2>1. Req("join", "form", visit) \in Requests
      BY RequestTyped DEF TypeInv, PageTyped, Requests
    <2>2. up' \subseteq Requests /\ held' \subseteq Requests /\ asks' \subseteq Requests
      BY <1>5, <2>1, SendTyped DEF SubmitPassword
    <2>. QED BY <1>5, <2>2 DEF SubmitPassword, Reset, TypeInv, NetTyped, PageTyped
  <1>6. CASE ClickLeave \/ ClickQuit
    <2>1. Req("leave", "button", visit) \in Requests /\ Req("quit", "button", visit) \in Requests
      BY RequestTyped DEF TypeInv, PageTyped, Requests
    <2>. QED BY <1>6, <2>1, ClickTyped DEF ClickLeave, ClickQuit
  <1>7. CASE Happens
    <2>1. PICK s, es: HappensTo(s, es)
      BY <1>7, HappensCases
    <2>2. /\ srv' \in Rooms /\ es \in Seq(Events) /\ Emit(es) /\ UNCHANGED <<net, page, store>>
          /\ UNCHANGED <<up, answers>> /\ lapses' \subseteq lapses \cup {"member", "shown"}
      BY <2>1 DEF HappensTo, Untouched
    <2>. QED BY <2>2, ServerTyped DEF TypeInv, NetTyped
  <1>8. CASE HandleJoin \/ HandleQuit \/ (\E by, n: HandleLeave(by, n)) \/ Answered
    BY <1>8, HandlersTyped
  <1>9. CASE Receive
    BY <1>9, ReceiveTyped
  <1>10. CASE AckTimeout
    BY <1>10, FailTyped DEF AckTimeout, TypeInv, NetTyped, PageTyped, store
  <1>11. CASE WaitTimeout
    <2>1. held' \subseteq held
      BY <1>11 DEF WaitTimeout
    <2>. QED BY <1>11, <2>1, FailTyped DEF WaitTimeout, TypeInv, NetTyped, PageTyped, store
  <1>12. CASE Drop
    <2>1. up' \subseteq up /\ answers' = {} /\ down' = <<>> /\ <<>> \in Seq(Events)
      BY <1>12 DEF Drop
    <2>. QED BY <1>12, <2>1, FailTyped DEF Drop, TypeInv, NetTyped, PageTyped, store
  <1>13. CASE Connect
    <2>1. Req("join", "socket", 0) \in Requests
      <3>1. 0 \in 0..MaxVisits
        BY RoomPageAssumption
      <3>. QED BY <3>1, RequestTyped DEF Requests
    <2>2. up' \subseteq Requests /\ held' = {} /\ asks' \subseteq Requests
      BY <1>13, <2>1 DEF Connect, TypeInv, NetTyped
    <2>3. room' = room \/ room' = None
      BY <1>13 DEF Connect, Reset, store
    <2>4. overlay' \in BOOLEAN
      BY <1>13 DEF Connect, Reset, store, TypeInv, PageTyped
    <2>. QED BY <1>13, <2>2, <2>3, <2>4 DEF Connect, TypeInv, NetTyped, PageTyped, page
  <1>14. CASE UNCHANGED vars
    BY <1>14 DEF vars, net, page, store, TypeInv, NetTyped, PageTyped
  <1>. QED BY <1>1, <1>2, <1>3, <1>4, <1>5, <1>6, <1>7, <1>8, <1>9, <1>10, <1>11, <1>12, <1>13,
              <1>14 DEF Next, Happens

-----------------------------------------------------------------------------
(* The room and the result of a match.                                     *)

\* While a result is shown, or on its way, the user is not ready.
ResultInv == overlay \/ (\E i \in DOMAIN down: down[i].k = "over") => Me \notin srv.ready

\* Nothing happens to a room that is not there.
NoneInv == srv.phase = "none" =>
               /\ up = {} /\ held = {} /\ asks = {} /\ answers = {} /\ down = <<>>
               /\ view = "lobby" /\ room = None /\ ~overlay

ServerInv == RoomOK(srv) /\ ResultInv /\ NoneInv

\* Events that were under way before, or are sent now.
LEMMA Emitted ==
    ASSUME TypeInv, NEW es \in Seq(Events), Emit(es)
    PROVE  /\ \A i \in DOMAIN down': \/ i \in DOMAIN down /\ down'[i] = down[i]
                                     \/ conn /\ \E j \in DOMAIN es: i = Len(down) + j /\ down'[i] = es[j]
           /\ \A i \in DOMAIN down: i \in DOMAIN down' /\ down'[i] = down[i]
           /\ conn => \A j \in DOMAIN es: Len(down) + j \in DOMAIN down' /\ down'[Len(down) + j] = es[j]
           /\ DOMAIN down = 1..Len(down) /\ Len(down) \in Nat /\ DOMAIN es \subseteq Nat \ {0}
           /\ DOMAIN down' \subseteq Nat \ {0}
           /\ ~conn => down' = down
  <1>0. down \in Seq(Events) /\ DOMAIN down = 1..Len(down) /\ Len(down) \in Nat /\ DOMAIN es \subseteq Nat \ {0}
    BY DEF TypeInv, NetTyped
  <1>1. CASE ~conn
    <2>1. down' = down
      BY <1>1 DEF Emit
    <2>2. DOMAIN down' \subseteq Nat \ {0}
      BY <1>0, <2>1
    <2>. QED BY <1>0, <1>1, <2>1, <2>2
  <1>2. CASE conn
    <2>1. down' = down \o es
      BY <1>2 DEF Emit
    <2>2. \A i \in DOMAIN down: i \in DOMAIN down' /\ down'[i] = down[i]
      BY <1>0, <2>1, Appended
    <2>3. \A j \in DOMAIN es: Len(down) + j \in DOMAIN down' /\ down'[Len(down) + j] = es[j]
      BY <1>0, <2>1, Appended
    <2>4. ASSUME NEW i \in DOMAIN down', i \notin DOMAIN down
          PROVE  \E j \in DOMAIN es: i = Len(down) + j /\ down'[i] = es[j]
      <3>1. i - Len(down) \in DOMAIN es /\ down'[i] = es[i - Len(down)]
        BY <1>0, <2>1, <2>4, Appended
      <3>2. i \in Nat
        <4>1. down' \in Seq(Events)
          BY EmitTyped
        <4>. QED BY <4>1
      <3>3. i = Len(down) + (i - Len(down))
        BY <1>0, <3>2
      <3>. QED BY <3>1, <3>3
    <2>5. DOMAIN down' \subseteq Nat \ {0}
      <3>1. down' \in Seq(Events)
        BY EmitTyped
      <3>. QED BY <3>1
    <2>. QED BY <1>0, <1>2, <2>2, <2>3, <2>4, <2>5
  <1>. QED BY <1>1, <1>2

LEMMA ServerInvStep ==
    ASSUME TypeInv, ServerInv, [Next]_vars
    PROVE  ServerInv'
  <1>0. srv \in Rooms /\ Me # Other /\ srv.members \subseteq {Me, Other} /\ srv.ready \subseteq {Me, Other}
    BY RoomPageAssumption DEF TypeInv, NetTyped, Rooms
  \* Steps of the tab that touch neither the room nor what is shown, or empty it.
  <1>a. ASSUME srv' = srv, down' = down, (overlay' => overlay), srv.phase # "none"
        PROVE  ServerInv'
    BY <1>a DEF ServerInv, RoomOK, ResultInv, NoneInv
  <1>b. ASSUME srv' = srv, srv.phase = "none", UNCHANGED <<up, held, asks, answers, down, page, store>>
        PROVE  ServerInv'
    BY <1>b DEF ServerInv, RoomOK, ResultInv, NoneInv, page, store
  <1>1. CASE OpenRoom
    <2>1. srv.phase # "none" /\ srv' = srv /\ down' = down /\ overlay' = FALSE
      BY <1>1, MountTyped DEF OpenRoom
    <2>. QED BY <1>a, <2>1
  <1>2. CASE CreateRoom
    <2>1. CASE UNCHANGED <<srv, up, held, asks, page, store>>
      BY <1>2, <2>1, <1>b, CreateCases, RoomPageAssumption
    <2>2. CASE (\E l \in BOOLEAN: srv' = NewRoom("waiting", {}, Me, l)) /\ Mount
      <3>1. srv'.phase = "waiting" /\ srv'.members = {} /\ srv'.ready = {}
        BY <2>2 DEF NewRoom
      <3>2. overlay' = FALSE /\ down' = down
        BY <1>2, <2>2, CreateCases, MountTyped, RoomPageAssumption
      <3>. QED BY <3>1, <3>2 DEF ServerInv, RoomOK, ResultInv, NoneInv
    <2>. QED BY <1>2, <2>1, <2>2, CreateCases, RoomPageAssumption
  <1>3. CASE LeavePage
    <2>1. srv.phase # "none" /\ srv' = srv /\ down' = down /\ overlay' = overlay
      BY <1>3 DEF LeavePage, store, ServerInv, NoneInv
    <2>. QED BY <1>a, <2>1
  <1>4. CASE ChangeLanguage
    <2>1. srv.phase # "none" /\ srv' = srv /\ down' = down /\ overlay' = FALSE
      BY <1>4 DEF ChangeLanguage, Attempt, Reset, ServerInv, NoneInv
    <2>. QED BY <1>a, <2>1
  <1>5. CASE SubmitPassword
    <2>1. srv.phase # "none" /\ srv' = srv /\ down' = down /\ overlay' = FALSE
      BY <1>5 DEF SubmitPassword, Reset, ServerInv, NoneInv
    <2>. QED BY <1>a, <2>1
  <1>6. CASE ClickLeave \/ ClickQuit
    <2>1. srv.phase # "none"
      BY <1>6 DEF ClickLeave, ClickQuit, Screen, ServerInv, NoneInv
    <2>2. srv' = srv /\ down' = down /\ overlay' = overlay
      BY <1>6 DEF ClickLeave, ClickQuit, Click, store
    <2>. QED BY <1>a, <2>1, <2>2
  <1>7. CASE Happens
    <2>1. PICK s, es: HappensTo(s, es)
      BY <1>7, HappensCases DEF ServerInv
    <2>2. /\ srv' = s /\ RoomOK(s) /\ s.phase # "none" /\ overlay' = overlay
          /\ es \in Seq(Events) /\ Emit(es)
          /\ \A i \in DOMAIN es: es[i].k = "over" => s.ready = {}
          /\ Me \in s.ready \ srv.ready => ~overlay /\ down = <<>> /\ \A i \in DOMAIN es: es[i].k # "over"
      BY <2>1 DEF HappensTo, Untouched, store
    <2>3. ResultInv'
      <3>1. SUFFICES ASSUME Me \in srv'.ready
                     PROVE  ~overlay' /\ \A i \in DOMAIN down': down'[i].k # "over"
        BY DEF ResultInv
      <3>2. ~overlay /\ \A i \in DOMAIN down: down[i].k # "over"
        <4>1. CASE Me \in srv.ready
          BY <4>1 DEF ServerInv, ResultInv
        <4>2. CASE Me \notin srv.ready
          <5>1. ~overlay /\ down = <<>>
            BY <2>2, <3>1, <4>2
          <5>. QED BY <5>1
        <4>. QED BY <4>1, <4>2
      <3>3. \A i \in DOMAIN es: es[i].k # "over"
        BY <2>2, <3>1
      <3>4. \A i \in DOMAIN down': \/ i \in DOMAIN down /\ down'[i] = down[i]
                                   \/ \E j \in DOMAIN es: down'[i] = es[j]
        BY <2>2, Emitted
      <3>. QED BY <2>2, <3>2, <3>3, <3>4
    <2>. QED BY <2>2, <2>3 DEF ServerInv, NoneInv
  \* A handler keeps who is ready, or ends what the user was ready for.
  <1>c. ASSUME srv' = srv \/ Me \notin srv'.ready, RoomOK(srv'), srv.phase # "none", srv'.phase # "none",
               NEW es \in Seq(Events), Emit(es),
               (\E i \in DOMAIN es: es[i].k = "over") => Me \notin srv'.ready, UNCHANGED store
        PROVE  ServerInv'
    <2>1. \A i \in DOMAIN down': \/ i \in DOMAIN down /\ down'[i] = down[i]
                                 \/ \E j \in DOMAIN es: down'[i] = es[j]
      BY <1>c, Emitted
    <2>2. ResultInv'
      BY <1>c, <2>1 DEF ResultInv, ServerInv, store
    <2>. QED BY <1>c, <2>2 DEF ServerInv, NoneInv
  <1>d. ASSUME NEW r, NEW why
        PROVE  \A i \in DOMAIN Answer(r, why): Answer(r, why)[i].k = "ack"
    BY DEF Answer, Ack
  <1>8. CASE HandleJoin
    <2>1. PICK r \in up:
             /\ \/ /\ JoinRefused(r) = "no" /\ srv' = [srv EXCEPT !.members = @ \cup {Me}]
                   /\ Emit(<<Room(srv')>>) /\ <<Room(srv')>> \in Seq(Events)
                \/ \E why \in {"closed", "active", "password"}:
                     /\ UNCHANGED <<srv, answers>>
                     /\ Emit(Answer(r, why)) /\ Answer(r, why) \in Seq(Events)
             /\ srv' \in Rooms
             /\ ServerOnly
      BY <1>8, JoinTyped
    <2>2. srv.phase # "none"
      BY DEF ServerInv, NoneInv
    <2>3. CASE /\ JoinRefused(r) = "no" /\ srv' = [srv EXCEPT !.members = @ \cup {Me}]
               /\ Emit(<<Room(srv')>>) /\ <<Room(srv')>> \in Seq(Events)
      <3>1. srv'.members = srv.members \cup {Me} /\ srv'.ready = srv.ready /\ srv'.phase = srv.phase
        BY <1>0, <2>3 DEF Rooms
      <3>2. srv.phase # "closed" /\ (srv.phase = "active" => Me \in srv.members)
        BY <2>3 DEF JoinRefused
      <3>3. RoomOK(srv')
        BY <2>2, <3>1, <3>2 DEF ServerInv, RoomOK
      <3>4. Room(srv').k = "room"
        BY DEF Room
      <3>5. \A i \in DOMAIN <<Room(srv')>>: <<Room(srv')>>[i].k = "room"
        BY <3>4
      <3>6. \A i \in DOMAIN down': (i \in DOMAIN down /\ down'[i] = down[i]) \/ down'[i].k = "room"
        <4>1. PICK es \in Seq(Events): Emit(es) /\ \A j \in DOMAIN es: es[j].k = "room"
          BY <2>3, <3>5
        <4>. QED BY <4>1, Emitted
      <3>7. ResultInv'
        BY <2>1, <3>1, <3>6 DEF ServerInv, ResultInv, ServerOnly, store
      <3>. QED BY <2>2, <3>1, <3>3, <3>7 DEF ServerInv, NoneInv
    <2>4. CASE \E why \in {"closed", "active", "password"}:
                     /\ UNCHANGED <<srv, answers>>
                     /\ Emit(Answer(r, why)) /\ Answer(r, why) \in Seq(Events)
      <3>1. PICK why: srv' = srv /\ Emit(Answer(r, why)) /\ Answer(r, why) \in Seq(Events)
        BY <2>4
      <3>2. ~\E i \in DOMAIN Answer(r, why): Answer(r, why)[i].k = "over"
        BY <1>d
      <3>3. RoomOK(srv')
        BY <3>1 DEF ServerInv
      <3>. QED BY <1>c, <2>1, <2>2, <3>1, <3>2, <3>3 DEF ServerOnly
    <2>. QED BY <2>1, <2>3, <2>4
  <1>9. CASE HandleQuit
    <2>1. PICK r \in up:
             /\ \/ /\ srv.phase = "active" /\ Me \in srv.members /\ srv' = Without(Opened(srv), Me)
                   /\ Emit(<<Over, Room(Opened(srv))>> \o Answer(r, "ok"))
                   /\ <<Over, Room(Opened(srv))>> \in Seq(Events) /\ Answer(r, "ok") \in Seq(Events)
                \/ /\ UNCHANGED srv
                   /\ Emit(Answer(r, "gone")) /\ Answer(r, "gone") \in Seq(Events)
             /\ UNCHANGED <<answers, net, page, store>>
      BY <1>9, QuitTyped
    <2>2. srv.phase # "none"
      BY DEF ServerInv, NoneInv
    <2>3. CASE /\ srv.phase = "active" /\ Me \in srv.members /\ srv' = Without(Opened(srv), Me)
               /\ Emit(<<Over, Room(Opened(srv))>> \o Answer(r, "ok"))
               /\ <<Over, Room(Opened(srv))>> \in Seq(Events) /\ Answer(r, "ok") \in Seq(Events)
      <3>1. /\ Opened(srv) \in Rooms /\ Opened(srv).phase = "waiting" /\ Opened(srv).ready = {}
            /\ Opened(srv).members = {Me, Other}
        BY <1>0, <2>3, OpenedTyped DEF ServerInv, RoomOK
      <3>0. Me \in Opened(srv).members /\ {Me, Other} \ {Me} = {Other} /\ {Me, Other} # {Me}
        BY <1>0, <3>1
      <3>2. srv'.members = {Other} /\ srv'.ready = {} /\ srv'.phase = "waiting"
        BY <2>3, <3>0, <3>1, WithoutTyped, RoomPageAssumption
      <3>3. RoomOK(srv')
        BY <3>2 DEF RoomOK
      <3>4. <<Over, Room(Opened(srv))>> \o Answer(r, "ok") \in Seq(Events)
        BY <2>3, Appended
      <3>. QED BY <1>c, <2>1, <2>2, <2>3, <3>2, <3>3, <3>4
    <2>4. CASE UNCHANGED srv /\ Emit(Answer(r, "gone")) /\ Answer(r, "gone") \in Seq(Events)
      <3>1. RoomOK(srv')
        BY <2>4 DEF ServerInv
      <3>2. ~\E i \in DOMAIN Answer(r, "gone"): Answer(r, "gone")[i].k = "over"
        BY <1>d
      <3>. QED BY <1>c, <2>1, <2>2, <2>4, <3>1, <3>2
    <2>. QED BY <2>1, <2>3, <2>4
  <1>10. ASSUME NEW by, NEW n, HandleLeave(by, n) PROVE ServerInv'
    <2>1. PICK r \in up:
             /\ \/ /\ srv.phase = "waiting" /\ Me \in srv.members /\ srv' = Without(srv, Me)
                   /\ Emit(Answer(r, "ok")) /\ Answer(r, "ok") \in Seq(Events)
                \/ /\ UNCHANGED srv
                   /\ \E why: Emit(Answer(r, why)) /\ Answer(r, why) \in Seq(Events)
             /\ UNCHANGED <<answers, net, page, store>>
      BY <1>10, LeaveTyped
    <2>2. srv.phase # "none"
      BY DEF ServerInv, NoneInv
    <2>3. CASE /\ srv.phase = "waiting" /\ Me \in srv.members /\ srv' = Without(srv, Me)
               /\ Emit(Answer(r, "ok")) /\ Answer(r, "ok") \in Seq(Events)
      <3>1. /\ srv'.members = srv.members \ {Me} /\ srv'.ready = srv.ready \ {Me}
            /\ srv'.phase = IF srv.members = {Me} THEN "closed" ELSE "waiting"
        BY <1>0, <2>3, WithoutTyped, RoomPageAssumption
      <3>2. RoomOK(srv') /\ Me \notin srv'.ready /\ srv'.phase # "none"
        BY <3>1 DEF ServerInv, RoomOK
      <3>. QED BY <1>c, <2>1, <2>2, <2>3, <3>2
    <2>4. CASE UNCHANGED srv /\ \E why: Emit(Answer(r, why)) /\ Answer(r, why) \in Seq(Events)
      <3>1. PICK why: Emit(Answer(r, why)) /\ Answer(r, why) \in Seq(Events)
        BY <2>4
      <3>2. ~\E i \in DOMAIN Answer(r, why): Answer(r, why)[i].k = "over"
        BY <1>d
      <3>3. RoomOK(srv')
        BY <2>4 DEF ServerInv
      <3>. QED BY <1>c, <2>1, <2>2, <2>4, <3>1, <3>2, <3>3
    <2>. QED BY <2>1, <2>3, <2>4
  <1>11. CASE Answered
    <2>1. PICK a \in answers: srv' = srv /\ Emit(<<a>>) /\ UNCHANGED store
      BY <1>11 DEF Answered, ServerOnly
    <2>2. a \in Events /\ a.k = "ack"
      BY DEF TypeInv, NetTyped, Events, Acks, Oks
    <2>3. srv.phase # "none" /\ RoomOK(srv')
      BY <2>1 DEF ServerInv, NoneInv
    <2>4. <<a>> \in Seq(Events) /\ ~\E i \in DOMAIN <<a>>: <<a>>[i].k = "over"
      BY <2>2, Single
    <2>. QED BY <1>c, <2>1, <2>3, <2>4
  <1>12. CASE Receive
    <2>1. PICK e \in Events:
            /\ Arrives(e)
            /\ \/ e.k = "room" /\ e.room \in Snapshots /\ OnRoom(e.room)
               \/ e.k = "kicked" /\ OnKicked
               \/ e.k = "over" /\ OnOver
               \/ e.k = "ack" /\ e.r \notin asks /\ Ignored
               \/ e.k = "ack" /\ e \in Acks /\ e.r \in asks /\ e.r.k = "join" /\ OnJoinAck(e)
               \/ e.k = "ack" /\ e \in Acks /\ e.r \in asks /\ e.r.k # "join" /\ OnLeaveAck(e)
      BY <1>12, ReceiveCases
    <2>2. /\ srv' = srv /\ down # <<>> /\ down' = Tail(down) /\ down \in Seq(Events)
          /\ e = down[1] /\ 1 \in DOMAIN down
      BY <2>1, Taken DEF Arrives, TypeInv, NetTyped
    <2>3. \A i \in DOMAIN down': i + 1 \in DOMAIN down /\ down'[i] = down[i + 1]
      BY <2>2, Taken
    <2>4. srv.phase # "none"
      BY <2>2 DEF ServerInv, NoneInv
    <2>5. overlay' => overlay \/ e.k = "over"
      <3>1. CASE e.k = "room" /\ OnRoom(e.room)
        BY <3>1 DEF OnRoom
      <3>2. CASE OnKicked
        BY <3>2 DEF OnKicked, Reset
      <3>3. CASE Ignored
        BY <3>3 DEF Ignored, store
      <3>4. CASE e \in Acks /\ e.r.k = "join" /\ OnJoinAck(e)
        BY <3>4, JoinAckTyped
      <3>5. CASE e \in Acks /\ e.r.k # "join" /\ OnLeaveAck(e)
        BY <3>5, LeaveAckCases
      <3>. QED BY <2>1, <3>1, <3>2, <3>3, <3>4, <3>5
    <2>6. ResultInv'
      BY <2>2, <2>3, <2>5 DEF ServerInv, ResultInv
    <2>. QED BY <2>2, <2>4, <2>6 DEF ServerInv, NoneInv
  <1>13. CASE AckTimeout
    <2>1. srv' = srv /\ down' = down /\ overlay' = overlay /\ asks # {}
      BY <1>13 DEF AckTimeout, store
    <2>2. srv.phase # "none"
      BY <2>1 DEF ServerInv, NoneInv
    <2>. QED BY <1>a, <2>1, <2>2
  <1>14. CASE WaitTimeout
    <2>1. srv' = srv /\ down' = down /\ overlay' = overlay /\ held # {}
      BY <1>14 DEF WaitTimeout, store
    <2>2. srv.phase # "none"
      BY <2>1 DEF ServerInv, NoneInv
    <2>. QED BY <1>a, <2>1, <2>2
  <1>15. CASE Drop
    <2>1. /\ srv' = srv /\ down' = <<>> /\ UNCHANGED <<held, view, room, overlay>>
          /\ up' \subseteq up /\ answers' = {} /\ asks' = asks \ asks
      BY <1>15 DEF Drop, Fail, store
    <2>. QED BY <2>1 DEF ServerInv, RoomOK, ResultInv, NoneInv
  <1>16. CASE Connect
    <2>1. /\ srv' = srv /\ down' = down /\ (overlay' => overlay)
      BY <1>16 DEF Connect, Reset, store
    <2>2. CASE srv.phase = "none"
      <3>1. srv.members = {} /\ room = None
        BY <2>2 DEF ServerInv, RoomOK, NoneInv
      <3>2. UNCHANGED <<asks, up, held, answers, page, store>>
        BY <1>16, <2>2, <3>1 DEF Connect, ServerInv, NoneInv
      <3>. QED BY <1>b, <2>1, <2>2, <3>2
    <2>. QED BY <1>a, <2>1, <2>2
  <1>17. CASE UNCHANGED vars
    <2>1. srv' = srv /\ UNCHANGED <<up, held, asks, answers, down, page, store>>
      BY <1>17 DEF vars, net
    <2>. QED BY <1>a, <1>b, <2>1 DEF store
  <1>. QED BY <1>1, <1>2, <1>3, <1>4, <1>5, <1>6, <1>7, <1>8, <1>9, <1>10, <1>11, <1>12, <1>13,
              <1>14, <1>15, <1>16, <1>17 DEF Next, Happens

LEMMA ServerInvInit == Init => ServerInv
  <1> SUFFICES ASSUME Init PROVE ServerInv
    OBVIOUS
  <1>1. /\ srv.phase \in {"none", "waiting"} /\ srv.ready = {}
        /\ srv.phase = "none" => srv.members = {}
    BY DEF Init, NewRoom
  <1>. QED BY <1>1 DEF Init, ServerInv, RoomOK, ResultInv, NoneInv

LEMMA TypesHold == Spec => [](TypeInv /\ ServerInv)
  <1>1. Init => TypeInv /\ ServerInv
    BY InitTyped, ServerInvInit
  <1>2. TypeInv /\ ServerInv /\ [Next]_vars => (TypeInv /\ ServerInv)'
    BY TypeNext, ServerInvStep DEF ServerInv
  <1>. QED BY <1>1, <1>2, PTL DEF Spec

\* While the result of a match is on the screen (matchSettled of store/game.ts),
\* a user who is still a member is not ready, and no match is on: the reset of
\* the ready flags at the end of a match (room_handlers.py) reaches the tab
\* before anybody can be ready again.
THEOREM ResultIsAlone == Spec => []ResultCoversNoMatch
  <1>1. TypeInv /\ ServerInv => ResultCoversNoMatch
    BY DEF ServerInv, RoomOK, ResultInv, ResultCoversNoMatch
  <1>. QED BY <1>1, TypesHold, PTL

-----------------------------------------------------------------------------
(* The form that creates a room.                                           *)

LEMMA Refusal ==
    ASSUME RoomPageAssumption, NEW f, FormAccepts(f), ~ServerAccepts(Rules(f)), refused' = Rules(f)
    PROVE  RefusalIsKnown'
  <1> DEFINE r == Rules(f)
  <1>1. /\ r.players = f.players /\ r.chips = f.chips /\ r.small = f.small /\ r.big = f.big
        /\ r.ante = f.ante /\ r.increase = f.increase
        /\ r.hands = (IF f.fixed THEN f.hands ELSE None) /\ r.time = (IF f.timed THEN f.time ELSE None)
    BY DEF Rules
  <1> HIDE DEF r
  <1>2. /\ f.players \in 2..8 /\ f.chips >= 100 /\ f.small >= 1
        /\ f.increase \in 5..100
        /\ r.time # None => f.timed /\ r.time = f.time /\ f.time \in 10..300
    <2>1. f.players \in 2..8 /\ f.chips \in 100..MostChips /\ f.small \in 1..MostSmall /\ f.increase \in 5..100
      BY DEF FormAccepts
    <2>2. f.timed => f.time \in 10..300
      BY DEF FormAccepts
    <2>3. f.chips >= 100 /\ f.small >= 1
      BY <2>1
    <2>. QED BY <1>1, <2>1, <2>2, <2>3
  <1>3. r.time # None => r.time >= 1
    BY <1>2
  <1>4. f.increase \in 2..20 \/ f.increase > 20
    BY <1>2
  <1>5. \/ r.big # 2 * r.small \/ r.ante # 0
        \/ (r.hands # None /\ r.hands \notin 5..20) \/ r.increase > 20
    <2>1. ~ServerAccepts(r)
      BY DEF r
    <2>. QED BY <1>1, <1>2, <1>3, <1>4, <2>1 DEF ServerAccepts
  <1>6. refused' = r
    BY DEF r
  <1>. QED BY <1>5, <1>6 DEF RefusalIsKnown

\* Whatever is typed into the form (Lobby.tsx, handleCreateSubmit), the server
\* (RoomRules in schemas) refuses it only for what the form does not ask.
THEOREM RefusalsAreKnown == Spec => []RefusalIsKnown
  <1>1. Init => RefusalIsKnown
    BY DEF Init, RefusalIsKnown
  <1>2. ASSUME RefusalIsKnown, [Next]_vars
        PROVE  RefusalIsKnown'
    <2>1. CASE CreateRoom
      <3>1. CASE refused' = None
        BY <3>1 DEF RefusalIsKnown
      <3>2. CASE \E f: FormAccepts(f) /\ ~ServerAccepts(Rules(f)) /\ refused' = Rules(f)
        BY <3>2, Refusal, RoomPageAssumption
      <3>. QED BY <2>1, <3>1, <3>2, CreateCases, RoomPageAssumption
    <2>2. CASE UNCHANGED refused
      BY <1>2, <2>2 DEF RefusalIsKnown
    <2>3. [Next]_vars => CreateRoom \/ UNCHANGED refused
      <3>1. CASE \/ OpenRoom \/ LeavePage \/ ChangeLanguage \/ SubmitPassword \/ ClickLeave \/ ClickQuit
        BY <3>1 DEF OpenRoom, LeavePage, ChangeLanguage, SubmitPassword, ClickLeave, ClickQuit, Click
      <3>2. CASE ClickReady \/ ClickStart \/ ClickKick
        BY <3>2 DEF ClickReady, ClickStart, ClickKick, Command, ServerOnly
      <3>3. CASE HandleJoin \/ HandleQuit \/ Answered \/ \E by, n: HandleLeave(by, n)
        BY <3>3 DEF HandleJoin, HandleQuit, HandleLeave, Answered, ServerOnly
      <3>4. CASE OtherActs
        BY <3>4 DEF OtherActs, Elsewhere
      <3>5. CASE OtherKicks \/ MatchEnds \/ OtherQuits \/ AdminCloses
        BY <3>5 DEF OtherKicks, MatchEnds, OtherQuits, AdminCloses, Elsewhere
      <3>6. CASE Receive \/ AckTimeout \/ WaitTimeout \/ Drop \/ Connect
        BY <3>6 DEF Receive, AckTimeout, WaitTimeout, Drop, Connect
      <3>7. CASE UNCHANGED vars
        BY <3>7 DEF vars
      <3>. QED BY <3>1, <3>2, <3>3, <3>4, <3>5, <3>6, <3>7 DEF Next
    <2>. QED BY <1>2, <2>1, <2>2, <2>3
  <1>. QED BY <1>1, <1>2, PTL DEF Spec

-----------------------------------------------------------------------------
(* Where a request is: asked for, and on the way, waiting to be answered, or *)
(* answered, in one of these places only.                                    *)

Acked(r, i) == down[i].k = "ack" /\ down[i].r = r
Waits(r)    == \E a \in answers: a.r = r
Travels(r)  == r \in up \/ Waits(r) \/ \E i \in DOMAIN down: Acked(r, i)
Known(r)    == r \in asks \/ Travels(r)

PlaceInv ==
    /\ ~conn => down = <<>> /\ answers = {} /\ asks \subseteq held
    /\ conn => held = {}
    /\ held \subseteq asks /\ held \cap up = {}
    /\ \A a \in answers, b \in answers: a.r = b.r => a = b
    /\ \A a \in answers: a.r \notin up
    /\ \A i \in DOMAIN down: down[i].k = "ack" => down[i].r \notin up /\ ~Waits(down[i].r)
    /\ \A i \in DOMAIN down, j \in DOMAIN down:
         down[i].k = "ack" /\ down[j].k = "ack" /\ down[i].r = down[j].r => i = j

\* Requests that were not made before are sent.
LEMMA Sent ==
    ASSUME TypeInv, PlaceInv, NEW rs, Send(rs), UNCHANGED <<answers, down, conn>>,
           \A r \in rs: ~Known(r)
    PROVE  /\ PlaceInv'
           /\ asks' = asks \cup rs /\ up' \subseteq up \cup rs /\ up \subseteq up' /\ held \subseteq held'
           /\ rs \subseteq up' \cup held' /\ (conn => up' = up \cup rs)
           /\ \A r: Travels(r)' => Travels(r) \/ (conn /\ r \in rs)
           /\ \A r: Known(r)' => Known(r) \/ r \in rs
           /\ \A r, i: Acked(r, i)' <=> Acked(r, i)
           /\ \A r \in rs: \A i \in DOMAIN down': ~Acked(r, i)'
  <1>1. /\ asks' = asks \cup rs
        /\ IF conn THEN up' = up \cup rs /\ held' = held ELSE held' = held \cup rs /\ up' = up
    BY DEF Send
  <1>2. \A r \in rs: r \notin asks /\ r \notin up /\ ~Waits(r) /\ \A i \in DOMAIN down: ~Acked(r, i)
    BY DEF Known, Travels
  <1>3. \A r, i: Acked(r, i)' <=> Acked(r, i)
    BY DEF Acked
  <1>4. \A r: Waits(r)' <=> Waits(r)
    BY DEF Waits
  <1>5. \A r: Travels(r)' => Travels(r) \/ (conn /\ r \in rs)
    BY <1>1, <1>3, <1>4 DEF Travels
  <1>6. \A r: Known(r)' => Known(r) \/ r \in rs
    BY <1>1, <1>5 DEF Known
  <1>7. PlaceInv'
    <2>1. \A a \in answers: a.r \notin rs
      BY <1>2 DEF Waits
    <2>2. \A i \in DOMAIN down: down[i].k = "ack" => down[i].r \notin rs
      BY <1>2 DEF Acked
    <2>3. \A a \in answers': a.r \notin up'
      BY <1>1, <2>1 DEF PlaceInv
    <2>4. \A i \in DOMAIN down': down'[i].k = "ack" => down'[i].r \notin up' /\ ~Waits(down[i].r)'
      BY <1>1, <2>2, <1>4 DEF PlaceInv
    <2>5. held' \subseteq asks' /\ held' \cap up' = {} /\ (conn' => held' = {})
      BY <1>1, <1>2 DEF PlaceInv
    <2>6. ~conn' => down' = <<>> /\ answers' = {} /\ asks' \subseteq held'
      BY <1>1 DEF PlaceInv
    <2>. QED BY <2>3, <2>4, <2>5, <2>6 DEF PlaceInv
  <1>. QED BY <1>1, <1>2, <1>3, <1>5, <1>6, <1>7

\* A handler moves the request r; other events carry no acknowledgement.
Moves(r, es) ==
    \/ r \in up /\ up' = up \ {r} /\ answers' = answers
    \/ /\ r \in up /\ up' = up \ {r} /\ conn
       /\ \E a: a.r = r /\ answers' = answers \cup {a}
       /\ \A i \in DOMAIN es: es[i].k # "ack"
    \/ up' = up /\ \E a \in answers: a.r = r /\ answers' = answers \ {a}
    \/ up' = up /\ answers' = answers /\ \A i \in DOMAIN es: es[i].k # "ack"

LEMMA Moved ==
    ASSUME TypeInv, PlaceInv, NEW r, NEW es \in Seq(Events), Emit(es), UNCHANGED net, Moves(r, es),
           \A j \in DOMAIN es, k \in DOMAIN es:
               es[j].k = "ack" => es[j].r = r /\ (es[k].k = "ack" => j = k)
    PROVE  PlaceInv' /\ \A q: Travels(q)' => Travels(q)
  <1>0. UNCHANGED <<conn, held, asks>>
    BY DEF net
  <1>1. /\ \A i \in DOMAIN down': \/ i \in DOMAIN down /\ down'[i] = down[i]
                                  \/ conn /\ \E j \in DOMAIN es: i = Len(down) + j /\ down'[i] = es[j]
        /\ ~conn => down' = down
    BY Emitted
  <1>2. \A i \in DOMAIN down': down'[i].k = "ack" =>
          \/ i \in DOMAIN down /\ down'[i] = down[i]
          \/ conn /\ down'[i].r = r /\ \E j \in DOMAIN es: i = Len(down) + j /\ es[j].k = "ack"
    BY <1>1
  <1>3. \A i \in DOMAIN down', k \in DOMAIN down':
          /\ down'[i].k = "ack" /\ ~(i \in DOMAIN down /\ down'[i] = down[i])
          /\ down'[k].k = "ack" /\ ~(k \in DOMAIN down /\ down'[k] = down[k])
          => i = k
    BY <1>2
  \* The request is where it was, or not there any more.
  <1>4. (\E j \in DOMAIN es: es[j].k = "ack") =>
          /\ r \in up \/ Waits(r)
          /\ r \notin up' /\ ~Waits(r)'
    <2>1. SUFFICES ASSUME \E j \in DOMAIN es: es[j].k = "ack"
                   PROVE  (r \in up \/ Waits(r)) /\ r \notin up' /\ ~Waits(r)'
      OBVIOUS
    <2>2. CASE r \in up /\ up' = up \ {r} /\ answers' = answers
      BY <2>2 DEF PlaceInv, Waits
    <2>3. CASE up' = up /\ \E a \in answers: a.r = r /\ answers' = answers \ {a}
      <3>1. PICK a \in answers: a.r = r /\ answers' = answers \ {a}
        BY <2>3
      <3>2. Waits(r) /\ ~Waits(r)' /\ r \notin up
        BY <3>1 DEF PlaceInv, Waits
      <3>. QED BY <2>3, <3>2
    <2>. QED BY <2>1, <2>2, <2>3 DEF Moves
  <1>5. /\ \A q: q \in up' => q \in up
        /\ \A q: Waits(q)' => Waits(q) \/ (q = r /\ r \in up /\ r \notin up')
        /\ \A a \in answers': a \in answers \/ (a.r = r /\ r \in up /\ r \notin up')
    BY DEF Moves, Waits
  <1>6. \A q: Travels(q)' => Travels(q)
    <2>1. ASSUME NEW q, NEW i \in DOMAIN down', Acked(q, i)'
          PROVE  Travels(q)
      <3>1. down'[i].k = "ack" /\ down'[i].r = q
        BY <2>1 DEF Acked
      <3>2. CASE i \in DOMAIN down /\ down'[i] = down[i]
        BY <3>1, <3>2 DEF Travels, Acked
      <3>3. CASE q = r /\ \E j \in DOMAIN es: es[j].k = "ack"
        BY <3>3, <1>4 DEF Travels
      <3>. QED BY <1>2, <3>1, <3>2, <3>3
    <2>. QED BY <1>5, <2>1 DEF Travels
  <1>7. ~conn' => down' = <<>> /\ answers' = {} /\ asks' \subseteq held'
    <2>1. SUFFICES ASSUME ~conn PROVE answers' = {}
      BY <1>0, <1>1 DEF PlaceInv
    <2>2. answers = {}
      BY <2>1 DEF PlaceInv
    <2>. QED BY <2>1, <2>2 DEF Moves
  <1>8. \A a \in answers', b \in answers': a.r = b.r => a = b
    <2>1. \A a \in answers, b \in answers: a.r = b.r => a = b
      BY DEF PlaceInv
    <2>2. \A a \in answers: a.r \notin up
      BY DEF PlaceInv
    <2>3. CASE r \in up /\ \E a: a.r = r /\ answers' = answers \cup {a}
      BY <2>1, <2>2, <2>3
    <2>4. CASE answers' \subseteq answers
      BY <2>1, <2>4
    <2>. QED BY <2>3, <2>4 DEF Moves
  <1>9. \A a \in answers': a.r \notin up'
    BY <1>5 DEF PlaceInv
  <1>10. ASSUME NEW i \in DOMAIN down', down'[i].k = "ack"
         PROVE  down'[i].r \notin up' /\ ~Waits(down[i].r)'
    <2>1. CASE i \in DOMAIN down /\ down'[i] = down[i]
      <3>1. down[i].r \notin up /\ ~Waits(down[i].r)
        BY <1>10, <2>1 DEF PlaceInv
      <3>. QED BY <2>1, <3>1, <1>5
    <2>2. CASE down'[i].r = r /\ \E j \in DOMAIN es: es[j].k = "ack"
      BY <1>4, <2>2
    <2>. QED BY <1>2, <1>10, <2>1, <2>2
  <1>11. ASSUME NEW i \in DOMAIN down', NEW j \in DOMAIN down',
                down'[i].k = "ack", down'[j].k = "ack", down'[i].r = down'[j].r
         PROVE  i = j
    <2> DEFINE old(n) == n \in DOMAIN down /\ down'[n] = down[n]
    <2>1. CASE old(i) /\ old(j)
      BY <1>11, <2>1 DEF PlaceInv
    <2>2. CASE ~old(i) /\ ~old(j)
      BY <1>3, <1>11, <2>2
    <2>3. ASSUME NEW n \in DOMAIN down', NEW m \in DOMAIN down', old(n), ~old(m),
                 down'[n].k = "ack", down'[m].k = "ack", down'[n].r = down'[m].r
          PROVE  FALSE
      <3>1. down'[m].r = r /\ \E k \in DOMAIN es: es[k].k = "ack"
        BY <1>2, <2>3
      <3>2. r \in up \/ Waits(r)
        BY <1>4, <3>1
      <3>3. down[n].k = "ack" /\ down[n].r = r /\ n \in DOMAIN down
        BY <2>3, <3>1
      <3>. QED BY <3>2, <3>3 DEF PlaceInv
    <2>. QED BY <1>11, <2>1, <2>2, <2>3
  <1>12. held' \subseteq asks' /\ held' \cap up' = {} /\ (conn' => held' = {})
    BY <1>0, <1>5 DEF PlaceInv
  <1>. QED BY <1>6, <1>7, <1>8, <1>9, <1>10, <1>11, <1>12 DEF PlaceInv

\* What a request is told.
LEMMA AnswerEvents ==
    ASSUME NEW r, NEW why
    PROVE  /\ \A j \in DOMAIN Answer(r, why): j = 1 /\ Answer(r, why)[j] = Ack(r, why, srv') /\ r \in asks
           /\ r \in asks => Answer(r, why) = <<Ack(r, why, srv')>>
           /\ Ack(r, why, srv').k = "ack" /\ Ack(r, why, srv').r = r /\ Ack(r, why, srv').why = why
  BY DEF Answer, Ack

\* What every step of the server does to the requests.
ServerStep ==
    Happens \/ HandleJoin \/ HandleQuit \/ Answered \/ \E by, n: HandleLeave(by, n)

LEMMA ServerMoves ==
    ASSUME TypeInv, ServerInv, PlaceInv, ServerStep
    PROVE  /\ PlaceInv' /\ UNCHANGED <<net, page, store>> /\ lapses \subseteq lapses'
           /\ \A q: Travels(q)' => Travels(q)
  <1>1. CASE Happens
    <2>1. PICK s, es: HappensTo(s, es)
      BY <1>1, HappensCases DEF ServerInv
    <2>2. /\ es \in Seq(Events) /\ Emit(es) /\ UNCHANGED <<net, page, store>> /\ lapses \subseteq lapses'
          /\ up' = up /\ answers' = answers /\ \A i \in DOMAIN es: es[i].k \in {"room", "kicked", "over"}
      BY <2>1 DEF HappensTo, Untouched
    <2>3. \A i \in DOMAIN es: es[i].k # "ack"
      BY <2>2
    <2>4. Moves(None, es)
      BY <2>2, <2>3 DEF Moves
    <2>. QED BY <2>2, <2>3, <2>4, Moved
  <1>2. CASE HandleJoin
    <2>1. PICK r \in up:
             /\ r \in Joins /\ up' = up \ {r} /\ srv' \in Rooms
             /\ \/ /\ JoinRefused(r) = "no" /\ srv' = [srv EXCEPT !.members = @ \cup {Me}]
                   /\ Emit(<<Room(srv')>>) /\ <<Room(srv')>> \in Seq(Events)
                   /\ answers' = answers \cup (IF r \in asks THEN {Ack(r, "ok", srv')} ELSE {})
                   /\ Ack(r, "ok", srv') \in Oks
                \/ \E why \in {"closed", "active", "password"}:
                     /\ why = "closed" => srv.phase = "closed"
                     /\ why = "active" => srv.phase = "active" /\ Me \notin srv.members
                     /\ UNCHANGED <<srv, answers>>
                     /\ Emit(Answer(r, why)) /\ Answer(r, why) \in Seq(Events)
             /\ ServerOnly
      BY <1>2, JoinTyped
    <2>2. UNCHANGED <<net, page, store>> /\ lapses \subseteq lapses'
      BY <2>1 DEF ServerOnly
    <2>3. CASE /\ Emit(<<Room(srv')>>) /\ <<Room(srv')>> \in Seq(Events)
               /\ answers' = answers \cup (IF r \in asks THEN {Ack(r, "ok", srv')} ELSE {})
      <3>1. PICK es \in Seq(Events): Emit(es) /\ \A j \in DOMAIN es: es[j].k # "ack"
        <4>1. Room(srv').k = "room"
          BY DEF Room
        <4>2. \A j \in DOMAIN <<Room(srv')>>: <<Room(srv')>>[j].k # "ack"
          BY <4>1
        <4>. QED BY <2>3, <4>2
      <3>2. Moves(r, es)
        <4>1. CASE r \notin asks
          BY <2>1, <2>3, <4>1 DEF Moves
        <4>2. CASE r \in asks
          <5>1. conn
            BY <2>1, <4>2 DEF PlaceInv
          <5>2. answers' = answers \cup {Ack(r, "ok", srv')}
            BY <2>3, <4>2
          <5>. QED BY <2>1, <3>1, <5>1, <5>2, AnswerEvents DEF Moves
        <4>. QED BY <4>1, <4>2
      <3>. QED BY <2>2, <3>1, <3>2, Moved
    <2>4. CASE \E why: answers' = answers /\ Emit(Answer(r, why)) /\ Answer(r, why) \in Seq(Events)
      <3>1. PICK why: answers' = answers /\ Emit(Answer(r, why)) /\ Answer(r, why) \in Seq(Events)
        BY <2>4
      <3>2. Moves(r, Answer(r, why))
        BY <2>1, <3>1 DEF Moves
      <3>3. \A j \in DOMAIN Answer(r, why), k \in DOMAIN Answer(r, why):
               Answer(r, why)[j].k = "ack" =>
                 Answer(r, why)[j].r = r /\ (Answer(r, why)[k].k = "ack" => j = k)
        BY AnswerEvents
      <3>. QED BY <2>2, <3>1, <3>2, <3>3, Moved
    <2>. QED BY <2>1, <2>3, <2>4
  \* Leaving is answered at once.
  <1>a. ASSUME NEW r \in up, NEW why, NEW front \in Seq(Events), up' = up \ {r}, answers' = answers,
               UNCHANGED <<net, page, store>>, lapses \subseteq lapses',
               Answer(r, why) \in Seq(Events), Emit(front \o Answer(r, why)),
               \A i \in DOMAIN front: front[i].k # "ack"
        PROVE  /\ PlaceInv' /\ UNCHANGED <<net, page, store>> /\ lapses \subseteq lapses'
               /\ \A q: Travels(q)' => Travels(q)
    <2> DEFINE es == front \o Answer(r, why)
    <2>1. /\ es \in Seq(Events) /\ Len(front) \in Nat
          /\ \A i \in DOMAIN es: \/ i \in DOMAIN front /\ es[i] = front[i]
                                 \/ i - Len(front) \in DOMAIN Answer(r, why) /\ es[i] = Answer(r, why)[i - Len(front)]
          /\ DOMAIN es \subseteq Nat
      <3>1. /\ es \in Seq(Events)
            /\ \A i \in DOMAIN front: i \in DOMAIN es /\ es[i] = front[i]
            /\ \A i \in DOMAIN es: i \notin DOMAIN front =>
                 i - Len(front) \in DOMAIN Answer(r, why) /\ es[i] = Answer(r, why)[i - Len(front)]
            /\ Len(front) \in Nat
        BY <1>a, Appended
      <3> HIDE DEF es
      <3>2. DOMAIN es \subseteq Nat
        BY <3>1
      <3>. QED BY <3>1, <3>2
    <2>2. Emit(es)
      BY <1>a
    <2> HIDE DEF es
    <2>3. \A i \in DOMAIN es: es[i].k = "ack" => es[i].r = r /\ i - Len(front) = 1
      BY <1>a, <2>1, AnswerEvents
    <2>4. \A i \in DOMAIN es, k \in DOMAIN es: es[i].k = "ack" /\ es[k].k = "ack" => i = k
      BY <2>1, <2>3
    <2>5. Moves(r, es)
      BY <1>a DEF Moves
    <2>6. UNCHANGED net
      BY <1>a
    <2>7. PlaceInv' /\ \A q: Travels(q)' => Travels(q)
      BY <2>1, <2>2, <2>3, <2>4, <2>5, <2>6, Moved
    <2>. QED BY <1>a, <2>7
  <1>b. ASSUME NEW r \in up, NEW why, up' = up \ {r}, answers' = answers,
               UNCHANGED <<net, page, store>>, lapses \subseteq lapses',
               Answer(r, why) \in Seq(Events), Emit(Answer(r, why))
        PROVE  /\ PlaceInv' /\ UNCHANGED <<net, page, store>> /\ lapses \subseteq lapses'
               /\ \A q: Travels(q)' => Travels(q)
    <2>1. Moves(r, Answer(r, why))
      BY <1>b DEF Moves
    <2>2. \A j \in DOMAIN Answer(r, why), k \in DOMAIN Answer(r, why):
             Answer(r, why)[j].k = "ack" =>
               Answer(r, why)[j].r = r /\ (Answer(r, why)[k].k = "ack" => j = k)
      BY AnswerEvents
    <2>. QED BY <1>b, <2>1, <2>2, Moved
  <1>3. CASE HandleQuit
    <2>1. PICK r \in up:
             /\ r \in Buttons /\ r.k = "quit" /\ up' = up \ {r} /\ srv' \in Rooms
             /\ \/ /\ srv.phase = "active" /\ Me \in srv.members /\ srv' = Without(Opened(srv), Me)
                   /\ Emit(<<Over, Room(Opened(srv))>> \o Answer(r, "ok"))
                   /\ <<Over, Room(Opened(srv))>> \in Seq(Events) /\ Answer(r, "ok") \in Seq(Events)
                \/ /\ UNCHANGED srv
                   /\ Emit(Answer(r, "gone")) /\ Answer(r, "gone") \in Seq(Events)
             /\ Overtaken(r, srv')
             /\ UNCHANGED <<answers, net, page, store, refused, troubles>>
      BY <1>3, QuitTyped
    <2>2. lapses \subseteq lapses' /\ UNCHANGED <<answers, net, page, store>>
      BY <2>1 DEF Overtaken
    <2>3. CASE /\ Emit(<<Over, Room(Opened(srv))>> \o Answer(r, "ok"))
               /\ <<Over, Room(Opened(srv))>> \in Seq(Events) /\ Answer(r, "ok") \in Seq(Events)
      <3>1. Over.k # "ack" /\ Room(Opened(srv)).k # "ack"
        BY DEF Over, Room
      <3>2. PICK front \in Seq(Events): /\ Emit(front \o Answer(r, "ok"))
                                        /\ \A i \in DOMAIN front: front[i].k # "ack"
        <4>1. \A i \in DOMAIN <<Over, Room(Opened(srv))>>: <<Over, Room(Opened(srv))>>[i].k # "ack"
          BY <3>1
        <4>. QED BY <2>3, <4>1
      <3>. QED BY <1>a, <2>1, <2>2, <2>3, <3>2
    <2>4. CASE Emit(Answer(r, "gone")) /\ Answer(r, "gone") \in Seq(Events)
      BY <1>b, <2>1, <2>2, <2>4
    <2>. QED BY <2>1, <2>3, <2>4
  <1>4. ASSUME NEW by, NEW n, HandleLeave(by, n)
        PROVE  /\ PlaceInv' /\ UNCHANGED <<net, page, store>> /\ lapses \subseteq lapses'
               /\ \A q: Travels(q)' => Travels(q)
    <2>1. PICK r \in up:
             /\ up' = up \ {r}
             /\ \E why: Emit(Answer(r, why)) /\ Answer(r, why) \in Seq(Events)
             /\ Overtaken(r, srv')
             /\ UNCHANGED <<answers, net, page, store, refused, troubles>>
      BY <1>4, LeaveTyped
    <2>2. lapses \subseteq lapses' /\ UNCHANGED <<answers, net, page, store>>
      BY <2>1 DEF Overtaken
    <2>. QED BY <1>b, <2>1, <2>2
  <1>5. CASE Answered
    <2>1. PICK a \in answers: /\ answers' = answers \ {a} /\ Emit(<<a>>)
                              /\ UNCHANGED <<srv, up>> /\ ServerOnly
      BY <1>5 DEF Answered
    <2>2. a \in Events
      BY DEF TypeInv, NetTyped, Events, Acks
    <2>3. PICK es \in Seq(Events): Emit(es) /\ DOMAIN es = {1} /\ es[1] = a
      BY <2>1, <2>2, Single
    <2>4. Moves(a.r, es)
      BY <2>1 DEF Moves
    <2>5. UNCHANGED <<net, page, store>> /\ lapses \subseteq lapses'
      BY <2>1 DEF ServerOnly
    <2>. QED BY <2>3, <2>4, <2>5, Moved
  <1>. QED BY <1>1, <1>2, <1>3, <1>4, <1>5 DEF ServerStep

\* What arrives is not on the way any more; the page may leave at once what it
\* joined too late.
LEMMA Received ==
    ASSUME TypeInv, PlaceInv, NEW e, Arrives(e), held' = held,
           NEW leave, up' = up \cup leave, \A q \in leave: ~Known(q),
           \/ asks' = asks /\ leave = {}
           \/ e.k = "ack" /\ asks' = (asks \ {e.r}) \cup leave
    PROVE  /\ PlaceInv' /\ conn
           /\ \A q: Travels(q)' => Travels(q) \/ q \in leave
           /\ e.k = "ack" => Travels(e.r) /\ ~Travels(e.r)' /\ e.r \notin up
           /\ \A i \in DOMAIN down': i \in Nat \ {0} /\ i + 1 \in DOMAIN down /\ down'[i] = down[i + 1]
           /\ \A i \in DOMAIN down: i # 1 => i - 1 \in DOMAIN down' /\ down'[i - 1] = down[i]
           /\ e = down[1] /\ 1 \in DOMAIN down /\ DOMAIN down \subseteq Nat \ {0}
           /\ \A q: \A i \in DOMAIN down': Acked(q, i)' => Acked(q, i + 1)
           /\ \A q: \A i \in DOMAIN down: i # 1 /\ Acked(q, i) => i - 1 \in DOMAIN down' /\ Acked(q, i - 1)'
           /\ e.k = "ack" => Acked(e.r, 1)
           /\ e.k = "ack" => \A i \in DOMAIN down: Acked(e.r, i) => i = 1
  <1>1. /\ down # <<>> /\ down \in Seq(Events) /\ down' = Tail(down) /\ e = Head(down)
        /\ UNCHANGED <<answers, conn>>
    BY DEF Arrives, TypeInv, NetTyped
  <1>2. /\ \A i \in DOMAIN down': i \in Nat \ {0} /\ i + 1 \in DOMAIN down /\ down'[i] = down[i + 1]
        /\ \A i \in DOMAIN down: i # 1 => i - 1 \in DOMAIN down' /\ down'[i - 1] = down[i]
        /\ e = down[1] /\ 1 \in DOMAIN down /\ DOMAIN down \subseteq Nat \ {0}
    BY <1>1, Taken
  <1>3. conn /\ held = {}
    BY <1>1 DEF PlaceInv
  <1>4. \A q: \A i \in DOMAIN down': Acked(q, i)' => Acked(q, i + 1)
    BY <1>2 DEF Acked
  <1>5. \A q: \A i \in DOMAIN down: i # 1 /\ Acked(q, i) => i - 1 \in DOMAIN down' /\ Acked(q, i - 1)'
    BY <1>2 DEF Acked
  <1>6. \A q: Waits(q)' <=> Waits(q)
    BY <1>1 DEF Waits
  <1>7. \A q: Travels(q)' => Travels(q) \/ q \in leave
    BY <1>2, <1>4, <1>6 DEF Travels
  <1>8. e.k = "ack" => /\ Acked(e.r, 1) /\ e.r \notin up /\ ~Waits(e.r) /\ Travels(e.r)
                       /\ \A i \in DOMAIN down: Acked(e.r, i) => i = 1
    BY <1>2 DEF PlaceInv, Acked, Travels
  <1>9. e.k = "ack" => e.r \notin leave
    BY <1>8 DEF Known
  <1>10. e.k = "ack" => ~Travels(e.r)'
    <2>1. SUFFICES ASSUME e.k = "ack", NEW i \in DOMAIN down', Acked(e.r, i)'
                   PROVE  FALSE
      BY <1>6, <1>8, <1>9 DEF Travels
    <2>2. i + 1 \in DOMAIN down /\ Acked(e.r, i + 1) /\ i \in Nat \ {0}
      BY <1>2, <1>4, <2>1
    <2>3. i + 1 = 1
      BY <1>8, <2>1, <2>2
    <2>. QED BY <2>2, <2>3
  <1>11. PlaceInv'
    <2>0. \A q \in leave: q \notin up /\ ~Waits(q) /\ \A i \in DOMAIN down: ~Acked(q, i)
      BY DEF Known, Travels
    <2>1. \A a \in answers': a.r \notin up'
      <3>1. \A a \in answers: a.r \notin leave
        BY <2>0 DEF Waits
      <3>. QED BY <1>1, <3>1 DEF PlaceInv
    <2>2. ASSUME NEW i \in DOMAIN down', down'[i].k = "ack"
          PROVE  down'[i].r \notin up' /\ ~Waits(down[i].r)'
      <3>1. down[i + 1].k = "ack" /\ i + 1 \in DOMAIN down /\ down'[i] = down[i + 1]
        BY <1>2, <2>2
      <3>2. down[i + 1].r \notin up /\ ~Waits(down[i + 1].r)
        BY <3>1 DEF PlaceInv
      <3>3. down[i + 1].r \notin leave
        BY <2>0, <3>1 DEF Acked
      <3>. QED BY <1>6, <3>1, <3>2, <3>3
    <2>3. ASSUME NEW i \in DOMAIN down', NEW j \in DOMAIN down',
                 down'[i].k = "ack", down'[j].k = "ack", down'[i].r = down'[j].r
          PROVE  i = j
      <3>1. i + 1 \in DOMAIN down /\ j + 1 \in DOMAIN down /\ i \in Nat /\ j \in Nat
            /\ down'[i] = down[i + 1] /\ down'[j] = down[j + 1]
        BY <1>2
      <3>2. i + 1 = j + 1
        BY <2>3, <3>1 DEF PlaceInv
      <3>. QED BY <3>1, <3>2
    <2>. QED BY <1>1, <1>3, <2>1, <2>2, <2>3 DEF PlaceInv
  <1>. QED BY <1>2, <1>3, <1>4, <1>5, <1>7, <1>8, <1>10, <1>11

\* The connection and the timers.
LEMMA PlaceNet ==
    ASSUME TypeInv, PlaceInv, AckTimeout \/ WaitTimeout \/ Drop
    PROVE  /\ PlaceInv' /\ \A q: Travels(q)' => Travels(q)
           /\ asks' \subseteq asks /\ \A q: Known(q)' => Known(q)
  <1>1. CASE AckTimeout
    <2>1. /\ UNCHANGED <<up, answers, down, conn, held>> /\ asks' \subseteq asks /\ conn
      BY <1>1 DEF AckTimeout, Fail
    <2>2. \A q: Travels(q)' <=> Travels(q)
      BY <2>1 DEF Travels, Waits, Acked
    <2>3. \A q: Waits(q)' <=> Waits(q)
      BY <2>1 DEF Waits
    <2>. QED BY <2>1, <2>2, <2>3 DEF PlaceInv, Known
  <1>2. CASE WaitTimeout
    <2>1. PICK r \in held: /\ UNCHANGED <<up, answers, down, conn>> /\ asks' = asks \ {r}
                           /\ held' = held \ {r} /\ ~conn
      BY <1>2 DEF WaitTimeout, Fail
    <2>2. \A q: Travels(q)' <=> Travels(q)
      BY <2>1 DEF Travels, Waits, Acked
    <2>3. \A q: Waits(q)' <=> Waits(q)
      BY <2>1 DEF Waits
    <2>. QED BY <2>1, <2>2, <2>3 DEF PlaceInv, Known
  <1>3. CASE Drop
    <2>1. /\ conn /\ conn' = FALSE /\ down' = <<>> /\ answers' = {} /\ up' \subseteq up
          /\ asks' = asks \ asks /\ held' = held
      BY <1>3 DEF Drop, Fail
    <2>2. asks' = {} /\ held' = {} /\ DOMAIN down' = {}
      BY <2>1 DEF PlaceInv
    <2>3. \A q: Travels(q)' => q \in up
      BY <2>1, <2>2 DEF Travels, Waits
    <2>. QED BY <2>1, <2>2, <2>3 DEF PlaceInv, Known, Travels
  <1>. QED BY <1>1, <1>2, <1>3

\* The store joins again what it shows, and nothing else is under way.
LEMMA PlaceConnect ==
    ASSUME TypeInv, PlaceInv, Connect
    PROVE  /\ PlaceInv' /\ \A q: Travels(q)' => q \in asks'
           /\ down' = <<>> /\ answers' = {} /\ conn' = TRUE
           /\ asks \subseteq asks' /\ asks' \subseteq asks \cup {Req("join", "socket", 0)}
           /\ \A q: Known(q)' => q \in asks \cup {Req("join", "socket", 0)}
           /\ UNCHANGED <<srv, page, lapses>>
           /\ Me \in srv.members \/ room # None => Req("join", "socket", 0) \in asks' /\ room' = None
           /\ ~(Me \in srv.members \/ room # None) => UNCHANGED room
  <1> DEFINE shows == Me \in srv.members \/ room # None
             j     == IF shows THEN {Req("join", "socket", 0)} ELSE {}
  <1>1. /\ ~conn /\ up = {} /\ conn' = TRUE /\ asks' = asks \cup j /\ up' = up \cup held \cup j
        /\ held' = {} /\ UNCHANGED <<srv, answers, down, page, lapses>>
        /\ IF shows THEN Reset ELSE UNCHANGED store
    BY DEF Connect
  <1>2. down = <<>> /\ answers = {} /\ held \subseteq asks
    BY <1>1 DEF PlaceInv
  <1>3. \A q: Travels(q)' => q \in up'
    BY <1>1, <1>2 DEF Travels, Waits
  <1>. QED BY <1>1, <1>2, <1>3 DEF PlaceInv, Known, Reset, store, Waits

-----------------------------------------------------------------------------
(* What the pages ask for.                                                 *)

\* The join of the page in the run n of its effect is awaited.
PageJoin(n) == \E r \in asks: r.by = "page" /\ r.visit = n

\* A run is left only when its join was answered, the password form joins only
\* then, and the page loads while it does.
RunInv ==
    \A r \in Requests: Known(r) =>
        /\ r.visit <= visit
        /\ r.by = "cleanup" => (r.visit < visit \/ view = "lobby") /\ ~PageJoin(r.visit)
        /\ r.by = "form" => ~PageJoin(r.visit) /\ ~r.behind
        /\ r.by = "form" /\ view = "room" /\ r.visit = visit => loading

RequestInv ==
    /\ RunInv
    /\ \A r \in asks, s \in asks: r.by = "page" /\ s.by = "page" /\ r.visit = s.visit => r = s
    /\ \A r \in asks: r.by = "form" /\ view = "room" /\ r.visit >= mounted => r.visit = visit
    /\ joined => view = "room" /\ ~PageJoin(visit)
    /\ pw => view = "room" /\ ~PageJoin(visit)
    /\ mounted <= visit

\* Nothing travels that is not asked for or was heard of.
LEMMA KnownTyped ==
    ASSUME TypeInv, NEW r, Known(r)
    PROVE  r \in Requests
  <1>1. CASE r \in asks \/ r \in up
    BY <1>1 DEF TypeInv, NetTyped
  <1>2. CASE Waits(r)
    <2>1. PICK a \in answers: a.r = r
      BY <1>2 DEF Waits
    <2>2. a \in Acks
      BY DEF TypeInv, NetTyped, Acks
    <2>. QED BY <2>1, <2>2, AckKinds
  <1>3. CASE \E i \in DOMAIN down: Acked(r, i)
    <2>1. PICK i \in DOMAIN down: Acked(r, i)
      BY <1>3
    <2>2. down[i] \in Events
      BY DEF TypeInv, NetTyped
    <2>3. down[i] \in Acks
      BY <2>1, <2>2, EventCases DEF Acked
    <2>. QED BY <2>1, <2>3, AckKinds DEF Acked
  <1>. QED BY <1>1, <1>2, <1>3 DEF Known, Travels

\* Requests may go, if the page stays what it is.
LEMMA RequestsGo ==
    ASSUME TypeInv, RequestInv, UNCHANGED page, asks' \subseteq asks, \A q: Known(q)' => Known(q)
    PROVE  RequestInv'
  <1>1. UNCHANGED <<view, visit, mounted, joined, loading, pw>>
    BY DEF page
  <1>2. \A n: PageJoin(n)' => PageJoin(n)
    BY DEF PageJoin
  <1>. QED BY <1>1, <1>2 DEF RequestInv, RunInv

LEMMA CleanupKind ==
    ASSUME NEW n \in 0..MaxVisits
    PROVE  /\ Req("leave", "cleanup", n) \in Requests /\ Req("leave", "cleanup", n).k = "leave"
           /\ Req("leave", "cleanup", n).by = "cleanup" /\ Req("leave", "cleanup", n).visit = n
  <1>1. Req("leave", "cleanup", n) \in Cleanups
    BY RequestTyped
  <1>2. Req("leave", "cleanup", n) = [k |-> "leave", by |-> "cleanup", visit |-> n, behind |-> FALSE]
    BY DEF Req
  <1>. QED BY <1>1, <1>2 DEF Requests

\* A run of the effect begins.
LEMMA AttemptSends ==
    ASSUME TypeInv, RequestInv, NEW rs, Attempt(rs),
           rs \subseteq {Req("leave", "cleanup", visit)}, rs # {} => view = "room"
    PROVE  \E q \in Joins: /\ q.by = "page" /\ q.visit = visit + 1 /\ Send(rs \cup {q})
                           /\ \A r \in rs \cup {q}: ~Known(r)
  <1>1. visit' = visit + 1 /\ visit' \in 0..MaxVisits
    <2>1. visit + 1 \in 0..MaxVisits
      BY RoomPageAssumption DEF TypeInv, PageTyped, Attempt
    <2>. QED BY <2>1 DEF Attempt
  <1>2. PICK q \in Joins: q.by = "page" /\ q.visit = visit + 1 /\ Send(rs \cup {q})
    <2>1. /\ Req("join", "page", visit + 1) \in Joins /\ Behind(Req("join", "page", visit + 1)) \in Joins
          /\ Req("join", "page", visit + 1).by = "page" /\ Req("join", "page", visit + 1).visit = visit + 1
          /\ Behind(Req("join", "page", visit + 1)).by = "page"
          /\ Behind(Req("join", "page", visit + 1)).visit = visit + 1
      <3>1. PICK n \in 0..MaxVisits: n = visit + 1
        BY <1>1
      <3>2. Req("join", "page", n) = [k |-> "join", by |-> "page", visit |-> n, behind |-> FALSE]
        BY DEF Req
      <3>3. Req("join", "page", n) \in Joins /\ Behind(Req("join", "page", n)) \in Joins
        BY RequestTyped
      <3>4. Behind(Req("join", "page", n)).by = "page" /\ Behind(Req("join", "page", n)).visit = n
        BY RequestTyped
      <3>. QED BY <3>1, <3>2, <3>3, <3>4
    <2>2. Send(rs \cup {Req("join", "page", visit + 1)}) \/ Send(rs \cup {Behind(Req("join", "page", visit + 1))})
      BY DEF Attempt
    <2>. QED BY <2>1, <2>2
  <1>3. ~Known(q)
    <2>1. Known(q) => q.visit <= visit
      BY DEF Requests, RequestInv, RunInv
    <2>2. visit \in Nat
      BY DEF TypeInv, PageTyped
    <2>. QED BY <1>2, <2>1, <2>2
  <1>4. ASSUME NEW r \in rs PROVE ~Known(r)
    <2>1. visit \in 0..MaxVisits /\ visit \in Nat
      BY DEF TypeInv, PageTyped
    <2>2. r \in Requests /\ r.by = "cleanup" /\ r.visit = visit /\ view = "room"
      BY <1>4, <2>1, CleanupKind
    <2>. QED BY <2>1, <2>2 DEF RequestInv, RunInv
  <1>. QED BY <1>2, <1>3, <1>4

\* It joins, after what the run before it left.
LEMMA AttemptRequests ==
    ASSUME TypeInv, PlaceInv, RequestInv, NEW rs, Attempt(rs), UNCHANGED <<answers, down, conn>>,
           rs \subseteq {Req("leave", "cleanup", visit)}, rs # {} => view = "room" /\ joined,
           view' = "room", pw' = FALSE,
           mounted' = visit + 1 \/ (mounted' = mounted /\ \A r \in asks: r.by # "form")
    PROVE  RequestInv'
  <1>1. PICK q \in Joins: /\ q.by = "page" /\ q.visit = visit + 1 /\ Send(rs \cup {q})
                          /\ \A r \in rs \cup {q}: ~Known(r)
    BY AttemptSends
  <1>2. /\ asks' = asks \cup rs \cup {q}
        /\ \A r: Known(r)' => Known(r) \/ r \in rs \cup {q}
    BY <1>1, Sent
  <1>3. /\ visit' = visit + 1 /\ joined' = FALSE /\ loading' = TRUE /\ visit \in Nat /\ mounted \in Nat
        /\ visit \in 0..MaxVisits
    BY DEF Attempt, TypeInv, PageTyped
  <1>4. \A r \in rs: r.by = "cleanup" /\ r.visit = visit
    BY <1>3, CleanupKind
  <1>5. \A n: PageJoin(n)' => PageJoin(n) \/ n = visit + 1
    BY <1>1, <1>2, <1>4 DEF PageJoin
  <1>6. \A r \in asks: r \in Requests /\ Known(r) /\ r.visit \in Nat /\ r.visit <= visit
    <2>1. SUFFICES ASSUME NEW r \in asks PROVE r \in Requests /\ Known(r) /\ r.visit \in Nat /\ r.visit <= visit
      OBVIOUS
    <2>2. r \in Requests /\ Known(r)
      BY DEF Known, TypeInv, NetTyped
    <2>3. r.visit \in 0..MaxVisits /\ r.visit <= visit
      BY <2>2, RequestKinds DEF RequestInv, RunInv
    <2>. QED BY <2>2, <2>3, RoomPageAssumption
  <1>7. RunInv'
    <2>1. SUFFICES ASSUME NEW r \in Requests, Known(r)'
                   PROVE  /\ r.visit <= visit'
                          /\ r.by = "cleanup" => r.visit < visit' /\ ~PageJoin(r.visit)'
                          /\ r.by = "form" => ~PageJoin(r.visit)' /\ r.visit # visit' /\ ~r.behind
      BY <1>3 DEF RunInv
    <2>0. r.visit \in Nat
      BY RequestKinds, RoomPageAssumption
    <2>2. CASE Known(r)
      BY <1>3, <1>5, <2>0, <2>2 DEF RequestInv, RunInv
    <2>3. CASE r \in rs
      BY <1>3, <1>4, <1>5, <2>3 DEF RequestInv
    <2>4. CASE r = q
      BY <1>1, <1>3, <2>4
    <2>. QED BY <1>2, <2>1, <2>2, <2>3, <2>4
  <1>8. \A r \in asks', s \in asks': r.by = "page" /\ s.by = "page" /\ r.visit = s.visit => r = s
    <2>1. \A r \in asks: r.visit # visit + 1
      BY <1>3, <1>6
    <2>. QED BY <1>1, <1>2, <1>4, <2>1 DEF RequestInv
  <1>9. \A r \in asks': r.by = "form" /\ view' = "room" /\ r.visit >= mounted' => r.visit = visit'
    <2>1. \A r \in asks': r.by = "form" => r \in asks
      BY <1>1, <1>2, <1>4
    <2>. QED BY <1>3, <1>6, <2>1
  <1>10. mounted' <= visit'
    BY <1>3 DEF RequestInv
  <1>. QED BY <1>3, <1>7, <1>8, <1>9, <1>10 DEF RequestInv

\* The page opens.
LEMMA MountRequests ==
    ASSUME TypeInv, PlaceInv, RequestInv, Mount, UNCHANGED <<answers, down, conn>>
    PROVE  /\ RequestInv'
           /\ \E q \in Joins: /\ q.by = "page" /\ q.visit = visit' /\ Send({q})
                              /\ \A r \in {q}: ~Known(r)
  <1>1. PICK rs: rs = {}
    OBVIOUS
  <1>2. Attempt(rs)
    BY <1>1 DEF Mount
  <1>3. /\ view' = "room" /\ pw' = FALSE /\ mounted' = visit + 1 /\ visit' = visit + 1
        /\ rs \subseteq {Req("leave", "cleanup", visit)} /\ ~(rs # {})
    BY <1>1, <1>2 DEF Mount, Attempt
  <1>4. PICK q \in Joins: /\ q.by = "page" /\ q.visit = visit + 1 /\ Send(rs \cup {q})
                          /\ \A r \in rs \cup {q}: ~Known(r)
    BY <1>2, <1>3, AttemptSends
  <1>5. rs \cup {q} = {q}
    BY <1>1
  <1>6. RequestInv'
    BY <1>2, <1>3, AttemptRequests
  <1>. QED BY <1>3, <1>4, <1>5, <1>6

\* The texts change.
LEMMA LanguageRequests ==
    ASSUME TypeInv, PlaceInv, RequestInv, ChangeLanguage
    PROVE  /\ RequestInv'
           /\ \E q \in Joins: /\ q.by = "page" /\ q.visit = visit' /\ Send(CleanupRequests \cup {q})
                              /\ \A r \in CleanupRequests \cup {q}: ~Known(r)
  <1>1. /\ Attempt(CleanupRequests) /\ UNCHANGED <<answers, down, conn>> /\ view = "room"
        /\ view' = "room" /\ pw' = FALSE /\ mounted' = mounted /\ \A r \in asks: r.by # "form"
    BY DEF ChangeLanguage, TypeInv, PageTyped
  <1>2. /\ CleanupRequests \subseteq {Req("leave", "cleanup", visit)}
        /\ CleanupRequests # {} => joined
    BY DEF CleanupRequests
  <1>3. visit' = visit + 1
    BY <1>1 DEF Attempt
  <1>4. RequestInv'
    BY <1>1, <1>2, AttemptRequests
  <1>. QED BY <1>1, <1>2, <1>3, <1>4, AttemptSends

\* Requests of the page as it is.
LEMMA SendRequests ==
    ASSUME TypeInv, PlaceInv, RequestInv, NEW rs, Send(rs), UNCHANGED <<answers, down, conn>>,
           \A r \in rs: ~Known(r) /\ r.by # "page" /\ r.visit = visit,
           \A r \in rs: r.by = "cleanup" => view' = "lobby" /\ joined,
           \A r \in rs: r.by = "form" => loading' /\ pw /\ ~r.behind,
           UNCHANGED <<visit, mounted>>, view' \in {"lobby", view}, loading => loading' \/ view' = "lobby",
           joined' => joined /\ view' = view, pw' => pw /\ view' = view
    PROVE  RequestInv'
  <1>1. asks' = asks \cup rs /\ \A r: Known(r)' => Known(r) \/ r \in rs
    BY Sent
  <1>2. \A n: PageJoin(n)' => PageJoin(n)
    BY <1>1 DEF PageJoin
  <1>3. view \in {"lobby", "room"} /\ visit \in Nat
    BY DEF TypeInv, PageTyped
  <1>4. RunInv'
    <2>1. SUFFICES ASSUME NEW r \in Requests, Known(r)'
                   PROVE  /\ r.visit <= visit'
                          /\ r.by = "cleanup" => (r.visit < visit' \/ view' = "lobby") /\ ~PageJoin(r.visit)'
                          /\ r.by = "form" => ~PageJoin(r.visit)' /\ ~r.behind
                          /\ r.by = "form" /\ view' = "room" /\ r.visit = visit' => loading'
      BY DEF RunInv
    <2>2. CASE Known(r)
      BY <1>2, <1>3, <2>2 DEF RequestInv, RunInv
    <2>3. CASE r \in rs
      BY <1>2, <1>3, <2>3 DEF RequestInv
    <2>. QED BY <1>1, <2>1, <2>2, <2>3
  <1>. QED BY <1>1, <1>2, <1>3, <1>4 DEF RequestInv

\* The page is left.
LEMMA LeaveRequests ==
    ASSUME TypeInv, PlaceInv, RequestInv, LeavePage
    PROVE  RequestInv' /\ Send(CleanupRequests) /\ \A r \in CleanupRequests: ~Known(r)
  <1>1. /\ view = "room" /\ view' = "lobby" /\ Send(CleanupRequests)
        /\ joined' = FALSE /\ loading' = FALSE /\ pw' = FALSE
        /\ UNCHANGED <<answers, down, conn, visit, mounted>>
    BY DEF LeavePage
  <1>2. \A r \in CleanupRequests: r = Req("leave", "cleanup", visit) /\ joined
    BY DEF CleanupRequests
  <1>3. visit \in 0..MaxVisits /\ visit \in Nat
    BY DEF TypeInv, PageTyped
  <1>4. \A r \in CleanupRequests: r \in Requests /\ r.by = "cleanup" /\ r.visit = visit
    BY <1>2, <1>3, CleanupKind
  <1>5. \A r \in CleanupRequests: ~Known(r)
    BY <1>1, <1>3, <1>4 DEF RequestInv, RunInv
  <1>6. RequestInv'
    BY <1>1, <1>2, <1>4, <1>5, SendRequests
  <1>. QED BY <1>1, <1>5, <1>6

\* The password is sent, once.
LEMMA PasswordRequests ==
    ASSUME TypeInv, PlaceInv, RequestInv, SubmitPassword
    PROVE  /\ RequestInv'
           /\ \E q \in Joins: q.by = "form" /\ Send({q}) /\ \A r \in {q}: ~Known(r)
  <1> DEFINE q == Req("join", "form", visit)
  <1>1. /\ view = "room" /\ pw /\ ~loading /\ loading' = TRUE /\ Send({q})
        /\ UNCHANGED <<answers, down, conn, view, visit, mounted, joined, pw>>
    BY DEF SubmitPassword
  <1>2. PICK n \in 0..MaxVisits: n = visit
    BY DEF TypeInv, PageTyped
  <1>3. q \in Joins /\ q.by = "form" /\ q.visit = visit /\ q.behind = FALSE
    <2>1. Req("join", "form", n) = [k |-> "join", by |-> "form", visit |-> n, behind |-> FALSE]
      BY DEF Req
    <2>2. Req("join", "form", n) \in Joins
      BY RequestTyped
    <2>. QED BY <1>2, <2>1, <2>2
  <1> HIDE DEF q
  <1>4. ~Known(q)
    BY <1>1, <1>3 DEF RequestInv, RunInv, Requests
  <1>5. \A r \in {q}: ~Known(r)
    BY <1>4
  <1>6. RequestInv'
    <2>1. PICK rs: rs = {q}
      OBVIOUS
    <2>2. /\ Send(rs) /\ \A r \in rs: ~Known(r) /\ r.by = "form" /\ r.visit = visit /\ ~r.behind
      BY <1>1, <1>3, <1>4, <2>1
    <2>. QED BY <1>1, <2>2, SendRequests
  <1>. QED BY <1>1, <1>3, <1>5, <1>6

\* A button is clicked, once.
LEMMA ClickRequests ==
    ASSUME TypeInv, PlaceInv, RequestInv, ClickLeave \/ ClickQuit
    PROVE  /\ RequestInv' /\ UNCHANGED <<srv, answers, down, conn, page, store, lapses>>
           /\ \E q \in Buttons: q.by = "button" /\ Send({q}) /\ \A r \in {q}: ~Known(r)
  <1>1. PICK k \in {"leave", "quit"}: Click(Req(k, "button", visit))
    BY DEF ClickLeave, ClickQuit
  <1> DEFINE q == Req(k, "button", visit)
  <1>2. PICK n \in 0..MaxVisits: n = visit
    BY DEF TypeInv, PageTyped
  <1>3. q \in Buttons /\ q.by = "button" /\ q.visit = visit
    <2>1. Req(k, "button", n) = [k |-> k, by |-> "button", visit |-> n, behind |-> FALSE]
      BY DEF Req
    <2>2. Req(k, "button", n) \in Buttons
      BY RequestTyped
    <2>. QED BY <1>2, <2>1, <2>2
  <1>4. /\ q \notin asks \cup up \cup {a.r : a \in answers} \cup Acknowledged
        /\ Send({q}) /\ UNCHANGED <<srv, answers, down, conn, page, store, lapses>>
    BY <1>1 DEF Click
  <1> HIDE DEF q
  <1>5. ~Known(q)
    <2>1. q \notin asks /\ q \notin up /\ ~Waits(q)
      BY <1>4 DEF Waits
    <2>2. ASSUME NEW i \in DOMAIN down, Acked(q, i) PROVE FALSE
      <3>1. i \in 1..Len(down)
        BY DEF TypeInv, NetTyped
      <3>2. q \in Acknowledged
        BY <2>2, <3>1 DEF Acknowledged, Acked
      <3>. QED BY <1>4, <3>2
    <2>. QED BY <2>1, <2>2 DEF Known, Travels
  <1>6. \A r \in {q}: ~Known(r)
    BY <1>5
  <1>7. RequestInv'
    <2>1. PICK rs: rs = {q}
      OBVIOUS
    <2>2. /\ Send(rs) /\ \A r \in rs: ~Known(r) /\ r.by = "button" /\ r.visit = visit
      BY <1>3, <1>4, <1>5, <2>1
    <2>3. UNCHANGED <<view, visit, mounted, joined, loading, pw>>
      BY <1>4 DEF page
    <2>. QED BY <1>4, <2>2, <2>3, SendRequests DEF TypeInv, PageTyped
  <1>. QED BY <1>3, <1>4, <1>6, <1>7

\* The acknowledgement of a join.
LEMMA JoinAckRequests ==
    ASSUME TypeInv, PlaceInv, RequestInv, NEW e \in Acks, Arrives(e), e.r \in asks, e.r.k = "join",
           OnJoinAck(e)
    PROVE  /\ RequestInv' /\ held' = held
           /\ \E leave: /\ up' = up \cup leave /\ asks' = (asks \ {e.r}) \cup leave
                        /\ \A q \in leave: ~Known(q)
  <1> DEFINE r == e.r
  <1>1. PICK ok \in BOOLEAN:
             /\ \/ r.by = "page" /\ PageJoined(r, ok, e.why)
                \/ r.by = "form" /\ FormJoined(r, ok)
                \/ r.by = "socket" /\ SocketJoined(r)
             /\ UNCHANGED <<overlay, held, view, visit, mounted>>
    BY JoinAckCases
  <1>2. /\ r \in Requests /\ r \in Joins /\ r.visit \in 0..MaxVisits /\ r.visit \in Nat /\ Known(r)
    BY AckKinds, RequestKinds, RoomPageAssumption DEF Known
  <1>3. visit \in Nat /\ view \in {"lobby", "room"}
    BY DEF TypeInv, PageTyped
  <1>4. r.visit <= visit /\ r \in asks
    BY <1>2 DEF RequestInv, RunInv
  <1> HIDE DEF r
  <1>5. CASE r.by = "page" /\ PageJoined(r, ok, e.why)
    <2> DEFINE leave == IF ok THEN UndoJoin(r) ELSE {}
    <2>1. /\ asks' = (asks \ {r}) \cup leave /\ up' = up \cup leave
          /\ \/ /\ Active(r) /\ loading' = FALSE /\ joined' = ok
             \/ /\ ~Active(r) /\ UNCHANGED <<loading, joined, pw>>
      BY <1>5 DEF PageJoined
    <2>2. leave = {} \/ (leave = {Req("leave", "cleanup", r.visit)} /\ ~Active(r))
      BY DEF UndoJoin
    <2> HIDE DEF leave
    <2>3. \A q \in leave: q \in Requests /\ q.by = "cleanup" /\ q.visit = r.visit
      BY <1>2, <2>2, CleanupKind
    <2>4. PageJoin(r.visit)
      BY <1>4, <1>5 DEF PageJoin
    <2>5. \A q \in leave: ~Known(q)
      BY <2>3, <2>4 DEF RequestInv, RunInv
    <2>6. PlaceInv' /\ \A q: Travels(q)' => Travels(q) \/ q \in leave
      BY <1>1, <2>1, <2>5, Received, AckKinds DEF r
    <2>7. \A q: Known(q)' => Known(q) \/ q \in leave
      BY <2>1, <2>6 DEF Known
    <2>8. \A n: PageJoin(n)' => PageJoin(n) /\ n # r.visit
      <3>1. SUFFICES ASSUME NEW n, NEW q \in asks', q.by = "page", q.visit = n
                     PROVE  PageJoin(n) /\ n # r.visit
        BY DEF PageJoin
      <3>2. q \in asks /\ q # r
        BY <2>1, <2>3, <3>1
      <3>. QED BY <1>4, <1>5, <3>1, <3>2 DEF RequestInv, PageJoin
    <2>9. RunInv'
      <3>1. SUFFICES ASSUME NEW q \in Requests, Known(q)'
                     PROVE  /\ q.visit <= visit
                            /\ q.by = "cleanup" => (q.visit < visit \/ view = "lobby") /\ ~PageJoin(q.visit)'
                            /\ q.by = "form" => ~PageJoin(q.visit)' /\ ~q.behind
                            /\ q.by = "form" /\ view = "room" /\ q.visit = visit => loading'
        BY <1>1 DEF RunInv
      <3>2. CASE Known(q)
        <4>1. CASE Active(r)
          BY <2>4, <2>8, <3>2, <4>1 DEF RequestInv, RunInv, Active
        <4>2. CASE ~Active(r)
          BY <2>1, <2>8, <3>2, <4>2 DEF RequestInv, RunInv
        <4>. QED BY <4>1, <4>2
      <3>3. CASE q \in leave
        <4>1. q.by = "cleanup" /\ q.visit = r.visit /\ ~Active(r)
          BY <2>2, <2>3, <3>3
        <4>2. q.visit < visit \/ view = "lobby"
          BY <1>2, <1>3, <1>4, <4>1 DEF Active
        <4>. QED BY <1>4, <2>8, <4>1, <4>2
      <3>. QED BY <2>7, <3>1, <3>2, <3>3
    <2>10. (joined' => view' = "room" /\ ~PageJoin(visit)') /\ (pw' => view' = "room" /\ ~PageJoin(visit)')
      <3>1. CASE Active(r)
        BY <1>1, <2>8, <3>1 DEF Active
      <3>2. CASE ~Active(r)
        BY <1>1, <2>1, <2>8, <3>2 DEF RequestInv
      <3>. QED BY <3>1, <3>2
    <2>11. RequestInv'
      <3>1. \A q \in asks': q.by \in {"page", "form"} => q \in asks
        BY <2>1, <2>3
      <3>. QED BY <1>1, <2>9, <2>10, <3>1 DEF RequestInv
    <2>. QED BY <1>1, <2>1, <2>5, <2>11 DEF r
  \* Without a request of its own.
  <1>a. ASSUME asks' = asks \ {r}, up' = up
        PROVE  /\ \A q: Known(q)' => Known(q) /\ q # r
               /\ \A n: PageJoin(n)' => PageJoin(n)
               /\ \E leave: /\ up' = up \cup leave /\ asks' = (asks \ {e.r}) \cup leave
                            /\ \A q \in leave: ~Known(q)
    <2>1. PICK leave: leave = {}
      OBVIOUS
    <2>2. up' = up \cup leave /\ asks' = (asks \ {r}) \cup leave /\ \A q \in leave: ~Known(q)
      BY <1>a, <2>1
    <2>3. /\ \A q: Travels(q)' => Travels(q) \/ q \in leave
          /\ ~Travels(r)'
      BY <1>1, <2>2, Received, AckKinds DEF r
    <2>4. \A q: Known(q)' => Known(q) /\ q # r
      BY <1>a, <2>1, <2>3 DEF Known
    <2>5. \A n: PageJoin(n)' => PageJoin(n)
      BY <1>a DEF PageJoin
    <2>. QED BY <2>2, <2>4, <2>5 DEF r
  <1>6. CASE r.by = "form" /\ FormJoined(r, ok)
    <2>1. /\ asks' = asks \ {r} /\ up' = up
          /\ \/ Alive(r) /\ joined' = (joined \/ ok) /\ pw' = (pw /\ ~ok)
             \/ ~Alive(r) /\ UNCHANGED <<loading, joined, pw, err>>
      BY <1>6 DEF FormJoined
    <2>2. Alive(r) => view = "room" /\ r.visit = visit
      BY <1>4, <1>6 DEF Alive, RequestInv
    <2>3. ~PageJoin(r.visit) /\ ~r.behind
      BY <1>2, <1>6 DEF RequestInv, RunInv
    <2>4. RunInv'
      <3>1. SUFFICES ASSUME NEW q \in Requests, Known(q)'
                     PROVE  /\ q.visit <= visit
                            /\ q.by = "cleanup" => (q.visit < visit \/ view = "lobby") /\ ~PageJoin(q.visit)'
                            /\ q.by = "form" => ~PageJoin(q.visit)' /\ ~q.behind
                            /\ q.by = "form" /\ view = "room" /\ q.visit = visit => loading'
        BY <1>1 DEF RunInv
      <3>2. Known(q) /\ q # r
        BY <1>a, <2>1, <3>1
      <3>3. CASE Alive(r)
        <4>1. ~(q.by = "form" /\ q.visit = visit)
          <5>1. SUFFICES ASSUME q.by = "form", q.visit = visit PROVE q = r
            BY <3>2
          <5>2. q \in Joins /\ ~q.behind
            BY <3>2, <5>1, RequestKinds DEF RequestInv, RunInv
          <5>. QED BY <1>2, <1>6, <2>2, <2>3, <3>3, <5>1, <5>2 DEF Joins
        <4>. QED BY <1>a, <2>1, <3>2, <4>1 DEF RequestInv, RunInv
      <3>4. CASE ~Alive(r)
        BY <1>a, <2>1, <3>2, <3>4 DEF RequestInv, RunInv
      <3>. QED BY <3>3, <3>4
    <2>5. (joined' => view' = "room" /\ ~PageJoin(visit)') /\ (pw' => view' = "room" /\ ~PageJoin(visit)')
      BY <1>1, <1>a, <2>1, <2>2, <2>3 DEF RequestInv
    <2>. QED BY <1>1, <1>a, <2>1, <2>4, <2>5 DEF RequestInv
  <1>7. CASE r.by = "socket" /\ SocketJoined(r)
    <2>1. asks' = asks \ {r} /\ up' = up /\ UNCHANGED <<loading, joined, pw, err>>
      BY <1>7 DEF SocketJoined
    <2>2. UNCHANGED page
      BY <1>1, <2>1 DEF page
    <2>. QED BY <1>1, <1>a, <2>1, <2>2, RequestsGo
  <1>. QED BY <1>1, <1>5, <1>6, <1>7

\* Whatever arrives, requests that travel are awaited as before.
LEMMA ReceiveRequests ==
    ASSUME TypeInv, PlaceInv, RequestInv, Receive
    PROVE  /\ PlaceInv' /\ RequestInv'
           /\ \A q: Travels(q)' => q \in asks' \/ (Travels(q) /\ q \notin asks)
  <1>1. PICK e \in Events:
          /\ Arrives(e)
          /\ \/ e.k = "room" /\ e.room \in Snapshots /\ OnRoom(e.room)
             \/ e.k = "kicked" /\ OnKicked
             \/ e.k = "over" /\ OnOver
             \/ e.k = "ack" /\ e.r \notin asks /\ Ignored
             \/ e.k = "ack" /\ e \in Acks /\ e.r \in asks /\ e.r.k = "join" /\ OnJoinAck(e)
             \/ e.k = "ack" /\ e \in Acks /\ e.r \in asks /\ e.r.k # "join" /\ OnLeaveAck(e)
    BY ReceiveCases
  <1>2. PICK none: none = {}
    OBVIOUS
  <1>3. CASE UNCHANGED <<asks, up, held, page>>
    <2>1. /\ held' = held /\ up' = up \cup none /\ \A q \in none: ~Known(q)
          /\ asks' = asks /\ none = {} /\ UNCHANGED page
      BY <1>2, <1>3
    <2>2. PlaceInv' /\ \A q: Travels(q)' => Travels(q) \/ q \in none
      BY <1>1, <2>1, Received
    <2>3. \A q: Known(q)' => Known(q)
      BY <2>1, <2>2 DEF Known
    <2>. QED BY <2>1, <2>2, <2>3, RequestsGo
  <1>4. CASE e.k = "ack" /\ e \in Acks /\ e.r \in asks /\ e.r.k = "join" /\ OnJoinAck(e)
    <2>1. RequestInv' /\ held' = held
      BY <1>1, <1>4, JoinAckRequests
    <2>2. PICK leave: /\ up' = up \cup leave /\ asks' = (asks \ {e.r}) \cup leave
                      /\ \A q \in leave: ~Known(q)
      BY <1>1, <1>4, JoinAckRequests
    <2>3. /\ PlaceInv' /\ ~Travels(e.r)' /\ \A q: Travels(q)' => Travels(q) \/ q \in leave
      BY <1>1, <1>4, <2>1, <2>2, Received
    <2>. QED BY <2>1, <2>2, <2>3
  <1>5. CASE e.k = "ack" /\ e \in Acks /\ e.r \in asks /\ e.r.k # "join" /\ OnLeaveAck(e)
    <2>1. /\ asks' = asks \ {e.r} /\ UNCHANGED <<up, held, visit, mounted>>
          /\ \/ view' = "lobby" /\ joined' = FALSE /\ loading' = FALSE /\ pw' = FALSE
             \/ UNCHANGED <<view, joined, loading, pw>>
      BY <1>5, LeaveAckCases
    <2>2. held' = held /\ up' = up \cup none /\ asks' = (asks \ {e.r}) \cup none /\ \A q \in none: ~Known(q)
      BY <1>2, <2>1
    <2>3. PlaceInv' /\ ~Travels(e.r)' /\ \A q: Travels(q)' => Travels(q) \/ q \in none
      BY <1>1, <1>5, <2>2, Received
    <2>4. \A q: Known(q)' => Known(q)
      BY <1>2, <2>1, <2>3 DEF Known
    <2>5. \A n: PageJoin(n)' => PageJoin(n)
      BY <2>1 DEF PageJoin
    <2>6. RequestInv'
      <3>1. RunInv'
        BY <2>1, <2>4, <2>5 DEF RequestInv, RunInv
      <3>. QED BY <2>1, <2>5, <3>1 DEF RequestInv
    <2>. QED BY <1>2, <2>1, <2>3, <2>6
  <1>6. CASE OnRoom(e.room) \/ OnKicked \/ OnOver \/ Ignored
    <2>1. UNCHANGED <<asks, up, held, page>>
      BY <1>6 DEF OnRoom, OnKicked, OnOver, Ignored
    <2>. QED BY <1>3, <2>1
  <1>. QED BY <1>1, <1>4, <1>5, <1>6

\* A timer, or the loss of the connection.
LEMMA FailRequests ==
    ASSUME TypeInv, PlaceInv, RequestInv, AckTimeout \/ WaitTimeout \/ Drop
    PROVE  RequestInv'
  <1>1. asks' \subseteq asks /\ \A q: Known(q)' => Known(q)
    BY PlaceNet
  <1>2. PICK rs: Fail(rs) /\ rs \subseteq asks
    <2>1. CASE AckTimeout
      <3>1. PICK r \in asks \ held: Fail({r})
        BY <2>1 DEF AckTimeout
      <3>. QED BY <3>1
    <2>2. CASE WaitTimeout
      <3>1. PICK r \in held: Fail({r})
        BY <2>2 DEF WaitTimeout
      <3>. QED BY <3>1 DEF PlaceInv
    <2>3. CASE Drop
      BY <2>3 DEF Drop
    <2>. QED BY <2>1, <2>2, <2>3
  <1>3. UNCHANGED <<view, visit, mounted, joined, pw>>
    BY <1>2 DEF Fail
  <1>4. \A n: PageJoin(n)' => PageJoin(n)
    BY <1>1 DEF PageJoin
  <1>5. loading' = loading \/ PageJoin(visit)
    BY <1>2 DEF Fail, Active, PageJoin
  <1>6. RunInv'
    BY <1>1, <1>3, <1>4, <1>5 DEF RequestInv, RunInv
  <1>. QED BY <1>1, <1>3, <1>4, <1>6 DEF RequestInv

\* The socket is back.
LEMMA ConnectRequests ==
    ASSUME TypeInv, PlaceInv, RequestInv, Connect
    PROVE  RequestInv'
  <1> DEFINE j == Req("join", "socket", 0)
  <1>1. /\ asks' \subseteq asks \cup {j} /\ \A q: Known(q)' => q \in asks \cup {j}
        /\ UNCHANGED page
    BY PlaceConnect
  <1>2. j.by = "socket" /\ j.visit = 0
    BY DEF Req
  <1> HIDE DEF j
  <1>3. UNCHANGED <<view, visit, mounted, joined, loading, pw>> /\ visit \in Nat
    BY <1>1 DEF page, TypeInv, PageTyped
  <1>4. \A n: PageJoin(n)' => PageJoin(n)
    BY <1>1, <1>2 DEF PageJoin
  <1>5. RunInv'
    <2>1. SUFFICES ASSUME NEW q \in Requests, Known(q)'
                   PROVE  /\ q.visit <= visit
                          /\ q.by = "cleanup" => (q.visit < visit \/ view = "lobby") /\ ~PageJoin(q.visit)'
                          /\ q.by = "form" => ~PageJoin(q.visit)' /\ ~q.behind
                          /\ q.by = "form" /\ view = "room" /\ q.visit = visit => loading
      BY <1>3 DEF RunInv
    <2>2. CASE q \in asks
      <3>1. Known(q)
        BY <2>2 DEF Known
      <3>. QED BY <1>4, <2>1, <3>1 DEF RequestInv, RunInv
    <2>3. CASE q = j
      BY <1>2, <1>3, <2>3
    <2>. QED BY <1>1, <2>1, <2>2, <2>3
  <1>. QED BY <1>1, <1>2, <1>3, <1>4, <1>5 DEF RequestInv

\* Unless a request failed, whoever travels is awaited.
AnswerInv ==
    ("member" \notin lapses) \/ ("shown" \notin lapses /\ conn) => \A r: Travels(r) => r \in asks

\* A join is refused by a closed room or for want of a password: both are
\* members while a match runs.
RefuseInv ==
    \A i \in DOMAIN down: down[i].k = "ack" /\ down[i].r.k = "join" =>
        down[i].why # "active" /\ (down[i].why = "closed" => srv.phase = "closed")

NetInv == PlaceInv /\ RequestInv /\ AnswerInv /\ RefuseInv

\* Closed rooms stay closed.
LEMMA ClosedStays ==
    ASSUME TypeInv, ServerInv, ServerStep, srv.phase = "closed"
    PROVE  srv' = srv
  <1>0. srv.members = {}
    BY DEF ServerInv, RoomOK
  <1>1. ~Happens
    <2>1. SUFFICES ASSUME Happens PROVE FALSE
      OBVIOUS
    <2>2. PICK s, es: HappensTo(s, es)
      BY <2>1, HappensCases DEF ServerInv
    <2>. QED BY <2>2 DEF HappensTo
  <1>2. CASE HandleJoin
    <2>1. PICK r \in up: JoinRefused(r) = "no" \/ UNCHANGED srv
      BY <1>2, JoinTyped
    <2>. QED BY <2>1 DEF JoinRefused
  <1>3. CASE HandleQuit
    BY <1>0, <1>3, QuitTyped
  <1>4. ASSUME NEW by, NEW n, HandleLeave(by, n) PROVE srv' = srv
    BY <1>0, <1>4, LeaveTyped
  <1>5. CASE Answered
    BY <1>5 DEF Answered
  <1>. QED BY <1>1, <1>2, <1>3, <1>4, <1>5 DEF ServerStep

\* What a server step appends is no refusal that RefuseInv excludes.
LEMMA RefusesRightly ==
    ASSUME TypeInv, ServerInv, ServerStep
    PROVE  \E es \in Seq(Events):
             /\ Emit(es)
             /\ \A i \in DOMAIN es: es[i].k = "ack" /\ es[i].r.k = "join" =>
                  es[i].why # "active" /\ (es[i].why = "closed" => srv.phase = "closed")
  <1>1. CASE Happens
    <2>1. PICK s, es: HappensTo(s, es)
      BY <1>1, HappensCases DEF ServerInv
    <2>. QED BY <2>1 DEF HappensTo
  <1>2. CASE HandleJoin
    <2>1. PICK r \in up:
             /\ \/ Emit(<<Room(srv')>>) /\ <<Room(srv')>> \in Seq(Events)
                \/ \E why \in {"closed", "active", "password"}:
                     /\ why = "closed" => srv.phase = "closed"
                     /\ why = "active" => srv.phase = "active" /\ Me \notin srv.members
                     /\ Emit(Answer(r, why)) /\ Answer(r, why) \in Seq(Events)
      BY <1>2, JoinTyped
    <2>2. CASE Emit(<<Room(srv')>>) /\ <<Room(srv')>> \in Seq(Events)
      <3>1. Room(srv').k = "room"
        BY DEF Room
      <3>2. \A i \in DOMAIN <<Room(srv')>>: <<Room(srv')>>[i].k # "ack"
        BY <3>1
      <3>. QED BY <2>2, <3>2
    <2>3. CASE \E why \in {"closed", "active", "password"}:
                 /\ why = "closed" => srv.phase = "closed"
                 /\ why = "active" => srv.phase = "active" /\ Me \notin srv.members
                 /\ Emit(Answer(r, why)) /\ Answer(r, why) \in Seq(Events)
      <3>1. PICK why \in {"closed", "active", "password"}:
                 /\ why = "closed" => srv.phase = "closed"
                 /\ why = "active" => srv.phase = "active" /\ Me \notin srv.members
                 /\ Emit(Answer(r, why)) /\ Answer(r, why) \in Seq(Events)
        BY <2>3
      <3>2. why # "active"
        BY <3>1 DEF ServerInv, RoomOK
      <3>3. \A i \in DOMAIN Answer(r, why): Answer(r, why)[i].why = why
        BY AnswerEvents
      <3>. QED BY <3>1, <3>2, <3>3
    <2>. QED BY <2>1, <2>2, <2>3
  <1>3. CASE HandleQuit
    <2>1. PICK r \in up:
             /\ r.k = "quit"
             /\ \/ /\ Emit(<<Over, Room(Opened(srv))>> \o Answer(r, "ok"))
                   /\ <<Over, Room(Opened(srv))>> \in Seq(Events) /\ Answer(r, "ok") \in Seq(Events)
                \/ Emit(Answer(r, "gone")) /\ Answer(r, "gone") \in Seq(Events)
      BY <1>3, QuitTyped
    <2>2. CASE /\ Emit(<<Over, Room(Opened(srv))>> \o Answer(r, "ok"))
               /\ <<Over, Room(Opened(srv))>> \in Seq(Events) /\ Answer(r, "ok") \in Seq(Events)
      <3>1. Over.k # "ack" /\ Room(Opened(srv)).k # "ack"
        BY DEF Over, Room
      <3>2. PICK front \in Seq(Events): /\ Emit(front \o Answer(r, "ok"))
                                        /\ \A i \in DOMAIN front: front[i].k # "ack"
        <4>1. \A i \in DOMAIN <<Over, Room(Opened(srv))>>: <<Over, Room(Opened(srv))>>[i].k # "ack"
          BY <3>1
        <4>. QED BY <2>2, <4>1
      <3> DEFINE es == front \o Answer(r, "ok")
      <3>3. /\ es \in Seq(Events) /\ Emit(es)
            /\ \A i \in DOMAIN front: i \in DOMAIN es /\ es[i] = front[i]
            /\ \A i \in DOMAIN es: i \notin DOMAIN front =>
                 i - Len(front) \in DOMAIN Answer(r, "ok") /\ es[i] = Answer(r, "ok")[i - Len(front)]
        BY <2>2, <3>2, Appended
      <3>4. \A i \in DOMAIN Answer(r, "ok"): Answer(r, "ok")[i].r = r
        BY AnswerEvents
      <3> HIDE DEF es
      <3>5. \A i \in DOMAIN es: es[i].k = "ack" => es[i].r = r
        BY <3>2, <3>3, <3>4
      <3>. QED BY <2>1, <3>3, <3>5
    <2>3. CASE Emit(Answer(r, "gone")) /\ Answer(r, "gone") \in Seq(Events)
      <3>1. \A i \in DOMAIN Answer(r, "gone"): Answer(r, "gone")[i].r = r
        BY AnswerEvents
      <3>. QED BY <2>1, <2>3, <3>1
    <2>. QED BY <2>1, <2>2, <2>3
  <1>4. ASSUME NEW by, NEW n, HandleLeave(by, n)
        PROVE  \E es \in Seq(Events):
                 /\ Emit(es)
                 /\ \A i \in DOMAIN es: es[i].k = "ack" => es[i].r.k # "join"
    <2>1. PICK r \in up: r.k = "leave" /\ \E why: Emit(Answer(r, why)) /\ Answer(r, why) \in Seq(Events)
      BY <1>4, LeaveTyped
    <2>2. PICK why: Emit(Answer(r, why)) /\ Answer(r, why) \in Seq(Events)
      BY <2>1
    <2>3. \A i \in DOMAIN Answer(r, why): Answer(r, why)[i].r = r
      BY AnswerEvents
    <2>. QED BY <2>1, <2>2, <2>3
  <1>5. CASE Answered
    <2>1. PICK a \in answers: Emit(<<a>>)
      BY <1>5 DEF Answered
    <2>2. a \in Events /\ a.why = "ok"
      BY DEF TypeInv, NetTyped, Events, Acks, Oks
    <2>3. PICK es \in Seq(Events): Emit(es) /\ DOMAIN es = {1} /\ es[1] = a
      BY <2>1, <2>2, Single
    <2>. QED BY <2>2, <2>3
  <1>. QED BY <1>1, <1>2, <1>3, <1>4, <1>5 DEF ServerStep

\* At the start nothing is under way.
LEMMA NetInit == Init => NetInv
  <1> SUFFICES ASSUME Init PROVE NetInv
    OBVIOUS
  <1>1. /\ up = {} /\ answers = {} /\ down = <<>> /\ conn = TRUE /\ held = {} /\ asks = {}
        /\ joined = FALSE /\ pw = FALSE /\ mounted = 0 /\ visit = 0
    BY DEF Init
  <1>2. \A r: ~Known(r)
    BY <1>1 DEF Known, Travels, Waits
  <1>. QED BY <1>1, <1>2 DEF NetInv, PlaceInv, RequestInv, RunInv, AnswerInv, RefuseInv, Known

\* Requests, answers and refusals stay in order through every step.
LEMMA NetStep ==
    ASSUME TypeInv, ServerInv, NetInv, [Next]_vars
    PROVE  NetInv'
  <1>0. PlaceInv /\ RequestInv /\ AnswerInv /\ RefuseInv
    BY DEF NetInv
  \* Requests that are sent are awaited.
  <1>a. ASSUME NEW rs, Send(rs), UNCHANGED <<answers, down, conn>>, \A r \in rs: ~Known(r),
               RequestInv', lapses \subseteq lapses', srv' = srv \/ srv.phase = "none"
        PROVE  NetInv'
    <2>1. /\ PlaceInv' /\ asks' = asks \cup rs
          /\ \A r: Travels(r)' => Travels(r) \/ (conn /\ r \in rs)
      BY <1>0, <1>a, Sent
    <2>2. AnswerInv'
      BY <1>0, <1>a, <2>1 DEF AnswerInv
    <2>3. RefuseInv'
      BY <1>0, <1>a DEF RefuseInv
    <2>. QED BY <1>a, <2>1, <2>2, <2>3 DEF NetInv
  <1>1. CASE OpenRoom
    <2>1. Mount /\ UNCHANGED <<srv, answers, down, conn, lapses>>
      BY <1>1 DEF OpenRoom
    <2>. QED BY <1>0, <1>a, <2>1, MountRequests
  <1>2. CASE CreateRoom
    <2>1. /\ srv.phase = "none" /\ UNCHANGED <<answers, down, conn, lapses>>
          /\ Mount \/ UNCHANGED <<srv, up, held, asks, page, store>>
      BY <1>2, CreateCases, RoomPageAssumption
    <2>2. CASE Mount
      BY <1>0, <1>a, <2>1, <2>2, MountRequests
    <2>3. CASE UNCHANGED <<srv, up, held, asks, page, store>>
      <3>1. \A r: (Travels(r)' <=> Travels(r)) /\ (Waits(r)' <=> Waits(r)) /\ (Known(r)' <=> Known(r))
        BY <2>1, <2>3 DEF Travels, Waits, Acked, Known
      <3>2. RequestInv'
        BY <1>0, <2>3, <3>1, RequestsGo
      <3>. QED BY <1>0, <2>1, <2>3, <3>1, <3>2 DEF NetInv, PlaceInv, AnswerInv, RefuseInv
    <2>. QED BY <2>1, <2>2, <2>3
  <1>3. CASE LeavePage
    <2>1. UNCHANGED <<srv, answers, down, conn>> /\ lapses \subseteq lapses'
      BY <1>3 DEF LeavePage, Lapse
    <2>. QED BY <1>0, <1>3, <1>a, <2>1, LeaveRequests
  <1>4. CASE ChangeLanguage
    <2>1. UNCHANGED <<srv, answers, down, conn>> /\ lapses \subseteq lapses'
      BY <1>4 DEF ChangeLanguage, Lapse
    <2>. QED BY <1>0, <1>4, <1>a, <2>1, LanguageRequests
  <1>5. CASE SubmitPassword
    <2>1. UNCHANGED <<srv, answers, down, conn>> /\ lapses \subseteq lapses'
      BY <1>5 DEF SubmitPassword
    <2>. QED BY <1>0, <1>5, <1>a, <2>1, PasswordRequests
  <1>6. CASE ClickLeave \/ ClickQuit
    BY <1>0, <1>6, <1>a, ClickRequests
  <1>7. CASE ServerStep
    <2>1. /\ PlaceInv' /\ UNCHANGED <<net, page, store>> /\ lapses \subseteq lapses'
          /\ \A q: Travels(q)' => Travels(q)
      BY <1>0, <1>7, ServerMoves
    <2>2. UNCHANGED <<conn, held, asks>>
      BY <2>1 DEF net
    <2>3. \A q: Known(q)' => Known(q)
      BY <2>1, <2>2 DEF Known
    <2>4. RequestInv'
      BY <1>0, <2>1, <2>2, <2>3, RequestsGo
    <2>5. AnswerInv'
      BY <1>0, <2>1, <2>2 DEF AnswerInv
    <2>6. RefuseInv'
      <3>1. PICK es \in Seq(Events):
             /\ Emit(es)
             /\ \A i \in DOMAIN es: es[i].k = "ack" /\ es[i].r.k = "join" =>
                  es[i].why # "active" /\ (es[i].why = "closed" => srv.phase = "closed")
        BY <1>7, RefusesRightly
      <3>2. \A i \in DOMAIN down': \/ i \in DOMAIN down /\ down'[i] = down[i]
                                   \/ conn /\ \E j \in DOMAIN es: i = Len(down) + j /\ down'[i] = es[j]
        BY <3>1, Emitted
      <3>3. srv.phase = "closed" => srv'.phase = "closed"
        BY <1>7, ClosedStays
      <3>. QED BY <1>0, <3>1, <3>2, <3>3 DEF RefuseInv
    <2>. QED BY <2>1, <2>4, <2>5, <2>6 DEF NetInv
  <1>8. CASE Receive
    <2>1. /\ PlaceInv' /\ RequestInv' /\ \A q: Travels(q)' => q \in asks' \/ (Travels(q) /\ q \notin asks)
      BY <1>0, <1>8, ReceiveRequests
    <2>2. PICK e \in Events:
          /\ Arrives(e)
          /\ \/ e.k = "room" /\ e.room \in Snapshots /\ OnRoom(e.room)
             \/ e.k = "kicked" /\ OnKicked
             \/ e.k = "over" /\ OnOver
             \/ e.k = "ack" /\ e.r \notin asks /\ Ignored
             \/ e.k = "ack" /\ e \in Acks /\ e.r \in asks /\ e.r.k = "join" /\ OnJoinAck(e)
             \/ e.k = "ack" /\ e \in Acks /\ e.r \in asks /\ e.r.k # "join" /\ OnLeaveAck(e)
      BY <1>8, ReceiveCases
    <2>3. lapses \subseteq lapses'
      <3>1. CASE OnRoom(e.room) \/ OnKicked \/ OnOver \/ Ignored
        BY <3>1 DEF OnRoom, OnKicked, OnOver, Ignored
      <3>2. CASE e \in Acks /\ e.r.k = "join" /\ OnJoinAck(e)
        BY <3>2, JoinAckCases
      <3>3. CASE e \in Acks /\ e.r.k # "join" /\ OnLeaveAck(e)
        BY <3>3, LeaveAckCases
      <3>. QED BY <2>2, <3>1, <3>2, <3>3
    <2>4. /\ srv' = srv /\ conn' = conn /\ down \in Seq(Events) /\ down # <<>> /\ down' = Tail(down)
      BY <2>2 DEF Arrives, TypeInv, NetTyped
    <2>5. \A i \in DOMAIN down': i + 1 \in DOMAIN down /\ down'[i] = down[i + 1]
      BY <2>4, Taken
    <2>6. AnswerInv'
      BY <1>0, <2>1, <2>3, <2>4 DEF AnswerInv
    <2>7. RefuseInv'
      BY <1>0, <2>4, <2>5 DEF RefuseInv
    <2>. QED BY <2>1, <2>6, <2>7 DEF NetInv
  <1>9. CASE AckTimeout \/ WaitTimeout \/ Drop
    <2>1. PlaceInv' /\ (\A q: Travels(q)' => Travels(q)) /\ RequestInv'
      BY <1>0, <1>9, PlaceNet, FailRequests
    <2>2. srv' = srv /\ (down' = down \/ down' = <<>>)
      BY <1>9 DEF AckTimeout, WaitTimeout, Drop
    <2>3. lapses \subseteq lapses' /\ conn' \in {conn, FALSE}
      BY <1>9 DEF AckTimeout, WaitTimeout, Drop, Fail, Missed
    <2>4. \/ asks = {} /\ conn' = FALSE
          \/ "member" \in lapses' /\ (conn' => "shown" \in lapses')
      BY <1>9 DEF AckTimeout, WaitTimeout, Drop, Fail, Missed
    <2>5. AnswerInv'
      <3>1. CASE asks = {} /\ conn' = FALSE
        BY <1>0, <2>1, <2>3, <3>1 DEF AnswerInv
      <3>2. CASE "member" \in lapses' /\ (conn' => "shown" \in lapses')
        BY <3>2 DEF AnswerInv
      <3>. QED BY <2>4, <3>1, <3>2
    <2>6. RefuseInv'
      <3>1. DOMAIN <<>> = {}
        OBVIOUS
      <3>. QED BY <1>0, <2>2, <3>1 DEF RefuseInv
    <2>. QED BY <2>1, <2>5, <2>6 DEF NetInv
  <1>10. CASE Connect
    <2>1. PlaceInv' /\ (\A q: Travels(q)' => q \in asks') /\ RequestInv' /\ down' = <<>>
      BY <1>0, <1>10, PlaceConnect, ConnectRequests
    <2>2. DOMAIN down' = {}
      BY <2>1
    <2>. QED BY <2>1, <2>2 DEF NetInv, AnswerInv, RefuseInv
  <1>11. CASE UNCHANGED vars
    <2>1. UNCHANGED <<srv, up, answers, down, conn, held, asks, page, lapses>>
      BY <1>11 DEF vars, net
    <2>2. \A r: (Travels(r)' <=> Travels(r)) /\ (Waits(r)' <=> Waits(r)) /\ (Known(r)' <=> Known(r))
      BY <2>1 DEF Travels, Waits, Acked, Known
    <2>3. RequestInv'
      BY <1>0, <2>1, <2>2, RequestsGo
    <2>. QED BY <1>0, <2>1, <2>2, <2>3 DEF NetInv, PlaceInv, AnswerInv, RefuseInv
  <1>. QED BY <1>1, <1>2, <1>3, <1>4, <1>5, <1>6, <1>7, <1>8, <1>9, <1>10, <1>11 DEF Next, ServerStep, Happens

-----------------------------------------------------------------------------
(* Who is a member without a page will leave.                              *)

\* What the server tells the tab in a step, with what happens to the room: it
\* goes on without the tab, the user joins, is refused, leaves, may not leave,
\* or hears that he joined.
GoesOn(es) ==
    /\ UNCHANGED <<up, answers>>
    /\ Me \in srv'.members => Me \in srv.members
    /\ Me \in srv'.members => \A i \in DOMAIN es: es[i].k # "kicked"
    /\ \A i \in DOMAIN es: es[i].k \in {"room", "kicked", "over"}
    /\ Me \in srv.members /\ Me \notin srv'.members =>
         /\ 1 \in DOMAIN es /\ es[1] = Kicked /\ DOMAIN es = {1}
         /\ (\E a \in answers : a.r.k = "join") => "shown" \in lapses'
    /\ Me \notin srv.members => DOMAIN es = {}
    /\ srv.phase # "none"
JoinsNow(r, es) ==
    /\ r \in Joins /\ up' = up \ {r} /\ srv'.members = srv.members \cup {Me}
    /\ DOMAIN es = {1} /\ es[1].k = "room"
    /\ answers' \subseteq answers \cup {Ack(r, "ok", srv')}
    /\ srv'.phase = srv.phase
Refuses(r, es) ==
    /\ r \in Joins /\ up' = up \ {r} /\ UNCHANGED <<srv, answers>>
    /\ \A i \in DOMAIN es: es[i].k = "ack" /\ es[i].r = r /\ es[i].why # "ok"
Leaves(r, es) ==
    /\ r \in Cleanups \cup Buttons /\ up' = up \ {r} /\ UNCHANGED answers
    /\ Me \in srv.members /\ Me \notin srv'.members
    /\ (\E a \in answers : a.r.k = "join") => "shown" \in lapses'
    /\ r \in asks => \E n \in DOMAIN es: /\ es[n].k = "ack" /\ es[n].r = r /\ es[n].why = "ok"
                                         /\ \A i \in DOMAIN es: i <= n
Stays(r, es) ==
    /\ r \in Cleanups \cup Buttons /\ up' = up \ {r} /\ UNCHANGED <<srv, answers>>
    /\ \A i \in DOMAIN es: es[i].k = "ack" /\ es[i].r = r /\ es[i].why # "ok"
    /\ r \in Cleanups /\ r \in asks /\ Me \in srv.members => 1 \in DOMAIN es /\ es[1].why = "active"
Hears(a, es) ==
    /\ UNCHANGED <<srv, up>> /\ answers' = answers \ {a}
    /\ DOMAIN es = {1} /\ es[1] = a /\ a.r.k = "join"

\* Every step of the server is one of these.
LEMMA ServerCases ==
    ASSUME TypeInv, ServerInv, ServerStep
    PROVE  \E es \in Seq(Events):
             /\ Emit(es) /\ UNCHANGED <<net, page, store>> /\ lapses \subseteq lapses'
             /\ \/ GoesOn(es)
                \/ \E r \in up: JoinsNow(r, es) \/ Refuses(r, es) \/ Leaves(r, es) \/ Stays(r, es)
                \/ \E a \in answers: Hears(a, es)
  <1>0. srv \in Rooms /\ RoomOK(srv)
    BY DEF TypeInv, NetTyped, ServerInv
  <1>1. CASE Happens
    <2>1. PICK s, es: HappensTo(s, es)
      BY <1>0, <1>1, HappensCases
    <2>2. /\ es \in Seq(Events) /\ Emit(es) /\ UNCHANGED <<net, page, store>> /\ lapses \subseteq lapses'
          /\ srv' = s
      BY <2>1 DEF HappensTo, Untouched
    <2>3. es = <<Kicked>> => 1 \in DOMAIN es /\ es[1] = Kicked /\ DOMAIN es = {1}
      <3>1. \A x: DOMAIN <<x>> = {1} /\ <<x>>[1] = x
        OBVIOUS
      <3>. QED BY <3>1
    <2>4. es = <<>> => DOMAIN es = {}
      OBVIOUS
    <2>5. GoesOn(es)
      BY <2>1, <2>2, <2>3, <2>4 DEF HappensTo, GoesOn, Untouched
    <2>. QED BY <2>2, <2>5
  <1>2. CASE HandleJoin
    <2>1. PICK r \in up:
             /\ r \in Joins /\ up' = up \ {r} /\ srv' \in Rooms
             /\ \/ /\ JoinRefused(r) = "no" /\ srv' = [srv EXCEPT !.members = @ \cup {Me}]
                   /\ Emit(<<Room(srv')>>) /\ <<Room(srv')>> \in Seq(Events)
                   /\ answers' = answers \cup (IF r \in asks THEN {Ack(r, "ok", srv')} ELSE {})
                \/ \E why \in {"closed", "active", "password"}:
                     /\ UNCHANGED <<srv, answers>>
                     /\ Emit(Answer(r, why)) /\ Answer(r, why) \in Seq(Events)
             /\ ServerOnly
      BY <1>2, JoinTyped
    <2>2. UNCHANGED <<net, page, store>> /\ lapses \subseteq lapses'
      BY <2>1 DEF ServerOnly
    <2>3. CASE /\ srv' = [srv EXCEPT !.members = @ \cup {Me}]
               /\ Emit(<<Room(srv')>>) /\ <<Room(srv')>> \in Seq(Events)
               /\ answers' = answers \cup (IF r \in asks THEN {Ack(r, "ok", srv')} ELSE {})
      <3>1. srv'.members = srv.members \cup {Me} /\ srv'.phase = srv.phase
        BY <1>0, <2>3 DEF Rooms
      <3>2. Room(srv') \in Events /\ Room(srv').k = "room"
        BY <2>1, RoomTyped
      <3>3. PICK es \in Seq(Events): Emit(es) /\ DOMAIN es = {1} /\ es[1] = Room(srv')
        BY <2>3, <3>2, Single
      <3>4. JoinsNow(r, es)
        BY <2>1, <2>3, <3>1, <3>2, <3>3 DEF JoinsNow
      <3>. QED BY <2>2, <3>3, <3>4
    <2>4. CASE \E why \in {"closed", "active", "password"}:
                 /\ UNCHANGED <<srv, answers>> /\ Emit(Answer(r, why)) /\ Answer(r, why) \in Seq(Events)
      <3>1. PICK why \in {"closed", "active", "password"}:
                 /\ UNCHANGED <<srv, answers>> /\ Emit(Answer(r, why)) /\ Answer(r, why) \in Seq(Events)
        BY <2>4
      <3>2. \A i \in DOMAIN Answer(r, why): /\ Answer(r, why)[i].k = "ack" /\ Answer(r, why)[i].r = r
                                            /\ Answer(r, why)[i].why = why
        BY AnswerEvents
      <3>3. Refuses(r, Answer(r, why))
        BY <2>1, <3>1, <3>2 DEF Refuses
      <3>. QED BY <2>2, <3>1, <3>3
    <2>. QED BY <2>1, <2>3, <2>4
  <1>3. CASE HandleQuit
    <2>1. PICK r \in up:
             /\ r \in Buttons /\ r.k = "quit" /\ up' = up \ {r} /\ srv' \in Rooms
             /\ \/ /\ srv.phase = "active" /\ Me \in srv.members /\ srv' = Without(Opened(srv), Me)
                   /\ Emit(<<Over, Room(Opened(srv))>> \o Answer(r, "ok"))
                   /\ <<Over, Room(Opened(srv))>> \in Seq(Events) /\ Answer(r, "ok") \in Seq(Events)
                \/ /\ UNCHANGED srv
                   /\ Emit(Answer(r, "gone")) /\ Answer(r, "gone") \in Seq(Events)
             /\ Overtaken(r, srv')
             /\ UNCHANGED <<answers, net, page, store, refused, troubles>>
      BY <1>3, QuitTyped
    <2>2. lapses \subseteq lapses' /\ UNCHANGED <<answers, net, page, store>>
      BY <2>1 DEF Overtaken
    <2>3. CASE /\ srv.phase = "active" /\ Me \in srv.members /\ srv' = Without(Opened(srv), Me)
               /\ Emit(<<Over, Room(Opened(srv))>> \o Answer(r, "ok"))
               /\ <<Over, Room(Opened(srv))>> \in Seq(Events) /\ Answer(r, "ok") \in Seq(Events)
      <3>1. Me \notin srv'.members
        <4>1. Opened(srv) \in Rooms /\ Me \in Opened(srv).members
          BY <1>0, <2>3, OpenedTyped
        <4>. QED BY <2>3, <4>1, WithoutTyped, RoomPageAssumption
      <3>2. (\E a \in answers : a.r.k = "join") => "shown" \in lapses'
        BY <2>1, <2>3, <3>1 DEF Overtaken
      <3>3. PICK front \in Seq(Events): Emit(front \o Answer(r, "ok"))
        BY <2>3
      <3> DEFINE es == front \o Answer(r, "ok")
      <3>4. /\ es \in Seq(Events) /\ Emit(es) /\ Len(front) \in Nat /\ DOMAIN front = 1..Len(front)
            /\ \A i \in DOMAIN Answer(r, "ok"): /\ Len(front) + i \in DOMAIN es
                                                /\ es[Len(front) + i] = Answer(r, "ok")[i]
            /\ \A i \in DOMAIN es: i \notin DOMAIN front => i - Len(front) \in DOMAIN Answer(r, "ok")
        BY <2>3, <3>3, Appended
      <3> HIDE DEF es
      <3>5. DOMAIN es \subseteq Nat
        BY <3>4
      <3>6. ASSUME r \in asks
            PROVE  \E n \in DOMAIN es: /\ es[n].k = "ack" /\ es[n].r = r /\ es[n].why = "ok"
                                       /\ \A i \in DOMAIN es: i <= n
        <4>1. 1 \in DOMAIN Answer(r, "ok") /\ Answer(r, "ok")[1] = Ack(r, "ok", srv')
          BY <3>6, AnswerEvents, Single
        <4>2. Len(front) + 1 \in DOMAIN es /\ es[Len(front) + 1] = Ack(r, "ok", srv')
          BY <3>4, <4>1
        <4>3. ASSUME NEW i \in DOMAIN es PROVE i <= Len(front) + 1
          <5>1. i \in DOMAIN front \/ i - Len(front) = 1
            BY <3>4, AnswerEvents
          <5>. QED BY <3>4, <3>5, <5>1
        <4>. QED BY <4>2, <4>3, AnswerEvents
      <3>7. Leaves(r, es)
        BY <2>1, <2>2, <2>3, <3>1, <3>2, <3>6 DEF Leaves
      <3>. QED BY <2>2, <3>4, <3>7
    <2>4. CASE /\ UNCHANGED srv /\ Emit(Answer(r, "gone")) /\ Answer(r, "gone") \in Seq(Events)
      <3>1. \A i \in DOMAIN Answer(r, "gone"): /\ Answer(r, "gone")[i].k = "ack" /\ Answer(r, "gone")[i].r = r
                                               /\ Answer(r, "gone")[i].why = "gone"
        BY AnswerEvents
      <3>2. r \notin Cleanups
        BY <2>1 DEF Cleanups
      <3>3. Stays(r, Answer(r, "gone"))
        BY <2>1, <2>2, <2>4, <3>1, <3>2 DEF Stays
      <3>. QED BY <2>2, <2>4, <3>3
    <2>. QED BY <2>1, <2>3, <2>4
  <1>4. ASSUME NEW by, NEW n, HandleLeave(by, n)
        PROVE  \E es \in Seq(Events):
                 /\ Emit(es) /\ UNCHANGED <<net, page, store>> /\ lapses \subseteq lapses'
                 /\ \E r \in up: Leaves(r, es) \/ Stays(r, es)
    <2>1. PICK r \in up:
             /\ r \in Cleanups \cup Buttons /\ r.k = "leave" /\ up' = up \ {r} /\ srv' \in Rooms
             /\ \/ /\ srv.phase = "waiting" /\ Me \in srv.members /\ srv' = Without(srv, Me)
                   /\ Emit(Answer(r, "ok")) /\ Answer(r, "ok") \in Seq(Events)
                \/ /\ ~(srv.phase = "waiting" /\ Me \in srv.members) /\ UNCHANGED srv
                   /\ \E why \in {"active", "gone"}:
                        /\ why = "active" <=> srv.phase = "active"
                        /\ Emit(Answer(r, why)) /\ Answer(r, why) \in Seq(Events)
             /\ Overtaken(r, srv')
             /\ UNCHANGED <<answers, net, page, store, refused, troubles>>
      BY <1>4, LeaveTyped
    <2>2. lapses \subseteq lapses' /\ UNCHANGED <<answers, net, page, store>>
      BY <2>1 DEF Overtaken
    <2>a. ASSUME NEW why, r \in asks
          PROVE  1 \in DOMAIN Answer(r, why) /\ Answer(r, why)[1] = Ack(r, why, srv')
      BY <2>a, AnswerEvents, Single
    <2>3. CASE /\ Me \in srv.members /\ srv' = Without(srv, Me)
               /\ Emit(Answer(r, "ok")) /\ Answer(r, "ok") \in Seq(Events)
      <3>1. Me \notin srv'.members
        BY <1>0, <2>3, WithoutTyped, RoomPageAssumption
      <3>2. (\E a \in answers : a.r.k = "join") => "shown" \in lapses'
        BY <2>1, <2>3, <3>1 DEF Overtaken
      <3>3. \A i \in DOMAIN Answer(r, "ok"): i <= 1
        BY AnswerEvents
      <3>4. Leaves(r, Answer(r, "ok"))
        BY <2>1, <2>2, <2>3, <2>a, <3>1, <3>2, <3>3, AnswerEvents DEF Leaves
      <3>. QED BY <2>2, <2>3, <3>4
    <2>4. CASE /\ ~(srv.phase = "waiting" /\ Me \in srv.members) /\ UNCHANGED srv
               /\ \E why \in {"active", "gone"}:
                    /\ why = "active" <=> srv.phase = "active"
                    /\ Emit(Answer(r, why)) /\ Answer(r, why) \in Seq(Events)
      <3>1. PICK why \in {"active", "gone"}:
                    /\ why = "active" <=> srv.phase = "active"
                    /\ Emit(Answer(r, why)) /\ Answer(r, why) \in Seq(Events)
        BY <2>4
      <3>2. Me \in srv.members => why = "active"
        BY <1>0, <2>4, <3>1 DEF RoomOK, Rooms
      <3>3. \A i \in DOMAIN Answer(r, why): /\ Answer(r, why)[i].k = "ack" /\ Answer(r, why)[i].r = r
                                            /\ Answer(r, why)[i].why = why
        BY AnswerEvents
      <3>4. Stays(r, Answer(r, why))
        BY <2>1, <2>2, <2>4, <2>a, <3>1, <3>2, <3>3 DEF Stays
      <3>. QED BY <2>2, <3>1, <3>4
    <2>. QED BY <2>1, <2>3, <2>4
  <1>5. CASE Answered
    <2>1. PICK a \in answers: /\ answers' = answers \ {a} /\ Emit(<<a>>)
                              /\ UNCHANGED <<srv, up>> /\ ServerOnly
      BY <1>5 DEF Answered
    <2>2. a \in Events /\ a.r.k = "join"
      BY DEF TypeInv, NetTyped, Events, Acks, Oks, Joins
    <2>3. PICK es \in Seq(Events): Emit(es) /\ DOMAIN es = {1} /\ es[1] = a
      BY <2>1, <2>2, Single
    <2>4. Hears(a, es)
      BY <2>1, <2>2, <2>3 DEF Hears
    <2>. QED BY <2>1, <2>3, <2>4 DEF ServerOnly
  <1>. QED BY <1>1, <1>2, <1>3, <1>4, <1>5 DEF ServerStep

\* Events that empty the store.
Wipes(e) == e.k = "kicked" \/ (e.k = "ack" /\ e.r.k # "join" /\ e.why = "ok")

\* A join that is answered after the event i; a cleanup that was not, or will
\* be, refused.
WillJoin(i) == \E r \in asks: r.k = "join" /\ \A j \in DOMAIN down: Acked(r, j) => j > i
WillLeave   == \E r \in asks: /\ r.by = "cleanup"
                              /\ \/ r \in up \cup held
                                 \/ \E i \in DOMAIN down: Acked(r, i) /\ down[i].why = "active"

Counted == WillJoin(0) \/ WillLeave \/ (view = "room" /\ (joined \/ room # None))
Warned  == \A i \in DOMAIN down: Wipes(down[i]) => WillJoin(i)

\* A member is in the room page, or will hear of a join, or will leave.
MemberInv == "member" \notin lapses /\ Me \in srv.members => Counted /\ Warned

\* A join that is not answered yet.
LEMMA JoinCounts ==
    ASSUME NEW q \in asks, q.k = "join", \A i \in DOMAIN down: ~Acked(q, i)
    PROVE  Counted /\ Warned /\ \A i: WillJoin(i)
  <1>1. \A i: WillJoin(i)
    BY DEF WillJoin
  <1>. QED BY <1>1 DEF Counted, Warned

\* Sending takes nothing away.
LEMMA SendKeeps ==
    ASSUME asks \subseteq asks', up \subseteq up', held \subseteq held', UNCHANGED down
    PROVE  /\ \A i: WillJoin(i) => WillJoin(i)'
           /\ WillLeave => WillLeave'
           /\ Warned => Warned'
  <1>1. \A r, i: Acked(r, i)' <=> Acked(r, i)
    BY DEF Acked
  <1>2. \A i: WillJoin(i) => WillJoin(i)'
    BY <1>1 DEF WillJoin
  <1>3. WillLeave => WillLeave'
    BY <1>1 DEF WillLeave
  <1>. QED BY <1>2, <1>3 DEF Warned, Wipes

\* What the server says comes after what is under way.
LEMMA EmitKeeps ==
    ASSUME TypeInv, NEW es \in Seq(Events), Emit(es), UNCHANGED net
    PROVE  /\ \A i \in DOMAIN down \cup {0}: WillJoin(i) => WillJoin(i)'
           /\ (\A q \in asks: q.by = "cleanup" /\ q \in up => q \in up') /\ WillLeave => WillLeave'
           /\ Warned /\ (\A i \in DOMAIN es: ~Wipes(es[i])) => Warned'
  <1>0. asks' = asks /\ held' = held
    BY DEF net
  <1>1. /\ \A i \in DOMAIN down': \/ i \in DOMAIN down /\ down'[i] = down[i]
                                  \/ conn /\ \E j \in DOMAIN es: i = Len(down) + j /\ down'[i] = es[j]
        /\ \A i \in DOMAIN down: i \in DOMAIN down' /\ down'[i] = down[i]
        /\ DOMAIN down = 1..Len(down) /\ Len(down) \in Nat /\ DOMAIN es \subseteq Nat \ {0}
    BY Emitted
  <1>2. ASSUME NEW i \in DOMAIN down \cup {0}, WillJoin(i) PROVE WillJoin(i)'
    <2>1. PICK r \in asks: r.k = "join" /\ \A j \in DOMAIN down: Acked(r, j) => j > i
      BY <1>2 DEF WillJoin
    <2>2. ASSUME NEW j \in DOMAIN down', Acked(r, j)' PROVE j > i
      <3>1. CASE j \in DOMAIN down /\ down'[j] = down[j]
        BY <2>1, <2>2, <3>1 DEF Acked
      <3>2. CASE \E n \in DOMAIN es: j = Len(down) + n
        BY <1>1, <3>2
      <3>. QED BY <1>1, <3>1, <3>2
    <2>. QED BY <1>0, <2>1, <2>2 DEF WillJoin
  <1>3. ASSUME \A q \in asks: q.by = "cleanup" /\ q \in up => q \in up', WillLeave
        PROVE  WillLeave'
    <2>1. PICK q \in asks: /\ q.by = "cleanup"
                           /\ \/ q \in up \cup held
                              \/ \E i \in DOMAIN down: Acked(q, i) /\ down[i].why = "active"
      BY <1>3 DEF WillLeave
    <2>2. CASE q \in up \cup held
      BY <1>0, <1>3, <2>1, <2>2 DEF WillLeave
    <2>3. CASE \E i \in DOMAIN down: Acked(q, i) /\ down[i].why = "active"
      BY <1>0, <1>1, <2>1, <2>3 DEF WillLeave, Acked
    <2>. QED BY <2>1, <2>2, <2>3
  <1>4. ASSUME Warned, \A i \in DOMAIN es: ~Wipes(es[i]) PROVE Warned'
    <2>1. SUFFICES ASSUME NEW i \in DOMAIN down', Wipes(down'[i]) PROVE WillJoin(i)'
      BY DEF Warned, Wipes
    <2>2. i \in DOMAIN down /\ down'[i] = down[i]
      BY <1>1, <1>4, <2>1
    <2>. QED BY <1>2, <1>4, <2>1, <2>2 DEF Warned
  <1>. QED BY <1>2, <1>3, <1>4

\* Taking an event leaves what will be heard later.
LEMMA ReceiveKeeps ==
    ASSUME TypeInv, PlaceInv, NEW e, Arrives(e), held' = held, up \subseteq up',
           \A i \in DOMAIN down': i \in Nat \ {0} /\ i + 1 \in DOMAIN down /\ down'[i] = down[i + 1],
           \A i \in DOMAIN down: i # 1 => i - 1 \in DOMAIN down' /\ down'[i - 1] = down[i],
           e = down[1], asks \ {e.r} \subseteq asks', e.k # "ack" => asks' = asks
    PROVE  /\ \A i \in Nat: WillJoin(i + 1) => WillJoin(i)'
           /\ \A q \in asks': q.k = "join" => WillJoin(0)'
           /\ \A q \in asks: /\ q.by = "cleanup" /\ (e.k = "ack" => q # e.r)
                             /\ \/ q \in up \cup held
                                \/ \E i \in DOMAIN down: Acked(q, i) /\ down[i].why = "active"
                             => WillLeave'
           /\ Warned => Warned'
  <1>1. ASSUME NEW i \in Nat, WillJoin(i + 1) PROVE WillJoin(i)'
    <2>1. PICK q \in asks: q.k = "join" /\ \A j \in DOMAIN down: Acked(q, j) => j > i + 1
      BY <1>1 DEF WillJoin
    <2>2. 1 \in DOMAIN down
      BY Taken DEF Arrives, TypeInv, NetTyped
    <2>3. e.k = "ack" => q # e.r
      BY <2>1, <2>2, <1>1 DEF Acked
    <2>4. q \in asks'
      BY <2>1, <2>3
    <2>5. ASSUME NEW j \in DOMAIN down', Acked(q, j)' PROVE j > i
      <3>1. j \in Nat /\ j + 1 \in DOMAIN down /\ Acked(q, j + 1)
        BY <2>5 DEF Acked
      <3>. QED BY <1>1, <2>1, <3>1
    <2>. QED BY <2>1, <2>4, <2>5 DEF WillJoin
  <1>2. ASSUME NEW q \in asks', q.k = "join" PROVE WillJoin(0)'
    <2>1. \A j \in DOMAIN down': j > 0
      OBVIOUS
    <2>. QED BY <1>2, <2>1 DEF WillJoin
  <1>3. ASSUME NEW q \in asks, q.by = "cleanup", e.k = "ack" => q # e.r,
               \/ q \in up \cup held
               \/ \E i \in DOMAIN down: Acked(q, i) /\ down[i].why = "active"
        PROVE  WillLeave'
    <2>1. q \in asks'
      BY <1>3
    <2>2. CASE q \in up \cup held
      BY <1>3, <2>1, <2>2 DEF WillLeave
    <2>3. CASE \E i \in DOMAIN down: Acked(q, i) /\ down[i].why = "active"
      <3>1. PICK i \in DOMAIN down: Acked(q, i) /\ down[i].why = "active"
        BY <2>3
      <3>2. i # 1
        BY <1>3, <3>1 DEF Acked
      <3>3. i - 1 \in DOMAIN down' /\ down'[i - 1] = down[i]
        BY <3>2
      <3>4. PICK n \in DOMAIN down': down'[n] = down[i]
        BY <3>3
      <3>5. Acked(q, n)' /\ down'[n].why = "active"
        BY <3>1, <3>4 DEF Acked
      <3>. QED BY <1>3, <2>1, <3>5 DEF WillLeave
    <2>. QED BY <1>3, <2>2, <2>3
  <1>4. ASSUME Warned PROVE Warned'
    <2>1. SUFFICES ASSUME NEW i \in DOMAIN down', Wipes(down'[i]) PROVE WillJoin(i)'
      BY DEF Warned, Wipes
    <2>2. WillJoin(i + 1) /\ i \in Nat
      BY <1>4, <2>1 DEF Warned
    <2>. QED BY <1>1, <2>2
  <1>. QED BY <1>1, <1>2, <1>3, <1>4

\* Steps of the server.
LEMMA MemberServer ==
    ASSUME TypeInv, ServerInv, NetInv, MemberInv, ServerStep
    PROVE  MemberInv'
  <1>0. PlaceInv /\ AnswerInv
    BY DEF NetInv
  <1>1. PICK es \in Seq(Events):
             /\ Emit(es) /\ UNCHANGED <<net, page, store>> /\ lapses \subseteq lapses'
             /\ \/ GoesOn(es)
                \/ \E r \in up: JoinsNow(r, es) \/ Refuses(r, es) \/ Leaves(r, es) \/ Stays(r, es)
                \/ \E a \in answers: Hears(a, es)
    BY ServerCases
  <1>2. /\ asks' = asks /\ held' = held /\ view' = view /\ joined' = joined /\ room' = room
    BY <1>1 DEF net, page, store
  <1>3. SUFFICES ASSUME "member" \notin lapses', Me \in srv'.members
                 PROVE  Counted' /\ Warned'
    BY DEF MemberInv
  <1>4. "member" \notin lapses
    BY <1>1, <1>3
  <1>5. /\ \A i \in DOMAIN down': \/ i \in DOMAIN down /\ down'[i] = down[i]
                                  \/ conn /\ \E j \in DOMAIN es: i = Len(down) + j /\ down'[i] = es[j]
        /\ \A i \in DOMAIN down: i \in DOMAIN down' /\ down'[i] = down[i]
        /\ conn => \A j \in DOMAIN es: Len(down) + j \in DOMAIN down' /\ down'[Len(down) + j] = es[j]
    BY <1>1, Emitted
  \* The user was a member before and hears nothing that wipes the store.
  <1>a. ASSUME Me \in srv.members, \A i \in DOMAIN es: ~Wipes(es[i]),
               (\A q \in asks: q.by = "cleanup" /\ q \in up => q \in up') \/ WillLeave'
        PROVE  Counted' /\ Warned'
    <2>1. Counted /\ Warned
      BY <1>4, <1>a DEF MemberInv
    <2>2. WillJoin(0) => WillJoin(0)'
      BY <1>1, EmitKeeps
    <2>3. WillLeave => WillLeave'
      BY <1>1, <1>a, EmitKeeps
    <2>4. Warned'
      BY <1>1, <1>a, <2>1, EmitKeeps
    <2>. QED BY <1>2, <2>1, <2>2, <2>3, <2>4 DEF Counted
  <1>6. CASE GoesOn(es)
    <2>1. Me \in srv.members /\ \A i \in DOMAIN es: es[i].k \in {"room", "over"}
      BY <1>3, <1>6 DEF GoesOn
    <2>2. \A i \in DOMAIN es: ~Wipes(es[i])
      BY <2>1 DEF Wipes
    <2>3. up' = up
      BY <1>6 DEF GoesOn
    <2>. QED BY <1>a, <2>1, <2>2, <2>3
  <1>7. ASSUME NEW r \in up, JoinsNow(r, es)
        PROVE  Counted' /\ Warned'
    <2>1. r \in asks /\ r.k = "join"
      BY <1>0, <1>4, <1>7 DEF AnswerInv, Travels, JoinsNow, Joins
    <2>2. \A i \in DOMAIN down: ~Acked(r, i)
      BY <1>0, <1>7 DEF PlaceInv, Acked
    <2>3. \A j \in DOMAIN es: es[j].k = "room"
      BY <1>7 DEF JoinsNow
    <2>4. \A i \in DOMAIN down': ~Acked(r, i)'
      BY <1>5, <2>2, <2>3 DEF Acked
    <2>5. WillJoin(0)' /\ Warned'
      BY <1>2, <2>1, <2>4 DEF WillJoin, Warned
    <2>. QED BY <2>5 DEF Counted
  <1>8. ASSUME NEW r \in up, Refuses(r, es)
        PROVE  Counted' /\ Warned'
    <2>1. r.by # "cleanup" /\ up' = up \ {r} /\ srv' = srv
      BY <1>8 DEF Refuses, Joins
    <2>2. \A i \in DOMAIN es: ~Wipes(es[i])
      BY <1>8 DEF Refuses, Wipes
    <2>. QED BY <1>3, <1>a, <2>1, <2>2
  <1>9. ASSUME NEW r \in up, Leaves(r, es)
        PROVE  FALSE
    BY <1>3, <1>9 DEF Leaves
  <1>10. ASSUME NEW r \in up, Stays(r, es)
         PROVE  Counted' /\ Warned'
    <2>1. up' = up \ {r} /\ srv' = srv
      BY <1>10 DEF Stays
    <2>2. \A i \in DOMAIN es: ~Wipes(es[i])
      BY <1>10 DEF Stays, Wipes
    <2>3. CASE r \in asks /\ r.by = "cleanup"
      <3>1. r \in Cleanups
        BY <1>10, <2>3 DEF Stays, Buttons
      <3>2. conn
        BY <1>0, <2>3 DEF PlaceInv
      <3>3. 1 \in DOMAIN es /\ es[1].why = "active" /\ es[1].k = "ack" /\ es[1].r = r
        BY <1>3, <1>10, <2>1, <2>3, <3>1 DEF Stays
      <3>4. PICK n \in DOMAIN down': down'[n] = es[1]
        BY <1>5, <3>2, <3>3
      <3>5. Acked(r, n)' /\ down'[n].why = "active"
        BY <3>3, <3>4 DEF Acked
      <3>6. WillLeave'
        BY <1>2, <2>3, <3>5 DEF WillLeave
      <3>. QED BY <1>3, <1>a, <2>1, <2>2, <3>6
    <2>4. CASE ~(r \in asks /\ r.by = "cleanup")
      BY <1>3, <1>a, <2>1, <2>2, <2>4
    <2>. QED BY <2>3, <2>4
  <1>11. ASSUME NEW a \in answers, Hears(a, es)
         PROVE  Counted' /\ Warned'
    <2>1. up' = up /\ srv' = srv
      BY <1>11 DEF Hears
    <2>2. \A i \in DOMAIN es: ~Wipes(es[i])
      <3>1. a.k # "kicked"
        BY DEF TypeInv, NetTyped, Oks
      <3>. QED BY <1>11, <3>1 DEF Hears, Wipes
    <2>. QED BY <1>3, <1>a, <2>1, <2>2
  <1>. QED BY <1>1, <1>6, <1>7, <1>8, <1>9, <1>10, <1>11

\* Events that arrive.
LEMMA MemberReceive ==
    ASSUME TypeInv, ServerInv, NetInv, MemberInv, Receive
    PROVE  MemberInv'
  <1>0. PlaceInv /\ RequestInv /\ RefuseInv
    BY DEF NetInv
  <1>1. PICK e \in Events:
          /\ Arrives(e)
          /\ \/ e.k = "room" /\ e.room \in Snapshots /\ OnRoom(e.room)
             \/ e.k = "kicked" /\ OnKicked
             \/ e.k = "over" /\ OnOver
             \/ e.k = "ack" /\ e.r \notin asks /\ Ignored
             \/ e.k = "ack" /\ e \in Acks /\ e.r \in asks /\ e.r.k = "join" /\ OnJoinAck(e)
             \/ e.k = "ack" /\ e \in Acks /\ e.r \in asks /\ e.r.k # "join" /\ OnLeaveAck(e)
    BY ReceiveCases
  <1>2. srv' = srv
    BY <1>1 DEF Arrives
  <1>3. SUFFICES ASSUME "member" \notin lapses', Me \in srv.members
                 PROVE  Counted' /\ Warned'
    BY <1>2 DEF MemberInv
  <1>4. PICK none: none = {}
    OBVIOUS
  \* The store or the page changes, no request does.
  <1>a. ASSUME UNCHANGED <<asks, up, held, view, joined, lapses>>, e.k = "ack" => e.r \notin asks,
               \/ Wipes(e) \/ room' = room \/ room' # None
        PROVE  Counted' /\ Warned'
    <2>1. Counted /\ Warned
      BY <1>3, <1>a DEF MemberInv
    <2>2. held' = held /\ up' = up \cup none /\ (\A q \in none: ~Known(q)) /\ asks' = asks /\ none = {}
      BY <1>4, <1>a
    <2>3. /\ \A i \in DOMAIN down': i \in Nat \ {0} /\ i + 1 \in DOMAIN down /\ down'[i] = down[i + 1]
          /\ \A i \in DOMAIN down: i # 1 => i - 1 \in DOMAIN down' /\ down'[i - 1] = down[i]
          /\ e = down[1] /\ 1 \in DOMAIN down
      BY <1>0, <1>1, <2>2, Received
    <2>4. /\ \A i \in Nat: WillJoin(i + 1) => WillJoin(i)'
          /\ \A q \in asks': q.k = "join" => WillJoin(0)'
          /\ \A q \in asks: /\ q.by = "cleanup" /\ (e.k = "ack" => q # e.r)
                            /\ \/ q \in up \cup held
                               \/ \E i \in DOMAIN down: Acked(q, i) /\ down[i].why = "active"
                            => WillLeave'
          /\ Warned => Warned'
      <3>1. asks \ {e.r} \subseteq asks' /\ up \subseteq up'
        BY <2>2
      <3>. QED BY <1>0, <1>1, <2>2, <2>3, <3>1, ReceiveKeeps
    <2>5. CASE WillJoin(0)
      BY <1>a, <2>1, <2>4, <2>5 DEF WillJoin, Counted
    <2>6. CASE WillLeave
      BY <1>a, <2>1, <2>4, <2>6 DEF WillLeave, Counted
    <2>7. CASE view = "room" /\ (joined \/ room # None)
      <3>1. CASE Wipes(e)
        <4>1. WillJoin(1)
          BY <2>1, <2>3, <3>1 DEF Warned
        <4>2. WillJoin(0)'
          BY <1>a, <2>4, <4>1 DEF WillJoin
        <4>. QED BY <2>1, <2>4, <4>2 DEF Counted
      <3>2. CASE room' = room \/ room' # None
        BY <1>a, <2>1, <2>4, <2>7, <3>2 DEF Counted
      <3>. QED BY <1>a, <3>1, <3>2
    <2>. QED BY <2>1, <2>5, <2>6, <2>7 DEF Counted
  <1>5. CASE e.k = "room" /\ e.room \in Snapshots /\ OnRoom(e.room)
    <2>1. room' # None
      BY <1>5, RoomPageAssumption DEF OnRoom
    <2>. QED BY <1>5, <1>a, <2>1 DEF OnRoom, page
  <1>6. CASE e.k = "kicked" /\ OnKicked
    BY <1>6, <1>a DEF OnKicked, page, Wipes
  <1>7. CASE e.k = "over" /\ OnOver
    BY <1>7, <1>a DEF OnOver, page
  <1>8. CASE e.k = "ack" /\ e.r \notin asks /\ Ignored
    BY <1>8, <1>a DEF Ignored, page, store
  <1>9. CASE e.k = "ack" /\ e \in Acks /\ e.r \in asks /\ e.r.k = "join" /\ OnJoinAck(e)
    <2>1. PICK ok \in BOOLEAN:
             /\ ok = (e.why = "ok" \/ (e.why = "active" /\ room # None /\ room.phase = "active"))
             /\ room' = IF e.why = "ok" THEN e.room ELSE room
             /\ \/ e.r.by = "page" /\ PageJoined(e.r, ok, e.why)
                \/ e.r.by = "form" /\ FormJoined(e.r, ok)
                \/ e.r.by = "socket" /\ SocketJoined(e.r)
             /\ lapses \subseteq lapses'
             /\ ~ok /\ Me \in srv.members => "member" \in lapses'
             /\ ok /\ e.r.by = "form" /\ ~Active(e.r) => "member" \in lapses'
             /\ ok /\ e.r.by = "socket" /\ view = "lobby" => "member" \in lapses'
             /\ UNCHANGED <<overlay, held, view, visit, mounted>>
      BY <1>9, JoinAckCases
    <2>2. ok = TRUE /\ Warned
      BY <1>3, <2>1 DEF MemberInv
    <2>3. PICK leave: /\ up' = up \cup leave /\ asks' = (asks \ {e.r}) \cup leave
                      /\ \A q \in leave: ~Known(q)
      BY <1>0, <1>1, <1>9, JoinAckRequests
    <2>4. /\ \A i \in DOMAIN down': i \in Nat \ {0} /\ i + 1 \in DOMAIN down /\ down'[i] = down[i + 1]
          /\ \A i \in DOMAIN down: i # 1 => i - 1 \in DOMAIN down' /\ down'[i - 1] = down[i]
          /\ e = down[1] /\ 1 \in DOMAIN down
      BY <1>0, <1>1, <1>9, <2>1, <2>3, Received
    <2>5. Warned'
      <3>1. asks \ {e.r} \subseteq asks' /\ up \subseteq up' /\ held' = held
        BY <2>1, <2>3
      <3>. QED BY <1>0, <1>1, <1>9, <2>2, <2>4, <3>1, ReceiveKeeps
    <2>6. e.why = "ok"
      BY <1>0, <1>9, <2>1, <2>2, <2>4 DEF RefuseInv
    <2>7. room' # None
      BY <1>9, <2>1, <2>6, AckKinds, RoomPageAssumption
    <2>8. view \in {"lobby", "room"} /\ visit \in Nat /\ mounted \in Nat
      BY DEF TypeInv, PageTyped
    <2>9. CASE e.r.by = "page" /\ PageJoined(e.r, ok, e.why)
      <3>1. CASE Active(e.r)
        <4>1. view' = "room"
          BY <2>1, <3>1 DEF Active
        <4>. QED BY <2>5, <2>7, <4>1 DEF Counted
      <3>2. CASE ~Active(e.r)
        <4> DEFINE q == Req("leave", "cleanup", e.r.visit)
        <4>1. q \in asks' /\ q \in up'
          BY <2>2, <2>9, <3>2 DEF PageJoined, UndoJoin
        <4>2. q.by = "cleanup"
          BY DEF Req
        <4> HIDE DEF q
        <4>3. WillLeave'
          BY <4>1, <4>2 DEF WillLeave
        <4>. QED BY <2>5, <4>3 DEF Counted
      <3>. QED BY <3>1, <3>2
    <2>10. CASE e.r.by = "form"
      <3>1. view' = "room"
        BY <1>3, <2>1, <2>2, <2>10 DEF Active
      <3>. QED BY <2>5, <2>7, <3>1 DEF Counted
    <2>11. CASE e.r.by = "socket"
      <3>1. view' = "room"
        BY <1>3, <2>1, <2>2, <2>8, <2>11
      <3>. QED BY <2>5, <2>7, <3>1 DEF Counted
    <2>. QED BY <2>1, <2>9, <2>10, <2>11
  <1>10. CASE e.k = "ack" /\ e \in Acks /\ e.r \in asks /\ e.r.k # "join" /\ OnLeaveAck(e)
    <2>1. /\ asks' = asks \ {e.r} /\ UNCHANGED <<up, held>>
          /\ IF e.why = "ok" THEN room' = None ELSE UNCHANGED <<room, overlay>>
          /\ e.why = "ok" \/ UNCHANGED <<view, joined>>
          /\ lapses \subseteq lapses'
          /\ e.why = "active" /\ e.r.by = "cleanup" => "member" \in lapses'
      BY <1>10, LeaveAckCases
    <2>2. Counted /\ Warned
      BY <1>3, <2>1 DEF MemberInv
    <2>3. up' = up \cup none /\ asks' = (asks \ {e.r}) \cup none /\ (\A q \in none: ~Known(q)) /\ held' = held
      BY <1>4, <2>1
    <2>4. /\ \A i \in DOMAIN down': i \in Nat \ {0} /\ i + 1 \in DOMAIN down /\ down'[i] = down[i + 1]
          /\ \A i \in DOMAIN down: i # 1 => i - 1 \in DOMAIN down' /\ down'[i - 1] = down[i]
          /\ e = down[1] /\ 1 \in DOMAIN down /\ e.r \notin up /\ conn
          /\ \A i \in DOMAIN down: Acked(e.r, i) => i = 1
      BY <1>0, <1>1, <1>10, <2>3, Received
    <2>5. /\ \A i \in Nat: WillJoin(i + 1) => WillJoin(i)'
          /\ \A q \in asks': q.k = "join" => WillJoin(0)'
          /\ \A q \in asks: /\ q.by = "cleanup" /\ (e.k = "ack" => q # e.r)
                            /\ \/ q \in up \cup held
                               \/ \E i \in DOMAIN down: Acked(q, i) /\ down[i].why = "active"
                            => WillLeave'
          /\ Warned'
      <3>1. asks \ {e.r} \subseteq asks' /\ up \subseteq up' /\ held' = held /\ e.k = "ack"
        BY <1>10, <2>1
      <3>. QED BY <1>0, <1>1, <2>2, <2>4, <3>1, ReceiveKeeps
    <2>6. ASSUME NEW q \in asks, q.k = "join" PROVE WillJoin(0)'
      <3>1. q \in asks'
        BY <1>10, <2>1, <2>6
      <3>. QED BY <2>5, <2>6, <3>1
    <2>7. CASE e.why = "ok"
      <3>1. WillJoin(1)
        BY <1>10, <2>2, <2>4, <2>7 DEF Warned, Wipes
      <3>2. WillJoin(0)'
        BY <2>6, <3>1 DEF WillJoin
      <3>. QED BY <2>5, <3>2 DEF Counted
    <2>8. CASE e.why # "ok"
      <3>1. CASE WillJoin(0)
        <4>1. WillJoin(0)'
          BY <2>6, <3>1 DEF WillJoin
        <4>. QED BY <2>5, <4>1 DEF Counted
      <3>2. CASE WillLeave
        <4>1. PICK q \in asks: /\ q.by = "cleanup"
                               /\ \/ q \in up \cup held
                                  \/ \E i \in DOMAIN down: Acked(q, i) /\ down[i].why = "active"
          BY <3>2 DEF WillLeave
        <4>2. q # e.r
          <5>1. held = {}
            BY <1>0, <2>4 DEF PlaceInv
          <5>2. SUFFICES ASSUME q = e.r PROVE FALSE
            OBVIOUS
          <5>3. PICK i \in DOMAIN down: Acked(q, i) /\ down[i].why = "active"
            BY <2>4, <4>1, <5>1, <5>2
          <5>4. e.why = "active"
            BY <2>4, <5>2, <5>3
          <5>. QED BY <1>3, <2>1, <4>1, <5>2, <5>4
        <4>3. WillLeave'
          BY <2>5, <4>1, <4>2
        <4>. QED BY <2>5, <4>3 DEF Counted
      <3>3. CASE view = "room" /\ (joined \/ room # None)
        BY <2>1, <2>5, <2>8, <3>3 DEF Counted
      <3>. QED BY <2>2, <3>1, <3>2, <3>3 DEF Counted
    <2>. QED BY <2>7, <2>8
  <1>. QED BY <1>1, <1>5, <1>6, <1>7, <1>8, <1>9, <1>10

\* The pages.
LEMMA MemberPages ==
    ASSUME TypeInv, ServerInv, NetInv, MemberInv,
           OpenRoom \/ CreateRoom \/ LeavePage \/ ChangeLanguage \/ SubmitPassword \/ ClickLeave \/ ClickQuit
    PROVE  MemberInv'
  <1>0. PlaceInv /\ RequestInv
    BY DEF NetInv
  <1>1. view \in {"lobby", "room"} /\ visit \in 0..MaxVisits
    BY DEF TypeInv, PageTyped
  \* A join is sent.
  <1>a. ASSUME NEW rs, Send(rs), \A r \in rs: ~Known(r), UNCHANGED <<answers, down, conn>>,
               NEW q \in rs, q.k = "join"
        PROVE  MemberInv'
    <2>1. asks' = asks \cup rs /\ \A r \in rs: \A i \in DOMAIN down': ~Acked(r, i)'
      BY <1>0, <1>a, Sent
    <2>2. q \in asks' /\ \A i \in DOMAIN down': ~Acked(q, i)'
      BY <1>a, <2>1
    <2>3. WillJoin(0)' /\ Warned'
      BY <1>a, <2>2 DEF WillJoin, Warned
    <2>. QED BY <2>3 DEF MemberInv, Counted
  <1>2. CASE Mount /\ UNCHANGED <<answers, down, conn>>
    <2>1. PICK q \in Joins: q.by = "page" /\ Send({q}) /\ \A r \in {q}: ~Known(r)
      BY <1>0, <1>2, MountRequests
    <2>2. PICK rs: rs = {q}
      OBVIOUS
    <2>3. Send(rs) /\ (\A r \in rs: ~Known(r)) /\ q \in rs /\ q.k = "join"
      BY <2>1, <2>2 DEF Joins
    <2>. QED BY <1>2, <1>a, <2>3
  <1>3. CASE OpenRoom
    BY <1>2, <1>3 DEF OpenRoom
  <1>4. CASE CreateRoom
    <2>1. CASE Mount
      BY <1>2, <1>4, <2>1, CreateCases, RoomPageAssumption
    <2>2. CASE UNCHANGED <<srv, up, held, asks, page, store>>
      <3>1. UNCHANGED <<down, lapses>>
        BY <1>4, CreateCases, RoomPageAssumption
      <3>2. \A r, i: Acked(r, i)' <=> Acked(r, i)
        BY <3>1 DEF Acked
      <3>3. (\A i: WillJoin(i)' <=> WillJoin(i)) /\ (WillLeave' <=> WillLeave)
        BY <2>2, <3>1, <3>2 DEF WillJoin, WillLeave
      <3>. QED BY <2>2, <3>1, <3>3 DEF MemberInv, Counted, Warned, Wipes, page, store
    <2>. QED BY <1>4, <2>1, <2>2, CreateCases, RoomPageAssumption
  <1>5. CASE LeavePage
    <2>1. /\ Send(CleanupRequests) /\ (\A r \in CleanupRequests: ~Known(r))
          /\ UNCHANGED <<srv, answers, down, conn>> /\ Lapse(Untold, {"member"})
      BY <1>0, <1>5, LeaveRequests DEF LeavePage
    <2>2. /\ asks' = asks \cup CleanupRequests /\ up \subseteq up' /\ held \subseteq held'
          /\ CleanupRequests \subseteq up' \cup held'
      BY <1>0, <2>1, Sent
    <2>3. SUFFICES ASSUME "member" \notin lapses', Me \in srv.members PROVE Counted' /\ Warned'
      BY <2>1 DEF MemberInv
    <2>4. "member" \notin lapses /\ ~Untold
      BY <2>1, <2>3 DEF Lapse
    <2>5. Counted /\ Warned
      BY <2>3, <2>4 DEF MemberInv
    <2>6. (\A i: WillJoin(i) => WillJoin(i)') /\ (WillLeave => WillLeave') /\ Warned'
      BY <2>1, <2>2, <2>5, SendKeeps
    <2>7. CASE Joining
      <3>1. DOMAIN down \subseteq Nat \ {0}
        BY DEF TypeInv, NetTyped
      <3>2. \A j \in DOMAIN down: j > 0
        BY <3>1
      <3>3. WillJoin(0)
        BY <2>7, <3>2 DEF Joining, WillJoin
      <3>. QED BY <2>6, <3>3 DEF Counted
    <2>8. CASE joined /\ room # None
      <3> DEFINE q == Req("leave", "cleanup", visit)
      <3>1. q \in CleanupRequests
        BY <2>8 DEF CleanupRequests
      <3>2. q.by = "cleanup"
        BY DEF Req
      <3> HIDE DEF q
      <3>3. WillLeave'
        BY <2>2, <3>1, <3>2 DEF WillLeave
      <3>. QED BY <2>6, <3>3 DEF Counted
    <2>9. CASE ~joined /\ room = None
      BY <2>5, <2>6, <2>9 DEF Counted
    <2>10. joined \in BOOLEAN
      BY DEF TypeInv, PageTyped
    <2>. QED BY <2>3, <2>4, <2>7, <2>8, <2>9, <2>10 DEF Untold
  <1>6. CASE ChangeLanguage
    <2>1. PICK q \in Joins: /\ Send(CleanupRequests \cup {q})
                            /\ \A r \in CleanupRequests \cup {q}: ~Known(r)
      BY <1>0, <1>6, LanguageRequests
    <2>2. PICK rs: rs = CleanupRequests \cup {q}
      OBVIOUS
    <2>3. Send(rs) /\ (\A r \in rs: ~Known(r)) /\ q \in rs /\ q.k = "join"
      BY <2>1, <2>2 DEF Joins
    <2>. QED BY <1>6, <1>a, <2>3 DEF ChangeLanguage
  <1>7. CASE SubmitPassword
    <2>1. PICK q \in Joins: Send({q}) /\ \A r \in {q}: ~Known(r)
      BY <1>0, <1>7, PasswordRequests
    <2>2. PICK rs: rs = {q}
      OBVIOUS
    <2>3. Send(rs) /\ (\A r \in rs: ~Known(r)) /\ q \in rs /\ q.k = "join"
      BY <2>1, <2>2 DEF Joins
    <2>. QED BY <1>7, <1>a, <2>3 DEF SubmitPassword
  <1>8. CASE ClickLeave \/ ClickQuit
    <2>1. UNCHANGED <<srv, answers, down, conn, page, store, lapses>>
      BY <1>0, <1>8, ClickRequests
    <2>2. PICK q \in Buttons: Send({q}) /\ \A r \in {q}: ~Known(r)
      BY <1>0, <1>8, ClickRequests
    <2>3. asks \subseteq asks' /\ up \subseteq up' /\ held \subseteq held'
      BY <1>0, <2>1, <2>2, Sent
    <2>4. (\A i: WillJoin(i) => WillJoin(i)') /\ (WillLeave => WillLeave') /\ (Warned => Warned')
      BY <2>1, <2>3, SendKeeps
    <2>5. Counted => Counted'
      BY <2>1, <2>4 DEF Counted, page, store
    <2>. QED BY <2>1, <2>4, <2>5 DEF MemberInv
  <1>. QED BY <1>3, <1>4, <1>5, <1>6, <1>7, <1>8

\* All steps.
LEMMA MemberStep ==
    ASSUME TypeInv, ServerInv, NetInv, MemberInv, [Next]_vars
    PROVE  MemberInv'
  <1>0. PlaceInv
    BY DEF NetInv
  <1>1. CASE OpenRoom \/ CreateRoom \/ LeavePage \/ ChangeLanguage \/ SubmitPassword \/ ClickLeave \/ ClickQuit
    BY <1>1, MemberPages
  <1>2. CASE ServerStep
    BY <1>2, MemberServer
  <1>3. CASE Receive
    BY <1>3, MemberReceive
  <1>4. CASE AckTimeout \/ WaitTimeout
    BY <1>4 DEF AckTimeout, WaitTimeout, Fail, Missed, MemberInv
  <1>5. CASE Drop
    <2>1. /\ down' = <<>> /\ UNCHANGED <<srv, store, view, joined>> /\ asks' \subseteq asks
          /\ lapses \subseteq lapses' /\ (asks # {} => "member" \in lapses')
      BY <1>5 DEF Drop, Fail, Missed
    <2>2. DOMAIN down' = {}
      BY <2>1
    <2>3. Warned'
      BY <2>2 DEF Warned
    <2>4. asks = {} /\ Counted => Counted'
      BY <2>1 DEF Counted, WillJoin, WillLeave, store
    <2>. QED BY <2>1, <2>3, <2>4 DEF MemberInv
  <1>6. CASE Connect
    <2> DEFINE j == Req("join", "socket", 0)
    <2>1. /\ down' = <<>> /\ UNCHANGED <<srv, lapses>>
          /\ Me \in srv.members => j \in asks'
      BY <1>0, <1>6, PlaceConnect
    <2>2. j.k = "join"
      BY DEF Req
    <2> HIDE DEF j
    <2>3. DOMAIN down' = {}
      BY <2>1
    <2>4. Warned' /\ (Me \in srv.members => WillJoin(0)')
      BY <2>1, <2>2, <2>3 DEF Warned, WillJoin
    <2>. QED BY <2>1, <2>4 DEF MemberInv, Counted
  <1>7. CASE UNCHANGED vars
    <2>1. UNCHANGED <<srv, up, down, held, asks, page, store, lapses>>
      BY <1>7 DEF vars, net
    <2>2. \A r, i: Acked(r, i)' <=> Acked(r, i)
      BY <2>1 DEF Acked
    <2>3. (\A i: WillJoin(i)' <=> WillJoin(i)) /\ (WillLeave' <=> WillLeave)
      BY <2>1, <2>2 DEF WillJoin, WillLeave
    <2>. QED BY <2>1, <2>3 DEF MemberInv, Counted, Warned, Wipes, page, store
  <1>. QED BY <1>1, <1>2, <1>3, <1>4, <1>5, <1>6, <1>7 DEF Next, ServerStep, Happens

\* LeavingLeaves: what RoomContainer.tsx does when its effect ends (leave what
\* was joined, undo a join that succeeds too late), with the answers of
\* room:join and room:leave (room_handlers.py), makes a user without a page
\* leave a waiting room, or one of the known exceptions happened.
THEOREM WhoIsGoneHasLeft == Spec => []LeavingLeaves
  <1>1. Init => MemberInv
    BY RoomPageAssumption DEF Init, NewRoom, MemberInv
  <1>2. TypeInv /\ ServerInv /\ NetInv /\ MemberInv => LeavingLeaves
    <2>1. SUFFICES ASSUME NetInv, MemberInv, Quiet, view = "lobby", Me \in srv.members, "member" \notin lapses
                   PROVE  FALSE
      BY DEF LeavingLeaves
    <2>2. asks = {}
      BY <2>1 DEF Quiet
    <2>. QED BY <2>1, <2>2 DEF MemberInv, Counted, WillJoin, WillLeave
  <1>3. TypeInv /\ ServerInv /\ NetInv /\ MemberInv /\ [Next]_vars => (NetInv /\ MemberInv)'
    BY NetStep, MemberStep
  <1>. QED BY <1>1, <1>2, <1>3, NetInit, TypesHold, PTL DEF Spec

-----------------------------------------------------------------------------
(* Who is shown a room is a member of it.                                  *)

\* Events that fill the store.
Shows(e) == e.k = "room" \/ (e.k = "ack" /\ e.r.k = "join" /\ e.why = "ok")

RoomAfter(i) == \E j \in DOMAIN down: j > i /\ down[j].k = "room"
WipeAfter(i) == \E j \in DOMAIN down: j > i /\ Wipes(down[j])

\* What empties the store of a member is followed by the room.
Restored == Me \in srv.members => \A i \in DOMAIN down: Wipes(down[i]) => RoomAfter(i)

\* A member's page shows the room, asks for the password, or will be answered.
Showing == \/ pw \/ room # None \/ PageJoin(visit)
           \/ \E r \in asks: r.by = "socket"
           \/ \E i \in DOMAIN down: down[i].k = "room"
Filled == "shown" \notin lapses /\ conn /\ view = "room" /\ Me \in srv.members => Showing

\* Whatever fills the store of somebody who is no member is followed by what
\* empties it.
Emptied == /\ answers = {}
           /\ room # None => \E i \in DOMAIN down: Wipes(down[i])
           /\ \A i \in DOMAIN down: Shows(down[i]) => WipeAfter(i)
Clears == "shown" \notin lapses /\ conn /\ Me \notin srv.members => Emptied

ShownInv == Restored /\ Filled /\ Clears

\* Steps of the server.
LEMMA ShownServer ==
    ASSUME TypeInv, ServerInv, NetInv, ShownInv, ServerStep
    PROVE  ShownInv'
  <1>0. PlaceInv /\ AnswerInv
    BY DEF NetInv
  <1>1. PICK es \in Seq(Events):
             /\ Emit(es) /\ UNCHANGED <<net, page, store>> /\ lapses \subseteq lapses'
             /\ \/ GoesOn(es)
                \/ \E r \in up: JoinsNow(r, es) \/ Refuses(r, es) \/ Leaves(r, es) \/ Stays(r, es)
                \/ \E a \in answers: Hears(a, es)
    BY ServerCases
  <1>2. UNCHANGED <<asks, held, conn, view, visit, pw, room>>
    BY <1>1 DEF net, page, store
  <1>3. /\ \A i \in DOMAIN down': \/ i \in DOMAIN down /\ down'[i] = down[i]
                                  \/ conn /\ \E j \in DOMAIN es: i = Len(down) + j /\ down'[i] = es[j]
        /\ \A i \in DOMAIN down: i \in DOMAIN down' /\ down'[i] = down[i]
        /\ conn => \A j \in DOMAIN es: Len(down) + j \in DOMAIN down' /\ down'[Len(down) + j] = es[j]
        /\ DOMAIN down = 1..Len(down) /\ Len(down) \in Nat /\ DOMAIN es \subseteq Nat \ {0}
        /\ ~conn => down' = down
    BY <1>1, Emitted
  <1>4. \A i: (RoomAfter(i) => RoomAfter(i)') /\ (WipeAfter(i) => WipeAfter(i)')
    BY <1>3 DEF RoomAfter, WipeAfter, Wipes
  <1>5. \A n: PageJoin(n) => PageJoin(n)'
    BY <1>2 DEF PageJoin
  \* A member stays one, or somebody else stays out, and hears nothing of it.
  <1>a. ASSUME \A i \in DOMAIN es: ~Wipes(es[i]), Me \in srv'.members => Me \in srv.members
        PROVE  Restored' /\ Filled'
    <2>1. Restored'
      <3>1. SUFFICES ASSUME Me \in srv'.members, NEW i \in DOMAIN down', Wipes(down'[i]) PROVE RoomAfter(i)'
        BY DEF Restored, Wipes
      <3>2. i \in DOMAIN down /\ down'[i] = down[i]
        BY <1>3, <1>a, <3>1
      <3>. QED BY <1>4, <1>a, <3>1, <3>2 DEF ShownInv, Restored
    <2>2. Filled'
      <3>1. Showing => Showing'
        BY <1>2, <1>3, <1>5 DEF Showing
      <3>. QED BY <1>1, <1>2, <1>a, <3>1 DEF ShownInv, Filled
    <2>. QED BY <2>1, <2>2
  <1>b. ASSUME \A i \in DOMAIN es: ~Shows(es[i]), Me \notin srv.members, answers' = answers
        PROVE  Clears'
    <2>1. SUFFICES ASSUME "shown" \notin lapses', conn PROVE Emptied'
      BY <1>2 DEF Clears
    <2>2. Emptied
      BY <1>1, <1>b, <2>1 DEF ShownInv, Clears
    <2>3. room' # None => \E i \in DOMAIN down': Wipes(down'[i])
      BY <1>2, <1>3, <2>2 DEF Emptied
    <2>4. ASSUME NEW i \in DOMAIN down', Shows(down'[i]) PROVE WipeAfter(i)'
      <3>1. i \in DOMAIN down /\ down'[i] = down[i]
        BY <1>3, <1>b, <2>4
      <3>. QED BY <1>4, <2>2, <2>4, <3>1 DEF Emptied
    <2>. QED BY <1>b, <2>2, <2>3, <2>4 DEF Emptied, Wipes, Shows
  <1>c. ASSUME Me \in srv'.members PROVE Clears'
    BY <1>c DEF Clears
  <1>d. ASSUME NEW n \in DOMAIN es, Wipes(es[n]), ~Shows(es[n]), \A i \in DOMAIN es: i <= n,
               answers' = answers, (\E a \in answers : a.r.k = "join") => "shown" \in lapses'
        PROVE  Clears'
    <2>1. SUFFICES ASSUME "shown" \notin lapses', conn PROVE Emptied'
      BY <1>2 DEF Clears
    <2>2. answers' = {}
      <3>1. \A a \in answers: a.r.k = "join"
        BY DEF TypeInv, NetTyped, Oks, Joins
      <3>. QED BY <1>d, <2>1, <3>1
    <2>3. Len(down) + n \in DOMAIN down' /\ down'[Len(down) + n] = es[n]
      BY <1>3, <2>1
    <2>4. ASSUME NEW i \in DOMAIN down', Shows(down'[i]) PROVE Len(down) + n > i
      <3>1. CASE i \in DOMAIN down
        <4>1. i \in Nat /\ i <= Len(down) /\ n \in Nat \ {0} /\ Len(down) \in Nat
          BY <1>3, <3>1
        <4>. QED BY <4>1
      <3>2. CASE \E j \in DOMAIN es: i = Len(down) + j /\ down'[i] = es[j]
        <4>1. PICK j \in DOMAIN es: i = Len(down) + j /\ down'[i] = es[j]
          BY <3>2
        <4>2. j # n /\ j <= n /\ j \in Nat /\ n \in Nat /\ Len(down) \in Nat
          BY <1>3, <1>d, <2>4, <4>1
        <4>3. Len(down) + n > Len(down) + j
          BY <4>2
        <4>. QED BY <4>1, <4>3
      <3>. QED BY <1>3, <3>1, <3>2
    <2>5. PICK m \in DOMAIN down': m = Len(down) + n /\ Wipes(down'[m])
      BY <1>d, <2>3
    <2>6. \A i \in DOMAIN down': Shows(down'[i]) => m > i
      BY <2>4, <2>5
    <2>. QED BY <2>2, <2>5, <2>6 DEF Emptied, WipeAfter, Wipes, Shows
  <1>6. CASE GoesOn(es)
    <2>1. CASE Me \in srv'.members
      <3>1. \A i \in DOMAIN es: ~Wipes(es[i])
        BY <1>6, <2>1 DEF GoesOn, Wipes
      <3>2. Me \in srv.members
        BY <1>6, <2>1 DEF GoesOn
      <3>. QED BY <1>a, <1>c, <2>1, <3>1, <3>2 DEF ShownInv
    <2>2. CASE Me \notin srv'.members
      <3>1. Restored' /\ Filled'
        BY <2>2 DEF Restored, Filled
      <3>2. CASE Me \in srv.members
        <4>1. /\ 1 \in DOMAIN es /\ es[1] = Kicked /\ DOMAIN es = {1} /\ answers' = answers
              /\ (\E a \in answers : a.r.k = "join") => "shown" \in lapses'
          BY <1>6, <2>2, <3>2 DEF GoesOn
        <4>2. Wipes(es[1]) /\ ~Shows(es[1]) /\ \A i \in DOMAIN es: i <= 1
          BY <4>1 DEF Wipes, Shows, Kicked
        <4>. QED BY <1>d, <3>1, <4>1, <4>2 DEF ShownInv
      <3>3. CASE Me \notin srv.members
        <4>1. (\A i \in DOMAIN es: ~Shows(es[i])) /\ answers' = answers
          BY <1>6, <3>3 DEF GoesOn
        <4>. QED BY <1>b, <3>1, <3>3, <4>1 DEF ShownInv
      <3>. QED BY <3>2, <3>3
    <2>. QED BY <2>1, <2>2
  <1>7. ASSUME NEW r \in up, JoinsNow(r, es)
        PROVE  ShownInv'
    <2>1. Me \in srv'.members /\ 1 \in DOMAIN es /\ es[1].k = "room" /\ DOMAIN es = {1}
      BY <1>7 DEF JoinsNow
    <2>2. CASE conn
      <3>1. PICK m \in DOMAIN down': m = Len(down) + 1 /\ down'[m].k = "room"
        BY <1>3, <2>1, <2>2
      <3>2. \A i \in DOMAIN down': Wipes(down'[i]) => i \in DOMAIN down
        BY <1>3, <2>1 DEF Wipes
      <3>3. \A i \in DOMAIN down: m > i
        BY <1>3, <3>1
      <3>4. Restored'
        BY <3>1, <3>2, <3>3 DEF Restored, RoomAfter, Wipes
      <3>5. Filled'
        BY <3>1 DEF Filled, Showing
      <3>. QED BY <1>c, <2>1, <3>4, <3>5 DEF ShownInv
    <2>3. CASE ~conn
      <3>1. down' = <<>> /\ ~conn'
        BY <1>0, <1>2, <1>3, <2>3 DEF PlaceInv
      <3>2. DOMAIN down' = {}
        BY <3>1
      <3>. QED BY <3>1, <3>2 DEF ShownInv, Restored, Filled, Clears
    <2>. QED BY <2>2, <2>3
  <1>8. ASSUME NEW r \in up, Refuses(r, es) \/ Stays(r, es)
        PROVE  ShownInv'
    <2>1. /\ srv' = srv /\ answers' = answers
          /\ \A i \in DOMAIN es: es[i].k = "ack" /\ es[i].r = r /\ es[i].why # "ok"
      BY <1>8 DEF Refuses, Stays
    <2>2. \A i \in DOMAIN es: ~Wipes(es[i]) /\ ~Shows(es[i])
      BY <2>1 DEF Wipes, Shows
    <2>. QED BY <1>a, <1>b, <1>c, <2>1, <2>2 DEF ShownInv
  <1>9. ASSUME NEW r \in up, Leaves(r, es)
        PROVE  ShownInv'
    <2>1. Restored' /\ Filled'
      BY <1>9 DEF Leaves, Restored, Filled
    <2>2. Clears'
      <3>1. SUFFICES ASSUME "shown" \notin lapses', conn PROVE Clears'
        BY <1>2 DEF Clears
      <3>2. r \in asks
        BY <1>0, <1>1, <3>1 DEF AnswerInv, Travels
      <3>3. PICK n \in DOMAIN es: /\ es[n].k = "ack" /\ es[n].r = r /\ es[n].why = "ok"
                                  /\ \A i \in DOMAIN es: i <= n
        BY <1>9, <3>2 DEF Leaves
      <3>4. r.k # "join" /\ answers' = answers /\ ((\E a \in answers : a.r.k = "join") => "shown" \in lapses')
        BY <1>9 DEF Leaves, Cleanups, Buttons
      <3>5. Wipes(es[n]) /\ ~Shows(es[n])
        BY <3>3, <3>4 DEF Wipes, Shows
      <3>. QED BY <1>d, <3>3, <3>4, <3>5
    <2>. QED BY <2>1, <2>2 DEF ShownInv
  <1>10. ASSUME NEW a \in answers, Hears(a, es)
         PROVE  ShownInv'
    <2>1. srv' = srv /\ a.r.k = "join" /\ DOMAIN es = {1} /\ es[1] = a /\ a.k = "ack"
      BY <1>10 DEF Hears, TypeInv, NetTyped, Oks
    <2>2. \A i \in DOMAIN es: ~Wipes(es[i])
      BY <2>1 DEF Wipes
    <2>3. Clears'
      BY <1>1, <1>2, <2>1 DEF ShownInv, Clears, Emptied
    <2>. QED BY <1>a, <2>1, <2>2, <2>3 DEF ShownInv
  <1>. QED BY <1>1, <1>6, <1>7, <1>8, <1>9, <1>10

\* Events that arrive.
LEMMA ShownReceive ==
    ASSUME TypeInv, ServerInv, NetInv, ShownInv, Receive
    PROVE  ShownInv'
  <1>0. PlaceInv /\ RequestInv /\ AnswerInv /\ RefuseInv
    BY DEF NetInv
  <1>1. PICK e \in Events:
          /\ Arrives(e)
          /\ \/ e.k = "room" /\ e.room \in Snapshots /\ OnRoom(e.room)
             \/ e.k = "kicked" /\ OnKicked
             \/ e.k = "over" /\ OnOver
             \/ e.k = "ack" /\ e.r \notin asks /\ Ignored
             \/ e.k = "ack" /\ e \in Acks /\ e.r \in asks /\ e.r.k = "join" /\ OnJoinAck(e)
             \/ e.k = "ack" /\ e \in Acks /\ e.r \in asks /\ e.r.k # "join" /\ OnLeaveAck(e)
    BY ReceiveCases
  <1>2. UNCHANGED <<srv, answers, conn>>
    BY <1>1 DEF Arrives
  <1>3. /\ \A i \in DOMAIN down': i \in Nat \ {0} /\ i + 1 \in DOMAIN down /\ down'[i] = down[i + 1]
        /\ \A i \in DOMAIN down: i # 1 => i - 1 \in DOMAIN down' /\ down'[i - 1] = down[i]
        /\ e = down[1] /\ 1 \in DOMAIN down /\ DOMAIN down \subseteq Nat \ {0}
    <2>1. down \in Seq(Events) /\ down # <<>> /\ down' = Tail(down) /\ e = Head(down)
      BY <1>1 DEF Arrives, TypeInv, NetTyped
    <2>. QED BY <2>1, Taken
  <1>4. ASSUME NEW i \in Nat
        PROVE  (RoomAfter(i + 1) => RoomAfter(i)') /\ (WipeAfter(i + 1) => WipeAfter(i)')
    <2>1. ASSUME NEW j \in DOMAIN down, j > i + 1
          PROVE  \E n \in DOMAIN down': n > i /\ down'[n] = down[j]
      <3>1. j \in Nat \ {0} /\ j # 1
        BY <1>3, <2>1
      <3>2. j - 1 \in DOMAIN down' /\ down'[j - 1] = down[j] /\ j - 1 > i
        BY <1>3, <2>1, <3>1
      <3>. QED BY <3>2
    <2>. QED BY <2>1 DEF RoomAfter, WipeAfter, Wipes
  <1>5. Restored'
    <2>1. SUFFICES ASSUME Me \in srv.members, NEW i \in DOMAIN down', Wipes(down'[i]) PROVE RoomAfter(i)'
      BY <1>2 DEF Restored, Wipes
    <2>2. RoomAfter(i + 1) /\ i \in Nat
      BY <1>3, <2>1 DEF ShownInv, Restored
    <2>. QED BY <1>4, <2>2
  \* Events behind the one that arrives.
  <1>6. /\ RoomAfter(1) => \E i \in DOMAIN down': down'[i].k = "room"
        /\ WipeAfter(1) => \E i \in DOMAIN down': Wipes(down'[i])
        /\ e.k # "room" /\ (\E i \in DOMAIN down: down[i].k = "room") => RoomAfter(1)
        /\ ~Wipes(e) /\ (\E i \in DOMAIN down: Wipes(down[i])) => WipeAfter(1)
    <2>1. \A j \in DOMAIN down: j > 1 => j - 1 \in DOMAIN down' /\ down'[j - 1] = down[j]
      BY <1>3
    <2>2. \A j \in DOMAIN down: j # 1 => j > 1
      BY <1>3
    <2>. QED BY <1>3, <2>1, <2>2 DEF RoomAfter, WipeAfter
  <1>7. lapses \subseteq lapses'
    <2>1. CASE OnRoom(e.room) \/ OnKicked \/ OnOver \/ Ignored
      BY <2>1 DEF OnRoom, OnKicked, OnOver, Ignored
    <2>2. CASE e \in Acks /\ e.r.k = "join" /\ OnJoinAck(e)
      BY <2>2, JoinAckCases
    <2>3. CASE e \in Acks /\ e.r.k # "join" /\ OnLeaveAck(e)
      BY <2>3, LeaveAckCases
    <2>. QED BY <1>1, <2>1, <2>2, <2>3
  \* What stays with somebody who is no member.
  <1>a. ASSUME \/ room' = None
               \/ Shows(e)
               \/ room' = room /\ ~Wipes(e)
               \/ e.k = "ack" /\ e.r \notin asks
        PROVE  Clears'
    <2>1. SUFFICES ASSUME "shown" \notin lapses', conn, Me \notin srv.members PROVE Emptied'
      BY <1>2 DEF Clears
    <2>2. Emptied /\ "shown" \notin lapses
      BY <1>7, <2>1 DEF ShownInv, Clears
    <2>3. ASSUME NEW i \in DOMAIN down', Shows(down'[i]) PROVE WipeAfter(i)'
      <3>1. WipeAfter(i + 1) /\ i \in Nat
        BY <1>3, <2>2, <2>3 DEF Emptied
      <3>. QED BY <1>4, <3>1
    <2>4. room' # None => \E i \in DOMAIN down': Wipes(down'[i])
      <3>1. CASE Shows(e)
        BY <1>3, <1>6, <2>2, <3>1 DEF Emptied
      <3>2. CASE room' = room /\ ~Wipes(e)
        BY <1>6, <2>2, <3>2 DEF Emptied
      <3>3. CASE e.k = "ack" /\ e.r \notin asks
        BY <1>0, <1>3, <2>1, <2>2, <3>3 DEF AnswerInv, Travels, Acked
      <3>. QED BY <1>a, <3>1, <3>2, <3>3
    <2>. QED BY <1>2, <2>2, <2>3, <2>4 DEF Emptied, Wipes, Shows
  \* What stays with a member.
  <1>b. ASSUME UNCHANGED <<asks, view, visit, pw>>, room' = room \/ room' # None, ~Wipes(e),
               e.k = "room" => room' # None
        PROVE  Filled'
    <2>1. SUFFICES ASSUME "shown" \notin lapses', conn, view = "room", Me \in srv.members PROVE Showing'
      BY <1>2, <1>b DEF Filled
    <2>2. Showing
      BY <1>7, <2>1 DEF ShownInv, Filled
    <2>3. CASE \E i \in DOMAIN down: down[i].k = "room"
      BY <1>6, <1>b, <2>3 DEF Showing
    <2>. QED BY <1>b, <2>2, <2>3 DEF Showing, PageJoin
  <1>c. ASSUME view' \in {"lobby", view}, Wipes(e)
        PROVE  Filled'
    <2>1. SUFFICES ASSUME Me \in srv.members PROVE Showing'
      BY <1>2 DEF Filled
    <2>2. RoomAfter(1)
      BY <1>3, <1>c, <2>1 DEF ShownInv, Restored
    <2>. QED BY <1>6, <2>2 DEF Showing
  <1>8. CASE e.k = "room" /\ e.room \in Snapshots /\ OnRoom(e.room)
    <2>1. room' # None /\ Shows(e) /\ ~Wipes(e)
      BY <1>8, RoomPageAssumption DEF OnRoom, Shows, Wipes
    <2>2. UNCHANGED <<asks, view, visit, pw>>
      BY <1>8 DEF OnRoom, page
    <2>. QED BY <1>5, <1>a, <1>b, <2>1, <2>2 DEF ShownInv
  <1>9. CASE e.k = "kicked" /\ OnKicked
    <2>1. room' = None /\ view' = view /\ Wipes(e)
      BY <1>9 DEF OnKicked, Reset, page, Wipes
    <2>. QED BY <1>5, <1>a, <1>c, <2>1 DEF ShownInv
  <1>10. CASE e.k = "over" /\ OnOver
    <2>1. room' = room /\ ~Wipes(e) /\ e.k # "room" /\ UNCHANGED <<asks, view, visit, pw>>
      BY <1>10 DEF OnOver, page, Wipes
    <2>. QED BY <1>5, <1>a, <1>b, <2>1 DEF ShownInv
  <1>11. CASE e.k = "ack" /\ e.r \notin asks /\ Ignored
    <2>1. room' = room /\ view' = view /\ e.k # "room" /\ UNCHANGED <<asks, view, visit, pw>>
      BY <1>11 DEF Ignored, page, store
    <2>2. Filled'
      <3>1. CASE Wipes(e)
        BY <1>c, <2>1, <3>1
      <3>2. CASE ~Wipes(e)
        BY <1>b, <2>1, <3>2
      <3>. QED BY <3>1, <3>2
    <2>. QED BY <1>5, <1>11, <1>a, <2>2 DEF ShownInv
  <1>12. CASE e.k = "ack" /\ e \in Acks /\ e.r \in asks /\ e.r.k = "join" /\ OnJoinAck(e)
    <2>1. PICK ok \in BOOLEAN:
             /\ ok = (e.why = "ok" \/ (e.why = "active" /\ room # None /\ room.phase = "active"))
             /\ room' = IF e.why = "ok" THEN e.room ELSE room
             /\ \/ e.r.by = "page" /\ PageJoined(e.r, ok, e.why)
                \/ e.r.by = "form" /\ FormJoined(e.r, ok)
                \/ e.r.by = "socket" /\ SocketJoined(e.r)
             /\ e.r.by = "socket" /\ ~ok => "shown" \in lapses'
             /\ UNCHANGED <<overlay, held, view, visit, mounted>>
      BY <1>12, JoinAckCases
    <2>2. ~Wipes(e) /\ e.k # "room" /\ (e.why = "ok" => Shows(e))
      BY <1>12 DEF Wipes, Shows
    <2>3. CASE e.why = "ok"
      <3>1. room' # None
        BY <1>12, <2>1, <2>3, AckKinds, RoomPageAssumption
      <3>2. Filled'
        BY <3>1 DEF Filled, Showing
      <3>. QED BY <1>5, <1>a, <2>2, <2>3, <3>2 DEF ShownInv
    <2>4. CASE e.why # "ok"
      <3>1. e.why \in {"closed", "password"} /\ (e.why = "closed" => srv.phase = "closed")
        BY <1>0, <1>3, <1>12, <2>4, AckKinds DEF RefuseInv
      <3>2. ok = FALSE /\ room' = room
        BY <2>1, <2>4, <3>1
      <3>3. Clears'
        BY <1>a, <2>2, <3>2
      <3>4. Filled'
        <4>1. SUFFICES ASSUME "shown" \notin lapses', conn, view = "room", Me \in srv.members PROVE Showing'
          BY <1>2, <2>1 DEF Filled
        <4>2. Showing
          BY <1>7, <4>1 DEF ShownInv, Filled
        <4>3. e.why = "password"
          BY <3>1, <4>1 DEF ServerInv, RoomOK
        <4>4. e.r.by # "socket"
          BY <2>1, <3>2, <4>1
        <4>5. pw \in BOOLEAN
          BY DEF TypeInv, PageTyped
        <4>6. CASE e.r.by = "page" /\ Active(e.r)
          <5>1. pw' = TRUE
            BY <2>1, <3>2, <4>3, <4>6 DEF PageJoined
          <5>. QED BY <5>1 DEF Showing
        <4>7. CASE ~(e.r.by = "page" /\ Active(e.r))
          <5>1. pw => pw'
            BY <2>1, <3>2, <4>4, <4>5, <4>7 DEF PageJoined, FormJoined
          <5>2. asks \ {e.r} \subseteq asks'
            BY <2>1, <3>2 DEF PageJoined, FormJoined, SocketJoined
          <5>3. PageJoin(visit) => PageJoin(visit)'
            <6>1. SUFFICES ASSUME NEW q \in asks, q.by = "page", q.visit = visit PROVE PageJoin(visit)'
              BY DEF PageJoin
            <6>2. q # e.r
              BY <4>1, <4>7, <6>1 DEF Active
            <6>. QED BY <2>1, <5>2, <6>1, <6>2 DEF PageJoin
          <5>4. (\E r \in asks: r.by = "socket") => \E r \in asks': r.by = "socket"
            BY <4>4, <5>2
          <5>5. (\E i \in DOMAIN down: down[i].k = "room") => \E i \in DOMAIN down': down'[i].k = "room"
            BY <1>6, <2>2
          <5>. QED BY <2>1, <3>2, <4>2, <5>1, <5>3, <5>4, <5>5 DEF Showing
        <4>. QED BY <4>6, <4>7
      <3>. QED BY <1>5, <3>3, <3>4 DEF ShownInv
    <2>. QED BY <2>3, <2>4
  <1>13. CASE e.k = "ack" /\ e \in Acks /\ e.r \in asks /\ e.r.k # "join" /\ OnLeaveAck(e)
    <2>1. /\ asks' = asks \ {e.r} /\ UNCHANGED visit
          /\ IF e.why = "ok" THEN room' = None ELSE UNCHANGED <<room, overlay>>
          /\ view' \in {"lobby", view} /\ (e.why # "ok" => UNCHANGED <<view, pw>>)
      BY <1>13, LeaveAckCases
    <2>2. CASE e.why = "ok"
      <3>1. Wipes(e)
        BY <1>13, <2>2 DEF Wipes
      <3>. QED BY <1>5, <1>a, <1>c, <2>1, <2>2, <3>1 DEF ShownInv
    <2>3. CASE e.why # "ok"
      <3>1. ~Wipes(e) /\ room' = room /\ e.k # "room"
        BY <1>13, <2>1, <2>3 DEF Wipes
      <3>2. e.r.by \notin {"page", "socket"}
        BY <1>13, AckKinds, RequestKinds
      <3>3. Filled'
        <4>1. SUFFICES ASSUME "shown" \notin lapses', conn, view = "room", Me \in srv.members PROVE Showing'
          BY <1>2, <2>1, <2>3 DEF Filled
        <4>2. Showing
          BY <1>7, <4>1 DEF ShownInv, Filled
        <4>3. CASE \E i \in DOMAIN down: down[i].k = "room"
          BY <1>6, <3>1, <4>3 DEF Showing
        <4>4. CASE PageJoin(visit) \/ \E r \in asks: r.by = "socket"
          BY <2>1, <3>2, <4>4 DEF Showing, PageJoin
        <4>. QED BY <2>1, <2>3, <3>1, <4>2, <4>3, <4>4 DEF Showing
      <3>. QED BY <1>5, <1>a, <3>1, <3>3 DEF ShownInv
    <2>. QED BY <2>2, <2>3
  <1>. QED BY <1>1, <1>8, <1>9, <1>10, <1>11, <1>12, <1>13

\* The pages.
LEMMA ShownPages ==
    ASSUME TypeInv, ServerInv, NetInv, ShownInv,
           OpenRoom \/ CreateRoom \/ LeavePage \/ ChangeLanguage \/ SubmitPassword \/ ClickLeave \/ ClickQuit
    PROVE  ShownInv'
  <1>0. PlaceInv /\ RequestInv
    BY DEF NetInv
  \* A run of the effect begins, and the room is as it was.
  <1>a. ASSUME UNCHANGED <<srv, answers, down, conn, lapses>>, room' = None, PageJoin(visit)'
        PROVE  ShownInv'
    <2>1. Restored'
      BY <1>a DEF ShownInv, Restored, RoomAfter, Wipes
    <2>2. Filled'
      BY <1>a DEF Filled, Showing
    <2>3. Clears'
      BY <1>a DEF ShownInv, Clears, Emptied, WipeAfter, Wipes, Shows
    <2>. QED BY <2>1, <2>2, <2>3 DEF ShownInv
  <1>b. ASSUME NEW q \in Joins, q.by = "page", q.visit = visit', NEW rs, q \in rs, Send(rs)
        PROVE  PageJoin(visit)'
    BY <1>b DEF Send, PageJoin
  <1>c. ASSUME Mount PROVE room' = None
    BY <1>c, MountTyped
  <1>d. ASSUME Mount, UNCHANGED <<answers, down, conn>> PROVE PageJoin(visit)'
    <2>1. PICK q \in Joins: q.by = "page" /\ q.visit = visit' /\ Send({q})
      BY <1>0, <1>d, MountRequests
    <2>2. PICK rs: rs = {q}
      OBVIOUS
    <2>. QED BY <1>b, <2>1, <2>2
  <1>1. CASE OpenRoom
    BY <1>1, <1>a, <1>c, <1>d DEF OpenRoom
  <1>2. CASE CreateRoom
    <2>1. srv.phase = "none" /\ UNCHANGED <<answers, down, conn, lapses>>
      BY <1>2, CreateCases, RoomPageAssumption
    <2>2. CASE (\E l \in BOOLEAN: srv' = NewRoom("waiting", {}, Me, l)) /\ Mount
      <3>1. Me \notin srv'.members /\ room' = None
        BY <1>c, <2>2 DEF NewRoom
      <3>2. answers' = {} /\ down' = <<>>
        BY <2>1 DEF ServerInv, NoneInv
      <3>3. DOMAIN down' = {}
        BY <3>2
      <3>. QED BY <3>1, <3>2, <3>3 DEF ShownInv, Restored, Filled, Clears, Emptied
    <2>3. CASE UNCHANGED <<srv, up, held, asks, page, store>>
      BY <2>1, <2>3 DEF ShownInv, Restored, Filled, Clears, Emptied, Showing, PageJoin,
                        RoomAfter, WipeAfter, Wipes, Shows, page, store
    <2>. QED BY <1>2, <2>2, <2>3, CreateCases, RoomPageAssumption
  <1>3. CASE LeavePage
    <2>1. /\ UNCHANGED <<srv, answers, down, conn, store>> /\ view' = "lobby"
          /\ lapses \subseteq lapses'
      BY <1>3 DEF LeavePage, Lapse
    <2>2. Restored'
      BY <2>1 DEF ShownInv, Restored, RoomAfter, Wipes
    <2>3. Filled'
      BY <2>1 DEF Filled
    <2>4. Clears'
      BY <2>1 DEF ShownInv, Clears, Emptied, WipeAfter, Wipes, Shows, store
    <2>. QED BY <2>2, <2>3, <2>4 DEF ShownInv
  <1>4. CASE ChangeLanguage
    <2>1. PICK q \in Joins: q.by = "page" /\ q.visit = visit' /\ Send(CleanupRequests \cup {q})
      BY <1>0, <1>4, LanguageRequests
    <2>2. PICK rs: rs = CleanupRequests \cup {q}
      OBVIOUS
    <2>3. PageJoin(visit)'
      BY <1>b, <2>1, <2>2
    <2>4. /\ UNCHANGED <<srv, answers, down, conn>> /\ room' = None
          /\ lapses \subseteq lapses'
      BY <1>4 DEF ChangeLanguage, Attempt, Reset, Lapse
    <2>5. Restored'
      BY <2>4 DEF ShownInv, Restored, RoomAfter, Wipes
    <2>6. Filled'
      BY <2>3 DEF Filled, Showing
    <2>7. Clears'
      BY <2>4 DEF ShownInv, Clears, Emptied, WipeAfter, Wipes, Shows
    <2>. QED BY <2>5, <2>6, <2>7 DEF ShownInv
  <1>5. CASE SubmitPassword
    <2>1. /\ UNCHANGED <<srv, answers, down, conn, pw, lapses>> /\ room' = None /\ pw
      BY <1>5 DEF SubmitPassword, Reset
    <2>2. Restored'
      BY <2>1 DEF ShownInv, Restored, RoomAfter, Wipes
    <2>3. Filled'
      BY <2>1 DEF Filled, Showing
    <2>4. Clears'
      BY <2>1 DEF ShownInv, Clears, Emptied, WipeAfter, Wipes, Shows
    <2>. QED BY <2>2, <2>3, <2>4 DEF ShownInv
  <1>6. CASE ClickLeave \/ ClickQuit
    <2>1. UNCHANGED <<srv, answers, down, conn, page, store, lapses>> /\ asks \subseteq asks'
      <3>1. UNCHANGED <<srv, answers, down, conn, page, store, lapses>>
        BY <1>0, <1>6, ClickRequests
      <3>2. PICK q \in Buttons: Send({q})
        BY <1>0, <1>6, ClickRequests
      <3>. QED BY <3>1, <3>2 DEF Send
    <2>2. Restored'
      BY <2>1 DEF ShownInv, Restored, RoomAfter, Wipes
    <2>3. Filled'
      BY <2>1 DEF ShownInv, Filled, Showing, PageJoin, page, store
    <2>4. Clears'
      BY <2>1 DEF ShownInv, Clears, Emptied, WipeAfter, Wipes, Shows, store
    <2>. QED BY <2>2, <2>3, <2>4 DEF ShownInv
  <1>. QED BY <1>1, <1>2, <1>3, <1>4, <1>5, <1>6

\* All steps.
LEMMA ShownStep ==
    ASSUME TypeInv, ServerInv, NetInv, ShownInv, [Next]_vars
    PROVE  ShownInv'
  <1>0. PlaceInv
    BY DEF NetInv
  <1>1. CASE OpenRoom \/ CreateRoom \/ LeavePage \/ ChangeLanguage \/ SubmitPassword \/ ClickLeave \/ ClickQuit
    BY <1>1, ShownPages
  <1>2. CASE ServerStep
    BY <1>2, ShownServer
  <1>3. CASE Receive
    BY <1>3, ShownReceive
  <1>4. CASE AckTimeout \/ WaitTimeout
    <2>1. UNCHANGED <<srv, down>> /\ (conn' => "shown" \in lapses')
      BY <1>4 DEF AckTimeout, WaitTimeout, Fail, Missed
    <2>. QED BY <2>1 DEF ShownInv, Restored, RoomAfter, Wipes, Filled, Clears
  <1>5. CASE Drop
    <2>1. down' = <<>> /\ ~conn'
      BY <1>5 DEF Drop
    <2>2. DOMAIN down' = {}
      BY <2>1
    <2>. QED BY <2>1, <2>2 DEF ShownInv, Restored, Filled, Clears
  <1>6. CASE Connect
    <2> DEFINE j == Req("join", "socket", 0)
    <2>1. /\ down' = <<>> /\ answers' = {} /\ srv' = srv
          /\ Me \in srv.members => j \in asks'
          /\ room' = None
      BY <1>0, <1>6, PlaceConnect
    <2>2. j.by = "socket"
      BY DEF Req
    <2> HIDE DEF j
    <2>3. DOMAIN down' = {}
      BY <2>1
    <2>. QED BY <2>1, <2>2, <2>3 DEF ShownInv, Restored, Filled, Showing, Clears, Emptied
  <1>7. CASE UNCHANGED vars
    BY <1>7 DEF vars, net, page, store, ShownInv, Restored, Filled, Clears, Emptied, Showing, PageJoin,
                RoomAfter, WipeAfter, Wipes, Shows
  <1>. QED BY <1>1, <1>2, <1>3, <1>4, <1>5, <1>6, <1>7 DEF Next, ServerStep, Happens

\* ShownIsMember: with nothing under way, RoomContainer.tsx shows the room that
\* store/game.ts holds exactly to a member of it: whatever empties the store of
\* a member (room_handlers.py: kicked, left) comes before the room that he
\* joins next, and whatever fills the store of somebody else before what
\* empties it.
THEOREM RoomIsShownToMembers == Spec => []ShownIsMember
  <1>1. Init => ShownInv
    <2>1. SUFFICES ASSUME Init PROVE ShownInv
      OBVIOUS
    <2>2. down = <<>> /\ answers = {} /\ room = None /\ view = "lobby"
      BY <2>1 DEF Init
    <2>3. DOMAIN down = {}
      BY <2>2
    <2>. QED BY <2>2, <2>3 DEF ShownInv, Restored, Filled, Clears, Emptied
  <1>2. TypeInv /\ ServerInv /\ NetInv /\ ShownInv => ShownIsMember
    <2>1. SUFFICES ASSUME TypeInv, ShownInv, Quiet, Screen \in {"waiting", "table", "blank"}, "shown" \notin lapses
                   PROVE  room # None <=> Me \in srv.members
      BY DEF ShownIsMember
    <2>2. view = "room" /\ ~pw
      BY <2>1 DEF Screen, TypeInv, PageTyped
    <2>3. conn /\ asks = {} /\ down = <<>>
      BY <2>1 DEF Quiet
    <2>4. DOMAIN down = {}
      BY <2>3
    <2>. QED BY <2>1, <2>2, <2>3, <2>4 DEF ShownInv, Filled, Showing, PageJoin, Clears, Emptied
  <1>3. TypeInv /\ ServerInv /\ NetInv /\ ShownInv /\ [Next]_vars => (NetInv /\ ShownInv)'
    BY NetStep, ShownStep
  <1>. QED BY <1>1, <1>2, <1>3, NetInit, TypesHold, PTL DEF Spec
=============================================================================

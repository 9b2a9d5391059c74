-------------------------------- MODULE Site --------------------------------
(***************************************************************************)
(* The pages of one browser tab outside the rooms: signing in and out      *)
(* (api/auth.tsx, RouteGuards.tsx, Login.tsx, Layout.tsx), the list of the *)
(* lobby (Lobby.tsx), the user's own profile (PlayerProfile.tsx) and the   *)
(* administrators' console (AdminConsole.tsx), over the accounts and       *)
(* sessions of the server (admin/accounts.py, auth/api.py,                 *)
(* auth/sessions.py).  Another administrator and the players of the room   *)
(* are active elsewhere.                                                   *)
(*                                                                         *)
(* Every call is a request that the server handles in one step and whose   *)
(* answer arrives later, in any order; a demotion by the other             *)
(* administrator may take two, for it is judged by a count and made after  *)
(* awaits (admin/accounts.py).  Data of the pages is of a cache of queries *)
(* (@tanstack/react-query) with its own rules for when a query is loaded   *)
(* again; they are modelled as the pages rely on them.                     *)
(***************************************************************************)
EXTENDS Integers, FiniteSets

CONSTANTS
    None, Unknown,
    Accounts,
    Bootstrap,    \* the administrator the server was set up with
    MaxChanges,   \* changes asked for in the console and on the profile
    MaxOthers,    \* changes made elsewhere
    MaxLogins,    \* logins of this tab
    MaxMoves,     \* pages, tabs, dialogs and forms opened, and logouts
    MaxAsked      \* requests and answers under way when the user acts

Tabs  == {"accounts", "rooms", "matches", "audits"}
\* The queries of the pages; the one of a player has the name of his account.
Keys  == Tabs \cup {"lobby"} \cup Accounts
\* Everything else that is asked for.
Other == {"me", "login", "logout", "name", "password", "status", "role", "reset", "create",
          "close", "void"}

Users == [a : Accounts, role : {"administrator", "player"}, name : Nat]

ASSUME SiteAssumption ==
    /\ Bootstrap \in Accounts
    /\ Accounts \cap (Tabs \cup {"lobby"} \cup Other \cup {None, Unknown}) = {}
    /\ None # Unknown /\ None \notin Users /\ Unknown \notin Users
    /\ {MaxChanges, MaxOthers, MaxLogins, MaxMoves, MaxAsked} \subseteq Nat

VARIABLES
    acct,      \* accounts: role, status, name; "none" is not created yet
    rows,      \* a room, a match and the number of audit records, of the console's other tabs
    judged,    \* a demotion by the other administrator that is allowed and not yet made
    overlapped,\* two demotions overlapped (history)
    cookie,    \* the account of the browser's session cookie
    alive,     \* that session is not revoked
    sock,      \* the account of the socket, as the server sees it
    news,      \* lobby:rooms-updated events under way to it
    user,      \* useAuth().user; Unknown while the query runs
    emptied,   \* the cache was cleared and AuthProvider not drawn since
    page, tab, \* the route, and the console's tab
    dialogs, selected,   \* the console's dialogs and selectedAccountId
    editing,   \* isEditing of the profile
    cache,     \* the queries' data
    stale,     \* players' queries that are invalidated and not loaded since
    failed,    \* queries whose last load failed
    missed,    \* queries not loaded again, because an older load went on (history)
    elsewhere, \* queries whose data changed since for reasons the tab is not told of:
               \* somebody else, a room while there is no socket, and the records of
               \* a new account and a reset (history)
    asked, answered,     \* requests and answers under way
    changes, others, logins, moves

overlap == <<judged, overlapped>>
server == <<acct, rows, overlap>>
auth   == <<cookie, alive, sock, news, user, emptied>>
view   == <<page, tab, dialogs, selected, editing>>
data   == <<cache, stale, failed, missed>>
counts == <<changes, others, logins, moves>>
vars   == <<server, auth, view, data, elsewhere, asked, answered, counts>>

Account(role, status) == [role |-> role, status |-> status, name |-> 0]

Init ==
    /\ \E role \in {"administrator", "player"} :
        acct = [a \in Accounts |->
                  IF a = Bootstrap THEN Account("administrator", "active")
                  ELSE IF a = CHOOSE b \in Accounts \ {Bootstrap} : TRUE THEN Account(role, "active")
                  ELSE Account("player", "none")]
    /\ rows = [rooms |-> "waiting", matches |-> "completed", audits |-> 0]
    /\ judged = None /\ overlapped = FALSE
    /\ cookie = None /\ alive = FALSE /\ sock = None /\ news = 0
    /\ user = Unknown /\ emptied = FALSE
    /\ page = "lobby" /\ tab = "accounts" /\ dialogs = {} /\ selected = None /\ editing = FALSE
    /\ cache = [k \in Keys |-> None] /\ stale = {} /\ failed = {} /\ missed = {} /\ elsewhere = {}
    /\ asked = {[k |-> "me", a |-> None, v |-> None]} /\ answered = {}
    /\ changes = 0 /\ others = 0 /\ logins = 0 /\ moves = 0

-----------------------------------------------------------------------------
(* What the tab shows.                                                     *)

Known == user \notin {None, Unknown}

\* The guards of the routes.
Guarded(p, u) ==
    CASE u = None /\ p # "login"                  -> "login"
      [] u \notin {None, Unknown} /\ p = "login"  -> "lobby"
      [] OTHER -> p

ScreenOf(p, u) ==
    CASE u = Unknown                                    -> "loading"
      [] u # Unknown /\ p = "admin" /\ u.role # "administrator" -> "forbidden"
      [] OTHER -> p
Screen == ScreenOf(page, user)

\* The queries of what is drawn: the layout shows the user's avatar.
VisibleOf(p, u, t) ==
    IF u \in {None, Unknown} \/ ScreenOf(p, u) = "forbidden" THEN {}
    ELSE {u.a} \cup (CASE p = "admin" -> {t} [] p = "lobby" -> {p} [] OTHER -> {})
Visible == VisibleOf(page, user, tab)

-----------------------------------------------------------------------------
(* The cache of queries.                                                   *)

Request(k, a, v) == [k |-> k, a |-> a, v |-> v]
Query(k) == Request(k, None, None)

InFlight(k) == \E r \in asked \cup {m.r : m \in answered} : r.k = k

\* A query that begins to be drawn is loaded, unless it is being loaded; the
\* avatar of the layout is content with what the cache has.
Load(p, u, t) ==
    LET begins == (VisibleOf(p, u, t) \ Visible)
                  \cup (IF p = "profile" /\ page # p THEN {u.a} ELSE {})
        new    == {k \in begins \cap VisibleOf(p, u, t) :
                    /\ ~InFlight(k)
                    /\ k \notin Accounts \/ p = "profile" \/ cache[k] = None \/ k \in stale}
    IN /\ asked' = asked \cup {Query(k) : k \in new}
       /\ missed' = missed \ new

\* invalidateQueries: a query that is drawn is loaded again in place of a load
\* under way, if it has data; otherwise a load under way goes on.  The signed-in
\* user is always in use.
Invalidate(ks, learned) ==
    LET goesOn == {k \in ks : InFlight(k) /\ IF k = "me" THEN user = Unknown
                                              ELSE k \notin Visible \/ cache[k] = None}
        again  == (ks \cap (Visible \cup {"me"})) \ goesOn
    IN /\ asked' = {r \in asked : r.k \notin again} \cup {Query(k) : k \in again}
       /\ answered' = {m \in answered \ learned : m.r.k \notin again}
       /\ missed' = (missed \ again) \cup (goesOn \ {"me"})
       /\ stale' = stale \cup (ks \cap Accounts)

Idle == Cardinality(asked \cup answered) < MaxAsked

-----------------------------------------------------------------------------
(* The user.                                                               *)

\* The effect of AuthProvider: for another user object the socket is closed, and
\* what was under way to it is lost.
Dial(u) ==
    IF u = user THEN UNCHANGED <<sock, news, elsewhere>>
    ELSE /\ sock' = None /\ news' = 0
         /\ elsewhere' = elsewhere \cup (IF news > 0 THEN {"lobby"} ELSE {})

Ask(r) == Idle /\ r \notin asked /\ asked' = asked \cup {r}
Asks(r) == Ask(r) /\ UNCHANGED <<server, auth, view, data, elsewhere, answered>>
Pending(k) == InFlight(k)
Moving == moves < MaxMoves /\ moves' = moves + 1 /\ UNCHANGED <<changes, others, logins>>
Changing == changes < MaxChanges /\ changes' = changes + 1 /\ UNCHANGED <<others, logins, moves>>

\* AuthProvider is drawn, by a mutation of its own or a query it uses.  In an
\* emptied cache it finds no user and asks again; the session has ended with the
\* password, so that the answer is known.
Found == IF emptied THEN {[r |-> Query("me"), ok |-> FALSE, d |-> None]} ELSE {}
Drawn == user' = (IF emptied THEN Unknown ELSE user) /\ emptied' = FALSE /\ Dial(user')

\* handleSubmit of the login page.  Bound: when nothing else is under way, so that
\* requests of two sessions do not meet.
SubmitLogin ==
    /\ Screen = "login" /\ asked = {} /\ answered = {}
    /\ logins < MaxLogins /\ logins' = logins + 1 /\ UNCHANGED <<changes, others, moves>>
    /\ \E a \in Accounts : acct[a].status # "none" /\ asked' = {Request("login", a, None)}
    /\ Drawn /\ answered' = Found
    /\ UNCHANGED <<server, cookie, alive, view, data>>

\* handleLogout
ClickLogout ==
    /\ Known /\ Screen # "forbidden" /\ ~Pending("logout") /\ Idle
    /\ asked' = asked \cup {Request("logout", None, None)}
    /\ Drawn /\ answered' = answered \cup Found
    /\ UNCHANGED <<server, cookie, alive, view, data>>
    /\ Moving

\* A page that is left loses its state.
Left == tab' = "accounts" /\ dialogs' = {} /\ selected' = None /\ editing' = FALSE

\* Links of the layout, or an address.
\* Bound: not while a dialog or a form of the page waits for its answer.
Navigate(p) ==
    /\ Known /\ p # page /\ Idle
    /\ \A k \in {"create", "reset", "name", "password", "logout"} : ~Pending(k)
    /\ page' = p /\ Left
    /\ Load(p, user, "accounts")
    /\ UNCHANGED <<server, auth, cache, stale, failed, elsewhere, answered>>
    /\ Moving

\* The cards of the lobby, whatever the filter leaves of them: one is opened.
Cards(filter) ==
    IF Screen # "lobby" \/ ~Known \/ "lobby" \in failed \/ cache["lobby"] = None THEN {}
    ELSE {status \in cache["lobby"] : filter \in {"all", status}}
EnterRoom == (\E filter \in {"all", "waiting", "active"} : Cards(filter) # {}) /\ Navigate("room")

\* The profile: editing, saving, a new password.
StartEdit ==
    /\ Screen = "profile" /\ Known /\ ~editing /\ cache[user.a] # None
    /\ editing' = TRUE
    /\ UNCHANGED <<server, auth, page, tab, dialogs, selected, data, elsewhere,
                   asked, answered>>
    /\ Moving

CancelEdit ==
    /\ editing /\ editing' = FALSE
    /\ UNCHANGED <<server, auth, page, tab, dialogs, selected, data, elsewhere,
                   asked, answered, counts>>

SaveProfile ==
    /\ Screen = "profile" /\ editing /\ ~Pending("name")
    /\ Changing /\ Asks(Request("name", user.a, changes + 1))

\* The form of the own profile, while it is not being submitted.
PasswordForm == Screen = "profile" /\ Known /\ ~Pending("password")

SubmitPassword ==
    /\ PasswordForm
    /\ Changing /\ Asks(Request("password", None, None))

\* The console.
OpenTab(t) ==
    /\ Screen = "admin" /\ Known /\ t # tab /\ dialogs = {} /\ Idle
    /\ tab' = t
    /\ Load(page, user, t)
    /\ UNCHANGED <<server, auth, page, dialogs, selected, editing, cache, stale, failed,
                   elsewhere, answered>>
    /\ Moving

\* A tab draws its rows unless its first load is under way or the last failed.
AdminSection(t) == t \notin failed /\ cache[t] # None
\* The rows the administrator sees.
Shown(t) == Screen = "admin" /\ Known /\ tab = t /\ AdminSection(t)

ClickStatus ==
    /\ Shown("accounts") /\ dialogs = {}
    /\ \E a \in DOMAIN cache["accounts"] : \E v \in {"active", "disabled", "deleted"} :
        /\ v # cache["accounts"][a].status
        /\ Asks(Request("status", a, v))
    /\ Changing

ClickRole ==
    /\ Shown("accounts") /\ dialogs = {}
    /\ \E a \in DOMAIN cache["accounts"] : \E v \in {"administrator", "player"} :
        /\ v # cache["accounts"][a].role
        /\ Asks(Request("role", a, v))
    /\ Changing

OpenDialog(d) ==
    /\ Screen = "admin" /\ Known /\ tab = "accounts" /\ dialogs = {}
    /\ IF d = "reset" THEN Shown("accounts") /\ selected' \in DOMAIN cache["accounts"]
                      ELSE UNCHANGED selected
    /\ dialogs' = {d}
    /\ UNCHANGED <<server, auth, page, tab, editing, data, elsewhere, asked, answered>>
    /\ Moving

CloseDialog ==
    /\ dialogs # {} /\ dialogs' = {}
    /\ UNCHANGED <<server, auth, page, tab, selected, editing, data, elsewhere,
                   asked, answered, counts>>

\* handleCreateSubmit
SubmitCreate ==
    /\ Screen = "admin" /\ "create" \in dialogs /\ ~Pending("create")
    /\ \E role \in {"administrator", "player"} : Asks(Request("create", None, role))
    /\ Changing

\* handleResetSubmit
SubmitReset ==
    /\ Screen = "admin" /\ "reset" \in dialogs /\ ~Pending("reset") /\ selected # None
    /\ Asks(Request("reset", selected, None))
    /\ Changing

ClickCloseRoom ==
    /\ Shown("rooms") /\ cache["rooms"] # "closed"
    /\ Asks(Request("close", None, None))
    /\ Changing

ClickVoidMatch ==
    /\ Shown("matches") /\ cache["matches"] # "voided"
    /\ Asks(Request("void", None, None))
    /\ Changing

-----------------------------------------------------------------------------
(* The server.                                                             *)

Session == IF alive THEN cookie ELSE None
IsAdministrator == Session # None /\ acct[Session].role = "administrator"

\* What the console lists: deleted accounts are left out.
Listed == [a \in {b \in Accounts : acct[b].status \in {"active", "disabled"}} |->
             [role |-> acct[a].role, status |-> acct[a].status]]

Current(k) ==
    CASE k = "accounts"  -> Listed
      [] k \in {"rooms", "matches", "audits"} -> rows[k]
      [] k \in Accounts  -> acct[k].name
      [] k = "lobby"     -> {rows.rooms} \ {"closed"}

Answered(r, ok, d) ==
    /\ asked' = asked \ {r}
    /\ answered' = answered \cup {[r |-> r, ok |-> ok, d |-> d]}

\* to_current_user
Profile(a) == [a |-> a, role |-> acct[a].role, name |-> acct[a].name]

ServeMe ==
    /\ \E r \in asked :
        /\ r.k = "me"
        /\ Answered(r, Session # None, IF Session # None THEN Profile(Session) ELSE None)
    /\ UNCHANGED <<server, auth, view, data, elsewhere, counts>>

ServeQuery ==
    /\ \E r \in asked :
        /\ r.k \in Keys
        /\ LET ok == IF r.k \in Tabs THEN IsAdministrator ELSE Session # None
           IN Answered(r, ok, IF ok THEN Current(r.k) ELSE None)
        /\ elsewhere' = elsewhere \ {r.k}
    /\ UNCHANGED <<server, auth, view, data, counts>>

\* A password that is wrong, or an account that is not active, is refused.
ServeLogin ==
    /\ \E r \in asked :
        /\ r.k = "login"
        /\ \/ /\ acct[r.a].status = "active"
              /\ cookie' = r.a /\ alive' = TRUE
              /\ Answered(r, TRUE, Profile(r.a))
           \/ UNCHANGED <<cookie, alive>> /\ Answered(r, FALSE, None)
    /\ UNCHANGED <<server, sock, news, user, emptied, view, data, elsewhere, counts>>

\* logout may not reach the server; it does not touch the socket.
ServeLogout ==
    /\ \E r \in asked :
        /\ r.k = "logout"
        /\ \/ cookie' = None /\ alive' = FALSE /\ Answered(r, TRUE, None)
           \/ UNCHANGED <<cookie, alive>> /\ Answered(r, FALSE, None)
    /\ UNCHANGED <<server, sock, news, user, emptied, view, data, elsewhere, counts>>

ServeProfile ==
    /\ \E r \in asked :
        /\ r.k = "name"
        /\ Answered(r, Session # None, None)
        /\ acct' = IF Session # None THEN [acct EXCEPT ![Session].name = r.v] ELSE acct
    /\ UNCHANGED <<rows, overlap, auth, view, data, elsewhere, counts>>

\* change_password: every session of the account ends, its socket stays.
ServePassword ==
    /\ \E r \in asked :
        /\ r.k = "password"
        /\ \/ Session # None /\ cookie' = None /\ alive' = FALSE /\ Answered(r, TRUE, None)
           \/ UNCHANGED <<cookie, alive>> /\ Answered(r, FALSE, None)
    /\ UNCHANGED <<server, sock, news, user, emptied, view, data, elsewhere, counts>>

\* The administrators, whatever their status.
Administrators == {a \in Accounts : acct[a].status # "none" /\ acct[a].role = "administrator"}

\* Fault: off by one.
IsLastBelow(a) == a \in Administrators /\ Cardinality(Administrators) < 1
\* _ensure_not_last_administrator
IsLast(a) == a \in Administrators /\ Cardinality(Administrators) <= 1

\* AccountAdminService: what may be done to an account.
MayChange(a, k, v) ==
    LET x == acct[a]
    IN CASE k = "status" /\ v = "deleted" -> x.status = "deleted" \/ ~IsLast(a)
         [] k = "status" /\ v = "disabled" ->
              x.status # "deleted" /\ (x.status = "disabled" \/ ~IsLast(a))
         [] k = "status" /\ v = "active" -> x.status # "deleted"
         [] k = "role"  -> x.status # "deleted" /\ (v = "player" => ~IsLast(a))
         [] k = "reset" -> x.status # "deleted"

\* Changes that take the role from an account, which a count of the
\* administrators allows.
Demotes(a, k, v) == a \in Administrators /\ k = "role" /\ v = "player"

Changed(a, k, v) ==
    CASE k = "status" -> [acct EXCEPT ![a].status = v]
      [] k = "role"   -> [acct EXCEPT ![a].role = v]
      [] k = "reset"  -> acct

\* _add_audit_log
Recorded(is) == rows' = [rows EXCEPT !.audits = @ + IF is THEN 1 ELSE 0]

\* Fault: only a disabled or deleted account loses its socket.
ChangeKeepsSocket(a, k, v) ==
    /\ acct' = Changed(a, k, v)
    /\ alive' = (alive /\ ~(cookie = a /\ (k = "reset" \/ (k = "status" /\ v # "active"
                                             /\ acct[a].status # v))))
    /\ sock' = IF sock = a /\ k = "status" THEN None ELSE sock
    /\ Recorded(k = "reset" \/ acct' # acct)
    /\ UNCHANGED <<cookie, news, user, emptied>>
\* A change by an administrator: sessions end with a new password and with the
\* active status; the socket is closed after any change, also one that changes
\* nothing and is not recorded.
Change(a, k, v) ==
    /\ acct' = Changed(a, k, v)
    /\ Recorded(k = "reset" \/ acct' # acct)
    /\ alive' = (alive /\ ~(cookie = a /\ (k = "reset" \/ (k = "status" /\ v # "active"
                                             /\ acct[a].status # v))))
    /\ sock' = IF sock = a THEN None ELSE sock
    /\ UNCHANGED <<cookie, news, user, emptied>>

ServeChange ==
    /\ \E r \in asked :
        /\ r.k \in {"status", "role", "reset"}
        /\ LET ok == IsAdministrator /\ MayChange(r.a, r.k, r.v)
           IN /\ Answered(r, ok, None)
              /\ IF ok THEN Change(r.a, r.k, r.v) ELSE UNCHANGED <<acct, rows, auth>>
              /\ overlapped' = (overlapped \/ (ok /\ judged # None /\ Demotes(r.a, r.k, r.v)))
              /\ elsewhere' = IF ok /\ r.k = "reset" THEN elsewhere \cup {"audits"} ELSE elsewhere
    /\ UNCHANGED <<judged, view, data, counts>>

\* A new account, or a login name that is taken.
ServeCreate ==
    /\ \E r \in asked :
        /\ r.k = "create"
        /\ LET free == {a \in Accounts : acct[a].status = "none"}
               a    == CHOOSE b \in free : TRUE
           IN \/ /\ IsAdministrator /\ free # {}
                 /\ acct' = [acct EXCEPT ![a] = Account(r.v, "active")]
                 /\ Recorded(TRUE) /\ elsewhere' = elsewhere \cup {"audits"}
                 /\ Answered(r, TRUE, None)
              \/ UNCHANGED <<acct, rows, elsewhere>> /\ Answered(r, FALSE, None)
    /\ UNCHANGED <<overlap, auth, view, data, counts>>

\* lobby:rooms-updated goes to the sockets there are.
Announce(also) ==
    /\ news' = IF sock = None THEN news ELSE news + 1
    /\ elsewhere' = elsewhere \cup also \cup (IF sock = None THEN {"lobby"} ELSE {})
    /\ UNCHANGED <<cookie, alive, sock, user, emptied>>

\* close_room_admin; what it does to a match of the room is in RoomHandlers.
ServeCloseRoom ==
    /\ \E r \in asked :
        /\ r.k = "close"
        /\ Answered(r, IsAdministrator, None)
        /\ IF IsAdministrator /\ rows.rooms # "closed"
           THEN rows' = [rows EXCEPT !.rooms = "closed", !.audits = @ + 1] /\ Announce({})
           ELSE UNCHANGED <<rows, auth, elsewhere>>
    /\ UNCHANGED <<acct, overlap, view, data, counts>>

\* void_match: a match is voided once, and its ratings are replayed.
ServeVoidMatch ==
    /\ \E r \in asked :
        /\ r.k = "void"
        /\ Answered(r, IsAdministrator /\ rows.matches # "voided", None)
        /\ rows' = IF IsAdministrator THEN [rows EXCEPT !.matches = "voided"] ELSE rows
    /\ UNCHANGED <<acct, overlap, auth, view, data, elsewhere, counts>>

\* A change of the other administrator, who is active.
OtherMay(a, k, v) ==
    /\ others < MaxOthers /\ others' = others + 1
    /\ judged = None
    /\ \E b \in Administrators : b # cookie /\ acct[b].status = "active"
    /\ acct[a].status # "none" /\ MayChange(a, k, v)
    /\ UNCHANGED <<changes, logins, moves>>

OtherChanges ==
    /\ \E a \in Accounts, k \in {"status", "role", "reset"},
          v \in {"active", "disabled", "deleted", "administrator", "player"} :
        /\ k = "status" <=> v \in {"active", "disabled", "deleted"}
        /\ k = "reset" => v = "player"
        /\ OtherMay(a, k, v)
        /\ Change(a, k, v)
    /\ elsewhere' = elsewhere \cup {"accounts", "audits"}
    /\ UNCHANGED <<overlap, view, data, asked, answered>>

\* A demotion is made after awaits, in which others may be judged by the count.
\* Bound: only when the tab has asked for a role, which is all that may overlap.
OtherAsks ==
    /\ \E r \in asked : r.k = "role" /\ r.v = "player"
    /\ \E a \in Administrators :
        /\ OtherMay(a, "role", "player")
        /\ judged' = Request("role", a, "player")
    /\ UNCHANGED <<acct, rows, overlapped, auth, view, data, elsewhere, asked, answered>>

OtherFinishes ==
    /\ judged # None /\ judged' = None
    /\ Change(judged.a, judged.k, judged.v)
    /\ elsewhere' = elsewhere \cup {"accounts", "audits"}
    /\ UNCHANGED <<overlapped, view, data, asked, answered, counts>>

\* A match starts in the room, or ends.
OtherPlays ==
    /\ others < MaxOthers /\ others' = others + 1
    /\ rows.rooms # "closed"
    /\ rows' = [rows EXCEPT !.rooms = IF @ = "waiting" THEN "active" ELSE "waiting"]
    /\ Announce({"rooms"})
    /\ UNCHANGED <<acct, overlap, view, data, asked, answered, changes, logins, moves>>

-----------------------------------------------------------------------------
(* Answers.                                                                *)

Learned(m) == answered' = answered \ {m}

LearnMe ==
    /\ \E m \in answered :
        /\ m.r.k = "me"
        /\ Learned(m)
        /\ user' = IF m.ok THEN m.d ELSE None
        /\ Dial(user')
        /\ page' = Guarded(page, user')
        /\ IF page' = page THEN UNCHANGED <<tab, dialogs, selected, editing>> ELSE Left
        /\ IF user' = user THEN UNCHANGED <<asked, missed>> ELSE Load(page', user', tab')
    /\ UNCHANGED <<server, cookie, alive, emptied, cache, stale, failed, counts>>

LearnQuery ==
    /\ \E m \in answered :
        /\ m.r.k \in Keys
        /\ Learned(m)
        /\ cache'  = IF m.ok THEN [cache EXCEPT ![m.r.k] = m.d] ELSE cache
        /\ stale'  = IF m.ok THEN stale \ {m.r.k} ELSE stale
        /\ failed' = IF m.ok THEN failed \ {m.r.k} ELSE failed \cup {m.r.k}
    /\ UNCHANGED <<server, auth, view, missed, elsewhere, asked, counts>>

\* login sets the user and navigates to the lobby.
LearnLogin ==
    /\ \E m \in answered :
        /\ m.r.k = "login"
        /\ Learned(m)
        /\ IF m.ok
           THEN /\ user' = m.d /\ Dial(m.d) /\ page' = "lobby"
                /\ Load("lobby", m.d, tab)
           ELSE UNCHANGED <<user, sock, news, elsewhere, page, asked, missed>>
    /\ UNCHANGED <<server, cookie, alive, emptied, tab, dialogs, selected, editing,
                   cache, stale, failed, counts>>

\* queryClient.clear(): the answers still under way find no query.
Clear(m, more) ==
    /\ asked' = {r \in asked : r.k \notin Keys \cup {"me"}} \cup more
    /\ answered' = {x \in answered \ {m} : x.r.k \notin Keys \cup {"me"}}
    /\ cache' = [k \in Keys |-> None] /\ stale' = {} /\ failed' = {} /\ missed' = {}

\* logout clears the cache; AuthProvider is drawn and asks who the user is.
LearnLogout ==
    /\ \E m \in answered :
        /\ m.r.k = "logout"
        /\ IF m.ok
           THEN /\ user' = Unknown /\ emptied' = FALSE /\ Dial(Unknown) /\ page' = "login" /\ Left
                /\ Clear(m, {Query("me")})
           ELSE /\ Drawn /\ answered' = (answered \ {m}) \cup Found
                /\ UNCHANGED <<view, data, asked>>
    /\ UNCHANGED <<server, cookie, alive, counts>>

\* The new password clears the cache; AuthProvider is not drawn, so the guard
\* of the login page still sees the user and sends him to the lobby.
LearnPassword ==
    /\ \E m \in answered :
        /\ m.r.k = "password"
        /\ IF m.ok
           THEN /\ page' = Guarded("login", user) /\ editing' = FALSE /\ emptied' = TRUE
                /\ Clear(m, {Query(k) : k \in VisibleOf(page', user, tab)})
           ELSE Learned(m) /\ UNCHANGED <<page, editing, emptied, data, asked>>
    /\ UNCHANGED <<server, cookie, alive, sock, news, user, tab, dialogs, selected, elsewhere,
                   counts>>

\* Fault: the signed-in user is not asked for again.
StaleWithoutUser(r) ==
    CASE r.k \in {"status", "role"} -> {"accounts", "audits"}
      [] r.k = "close"  -> {"rooms", "audits"} [] r.k = "void" -> {"matches", "audits"}
      [] r.k = "create" -> {"accounts"} [] r.k = "name"  -> {r.a} [] r.k = "reset" -> {}
\* What a success makes stale.
Stale(r) ==
    CASE r.k \in {"status", "role"} -> {"accounts", "audits"}
      [] r.k = "close"  -> {"rooms", "audits"} [] r.k = "void" -> {"matches", "audits"}
      [] r.k = "create" -> {"accounts"} [] r.k = "name"  -> {r.a, "me"} [] r.k = "reset" -> {}

Learn(m) ==
    IF m.ok THEN Invalidate(Stale(m.r), {m}) ELSE Learned(m) /\ UNCHANGED <<asked, stale, missed>>

\* A deleted account leaves the list before the list is loaded again.
LearnChange ==
    /\ \E m \in answered :
        /\ m.r.k \in {"status", "role", "close", "void"}
        /\ Learn(m)
        /\ LET list == cache["accounts"]
           IN cache' = IF m.ok /\ m.r.k = "status" /\ m.r.v = "deleted" /\ list # None
                       THEN [cache EXCEPT !["accounts"] =
                               [a \in DOMAIN list \ {m.r.a} |-> list[a]]]
                       ELSE cache
    /\ UNCHANGED <<server, auth, view, failed, elsewhere, counts>>

\* A new name is followed by a load of the user, which draws AuthProvider if the
\* cache was emptied.
LearnProfile ==
    /\ \E m \in answered :
        /\ m.r.k = "name"
        /\ Learn(m)
        /\ editing' = (editing /\ ~m.ok)
        /\ IF m.ok THEN Drawn ELSE UNCHANGED <<user, emptied, sock, news, elsewhere>>
    /\ UNCHANGED <<server, cookie, alive, page, tab, dialogs, selected, cache, failed, counts>>

\* A success closes the dialog of its kind, for whatever account it is open.
Closes(m) == IF m.ok THEN {m.r.k} ELSE {}

LearnDialog ==
    /\ \E m \in answered :
        /\ m.r.k \in {"create", "reset"}
        /\ Learn(m)
        /\ dialogs' = dialogs \ Closes(m)
        /\ selected' = IF m.ok /\ m.r.k = "reset" THEN None ELSE selected
    /\ UNCHANGED <<server, auth, page, tab, editing, cache, failed, elsewhere, counts>>

\* The list of the lobby listens while it is drawn.
LearnRooms ==
    /\ news > 0 /\ news' = news - 1
    /\ IF "lobby" \in Visible THEN Invalidate({"lobby"}, {})
       ELSE /\ missed' = missed \cup (IF InFlight("lobby") THEN {"lobby"} ELSE {})
            /\ UNCHANGED <<asked, answered, stale>>
    /\ UNCHANGED <<server, cookie, alive, sock, user, emptied, view, cache, failed, elsewhere,
                   counts>>

\* The socket that was dialled is accepted; or a command of the store, or
\* socket.io itself, dials again.
Reconnect ==
    /\ Known /\ sock = None /\ Session # None
    /\ sock' = Session
    /\ UNCHANGED <<server, cookie, alive, news, user, emptied, view, data, elsewhere,
                   asked, answered, counts>>

Act ==
    \/ SubmitLogin \/ ClickLogout \/ StartEdit \/ CancelEdit \/ SaveProfile \/ SubmitPassword
    \/ \E p \in {"lobby", "profile", "admin"} : Navigate(p)
    \/ EnterRoom
    \/ \E t \in Tabs : OpenTab(t)
    \/ ClickStatus \/ ClickRole \/ ClickCloseRoom \/ ClickVoidMatch
    \/ \E d \in {"create", "reset"} : OpenDialog(d)
    \/ SubmitCreate \/ SubmitReset \/ CloseDialog

Serve ==
    \/ ServeMe \/ ServeQuery \/ ServeLogin \/ ServeLogout \/ ServeProfile \/ ServePassword
    \/ ServeChange \/ ServeCreate \/ ServeCloseRoom \/ ServeVoidMatch
    \/ OtherChanges \/ OtherAsks \/ OtherFinishes \/ OtherPlays

Receive ==
    \/ LearnMe \/ LearnQuery \/ LearnLogin \/ LearnLogout \/ LearnPassword
    \/ LearnChange \/ LearnProfile \/ LearnDialog \/ LearnRooms \/ Reconnect

Next == Act \/ Serve \/ Receive

Spec == Init /\ [][Next]_vars

-----------------------------------------------------------------------------
(* Properties.                                                             *)

Settled == asked = {} /\ answered = {} /\ news = 0

\* When nothing is under way, what the lobby, the console and the profile show is
\* what the server has, however the answers to changes, the news of the rooms and
\* the loads overtook each other and whatever was open meanwhile, and the name in
\* the layout is the one of the profile; except for what somebody else changed and
\* no socket told the tab, for the audit records of a new account and of a reset,
\* for a load that failed, and for a change or news that found an older load under
\* way that it did not replace.
SettledPagesAreCurrent ==
    Settled =>
        /\ \A k \in Visible \ (failed \cup missed \cup elsewhere) :
              cache[k] = Current(k)
        /\ Known /\ alive /\ cookie = user.a => user.name = acct[user.a].name

\* The socket is that of the user the tab shows, whose account is active and
\* whose session is not revoked: disabling, deleting or resetting an account
\* closes it, signing out closes it, and it cannot be dialled again.
SocketIsUsers ==
    sock # None =>
        /\ Known /\ user.a = sock
        /\ acct[sock].status = "active" /\ (cookie = sock => alive)

\* The role of administrator never disappears from the accounts, unless two
\* demotions overlap in the server.
RoleRemains == ~overlapped => Administrators # {}
=============================================================================

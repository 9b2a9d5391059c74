----------------------------- MODULE SiteProofs -----------------------------
(***************************************************************************)
(* That the role of administrator remains (RoleRemains of Site), that the  *)
(* socket is the user's (SocketIsUsers), and that settled pages show what  *)
(* the server has (SettledPagesAreCurrent), for any number of accounts,    *)
(* logins, requests, changes and pages.                                    *)
(***************************************************************************)
EXTENDS Site, FiniteSetTheorems, TLAPS

-----------------------------------------------------------------------------
(***************************************************************************)
(* What the tab and the server hold.  Accounts are queries of their own,   *)
(* which is why the names of queries and requests must differ from them.   *)
(***************************************************************************)

Roles    == {"administrator", "player"}
Statuses == {"active", "disabled", "deleted"}
Routes   == {"lobby", "profile", "admin", "room", "login"}

AccountRecord == [role : Roles, status : Statuses \cup {"none"}, name : Nat]

\* Requests of which there may be several under way.
Several == Other \ {"me", "login"}

Sound(r) ==
    /\ r.k \in Keys \cup Other
    /\ r.k \in Keys \cup {"me"} => r = Query(r.k)
    /\ r.k \in {"login", "name"} => r.a \in Accounts
    /\ r.k = "status" => r.v \in Statuses
    /\ r.k \in {"role", "create"} => r.v \in Roles
    /\ r.k = "name" => r.v \in Nat

AccountsTyped == acct \in [Accounts -> AccountRecord]
AuthTyped ==
    /\ cookie \in Accounts \cup {None} /\ sock \in Accounts \cup {None}
    /\ alive \in BOOLEAN /\ emptied \in BOOLEAN /\ news \in Nat
    /\ user \in {None, Unknown} \cup Users
PagesTyped ==
    /\ tab \in Tabs /\ changes \in Nat /\ page \in Routes /\ Guarded(page, user) = page
    /\ cache = [k \in Keys |-> cache[k]]
AskedSound    == \A r \in asked : Sound(r)
AnswersSound  ==
    \A m \in answered :
        /\ Sound(m.r) /\ m.ok \in BOOLEAN
        /\ m.ok /\ m.r.k \in {"me", "login"} => m.d \in Users
JudgedDemotes == judged # None =>
                    \E a \in Accounts : judged = Request("role", a, "player")

Typed == /\ AccountsTyped /\ AuthTyped /\ PagesTyped
         /\ AskedSound /\ AnswersSound /\ JudgedDemotes

-----------------------------------------------------------------------------
(* Names, and the requests a page adds.                                    *)

LEMMA NamesDiffer ==
    /\ Keys \cap Other = {} /\ Accounts \cap (Tabs \cup {"lobby"}) = {}
    /\ {None, Unknown} \cap Accounts = {}
    /\ None # Unknown /\ {None, Unknown} \cap Users = {}
  BY SiteAssumption DEF Keys, Tabs, Other

\* What the guards of the routes make of a page.
LEMMA Guards ==
    /\ \A p : Guarded(p, Unknown) = p /\ Guarded(p, None) = "login"
    /\ \A p, u : u \in Users => Guarded(p, u) = IF p = "login" THEN "lobby" ELSE p
  <1>1. \A p : Guarded(p, Unknown) = p
    <2>1. (Unknown = None) = FALSE /\ (Unknown \notin {None, Unknown}) = FALSE
      BY NamesDiffer
    <2>2. ASSUME NEW p PROVE Guarded(p, Unknown) = p
      <3>1. ~(Unknown = None /\ p # "login") /\ ~(Unknown \notin {None, Unknown} /\ p = "login")
        BY <2>1
      <3> QED BY <3>1, Zenon DEF Guarded
    <2> QED BY <2>2
  <1>2. \A p : Guarded(p, None) = "login"
    <2>1. Guarded("login", None) = "login"
      BY NamesDiffer DEF Guarded
    <2>2. \A p : p # "login" => Guarded(p, None) = "login"
      BY NamesDiffer DEF Guarded
    <2> QED BY <2>1, <2>2
  <1>3. ASSUME NEW p, NEW u \in Users
        PROVE  Guarded(p, u) = IF p = "login" THEN "lobby" ELSE p
    <2>1. u # None /\ u # Unknown
      BY NamesDiffer
    <2> QED BY <2>1 DEF Guarded
  <1> QED
    BY <1>1, <1>2, <1>3

LEMMA QuerySound ==
    ASSUME NEW k \in Keys \cup {"me"}
    PROVE  Sound(Query(k)) /\ Query(k).k = k
  BY NamesDiffer DEF Other, Sound, Query, Request

LEMMA VisibleKeys ==
    ASSUME NEW p, NEW t \in Tabs, NEW u \in {None, Unknown} \cup Users
    PROVE  VisibleOf(p, u, t) \subseteq Keys
  BY DEF VisibleOf, Keys, Users

LEMMA LoadSound ==
    ASSUME AskedSound, NEW p, NEW u \in {None, Unknown} \cup Users, NEW t \in Tabs, Load(p, u, t)
    PROVE  AskedSound'
  <1>1. \A k \in VisibleOf(p, u, t) : Sound(Query(k))
    BY VisibleKeys, QuerySound
  <1> QED
    BY <1>1 DEF Load, AskedSound

LEMMA InvalidateSound ==
    ASSUME Typed, NEW ks, NEW done, Invalidate(ks, done)
    PROVE  AskedSound' /\ answered' \subseteq answered \ done
  <1>1. \A k \in Visible \cup {"me"} : Sound(Query(k))
    BY VisibleKeys, QuerySound DEF Typed, AuthTyped, PagesTyped, Visible
  <1> QED
    BY <1>1 DEF Invalidate, Typed, AskedSound

LEMMA LearnSound ==
    ASSUME Typed, NEW m, Learn(m)
    PROVE  AskedSound' /\ answered' \subseteq answered \ {m}
  BY InvalidateSound DEF Learn, Learned, Typed, AskedSound

LEMMA ClearSound ==
    ASSUME Typed, NEW m, NEW ks \in SUBSET (Keys \cup {"me"}), Clear(m, {Query(k) : k \in ks})
    PROVE  AskedSound' /\ answered' \subseteq answered \ {m}
  BY QuerySound DEF Clear, Typed, AskedSound

LEMMA AnsweredSound ==
    ASSUME Typed, NEW r \in asked, NEW ok \in BOOLEAN, NEW d, Answered(r, ok, d),
           ok /\ r.k \in {"me", "login"} => d \in Users
    PROVE  AskedSound' /\ AnswersSound'
  BY DEF Answered, Typed, AskedSound, AnswersSound

LEMMA FoundSound ==
    \A m \in Found : Sound(m.r) /\ m.ok = FALSE /\ m.r.k = "me"
  BY QuerySound DEF Found

-----------------------------------------------------------------------------
(***************************************************************************)
(* What the user does, seen from the requests: he asks, he opens a page or *)
(* a tab whose queries are loaded, or he changes what is drawn only.       *)
(***************************************************************************)

UserAsks ==
    /\ Known
    /\ \E r : /\ r.k \in Several /\ Sound(r) /\ (r.k = "name" => r.a = user.a)
              /\ asked' = asked \cup {r}
    /\ UNCHANGED <<page, tab, missed>>
UserOpens == /\ Known /\ page' # "login" /\ page' \in Routes
             /\ Load(page', user, tab')
UserTurns == UNCHANGED <<asked, page, tab, missed>>
UserOnly ==
    /\ UNCHANGED <<server, auth, cache, stale, failed, elsewhere, answered>>
    /\ tab' \in Tabs /\ changes' \in Nat
    /\ UserAsks \/ UserOpens \/ UserTurns

LEMMA KnownOn ==
    ASSUME Typed, Screen \in {"profile", "admin"}
    PROVE  Known /\ user \in Users
  BY DEF Typed, AuthTyped, PagesTyped, Screen, ScreenOf, Known, Guarded

LEMMA ActKinds ==
    ASSUME Typed, Act
    PROVE  SubmitLogin \/ ClickLogout \/ UserOnly
  <1> USE DEF Typed, PagesTyped
  <1>a. ASSUME NEW r, Known, Asks(r), r.k \in Several, Sound(r), r.k = "name" => r.a = user.a,
               changes' \in Nat
        PROVE  UserOnly
    BY <1>a DEF Asks, Ask, UserOnly, UserAsks, server, overlap, auth, view, data
  <1>b. changes + 1 \in Nat /\ "accounts" \in Tabs
    BY DEF Tabs
  <1>c. \A a, v : /\ v \in Statuses => Sound(Request("status", a, v))
                  /\ v \in Roles => Sound(Request("role", a, v)) /\ Sound(Request("create", a, v))
                  /\ v \in Nat /\ a \in Accounts => Sound(Request("name", a, v))
                  /\ \A k \in {"password", "reset", "close", "void"} : Sound(Request(k, a, v))
    BY NamesDiffer DEF Sound, Request, Other
  <1>d. \A k, a, v : Request(k, a, v).k = k /\ Request(k, a, v).a = a
    BY DEF Request
  <1>3. CASE StartEdit
    BY <1>3 DEF StartEdit, Moving, UserOnly, UserTurns, auth, data
  <1>4. CASE CancelEdit
    BY <1>4 DEF CancelEdit, UserOnly, UserTurns, counts, auth, data
  <1>5. CASE SaveProfile
    <2>1. Known /\ user.a \in Accounts
      BY <1>5, KnownOn DEF SaveProfile, Users
    <2>2. Sound(Request("name", user.a, changes + 1)) /\ "name" \in Several
      BY <1>b, <1>c, <2>1 DEF Several, Other
    <2> QED BY <1>5, <1>a, <1>b, <1>d, <2>1, <2>2 DEF SaveProfile, Changing
  <1>6. CASE SubmitPassword
    <2>1. Sound(Request("password", None, None)) /\ "password" \in Several /\ "password" # "name"
      BY <1>c DEF Several, Other
    <2> QED BY <1>6, <1>a, <1>b, <1>d, <2>1 DEF SubmitPassword, PasswordForm, Changing
  <1>7. ASSUME NEW p \in {"lobby", "profile", "admin", "room"}, Navigate(p) PROVE UserOnly
    BY <1>7, <1>b DEF Navigate, Left, Moving, UserOnly, UserOpens, auth, data, Routes
  <1>8. CASE EnterRoom
    BY <1>8, <1>7 DEF EnterRoom
  <1>9. ASSUME NEW t \in Tabs, OpenTab(t) PROVE UserOnly
    <2>1. page # "login"
      BY <1>9 DEF OpenTab, Screen, ScreenOf
    <2> QED BY <1>9, <2>1 DEF OpenTab, Moving, UserOnly, UserOpens, auth, data
  <1>10. CASE ClickStatus
    <2>1. PICK a, v : v \in Statuses /\ Asks(Request("status", a, v))
      BY <1>10 DEF ClickStatus, Statuses
    <2>2. Sound(Request("status", a, v)) /\ "status" \in Several /\ "status" # "name"
      BY <1>c, <2>1 DEF Several, Other
    <2> QED BY <1>10, <1>a, <1>b, <1>d, <2>1, <2>2 DEF ClickStatus, Shown, Changing
  <1>11. CASE ClickRole
    <2>1. PICK a, v : v \in Roles /\ Asks(Request("role", a, v))
      BY <1>11 DEF ClickRole, Roles
    <2>2. Sound(Request("role", a, v)) /\ "role" \in Several /\ "role" # "name"
      BY <1>c, <2>1 DEF Several, Other
    <2> QED BY <1>11, <1>a, <1>b, <1>d, <2>1, <2>2 DEF ClickRole, Shown, Changing
  <1>12. ASSUME NEW d, OpenDialog(d) PROVE UserOnly
    BY <1>12 DEF OpenDialog, Moving, UserOnly, UserTurns, auth, data
  <1>13. CASE SubmitCreate
    <2>1. PICK v \in Roles : Asks(Request("create", None, v))
      BY <1>13 DEF SubmitCreate, Roles
    <2>2. Sound(Request("create", None, v)) /\ "create" \in Several /\ "create" # "name"
      BY <1>c, <2>1 DEF Several, Other
    <2> QED BY <1>13, KnownOn, <1>a, <1>b, <1>d, <2>1, <2>2 DEF SubmitCreate, Changing
  <1>14. CASE SubmitReset
    <2>1. Sound(Request("reset", selected, None)) /\ "reset" \in Several /\ "reset" # "name"
      BY <1>c DEF Several, Other
    <2> QED BY <1>14, KnownOn, <1>a, <1>b, <1>d, <2>1 DEF SubmitReset, Changing
  <1>15. CASE CloseDialog
    BY <1>15 DEF CloseDialog, UserOnly, UserTurns, counts, auth, data
  <1>16. CASE ClickCloseRoom
    <2>1. Sound(Request("close", None, None)) /\ "close" \in Several /\ "close" # "name"
      BY <1>c DEF Several, Other
    <2> QED BY <1>16, <1>a, <1>b, <1>d, <2>1 DEF ClickCloseRoom, Shown, Changing
  <1>17. CASE ClickVoidMatch
    <2>1. Sound(Request("void", None, None)) /\ "void" \in Several /\ "void" # "name"
      BY <1>c DEF Several, Other
    <2> QED BY <1>17, <1>a, <1>b, <1>d, <2>1 DEF ClickVoidMatch, Shown, Changing
  <1> QED
    BY <1>3, <1>4, <1>5, <1>6, <1>7, <1>8, <1>9, <1>10, <1>11, <1>12, <1>13, <1>14, <1>15,
       <1>16, <1>17 DEF Act

-----------------------------------------------------------------------------
(* What the server does, seen from the requests: it answers one, or none.  *)

ServeNet ==
    /\ UNCHANGED <<user, emptied, page, tab, dialogs, selected, editing, cache, stale, failed,
                   missed, changes>>
    /\ \/ UNCHANGED <<asked, answered>>
       \/ \E r, ok, d :
             r \in asked /\ ok \in BOOLEAN /\ Answered(r, ok, d) /\ (ok /\ r.k \in {"me", "login"} => d \in Users)

LEMMA ProfileTyped ==
    ASSUME AccountsTyped, NEW a \in Accounts
    PROVE  Profile(a) \in Users
  BY DEF AccountsTyped, AccountRecord, Profile, Users, Roles

LEMMA ServeKinds ==
    ASSUME Typed, Serve
    PROVE  ServeNet
  <1> USE DEF ServeNet
  <1>1. CASE ServeMe
    <2>1. PICK r \in asked : /\ r.k = "me"
                             /\ Answered(r, Session # None,
                                         IF Session # None THEN Profile(Session) ELSE None)
      BY <1>1 DEF ServeMe
    <2>2. Session # None => Profile(Session) \in Users
      BY ProfileTyped DEF Typed, AuthTyped, Session
    <2> QED
      BY <1>1, <2>1, <2>2 DEF ServeMe, auth, view, data, counts
  <1>2. CASE ServeQuery
    <2>1. PICK r, ok, d : r \in asked /\ ok \in BOOLEAN /\ r.k \in Keys /\ Answered(r, ok, d)
      BY <1>2 DEF ServeQuery, IsAdministrator
    <2>2. r.k \notin {"me", "login"}
      BY <2>1, NamesDiffer DEF Other
    <2> QED
      BY <1>2, <2>1, <2>2 DEF ServeQuery, auth, view, data, counts
  <1>3. CASE ServeLogin
    <2>1. PICK r \in asked : r.k = "login" /\ (Answered(r, TRUE, Profile(r.a))
                                               \/ Answered(r, FALSE, None))
      BY <1>3 DEF ServeLogin
    <2>2. Profile(r.a) \in Users
      BY <2>1, ProfileTyped DEF Typed, AskedSound, Sound
    <2> QED
      BY <1>3, <2>1, <2>2 DEF ServeLogin, auth, view, data, counts
  <1>4. CASE ServeLogout
    BY <1>4 DEF ServeLogout, auth, view, data, counts
  <1>5. CASE ServePassword
    BY <1>5 DEF ServePassword, auth, view, data, counts
  <1>6. CASE ServeCloseRoom
    BY <1>6 DEF ServeCloseRoom, IsAdministrator, Announce, auth, view, data, counts
  <1>7. CASE ServeVoidMatch
    BY <1>7 DEF ServeVoidMatch, IsAdministrator, auth, view, data, counts
  <1>8. CASE OtherPlays
    BY <1>8 DEF OtherPlays, Announce, view, data
  <1>9. CASE ServeProfile
    BY <1>9 DEF ServeProfile, auth, view, data, counts
  <1>10. CASE ServeCreate
    BY <1>10 DEF ServeCreate, auth, view, data, counts
  <1>11. CASE ServeChange
    <2>1. PICK r \in asked, ok \in BOOLEAN :
            r.k \in {"status", "role", "reset"} /\ Answered(r, ok, None)
            /\ UNCHANGED <<user, emptied>>
      BY <1>11 DEF ServeChange, MayChange, IsAdministrator, Change, auth
    <2> QED
      BY <1>11, <2>1 DEF ServeChange, view, data, counts
  <1>12. CASE OtherChanges
    BY <1>12 DEF OtherChanges, OtherMay, Change, view, data
  <1>13. CASE OtherAsks
    BY <1>13 DEF OtherAsks, OtherMay, auth, view, data
  <1>14. CASE OtherFinishes
    BY <1>14 DEF OtherFinishes, Change, view, data, counts
  <1> QED
    BY <1>1, <1>2, <1>3, <1>4, <1>5, <1>6, <1>7, <1>8, <1>9, <1>10, <1>11, <1>12, <1>13, <1>14
    DEF Serve

\* The session, the socket and the news are typed.
LEMMA ServeAuth ==
    ASSUME Typed, Serve
    PROVE  AuthTyped'
  <1> USE DEF Typed, AuthTyped
  <1>a. UNCHANGED <<user, emptied>>
    BY ServeKinds DEF ServeNet
  <1>b. ASSUME NEW also, Announce(also) PROVE AuthTyped'
    BY <1>a, <1>b DEF Announce
  <1>c. ASSUME NEW a, NEW k, NEW v, Change(a, k, v) PROVE AuthTyped'
    BY <1>a, <1>c DEF Change
  <1>1. CASE ServeMe \/ ServeQuery \/ ServeProfile \/ ServeCreate \/ ServeVoidMatch \/ OtherAsks
    BY <1>1 DEF ServeMe, ServeQuery, ServeProfile, ServeCreate, ServeVoidMatch, OtherAsks, auth
  <1>2. CASE ServeLogin
    BY <1>2, <1>a DEF ServeLogin, AskedSound, Sound
  <1>3. CASE ServeLogout
    BY <1>3, <1>a DEF ServeLogout
  <1>4. CASE ServePassword
    BY <1>4, <1>a DEF ServePassword
  <1>5. CASE ServeCloseRoom
    BY <1>5, <1>b DEF ServeCloseRoom, auth
  <1>6. CASE OtherPlays
    BY <1>6, <1>b DEF OtherPlays
  <1>7. CASE ServeChange
    BY <1>7, <1>c DEF ServeChange, auth
  <1>8. CASE OtherChanges
    BY <1>8, <1>c DEF OtherChanges
  <1>9. CASE OtherFinishes
    BY <1>9, <1>c DEF OtherFinishes
  <1> QED
    BY <1>1, <1>2, <1>3, <1>4, <1>5, <1>6, <1>7, <1>8, <1>9 DEF Serve

-----------------------------------------------------------------------------
(***************************************************************************)
(* The role.  A count of the administrators is taken when a demotion is    *)
(* judged, and the demotion is made later: between the two another         *)
(* administrator than the judged one remains, unless a second demotion     *)
(* overlaps with it.  Nothing else takes the role, for the requests under  *)
(* way name roles and statuses of accounts.                                *)
(***************************************************************************)

AnotherStays  == judged # None /\ ~overlapped =>
                    \E b \in Administrators : b # judged.a

RoleInv == AnotherStays /\ RoleRemains

\* What the count says: whoever is judged, another administrator is left.
LEMMA CountLeavesAnother ==
    ASSUME NEW a \in Administrators, ~IsLast(a)
    PROVE  \E b \in Administrators : b # a
  <1> SUFFICES ASSUME \A b \in Administrators : b = a PROVE FALSE
    OBVIOUS
  <1>1. Administrators = {a}
    OBVIOUS
  <1>2. Cardinality(Administrators) = 1
    BY <1>1, FS_Singleton
  <1> QED
    BY <1>2 DEF IsLast

\* A change by an administrator keeps the accounts typed, and takes the role
\* from nobody but the demoted.
LEMMA ChangeKeepsOthers ==
    ASSUME AccountsTyped, NEW a, NEW k \in {"status", "role", "reset"}, NEW v,
           k = "status" => v \in Statuses, k = "role" => v \in Roles,
           acct' = Changed(a, k, v)
    PROVE  /\ AccountsTyped'
           /\ Administrators \ {a} \subseteq Administrators'
           /\ ~Demotes(a, k, v) => Administrators \subseteq Administrators'
  <1>1. CASE k = "status"
    BY <1>1 DEF AccountsTyped, AccountRecord, Changed, Administrators, Statuses
  <1>2. CASE k = "role"
    BY <1>2 DEF AccountsTyped, AccountRecord, Changed, Administrators, Roles, Demotes
  <1>3. CASE k = "reset"
    BY <1>3 DEF AccountsTyped, Changed, Administrators
  <1> QED
    BY <1>1, <1>2, <1>3

LEMMA ServeKeepsRole ==
    ASSUME Typed, RoleInv, Serve
    PROVE  AccountsTyped' /\ JudgedDemotes' /\ RoleInv'
  <1> USE DEF Typed, RoleInv
  <1>a. ASSUME UNCHANGED <<acct, judged, overlapped>>
        PROVE  AccountsTyped' /\ JudgedDemotes' /\ RoleInv'
    BY <1>a DEF AccountsTyped, JudgedDemotes, AnotherStays, RoleRemains, Administrators
  <1>b. ASSUME UNCHANGED overlap, AccountsTyped', Administrators \subseteq Administrators'
        PROVE  AccountsTyped' /\ JudgedDemotes' /\ RoleInv'
    BY <1>b DEF JudgedDemotes, AnotherStays, RoleRemains, overlap
  <1>1. CASE \/ ServeMe \/ ServeQuery \/ ServeLogin \/ ServeLogout \/ ServePassword
             \/ ServeCloseRoom \/ ServeVoidMatch \/ OtherPlays
    BY <1>1, <1>a DEF ServeMe, ServeQuery, ServeLogin, ServeLogout, ServePassword, ServeCloseRoom,
       ServeVoidMatch, OtherPlays, server, overlap
  <1>9. CASE ServeProfile
    <2>1. PICK r \in asked : /\ r.k = "name"
                             /\ acct' = acct \/ acct' = [acct EXCEPT ![Session].name = r.v]
      BY <1>9 DEF ServeProfile
    <2>2. r.v \in Nat
      BY <2>1 DEF AskedSound, Sound
    <2>3. AccountsTyped' /\ Administrators \subseteq Administrators'
      BY <2>1, <2>2 DEF AccountsTyped, AccountRecord, Administrators
    <2> QED
      BY <1>9, <2>3, <1>b DEF ServeProfile
  <1>10. CASE ServeCreate
    <2>1. PICK r \in asked :
            /\ r.k = "create"
            /\ \/ UNCHANGED acct
               \/ \E a : /\ {b \in Accounts : acct[b].status = "none"} # {}
                         /\ a = CHOOSE b \in {c \in Accounts : acct[c].status = "none"} : TRUE
                         /\ acct' = [acct EXCEPT ![a] = Account(r.v, "active")]
      BY <1>10 DEF ServeCreate
    <2>2. r.v \in Roles
      BY <2>1 DEF AskedSound, Sound
    <2>3. AccountsTyped' /\ Administrators \subseteq Administrators'
      <3>1. CASE UNCHANGED acct
        BY <3>1 DEF AccountsTyped, Administrators
      <3>2. CASE \E a \in Accounts : /\ acct[a].status = "none"
                                     /\ acct' = [acct EXCEPT ![a] = Account(r.v, "active")]
        <4>1. PICK a \in Accounts : /\ acct[a].status = "none"
                                    /\ acct' = [acct EXCEPT ![a] = Account(r.v, "active")]
          BY <3>2
        <4>2. Account(r.v, "active") \in AccountRecord
          BY <2>2 DEF Account, AccountRecord, Statuses
        <4> QED BY <4>1, <4>2 DEF AccountsTyped, Administrators
      <3> QED BY <2>1, <3>1, <3>2
    <2> QED
      BY <1>10, <2>3, <1>b DEF ServeCreate
  <1>11. CASE ServeChange
    <2>1. PICK r \in asked, ok \in BOOLEAN :
            /\ r.k \in {"status", "role", "reset"}
            /\ ok = (IsAdministrator /\ MayChange(r.a, r.k, r.v))
            /\ IF ok THEN acct' = Changed(r.a, r.k, r.v) ELSE UNCHANGED acct
            /\ overlapped' = (overlapped \/ (ok /\ judged # None /\ Demotes(r.a, r.k, r.v)))
      BY <1>11 DEF ServeChange, Change
    <2>2. judged' = judged
      BY <1>11 DEF ServeChange
    <2>3. CASE ~ok
      BY <2>1, <2>2, <2>3 DEF AccountsTyped, Administrators, JudgedDemotes, AnotherStays,
         RoleRemains
    <2>4. CASE ok
      <3>1. /\ AccountsTyped'
            /\ Administrators \ {r.a} \subseteq Administrators'
            /\ ~Demotes(r.a, r.k, r.v) => Administrators \subseteq Administrators'
        BY <2>1, <2>4, ChangeKeepsOthers DEF AskedSound, Sound
      <3>2. CASE ~Demotes(r.a, r.k, r.v)
        BY <2>1, <2>2, <3>1, <3>2 DEF JudgedDemotes, AnotherStays, RoleRemains
      <3>3. CASE Demotes(r.a, r.k, r.v) /\ judged = None
        <4>1. \E b \in Administrators : b # r.a
          BY <2>1, <2>4, <3>3, CountLeavesAnother DEF MayChange, Demotes
        <4> QED BY <2>2, <3>1, <3>3, <4>1 DEF JudgedDemotes, AnotherStays, RoleRemains
      <3>4. CASE Demotes(r.a, r.k, r.v) /\ judged # None
        BY <2>1, <2>2, <2>4, <3>1, <3>4 DEF JudgedDemotes, AnotherStays, RoleRemains
      <3> QED BY <3>2, <3>3, <3>4
    <2> QED BY <2>3, <2>4
  <1>12. CASE OtherChanges
    <2>1. PICK a \in Accounts, k \in {"status", "role", "reset"},
               v \in {"active", "disabled", "deleted", "administrator", "player"} :
            /\ k = "status" <=> v \in {"active", "disabled", "deleted"}
            /\ MayChange(a, k, v)
            /\ acct' = Changed(a, k, v)
            /\ judged = None
      BY <1>12 DEF OtherChanges, OtherMay, Change
    <2>2. (k = "status" => v \in Statuses) /\ (k = "role" => v \in Roles)
      BY <2>1 DEF Statuses, Roles
    <2>3. /\ AccountsTyped'
          /\ Administrators \ {a} \subseteq Administrators'
          /\ ~Demotes(a, k, v) => Administrators \subseteq Administrators'
      BY <2>1, <2>2, ChangeKeepsOthers
    <2>4. ~overlapped => Administrators' # {}
      <3>1. CASE Demotes(a, k, v)
        <4>1. \E b \in Administrators : b # a
          BY <2>1, <3>1, CountLeavesAnother DEF MayChange, Demotes
        <4> QED BY <2>3, <4>1
      <3>2. CASE ~Demotes(a, k, v)
        BY <2>3, <3>2 DEF RoleRemains
      <3> QED BY <3>1, <3>2
    <2> QED
      BY <1>12, <2>1, <2>3, <2>4 DEF OtherChanges, JudgedDemotes, AnotherStays, RoleRemains, overlap
  <1>13. CASE OtherAsks
    <2>1. PICK a \in Administrators : /\ MayChange(a, "role", "player")
                                      /\ judged' = Request("role", a, "player")
      BY <1>13 DEF OtherAsks, OtherMay
    <2>2. \E b \in Administrators : b # a
      BY <2>1, CountLeavesAnother DEF MayChange
    <2>3. Administrators' = Administrators /\ a \in Accounts
      BY <1>13 DEF OtherAsks, Administrators
    <2> QED
      BY <1>13, <2>1, <2>2, <2>3 DEF OtherAsks, AccountsTyped, JudgedDemotes, AnotherStays,
         RoleRemains, Request
  <1>14. CASE OtherFinishes
    <2>1. PICK a \in Accounts : judged = Request("role", a, "player")
      BY <1>14 DEF OtherFinishes, JudgedDemotes
    <2>2. acct' = Changed(a, "role", "player") /\ judged' = None /\ judged # None
          /\ overlapped' = overlapped
      BY <1>14, <2>1 DEF OtherFinishes, Change, Request
    <2>3. AccountsTyped' /\ Administrators \ {a} \subseteq Administrators'
      BY <2>2, ChangeKeepsOthers DEF Roles
    <2> QED
      BY <1>14, <2>1, <2>2, <2>3 DEF OtherFinishes, JudgedDemotes, AnotherStays, RoleRemains,
         Request
  <1> QED
    BY <1>1, <1>9, <1>10, <1>11, <1>12, <1>13, <1>14 DEF Serve

-----------------------------------------------------------------------------
(* Types are kept by what the user does and by what reaches the tab.       *)

\* Outside the server no account changes.
LEMMA ElsewhereKeepsRole ==
    ASSUME Typed, RoleInv, UNCHANGED server
    PROVE  AccountsTyped' /\ JudgedDemotes' /\ RoleInv'
  BY DEF server, overlap, Typed, AccountsTyped, JudgedDemotes, RoleInv, AnotherStays, RoleRemains,
     Administrators

\* AuthProvider keeps its user, or waits for him.
LEMMA DrawnTyped ==
    ASSUME Typed, Drawn, UNCHANGED <<cookie, alive>>
    PROVE  /\ AuthTyped' /\ emptied' = FALSE /\ user' \in {user, Unknown}
           /\ \A p : Guarded(p, user) = p => Guarded(p, user') = p
  <1>1. user' \in {user, Unknown} /\ emptied' = FALSE
    BY DEF Drawn
  <1>2. sock' \in {sock, None} /\ news' \in {news, 0}
    BY DEF Drawn, Dial
  <1>4. emptied' \in BOOLEAN
    BY Zenon DEF Drawn
  <1>3. AuthTyped'
    BY <1>1, <1>2, <1>4 DEF Typed, AuthTyped
  <1> QED
    BY <1>1, <1>3, Guards

LEMMA ActTyped ==
    ASSUME Typed, Act
    PROVE  AuthTyped' /\ PagesTyped' /\ AskedSound' /\ AnswersSound' /\ UNCHANGED server
  <1> USE DEF Typed
  <1>1. CASE UserOnly
    <2>1. AuthTyped' /\ AnswersSound' /\ UNCHANGED server
      BY <1>1 DEF UserOnly, AuthTyped, AnswersSound, auth
    <2>2. PagesTyped'
      BY <1>1 DEF UserOnly, UserAsks, UserOpens, UserTurns, PagesTyped, Guarded, Known, auth
    <2>3. AskedSound'
      BY <1>1, LoadSound DEF UserOnly, UserAsks, UserOpens, UserTurns, AuthTyped, AskedSound
    <2> QED BY <2>1, <2>2, <2>3
  <1>2. CASE SubmitLogin
    <2>1. \A a \in Accounts : Sound(Request("login", a, None))
      BY NamesDiffer DEF Sound, Request, Other
    <2>2. AskedSound' /\ AnswersSound'
      BY <1>2, <2>1, FoundSound DEF SubmitLogin, AskedSound, AnswersSound
    <2>3. AuthTyped'
      BY <1>2, DrawnTyped DEF SubmitLogin
    <2>4. PagesTyped' /\ UNCHANGED server
      BY <1>2, DrawnTyped DEF SubmitLogin, PagesTyped, view, data
    <2> QED BY <2>2, <2>3, <2>4
  <1>3. CASE ClickLogout
    <2>1. Sound(Request("logout", None, None))
      BY NamesDiffer DEF Sound, Request, Other
    <2>2. AskedSound' /\ AnswersSound'
      BY <1>3, <2>1, FoundSound DEF ClickLogout, AskedSound, AnswersSound
    <2>3. AuthTyped'
      BY <1>3, DrawnTyped DEF ClickLogout
    <2>4. PagesTyped' /\ UNCHANGED server
      BY <1>3, DrawnTyped DEF ClickLogout, Moving, PagesTyped, view, data
    <2> QED BY <2>2, <2>3, <2>4
  <1> QED
    BY <1>1, <1>2, <1>3, ActKinds

LEMMA ReceiveTyped ==
    ASSUME Typed, Receive
    PROVE  AuthTyped' /\ PagesTyped' /\ AskedSound' /\ AnswersSound' /\ UNCHANGED server
  <1> USE DEF Typed
  <1>a. ASSUME AskedSound', answered' \subseteq answered \cup Found
        PROVE  AskedSound' /\ AnswersSound'
    BY <1>a, FoundSound DEF AnswersSound
  <1>b. ASSUME NEW u, UNCHANGED <<cookie, alive>>, user' = u, emptied' \in BOOLEAN, Dial(u),
               u \in {None, Unknown} \cup Users
        PROVE  AuthTyped'
    BY <1>b DEF Dial, AuthTyped
  <1>1. CASE LearnMe
    <2>1. PICK m \in answered : /\ m.r.k = "me" /\ Learned(m)
                                /\ user' = IF m.ok THEN m.d ELSE None
                                /\ Dial(user') /\ page' = Guarded(page, user')
                                /\ IF page' = page THEN UNCHANGED tab ELSE Left
                                /\ UNCHANGED asked \/ Load(page', user', tab')
      BY <1>1 DEF LearnMe
    <2>2. user' \in {None, Unknown} \cup Users
      BY <2>1 DEF AnswersSound
    <2>3. AuthTyped'
      BY <1>1, <1>b, <2>1, <2>2 DEF LearnMe, AuthTyped
    <2>4. tab' \in Tabs
      BY <2>1 DEF PagesTyped, Left, Tabs
    <2>5. AskedSound' /\ AnswersSound'
      BY <1>a, <2>1, <2>2, <2>4, LoadSound DEF Learned, AskedSound
    <2>6. PagesTyped'
      BY <1>1, <2>1, <2>4 DEF LearnMe, PagesTyped, Guarded, Routes, counts
    <2> QED BY <1>1, <2>3, <2>5, <2>6 DEF LearnMe
  <1>2. CASE LearnQuery
    <2>1. AuthTyped' /\ AskedSound' /\ AnswersSound'
      BY <1>2, <1>a DEF LearnQuery, Learned, AuthTyped, AskedSound, auth
    <2>2. PagesTyped'
      BY <1>2 DEF LearnQuery, PagesTyped, Guarded, auth, view, counts
    <2> QED BY <1>2, <2>1, <2>2 DEF LearnQuery
  <1>3. CASE LearnLogin
    <2>1. PICK m \in answered : /\ m.r.k = "login" /\ Learned(m)
                                /\ IF m.ok
                                   THEN /\ user' = m.d /\ Dial(m.d) /\ page' = "lobby"
                                        /\ Load("lobby", m.d, tab)
                                   ELSE UNCHANGED <<user, sock, news, page, asked>>
      BY <1>3 DEF LearnLogin
    <2>2. m.ok => m.d \in Users
      BY <2>1 DEF AnswersSound
    <2>3. AuthTyped'
      BY <1>3, <1>b, <2>1, <2>2 DEF LearnLogin, AuthTyped
    <2>4. AskedSound' /\ AnswersSound'
      BY <1>a, <2>1, <2>2, LoadSound DEF Learned, AskedSound, PagesTyped
    <2>5. PagesTyped'
      BY <1>3, <2>1, <2>2, Guards DEF LearnLogin, PagesTyped, Routes, counts
    <2> QED BY <1>3, <2>3, <2>4, <2>5 DEF LearnLogin
  <1>4. CASE LearnLogout
    <2>1. PICK m \in answered :
            \/ /\ user' = Unknown /\ emptied' = FALSE /\ Dial(Unknown) /\ page' = "login" /\ Left
               /\ Clear(m, {Query("me")})
            \/ /\ Drawn /\ answered' = (answered \ {m}) \cup Found
               /\ UNCHANGED <<view, data, asked>>
      BY <1>4 DEF LearnLogout
    <2>2. AuthTyped'
      BY <1>4, <1>b, <2>1, DrawnTyped DEF LearnLogout
    <2>3. Clear(m, {Query("me")}) => AskedSound' /\ answered' \subseteq answered
      <3>1. {Query(k) : k \in {"me"}} = {Query("me")}
        OBVIOUS
      <3> QED BY <3>1, ClearSound
    <2>4. AskedSound' /\ AnswersSound'
      BY <1>a, <2>1, <2>3 DEF AskedSound
    <2>5. PagesTyped'
      BY <1>4, <2>1, Guards, DrawnTyped DEF LearnLogout, Clear, Left, PagesTyped, Routes, Tabs, view,
         data, counts
    <2> QED BY <1>4, <2>2, <2>4, <2>5 DEF LearnLogout
  <1>5. CASE LearnPassword
    <2>1. PICK m \in answered :
            \/ /\ page' = Guarded("login", user) /\ emptied' = TRUE
               /\ Clear(m, {Query(k) : k \in VisibleOf(page', user, tab)})
            \/ Learned(m) /\ UNCHANGED <<page, emptied, cache, asked>>
      BY <1>5 DEF LearnPassword, data
    <2>2. VisibleOf(page', user, tab) \subseteq Keys \cup {"me"}
      BY VisibleKeys DEF PagesTyped, AuthTyped
    <2>3. AskedSound' /\ AnswersSound'
      BY <1>a, <2>1, <2>2, ClearSound DEF Learned, AskedSound
    <2>4. AuthTyped'
      BY <1>5, <2>1 DEF LearnPassword, AuthTyped
    <2>5. PagesTyped'
      BY <1>5, <2>1 DEF LearnPassword, Clear, PagesTyped, Guarded, Routes, counts
    <2> QED BY <1>5, <2>3, <2>4, <2>5 DEF LearnPassword
  <1>6. CASE LearnChange
    <2>1. AskedSound' /\ AnswersSound'
      BY <1>6, <1>a, LearnSound DEF LearnChange
    <2>2. AuthTyped' /\ PagesTyped'
      BY <1>6 DEF LearnChange, AuthTyped, PagesTyped, Guarded, auth, view, counts
    <2> QED BY <1>6, <2>1, <2>2 DEF LearnChange
  <1>7. CASE LearnProfile
    <2>1. AskedSound' /\ AnswersSound'
      BY <1>7, <1>a, LearnSound DEF LearnProfile
    <2>2. AuthTyped'
      BY <1>7, DrawnTyped DEF LearnProfile, AuthTyped
    <2>3. PagesTyped'
      BY <1>7, DrawnTyped DEF LearnProfile, PagesTyped, counts
    <2> QED BY <1>7, <2>1, <2>2, <2>3 DEF LearnProfile
  <1>8. CASE LearnDialog
    <2>1. AskedSound' /\ AnswersSound'
      BY <1>8, <1>a, LearnSound DEF LearnDialog
    <2>2. AuthTyped' /\ PagesTyped'
      BY <1>8 DEF LearnDialog, AuthTyped, PagesTyped, Guarded, auth, counts
    <2> QED BY <1>8, <2>1, <2>2 DEF LearnDialog
  <1>9. CASE LearnRooms
    <2>1. AskedSound' /\ AnswersSound'
      BY <1>9, <1>a, InvalidateSound DEF LearnRooms, AskedSound
    <2>2. AuthTyped' /\ PagesTyped'
      BY <1>9 DEF LearnRooms, AuthTyped, PagesTyped, Guarded, view, counts
    <2> QED BY <1>9, <2>1, <2>2 DEF LearnRooms
  <1>10. CASE Reconnect
    BY <1>10 DEF Reconnect, Session, AuthTyped, PagesTyped, Guarded, AskedSound, AnswersSound, view,
       data, counts
  <1> QED
    BY <1>1, <1>2, <1>3, <1>4, <1>5, <1>6, <1>7, <1>8, <1>9, <1>10 DEF Receive

LEMMA ServeTyped ==
    ASSUME Typed, RoleInv, Serve
    PROVE  Typed'
  <1>1. AskedSound' /\ AnswersSound'
    BY ServeKinds, AnsweredSound DEF ServeNet, Typed, AskedSound, AnswersSound
  <1>2. PagesTyped'
    BY ServeKinds DEF ServeNet, Typed, PagesTyped, Guarded
  <1> QED
    BY <1>1, <1>2, ServeAuth, ServeKeepsRole DEF Typed

LEMMA TypedKept ==
    ASSUME Typed, RoleInv, [Next]_vars
    PROVE  Typed' /\ RoleInv'
  <1>1. CASE Act
    BY <1>1, ActTyped, ElsewhereKeepsRole DEF Typed
  <1>2. CASE Serve
    BY <1>2, ServeTyped, ServeKeepsRole
  <1>3. CASE Receive
    BY <1>3, ReceiveTyped, ElsewhereKeepsRole DEF Typed
  <1>4. CASE UNCHANGED vars
    BY <1>4, ElsewhereKeepsRole DEF vars, auth, view, data, counts, Typed, AuthTyped, PagesTyped,
       AskedSound, AnswersSound
  <1> QED
    BY <1>1, <1>2, <1>3, <1>4 DEF Next

LEMMA InitTyped ==
    ASSUME Init
    PROVE  Typed /\ RoleInv
  <1>1. AccountsTyped /\ Bootstrap \in Administrators
    BY SiteAssumption DEF Init, AccountsTyped, AccountRecord, Roles, Statuses, Account,
       Administrators
  <1>2. AskedSound /\ AnswersSound
    BY QuerySound DEF Init, AskedSound, AnswersSound, Query, Request
  <1>3. AuthTyped /\ PagesTyped
    BY Guards DEF Init, AuthTyped, PagesTyped, Tabs, Routes
  <1> QED
    BY <1>1, <1>2, <1>3 DEF Init, Typed, RoleInv, JudgedDemotes, AnotherStays, RoleRemains

LEMMA AlwaysTyped == Spec => [](Typed /\ RoleInv)
  BY InitTyped, TypedKept, PTL DEF Spec

-----------------------------------------------------------------------------
(***************************************************************************)
(* A query, the user and a login are under way once at most: a load that   *)
(* begins while another goes on takes its place or is not made.  The cache *)
(* is not emptied while the user is loaded.                                *)
(***************************************************************************)

Once ==
    /\ \A r, q \in asked : r.k = q.k => r = q \/ r.k \in Several
    /\ \A r \in asked, m \in answered : r.k = m.r.k => r.k \in Several
    /\ \A m, x \in answered : m.r.k = x.r.k => m = x \/ m.r.k \in Several
    /\ emptied => ~InFlight("me")

LEMMA FlightIs ==
    ASSUME NEW k
    PROVE  /\ InFlight(k) <=> (\E r \in asked : r.k = k) \/ (\E m \in answered : m.r.k = k)
           /\ InFlight(k)' <=> (\E r \in asked' : r.k = k) \/ (\E m \in answered' : m.r.k = k)
  BY DEF InFlight

LEMMA KindsOf ==
    /\ Several \cap (Keys \cup {"me", "login"}) = {} /\ "me" \notin Keys /\ "login" \notin Keys
    /\ \A k : Query(k).k = k
  BY NamesDiffer DEF Several, Other, Query, Request

\* What is loaded, and why something drawn is not.
LEMMA LoadIs ==
    ASSUME NEW p, NEW u, NEW t, Load(p, u, t)
    PROVE  \E new \in SUBSET VisibleOf(p, u, t) :
             /\ asked' = asked \cup {Query(k) : k \in new} /\ missed' = missed \ new
             /\ \A k \in new : ~InFlight(k)
             /\ \A k \in VisibleOf(p, u, t) \ new :
                  k \in Visible \/ InFlight(k) \/ (k \in Accounts /\ cache[k] # None /\ k \notin stale)
  <1> DEFINE begins == (VisibleOf(p, u, t) \ Visible)
                       \cup (IF p = "profile" /\ page # p THEN {u.a} ELSE {})
             new    == {k \in begins \cap VisibleOf(p, u, t) :
                         /\ ~InFlight(k)
                         /\ k \notin Accounts \/ p = "profile" \/ cache[k] = None \/ k \in stale}
  <1>1. asked' = asked \cup {Query(k) : k \in new} /\ missed' = missed \ new
    BY DEF Load
  <1>2. new \in SUBSET VisibleOf(p, u, t) /\ \A k \in new : ~InFlight(k)
    OBVIOUS
  <1>3. \A k \in VisibleOf(p, u, t) \ new :
           k \in Visible \/ InFlight(k) \/ (k \in Accounts /\ cache[k] # None /\ k \notin stale)
    OBVIOUS
  <1> HIDE DEF new
  <1> QED
    BY <1>1, <1>2, <1>3

\* What is loaded again, and what is missed.
LEMMA InvalidateIs ==
    ASSUME NEW ks, NEW done, Invalidate(ks, done)
    PROVE  \E again \in SUBSET (ks \cap (Visible \cup {"me"})) :
             /\ asked' = {r \in asked : r.k \notin again} \cup {Query(k) : k \in again}
             /\ answered' = {x \in answered \ done : x.r.k \notin again}
             /\ missed \ again \subseteq missed' /\ stale' = stale \cup (ks \cap Accounts)
             /\ \A k \in ks \ again : /\ k \in Visible \ {"me"} => k \in missed'
                                      /\ InFlight(k) /\ k # "me" => k \in missed'
             /\ "me" \in ks \ again => user = Unknown
  <1> DEFINE goesOn == {k \in ks : InFlight(k) /\ IF k = "me" THEN user = Unknown
                                                   ELSE k \notin Visible \/ cache[k] = None}
             again  == (ks \cap (Visible \cup {"me"})) \ goesOn
  <1>1. /\ asked' = {r \in asked : r.k \notin again} \cup {Query(k) : k \in again}
        /\ answered' = {x \in answered \ done : x.r.k \notin again}
        /\ missed' = (missed \ again) \cup (goesOn \ {"me"}) /\ stale' = stale \cup (ks \cap Accounts)
    BY DEF Invalidate
  <1> QED
    BY <1>1

LEMMA OnceLoad ==
    ASSUME Typed, Once, NEW p, NEW u \in {None, Unknown} \cup Users, NEW t \in Tabs, Load(p, u, t),
           answered' \subseteq answered, emptied' = emptied
    PROVE  Once'
  <1>1. PICK new \in SUBSET Keys : /\ asked' = asked \cup {Query(k) : k \in new}
                                   /\ \A k \in new : ~InFlight(k)
    <2>1. VisibleOf(p, u, t) \subseteq Keys
      BY VisibleKeys
    <2> QED BY <2>1, LoadIs
  <1>2. \A r \in asked' : r \in asked \/ (r = Query(r.k) /\ r.k \in Keys /\ ~InFlight(r.k))
    BY <1>1, KindsOf
  <1>3. \A r \in asked' : r.k = "me" => r \in asked
    BY <1>2, KindsOf
  <1>4. \A r, q \in asked' : r.k = q.k => r = q \/ r.k \in Several
    BY <1>2, FlightIs DEF Once
  <1>5. \A r \in asked', m \in answered' : r.k = m.r.k => r.k \in Several
    BY <1>2, FlightIs DEF Once
  <1> QED
    BY <1>3, <1>4, <1>5, FlightIs DEF Once

LEMMA OnceInvalidate ==
    ASSUME Typed, Once, NEW ks, NEW done, Invalidate(ks, done),
           emptied' => emptied /\ "me" \notin ks
    PROVE  Once'
  <1>1. PICK again \in SUBSET (Keys \cup {"me"}) :
          /\ again \subseteq ks
          /\ asked' = {r \in asked : r.k \notin again} \cup {Query(k) : k \in again}
          /\ answered' = {x \in answered \ done : x.r.k \notin again}
    <2>1. Visible \subseteq Keys
      BY VisibleKeys DEF Visible, Typed, AuthTyped, PagesTyped
    <2> QED BY <2>1, InvalidateIs
  <1>2. \A r \in asked' : (r \in asked /\ r.k \notin again) \/ (r = Query(r.k) /\ r.k \in again)
    BY <1>1, KindsOf
  <1>3. \A r, q \in asked' : r.k = q.k => r = q \/ r.k \in Several
    BY <1>2 DEF Once
  <1>4. \A r \in asked', x \in answered' : r.k = x.r.k => r.k \in Several
    BY <1>1, <1>2 DEF Once
  <1>5. emptied' => ~InFlight("me")'
    BY <1>1, <1>2, FlightIs DEF Once
  <1> QED
    BY <1>1, <1>3, <1>4, <1>5 DEF Once

LEMMA OnceClear ==
    ASSUME Typed, Once, NEW m, NEW ks \in SUBSET (Keys \cup {"me"}), Clear(m, {Query(k) : k \in ks}),
           emptied' => "me" \notin ks
    PROVE  Once'
  <1>1. \A r \in asked' : (r \in asked /\ r.k \notin Keys \cup {"me"}) \/ (r = Query(r.k) /\ r.k \in ks)
    BY KindsOf DEF Clear
  <1>2. \A x \in answered' : x \in answered /\ x.r.k \notin Keys \cup {"me"}
    BY DEF Clear
  <1>3. \A r, q \in asked' : r.k = q.k => r = q \/ r.k \in Several
    BY <1>1 DEF Once
  <1>4. emptied' => ~InFlight("me")'
    BY <1>1, <1>2, FlightIs
  <1> QED
    BY <1>1, <1>2, <1>3, <1>4 DEF Once

\* Answers that are learned, and the one AuthProvider finds in an emptied cache.
LEMMA OnceLess ==
    ASSUME Once, asked' \subseteq asked, answered' \subseteq answered, emptied' => emptied
    PROVE  Once'
  BY FlightIs DEF Once

LEMMA OnceFound ==
    ASSUME Typed, Once, asked' = asked, answered' \subseteq answered \cup Found, emptied' = FALSE
    PROVE  Once'
  <1>1. \A x \in answered' : x \in answered \/ (x \in Found /\ x.r.k = "me" /\ ~InFlight("me"))
    BY FoundSound DEF Once, Found
  <1>2. \A x, y \in Found : x = y
    BY DEF Found
  <1>3. \A r \in asked', m \in answered' : r.k = m.r.k => r.k \in Several
    BY <1>1, FlightIs DEF Once
  <1>4. \A m, x \in answered' : m.r.k = x.r.k => m = x \/ m.r.k \in Several
    BY <1>1, <1>2, FlightIs DEF Once
  <1> QED
    BY <1>3, <1>4 DEF Once

LEMMA OnceAnswered ==
    ASSUME Once, NEW r \in asked, NEW ok, NEW d, Answered(r, ok, d), emptied' = emptied
    PROVE  Once'
  <1>1. \A x \in answered' : x \in answered \/ x.r = r
    BY DEF Answered
  <1>2. \A x, y \in answered' : x.r.k = y.r.k => x = y \/ x.r.k \in Several
    BY DEF Answered, Once
  <1>3. emptied => ~InFlight("me")'
    BY <1>1, FlightIs DEF Once, Answered
  <1>4. \A q \in asked', x \in answered' : q.k = x.r.k => q.k \in Several
    BY <1>1 DEF Answered, Once
  <1> QED
    BY <1>2, <1>3, <1>4 DEF Answered, Once

LEMMA OnceAsk ==
    ASSUME Typed, Once, NEW r, r.k \in Several, asked' = asked \cup {r}, UNCHANGED <<answered, emptied>>
    PROVE  Once'
  BY FlightIs, KindsOf DEF Once

\* What a success makes stale: queries, and the user with a new name.
Mutations == {"status", "role", "reset", "create", "close", "void", "name"}

LEMMA StaleKeys ==
    ASSUME NEW r, Sound(r), r.k \in Mutations
    PROVE  /\ Stale(r) \subseteq Keys \cup {"me"} /\ ("me" \in Stale(r) => r.k = "name")
           /\ r.k = "name" => Stale(r) = {r.a, "me"}
           /\ "lobby" \notin Stale(r)
  <1>1. Tabs \subseteq Keys /\ "me" \notin Keys /\ "lobby" \notin Accounts /\ "lobby" \notin Tabs
    BY KindsOf, NamesDiffer DEF Keys, Tabs
  <1>2. CASE r.k = "name"
    BY <1>1, <1>2 DEF Stale, Sound, Keys
  <1>3. CASE r.k # "name"
    <2>1. Stale(r) \subseteq Tabs
      BY <1>3 DEF Stale, Tabs, Mutations
    <2> QED BY <1>1, <1>3, <2>1
  <1> QED
    BY <1>2, <1>3

LEMMA OnceLearn ==
    ASSUME Typed, Once, NEW m \in answered, m.r.k \in Mutations, Learn(m),
           emptied' => emptied, m.ok /\ m.r.k = "name" => ~emptied'
    PROVE  Once'
  <1>1. CASE ~m.ok
    BY <1>1, OnceLess DEF Learn, Learned
  <1>2. CASE m.ok
    <2>1. Sound(m.r)
      BY DEF Typed, AnswersSound
    <2>2. emptied' => "me" \notin Stale(m.r)
      BY <1>2, <2>1, StaleKeys
    <2> QED BY <1>2, <2>2, OnceInvalidate DEF Learn
  <1> QED
    BY <1>1, <1>2

LEMMA OnceKept ==
    ASSUME Typed, Once, [Next]_vars
    PROVE  Once'
  <1>1. CASE SubmitLogin
    <2>1. PICK a \in Accounts : asked' = {Request("login", a, None)}
      BY <1>1 DEF SubmitLogin
    <2>2. answered' = Found /\ emptied' = FALSE
      BY <1>1 DEF SubmitLogin, Drawn
    <2>3. \A x, y \in Found : x = y
      BY DEF Found
    <2>4. \A r \in asked', x \in Found : r.k = "login" /\ x.r.k = "me"
      BY <2>1, FoundSound DEF Request
    <2> QED BY <2>1, <2>2, <2>3, <2>4 DEF Once
  <1>2. CASE ClickLogout
    <2> DEFINE r == Request("logout", None, None)
    <2>1. r.k \in Several
      BY DEF Request, Several, Other
    <2>2. asked' = asked \cup {r} /\ answered' = answered \cup Found /\ emptied' = FALSE
      BY <1>2 DEF ClickLogout, Drawn
    <2>3. \A x \in answered' : x \in answered \/ (x \in Found /\ x.r.k = "me" /\ ~InFlight("me"))
      BY <2>2, FoundSound DEF Once, Found
    <2>4. \A x, y \in Found : x = y
      BY DEF Found
    <2>5. \A q \in asked', x \in answered' : q.k = x.r.k => q.k \in Several
      BY <2>1, <2>2, <2>3, FlightIs DEF Once
    <2>6. \A x, y \in answered' : x.r.k = y.r.k => x = y \/ x.r.k \in Several
      BY <2>2, <2>3, <2>4, FlightIs DEF Once
    <2>7. \A q, y \in asked' : q.k = y.k => q = y \/ q.k \in Several
      BY <2>1, <2>2 DEF Once
    <2> QED BY <2>2, <2>5, <2>6, <2>7 DEF Once
  <1>3. CASE UserOnly
    <2>1. answered' = answered /\ emptied' = emptied /\ tab' \in Tabs
      BY <1>3 DEF UserOnly, auth
    <2>2. CASE UserAsks
      BY <2>1, <2>2, OnceAsk DEF UserAsks
    <2>3. CASE UserOpens
      BY <2>1, <2>3, OnceLoad DEF UserOpens, Typed, AuthTyped
    <2>4. CASE UserTurns
      BY <2>1, <2>4, OnceLess DEF UserTurns
    <2> QED BY <1>3, <2>2, <2>3, <2>4 DEF UserOnly
  <1>4. CASE Serve
    <2>1. ServeNet
      BY <1>4, ServeKinds
    <2> QED BY <2>1, OnceAnswered, OnceLess DEF ServeNet
  <1>5. CASE LearnMe
    <2>1. PICK m \in answered : /\ Learned(m) /\ user' \in {None, Unknown} \cup Users
                                /\ UNCHANGED asked \/ Load(page', user', tab')
      <3>1. AuthTyped'
        BY <1>5, ReceiveTyped DEF Receive
      <3> QED BY <1>5, <3>1 DEF LearnMe, AuthTyped
    <2>2. tab' \in Tabs
      BY <1>5, ReceiveTyped DEF Receive, PagesTyped
    <2> QED BY <1>5, <2>1, <2>2, OnceLoad, OnceLess DEF LearnMe, Learned
  <1>6. CASE LearnQuery
    BY <1>6, OnceLess DEF LearnQuery, Learned, auth
  <1>7. CASE LearnLogin
    <2>1. PICK m \in answered : /\ Learned(m) /\ m.r.k = "login"
                                /\ UNCHANGED asked \/ (m.ok /\ Load("lobby", m.d, tab))
      BY <1>7 DEF LearnLogin
    <2>2. m.ok => m.d \in Users
      BY <2>1 DEF Typed, AnswersSound
    <2>3. tab \in Tabs
      BY DEF Typed, PagesTyped
    <2> QED BY <1>7, <2>1, <2>2, <2>3, OnceLoad, OnceLess DEF LearnLogin, Learned
  <1>8. CASE LearnLogout
    <2>1. PICK m \in answered :
            \/ emptied' = FALSE /\ Clear(m, {Query("me")})
            \/ /\ Drawn /\ answered' = (answered \ {m}) \cup Found
               /\ UNCHANGED asked
      BY <1>8 DEF LearnLogout
    <2>2. {Query(k) : k \in {"me"}} = {Query("me")}
      OBVIOUS
    <2> QED BY <2>1, <2>2, OnceClear, OnceFound DEF Drawn
  <1>9. CASE LearnPassword
    <2>1. PICK m \in answered :
            \/ emptied' = TRUE /\ Clear(m, {Query(k) : k \in VisibleOf(page', user, tab)})
            \/ Learned(m) /\ UNCHANGED <<emptied, asked>>
      BY <1>9 DEF LearnPassword
    <2>2. VisibleOf(page', user, tab) \subseteq Keys /\ "me" \notin Keys
      BY VisibleKeys, KindsOf DEF Typed, AuthTyped, PagesTyped
    <2> QED BY <2>1, <2>2, OnceClear, OnceLess DEF Learned
  <1>10. CASE LearnChange
    BY <1>10, OnceLearn DEF LearnChange, Mutations, auth
  <1>11. CASE LearnProfile
    BY <1>11, OnceLearn DEF LearnProfile, Mutations, Drawn
  <1>12. CASE LearnDialog
    BY <1>12, OnceLearn DEF LearnDialog, Mutations, auth
  <1>13. CASE LearnRooms
    BY <1>13, OnceInvalidate, OnceLess DEF LearnRooms
  <1>14. CASE Reconnect \/ UNCHANGED vars
    BY <1>14, OnceLess DEF Reconnect, vars, auth
  <1> QED
    BY ActKinds, <1>1, <1>2, <1>3, <1>4, <1>5, <1>6, <1>7, <1>8, <1>9, <1>10, <1>11, <1>12,
       <1>13, <1>14 DEF Next, Receive

-----------------------------------------------------------------------------
(***************************************************************************)
(* The session of the browser and the user the tab shows may differ: the   *)
(* cookie goes when the server handles a request and the user when the     *)
(* answer comes.  They never belong to two accounts.  A login is under way *)
(* only when nobody is signed in and nothing else is asked; while a cookie *)
(* is there it is the one of the user, and of every answer that names one. *)
(***************************************************************************)

LoginAlone ==
    InFlight("login") =>
        /\ ~Known
        /\ \A r \in asked : r.k = "login"
        /\ \A m \in answered : m.r.k = "login" \/ (m.r.k = "me" /\ ~m.ok)

LoggedIn == \E m \in answered : m.r.k = "login" /\ m.ok

AliveIsActive == alive => cookie # None /\ acct[cookie].status = "active"
EmptiedIsOver == emptied => Session = None /\ ~InFlight("login")
SignedOutHasNoSocket == ~Known => sock = None /\ news = 0
UnknownWaits ==
    user = Unknown =>
        /\ Session = None \/ LoggedIn
        /\ \A m \in answered : m.r.k = "me" => ~m.ok
CookieIsUsers == Known /\ cookie # None => cookie = user.a
CookieIsAnswered ==
    /\ \A m \in answered : m.r.k \in {"me", "login"} /\ m.ok => cookie \in {None, m.d.a}
    /\ \A m \in answered : m.r.k \in {"logout", "password"} /\ m.ok => cookie = None
    /\ \A m \in answered : m.r.k = "name" => cookie \in {None, m.r.a}
    /\ \A r \in asked : r.k = "name" => cookie \in {None, r.a}

Sessions == /\ AliveIsActive /\ EmptiedIsOver /\ SignedOutHasNoSocket
            /\ UnknownWaits /\ CookieIsUsers /\ CookieIsAnswered

LEMMA KnownUsers ==
    ASSUME AuthTyped
    PROVE  /\ Known <=> user \in Users
           /\ Known => user.a \in Accounts /\ user # None /\ user # Unknown
  BY NamesDiffer DEF AuthTyped, Known, Users

\* What an answer that reaches the tab does to what is under way.
LEMMA ReceiveFlight ==
    ASSUME Typed, Receive
    PROVE  /\ \A r \in asked' : r \in asked \/ (r = Query(r.k) /\ r.k \in Keys \cup {"me"})
           /\ answered' \subseteq answered \cup Found
  <1> USE DEF Typed
  <1> DEFINE Adds == \A r \in asked' : r \in asked \/ (r = Query(r.k) /\ r.k \in Keys \cup {"me"})
  <1>a. ASSUME NEW p, NEW u \in {None, Unknown} \cup Users, NEW t \in Tabs, Load(p, u, t) PROVE Adds
    BY <1>a, VisibleKeys, LoadIs, KindsOf
  <1>b. ASSUME NEW ks, NEW done, Invalidate(ks, done) PROVE Adds /\ answered' \subseteq answered
    <2>1. Visible \subseteq Keys
      BY VisibleKeys DEF AuthTyped, PagesTyped, Visible
    <2>2. PICK again \in SUBSET (ks \cap (Visible \cup {"me"})) :
            /\ asked' = {r \in asked : r.k \notin again} \cup {Query(k) : k \in again}
            /\ answered' = {x \in answered \ done : x.r.k \notin again}
      BY <1>b, InvalidateIs
    <2> QED BY <2>1, <2>2, KindsOf
  <1>c. ASSUME NEW m, Learn(m) PROVE Adds /\ answered' \subseteq answered
    BY <1>c, <1>b DEF Learn, Learned
  <1>d. ASSUME NEW m, NEW ks \in SUBSET (Keys \cup {"me"}), Clear(m, {Query(k) : k \in ks})
        PROVE Adds /\ answered' \subseteq answered
    BY <1>d, KindsOf DEF Clear
  <1>1. CASE LearnMe
    <2>1. user' \in {None, Unknown} \cup Users /\ tab' \in Tabs
      BY <1>1, ReceiveTyped DEF Receive, AuthTyped, PagesTyped
    <2> QED BY <1>1, <2>1, <1>a DEF LearnMe, Learned
  <1>2. CASE LearnLogin
    <2>1. PICK m \in answered : /\ Learned(m) /\ m.r.k = "login"
                                /\ UNCHANGED asked \/ (m.ok /\ Load("lobby", m.d, tab))
      BY <1>2 DEF LearnLogin
    <2>2. m.ok => m.d \in Users
      BY <2>1 DEF AnswersSound
    <2> QED BY <2>1, <2>2, <1>a DEF Learned, PagesTyped
  <1>3. CASE LearnLogout
    <2>1. {Query(k) : k \in {"me"}} = {Query("me")}
      OBVIOUS
    <2>2. PICK m \in answered : \/ Clear(m, {Query("me")})
                                \/ answered' = (answered \ {m}) \cup Found /\ UNCHANGED asked
      BY <1>3 DEF LearnLogout
    <2> QED BY <2>1, <2>2, <1>d
  <1>4. CASE LearnPassword
    <2>1. VisibleOf(page', user, tab) \subseteq Keys
      BY VisibleKeys DEF AuthTyped, PagesTyped
    <2>2. PICK m \in answered : \/ Clear(m, {Query(k) : k \in VisibleOf(page', user, tab)})
                                \/ Learned(m) /\ UNCHANGED asked
      BY <1>4 DEF LearnPassword
    <2> QED BY <2>1, <2>2, <1>d DEF Learned
  <1>5. CASE LearnRooms
    BY <1>5, <1>b DEF LearnRooms
  <1>6. CASE LearnQuery \/ Reconnect
    BY <1>6 DEF LearnQuery, Learned, Reconnect
  <1>7. CASE LearnChange \/ LearnProfile \/ LearnDialog
    BY <1>7, <1>c DEF LearnChange, LearnProfile, LearnDialog
  <1> QED
    BY <1>1, <1>2, <1>3, <1>4, <1>5, <1>6, <1>7 DEF Receive

LEMMA AnsweredIs ==
    ASSUME NEW r, NEW ok, NEW d, Answered(r, ok, d)
    PROVE  /\ answered \subseteq answered'
           /\ \E m \in answered' : m.r = r /\ m.ok = ok /\ m.d = d
  <1>1. [r |-> r, ok |-> ok, d |-> d] \in answered' /\ answered \subseteq answered'
    BY DEF Answered
  <1> QED
    BY <1>1

\* AuthProvider keeps its user and his socket, or forgets both.
LEMMA DrawnIs ==
    ASSUME Typed, SignedOutHasNoSocket, Drawn
    PROVE  /\ emptied' = FALSE /\ elsewhere \subseteq elsewhere'
           /\ \/ ~emptied /\ Found = {} /\ UNCHANGED <<user, sock, news, elsewhere>>
              \/ emptied /\ user' = Unknown /\ sock' = None /\ news' = 0
  BY DEF Drawn, Dial, Found, SignedOutHasNoSocket, Known, Typed, AuthTyped

\* While no login is under way, what is learned of other requests leaves the
\* sessions as they are.
Others == ~InFlight("login") /\ \A r \in asked' : r \in asked \/ r.k \notin {"login", "name"}

LEMMA SessionsLearned ==
    ASSUME Sessions, Others, UNCHANGED <<acct, cookie, alive, sock, user, emptied>>,
           ~Known => news' = 0, answered' \subseteq answered
    PROVE  LoginAlone' /\ Sessions'
  <1>1. ~InFlight("login")' /\ ~LoggedIn
    BY FlightIs DEF Others, LoggedIn
  <1>2. LoginAlone'
    BY <1>1 DEF LoginAlone
  <1>3. AliveIsActive' /\ EmptiedIsOver' /\ SignedOutHasNoSocket' /\ CookieIsUsers'
    BY <1>1 DEF Sessions, AliveIsActive, EmptiedIsOver, SignedOutHasNoSocket, CookieIsUsers, Session,
       Known
  <1>4. UnknownWaits' /\ CookieIsAnswered'
    BY <1>1 DEF Sessions, UnknownWaits, CookieIsAnswered, Others, Session
  <1> QED
    BY <1>2, <1>3, <1>4 DEF Sessions

LEMMA SessionsDrawn ==
    ASSUME Typed, Once, Sessions, Drawn, Others, UNCHANGED <<acct, cookie, alive>>,
           answered' \subseteq answered \cup Found
    PROVE  LoginAlone' /\ Sessions'
  <1>1. CASE ~emptied /\ Found = {} /\ UNCHANGED <<user, sock, news>>
    <2>1. emptied' = emptied
      BY <1>1 DEF Drawn, Typed, AuthTyped
    <2>2. ~Known => news' = 0
      BY <1>1 DEF Sessions, SignedOutHasNoSocket
    <2> QED BY <1>1, <2>1, <2>2, SessionsLearned
  <1>2. CASE emptied /\ user' = Unknown /\ sock' = None /\ news' = 0 /\ emptied' = FALSE
    <2>1. ~InFlight("login")' /\ ~LoggedIn
      BY FlightIs, FoundSound DEF Others, LoggedIn
    <2>2. LoginAlone'
      BY <2>1 DEF LoginAlone
    <2>3. ~Known'
      BY <1>2 DEF Known
    <2>4. AliveIsActive' /\ EmptiedIsOver' /\ SignedOutHasNoSocket' /\ CookieIsUsers'
      BY <1>2, <2>3 DEF Sessions, AliveIsActive, EmptiedIsOver, SignedOutHasNoSocket, CookieIsUsers
    <2>5. \A m \in answered' : m \in answered \/ (m.r.k = "me" /\ ~m.ok)
      BY FoundSound
    <2>6. \A m \in answered : m.r.k # "me"
      BY <1>2, FlightIs DEF Once
    <2>7. UnknownWaits'
      BY <1>2, <2>5, <2>6 DEF Sessions, UnknownWaits, EmptiedIsOver, Session
    <2>8. CookieIsAnswered'
      BY <2>5 DEF Sessions, CookieIsAnswered, Others
    <2> QED BY <2>2, <2>4, <2>7, <2>8 DEF Sessions
  <1> QED
    BY <1>1, <1>2, DrawnIs DEF Sessions

LEMMA SessionsAct ==
    ASSUME Typed, Once, LoginAlone, Sessions, Act
    PROVE  LoginAlone' /\ Sessions'
  <1>1. CASE SubmitLogin
    <2>1. PICK a \in Accounts : asked' = {Request("login", a, None)}
      BY <1>1 DEF SubmitLogin
    <2>2. /\ answered' = Found /\ Drawn /\ UNCHANGED <<acct, cookie, alive>>
          /\ Screen = "login" /\ answered = {}
      BY <1>1 DEF SubmitLogin, server
    <2>3. user = None
      BY <2>2, Guards, KnownUsers DEF Screen, ScreenOf, Typed, AuthTyped, PagesTyped, Known
    <2>4. ~Known' /\ sock' = None /\ news' = 0 /\ emptied' = FALSE
          /\ (user' = Unknown => Session' = None)
      BY <2>2, <2>3, DrawnIs, NamesDiffer DEF Sessions, SignedOutHasNoSocket, EmptiedIsOver, Known,
         Session
    <2>5. \A m \in answered' : m.r.k = "me" /\ ~m.ok
      BY <2>2, FoundSound
    <2>6. \A r \in asked' : r.k = "login"
      BY <2>1 DEF Request
    <2>7. LoginAlone' /\ UnknownWaits' /\ CookieIsAnswered'
      BY <2>4, <2>5, <2>6 DEF LoginAlone, UnknownWaits, CookieIsAnswered
    <2>8. AliveIsActive' /\ EmptiedIsOver' /\ SignedOutHasNoSocket' /\ CookieIsUsers'
      BY <2>2, <2>4 DEF Sessions, AliveIsActive, EmptiedIsOver, SignedOutHasNoSocket, CookieIsUsers
    <2> QED BY <2>7, <2>8 DEF Sessions
  <1>2. CASE ClickLogout
    <2>1. Others
      BY <1>2 DEF ClickLogout, LoginAlone, Others, Request
    <2> QED BY <1>2, <2>1, SessionsDrawn DEF ClickLogout, server
  <1>3. CASE UserOnly
    <2>1. UNCHANGED <<acct, cookie, alive, sock, news, user, emptied, answered>>
      BY <1>3 DEF UserOnly, server, auth
    <2>2. CASE UserTurns
      BY <2>1, <2>2 DEF UserTurns, LoginAlone, Sessions, AliveIsActive, EmptiedIsOver,
         SignedOutHasNoSocket, UnknownWaits, CookieIsUsers, CookieIsAnswered, InFlight, Known,
         Session, LoggedIn
    <2>3. CASE UserOpens
      <3>1. VisibleOf(page', user, tab') \subseteq Keys
        BY <1>3, VisibleKeys DEF UserOnly, Typed, AuthTyped
      <3>2. \A r \in asked' : r \in asked \/ r.k \in Keys
        BY <2>3, <3>1, LoadIs, KindsOf DEF UserOpens
      <3>3. Others
        BY <2>3, <3>2, NamesDiffer DEF UserOpens, LoginAlone, Others, Other
      <3> QED BY <2>1, <3>3, SessionsLearned DEF Sessions, SignedOutHasNoSocket
    <2>4. CASE UserAsks
      <3>1. PICK r : /\ r.k \in Several /\ (r.k = "name" => r.a = user.a)
                     /\ asked' = asked \cup {r} /\ Known
        BY <2>4 DEF UserAsks
      <3>2. ~InFlight("login") /\ ~InFlight("login")' /\ ~LoggedIn
        BY <2>1, <3>1, FlightIs DEF LoginAlone, Several, LoggedIn
      <3>3. LoginAlone' /\ AliveIsActive' /\ EmptiedIsOver' /\ SignedOutHasNoSocket'
            /\ CookieIsUsers'
        BY <2>1, <3>2 DEF Sessions, LoginAlone, AliveIsActive, EmptiedIsOver,
           SignedOutHasNoSocket, CookieIsUsers, Session, Known
      <3>4. UnknownWaits'
        BY <2>1, <3>1 DEF Known, UnknownWaits
      <3>5. CookieIsAnswered'
        BY <2>1, <3>1 DEF Sessions, CookieIsUsers, CookieIsAnswered
      <3> QED BY <3>3, <3>4, <3>5 DEF Sessions
    <2> QED BY <1>3, <2>2, <2>3, <2>4 DEF UserOnly
  <1> QED
    BY <1>1, <1>2, <1>3, ActKinds

\* What the server does to the session: nothing, a login, its end, or what a
\* change of an account does.
SessionStays == UNCHANGED <<cookie, alive, sock>>
SessionEnds  == cookie' = None /\ alive' = FALSE /\ sock' = sock
AccountsStay == \A a \in Accounts : acct[a].status = "active" => acct'[a].status = "active"
SocketHears  == news' = news \/ (sock # None /\ news' \in Nat)
SessionChanges ==
    \E a, k, v : acct' = Changed(a, k, v) /\ Change(a, k, v) /\ k \in {"status", "role", "reset"}
                 /\ (k = "role" => v \in Roles) /\ (k = "status" => v \in Statuses)

ServeSession == SocketHears /\ ((SessionStays /\ AccountsStay) \/ SessionChanges)

ServeOthers ==
    \/ ServeMe \/ ServeQuery \/ ServeProfile \/ ServeChange \/ ServeCreate \/ ServeCloseRoom
    \/ ServeVoidMatch \/ OtherChanges \/ OtherAsks \/ OtherFinishes \/ OtherPlays

LEMMA ServeSessions ==
    ASSUME Typed, ServeOthers
    PROVE  ServeSession
  <1> USE DEF Typed
  <1>a. ASSUME UNCHANGED <<acct, auth>> PROVE ServeSession
    BY <1>a DEF ServeSession, SocketHears, SessionStays, AccountsStay, auth
  <1>b. ASSUME NEW also, Announce(also), UNCHANGED acct PROVE ServeSession
    BY <1>b DEF Announce, ServeSession, SocketHears, SessionStays, AccountsStay, AuthTyped
  <1>1. CASE ServeMe \/ ServeQuery \/ ServeVoidMatch \/ OtherAsks
    BY <1>1, <1>a DEF ServeMe, ServeQuery, ServeVoidMatch, OtherAsks, server
  <1>2. CASE ServeProfile
    <2>1. AccountsStay
      BY <1>2 DEF ServeProfile, AccountsStay, AccountsTyped
    <2> QED BY <1>2, <2>1 DEF ServeProfile, ServeSession, SocketHears, SessionStays, auth
  <1>3. CASE ServeCreate
    <2>1. AccountsStay
      BY <1>3 DEF ServeCreate, AccountsStay, AccountsTyped, Account
    <2> QED BY <1>3, <2>1 DEF ServeCreate, ServeSession, SocketHears, SessionStays, auth
  <1>4. CASE ServeCloseRoom
    BY <1>4, <1>a, <1>b DEF ServeCloseRoom
  <1>5. CASE OtherPlays
    BY <1>5, <1>b DEF OtherPlays
  <1>6. CASE ServeChange
    <2>1. PICK r \in asked : /\ r.k \in {"status", "role", "reset"}
                             /\ \/ Change(r.a, r.k, r.v) \/ UNCHANGED <<acct, auth>>
      BY <1>6 DEF ServeChange
    <2>2. (r.k = "status" => r.v \in Statuses) /\ (r.k = "role" => r.v \in Roles)
      BY DEF AskedSound, Sound
    <2> QED BY <2>1, <2>2, <1>a DEF Change, ServeSession, SessionChanges, SocketHears
  <1>7. CASE OtherChanges
    <2>1. ASSUME NEW a, NEW k \in {"status", "role", "reset"},
                 NEW v \in {"active", "disabled", "deleted", "administrator", "player"},
                 k = "status" <=> v \in {"active", "disabled", "deleted"}, Change(a, k, v)
          PROVE  ServeSession
      <3>1. (k = "status" => v \in Statuses) /\ (k = "role" => v \in Roles)
        BY <2>1 DEF Statuses, Roles
      <3> QED BY <2>1, <3>1 DEF Change, ServeSession, SessionChanges, SocketHears
    <2> QED BY <1>7, <2>1 DEF OtherChanges
  <1>8. CASE OtherFinishes
    <2>1. PICK a \in Accounts : judged = Request("role", a, "player")
      BY <1>8 DEF OtherFinishes, JudgedDemotes
    <2>2. Change(a, "role", "player")
      BY <1>8, <2>1 DEF OtherFinishes, Request
    <2> QED BY <2>2 DEF Change, ServeSession, SessionChanges, SocketHears, Roles
  <1> QED
    BY <1>1, <1>2, <1>3, <1>4, <1>5, <1>6, <1>7, <1>8 DEF ServeOthers

\* A change of the account of the session ends it, unless it stays active.
LEMMA ChangeSessions ==
    ASSUME AccountsTyped, AuthTyped, AliveIsActive, NEW a, NEW k \in {"status", "role", "reset"}, NEW v,
           Change(a, k, v)
    PROVE  /\ AliveIsActive' /\ cookie' = cookie /\ (alive' => alive)
           /\ sock' \in {sock, None}
           /\ sock' # None => \A b \in Accounts : b = sock => acct'[b] = acct[b]
                                                  /\ (cookie = b => alive' = alive)
  <1>1. \A b \in Accounts : b # a => acct'[b] = acct[b]
    BY DEF Change, Changed, AccountsTyped
  <1>2. alive' => alive /\ acct'[cookie].status = "active"
    <2>1. CASE k = "status"
      BY <2>1, <1>1 DEF Change, Changed, AccountsTyped, AccountRecord, AliveIsActive, AuthTyped
    <2>2. CASE k # "status"
      BY <2>2, <1>1 DEF Change, Changed, AccountsTyped, AccountRecord, AliveIsActive, AuthTyped
    <2> QED BY <2>1, <2>2
  <1>3. cookie' = cookie /\ sock' \in {sock, None} /\ (sock' # None => sock # a)
    BY DEF Change
  <1>4. cookie # a => alive' = alive
    BY DEF Change, AuthTyped
  <1> QED
    BY <1>1, <1>2, <1>3, <1>4 DEF AliveIsActive

\* A login that succeeds; and what any other answer says of the session.
ServeLoggedIn ==
    /\ acct' = acct /\ sock' = sock /\ news' = news
    /\ \E r \in asked : /\ r.k = "login" /\ acct[r.a].status = "active"
                        /\ cookie' = r.a /\ alive' = TRUE /\ Answered(r, TRUE, Profile(r.a))

AnswerFits(r, ok, d) ==
    /\ ok /\ r.k = "me" => Session # None /\ d.a = cookie
    /\ ok => r.k # "login"
    /\ ok /\ r.k \in {"logout", "password"} => cookie' = None

ServeFits ==
    \/ UNCHANGED <<asked, answered>>
    \/ \E r, ok, d : r \in asked /\ ok \in BOOLEAN /\ Answered(r, ok, d) /\ AnswerFits(r, ok, d)

ServeOther ==
    /\ ServeFits
    /\ ServeSession \/ (acct' = acct /\ SessionEnds /\ news' = news)

LEMMA ServeAnswers ==
    ASSUME Typed, Serve
    PROVE  ServeLoggedIn \/ ServeOther
  <1> USE DEF Typed
  <1>a. ASSUME NEW r \in asked, NEW ok \in BOOLEAN, NEW d, Answered(r, ok, d),
               r.k \notin {"me", "login", "logout", "password"} \/ ~ok
        PROVE  ServeFits
    BY <1>a DEF ServeFits, AnswerFits
  <1>b. ASSUME UNCHANGED <<acct, auth>> PROVE ServeSession
    BY <1>b DEF ServeSession, SocketHears, SessionStays, AccountsStay, auth
  <1>1. CASE ServeMe
    <2>1. PICK r \in asked : /\ r.k = "me"
                             /\ Answered(r, Session # None,
                                         IF Session # None THEN Profile(Session) ELSE None)
      BY <1>1 DEF ServeMe
    <2>2. Session # None => Profile(Session).a = cookie
      BY DEF Profile, Session
    <2>3. ServeFits
      BY <2>1, <2>2 DEF ServeFits, AnswerFits
    <2> QED BY <1>1, <1>b, <2>3 DEF ServeMe, ServeOther, server
  <1>2. CASE ServeLogin
    <2>1. PICK r \in asked :
            /\ r.k = "login"
            /\ \/ /\ acct[r.a].status = "active" /\ cookie' = r.a /\ alive' = TRUE
                  /\ Answered(r, TRUE, Profile(r.a))
               \/ UNCHANGED <<cookie, alive>> /\ Answered(r, FALSE, None)
      BY <1>2 DEF ServeLogin
    <2>2. UNCHANGED <<acct, sock, news, user, emptied>>
      BY <1>2 DEF ServeLogin, server
    <2>3. CASE acct[r.a].status = "active" /\ cookie' = r.a /\ alive' = TRUE
               /\ Answered(r, TRUE, Profile(r.a))
      BY <2>1, <2>2, <2>3 DEF ServeLoggedIn
    <2>4. CASE UNCHANGED <<cookie, alive>> /\ Answered(r, FALSE, None)
      BY <1>a, <1>b, <2>2, <2>4 DEF ServeOther, auth
    <2> QED BY <2>1, <2>3, <2>4
  <1>3. CASE ServeLogout \/ ServePassword
    <2>1. PICK r \in asked :
            \/ cookie' = None /\ alive' = FALSE /\ Answered(r, TRUE, None)
               /\ r.k \in {"logout", "password"}
            \/ UNCHANGED <<cookie, alive>> /\ Answered(r, FALSE, None)
      BY <1>3 DEF ServeLogout, ServePassword
    <2>2. UNCHANGED <<acct, sock, news, user, emptied>>
      BY <1>3 DEF ServeLogout, ServePassword, server
    <2>3. CASE cookie' = None /\ alive' = FALSE /\ Answered(r, TRUE, None)
               /\ r.k \in {"logout", "password"}
      <3>1. ServeFits
        BY <2>3 DEF ServeFits, AnswerFits
      <3> QED BY <2>2, <2>3, <3>1 DEF ServeOther, SessionEnds
    <2>4. CASE UNCHANGED <<cookie, alive>> /\ Answered(r, FALSE, None)
      BY <1>a, <1>b, <2>2, <2>4 DEF ServeOther, auth
    <2> QED BY <2>1, <2>3, <2>4
  <1>4. CASE ServeQuery
    <2>1. PICK r, ok, d : r \in asked /\ ok \in BOOLEAN /\ r.k \in Keys /\ Answered(r, ok, d)
      BY <1>4 DEF ServeQuery, IsAdministrator
    <2>2. r.k \notin {"me", "login", "logout", "password"}
      BY <2>1, NamesDiffer DEF Other
    <2> QED BY <1>4, <1>a, <1>b, <2>1, <2>2 DEF ServeQuery, ServeOther, server
  <1>5. ASSUME ServeSession, ServeFits PROVE ServeOther
    BY <1>5 DEF ServeOther
  <1>6. CASE \/ ServeProfile \/ ServeChange \/ ServeCreate \/ ServeCloseRoom \/ ServeVoidMatch
    <2>1. PICK r, ok, d :
             r \in asked /\ ok \in BOOLEAN /\ Answered(r, ok, d)
             /\ r.k \in {"name", "status", "role", "reset", "create", "close", "void"}
      BY <1>6 DEF ServeProfile, ServeChange, ServeCreate, ServeCloseRoom, ServeVoidMatch,
         IsAdministrator, MayChange
    <2> QED BY <1>6, <1>a, <1>5, <2>1, ServeSessions DEF ServeOthers
  <1>7. CASE OtherChanges \/ OtherAsks \/ OtherFinishes \/ OtherPlays
    <2>1. ServeOthers
      BY <1>7 DEF ServeOthers
    <2>2. UNCHANGED <<asked, answered>>
      BY <1>7 DEF OtherChanges, OtherAsks, OtherFinishes, OtherPlays
    <2> QED BY <1>5, <2>1, <2>2, ServeSessions DEF ServeFits
  <1> QED
    BY <1>1, <1>2, <1>3, <1>4, <1>6, <1>7 DEF Serve

LEMMA SessionsServe ==
    ASSUME Typed, Once, LoginAlone, Sessions, Serve
    PROVE  LoginAlone' /\ Sessions'
  <1> USE DEF Typed
  <1>n. /\ UNCHANGED <<user, emptied>>
        /\ \/ UNCHANGED <<asked, answered>>
           \/ \E r, ok, d : r \in asked /\ ok \in BOOLEAN /\ Answered(r, ok, d)
    BY ServeKinds DEF ServeNet
  <1>k. Known' = Known
    BY <1>n DEF Known
  <1>a. InFlight("login")' <=> InFlight("login")
    <2>1. ASSUME NEW r \in asked, NEW ok, NEW d, Answered(r, ok, d)
          PROVE  InFlight("login")' <=> InFlight("login")
      <3>1. \A x \in answered' : x \in answered \/ x.r = r
        BY <2>1 DEF Answered
      <3>2. (\E x \in answered' : x.r = r) /\ answered \subseteq answered'
        BY <2>1, AnsweredIs
      <3>3. asked' \subseteq asked /\ (\A q \in asked : q \in asked' \/ q = r) /\ r \in asked
        BY <2>1 DEF Answered
      <3> QED BY <3>1, <3>2, <3>3, FlightIs
    <2> QED BY <1>n, <2>1, FlightIs
  <1>b. SignedOutHasNoSocket => (SocketHears /\ sock' \in {sock, None} => SignedOutHasNoSocket')
    BY <1>k DEF SignedOutHasNoSocket, SocketHears
  <1>c. ASSUME ServeSession PROVE AliveIsActive' /\ cookie' = cookie /\ SignedOutHasNoSocket'
                                  /\ (alive' => alive)
    <2>1. CASE SessionStays /\ AccountsStay
      <3>1. UNCHANGED <<cookie, alive, sock>>
        BY <2>1 DEF SessionStays
      <3> QED BY <2>1, <3>1, <1>b, <1>c DEF ServeSession, AccountsStay, Sessions, AliveIsActive, AuthTyped
    <2>2. CASE SessionChanges
      <3>1. PICK a, k, v : /\ acct' = Changed(a, k, v) /\ Change(a, k, v)
                           /\ k \in {"status", "role", "reset"}
        BY <2>2 DEF SessionChanges
      <3>2. AliveIsActive' /\ cookie' = cookie /\ (alive' => alive)
        BY <3>1, ChangeSessions DEF Sessions
      <3> QED BY <3>1, <3>2, <1>b, <1>c DEF Change, ServeSession, Sessions
    <2> QED BY <1>c, <2>1, <2>2 DEF ServeSession
  <1>d. asked' \subseteq asked /\ answered \subseteq answered'
    BY <1>n DEF Answered
  <1>1. CASE ServeOther
    <2>1. /\ AliveIsActive' /\ SignedOutHasNoSocket' /\ cookie' \in {cookie, None}
          /\ Session' \in {Session, None}
      BY <1>1, <1>b, <1>c DEF ServeOther, SessionEnds, SocketHears, AliveIsActive, Sessions, Session,
         AuthTyped
    <2>2. EmptiedIsOver' /\ CookieIsUsers'
      BY <1>a, <1>k, <1>n, <2>1 DEF Sessions, EmptiedIsOver, CookieIsUsers
    <2>3. \A m \in answered' : m \in answered \/ (m.r \in asked /\ AnswerFits(m.r, m.ok, m.d))
      BY <1>1 DEF ServeOther, ServeFits, Answered
    <2>4. LoginAlone'
      BY <1>a, <1>d, <1>k, <2>3, NamesDiffer DEF LoginAlone
    <2>5. ASSUME user = Unknown PROVE \A m \in answered' : m.r.k = "me" => ~m.ok
      <3>1. Session # None => InFlight("login")
        BY <2>5, FlightIs DEF Sessions, UnknownWaits, LoggedIn
      <3> QED BY <2>3, <2>5, <3>1 DEF Sessions, UnknownWaits, AnswerFits, LoginAlone
    <2>6. UnknownWaits'
      BY <1>d, <1>n, <2>1, <2>5 DEF Sessions, UnknownWaits, LoggedIn
    <2>7. CookieIsAnswered'
      BY <1>d, <2>1, <2>3 DEF Sessions, CookieIsAnswered, AnswerFits
    <2> QED BY <2>1, <2>2, <2>4, <2>6, <2>7 DEF Sessions
  <1>2. CASE ServeLoggedIn
    <2>1. PICK r \in asked : /\ r.k = "login" /\ acct[r.a].status = "active"
                             /\ cookie' = r.a /\ alive' = TRUE /\ Answered(r, TRUE, Profile(r.a))
      BY <1>2 DEF ServeLoggedIn
    <2>2. r.a \in Accounts /\ r.a # None /\ Profile(r.a).a = r.a
      BY <2>1, NamesDiffer DEF AskedSound, Sound, Profile
    <2>3. InFlight("login") /\ ~Known
      BY <2>1, FlightIs DEF LoginAlone
    <2>4. \A m \in answered' : \/ m.r.k = "me" /\ ~m.ok
                               \/ m.r.k = "login" /\ m.d.a = r.a
      <3>1. \A m \in answered : m.r.k # "login"
        BY <2>1 DEF Once, Several
      <3>2. \A m \in answered' : m \in answered \/ m = [r |-> r, ok |-> TRUE, d |-> Profile(r.a)]
        BY <2>1 DEF Answered
      <3> QED BY <2>1, <2>2, <2>3, <3>1, <3>2 DEF LoginAlone
    <2>5. LoginAlone'
      BY <1>d, <1>k, <2>3, <2>4 DEF LoginAlone
    <2>6. \E m \in answered' : m.r.k = "login" /\ m.ok
      <3> DEFINE x == [r |-> r, ok |-> TRUE, d |-> Profile(r.a)]
      <3>1. x \in answered'
        BY <2>1 DEF Answered
      <3>2. x.r.k = "login" /\ x.ok
        BY <2>1
      <3> HIDE DEF x
      <3> QED BY <3>1, <3>2
    <2>7. UnknownWaits' /\ CookieIsUsers' /\ SignedOutHasNoSocket'
      BY <1>2, <1>k, <2>3, <2>4, <2>6 DEF ServeLoggedIn, UnknownWaits, LoggedIn, CookieIsUsers, Sessions,
         SignedOutHasNoSocket
    <2>8. AliveIsActive' /\ EmptiedIsOver'
      BY <1>2, <1>n, <2>1, <2>2, <2>3 DEF ServeLoggedIn, AliveIsActive, Sessions, EmptiedIsOver
    <2>9. CookieIsAnswered'
      BY <1>d, <2>1, <2>3, <2>4 DEF CookieIsAnswered, LoginAlone
    <2> QED BY <2>5, <2>7, <2>8, <2>9 DEF Sessions
  <1> QED
    BY <1>1, <1>2, ServeAnswers

LEMMA SessionsReceive ==
    ASSUME Typed, Once, LoginAlone, Sessions, Receive
    PROVE  LoginAlone' /\ Sessions'
  <1> USE DEF Typed
  <1>a. UNCHANGED <<acct, cookie, alive>>
    BY ReceiveTyped DEF Receive, LearnMe, LearnQuery, LearnLogin, LearnLogout, LearnPassword,
       LearnChange, LearnProfile, LearnDialog, LearnRooms, Reconnect, server, auth
  <1>b. \A r \in asked' : r \in asked \/ (r = Query(r.k) /\ r.k \in Keys \cup {"me"} /\ r.k \notin {"login", "name"})
    BY ReceiveFlight, NamesDiffer DEF Other
  <1>c. answered' \subseteq answered \cup Found
    BY ReceiveFlight
  <1>d. ASSUME NEW m \in answered, m.r.k \notin {"me", "login"} PROVE Others
    BY <1>b, <1>d, FlightIs DEF LoginAlone, Others
  <1>e. ASSUME NEW m \in answered, m.r.k \notin {"me", "login"}, answered' \subseteq answered,
               UNCHANGED <<sock, news, user, emptied>>
        PROVE  LoginAlone' /\ Sessions'
    BY <1>a, <1>d, <1>e, SessionsLearned DEF Sessions, SignedOutHasNoSocket
  <1>f. \A m \in Found : m.r.k = "me" /\ ~m.ok
    BY FoundSound
  <1>1. CASE LearnQuery
    <2>1. PICK m \in answered : m.r.k \in Keys /\ Learned(m)
      BY <1>1 DEF LearnQuery
    <2>2. m.r.k \notin {"me", "login"}
      BY <2>1, NamesDiffer DEF Other
    <2> QED BY <1>1, <1>e, <2>1, <2>2 DEF LearnQuery, Learned, auth
  <1>2. CASE LearnChange \/ LearnDialog
    <2>1. PICK m \in answered : m.r.k \in {"status", "role", "close", "void", "create", "reset"} /\ Learn(m)
      BY <1>2 DEF LearnChange, LearnDialog
    <2>2. answered' \subseteq answered
      BY <2>1, LearnSound
    <2> QED BY <1>2, <1>e, <2>1, <2>2 DEF LearnChange, LearnDialog, auth
  <1>3. CASE LearnProfile
    <2>1. PICK m \in answered : /\ m.r.k = "name" /\ Learn(m)
                                /\ IF m.ok THEN Drawn ELSE UNCHANGED <<user, emptied, sock, news>>
      BY <1>3 DEF LearnProfile
    <2>2. answered' \subseteq answered
      BY <2>1, LearnSound
    <2> QED BY <1>a, <1>d, <1>e, <2>1, <2>2, SessionsDrawn
  <1>4. CASE LearnRooms
    <2>1. Known
      BY <1>4 DEF LearnRooms, Sessions, SignedOutHasNoSocket
    <2>2. Others /\ answered' \subseteq answered
      BY <1>4, <1>b, <2>1, InvalidateSound DEF LoginAlone, Others, LearnRooms
    <2> QED BY <1>4, <1>a, <2>1, <2>2, SessionsLearned DEF LearnRooms
  <1>5. CASE Reconnect
    <2>1. Known /\ UNCHANGED <<news, user, emptied, asked, answered>>
      BY <1>5 DEF Reconnect
    <2> QED BY <1>a, <2>1 DEF LoginAlone, Sessions, AliveIsActive, EmptiedIsOver, SignedOutHasNoSocket,
         UnknownWaits, CookieIsUsers, CookieIsAnswered, InFlight, Known, Session, LoggedIn
  <1>6. CASE LearnLogout
    <2>1. PICK m \in answered :
            /\ m.r.k = "logout"
            /\ \/ /\ m.ok /\ user' = Unknown /\ emptied' = FALSE /\ Dial(Unknown)
                  /\ Clear(m, {Query("me")})
               \/ /\ Drawn /\ answered' = (answered \ {m}) \cup Found
      BY <1>6 DEF LearnLogout
    <2>2. Others
      BY <1>d, <2>1
    <2>3. CASE Drawn /\ answered' = (answered \ {m}) \cup Found
      BY <1>a, <2>2, <2>3, SessionsDrawn
    <2>4. CASE m.ok /\ user' = Unknown /\ emptied' = FALSE /\ Dial(Unknown) /\ Clear(m, {Query("me")})
      <3>1. ~Known' /\ sock' = None /\ news' = 0 /\ cookie' = None /\ Session' \in {None, cookie}
        BY <1>a, <2>1, <2>4 DEF Dial, Known, Sessions, SignedOutHasNoSocket, CookieIsAnswered, Session
      <3>2. \A x \in answered' : x \in answered /\ x.r.k # "me"
        BY <2>4 DEF Clear
      <3>3. ~InFlight("login")' /\ Session' = None
        BY <1>a, <1>b, <2>2, <3>1, <3>2, FlightIs DEF Others
      <3> QED BY <1>a, <1>b, <2>4, <3>1, <3>2, <3>3 DEF LoginAlone, Sessions, AliveIsActive, EmptiedIsOver,
           SignedOutHasNoSocket, UnknownWaits, CookieIsUsers, CookieIsAnswered
    <2> QED BY <2>1, <2>3, <2>4
  <1>7. CASE LearnPassword
    <2>1. PICK m \in answered :
            /\ m.r.k = "password"
            /\ \/ /\ m.ok /\ emptied' = TRUE
                  /\ Clear(m, {Query(k) : k \in VisibleOf(page', user, tab)})
               \/ Learned(m) /\ UNCHANGED emptied
      BY <1>7 DEF LearnPassword
    <2>2. UNCHANGED <<sock, news, user>>
      BY <1>7 DEF LearnPassword
    <2>3. CASE Learned(m) /\ UNCHANGED emptied
      BY <1>e, <2>1, <2>2, <2>3 DEF Learned
    <2>4. CASE m.ok /\ emptied' = TRUE /\ Clear(m, {Query(k) : k \in VisibleOf(page', user, tab)})
      <3>1. cookie' = None /\ Session' = None /\ ~InFlight("login")
        BY <1>a, <1>d, <2>1, <2>4 DEF Sessions, CookieIsAnswered, Session, Others
      <3>2. \A x \in answered' : x \in answered /\ x.r.k # "me"
        BY <2>4 DEF Clear
      <3>3. ~InFlight("login")'
        BY <1>b, <3>1, <3>2, FlightIs
      <3>4. SignedOutHasNoSocket' /\ CookieIsUsers'
        BY <2>2, <3>1 DEF Sessions, SignedOutHasNoSocket, CookieIsUsers, Known
      <3> QED BY <1>a, <1>b, <3>1, <3>2, <3>3, <3>4 DEF LoginAlone, Sessions, AliveIsActive, EmptiedIsOver,
           UnknownWaits, CookieIsAnswered
    <2> QED BY <2>1, <2>3, <2>4
  <1>8. CASE LearnLogin
    <2>1. PICK m \in answered : /\ m.r.k = "login" /\ Learned(m)
                                /\ IF m.ok THEN user' = m.d /\ Dial(m.d)
                                           ELSE UNCHANGED <<user, sock, news>>
      BY <1>8 DEF LearnLogin
    <2>2. emptied' = emptied /\ ~emptied /\ ~Known
      BY <1>8, <2>1, FlightIs DEF LearnLogin, Sessions, EmptiedIsOver, LoginAlone
    <2>3. \A x \in answered' : x \in answered /\ x.r.k = "me" /\ ~x.ok
      BY <2>1, FlightIs DEF Learned, LoginAlone, Once, Several
    <2>4. \A r \in asked' : r.k \in Keys \cup {"me"}
      <3>1. \A r \in asked : r.k = "login" /\ r.k \notin Several
        BY <2>1, FlightIs DEF LoginAlone, Several
      <3>2. asked = {}
        BY <2>1, <3>1 DEF Once
      <3> QED BY <1>b, <3>2
    <2>5. ~InFlight("login")' /\ LoginAlone' /\ CookieIsAnswered' /\ EmptiedIsOver' /\ AliveIsActive'
      BY <1>a, <2>2, <2>3, <2>4, FlightIs, KindsOf, NamesDiffer DEF LoginAlone, CookieIsAnswered, EmptiedIsOver,
         AliveIsActive, Sessions, Other
    <2>6. CASE m.ok
      <3>1. m.d \in Users
        BY <2>1, <2>6 DEF AnswersSound
      <3>2. Known' /\ cookie' \in {None, user'.a}
        BY <1>a, <2>1, <2>6, <3>1, NamesDiffer DEF Sessions, CookieIsAnswered, Known
      <3> QED BY <2>5, <3>2 DEF Sessions, CookieIsUsers, UnknownWaits, SignedOutHasNoSocket, Known
    <2>7. CASE ~m.ok
      <3>1. ~Known' /\ CookieIsUsers' /\ SignedOutHasNoSocket'
        BY <2>1, <2>2, <2>7 DEF Known, CookieIsUsers, SignedOutHasNoSocket, Sessions
      <3>2. ~LoggedIn
        BY <2>1, <2>3, <2>7 DEF LoggedIn, Learned
      <3>3. UnknownWaits'
        BY <1>a, <2>1, <2>3, <2>7, <3>2 DEF Sessions, UnknownWaits, Session
      <3> QED BY <2>5, <3>1, <3>3 DEF Sessions
    <2> QED BY <2>6, <2>7
  <1>9. CASE LearnMe
    <2>1. PICK m \in answered : /\ m.r.k = "me" /\ Learned(m)
                                /\ user' = IF m.ok THEN m.d ELSE None
                                /\ Dial(user') /\ (UNCHANGED asked \/ Load(page', user', tab'))
      BY <1>9 DEF LearnMe
    <2>2. emptied' = emptied /\ ~emptied
      BY <1>9, <2>1, FlightIs DEF LearnMe, Once
    <2>3. CASE m.ok
      <3>1. m.d \in Users /\ Known' /\ user' = m.d
        BY <2>1, <2>3, NamesDiffer DEF AnswersSound, Known
      <3>2. ~InFlight("login")
        BY <2>1, <2>3 DEF LoginAlone
      <3>3. ~InFlight("login")'
        BY <1>b, <2>1, <3>2, FlightIs DEF Learned
      <3>4. CookieIsUsers' /\ CookieIsAnswered'
        BY <1>a, <1>b, <2>1, <2>3, <3>1 DEF Sessions, CookieIsUsers, CookieIsAnswered, Learned
      <3> QED BY <1>a, <2>2, <3>1, <3>3, <3>4 DEF LoginAlone, Sessions, UnknownWaits, SignedOutHasNoSocket,
           EmptiedIsOver, AliveIsActive, Known
    <2>4. CASE ~m.ok
      <3>1. user' = None /\ ~Known' /\ sock' = None /\ news' = 0
        BY <2>1, <2>4, NamesDiffer DEF Dial, Known, Sessions, SignedOutHasNoSocket
      <3>2. asked' = asked
        BY <2>1, <3>1, LoadIs DEF VisibleOf
      <3>3. LoginAlone'
        BY <2>1, <3>1, <3>2, FlightIs DEF LoginAlone, Learned
      <3>4. CookieIsUsers' /\ CookieIsAnswered' /\ UnknownWaits'
        BY <1>a, <2>1, <3>1, <3>2, NamesDiffer DEF Sessions, CookieIsUsers, CookieIsAnswered, UnknownWaits, Learned
      <3> QED BY <1>a, <2>2, <3>1, <3>3, <3>4 DEF Sessions, SignedOutHasNoSocket, EmptiedIsOver, AliveIsActive
    <2> QED BY <2>3, <2>4
  <1> QED
    BY <1>1, <1>2, <1>3, <1>4, <1>5, <1>6, <1>7, <1>8, <1>9 DEF Receive

-----------------------------------------------------------------------------
(***************************************************************************)
(* The socket.  The server closes it with every change of its account; the *)
(* tab closes it with every other user object; and it is dialled again     *)
(* only in a session, which is the user's and of an active account.        *)
(***************************************************************************)

LEMMA SocketKept ==
    ASSUME Typed, Once, LoginAlone, Sessions, SocketIsUsers, [Next]_vars
    PROVE  SocketIsUsers'
  <1> USE DEF Typed
  <1>a. ASSUME UNCHANGED <<acct, cookie, alive>>, \/ UNCHANGED <<sock, user>>
                                                  \/ sock' = None
        PROVE  SocketIsUsers'
    BY <1>a DEF SocketIsUsers, Known
  <1>b. ASSUME NEW u, Dial(u), user' = u PROVE UNCHANGED <<sock, user>> \/ sock' = None
    BY <1>b DEF Dial
  <1>1. CASE Act
    <2>1. UNCHANGED <<acct, cookie, alive>>
      BY <1>1, ActKinds DEF SubmitLogin, ClickLogout, UserOnly, server, auth
    <2>2. UNCHANGED <<sock, user>> \/ Drawn
      BY <1>1, ActKinds DEF SubmitLogin, ClickLogout, UserOnly, auth
    <2> QED BY <1>a, <2>1, <2>2, DrawnIs DEF Sessions
  <1>2. CASE Receive
    <2>1. CASE Reconnect
      <3>1. sock' = cookie /\ cookie # None /\ alive /\ Known
        BY <2>1 DEF Reconnect, Session
      <3>2. UNCHANGED <<acct, cookie, alive, user>>
        BY <2>1 DEF Reconnect, server
      <3> QED BY <3>1, <3>2 DEF Sessions, AliveIsActive, CookieIsUsers, SocketIsUsers, Known
    <2>2. CASE ~Reconnect
      <3>1. UNCHANGED <<acct, cookie, alive>>
        BY <1>2, ReceiveTyped DEF Receive, LearnMe, LearnQuery, LearnLogin, LearnLogout,
           LearnPassword, LearnChange, LearnProfile, LearnDialog, LearnRooms, Reconnect, server, auth
      <3>2. \/ UNCHANGED <<sock, user>>
            \/ Drawn \/ Dial(user')
        <4>1. CASE LearnMe \/ LearnLogin \/ LearnLogout
          BY <4>1 DEF LearnMe, LearnLogin, LearnLogout
        <4>2. CASE LearnQuery \/ LearnPassword \/ LearnChange \/ LearnProfile \/ LearnDialog
                   \/ LearnRooms
          BY <4>2 DEF LearnQuery, LearnPassword, LearnChange, LearnProfile, LearnDialog, LearnRooms, auth
        <4> QED BY <1>2, <2>2, <4>1, <4>2 DEF Receive
      <3> QED BY <1>a, <1>b, <3>1, <3>2, DrawnIs DEF Sessions
    <2> QED BY <2>1, <2>2
  <1>3. CASE Serve
    <2>1. UNCHANGED <<user, Known>>
      BY <1>3, ServeKinds DEF ServeNet, Known
    <2>2. CASE ServeLoggedIn
      BY <2>1, <2>2 DEF ServeLoggedIn, SocketIsUsers
    <2>3. CASE acct' = acct /\ SessionEnds
      BY <2>1, <2>3, NamesDiffer DEF SessionEnds, SocketIsUsers, AuthTyped
    <2>4. CASE ServeSession
      <3>1. CASE SessionStays /\ AccountsStay
        BY <2>1, <3>1, NamesDiffer DEF SessionStays, AccountsStay, SocketIsUsers, AuthTyped
      <3>2. CASE SessionChanges
        <4>1. PICK a, k, v : Change(a, k, v) /\ k \in {"status", "role", "reset"}
          BY <3>2 DEF SessionChanges
        <4>2. /\ cookie' = cookie /\ sock' \in {sock, None}
              /\ sock' # None => \A b \in Accounts : b = sock => acct'[b] = acct[b]
                                                     /\ (cookie = b => alive' = alive)
          BY <4>1, ChangeSessions DEF Sessions
        <4> QED BY <2>1, <4>2 DEF SocketIsUsers, AuthTyped
      <3> QED BY <2>4, <3>1, <3>2 DEF ServeSession
    <2> QED BY <1>3, <2>2, <2>3, <2>4, ServeAnswers DEF ServeOther
  <1>4. CASE UNCHANGED vars
    BY <1>4, <1>a DEF vars, server, auth
  <1> QED
    BY <1>1, <1>2, <1>3, <1>4 DEF Next

SessionInv == Typed /\ RoleInv /\ Once /\ LoginAlone /\ Sessions /\ SocketIsUsers

LEMMA AlwaysSession == Spec => []SessionInv
  <1>1. Init => SessionInv
    <2> SUFFICES ASSUME Init PROVE SessionInv
      OBVIOUS
    <2>1. Typed /\ RoleInv
      BY InitTyped
    <2>2. asked = {Query("me")} /\ answered = {} /\ emptied = FALSE /\ alive = FALSE /\ cookie = None
          /\ sock = None /\ news = 0 /\ user = Unknown
      BY DEF Init, Query, Request
    <2>3. Once
      BY <2>2 DEF Once
    <2>4. ~Known /\ Session = None /\ ~InFlight("login")
      BY <2>2, KindsOf, FlightIs DEF Known, Session
    <2>5. LoginAlone /\ Sessions
      BY <2>2, <2>4, KindsOf DEF LoginAlone, Sessions, AliveIsActive, EmptiedIsOver, SignedOutHasNoSocket,
         UnknownWaits, CookieIsUsers, CookieIsAnswered
    <2>6. SocketIsUsers
      BY <2>2 DEF SocketIsUsers
    <2> QED BY <2>1, <2>3, <2>5, <2>6 DEF SessionInv
  <1>2. SessionInv /\ [Next]_vars => SessionInv'
    <2> SUFFICES ASSUME SessionInv, [Next]_vars PROVE SessionInv'
      OBVIOUS
    <2> USE DEF SessionInv
    <2>1. Typed' /\ RoleInv'
      BY TypedKept
    <2>2. Once' /\ SocketIsUsers'
      BY OnceKept, SocketKept
    <2>3. LoginAlone' /\ Sessions'
      <3>1. CASE UNCHANGED vars
        BY <3>1 DEF vars, server, auth, LoginAlone, Sessions, AliveIsActive, EmptiedIsOver,
           SignedOutHasNoSocket, UnknownWaits, CookieIsUsers, CookieIsAnswered, InFlight, Known, Session,
           LoggedIn
      <3> QED BY <3>1, SessionsAct, SessionsServe, SessionsReceive DEF Next
    <2> QED BY <2>1, <2>2, <2>3
  <1> QED
    BY <1>1, <1>2, PTL DEF Spec

\* Whoever signs in and out, however often and whatever is under way meanwhile,
\* and whatever administrators do to the accounts: the socket of the tab is that
\* of the user it shows, whose account is active and whose session is not
\* revoked.  Closing it with every change of its account, in the same step as
\* the session ends, suffices (admin/accounts.py, auth.tsx).
THEOREM SocketStays == Spec => []SocketIsUsers
  <1>1. SessionInv => SocketIsUsers
    BY DEF SessionInv
  <1> QED
    BY <1>1, AlwaysSession, PTL

-----------------------------------------------------------------------------
(***************************************************************************)
(* What the pages show is what the server has, or is on its way: a load is *)
(* under way, or an answer that will make it stale, or news.  An answer    *)
(* may carry what the server had before a change; then the answer to the   *)
(* change is still due, and invalidates it.  Excused is what no such       *)
(* answer comes for, as SettledPagesAreCurrent says.                       *)
(***************************************************************************)

Due(k) == \/ \E m \in answered : m.r.k \in Mutations /\ m.ok /\ k \in Stale(m.r)
          \/ k = "lobby" /\ news > 0
FreshKey(k) == cache[k] = Current(k) \/ InFlight(k) \/ Due(k)

AnswersAreFresh ==
    \A m \in answered :
        m.ok /\ m.r.k \in Keys \ (missed \cup elsewhere) => m.d = Current(m.r.k) \/ Due(m.r.k)
PagesAreFresh ==
    \A k \in Visible \ (failed \cup missed \cup elsewhere) : FreshKey(k)
\* A name that is cached and not drawn, which a page will be content with.
NamesAreFresh ==
    \A k \in Accounts \ (failed \cup missed \cup elsewhere \cup stale) :
        cache[k] = None \/ FreshKey(k)

Fresh == AnswersAreFresh /\ PagesAreFresh /\ NamesAreFresh

\* An account that is not created yet has the name it is created with.
NewIsNameless == \A a \in Accounts : acct[a].status = "none" => acct[a].name = 0

KeepsDue  == \A m \in answered : m.r.k \in Mutations /\ m.ok => m \in answered'
KeepsNews == news > 0 => news' > 0 \/ "lobby" \in elsewhere'
KeepsFlight == \A k \in Keys : InFlight(k) => InFlight(k)'

LEMMA DueKept ==
    ASSUME KeepsDue, KeepsNews
    PROVE  \A k : Due(k) => Due(k)' \/ k \in elsewhere'
  BY DEF KeepsDue, KeepsNews, Due

LEMMA CurrentKept ==
    ASSUME UNCHANGED <<acct, rows>>
    PROVE  \A k : Current(k)' = Current(k)
  BY DEF Current, Listed

LEMMA VisibleTyped ==
    ASSUME Typed
    PROVE  Visible \subseteq Keys
  BY VisibleKeys DEF Visible, Typed, AuthTyped, PagesTyped

LEMMA NewsKept ==
    ASSUME NEW u, Dial(u), news \in Nat
    PROVE  KeepsNews /\ elsewhere \subseteq elsewhere'
  BY DEF Dial, KeepsNews

\* Pages are opened and left, and answers come that change no data: what is
\* drawn afterwards was fresh before, or is loaded.
LEMMA FreshStays ==
    ASSUME Typed, Typed', Fresh, UNCHANGED <<acct, rows, cache, failed, stale>>,
           KeepsDue, KeepsNews, KeepsFlight, elsewhere \subseteq elsewhere',
           \A m \in answered' : m \in answered \/ ~m.ok,
           \A k \in missed \ missed' : ~InFlight(k) /\ InFlight(k)',
           \A k \in Visible' : \/ k \in Visible \/ InFlight(k)'
                               \/ (k \in Accounts /\ cache[k] # None /\ k \notin stale)
    PROVE  Fresh'
  <1>1. \A k : Current(k)' = Current(k) /\ (Due(k) => Due(k)' \/ k \in elsewhere')
    BY CurrentKept, DueKept
  <1>2. AnswersAreFresh'
    <2> SUFFICES ASSUME NEW m \in answered', m.ok, m.r.k \in Keys \ (missed' \cup elsewhere')
                 PROVE  m.d = Current(m.r.k)' \/ Due(m.r.k)'
      BY DEF AnswersAreFresh
    <2>1. m \in answered /\ InFlight(m.r.k)
      BY FlightIs
    <2>2. m.r.k \notin missed \cup elsewhere
      BY <2>1
    <2> QED BY <1>1, <2>1, <2>2 DEF Fresh, AnswersAreFresh
  <1>3. ASSUME NEW k \in Keys, FreshKey(k), k \notin elsewhere' PROVE FreshKey(k)'
    BY <1>1, <1>3 DEF FreshKey, KeepsFlight
  <1>4. Visible \subseteq Keys /\ Visible' \subseteq Keys /\ Accounts \subseteq Keys
    BY VisibleTyped, VisibleKeys DEF Keys, Visible, Typed, AuthTyped, PagesTyped
  <1>5. ASSUME NEW k \in Accounts \ (failed' \cup missed' \cup elsewhere' \cup stale')
        PROVE  cache'[k] = None \/ FreshKey(k)'
    <2>1. CASE InFlight(k)'
      BY <2>1 DEF FreshKey
    <2>2. CASE ~InFlight(k)'
      <3>1. k \notin missed
        BY <2>2
      <3> QED BY <1>3, <1>4, <1>5, <3>1 DEF Fresh, NamesAreFresh
    <2> QED BY <2>1, <2>2
  <1>6. ASSUME NEW k \in Visible' \ (failed' \cup missed' \cup elsewhere')
        PROVE  FreshKey(k)'
    <2>1. CASE InFlight(k)'
      BY <2>1 DEF FreshKey
    <2>2. CASE ~InFlight(k)' /\ k \in Visible
      <3>1. k \notin missed
        BY <2>2
      <3> QED BY <1>3, <1>4, <1>6, <2>2, <3>1 DEF Fresh, PagesAreFresh
    <2>3. CASE k \in Accounts /\ cache[k] # None /\ k \notin stale
      BY <1>5, <1>6, <2>3
    <2> QED BY <2>1, <2>2, <2>3
  <1>7. PagesAreFresh' /\ NamesAreFresh'
    BY <1>5, <1>6 DEF PagesAreFresh, NamesAreFresh
  <1> QED
    BY <1>2, <1>7 DEF Fresh

\* What is invalidated is loaded again if it is drawn, or is missed, or is
\* neither drawn nor under way, and then a name is stale.
LEMMA FreshInvalidated ==
    ASSUME Typed, Typed', Fresh, NEW ks, NEW done, Invalidate(ks, done),
           UNCHANGED <<acct, rows, failed>>, \A k \in Keys \ ks : cache'[k] = cache[k],
           \A m \in done : m.r.k \in Mutations /\ (m.ok => Stale(m.r) \subseteq ks),
           KeepsNews \/ "lobby" \in ks,
           elsewhere \subseteq elsewhere', Visible' \subseteq Visible
    PROVE  Fresh'
  <1>1. PICK again \in SUBSET (ks \cap (Visible \cup {"me"})) :
          /\ asked' = {r \in asked : r.k \notin again} \cup {Query(k) : k \in again}
          /\ answered' = {x \in answered \ done : x.r.k \notin again}
          /\ missed \ again \subseteq missed' /\ stale' = stale \cup (ks \cap Accounts)
          /\ \A k \in ks \ again : /\ k \in Visible \ {"me"} => k \in missed'
                                   /\ InFlight(k) /\ k # "me" => k \in missed'
    BY InvalidateIs
  <1>2. Visible \subseteq Keys /\ Visible' \subseteq Keys /\ Accounts \subseteq Keys /\ "me" \notin Keys
    BY VisibleTyped, NamesDiffer DEF Keys, Other
  <1>3. again \subseteq Keys \cup {"me"} /\ \A k \in Mutations : k \notin Keys \cup {"me"}
    BY <1>1, <1>2, NamesDiffer DEF Mutations, Other
  <1>4. \A k \in again : InFlight(k)'
    BY <1>1, KindsOf, FlightIs
  <1>5. ASSUME NEW k \in Keys \ ks, InFlight(k) PROVE InFlight(k)'
    <2>1. k \notin again
      BY <1>1, <1>5
    <2> QED BY <1>1, <1>3, <1>5, <2>1, FlightIs
  <1>6. ASSUME NEW k \in Keys \ ks, Due(k), k \notin elsewhere' PROVE Due(k)'
    <2>1. CASE k = "lobby" /\ news > 0
      BY <1>6, <2>1 DEF KeepsNews, Due
    <2>2. CASE \E m \in answered : m.r.k \in Mutations /\ m.ok /\ k \in Stale(m.r)
      <3>1. PICK m \in answered : m.r.k \in Mutations /\ m.ok /\ k \in Stale(m.r)
        BY <2>2
      <3>2. m \in answered'
        BY <1>1, <1>3, <1>6, <3>1
      <3> QED BY <3>1, <3>2 DEF Due
    <2> QED BY <1>6, <2>1, <2>2 DEF Due
  <1>7. \A k : Current(k)' = Current(k)
    BY CurrentKept
  <1>8. ASSUME NEW k \in Keys \ ks, FreshKey(k), k \notin elsewhere' PROVE FreshKey(k)'
    BY <1>5, <1>6, <1>7, <1>8 DEF FreshKey
  <1>9. ASSUME NEW k \in ks, k \in Keys, k \notin again, k \notin missed'
        PROVE  k \notin Visible /\ ~InFlight(k)
    BY <1>1, <1>2, <1>9
  <1>10. AnswersAreFresh'
    <2> SUFFICES ASSUME NEW m \in answered', m.ok, m.r.k \in Keys \ (missed' \cup elsewhere')
                 PROVE  m.d = Current(m.r.k)' \/ Due(m.r.k)'
      BY DEF AnswersAreFresh
    <2>1. m \in answered /\ InFlight(m.r.k) /\ m.r.k \notin again
      BY <1>1, FlightIs
    <2>2. m.r.k \notin ks /\ m.r.k \notin missed \cup elsewhere
      BY <1>1, <1>9, <2>1
    <2> QED BY <1>6, <1>7, <2>1, <2>2 DEF Fresh, AnswersAreFresh
  <1>11. PagesAreFresh'
    <2> SUFFICES ASSUME NEW k \in Visible' \ (failed' \cup missed' \cup elsewhere')
                 PROVE  FreshKey(k)'
      BY DEF PagesAreFresh
    <2>1. CASE k \in again
      BY <1>4, <2>1 DEF FreshKey
    <2>2. CASE k \notin again
      <3>1. k \notin ks /\ k \in Visible /\ k \in Keys /\ k \notin missed
        BY <1>1, <1>2, <1>9, <2>2
      <3> QED BY <1>8, <3>1 DEF Fresh, PagesAreFresh
    <2> QED BY <2>1, <2>2
  <1>12. NamesAreFresh'
    <2> SUFFICES ASSUME NEW k \in Accounts \ (failed' \cup missed' \cup elsewhere' \cup stale')
                 PROVE  cache'[k] = None \/ FreshKey(k)'
      BY DEF NamesAreFresh
    <2>1. k \notin ks /\ k \notin again /\ k \notin missed /\ k \notin stale
      BY <1>1
    <2> QED BY <1>2, <1>8, <2>1 DEF Fresh, NamesAreFresh
  <1> QED
    BY <1>10, <1>11, <1>12 DEF Fresh

LEMMA FreshLoad ==
    ASSUME Typed, Typed', Fresh, Load(page', user', tab'),
           UNCHANGED <<acct, rows, cache, failed, stale>>, answered' \subseteq answered,
           \A m \in answered \ answered' : m.r.k \in {"me", "login"},
           KeepsNews, elsewhere \subseteq elsewhere'
    PROVE  Fresh'
  <1>1. PICK new \in SUBSET VisibleOf(page', user', tab') :
             /\ asked' = asked \cup {Query(k) : k \in new} /\ missed' = missed \ new
             /\ \A k \in new : ~InFlight(k)
             /\ \A k \in VisibleOf(page', user', tab') \ new :
                  k \in Visible \/ InFlight(k) \/ (k \in Accounts /\ cache[k] # None /\ k \notin stale)
    BY LoadIs
  <1>2. Visible' = VisibleOf(page', user', tab') /\ Visible' \subseteq Keys
    BY VisibleKeys DEF Visible, Typed, AuthTyped, PagesTyped
  <1>3. KeepsFlight
    <2>1. \A m \in answered : m.r.k \in Keys => m \in answered'
      BY KindsOf
    <2> QED BY <1>1, <2>1, FlightIs DEF KeepsFlight
  <1>4. KeepsDue
    BY DEF KeepsDue, Mutations
  <1>5. \A k \in new : InFlight(k)'
    BY <1>1, KindsOf, FlightIs
  <1>6. \A k \in missed \ missed' : ~InFlight(k) /\ InFlight(k)'
    BY <1>1, <1>5
  <1>7. \A k \in Visible' : \/ k \in Visible \/ InFlight(k)'
                            \/ (k \in Accounts /\ cache[k] # None /\ k \notin stale)
    BY <1>1, <1>2, <1>3, <1>5 DEF KeepsFlight
  <1> QED
    BY <1>3, <1>4, <1>6, <1>7, FreshStays

\* AuthProvider is drawn: the pages are as they were, or nothing is drawn.
LEMMA FreshDrawn ==
    ASSUME Typed, Typed', Fresh, SignedOutHasNoSocket, Drawn,
           UNCHANGED <<acct, rows, cache, failed, stale, missed, page, tab>>,
           asked \subseteq asked', KeepsDue, KeepsFlight,
           answered' \subseteq answered \cup Found
    PROVE  Fresh'
  <1>1. KeepsNews /\ elsewhere \subseteq elsewhere'
    BY NewsKept DEF Drawn, Typed, AuthTyped
  <1>2. \A m \in answered' : m \in answered \/ ~m.ok
    BY FoundSound
  <1>3. Visible' \subseteq Visible
    BY DrawnIs DEF Visible, VisibleOf
  <1> QED
    BY <1>1, <1>2, <1>3, FreshStays

LEMMA FreshAct ==
    ASSUME Typed, Typed', Once, LoginAlone, Sessions, Fresh, Act
    PROVE  Fresh'
  <1>1. CASE SubmitLogin
    <2>1. /\ Drawn /\ answered = {} /\ asked = {} /\ answered' \subseteq Found
          /\ UNCHANGED <<acct, rows, cache, failed, stale, missed, page, tab>>
      BY <1>1 DEF SubmitLogin, server, data, view
    <2>2. KeepsDue /\ KeepsFlight
      BY <2>1, FlightIs DEF KeepsDue, KeepsFlight
    <2> QED BY <2>1, <2>2, FreshDrawn DEF Sessions
  <1>2. CASE ClickLogout
    <2>1. /\ Drawn /\ asked \subseteq asked' /\ answered' = answered \cup Found
          /\ UNCHANGED <<acct, rows, cache, failed, stale, missed, page, tab>>
      BY <1>2 DEF ClickLogout, server, data, view
    <2>2. KeepsDue /\ KeepsFlight
      BY <2>1, FlightIs DEF KeepsDue, KeepsFlight
    <2> QED BY <2>1, <2>2, FreshDrawn DEF Sessions
  <1>3. CASE UserOnly
    <2>1. UNCHANGED <<acct, rows, user, news, cache, failed, stale, elsewhere, answered>>
      BY <1>3 DEF UserOnly, server, auth
    <2>2. KeepsNews /\ KeepsDue
      BY <2>1 DEF KeepsNews, KeepsDue
    <2>3. CASE UserOpens
      <3>1. Load(page', user', tab')
        BY <2>1, <2>3 DEF UserOpens
      <3> QED BY <2>1, <2>2, <3>1, FreshLoad
    <2>4. CASE UserAsks \/ UserTurns
      <3>1. asked \subseteq asked' /\ UNCHANGED <<page, tab, missed>>
        BY <2>4 DEF UserAsks, UserTurns
      <3>2. KeepsFlight /\ Visible' = Visible
        BY <2>1, <3>1, FlightIs DEF KeepsFlight, Visible
      <3> QED BY <2>1, <2>2, <3>1, <3>2, FreshStays
    <2> QED BY <1>3, <2>3, <2>4 DEF UserOnly
  <1> QED
    BY <1>1, <1>2, <1>3, ActKinds

\* An answer of the server to a change names what the change makes stale.
Served == UNCHANGED <<user, page, tab, cache, stale, failed, missed>>
          /\ answered \subseteq answered' /\ asked' \subseteq asked

LEMMA ServeKeeps ==
    ASSUME Typed, Serve
    PROVE  /\ Served /\ KeepsDue
           /\ \A k : InFlight(k) => InFlight(k)'
  <1>1. CASE UNCHANGED <<asked, answered>>
    <2>1. Served
      BY <1>1, ServeKinds DEF ServeNet, Served
    <2> QED BY <1>1, <2>1, FlightIs DEF KeepsDue
  <1>2. ASSUME NEW r \in asked, NEW ok, NEW d, Answered(r, ok, d)
        PROVE  /\ Served /\ KeepsDue
               /\ \A k : InFlight(k) => InFlight(k)'
    <2>1. asked' \subseteq asked /\ (\A q \in asked : q \in asked' \/ q = r)
          /\ answered \subseteq answered'
      BY <1>2 DEF Answered
    <2>2. Served
      BY <2>1, ServeKinds DEF ServeNet, Served
    <2>3. \E m \in answered' : m.r = r
      BY <1>2, AnsweredIs
    <2>4. \A k : InFlight(k) => InFlight(k)'
      BY <2>1, <2>3, FlightIs
    <2> QED BY <2>1, <2>2, <2>4 DEF KeepsDue
  <1> QED
    BY <1>1, <1>2, ServeKinds DEF ServeNet

\* The answer to a change that is made is due.
LEMMA DueSoon ==
    ASSUME NEW r, NEW d, Answered(r, TRUE, d), r.k \in Mutations
    PROVE  \A k \in Stale(r) : Due(k)'
  <1> DEFINE m == [r |-> r, ok |-> TRUE, d |-> d]
  <1>1. m \in answered'
    BY DEF Answered
  <1>2. m.r = r /\ m.ok
    OBVIOUS
  <1> HIDE DEF m
  <1> QED
    BY <1>1, <1>2 DEF Due

\* A change of an account touches no name.
LEMMA ChangeKeepsNames ==
    ASSUME AccountsTyped, NEW a, NEW k \in {"status", "role", "reset"}, NEW v, acct' = Changed(a, k, v)
    PROVE  /\ \A b \in Accounts : acct'[b].name = acct[b].name
           /\ NewIsNameless /\ (k = "status" => v \in Statuses) => NewIsNameless'
  <1>1. CASE k = "status"
    BY <1>1 DEF Changed, AccountsTyped, AccountRecord, NewIsNameless, Statuses
  <1>2. CASE k = "role"
    BY <1>2 DEF Changed, AccountsTyped, AccountRecord, NewIsNameless
  <1>3. CASE k = "reset"
    BY <1>3 DEF Changed, NewIsNameless
  <1> QED
    BY <1>1, <1>2, <1>3

\* Whatever the server changes of what a query shows, the tab hears of it: an
\* answer or news is due, or the query is excused.
ServeTells ==
    \A k \in Keys : Current(k)' = Current(k) \/ Due(k)' \/ k \in elsewhere'

RowsTyped == /\ rows = [k \in {"rooms", "matches", "audits"} |-> rows[k]]
             /\ rows["audits"] \in Nat

LEMMA CurrentChanges ==
    /\ (\A a \in Accounts : acct'[a].role = acct[a].role /\ acct'[a].status = acct[a].status)
          => Current("accounts")' = Current("accounts")
    /\ \A a \in Accounts : acct'[a].name = acct[a].name => Current(a)' = Current(a)
    /\ \A k \in {"rooms", "matches", "audits"} : rows'[k] = rows[k] => Current(k)' = Current(k)
    /\ rows'["rooms"] = rows["rooms"] => Current("lobby")' = Current("lobby")
  <1>0. "accounts" \notin Accounts /\ \A k \in {"rooms", "matches", "audits"} : k \notin Accounts
    BY NamesDiffer DEF Tabs
  <1>1. /\ Current("accounts") = Listed /\ Current("accounts")' = Listed'
        /\ \A k \in {"rooms", "matches", "audits"} : Current(k) = rows[k] /\ Current(k)' = rows'[k]
    BY <1>0 DEF Current
  <1>2. \A a \in Accounts : Current(a) = acct[a].name /\ Current(a)' = acct'[a].name
    <2>1. \A a \in Accounts : a \notin {"accounts", "rooms", "matches", "audits", "lobby"}
      BY NamesDiffer DEF Tabs
    <2> QED BY <2>1 DEF Current
  <1>3. /\ Current("lobby") = {rows["rooms"]} \ {"closed"}
        /\ Current("lobby")' = {rows'["rooms"]} \ {"closed"}
    <2>1. "lobby" \notin Accounts
      BY NamesDiffer
    <2> QED BY <2>1 DEF Current
  <1>4. ASSUME \A a \in Accounts : acct'[a].role = acct[a].role /\ acct'[a].status = acct[a].status
        PROVE  Listed' = Listed
    BY <1>4 DEF Listed
  <1> QED
    BY <1>1, <1>2, <1>3, <1>4

LEMMA KeysAre ==
    \A k \in Keys : k \in {"accounts", "rooms", "matches", "audits", "lobby"} \cup Accounts
  BY DEF Keys, Tabs

\* News for the socket, or the list of the lobby is excused.
LEMMA AnnounceTells ==
    ASSUME Typed, NEW also, Announce(also)
    PROVE  /\ Due("lobby")' \/ "lobby" \in elsewhere'
           /\ KeepsNews /\ also \subseteq elsewhere' /\ elsewhere \subseteq elsewhere'
  BY DEF Announce, Due, KeepsNews, Typed, AuthTyped

\* What an administrator does to an account.
LEMMA ChangeTells ==
    ASSUME Typed, RowsTyped, NEW a, NEW k \in {"status", "role", "reset"}, NEW v, Change(a, k, v)
    PROVE  /\ \A q \in Keys \ {"accounts", "audits"} : Current(q)' = Current(q)
           /\ RowsTyped' /\ KeepsNews
           /\ (k = "reset" \/ acct' = acct) => Current("accounts")' = Current("accounts")
           /\ k # "reset" /\ acct' = acct => Current("audits")' = Current("audits")
  <1>1. acct' = Changed(a, k, v) /\ news' = news
    BY DEF Change
  <1>2. \A b \in Accounts : acct'[b].name = acct[b].name
    BY <1>1, ChangeKeepsNames DEF Typed
  <1>3. /\ RowsTyped' /\ \A q \in {"rooms", "matches"} : rows'[q] = rows[q]
        /\ k # "reset" /\ acct' = acct => rows'["audits"] = rows["audits"]
    <2>1. \E i \in {0, 1} : rows' = [rows EXCEPT !.audits = @ + i] /\ (k # "reset" /\ acct' = acct => i = 0)
      BY DEF Change, Recorded
    <2> QED BY <2>1 DEF RowsTyped
  <1> QED
    BY <1>1, <1>2, <1>3, CurrentChanges, KeysAre DEF KeepsNews, Changed

LEMMA ServeTellsAll ==
    ASSUME Typed, Sessions, NewIsNameless, RowsTyped, Serve
    PROVE  ServeTells /\ KeepsNews /\ NewIsNameless' /\ RowsTyped'
  <1> USE DEF Typed
  <1>a. ASSUME UNCHANGED <<acct, rows, news>>
        PROVE  ServeTells /\ KeepsNews /\ NewIsNameless' /\ RowsTyped'
    BY <1>a, CurrentKept DEF ServeTells, KeepsNews, NewIsNameless, RowsTyped
  <1>b. ASSUME UNCHANGED acct PROVE /\ NewIsNameless'
                                    /\ \A k \in Accounts \cup {"accounts"} : Current(k)' = Current(k)
    BY <1>b, CurrentChanges DEF NewIsNameless
  <1>1. CASE ServeMe \/ ServeQuery \/ ServeLogin \/ ServeLogout \/ ServePassword \/ OtherAsks
    BY <1>1, <1>a DEF ServeMe, ServeQuery, ServeLogin, ServeLogout, ServePassword, OtherAsks, server, auth
  <1>2. CASE ServeProfile
    <2>1. PICK r \in asked : /\ r.k = "name" /\ Answered(r, Session # None, None)
                             /\ acct' = IF Session # None THEN [acct EXCEPT ![Session].name = r.v] ELSE acct
      BY <1>2 DEF ServeProfile
    <2>2. UNCHANGED <<rows, news>>
      BY <1>2 DEF ServeProfile, auth
    <2>3. CASE Session = None
      BY <1>a, <2>1, <2>2, <2>3
    <2>4. CASE Session # None
      <3>1. PICK s \in Accounts : s = Session /\ acct[s].status = "active" /\ r.a = s
        BY <2>1, <2>4 DEF Session, Sessions, AliveIsActive, CookieIsAnswered, AuthTyped
      <3>2. acct' = [acct EXCEPT ![s].name = r.v] /\ Answered(r, TRUE, None)
        BY <2>1, <2>4, <3>1
      <3>3. NewIsNameless'
        BY <3>1, <3>2 DEF NewIsNameless, AccountsTyped
      <3>4. \A a \in Accounts : acct'[a].role = acct[a].role /\ acct'[a].status = acct[a].status
                                /\ (a # s => acct'[a].name = acct[a].name)
        BY <3>2 DEF AccountsTyped, AccountRecord
      <3>5. Stale(r) = {s, "me"}
        BY <2>1, <3>1, StaleKeys DEF AskedSound, Mutations
      <3>6. Due(s)'
        BY <2>1, <3>2, <3>5, DueSoon DEF Mutations
      <3> QED BY <2>2, <3>3, <3>4, <3>6, CurrentChanges, KeysAre DEF ServeTells, KeepsNews, RowsTyped
    <2> QED BY <2>3, <2>4
  <1>3. CASE ServeCreate
    <2>1. UNCHANGED news
      BY <1>3 DEF ServeCreate, auth
    <2>2. PICK r \in asked :
            /\ r.k = "create"
            /\ \/ UNCHANGED <<acct, rows>>
               \/ /\ \E a : /\ {b \in Accounts : acct[b].status = "none"} # {}
                            /\ a = CHOOSE b \in {c \in Accounts : acct[c].status = "none"} : TRUE
                            /\ acct' = [acct EXCEPT ![a] = Account(r.v, "active")]
                  /\ Recorded(TRUE) /\ elsewhere' = elsewhere \cup {"audits"}
                  /\ Answered(r, TRUE, None)
      BY <1>3 DEF ServeCreate
    <2>3. CASE UNCHANGED <<acct, rows>>
      BY <1>a, <2>1, <2>3
    <2>4. CASE /\ \E a \in Accounts : /\ acct[a].status = "none"
                                      /\ acct' = [acct EXCEPT ![a] = Account(r.v, "active")]
               /\ Recorded(TRUE) /\ elsewhere' = elsewhere \cup {"audits"}
               /\ Answered(r, TRUE, None)
      <3>1. PICK a \in Accounts : /\ acct[a].status = "none"
                                  /\ acct' = [acct EXCEPT ![a] = Account(r.v, "active")]
        BY <2>4
      <3>2. NewIsNameless' /\ \A b \in Accounts : acct'[b].name = acct[b].name
        BY <3>1 DEF Account, NewIsNameless, AccountsTyped
      <3>3. Due("accounts")'
        BY <2>2, <2>4, DueSoon DEF Mutations, Stale
      <3>4. RowsTyped' /\ \A q \in {"rooms", "matches"} : rows'[q] = rows[q]
        BY <2>4 DEF Recorded, RowsTyped
      <3> QED BY <2>1, <2>4, <3>2, <3>3, <3>4, CurrentChanges, KeysAre DEF ServeTells, KeepsNews
    <2> QED BY <2>2, <2>3, <2>4
  <1>4. CASE ServeChange
    <2>1. PICK r \in asked, ok \in BOOLEAN :
            /\ r.k \in {"status", "role", "reset"} /\ Answered(r, ok, None)
            /\ IF ok THEN Change(r.a, r.k, r.v) ELSE UNCHANGED <<acct, rows, auth>>
            /\ elsewhere' = IF ok /\ r.k = "reset" THEN elsewhere \cup {"audits"} ELSE elsewhere
      BY <1>4 DEF ServeChange, IsAdministrator, MayChange
    <2>2. CASE ~ok
      BY <1>a, <2>1, <2>2 DEF auth
    <2>3. CASE ok
      <3>1. /\ \A q \in Keys \ {"accounts", "audits"} : Current(q)' = Current(q)
            /\ RowsTyped' /\ KeepsNews
            /\ (r.k = "reset" \/ acct' = acct) => Current("accounts")' = Current("accounts")
        BY <2>1, <2>3, ChangeTells
      <3>2. NewIsNameless'
        BY <2>1, <2>3, ChangeKeepsNames DEF Change, AskedSound, Sound
      <3>3. CASE r.k = "reset"
        BY <2>1, <2>3, <3>1, <3>2, <3>3 DEF ServeTells
      <3>4. CASE r.k # "reset"
        <4>1. r.k \in Mutations /\ Stale(r) = {"accounts", "audits"} /\ Answered(r, TRUE, None)
          BY <2>1, <2>3, <3>4 DEF Mutations, Stale
        <4>2. Due("accounts")' /\ Due("audits")'
          BY <4>1, DueSoon
        <4> QED BY <3>1, <3>2, <4>2 DEF ServeTells
      <3> QED BY <3>3, <3>4
    <2> QED BY <2>2, <2>3
  <1>5. CASE ServeCloseRoom
    <2>1. PICK r \in asked : r.k = "close" /\ Answered(r, IsAdministrator, None)
      BY <1>5 DEF ServeCloseRoom
    <2>2. \/ IsAdministrator /\ rows' = [rows EXCEPT !.rooms = "closed", !.audits = @ + 1] /\ Announce({})
          \/ UNCHANGED <<rows, auth>>
      BY <1>5 DEF ServeCloseRoom
    <2>3. UNCHANGED acct
      BY <1>5 DEF ServeCloseRoom
    <2>4. CASE UNCHANGED <<rows, auth>>
      BY <1>a, <2>3, <2>4 DEF auth
    <2>5. CASE IsAdministrator /\ rows' = [rows EXCEPT !.rooms = "closed", !.audits = @ + 1] /\ Announce({})
      <3>1. Stale(r) = {"rooms", "audits"} /\ r.k \in Mutations /\ Answered(r, TRUE, None)
        BY <2>1, <2>5 DEF Stale, Mutations, IsAdministrator
      <3>2. Due("rooms")' /\ Due("audits")'
        BY <3>1, DueSoon
      <3>3. RowsTyped' /\ rows'["matches"] = rows["matches"]
        <4>1. rows' = [[rows EXCEPT !["rooms"] = "closed"] EXCEPT !["audits"] = rows["audits"] + 1]
          BY <2>5 DEF RowsTyped
        <4> DEFINE closed == [rows EXCEPT !["rooms"] = "closed"]
        <4>2. /\ closed = [k \in {"rooms", "matches", "audits"} |-> closed[k]]
              /\ closed["matches"] = rows["matches"]
          BY DEF RowsTyped
        <4>3. rows' = [closed EXCEPT !["audits"] = rows["audits"] + 1]
          BY <4>1
        <4> HIDE DEF closed
        <4>4. /\ rows' = [k \in {"rooms", "matches", "audits"} |-> rows'[k]]
              /\ rows'["audits"] = rows["audits"] + 1 /\ rows'["matches"] = closed["matches"]
          BY <4>2, <4>3
        <4>5. rows["audits"] + 1 \in Nat
          BY DEF RowsTyped
        <4> QED BY <4>2, <4>4, <4>5 DEF RowsTyped
      <3> QED BY <1>b, <2>3, <2>5, <3>2, <3>3, AnnounceTells, CurrentChanges, KeysAre DEF ServeTells
    <2> QED BY <2>2, <2>4, <2>5
  <1>6. CASE ServeVoidMatch
    <2>1. PICK r \in asked : r.k = "void" /\ Answered(r, IsAdministrator /\ rows.matches # "voided", None)
      BY <1>6 DEF ServeVoidMatch
    <2>2. UNCHANGED <<acct, news>>
          /\ rows' = IF IsAdministrator THEN [rows EXCEPT !.matches = "voided"] ELSE rows
      BY <1>6 DEF ServeVoidMatch, auth
    <2>3. CASE IsAdministrator /\ rows.matches # "voided"
      <3>1. Stale(r) = {"matches", "audits"} /\ r.k \in Mutations /\ Answered(r, TRUE, None)
        BY <2>1, <2>3 DEF Stale, Mutations, IsAdministrator
      <3>2. Due("matches")'
        BY <3>1, DueSoon
      <3>3. RowsTyped' /\ \A q \in {"rooms", "audits"} : rows'[q] = rows[q]
        BY <2>2, <2>3 DEF RowsTyped
      <3> QED BY <1>b, <2>2, <3>2, <3>3, CurrentChanges, KeysAre DEF ServeTells, KeepsNews
    <2>4. CASE ~(IsAdministrator /\ rows.matches # "voided")
      <3>1. rows' = rows
        BY <2>2, <2>4 DEF RowsTyped
      <3> QED BY <1>a, <2>2, <3>1
    <2> QED BY <2>3, <2>4
  <1>7. CASE OtherChanges
    <2>1. elsewhere' = elsewhere \cup {"accounts", "audits"}
      BY <1>7 DEF OtherChanges
    <2>2. ASSUME NEW a, NEW k \in {"status", "role", "reset"},
                 NEW v \in {"active", "disabled", "deleted", "administrator", "player"},
                 k = "status" <=> v \in {"active", "disabled", "deleted"}, Change(a, k, v)
          PROVE  ServeTells /\ KeepsNews /\ NewIsNameless' /\ RowsTyped'
      <3>1. k = "status" => v \in Statuses
        BY <2>2 DEF Statuses
      <3>2. NewIsNameless'
        BY <2>2, <3>1, ChangeKeepsNames DEF Change
      <3> QED BY <2>1, <2>2, <3>2, ChangeTells DEF ServeTells
    <2> QED BY <1>7, <2>2 DEF OtherChanges
  <1>8. CASE OtherFinishes
    <2>1. PICK a \in Accounts : judged = Request("role", a, "player")
      BY <1>8 DEF OtherFinishes, JudgedDemotes
    <2>2. Change(a, "role", "player") /\ elsewhere' = elsewhere \cup {"accounts", "audits"}
      BY <1>8, <2>1 DEF OtherFinishes, Request
    <2>3. NewIsNameless'
      BY <2>2, ChangeKeepsNames DEF Change
    <2> QED BY <2>2, <2>3, ChangeTells DEF ServeTells
  <1>9. CASE OtherPlays
    <2>1. UNCHANGED acct /\ Announce({"rooms"})
          /\ rows' = [rows EXCEPT !.rooms = IF @ = "waiting" THEN "active" ELSE "waiting"]
      BY <1>9 DEF OtherPlays
    <2>2. RowsTyped' /\ \A q \in {"matches", "audits"} : rows'[q] = rows[q]
      BY <2>1 DEF RowsTyped
    <2> QED BY <1>b, <2>1, <2>2, AnnounceTells, CurrentChanges, KeysAre DEF ServeTells
  <1> QED
    BY <1>1, <1>2, <1>3, <1>4, <1>5, <1>6, <1>7, <1>8, <1>9 DEF Serve

\* A load that the server answers carries what it has, and ends the excuse.
LEMMA ServeLoads ==
    ASSUME Typed, Once, Serve
    PROVE  /\ \A k \in elsewhere \ elsewhere' : InFlight(k)' /\ \A m \in answered : m.r.k # k
           /\ \A m \in answered' : \/ m \in answered \/ m.r.k \notin Keys
                                   \/ (m.ok => m.d = Current(m.r.k)')
  <1> USE DEF Typed
  <1>a. ASSUME NEW r, r.k \in Other, NEW ok, NEW d, Answered(r, ok, d)
        PROVE  \A m \in answered' : m \in answered \/ m.r.k \notin Keys
    <2>1. \A m \in answered' : m \in answered \/ m.r = r
      BY <1>a DEF Answered
    <2> QED BY <1>a, <2>1, NamesDiffer
  <1>1. CASE ServeQuery
    <2>1. PICK r \in asked, ok \in BOOLEAN :
            /\ r.k \in Keys /\ Answered(r, ok, IF ok THEN Current(r.k) ELSE None)
            /\ elsewhere' = elsewhere \ {r.k}
      BY <1>1 DEF ServeQuery, IsAdministrator
    <2>2. UNCHANGED <<acct, rows>>
      BY <1>1 DEF ServeQuery, server
    <2>3. \A m \in answered' : m \in answered \/ (m.r = r /\ (m.ok => m.d = Current(r.k)))
      BY <2>1 DEF Answered
    <2>4. \A m \in answered : m.r.k # r.k
      BY <2>1, KindsOf DEF Once
    <2>5. \E m \in answered' : m.r = r
      BY <2>1, AnsweredIs
    <2>6. InFlight(r.k)'
      BY <2>5, FlightIs
    <2>7. Current(r.k)' = Current(r.k)
      BY <2>2, CurrentKept
    <2> QED BY <2>1, <2>3, <2>4, <2>6, <2>7
  <1>2. CASE \/ ServeMe \/ ServeLogin \/ ServeLogout \/ ServeProfile \/ ServePassword
             \/ ServeChange \/ ServeCreate \/ ServeCloseRoom \/ ServeVoidMatch
    <2>1. PICK r, ok, d : r \in asked /\ r.k \in Other /\ Answered(r, ok, d)
      <3>1. {"me", "login", "logout", "name", "password", "status", "role", "reset", "create", "close",
             "void"} \subseteq Other
        BY DEF Other
      <3>2. CASE ServeMe \/ ServeProfile
        BY <3>1, <3>2 DEF ServeMe, ServeProfile
      <3>3. CASE ServeLogin \/ ServeLogout \/ ServePassword
        BY <3>1, <3>3 DEF ServeLogin, ServeLogout, ServePassword
      <3>4. CASE ServeChange
        BY <3>1, <3>4 DEF ServeChange
      <3>5. CASE ServeCreate
        BY <3>1, <3>5 DEF ServeCreate
      <3>6. CASE ServeCloseRoom \/ ServeVoidMatch
        BY <3>1, <3>6 DEF ServeCloseRoom, ServeVoidMatch
      <3> QED BY <1>2, <3>2, <3>3, <3>4, <3>5, <3>6
    <2>2. elsewhere \subseteq elsewhere'
      BY <1>2 DEF ServeMe, ServeLogin, ServeLogout, ServeProfile, ServePassword, ServeChange,
         ServeCreate, ServeCloseRoom, ServeVoidMatch, Announce
    <2> QED BY <1>a, <2>1, <2>2
  <1>3. CASE OtherChanges \/ OtherAsks \/ OtherFinishes \/ OtherPlays
    <2>1. UNCHANGED answered /\ elsewhere \subseteq elsewhere'
      BY <1>3 DEF OtherChanges, OtherAsks, OtherFinishes, OtherPlays, Announce
    <2> QED BY <2>1
  <1> QED
    BY <1>1, <1>2, <1>3 DEF Serve

LEMMA FreshServe ==
    ASSUME Typed, Typed', Once, Sessions, NewIsNameless, RowsTyped, Fresh, Serve
    PROVE  Fresh'
  <1>1. /\ UNCHANGED <<user, page, tab, cache, stale, failed, missed>>
        /\ KeepsDue /\ \A k : InFlight(k) => InFlight(k)'
    BY ServeKeeps DEF Served
  <1>2. \A k \in Keys : Current(k)' = Current(k) \/ Due(k)' \/ k \in elsewhere'
    BY ServeTellsAll DEF ServeTells
  <1>3. \A k : Due(k) => Due(k)' \/ k \in elsewhere'
    BY <1>1, ServeTellsAll, DueKept
  <1>4. ASSUME NEW k \in Keys, k \notin elsewhere', FreshKey(k) PROVE FreshKey(k)'
    BY <1>1, <1>2, <1>3, <1>4 DEF FreshKey
  <1>5. ASSUME NEW k \in elsewhere \ elsewhere' PROVE FreshKey(k)'
    BY <1>5, ServeLoads DEF FreshKey
  <1>6. AnswersAreFresh'
    <2> SUFFICES ASSUME NEW m \in answered', m.ok, m.r.k \in Keys \ (missed' \cup elsewhere')
                 PROVE  m.d = Current(m.r.k)' \/ Due(m.r.k)'
      BY DEF AnswersAreFresh
    <2>1. CASE m \in answered
      <3>1. m.r.k \notin missed \cup elsewhere
        BY <1>1, <2>1, ServeLoads
      <3> QED BY <1>2, <1>3, <2>1, <3>1 DEF Fresh, AnswersAreFresh
    <2>2. CASE m \notin answered
      BY <2>2, ServeLoads
    <2> QED BY <2>1, <2>2
  <1>7. Visible' = Visible /\ Visible \subseteq Keys /\ Accounts \subseteq Keys
    BY <1>1, VisibleTyped DEF Visible, Keys
  <1>8. PagesAreFresh'
    <2> SUFFICES ASSUME NEW k \in Visible' \ (failed' \cup missed' \cup elsewhere')
                 PROVE  FreshKey(k)'
      BY DEF PagesAreFresh
    <2> QED BY <1>1, <1>4, <1>5, <1>7 DEF Fresh, PagesAreFresh
  <1>9. NamesAreFresh'
    <2> SUFFICES ASSUME NEW k \in Accounts \ (failed' \cup missed' \cup elsewhere' \cup stale')
                 PROVE  cache'[k] = None \/ FreshKey(k)'
      BY DEF NamesAreFresh
    <2> QED BY <1>1, <1>4, <1>5, <1>7 DEF Fresh, NamesAreFresh
  <1> QED
    BY <1>6, <1>8, <1>9 DEF Fresh

LEMMA FreshCleared ==
    ASSUME Typed, Typed', NEW m, NEW more, Clear(m, more), \A k \in Visible' : InFlight(k)'
    PROVE  Fresh'
  <1>1. cache' = [k \in Keys |-> None] /\ \A x \in answered' : x.r.k \notin Keys
    BY DEF Clear
  <1>2. \A k \in Accounts : cache'[k] = None
    BY <1>1 DEF Keys
  <1> QED
    BY <1>1, <1>2 DEF Fresh, AnswersAreFresh, PagesAreFresh, NamesAreFresh, FreshKey

\* An answer that changes nothing that is drawn.
LEMMA FreshLess ==
    ASSUME Typed, Typed', Fresh, NEW m \in answered, answered' = answered \ {m},
           m.r.k \notin Keys, m.r.k \notin Mutations \/ ~m.ok,
           UNCHANGED <<acct, rows, news, user, page, tab, cache, failed, stale, missed, elsewhere, asked>>
    PROVE  Fresh'
  <1>1. KeepsDue /\ KeepsNews /\ Visible' = Visible
    BY DEF KeepsDue, KeepsNews, Visible
  <1>2. KeepsFlight
    BY FlightIs DEF KeepsFlight
  <1> QED
    BY <1>1, <1>2, FreshStays

\* The answer of a load: it is fresh, or what made it stale is still due.
LEMMA FreshLearned ==
    ASSUME Typed, Typed', Once, Fresh, LearnQuery
    PROVE  Fresh'
  <1>1. PICK m \in answered :
          /\ m.r.k \in Keys /\ answered' = answered \ {m}
          /\ cache'  = IF m.ok THEN [cache EXCEPT ![m.r.k] = m.d] ELSE cache
          /\ stale'  = IF m.ok THEN stale \ {m.r.k} ELSE stale
          /\ failed' = IF m.ok THEN failed \ {m.r.k} ELSE failed \cup {m.r.k}
    BY DEF LearnQuery, Learned
  <1> DEFINE q == m.r.k
  <1>2. UNCHANGED <<acct, rows, news, user, page, tab, missed, elsewhere, asked>>
    BY DEF LearnQuery, server, auth, view
  <1>3. m.r.k \notin Mutations
    BY <1>1, NamesDiffer DEF Mutations, Other
  <1>4. KeepsDue /\ KeepsNews /\ Visible' = Visible
    BY <1>1, <1>2, <1>3 DEF KeepsDue, KeepsNews, Visible
  <1>5. \A k : Current(k)' = Current(k) /\ (Due(k) => Due(k)' \/ k \in elsewhere')
    BY <1>2, <1>4, CurrentKept, DueKept
  <1>6. ASSUME NEW k \in Keys, k # q PROVE cache'[k] = cache[k] /\ (InFlight(k) => InFlight(k)')
    <2>1. cache'[k] = cache[k]
      BY <1>1, <1>6 DEF Typed, PagesTyped
    <2> QED BY <1>1, <1>2, <1>6, <2>1, FlightIs
  <1>7. ASSUME NEW k \in Keys, k # q, k \notin elsewhere', FreshKey(k) PROVE FreshKey(k)'
    BY <1>5, <1>6, <1>7 DEF FreshKey
  <1>8. ASSUME m.ok, q \notin missed \cup elsewhere PROVE FreshKey(q)'
    <2>1. cache'[q] = m.d
      BY <1>1, <1>8 DEF Typed, PagesTyped
    <2>2. m.d = Current(q) \/ Due(q)
      BY <1>1, <1>8 DEF Fresh, AnswersAreFresh
    <2> QED BY <1>2, <1>5, <1>8, <2>1, <2>2 DEF FreshKey
  <1>9. AnswersAreFresh'
    BY <1>1, <1>2, <1>5 DEF Fresh, AnswersAreFresh
  <1>10. Visible \subseteq Keys /\ Accounts \subseteq Keys
    BY VisibleTyped DEF Keys
  <1>11. PagesAreFresh'
    <2> SUFFICES ASSUME NEW k \in Visible \ (failed' \cup missed \cup elsewhere)
                 PROVE  FreshKey(k)'
      BY <1>2, <1>4 DEF PagesAreFresh
    <2>1. CASE k = q
      <3>1. m.ok
        BY <1>1, <2>1
      <3> QED BY <1>8, <2>1, <3>1
    <2>2. CASE k # q
      BY <1>1, <1>2, <1>7, <1>10, <2>2 DEF Fresh, PagesAreFresh
    <2> QED BY <2>1, <2>2
  <1>12. NamesAreFresh'
    <2> SUFFICES ASSUME NEW k \in Accounts \ (failed' \cup missed \cup elsewhere \cup stale')
                 PROVE  cache'[k] = None \/ FreshKey(k)'
      BY <1>2 DEF NamesAreFresh
    <2>1. CASE k = q
      <3>1. m.ok
        BY <1>1, <2>1
      <3> QED BY <1>8, <2>1, <3>1
    <2>2. CASE k # q
      BY <1>1, <1>2, <1>6, <1>7, <1>10, <2>2 DEF Fresh, NamesAreFresh
    <2> QED BY <2>1, <2>2
  <1> QED
    BY <1>9, <1>11, <1>12 DEF Fresh

\* News of the rooms: the list is loaded again, or missed what it is about.
LEMMA FreshRooms ==
    ASSUME Typed, Typed', Fresh, LearnRooms
    PROVE  Fresh'
  <1>1. UNCHANGED <<acct, rows, user, page, tab, cache, failed, elsewhere>>
    BY DEF LearnRooms, server, view
  <1>2. Visible' = Visible
    BY <1>1 DEF Visible
  <1>3. CASE "lobby" \in Visible
    <2>1. Invalidate({"lobby"}, {})
      BY <1>3 DEF LearnRooms
    <2> QED BY <1>1, <1>2, <2>1, FreshInvalidated
  <1>4. CASE "lobby" \notin Visible
    <2>1. /\ UNCHANGED <<asked, answered, stale>> /\ missed \subseteq missed'
          /\ InFlight("lobby") => "lobby" \in missed'
      BY <1>4 DEF LearnRooms
    <2>2. \A k : Current(k)' = Current(k) /\ (InFlight(k)' = InFlight(k))
      BY <1>1, <2>1, CurrentKept DEF InFlight
    <2>3. \A k : k # "lobby" /\ Due(k) => Due(k)'
      BY <2>1 DEF Due
    <2>4. AnswersAreFresh'
      <3> SUFFICES ASSUME NEW m \in answered, m.ok, m.r.k \in Keys \ (missed' \cup elsewhere)
                   PROVE  m.d = Current(m.r.k)' \/ Due(m.r.k)'
        BY <1>1, <2>1 DEF AnswersAreFresh
      <3>1. m.r.k # "lobby" /\ m.r.k \notin missed
        BY <2>1, FlightIs
      <3> QED BY <2>2, <2>3, <3>1 DEF Fresh, AnswersAreFresh
    <2>5. \A k : k # "lobby" /\ FreshKey(k) => FreshKey(k)'
      BY <1>1, <2>2, <2>3 DEF FreshKey
    <2>6. PagesAreFresh'
      BY <1>1, <1>2, <1>4, <2>1, <2>5 DEF Fresh, PagesAreFresh
    <2>7. NamesAreFresh'
      BY <1>1, <2>1, <2>5, NamesDiffer DEF Fresh, NamesAreFresh
    <2> QED BY <2>4, <2>6, <2>7 DEF Fresh
  <1> QED
    BY <1>3, <1>4

LEMMA FreshReceive ==
    ASSUME Typed, Typed', Once, LoginAlone, Sessions, Fresh, Receive
    PROVE  Fresh'
  <1> USE DEF Typed
  <1>a. UNCHANGED <<acct, rows>>
    BY ReceiveTyped DEF server
  <1>b. \A k \in Mutations \cup {"me", "login", "logout", "password"} : k \notin Keys
    BY NamesDiffer DEF Mutations, Other
  <1>1. CASE LearnQuery
    BY <1>1, FreshLearned
  <1>2. CASE LearnRooms
    BY <1>2, FreshRooms
  <1>3. CASE Reconnect
    <2>1. UNCHANGED <<news, user, page, tab, cache, failed, stale, missed, elsewhere, asked, answered>>
      BY <1>3 DEF Reconnect, view, data
    <2>2. KeepsDue /\ KeepsNews /\ Visible' = Visible /\ KeepsFlight
      BY <2>1, FlightIs DEF KeepsDue, KeepsNews, Visible, KeepsFlight
    <2> QED BY <1>a, <2>1, <2>2, FreshStays
  <1>4. CASE LearnMe
    <2>1. PICK m \in answered : /\ m.r.k = "me" /\ Learned(m) /\ Dial(user')
                                /\ page' = Guarded(page, user')
                                /\ IF page' = page THEN UNCHANGED tab ELSE Left
                                /\ IF user' = user THEN UNCHANGED <<asked, missed>>
                                                   ELSE Load(page', user', tab')
      BY <1>4 DEF LearnMe
    <2>2. UNCHANGED <<cache, stale, failed>>
      BY <1>4 DEF LearnMe
    <2>3. KeepsNews /\ elsewhere \subseteq elsewhere'
      BY <2>1, NewsKept DEF AuthTyped
    <2>4. CASE user' # user
      <3>1. Load(page', user', tab') /\ answered' = answered \ {m}
        BY <2>1, <2>4 DEF Learned
      <3> QED BY <1>a, <2>1, <2>2, <2>3, <3>1, FreshLoad
    <2>5. CASE user' = user
      <3>0. Guarded(page, user') = page
        BY <2>5 DEF PagesTyped
      <3>1. page' = page /\ tab' = tab /\ UNCHANGED <<asked, missed, sock, news, elsewhere>>
        BY <2>1, <2>5, <3>0 DEF Dial
      <3> QED BY <1>a, <1>b, <2>1, <2>2, <2>5, <3>1, FreshLess DEF Learned, Mutations
    <2> QED BY <2>4, <2>5
  <1>5. CASE LearnLogin
    <2>1. PICK m \in answered :
            /\ m.r.k = "login" /\ Learned(m)
            /\ IF m.ok THEN user' = m.d /\ Dial(m.d) /\ page' = "lobby" /\ Load("lobby", m.d, tab)
                       ELSE UNCHANGED <<user, sock, news, elsewhere, page, asked, missed>>
      BY <1>5 DEF LearnLogin
    <2>2. UNCHANGED <<tab, cache, stale, failed>>
      BY <1>5 DEF LearnLogin
    <2>3. CASE m.ok
      <3>1. KeepsNews /\ elsewhere \subseteq elsewhere'
        BY <2>1, <2>3, NewsKept DEF AuthTyped
      <3>2. Load(page', user', tab')
        BY <2>1, <2>2, <2>3
      <3> QED BY <1>a, <2>1, <2>2, <3>1, <3>2, FreshLoad DEF Learned
    <2>4. CASE ~m.ok
      BY <1>a, <1>b, <2>1, <2>2, <2>4, FreshLess DEF Learned
    <2> QED BY <2>3, <2>4
  <1>6. CASE LearnLogout
    <2>1. PICK m \in answered :
            /\ m.r.k = "logout"
            /\ \/ user' = Unknown /\ Clear(m, {Query("me")})
               \/ Drawn /\ answered' = (answered \ {m}) \cup Found /\ UNCHANGED <<view, data, asked>>
      BY <1>6 DEF LearnLogout
    <2>2. CASE user' = Unknown /\ Clear(m, {Query("me")})
      <3>1. Visible' = {}
        BY <2>2 DEF Visible, VisibleOf
      <3> QED BY <2>2, <3>1, FreshCleared
    <2>3. CASE Drawn /\ answered' = (answered \ {m}) \cup Found /\ UNCHANGED <<view, data, asked>>
      <3>1. KeepsDue /\ KeepsFlight
        BY <1>b, <2>1, <2>3, FlightIs DEF KeepsDue, KeepsFlight, Mutations
      <3> QED BY <1>a, <2>3, <3>1, FreshDrawn DEF Sessions, view, data
    <2> QED BY <2>1, <2>2, <2>3
  <1>7. CASE LearnPassword
    <2>1. PICK m \in answered :
            /\ m.r.k = "password"
            /\ \/ Clear(m, {Query(k) : k \in VisibleOf(page', user, tab)})
               \/ Learned(m) /\ UNCHANGED <<page, data, asked>>
      BY <1>7 DEF LearnPassword
    <2>2. UNCHANGED <<news, user, tab, elsewhere>>
      BY <1>7 DEF LearnPassword
    <2>3. CASE Clear(m, {Query(k) : k \in VisibleOf(page', user, tab)})
      <3>1. \A k \in VisibleOf(page', user, tab) : Query(k) \in asked'
        BY <2>3 DEF Clear
      <3>2. \A k \in Visible' : InFlight(k)'
        BY <2>2, <3>1, KindsOf, FlightIs DEF Visible
      <3> QED BY <2>3, <3>2, FreshCleared
    <2>4. CASE Learned(m) /\ UNCHANGED <<page, data, asked>>
      BY <1>a, <1>b, <2>1, <2>2, <2>4, FreshLess DEF Learned, data, Mutations
    <2> QED BY <2>1, <2>3, <2>4
  <1>8. CASE LearnChange \/ LearnDialog
    <2>1. PICK m \in answered :
            /\ m.r.k \in {"status", "role", "close", "void", "create", "reset"} /\ Learn(m)
            /\ (m.ok /\ m.r.k = "status") \/ UNCHANGED cache
            /\ \A k \in Keys \ {"accounts"} : cache'[k] = cache[k]
      BY <1>8 DEF LearnChange, LearnDialog, PagesTyped
    <2>2. UNCHANGED <<news, user, page, tab, failed, elsewhere>>
      BY <1>8 DEF LearnChange, LearnDialog, auth, view
    <2>3. CASE m.ok
      <3>1. Invalidate(Stale(m.r), {m}) /\ m.r.k \in Mutations
        BY <2>1, <2>3 DEF Learn, Mutations
      <3>2. \A k \in Keys \ Stale(m.r) : cache'[k] = cache[k]
        BY <2>1 DEF Stale
      <3>3. KeepsNews /\ Visible' = Visible
        BY <2>2 DEF KeepsNews, Visible
      <3> QED BY <1>a, <2>2, <3>1, <3>2, <3>3, FreshInvalidated
    <2>4. CASE ~m.ok
      BY <1>a, <1>b, <2>1, <2>2, <2>4, FreshLess DEF Learn, Learned, Mutations
    <2> QED BY <2>3, <2>4
  <1>9. CASE LearnProfile
    <2>1. PICK m \in answered :
            /\ m.r.k = "name" /\ Learn(m)
            /\ IF m.ok THEN Drawn ELSE UNCHANGED <<user, emptied, sock, news, elsewhere>>
      BY <1>9 DEF LearnProfile
    <2>2. UNCHANGED <<page, tab, cache, failed>>
      BY <1>9 DEF LearnProfile
    <2>3. CASE m.ok
      <3>1. Invalidate(Stale(m.r), {m}) /\ m.r.k \in Mutations /\ Drawn
        BY <2>1, <2>3 DEF Learn, Mutations
      <3>2. KeepsNews /\ elsewhere \subseteq elsewhere'
        BY <3>1, NewsKept DEF Drawn, AuthTyped
      <3>3. Visible' \subseteq Visible
        BY <2>2, <3>1, DrawnIs DEF Sessions, Visible, VisibleOf
      <3> QED BY <1>a, <2>2, <3>1, <3>2, <3>3, FreshInvalidated
    <2>4. CASE ~m.ok
      BY <1>a, <1>b, <2>1, <2>2, <2>4, FreshLess DEF Learn, Learned, Mutations
    <2> QED BY <2>3, <2>4
  <1> QED
    BY <1>1, <1>2, <1>3, <1>4, <1>5, <1>6, <1>7, <1>8, <1>9 DEF Receive

-----------------------------------------------------------------------------
(***************************************************************************)
(* The user object has the name of its account, or it is asked for again,  *)
(* or the answer to a new name will ask for it.                            *)
(***************************************************************************)

AnsweredNames ==
    \A m \in answered :
        m.r.k \in {"me", "login"} /\ m.ok => m.d.name = acct[m.d.a].name \/ Due("me")
UserName == Known /\ ~emptied => user.name = acct[user.a].name \/ InFlight("me") \/ Due("me")

Names == AnsweredNames /\ UserName

KeepsName == \A m \in answered : m.r.k = "name" /\ m.ok => m \in answered'

\* Only the answer to a new name asks for the user.
LEMMA DueMe ==
    ASSUME Typed
    PROVE  Due("me") <=> \E m \in answered : m.r.k = "name" /\ m.ok
  <1>1. \A m \in answered : m.r.k \in Mutations => ("me" \in Stale(m.r) <=> m.r.k = "name")
    <2>1. \A m \in answered : Sound(m.r)
      BY DEF Typed, AnswersSound
    <2> QED BY <2>1, StaleKeys
  <1> QED
    BY <1>1 DEF Due, Mutations

LEMMA NamesStay ==
    ASSUME Typed, Typed', Names, UNCHANGED acct, KeepsName,
           \A m \in answered' : m \in answered \/ ~m.ok \/ m.r.k \notin {"me", "login"},
           \/ ~(Known' /\ ~emptied')
           \/ \E m \in answered : m.r.k \in {"me", "login"} /\ m.ok /\ user' = m.d
           \/ UNCHANGED user /\ ~emptied /\ (InFlight("me") => InFlight("me")')
    PROVE  Names'
  <1>1. Due("me") => Due("me")'
    <2>1. Due("me")' <=> \E m \in answered' : m.r.k = "name" /\ m.ok
      <3>1. \A m \in answered' : m.r.k \in Mutations => ("me" \in Stale(m.r) <=> m.r.k = "name")
        <4>1. \A m \in answered' : Sound(m.r)
          BY DEF Typed, AnswersSound
        <4> QED BY <4>1, StaleKeys
      <3> QED BY <3>1 DEF Due, Mutations
    <2> QED BY <2>1, DueMe DEF KeepsName
  <1>2. AnsweredNames'
    BY <1>1 DEF Names, AnsweredNames
  <1>3. UserName'
    <2>1. CASE ~(Known' /\ ~emptied')
      BY <2>1 DEF UserName
    <2>2. CASE \E m \in answered : m.r.k \in {"me", "login"} /\ m.ok /\ user' = m.d
      BY <1>1, <2>2 DEF Names, AnsweredNames, UserName
    <2>3. CASE UNCHANGED user /\ ~emptied /\ (InFlight("me") => InFlight("me")')
      BY <1>1, <2>3 DEF Names, UserName, Known
    <2> QED BY <2>1, <2>2, <2>3
  <1> QED
    BY <1>2, <1>3 DEF Names

LEMMA NamesDrawn ==
    ASSUME Typed, Typed', Names, Drawn, SignedOutHasNoSocket, UNCHANGED acct, KeepsName,
           answered' \subseteq answered \cup Found, InFlight("me") => InFlight("me")'
    PROVE  Names'
  <1>1. \A m \in answered' : m \in answered \/ ~m.ok
    BY FoundSound
  <1>2. ~Known' \/ (UNCHANGED user /\ ~emptied)
    BY DrawnIs DEF Known
  <1> QED
    BY <1>1, <1>2, NamesStay

LEMMA NamesServe ==
    ASSUME Typed, Typed', Once, LoginAlone, Sessions, NewIsNameless, Names, Serve
    PROVE  Names'
  <1> USE DEF Typed
  <1>1. /\ UNCHANGED <<user, emptied>> /\ KeepsDue /\ (InFlight("me") => InFlight("me")')
    BY ServeKeeps, ServeKinds DEF Served, ServeNet
  <1>2. Due("me") => Due("me")'
    BY <1>1, NamesDiffer DEF KeepsDue, Due
  <1>3. (\A a \in Accounts : acct'[a].name = acct[a].name) \/ Due("me")'
    <2>a. ASSUME NEW a, NEW k \in {"status", "role", "reset"}, NEW v, Change(a, k, v)
          PROVE  \A b \in Accounts : acct'[b].name = acct[b].name
      BY <2>a, ChangeKeepsNames DEF Change
    <2>1. CASE ServeProfile
      <3>1. PICK r \in asked :
              /\ r.k = "name" /\ Answered(r, Session # None, None)
              /\ acct' = IF Session # None THEN [acct EXCEPT ![Session].name = r.v] ELSE acct
        BY <2>1 DEF ServeProfile
      <3>2. CASE Session # None
        <4>1. Answered(r, TRUE, None) /\ "me" \in Stale(r)
          BY <3>1, <3>2 DEF Stale
        <4> QED BY <3>1, <4>1, DueSoon DEF Mutations
      <3> QED BY <3>1, <3>2
    <2>2. CASE ServeCreate
      <3>1. \/ UNCHANGED acct
            \/ \E r, a : /\ {b \in Accounts : acct[b].status = "none"} # {}
                         /\ a = CHOOSE b \in {c \in Accounts : acct[c].status = "none"} : TRUE
                         /\ acct' = [acct EXCEPT ![a] = Account(r.v, "active")]
        BY <2>2 DEF ServeCreate
      <3>2. \/ UNCHANGED acct
            \/ \E r : \E a \in Accounts : /\ acct[a].status = "none"
                                          /\ acct' = [acct EXCEPT ![a] = Account(r.v, "active")]
        BY <3>1
      <3> QED BY <3>2 DEF Account, NewIsNameless, AccountsTyped
    <2>3. CASE ServeChange \/ OtherChanges \/ OtherFinishes
      <3>1. CASE OtherFinishes
        <4>1. PICK a \in Accounts : judged = Request("role", a, "player")
          BY <3>1 DEF OtherFinishes, JudgedDemotes
        <4> QED BY <2>a, <3>1, <4>1 DEF OtherFinishes, Request
      <3>2. CASE ServeChange
        BY <2>a, <3>2 DEF ServeChange
      <3>3. CASE OtherChanges
        BY <2>a, <3>3 DEF OtherChanges
      <3> QED BY <2>3, <3>1, <3>2, <3>3
    <2>4. CASE \/ ServeMe \/ ServeQuery \/ ServeLogin \/ ServeLogout \/ ServePassword
               \/ ServeCloseRoom \/ ServeVoidMatch \/ OtherAsks \/ OtherPlays
      BY <2>4 DEF ServeMe, ServeQuery, ServeLogin, ServeLogout, ServePassword, ServeCloseRoom,
         ServeVoidMatch, OtherAsks, OtherPlays, server
    <2> QED BY <2>1, <2>2, <2>3, <2>4 DEF Serve
  <1>4. ASSUME NEW a \in Accounts, NEW n, n = acct[a].name \/ Due("me")
        PROVE  n = acct'[a].name \/ Due("me")'
    BY <1>2, <1>3, <1>4
  <1>5. ASSUME NEW m \in answered', m \notin answered, m.ok, m.r.k \in {"me", "login"}
        PROVE  \E a \in Accounts : m.d = Profile(a) /\ acct' = acct
    <2>1. CASE ServeMe
      <3>1. PICK r \in asked : Answered(r, Session # None, IF Session # None THEN Profile(Session) ELSE None)
        BY <2>1 DEF ServeMe
      <3>2. m.d = Profile(Session) /\ Session # None
        <4>1. m = [r |-> r, ok |-> Session # None,
                   d |-> IF Session # None THEN Profile(Session) ELSE None]
          BY <1>5, <3>1 DEF Answered
        <4>2. m.ok = (Session # None) /\ m.d = IF Session # None THEN Profile(Session) ELSE None
          BY <4>1
        <4> QED BY <1>5, <4>2
      <3>3. Session \in Accounts
        BY <3>2 DEF Session, AuthTyped
      <3> QED BY <2>1, <3>2, <3>3 DEF ServeMe, server
    <2>2. CASE ServeLogin
      <3>1. PICK r \in asked : /\ r.k = "login"
                               /\ Answered(r, TRUE, Profile(r.a)) \/ Answered(r, FALSE, None)
        BY <2>2 DEF ServeLogin
      <3>2. m.d = Profile(r.a) /\ r.a \in Accounts
        BY <1>5, <3>1 DEF Answered, AskedSound, Sound
      <3> QED BY <2>2, <3>2 DEF ServeLogin, server
    <2>3. CASE ~ServeMe /\ ~ServeLogin
      <3>1. \A x \in answered' : x \in answered \/ x.r.k \notin {"me", "login"}
        <4>a. ASSUME NEW r, r.k \notin {"me", "login"}, NEW ok, NEW d, Answered(r, ok, d)
              PROVE  \A x \in answered' : x \in answered \/ x.r.k \notin {"me", "login"}
          BY <4>a DEF Answered
        <4>1. CASE ServeQuery
          <5>1. PICK r, ok, d : r \in asked /\ r.k \in Keys /\ Answered(r, ok, d)
            BY <4>1 DEF ServeQuery
          <5> QED BY <4>a, <5>1, KindsOf
        <4>2. CASE ServeLogout \/ ServePassword \/ ServeProfile
          BY <4>2, <4>a DEF ServeLogout, ServePassword, ServeProfile
        <4>3. CASE ServeChange
          BY <4>3, <4>a DEF ServeChange
        <4>4. CASE ServeCreate
          BY <4>4, <4>a DEF ServeCreate
        <4>5. CASE ServeCloseRoom \/ ServeVoidMatch
          BY <4>5, <4>a DEF ServeCloseRoom, ServeVoidMatch
        <4>6. CASE OtherChanges \/ OtherAsks \/ OtherFinishes \/ OtherPlays
          BY <4>6 DEF OtherChanges, OtherAsks, OtherFinishes, OtherPlays
        <4> QED BY <2>3, <4>1, <4>2, <4>3, <4>4, <4>5, <4>6 DEF Serve
      <3> QED BY <1>5, <3>1
    <2> QED BY <2>1, <2>2, <2>3
  <1>6. AnsweredNames'
    <2> SUFFICES ASSUME NEW m \in answered', m.r.k \in {"me", "login"}, m.ok
                 PROVE  m.d.name = acct'[m.d.a].name \/ Due("me")'
      BY DEF AnsweredNames
    <2>1. CASE m \in answered
      <3>1. m.d.a \in Accounts
        BY <2>1 DEF AnswersSound, Users
      <3> QED BY <1>4, <2>1, <3>1 DEF Names, AnsweredNames
    <2>2. CASE m \notin answered
      <3>1. PICK a \in Accounts : m.d = Profile(a) /\ acct' = acct
        BY <1>5, <2>2
      <3>2. m.d.a = a /\ m.d.name = acct[a].name
        BY <3>1 DEF Profile
      <3> QED BY <3>1, <3>2
    <2> QED BY <2>1, <2>2
  <1>7. UserName'
    BY <1>1, <1>4, KnownUsers DEF Names, UserName, Known
  <1> QED
    BY <1>6, <1>7 DEF Names

LEMMA NamesActs ==
    ASSUME Typed, Typed', LoginAlone, Sessions, Names, Act
    PROVE  Names'
  <1>1. CASE SubmitLogin
    <2>1. Drawn /\ answered = {} /\ answered' \subseteq Found /\ UNCHANGED acct
          /\ asked = {}
      BY <1>1 DEF SubmitLogin, server
    <2>2. KeepsName /\ ~InFlight("me")
      BY <2>1, FlightIs DEF KeepsName
    <2> QED BY <2>1, <2>2, NamesDrawn DEF Sessions
  <1>2. CASE ClickLogout
    <2>1. /\ Drawn /\ asked \subseteq asked' /\ answered' = answered \cup Found /\ UNCHANGED acct
      BY <1>2 DEF ClickLogout, server
    <2>2. KeepsName /\ (InFlight("me") => InFlight("me")')
      BY <2>1, FlightIs DEF KeepsName
    <2> QED BY <2>1, <2>2, NamesDrawn DEF Sessions
  <1>3. CASE UserOnly
    <2>1. UNCHANGED <<acct, user, emptied, answered>>
      BY <1>3 DEF UserOnly, server, auth
    <2>2. asked \subseteq asked'
      BY <1>3, LoadIs DEF UserOnly, UserAsks, UserOpens, UserTurns
    <2>3. KeepsName /\ (InFlight("me") => InFlight("me")') /\ Known' = Known
      BY <2>1, <2>2, FlightIs DEF KeepsName, Known
    <2> QED BY <2>1, <2>3, NamesStay
  <1> QED
    BY <1>1, <1>2, <1>3, ActKinds

LEMMA NamesReceive ==
    ASSUME Typed, Typed', Once, LoginAlone, Sessions, Names, Receive
    PROVE  Names'
  <1> USE DEF Typed
  <1>a. UNCHANGED acct
    BY ReceiveTyped DEF server
  <1>b. \A k \in Mutations \cup {"logout", "password", "name"} : k \notin Keys \cup {"me", "login"}
    BY NamesDiffer DEF Mutations, Other
  <1>c. ASSUME NEW ks \in SUBSET Keys, NEW done, Invalidate(ks, done),
               \A m \in done : m.r.k # "me" /\ m.r.k # "name"
        PROVE  KeepsName /\ (InFlight("me") => InFlight("me")') /\ answered' \subseteq answered
    <2>1. PICK again \in SUBSET ks :
             /\ asked' = {r \in asked : r.k \notin again} \cup {Query(k) : k \in again}
             /\ answered' = {x \in answered \ done : x.r.k \notin again}
      BY <1>c, InvalidateIs
    <2>2. "me" \notin again /\ "name" \notin again
      BY <1>b, <1>c, KindsOf
    <2> QED BY <1>c, <2>1, <2>2, FlightIs DEF KeepsName
  <1>d. ASSUME NEW m \in answered, m.r.k # "me", m.r.k # "name" \/ ~m.ok, answered' = answered \ {m},
               UNCHANGED <<user, emptied>>, asked \subseteq asked'
        PROVE  Names'
    <2>1. KeepsName /\ (InFlight("me") => InFlight("me")')
      BY <1>d, FlightIs DEF KeepsName
    <2> QED BY <1>a, <1>d, <2>1, NamesStay DEF Known
  <1>e. ASSUME UNCHANGED <<user, emptied>>, KeepsName, InFlight("me") => InFlight("me")',
               answered' \subseteq answered
        PROVE  Names'
    BY <1>a, <1>e, NamesStay DEF Known
  <1>1. CASE LearnQuery
    <2>1. PICK m \in answered : m.r.k \in Keys /\ Learned(m)
      BY <1>1 DEF LearnQuery
    <2>2. m.r.k \notin {"me", "name"}
      BY <1>b, <2>1, KindsOf
    <2> QED BY <1>1, <1>d, <2>1, <2>2 DEF LearnQuery, Learned, auth
  <1>2. CASE LearnRooms
    <2>1. UNCHANGED <<user, emptied>>
      BY <1>2 DEF LearnRooms
    <2>2. CASE Invalidate({"lobby"}, {})
      BY <1>c, <1>e, <2>1, <2>2 DEF Keys
    <2>3. CASE UNCHANGED <<asked, answered>>
      BY <1>e, <2>1, <2>3, FlightIs DEF KeepsName
    <2> QED BY <1>2, <2>2, <2>3 DEF LearnRooms
  <1>3. CASE Reconnect
    <2>1. UNCHANGED <<user, emptied, asked, answered>>
      BY <1>3 DEF Reconnect
    <2> QED BY <1>e, <2>1, FlightIs DEF KeepsName
  <1>4. CASE LearnMe
    <2>1. PICK m \in answered : /\ m.r.k = "me" /\ answered' = answered \ {m}
                                /\ user' = IF m.ok THEN m.d ELSE None
      BY <1>4 DEF LearnMe, Learned
    <2>2. ~Known' \/ (m.ok /\ user' = m.d)
      BY <2>1 DEF Known
    <2>3. KeepsName
      BY <2>1 DEF KeepsName
    <2> QED BY <1>a, <2>1, <2>2, <2>3, NamesStay
  <1>5. CASE LearnLogin
    <2>1. PICK m \in answered : /\ m.r.k = "login" /\ answered' = answered \ {m}
                                /\ IF m.ok THEN user' = m.d ELSE UNCHANGED <<user, asked>>
      BY <1>5 DEF LearnLogin, Learned
    <2>2. emptied' = emptied
      BY <1>5 DEF LearnLogin
    <2>3. KeepsName
      BY <2>1 DEF KeepsName
    <2>4. CASE m.ok
      BY <1>a, <2>1, <2>3, <2>4, NamesStay
    <2>5. CASE ~m.ok
      BY <1>d, <2>1, <2>2, <2>5
    <2> QED BY <2>4, <2>5
  <1>6. CASE LearnLogout
    <2>1. PICK m \in answered :
            /\ m.r.k = "logout"
            /\ \/ user' = Unknown /\ Clear(m, {Query("me")})
               \/ Drawn /\ answered' = (answered \ {m}) \cup Found /\ UNCHANGED asked
      BY <1>6 DEF LearnLogout
    <2>2. CASE user' = Unknown /\ Clear(m, {Query("me")})
      <3>1. KeepsName /\ answered' \subseteq answered /\ ~Known'
        BY <1>b, <2>1, <2>2 DEF Clear, KeepsName, Known
      <3> QED BY <1>a, <3>1, NamesStay
    <2>3. CASE Drawn /\ answered' = (answered \ {m}) \cup Found /\ UNCHANGED asked
      <3>1. KeepsName /\ (InFlight("me") => InFlight("me")')
        BY <2>1, <2>3, FlightIs DEF KeepsName
      <3> QED BY <1>a, <2>3, <3>1, NamesDrawn DEF Sessions
    <2> QED BY <2>1, <2>2, <2>3
  <1>7. CASE LearnPassword
    <2>1. PICK m \in answered :
            /\ m.r.k = "password"
            /\ \/ emptied' = TRUE /\ Clear(m, {Query(k) : k \in VisibleOf(page', user, tab)})
               \/ Learned(m) /\ UNCHANGED <<emptied, asked>>
      BY <1>7 DEF LearnPassword
    <2>2. UNCHANGED user
      BY <1>7 DEF LearnPassword
    <2>3. CASE emptied' = TRUE /\ Clear(m, {Query(k) : k \in VisibleOf(page', user, tab)})
      <3>1. KeepsName /\ answered' \subseteq answered
        BY <1>b, <2>1, <2>3 DEF Clear, KeepsName
      <3> QED BY <1>a, <2>3, <3>1, NamesStay
    <2>4. CASE Learned(m) /\ UNCHANGED <<emptied, asked>>
      BY <1>d, <2>1, <2>2, <2>4 DEF Learned
    <2> QED BY <2>1, <2>3, <2>4
  <1>8. CASE LearnChange \/ LearnDialog
    <2>1. PICK m \in answered :
            m.r.k \in {"status", "role", "close", "void", "create", "reset"} /\ Learn(m)
      BY <1>8 DEF LearnChange, LearnDialog
    <2>2. UNCHANGED <<user, emptied>>
      BY <1>8 DEF LearnChange, LearnDialog, auth
    <2>3. CASE m.ok
      <3>1. Stale(m.r) \subseteq Keys
        BY <2>1 DEF Stale, Keys, Tabs
      <3> QED BY <1>c, <1>e, <2>1, <2>2, <2>3, <3>1 DEF Learn
    <2>4. CASE ~m.ok
      BY <1>d, <2>1, <2>2, <2>4 DEF Learn, Learned
    <2> QED BY <2>3, <2>4
  <1>9. CASE LearnProfile
    <2>1. PICK m \in answered :
            /\ m.r.k = "name" /\ Learn(m)
            /\ IF m.ok THEN Drawn ELSE UNCHANGED <<user, emptied>>
      BY <1>9 DEF LearnProfile
    <2>2. CASE ~m.ok
      BY <1>d, <2>1, <2>2 DEF Learn, Learned
    <2>3. CASE m.ok
      <3>0. "me" \in Stale(m.r)
        BY <2>1 DEF Stale
      <3>1. Invalidate(Stale(m.r), {m}) /\ Drawn
        BY <2>1, <2>3 DEF Learn
      <3>2. PICK again \in SUBSET (Stale(m.r) \cap (Visible \cup {"me"})) :
               /\ asked' = {r \in asked : r.k \notin again} \cup {Query(k) : k \in again}
               /\ answered' = {x \in answered \ {m} : x.r.k \notin again}
               /\ "me" \in Stale(m.r) \ again => user = Unknown
        BY <3>1, InvalidateIs
      <3>3. CASE "me" \in again
        <4>1. InFlight("me")'
          BY <3>2, <3>3, KindsOf, FlightIs
        <4>2. \A x \in answered' : ~(x.r.k \in {"me", "login"} /\ x.ok)
          BY <2>1, <3>2, <3>3, FlightIs DEF LoginAlone
        <4> QED BY <4>1, <4>2 DEF Names, AnsweredNames, UserName
      <3>4. CASE user = Unknown
        <4>1. ~Known'
          BY <3>1, <3>4, DrawnIs DEF Sessions, Known
        <4>2. \A x \in answered' : ~(x.r.k \in {"me", "login"} /\ x.ok)
          BY <2>1, <3>2, <3>4, FlightIs DEF LoginAlone, Sessions, UnknownWaits
        <4> QED BY <4>1, <4>2 DEF Names, AnsweredNames, UserName
      <3> QED BY <3>0, <3>2, <3>3, <3>4
    <2> QED BY <2>2, <2>3
  <1> QED
    BY <1>1, <1>2, <1>3, <1>4, <1>5, <1>6, <1>7, <1>8, <1>9 DEF Receive

-----------------------------------------------------------------------------
(* The invariant.                                                          *)

PagesInv == SessionInv /\ NewIsNameless /\ RowsTyped /\ Fresh /\ Names

LEMMA InitPages ==
    ASSUME Init
    PROVE  NewIsNameless /\ RowsTyped /\ Fresh /\ Names
  <1>1. NewIsNameless
    BY DEF Init, NewIsNameless, Account
  <1>2. RowsTyped
    BY DEF Init, RowsTyped
  <1>3. user = Unknown /\ answered = {} /\ cache = [k \in Keys |-> None]
    BY DEF Init
  <1>4. ~Known /\ Visible = {} /\ Accounts \subseteq Keys
    BY <1>3 DEF Known, Visible, VisibleOf, Keys
  <1> QED
    BY <1>1, <1>2, <1>3, <1>4 DEF Fresh, AnswersAreFresh, PagesAreFresh, NamesAreFresh, Names,
       AnsweredNames, UserName

LEMMA AlwaysPages == Spec => []PagesInv
  <1>1. Init => NewIsNameless /\ RowsTyped /\ Fresh /\ Names
    BY InitPages
  <1>2. /\ SessionInv /\ SessionInv' /\ NewIsNameless /\ RowsTyped /\ Fresh /\ Names /\ [Next]_vars
        => NewIsNameless' /\ RowsTyped' /\ Fresh' /\ Names'
    <2> SUFFICES ASSUME SessionInv, SessionInv', NewIsNameless, RowsTyped, Fresh, Names, [Next]_vars
                 PROVE  NewIsNameless' /\ RowsTyped' /\ Fresh' /\ Names'
      OBVIOUS
    <2> USE DEF SessionInv
    <2>1. CASE Act
      <3>1. UNCHANGED <<acct, rows>>
        BY <2>1, ActTyped DEF server
      <3>2. Fresh' /\ Names'
        BY <2>1, FreshAct, NamesActs
      <3> QED BY <3>1, <3>2 DEF NewIsNameless, RowsTyped
    <2>2. CASE Serve
      BY <2>2, ServeTellsAll, FreshServe, NamesServe
    <2>3. CASE Receive
      <3>1. UNCHANGED <<acct, rows>>
        BY <2>3, ReceiveTyped DEF server
      <3>2. Fresh' /\ Names'
        BY <2>3, FreshReceive, NamesReceive
      <3> QED BY <3>1, <3>2 DEF NewIsNameless, RowsTyped
    <2>4. CASE UNCHANGED vars
      <3>1. UNCHANGED <<acct, rows, user, emptied, page, tab, news, cache, failed, stale, missed, elsewhere,
                        asked, answered>>
        BY <2>4 DEF vars, server, auth, view, data
      <3>2. KeepsDue /\ KeepsNews /\ KeepsFlight /\ KeepsName /\ Visible' = Visible
            /\ (InFlight("me") => InFlight("me")')
        BY <3>1, FlightIs DEF KeepsDue, KeepsNews, KeepsFlight, KeepsName, Visible
      <3>3. Fresh'
        BY <3>1, <3>2, FreshStays
      <3>4. Names'
        BY <3>1, <3>2, NamesStay DEF Known
      <3> QED BY <3>1, <3>3, <3>4 DEF NewIsNameless, RowsTyped
    <2> QED BY <2>1, <2>2, <2>3, <2>4 DEF Next
  <1> QED
    BY <1>1, <1>2, AlwaysSession, PTL DEF Spec, PagesInv

\* Whatever overtakes what, over any number of logins, changes, pages and news:
\* when nothing is under way, the pages show what the server has, apart from
\* what is excused, and the layout has the name of the profile.  Each change the
\* server makes leaves an answer or news under way that invalidates what it
\* changed, and an invalidated query is loaded, or missed, or stale until it is
\* drawn (AdminConsole.tsx, PlayerProfile.tsx, Lobby.tsx, auth.tsx).
THEOREM PagesAreCurrent == Spec => []SettledPagesAreCurrent
  <1>1. PagesInv => SettledPagesAreCurrent
    <2> SUFFICES ASSUME PagesInv, Settled PROVE SettledPagesAreCurrent
      BY DEF SettledPagesAreCurrent
    <2>1. \A k : ~InFlight(k) /\ ~Due(k)
      BY FlightIs DEF Settled, Due
    <2>2. \A k \in Visible \ (failed \cup missed \cup elsewhere) : cache[k] = Current(k)
      BY <2>1 DEF PagesInv, Fresh, PagesAreFresh, FreshKey
    <2>3. ASSUME Known, alive, cookie = user.a PROVE user.name = acct[user.a].name
      <3>1. Session # None
        BY <2>3 DEF PagesInv, SessionInv, Sessions, AliveIsActive, Session
      <3>2. ~emptied
        BY <3>1 DEF PagesInv, SessionInv, Sessions, EmptiedIsOver
      <3> QED BY <2>1, <2>3, <3>2 DEF PagesInv, Names, UserName
    <2> QED BY <2>2, <2>3 DEF SettledPagesAreCurrent
  <1> QED
    BY <1>1, AlwaysPages, PTL

\* However many administrators change accounts, whatever is clicked in the
\* console and however answers are delayed, the role of administrator does not
\* disappear from the accounts, unless two demotions overlap: the guard of
\* AccountAdminService._ensure_not_last_administrator suffices for requests
\* that do not interleave.
THEOREM RoleStays == Spec => []RoleRemains
  <1>1. RoleInv => RoleRemains
    BY DEF RoleInv
  <1> QED
    BY <1>1, AlwaysTyped, PTL
=============================================================================

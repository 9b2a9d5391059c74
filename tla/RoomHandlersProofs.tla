------------------------- MODULE RoomHandlersProofs -------------------------
(***************************************************************************)
(* Theorems about RoomHandlers, for every number of accounts, handlers,    *)
(* room objects and matches, and for every kind of trouble.                *)
(***************************************************************************)
EXTENDS RoomHandlers, FiniteSetTheorems, FunctionTheorems, TLAPS

-----------------------------------------------------------------------------
(* The invariant: types.                                                   *)

\* What a handler that waits there has in its local variables.
WithMatch == {"insert", "activate", "abort", "aborted", "queued", "applied", "persist",
              "void", "settle", "closing", "reopen", "adminclosing"}

Fits(l, objects, ids) ==
    /\ l.wait \in {"join", "start"} => l.row \in Rows /\ l.me \in Accounts
    /\ l.wait \in {"host", "kick", "quit"} => l.me \in Accounts
    /\ l.wait \in {"names", "quit"} => l.room \in objects
    /\ l.wait \in WithMatch => l.match \in ids
    /\ l.quits => l.me \in Accounts /\ l.room \in objects

TypeInv ==
    /\ TypeOK
    /\ \A h \in Handlers : Fits(local[h], DOMAIN heap, DOMAIN match)

-----------------------------------------------------------------------------
(* The invariant: matches, as long as nothing went wrong but a restart.    *)

Calm == troubles \subseteq {"restart"}

\* Where handlers only get when something went wrong.
Rescues == {"abort", "aborted", "void", "admin", "adminclosing"}

\* The room's match is the one in the registry, and its players are in the room.
MatchHere ==
    /\ byId = IF byRoom = None THEN {} ELSE {byRoom}
    /\ byRoom # None => Here /\ match[byRoom].players \subseteq Members(Runtime)

\* Two play at least while a match is not over, and one when it is.
EnoughPlayers ==
    \A m \in DOMAIN match :
        /\ IsFiniteSet(match[m].players) /\ match[m].players # {}
        /\ ~match[m].over => Cardinality(match[m].players) >= 2

\* An object that room:start still holds and the registry dropped is empty.
NamesHeld ==
    \A h \in Handlers : At(h, "names") =>
        /\ IsFiniteSet(local[h].ids) /\ Cardinality(local[h].ids) >= 2
        /\ local[h].room # current => heap[local[h].room].members = <<>>

\* A match is announced by one handler, after its row was written; until then it
\* is not known, and goes on.  It stays in the registry until it is over.
Announced ==
    /\ \A h \in Handlers : local[h].wait \in {"insert", "activate"} =>
         LET m == local[h].match
         IN  /\ m \in byId /\ ~match[m].told /\ ~match[m].over
             /\ matchRow[m] = IF At(h, "insert") THEN "none" ELSE "active"
    /\ \A g, h \in Handlers :
         local[g].wait \in {"insert", "activate"} /\ local[h].wait \in {"insert", "activate"} => g = h
    /\ \A m \in DOMAIN match :
         /\ match[m].over => match[m].told
         /\ match[m].told => matchRow[m] # "none"
         /\ m \in byId /\ match[m].told /\ ~match[m].over => matchRow[m] = "active"
    /\ \A h \in Handlers : local[h].wait \in {"queued"} \cup Handling =>
         /\ match[local[h].match].told
         /\ ~match[local[h].match].over => local[h].match \in byId

\* The handler of the last result of a match.
Finishes(h, m) == local[h].wait \in {"applied", "persist", "settle"} /\ local[h].ends /\ local[h].match = m

\* The last result is handled once, while the match is in the registry.
Finishing ==
    /\ \A h \in Handlers : \A m \in DOMAIN match : Finishes(h, m) =>
         /\ m \in byId /\ match[m].over
         /\ matchRow[m] = IF At(h, "settle") THEN "complete" ELSE "active"
    /\ \A g, h \in Handlers, m \in DOMAIN match : Finishes(g, m) /\ Finishes(h, m) => g = h
    /\ \A m \in byId : match[m].over => \E h \in Handlers : Finishes(h, m)

\* What is no longer in the registry has its outcome.
Settled ==
    /\ \A m \in DOMAIN match \ byId :
         /\ matchRow[m] # "active"
         /\ match[m].over => matchRow[m] \in {"complete", "void"}
    /\ \A m \in DOMAIN match : matchRow[m] = "void" => "restart" \in troubles

NoRescue == \A h \in Handlers : local[h].wait \notin Rescues

CalmInv ==
    Calm => NoRescue /\ MatchHere /\ EnoughPlayers /\ NamesHeld /\ Announced /\ Finishing /\ Settled

\* An active room has a match, or somebody is about to open it again.
ReopenInv ==
    (troubles = {} /\ row.status = "active") =>
        \/ byRoom # None
        \/ \E h \in Handlers : At(h, "reopen")
        \/ Here /\ \E h \in Handlers : At(h, "closing")

-----------------------------------------------------------------------------
(* Room objects.                                                           *)

Distinct(o) == Cardinality(Members(o)) = Len(o.members)

\* The members are finitely many, and as many as the list is long exactly if
\* none is in it twice.
LEMMA MembersCounted ==
    ASSUME NEW o \in Rooms
    PROVE  /\ IsFiniteSet(Members(o)) /\ Cardinality(Members(o)) \in Nat
           /\ Distinct(o) <=> \A i, j \in DOMAIN o.members : o.members[i] = o.members[j] => i = j
  <1> DEFINE s == o.members
             D == 1..Len(s)
             M == Members(o)
  <1>1. s \in Seq(Accounts) /\ Len(s) \in Nat /\ DOMAIN s = D
    BY DEF Rooms
  <1>2. s \in [D -> M] /\ \A x \in M : \E i \in D : s[i] = x
    BY <1>1 DEF Members
  <1>3. s \in Surjection(D, M)
    BY <1>2, Fun_IsSurj
  <1>4. IsFiniteSet(D) /\ Cardinality(D) = Len(s)
    BY <1>1, FS_Interval
  <1>5. IsFiniteSet(M) /\ (Cardinality(M) = Cardinality(D) <=> s \in Injection(D, M))
    BY <1>3, <1>4, FS_Surjection
  <1>6. s \in Injection(D, M) <=> \A i, j \in D : s[i] = s[j] => i = j
    <2>1. ASSUME s \in Injection(D, M) PROVE \A i, j \in D : s[i] = s[j] => i = j
      BY <2>1 DEF Injection, IsInjective
    <2>2. ASSUME \A i, j \in D : s[i] = s[j] => i = j PROVE s \in Injection(D, M)
      BY <1>2, <2>2, Fun_IsInj
    <2> QED BY <2>1, <2>2
  <1> QED BY <1>1, <1>4, <1>5, <1>6, FS_CardinalityType DEF Distinct

\* Who joins is a member, once.
LEMMA JoinedFacts ==
    ASSUME NEW o \in Rooms, Distinct(o), NEW a \in Accounts
    PROVE  /\ Joined(o, a) \in Rooms /\ Distinct(Joined(o, a))
           /\ Members(o) \subseteq Members(Joined(o, a))
           /\ Joined(o, a).host = o.host
  <1>1. CASE Joined(o, a) = o
    BY <1>1
  <1>2. CASE Joined(o, a) # o
    <2> DEFINE p == [o EXCEPT !.members = Append(@, a)]
    <2>1. a \notin Members(o) /\ Joined(o, a) = p
      BY <1>2 DEF Joined
    <2>2. p \in Rooms /\ p.host = o.host /\ p.members = Append(o.members, a)
      <3>1. o.members \in Seq(Accounts) /\ Append(o.members, a) \in Seq(Accounts)
        BY DEF Rooms
      <3>2. p.members = Append(o.members, a) /\ p.host = o.host /\ p.ready = o.ready
        BY DEF Rooms
      <3> QED BY <3>1, <3>2 DEF Rooms
    <2>3. /\ DOMAIN p.members = 1..(Len(o.members) + 1) /\ Len(o.members) \in Nat
          /\ \A i \in 1..Len(o.members) : p.members[i] = o.members[i]
          /\ p.members[Len(o.members) + 1] = a /\ DOMAIN o.members = 1..Len(o.members)
      BY <2>2 DEF Rooms
    <2>4. \A i, j \in DOMAIN p.members : p.members[i] = p.members[j] => i = j
      <3>1. \A i \in 1..Len(o.members) : o.members[i] # a
        BY <2>1, <2>3 DEF Members
      <3>2. \A i, j \in 1..Len(o.members) : o.members[i] = o.members[j] => i = j
        BY <2>3, MembersCounted
      <3> HIDE DEF p
      <3> SUFFICES ASSUME NEW i \in 1..(Len(o.members) + 1), NEW j \in 1..(Len(o.members) + 1),
                          p.members[i] = p.members[j]
                   PROVE  i = j
        BY <2>3
      <3> QED BY <2>3, <3>1, <3>2
    <2>5. Members(o) \subseteq Members(p)
      BY <2>3 DEF Members
    <2> QED BY <2>1, <2>2, <2>4, <2>5, MembersCounted
  <1> QED BY <1>1, <1>2

\* Who leaves is a member no more; a host among the members is followed by one.
LEMMA LeftFacts ==
    ASSUME NEW o \in Rooms, Distinct(o), NEW a \in Members(o)
    PROVE  /\ Left(o, a) \in Rooms /\ Distinct(Left(o, a))
           /\ Members(Left(o, a)) = Members(o) \ {a}
           /\ o.host \in Members(o) =>
                Left(o, a).host \in Members(Left(o, a)) \/ Left(o, a).members = <<>>
  <1> DEFINE s == o.members
             n == CHOOSE i \in DOMAIN s : s[i] = a
             rest == SubSeq(s, 1, n - 1) \o SubSeq(s, n + 1, Len(s))
             p == Left(o, a)
  <1>1. s \in Seq(Accounts) /\ Len(s) \in Nat /\ DOMAIN s = 1..Len(s) /\ n \in 1..Len(s) /\ s[n] = a
    <2>1. \E i \in DOMAIN s : s[i] = a
      BY DEF Members
    <2> QED BY <2>1 DEF Rooms
  <1>2. p = [host |-> IF a = o.host /\ rest # <<>> THEN Head(rest) ELSE o.host,
             members |-> rest, ready |-> o.ready \ {a}]
    BY DEF Left
  <1>3. \A i, j \in 1..Len(s) : s[i] = s[j] => i = j
    BY <1>1, MembersCounted
  <1> HIDE DEF n
  <1>4. /\ rest \in Seq(Accounts) /\ Len(rest) = Len(s) - 1
        /\ \A i \in 1..(Len(s) - 1) : rest[i] = IF i < n THEN s[i] ELSE s[i + 1]
    <2> DEFINE front == SubSeq(s, 1, n - 1)
               back == SubSeq(s, n + 1, Len(s))
    <2>1. /\ front \in Seq(Accounts) /\ Len(front) = n - 1
          /\ \A i \in 1..(n - 1) : front[i] = s[i]
      BY <1>1
    <2>2. /\ back \in Seq(Accounts) /\ Len(back) = Len(s) - n
          /\ \A i \in 1..(Len(s) - n) : back[i] = s[n + i]
      BY <1>1
    <2> HIDE DEF front, back
    <2>3. /\ front \o back \in Seq(Accounts) /\ Len(front \o back) = Len(s) - 1
          /\ \A i \in 1..(Len(s) - 1) : (front \o back)[i] = IF i < n THEN s[i] ELSE s[i + 1]
      <3>1. front \o back \in Seq(Accounts) /\ Len(front \o back) = Len(s) - 1
        <4>1. front \in Seq(Accounts) /\ back \in Seq(Accounts)
          BY <2>1, <2>2
        <4>2. front \o back \in Seq(Accounts) /\ Len(front \o back) = Len(front) + Len(back)
          BY <4>1
        <4>3. (n - 1) + (Len(s) - n) = Len(s) - 1
          BY <1>1
        <4> QED BY <2>1, <2>2, <4>2, <4>3
      <3>2. ASSUME NEW i \in 1..(Len(s) - 1)
            PROVE  (front \o back)[i] = IF i < n THEN s[i] ELSE s[i + 1]
        <4>1. (front \o back)[i] = IF i <= n - 1 THEN front[i] ELSE back[i - (n - 1)]
          BY <1>1, <2>1, <2>2
        <4>2. CASE i < n
          BY <1>1, <2>1, <4>1, <4>2
        <4>3. CASE i >= n
          <5>1. i - (n - 1) \in 1..(Len(s) - n) /\ n + (i - (n - 1)) = i + 1
            BY <1>1, <4>3
          <5> QED BY <1>1, <2>2, <4>1, <4>3, <5>1
        <4>4. i \in Nat /\ n \in Nat
          BY <1>1
        <4>5. i < n \/ i >= n
          BY <4>4
        <4> QED BY <4>2, <4>3, <4>5
      <3> QED BY <3>1, <3>2
    <2> QED BY <2>3 DEF front, back
  <1> HIDE DEF rest
  <1>5. DOMAIN rest = 1..(Len(s) - 1)
    BY <1>4
  <1>6. rest # <<>> => Head(rest) \in Accounts /\ Head(rest) = rest[1] /\ 1 \in DOMAIN rest
    BY <1>4
  <1>7. p \in Rooms /\ p.members = rest
    BY <1>2, <1>4, <1>6 DEF Rooms
  <1>8. \A i, j \in DOMAIN p.members : p.members[i] = p.members[j] => i = j
    BY <1>1, <1>3, <1>4, <1>5, <1>7
  <1>9. Members(p) = Members(o) \ {a}
    <2>1. ASSUME NEW i \in 1..(Len(s) - 1) PROVE rest[i] \in Members(o) \ {a}
      <3>1. PICK j \in 1..Len(s) : rest[i] = s[j] /\ j # n
        BY <1>1, <1>4
      <3> QED BY <1>1, <1>3, <3>1 DEF Members
    <2>2. ASSUME NEW i \in 1..Len(s), s[i] # a PROVE \E j \in 1..(Len(s) - 1) : rest[j] = s[i]
      <3>1. i < n \/ i > n
        BY <1>1, <2>2
      <3>2. CASE i < n
        BY <1>1, <1>4, <3>2
      <3>3. CASE i > n
        <4>1. i - 1 \in 1..(Len(s) - 1) /\ rest[i - 1] = s[i]
          BY <1>1, <1>4, <3>3
        <4> QED BY <4>1
      <3> QED BY <3>1, <3>2, <3>3
    <2>3. Members(p) = {rest[i] : i \in 1..(Len(s) - 1)} /\ Members(o) = {s[i] : i \in 1..Len(s)}
      BY <1>1, <1>5, <1>7 DEF Members
    <2> HIDE DEF p
    <2>4. Members(p) \subseteq Members(o) \ {a}
      BY <2>1, <2>3
    <2>5. Members(o) \ {a} \subseteq Members(p)
      BY <2>2, <2>3
    <2> QED BY <2>4, <2>5
  <1>10. o.host \in Members(o) => p.host \in Members(p) \/ p.members = <<>>
    <2>1. rest # <<>> => rest[1] \in Members(p)
      BY <1>6, <1>7 DEF Members
    <2>2. p.host = IF a = o.host /\ rest # <<>> THEN rest[1] ELSE o.host
      BY <1>2, <1>6
    <2> HIDE DEF p
    <2>3. CASE a = o.host
      BY <1>7, <2>1, <2>2, <2>3
    <2>4. CASE a # o.host
      BY <1>9, <2>2, <2>4
    <2> QED BY <2>3, <2>4
  <1> QED BY <1>7, <1>8, <1>9, <1>10, MembersCounted

-----------------------------------------------------------------------------
(* Handlers.                                                               *)

\* One handler moves, the others wait where they were.
Moves(h) == local' = [local EXCEPT ![h] = local'[h]]

\* What a handler has in its local variables after Begin.
LEMMA Begun ==
    ASSUME local \in [Handlers -> Locals], NEW h \in Handlers, NEW w, NEW fields, Begin(h, w, fields)
    PROVE  /\ Moves(h)
           /\ local'[h] = [wait |-> w,
                           me |-> IF "me" \in DOMAIN fields THEN fields.me ELSE None,
                           row |-> IF "row" \in DOMAIN fields THEN fields.row ELSE None,
                           room |-> IF "room" \in DOMAIN fields THEN fields.room ELSE None,
                           match |-> IF "match" \in DOMAIN fields THEN fields.match ELSE None,
                           ids |-> IF "ids" \in DOMAIN fields THEN fields.ids ELSE {},
                           quits |-> IF "quits" \in DOMAIN fields THEN fields.quits ELSE FALSE,
                           ends |-> IF "ends" \in DOMAIN fields THEN fields.ends ELSE FALSE]
  <1> DEFINE l == [f \in DOMAIN Idle |->
                     IF f = "wait" THEN w ELSE IF f \in DOMAIN fields THEN fields[f] ELSE Idle[f]]
  <1>1. local' = [local EXCEPT ![h] = l]
    BY DEF Begin
  <1>2. DOMAIN Idle = {"wait", "me", "row", "room", "match", "ids", "quits", "ends"}
    BY DEF Idle
  <1>3. l = [wait |-> l["wait"], me |-> l["me"], row |-> l["row"], room |-> l["room"],
             match |-> l["match"], ids |-> l["ids"], quits |-> l["quits"], ends |-> l["ends"]]
    BY <1>2
  <1>4. /\ l["wait"] = w
        /\ l["me"] = IF "me" \in DOMAIN fields THEN fields.me ELSE None
        /\ l["row"] = IF "row" \in DOMAIN fields THEN fields.row ELSE None
        /\ l["room"] = IF "room" \in DOMAIN fields THEN fields.room ELSE None
        /\ l["match"] = IF "match" \in DOMAIN fields THEN fields.match ELSE None
        /\ l["ids"] = IF "ids" \in DOMAIN fields THEN fields.ids ELSE {}
        /\ l["quits"] = IF "quits" \in DOMAIN fields THEN fields.quits ELSE FALSE
        /\ l["ends"] = IF "ends" \in DOMAIN fields THEN fields.ends ELSE FALSE
    BY <1>2 DEF Idle
  <1> HIDE DEF l
  <1>5. local'[h] = l
    BY <1>1
  <1> QED BY <1>1, <1>3, <1>4, <1>5 DEF Moves

\* Begin, as the handlers call it.
LEMMA BegunWithMe ==
    ASSUME local \in [Handlers -> Locals], NEW h \in Handlers, NEW w, NEW x,
           Begin(h, w, [me |-> x])
    PROVE  /\ Moves(h)
           /\ local'[h] = [wait |-> w, me |-> x, row |-> None, room |-> None,
                           match |-> None, ids |-> {}, quits |-> FALSE, ends |-> FALSE]
  <1> DEFINE fields == [me |-> x]
  <1>1. DOMAIN fields = {"me"}
    OBVIOUS
  <1>2. fields.me = x
    OBVIOUS
  <1>3. Begin(h, w, fields)
    OBVIOUS
  <1> HIDE DEF fields
  <1> QED BY <1>1, <1>2, <1>3, Begun

\* room:join and room:start keep the row they read.
LEMMA BegunWithRow ==
    ASSUME local \in [Handlers -> Locals], NEW h \in Handlers, NEW w, NEW x, NEW y,
           Begin(h, w, [me |-> x, row |-> y])
    PROVE  /\ Moves(h)
           /\ local'[h] = [wait |-> w, me |-> x, row |-> y, room |-> None,
                           match |-> None, ids |-> {}, quits |-> FALSE, ends |-> FALSE]
  <1> DEFINE fields == [me |-> x, row |-> y]
  <1>1. DOMAIN fields = {"me", "row"}
    OBVIOUS
  <1>2. fields.me = x /\ fields.row = y
    OBVIOUS
  <1>3. Begin(h, w, fields)
    OBVIOUS
  <1> HIDE DEF fields
  <1> QED BY <1>1, <1>2, <1>3, Begun

\* A timer's command, and the end of room:start and of close_room_admin, keep the match.
LEMMA BegunWithMatch ==
    ASSUME local \in [Handlers -> Locals], NEW h \in Handlers, NEW w, NEW x,
           Begin(h, w, [match |-> x])
    PROVE  /\ Moves(h)
           /\ local'[h] = [wait |-> w, me |-> None, row |-> None, room |-> None,
                           match |-> x, ids |-> {}, quits |-> FALSE, ends |-> FALSE]
  <1> DEFINE fields == [match |-> x]
  <1>1. DOMAIN fields = {"match"}
    OBVIOUS
  <1>2. fields.match = x
    OBVIOUS
  <1>3. Begin(h, w, fields)
    OBVIOUS
  <1> HIDE DEF fields
  <1> QED BY <1>1, <1>2, <1>3, Begun

\* room:start keeps the object and the players it listed.
LEMMA BegunWithNames ==
    ASSUME local \in [Handlers -> Locals], NEW h \in Handlers, NEW w, NEW x, NEW y,
           Begin(h, w, [room |-> x, ids |-> y])
    PROVE  /\ Moves(h)
           /\ local'[h] = [wait |-> w, me |-> None, row |-> None, room |-> x,
                           match |-> None, ids |-> y, quits |-> FALSE, ends |-> FALSE]
  <1> DEFINE fields == [room |-> x, ids |-> y]
  <1>1. DOMAIN fields = {"room", "ids"}
    OBVIOUS
  <1>2. fields.room = x /\ fields.ids = y
    OBVIOUS
  <1>3. Begin(h, w, fields)
    OBVIOUS
  <1> HIDE DEF fields
  <1> QED BY <1>1, <1>2, <1>3, Begun

\* game:action and game:quit keep who sent them, and game:quit the object too.
LEMMA BegunWithCommand ==
    ASSUME local \in [Handlers -> Locals], NEW h \in Handlers, NEW w, NEW x, NEW y, NEW z, NEW u,
           Begin(h, w, [me |-> x, match |-> y, quits |-> z, room |-> u])
    PROVE  /\ Moves(h)
           /\ local'[h] = [wait |-> w, me |-> x, row |-> None, room |-> u,
                           match |-> y, ids |-> {}, quits |-> z, ends |-> FALSE]
  <1> DEFINE fields == [me |-> x, match |-> y, quits |-> z, room |-> u]
  <1>1. DOMAIN fields = {"me", "match", "quits", "room"}
    OBVIOUS
  <1>2. fields.me = x /\ fields.match = y /\ fields.quits = z /\ fields.room = u
    OBVIOUS
  <1>3. Begin(h, w, fields)
    OBVIOUS
  <1> HIDE DEF fields
  <1> QED BY <1>1, <1>2, <1>3, Begun

\* A handler that goes on keeps its local variables.
LEMMA Gone ==
    ASSUME local \in [Handlers -> Locals], NEW h \in Handlers, NEW w, Goto(h, w)
    PROVE  Moves(h) /\ local'[h] = [local[h] EXCEPT !.wait = w]
  BY DEF Goto, Moves

\* A handler that returned is idle.
LEMMA Returned ==
    ASSUME local \in [Handlers -> Locals], NEW h \in Handlers, Return(h)
    PROVE  Moves(h) /\ local'[h] = Idle
  BY DEF Return, Moves

LEMMA IdleFits ==
    /\ Idle \in Locals
    /\ \A objects, ids : Fits(Idle, objects, ids)
  BY RoomAssumption DEF Idle, Locals, Fits, WithMatch, Waits

\* Objects and matches are only added, so the others' local variables still fit.
LEMMA OneMoves ==
    ASSUME TypeInv, NEW h \in Handlers, Moves(h),
           local'[h] \in Locals, Fits(local'[h], DOMAIN heap', DOMAIN match'),
           DOMAIN heap \subseteq DOMAIN heap', DOMAIN match \subseteq DOMAIN match'
    PROVE  /\ local' \in [Handlers -> Locals]
           /\ \A g \in Handlers : Fits(local'[g], DOMAIN heap', DOMAIN match')
  <1>1. local \in [Handlers -> Locals]
    BY DEF TypeInv, TypeOK
  <1>2. local' \in [Handlers -> Locals] /\ \A g \in Handlers : g # h => local'[g] = local[g]
    BY <1>1 DEF Moves
  <1>3. ASSUME NEW g \in Handlers, g # h PROVE Fits(local'[g], DOMAIN heap', DOMAIN match')
    <2>1. local'[g] = local[g] /\ Fits(local[g], DOMAIN heap, DOMAIN match)
      BY <1>2, <1>3 DEF TypeInv
    <2> QED BY <2>1 DEF Fits
  <1> QED BY <1>2, <1>3

-----------------------------------------------------------------------------
(* Types.                                                                  *)

\* TypeOK without the local variables.
DataOK ==
    /\ row \in Rows
    /\ heap \in Seq(Rooms) /\ Len(heap) <= MaxRooms
    /\ \A n \in DOMAIN heap : Distinct(heap[n])
    /\ current \in DOMAIN heap \cup {None}
    /\ match \in Seq(Matches) /\ Len(match) <= MaxMatches
    /\ byRoom \in DOMAIN match \cup {None}
    /\ byId \subseteq DOMAIN match
    /\ matchRow \in Seq({"none", "active", "complete", "void"}) /\ Len(matchRow) = Len(match)
    /\ troubles \subseteq Trouble \cup {"late"}

LEMMA TypeParts ==
    TypeInv <=> /\ DataOK /\ local \in [Handlers -> Locals]
                /\ \A h \in Handlers : Fits(local[h], DOMAIN heap, DOMAIN match)
  BY DEF TypeInv, TypeOK, DataOK, Distinct

Grow == DOMAIN heap \subseteq DOMAIN heap' /\ DOMAIN match \subseteq DOMAIN match'

LEMMA TypeMoves ==
    ASSUME TypeInv, NEW h \in Handlers, Moves(h), DataOK', Grow,
           local'[h] \in Locals, Fits(local'[h], DOMAIN heap', DOMAIN match')
    PROVE  TypeInv'
  <1>1. local' \in [Handlers -> Locals] /\ \A g \in Handlers : Fits(local'[g], DOMAIN heap', DOMAIN match')
    BY OneMoves DEF Grow
  <1>2. DOMAIN heap' = DOMAIN heap' /\ DataOK'
    OBVIOUS
  <1> QED BY <1>1, <1>2, TypeParts DEF TypeInv, TypeOK, DataOK, Distinct

LEMMA TypeReturns ==
    ASSUME TypeInv, NEW h \in Handlers, Return(h), DataOK', Grow
    PROVE  TypeInv'
  <1>1. Moves(h) /\ local'[h] = Idle
    BY Returned DEF TypeInv, TypeOK
  <1> QED BY <1>1, IdleFits, TypeMoves

\* A handler that holds a match goes on to where a match is needed.
LEMMA TypeGoes ==
    ASSUME TypeInv, NEW h \in Handlers, NEW w \in WithMatch \cup {"remove"}, Goto(h, w), DataOK', Grow,
           local[h].wait \in WithMatch \/ w = "remove"
    PROVE  TypeInv'
  <1>1. local \in [Handlers -> Locals] /\ Fits(local[h], DOMAIN heap, DOMAIN match)
    BY DEF TypeInv, TypeOK
  <1>2. Moves(h) /\ local'[h] = [local[h] EXCEPT !.wait = w]
    BY <1>1, Gone
  <1>3. local'[h] \in Locals
    BY <1>1, <1>2 DEF Locals, WithMatch, Waits
  <1>4. Fits(local'[h], DOMAIN heap', DOMAIN match')
    BY <1>1, <1>2 DEF Fits, Locals, Grow, WithMatch
  <1> QED BY <1>2, <1>3, <1>4, TypeMoves

\* game:quit goes on with the object it saw first.
LEMMA TypeQuits ==
    ASSUME TypeInv, NEW h \in Handlers, Goto(h, "quit"), local[h].quits, DataOK', Grow
    PROVE  TypeInv'
  <1>1. local \in [Handlers -> Locals] /\ Fits(local[h], DOMAIN heap, DOMAIN match)
    BY DEF TypeInv, TypeOK
  <1>2. Moves(h) /\ local'[h] = [local[h] EXCEPT !.wait = "quit"]
    BY <1>1, Gone
  <1>3. local'[h] \in Locals
    BY <1>1, <1>2 DEF Locals, Waits
  <1>4. Fits(local'[h], DOMAIN heap', DOMAIN match')
    BY <1>1, <1>2 DEF Fits, Locals, Grow, WithMatch
  <1> QED BY <1>2, <1>3, <1>4, TypeMoves

\* Steps that leave the registries, the rows and the matches alone.
LEMMA DataKept ==
    ASSUME TypeInv, UNCHANGED <<roomVars, matchVars>>,
           UNCHANGED troubles \/ (\E t \in Trouble : Hits(t)) \/ (\E late \in BOOLEAN : Overtaken(late))
    PROVE  DataOK' /\ Grow
  BY TypeParts DEF DataOK, Grow, roomVars, matchVars, Hits, Overtaken, Distinct, Members

\* A request comes in.
LEMMA TypeRequests ==
    ASSUME TypeInv, NEW h \in Handlers, Requests(h)
    PROVE  TypeInv'
  <1>0. local \in [Handlers -> Locals] /\ DataOK
    BY TypeParts
  <1>1. ASSUME NEW a \in Accounts, RoomJoin(h, a) PROVE TypeInv'
    <2>1. Moves(h) /\ local'[h] = [wait |-> "join", me |-> a, row |-> row, room |-> None,
                                  match |-> None, ids |-> {}, quits |-> FALSE, ends |-> FALSE]
      BY <1>0, <1>1, BegunWithRow DEF RoomJoin
    <2>2. local'[h] \in Locals /\ Fits(local'[h], DOMAIN heap', DOMAIN match')
      BY <1>0, <2>1 DEF Locals, Waits, Fits, WithMatch, DataOK
    <2>3. DataOK' /\ Grow
      BY <1>1, DataKept DEF RoomJoin
    <2> QED BY <2>1, <2>2, <2>3, TypeMoves
  <1>2. ASSUME NEW a \in Accounts, RoomLeave(h, a) PROVE TypeInv'
    <2> DEFINE o == Left(Runtime, a)
    <2>1. Here /\ a \in Members(Runtime) /\ current \in DOMAIN heap /\ Runtime \in Rooms /\ Distinct(Runtime)
      BY <1>0, <1>2 DEF RoomLeave, IsMember, Here, Runtime, DataOK
    <2>2. o \in Rooms /\ Distinct(o)
      BY <2>1, LeftFacts
    <2>3. heap' = [heap EXCEPT ![current] = o]
      BY <1>2 DEF RoomLeave, Update
    <2> HIDE DEF o
    <2>4. DataOK' /\ Grow
      BY <1>0, <1>2, <2>1, <2>2, <2>3 DEF RoomLeave, DataOK, Grow, matchVars
    <2>5. \/ Moves(h) /\ local'[h] = [wait |-> "close", me |-> a, row |-> None, room |-> None,
                                  match |-> None, ids |-> {}, quits |-> FALSE, ends |-> FALSE]
          \/ Moves(h) /\ local'[h] = [wait |-> "host", me |-> o.host, row |-> None, room |-> None,
                                  match |-> None, ids |-> {}, quits |-> FALSE, ends |-> FALSE]
      <3>1. Begin(h, "close", [me |-> a]) \/ Begin(h, "host", [me |-> o.host])
        BY <1>2 DEF RoomLeave, o
      <3> QED BY <1>0, <3>1, BegunWithMe
    <2>6. o.host \in Accounts
      BY <2>2 DEF Rooms
    <2>7. local'[h] \in Locals /\ Fits(local'[h], DOMAIN heap', DOMAIN match')
      <3>1. local'[h].wait \in {"close", "host"} /\ local'[h].quits = FALSE /\ local'[h].me \in Accounts
        BY <2>5, <2>6
      <3>2. local'[h] \in Locals
        <4> DEFINE r(w, x) == [wait |-> w, me |-> x, row |-> None, room |-> None,
                               match |-> None, ids |-> {}, quits |-> FALSE, ends |-> FALSE]
        <4>1. \A w \in {"close", "host"}, x \in Accounts : r(w, x) \in Locals
          BY DEF Locals, Waits
        <4> QED BY <2>5, <2>6, <4>1
      <3> QED BY <3>1, <3>2 DEF Fits, WithMatch
    <2> QED BY <2>4, <2>5, <2>7, TypeMoves
  <1>3. ASSUME NEW a \in Accounts, RoomStart(h, a) PROVE TypeInv'
    <2>1. Moves(h) /\ local'[h] = [wait |-> "start", me |-> a, row |-> row, room |-> None,
                                  match |-> None, ids |-> {}, quits |-> FALSE, ends |-> FALSE]
      BY <1>0, <1>3, BegunWithRow DEF RoomStart
    <2>2. local'[h] \in Locals /\ Fits(local'[h], DOMAIN heap', DOMAIN match')
      BY <1>0, <2>1 DEF Locals, Waits, Fits, WithMatch, DataOK
    <2>3. DataOK' /\ Grow
      BY <1>3, DataKept DEF RoomStart
    <2> QED BY <2>1, <2>2, <2>3, TypeMoves
  <1>4. ASSUME NEW a \in Accounts, NEW b \in Accounts, RoomKick(h, a, b) PROVE TypeInv'
    <2>1. Moves(h) /\ local'[h] = [wait |-> "kick", me |-> b, row |-> None, room |-> None,
                                  match |-> None, ids |-> {}, quits |-> FALSE, ends |-> FALSE]
      BY <1>0, <1>4, BegunWithMe DEF RoomKick
    <2>2. local'[h] \in Locals /\ Fits(local'[h], DOMAIN heap', DOMAIN match')
      BY <2>1 DEF Locals, Waits, Fits, WithMatch
    <2>3. DataOK' /\ Grow
      BY <1>4, DataKept DEF RoomKick
    <2> QED BY <2>1, <2>2, <2>3, TypeMoves
  <1>5. ASSUME NEW m \in DOMAIN match, TimerCommand(h, m) PROVE TypeInv'
    <2>1. Moves(h) /\ local'[h] = [wait |-> "queued", me |-> None, row |-> None, room |-> None,
                                  match |-> m, ids |-> {}, quits |-> FALSE, ends |-> FALSE]
      BY <1>0, <1>5, BegunWithMatch DEF TimerCommand
    <2>2. m \in Ids /\ match' = match
      BY <1>0, <1>5, RoomAssumption DEF TimerCommand, DataOK, Ids, matchVars
    <2>3. local'[h] \in Locals /\ Fits(local'[h], DOMAIN heap', DOMAIN match')
      BY <2>1, <2>2 DEF Locals, Waits, Fits, WithMatch
    <2>4. DataOK' /\ Grow
      BY <1>5, DataKept DEF TimerCommand, Known, Hits
    <2> QED BY <2>1, <2>3, <2>4, TypeMoves
  <1>6. ASSUME NEW m \in DOMAIN match, NEW a \in Accounts, NEW quits \in BOOLEAN,
               GameCommand(h, a, m, quits)
        PROVE  TypeInv'
    <2>1. Moves(h) /\ local'[h] = [wait |-> "queued", me |-> a, row |-> None,
                                  room |-> IF quits THEN current ELSE None,
                                  match |-> m, ids |-> {}, quits |-> quits, ends |-> FALSE]
      BY <1>0, <1>6, BegunWithCommand DEF GameCommand
    <2>2. m \in Ids /\ match' = match /\ heap' = heap
      BY <1>0, <1>6, RoomAssumption DEF GameCommand, DataOK, Ids, roomVars, matchVars
    <2>3. current \in DOMAIN heap /\ current \in Objects
      BY <1>0, <1>6, RoomAssumption DEF GameCommand, DataOK, IsMember, Here, Objects
    <2>4. local'[h] \in Locals /\ Fits(local'[h], DOMAIN heap', DOMAIN match')
      BY <2>1, <2>2, <2>3 DEF Locals, Waits, Fits, WithMatch
    <2>5. DataOK' /\ Grow
      BY <1>6, DataKept DEF GameCommand, Known, Hits
    <2> QED BY <2>1, <2>4, <2>5, TypeMoves
  <1>7. ASSUME AdminCloses(h) PROVE TypeInv'
    <2>1. Moves(h) /\ local'[h] = [wait |-> "admin", me |-> None, row |-> None, room |-> None,
                                  match |-> None, ids |-> {}, quits |-> FALSE, ends |-> FALSE]
      BY <1>0, <1>7, BegunWithMe DEF AdminCloses
    <2>2. local'[h] \in Locals /\ Fits(local'[h], DOMAIN heap', DOMAIN match')
      BY <2>1 DEF Locals, Waits, Fits, WithMatch
    <2>3. DataOK' /\ Grow
      BY <1>0, <1>7 DEF AdminCloses, DataOK, Grow, matchVars, Hits, SetStatus, Rows
    <2> QED BY <2>1, <2>2, <2>3, TypeMoves
  <1> QED BY <1>1, <1>2, <1>3, <1>4, <1>5, <1>6, <1>7 DEF Requests

\* A handler goes on: rooms.
LEMMA TypeRoomSteps ==
    ASSUME TypeInv, NEW h \in Handlers,
           \/ RoomJoinEnters(h) \/ RoomLeaveCloses(h) \/ RoomLeaveRemoves(h) \/ SetRoomHost(h)
           \/ RoomKickLeaves(h) \/ QuitLeaves(h) \/ AdminRemoves(h) \/ AdminClosed(h)
    PROVE  TypeInv'
  <1>0. /\ local \in [Handlers -> Locals] /\ DataOK
        /\ Fits(local[h], DOMAIN heap, DOMAIN match)
    BY TypeParts
  <1>1. Here => current \in DOMAIN heap /\ Runtime \in Rooms /\ Distinct(Runtime)
    BY <1>0 DEF Here, Runtime, DataOK
  <1>2. CASE RoomJoinEnters(h)
    <2> DEFINE a == local[h].me
               seen == local[h].row
    <2>1. a \in Accounts /\ seen \in Rows /\ Return(h)
      BY <1>0, <1>2 DEF RoomJoinEnters, At, Fits
    <2>2. \/ UNCHANGED <<heap, current>>
          \/ Here /\ heap' = [heap EXCEPT ![current] = Joined(@, a)] /\ current' = current
          \/ /\ Len(heap) < MaxRooms
             /\ heap' = Append(heap, Joined(NewRoom(seen.host), a)) /\ current' = Len(heap) + 1
      BY <1>2 DEF RoomJoinEnters
    <2> HIDE DEF a, seen
    <2>3. CASE UNCHANGED <<heap, current>>
      <3>1. DataOK' /\ Grow
        BY <1>2, <2>3, DataKept DEF RoomJoinEnters, roomVars
      <3> QED BY <2>1, <3>1, TypeReturns
    <2>4. CASE Here /\ heap' = [heap EXCEPT ![current] = Joined(@, a)] /\ current' = current
      <3>1. Joined(Runtime, a) \in Rooms /\ Distinct(Joined(Runtime, a))
        BY <1>1, <2>1, <2>4, JoinedFacts
      <3>2. heap' = [heap EXCEPT ![current] = Joined(Runtime, a)]
        BY <2>4 DEF Runtime
      <3>3. DataOK' /\ Grow
        BY <1>0, <1>1, <1>2, <2>4, <3>1, <3>2 DEF RoomJoinEnters, DataOK, Grow, matchVars
      <3> QED BY <2>1, <3>3, TypeReturns
    <2>5. CASE /\ Len(heap) < MaxRooms
               /\ heap' = Append(heap, Joined(NewRoom(seen.host), a)) /\ current' = Len(heap) + 1
      <3> DEFINE o == Joined(NewRoom(seen.host), a)
      <3>1. NewRoom(seen.host) \in Rooms /\ Distinct(NewRoom(seen.host))
        <4>1. NewRoom(seen.host) \in Rooms /\ NewRoom(seen.host).members = <<>>
          BY <2>1 DEF NewRoom, Rooms, Rows
        <4> QED BY <4>1, MembersCounted
      <3>2. o \in Rooms /\ Distinct(o)
        BY <2>1, <3>1, JoinedFacts
      <3> HIDE DEF o
      <3>3. heap' = Append(heap, o) /\ heap \in Seq(Rooms)
        BY <1>0, <2>5 DEF o, DataOK
      <3>4. /\ heap' \in Seq(Rooms) /\ Len(heap') = Len(heap) + 1 /\ Len(heap) \in Nat
            /\ DOMAIN heap = 1..Len(heap) /\ DOMAIN heap' = 1..(Len(heap) + 1)
            /\ \A n \in 1..Len(heap) : heap'[n] = heap[n]
            /\ heap'[Len(heap) + 1] = o
        BY <3>2, <3>3
      <3>5. \A n \in DOMAIN heap' : Distinct(heap'[n])
        BY <1>0, <3>2, <3>4 DEF DataOK
      <3>6. Len(heap') <= MaxRooms /\ current' \in DOMAIN heap'
        BY <2>5, <3>4, RoomAssumption
      <3>7. DataOK' /\ Grow
        BY <1>0, <1>2, <3>4, <3>5, <3>6 DEF RoomJoinEnters, DataOK, Grow, matchVars
      <3> QED BY <2>1, <3>7, TypeReturns
    <2> QED BY <2>2, <2>3, <2>4, <2>5
  <1>3. CASE RoomLeaveCloses(h)
    <2>1. DataOK' /\ Grow
      BY <1>0, <1>3 DEF RoomLeaveCloses, DataOK, Grow, matchVars, SetStatus, Rows, DatabaseFails, Hits
    <2>2. Goto(h, "remove") \/ Return(h)
      BY <1>3 DEF RoomLeaveCloses, DatabaseFails
    <2> QED BY <2>1, <2>2, TypeGoes, TypeReturns
  <1>4. CASE RoomLeaveRemoves(h)
    <2>1. DataOK' /\ Grow
      BY <1>0, <1>4 DEF RoomLeaveRemoves, DataOK, Grow, matchVars, Overtaken
    <2> QED BY <1>4, <2>1, TypeReturns DEF RoomLeaveRemoves
  <1>5. CASE SetRoomHost(h)
    <2>1. local[h].me \in Accounts
      BY <1>0, <1>5 DEF SetRoomHost, At, Fits
    <2>2. DataOK' /\ Grow
      BY <1>0, <1>5, <2>1 DEF SetRoomHost, DataOK, Grow, matchVars, Rows, DatabaseFails, Hits
    <2> QED BY <1>5, <2>2, TypeReturns DEF SetRoomHost, DatabaseFails
  <1>6. CASE RoomKickLeaves(h)
    <2> DEFINE a == local[h].me
    <2>1. UNCHANGED heap \/ (Here /\ a \in Members(Runtime) /\ heap' = [heap EXCEPT ![current] = Left(Runtime, a)])
      BY <1>6 DEF RoomKickLeaves, IsMember, Runtime
    <2> HIDE DEF a
    <2>2. DataOK' /\ Grow
      <3>1. CASE UNCHANGED heap
        BY <1>0, <1>6, <3>1 DEF RoomKickLeaves, DataOK, Grow, matchVars, Overtaken
      <3>2. CASE Here /\ a \in Members(Runtime) /\ heap' = [heap EXCEPT ![current] = Left(Runtime, a)]
        <4>1. Left(Runtime, a) \in Rooms /\ Distinct(Left(Runtime, a))
          BY <1>1, <3>2, LeftFacts
        <4> QED BY <1>0, <1>1, <1>6, <3>2, <4>1 DEF RoomKickLeaves, DataOK, Grow, matchVars, Overtaken
      <3> QED BY <2>1, <3>1, <3>2
    <2> QED BY <1>6, <2>2, TypeReturns DEF RoomKickLeaves
  <1>7. CASE QuitLeaves(h)
    <2> DEFINE a == local[h].me
               after == [heap EXCEPT ![current] = Left(Runtime, a)]
    <2>1. \/ UNCHANGED heap /\ Return(h)
          \/ /\ Here /\ a \in Members(Runtime) /\ heap' = after
             /\ Begin(h, "host", [me |-> after[local[h].room].host])
      BY <1>7 DEF QuitLeaves, IsMember, Runtime
    <2>2. CASE UNCHANGED heap /\ Return(h)
      <3>1. DataOK' /\ Grow
        BY <1>0, <1>7, <2>2 DEF QuitLeaves, DataOK, Grow, matchVars, Overtaken
      <3> QED BY <2>2, <3>1, TypeReturns
    <2>3. CASE /\ Here /\ a \in Members(Runtime) /\ heap' = after
               /\ Begin(h, "host", [me |-> after[local[h].room].host])
      <3>1. Left(Runtime, a) \in Rooms /\ Distinct(Left(Runtime, a))
        BY <1>1, <2>3, LeftFacts
      <3> DEFINE room == local[h].room
      <3>2. room \in DOMAIN heap
        BY <1>0, <1>7 DEF QuitLeaves, At, Fits
      <3>3. after \in Seq(Rooms) /\ DOMAIN after = DOMAIN heap /\ Len(after) = Len(heap)
        BY <1>0, <1>1, <2>3, <3>1 DEF DataOK
      <3>4. after[room].host \in Accounts
        <4> HIDE DEF after, room
        <4>1. after[room] \in Rooms
          BY <3>2, <3>3
        <4> QED BY <4>1 DEF Rooms
      <3>5. \A n \in DOMAIN after : Distinct(after[n])
        BY <1>0, <1>1, <2>3, <3>1 DEF DataOK
      <3>6. DataOK' /\ Grow
        BY <1>0, <1>7, <2>3, <3>3, <3>5 DEF QuitLeaves, DataOK, Grow, matchVars, Overtaken
      <3> HIDE DEF after
      <3>7. Moves(h) /\ local'[h] = [wait |-> "host", me |-> after[room].host, row |-> None, room |-> None,
                                    match |-> None, ids |-> {}, quits |-> FALSE, ends |-> FALSE]
        BY <1>0, <2>3, BegunWithMe
      <3>8. local'[h] \in Locals /\ Fits(local'[h], DOMAIN heap', DOMAIN match')
        BY <3>4, <3>7 DEF Locals, Waits, Fits, WithMatch
      <3> QED BY <3>6, <3>7, <3>8, TypeMoves
    <2> QED BY <2>1, <2>2, <2>3
  <1>8. CASE AdminRemoves(h)
    <2>1. DataOK' /\ Grow
      BY <1>0, <1>8 DEF AdminRemoves, DataOK, Grow, Remove
    <2>2. Return(h) \/ (byRoom # None /\ Begin(h, "adminclosing", [match |-> byRoom]))
      BY <1>8 DEF AdminRemoves
    <2>3. CASE byRoom # None /\ Begin(h, "adminclosing", [match |-> byRoom])
      <3>1. Moves(h) /\ local'[h] = [wait |-> "adminclosing", me |-> None, row |-> None, room |-> None,
                                    match |-> byRoom, ids |-> {}, quits |-> FALSE, ends |-> FALSE]
        BY <1>0, <2>3, BegunWithMatch
      <3>2. byRoom \in DOMAIN match /\ byRoom \in Ids /\ match' = match
        BY <1>0, <1>8, <2>3, RoomAssumption DEF DataOK, Ids, AdminRemoves
      <3>3. local'[h] \in Locals /\ Fits(local'[h], DOMAIN heap', DOMAIN match')
        BY <3>1, <3>2 DEF Locals, Waits, Fits, WithMatch
      <3> QED BY <2>1, <3>1, <3>3, TypeMoves
    <2> QED BY <2>1, <2>2, <2>3, TypeReturns
  <1>9. CASE AdminClosed(h)
    <2>1. DataOK' /\ Grow
      BY <1>0, <1>9 DEF AdminClosed, DataOK, Grow, matchVars
    <2> QED BY <1>9, <2>1, TypeReturns DEF AdminClosed
  <1> QED BY <1>2, <1>3, <1>4, <1>5, <1>6, <1>7, <1>8, <1>9

\* A handler goes on: the start of a match.
LEMMA TypeStartSteps ==
    ASSUME TypeInv, NEW h \in Handlers,
           \/ RoomStartChecks(h) \/ RoomStartAdds(h) \/ RoomStartInserts(h)
           \/ RoomStartActivates(h) \/ RoomStartVoids(h) \/ RoomStartAborted(h)
    PROVE  TypeInv'
  <1>0. /\ local \in [Handlers -> Locals] /\ DataOK
        /\ Fits(local[h], DOMAIN heap, DOMAIN match)
    BY TypeParts
  <1>1. CASE RoomStartChecks(h)
    <2>1. DataOK' /\ Grow
      BY <1>1, DataKept DEF RoomStartChecks
    <2>2. Return(h) \/ (Here /\ Begin(h, "names", [room |-> current, ids |-> Members(Runtime)]))
      BY <1>1 DEF RoomStartChecks, IsMember
    <2>3. CASE Here /\ Begin(h, "names", [room |-> current, ids |-> Members(Runtime)])
      <3>1. Moves(h) /\ local'[h] = [wait |-> "names", me |-> None, row |-> None, room |-> current,
                                    match |-> None, ids |-> Members(Runtime), quits |-> FALSE, ends |-> FALSE]
        BY <1>0, <2>3, BegunWithNames
      <3>2. current \in DOMAIN heap /\ current \in Objects /\ heap' = heap
        BY <1>0, <1>1, <2>3, RoomAssumption DEF RoomStartChecks, DataOK, Here, Objects, roomVars
      <3>3. Members(Runtime) \subseteq Accounts
        <4>1. Runtime.members \in Seq(Accounts)
          <5>1. Runtime \in Rooms
            BY <1>0, <3>2 DEF DataOK, Runtime
          <5> QED BY <5>1 DEF Rooms
        <4> QED BY <4>1 DEF Members
      <3>4. local'[h] \in Locals /\ Fits(local'[h], DOMAIN heap', DOMAIN match')
        BY <3>1, <3>2, <3>3 DEF Locals, Waits, Fits, WithMatch
      <3> QED BY <2>1, <3>1, <3>4, TypeMoves
    <2> QED BY <2>1, <2>2, <2>3, TypeReturns
  <1>2. CASE RoomStartAdds(h)
    <2> DEFINE ids == local[h].ids
               m == Len(match) + 1
               new == [players |-> ids, over |-> FALSE, told |-> FALSE]
    <2>1. \/ UNCHANGED matchVars /\ Return(h)
          \/ /\ Len(match) < MaxMatches
             /\ match' = Append(match, new) /\ matchRow' = Append(matchRow, "none")
             /\ byRoom' = m /\ byId' = byId \cup {m} /\ Begin(h, "insert", [match |-> m])
      BY <1>2 DEF RoomStartAdds
    <2>2. CASE UNCHANGED matchVars /\ Return(h)
      <3>1. DataOK' /\ Grow
        BY <1>2, <2>2, DataKept DEF RoomStartAdds
      <3> QED BY <2>2, <3>1, TypeReturns
    <2>3. CASE /\ Len(match) < MaxMatches
               /\ match' = Append(match, new) /\ matchRow' = Append(matchRow, "none")
               /\ byRoom' = m /\ byId' = byId \cup {m} /\ Begin(h, "insert", [match |-> m])
      <3>1. new \in Matches
        BY <1>0 DEF Locals, Matches
      <3> HIDE DEF new
      <3>2. /\ match' \in Seq(Matches) /\ Len(match') = Len(match) + 1 /\ Len(match) \in Nat
            /\ DOMAIN match = 1..Len(match) /\ DOMAIN match' = 1..(Len(match) + 1)
        BY <1>0, <2>3, <3>1 DEF DataOK
      <3>3. /\ matchRow' \in Seq({"none", "active", "complete", "void"})
            /\ Len(matchRow') = Len(match) + 1
        BY <1>0, <2>3, <3>2 DEF DataOK
      <3>4. m \in DOMAIN match' /\ m \in Ids /\ Len(match') <= MaxMatches
        BY <2>3, <3>2, RoomAssumption DEF Ids
      <3>5. DataOK' /\ Grow
        BY <1>0, <1>2, <2>3, <3>2, <3>3, <3>4 DEF RoomStartAdds, DataOK, Grow, roomVars
      <3>6. Moves(h) /\ local'[h] = [wait |-> "insert", me |-> None, row |-> None, room |-> None,
                                    match |-> m, ids |-> {}, quits |-> FALSE, ends |-> FALSE]
        BY <1>0, <2>3, BegunWithMatch
      <3>7. local'[h] \in Locals /\ Fits(local'[h], DOMAIN heap', DOMAIN match')
        BY <3>4, <3>6 DEF Locals, Waits, Fits, WithMatch
      <3> QED BY <3>5, <3>6, <3>7, TypeMoves
    <2> QED BY <2>1, <2>2, <2>3
  <1>3. CASE RoomStartInserts(h)
    <2>1. local[h].wait = "insert" /\ local[h].match \in DOMAIN matchRow
      BY <1>0, <1>3 DEF RoomStartInserts, At, Fits, WithMatch, DataOK
    <2>2. DataOK' /\ Grow
      BY <1>0, <1>3, <2>1 DEF RoomStartInserts, DataOK, Grow, roomVars, Aborts, Hits
    <2>3. Goto(h, "activate") \/ Goto(h, "abort")
      BY <1>3 DEF RoomStartInserts, Aborts
    <2> QED BY <2>1, <2>2, <2>3, TypeGoes DEF WithMatch
  <1>4. CASE RoomStartActivates(h)
    <2> DEFINE m == local[h].match
    <2>1. local[h].wait = "activate" /\ m \in DOMAIN match
      BY <1>0, <1>4 DEF RoomStartActivates, At, Fits, WithMatch
    <2>2. row' \in Rows /\ match' \in Seq(Matches) /\ Len(match') = Len(match)
      <3>1. UNCHANGED <<row, match>> \/ (SetStatus("active") /\ match' = [match EXCEPT ![m].told = TRUE])
        BY <1>4 DEF RoomStartActivates
      <3>2. [match[m] EXCEPT !.told = TRUE] \in Matches /\ match \in Seq(Matches) /\ row \in Rows
        <4>1. match \in Seq(Matches) /\ row \in Rows /\ match[m] \in Matches
          BY <1>0, <2>1 DEF DataOK
        <4> QED BY <4>1 DEF Matches
      <3>3. row' \in Rows
        BY <3>1, <3>2 DEF SetStatus, Rows
      <3>4. CASE match' = match
        BY <3>2, <3>3, <3>4
      <3>5. CASE match' = [match EXCEPT ![m] = [match[m] EXCEPT !.told = TRUE]]
        <4> HIDE DEF m
        <4> DEFINE new == [match[m] EXCEPT !.told = TRUE]
        <4>1. new \in Matches /\ match \in Seq(Matches) /\ m \in DOMAIN match
          BY <2>1, <3>2
        <4>2. match' = [match EXCEPT ![m] = new]
          BY <3>5
        <4> HIDE DEF new
        <4> QED BY <3>3, <4>1, <4>2
      <3> QED BY <3>1, <3>3, <3>4, <3>5
    <2>3. DataOK' /\ Grow
      BY <1>0, <1>4, <2>2 DEF RoomStartActivates, DataOK, Grow, Aborts, Hits
    <2>4. Return(h) \/ Goto(h, "abort")
      BY <1>4 DEF RoomStartActivates, Aborts
    <2> QED BY <2>1, <2>3, <2>4, TypeGoes, TypeReturns DEF WithMatch
  <1>5. CASE RoomStartVoids(h)
    <2>1. local[h].wait = "abort" /\ local[h].match \in DOMAIN matchRow
      BY <1>0, <1>5 DEF RoomStartVoids, At, Fits, WithMatch, DataOK
    <2>2. DataOK' /\ Grow
      BY <1>0, <1>5, <2>1 DEF RoomStartVoids, DataOK, Grow, roomVars, VoidsRow, Remove, Hits
    <2> QED BY <1>5, <2>1, <2>2, TypeGoes DEF RoomStartVoids, WithMatch
  <1>6. CASE RoomStartAborted(h)
    <2>1. DataOK' /\ Grow
      BY <1>6, DataKept DEF RoomStartAborted
    <2> QED BY <1>6, <2>1, TypeReturns DEF RoomStartAborted
  <1> QED BY <1>1, <1>2, <1>3, <1>4, <1>5, <1>6

\* A handler goes on: a command, and the result of a hand.
LEMMA TypeResultSteps ==
    ASSUME TypeInv, NEW h \in Handlers,
           \/ CommandRefused(h) \/ CommandApplied(h) \/ ResultTaken(h) \/ HandPersisted(h)
           \/ ResultVoids(h) \/ ResultSettles(h) \/ ResultCloses(h) \/ ResultReopens(h)
    PROVE  TypeInv'
  <1> DEFINE m == local[h].match
  <1>0. /\ local \in [Handlers -> Locals] /\ DataOK
        /\ Fits(local[h], DOMAIN heap, DOMAIN match)
    BY TypeParts
  <1>1. local[h].wait \in WithMatch /\ m \in DOMAIN match /\ m \in DOMAIN matchRow
    <2>1. local[h].wait \in WithMatch
      BY DEF WithMatch, At, CommandRefused, CommandApplied, ResultTaken, HandPersisted,
             ResultVoids, ResultSettles, ResultCloses, ResultReopens
    <2> QED BY <1>0, <2>1 DEF Fits, DataOK
  <1> HIDE DEF m
  <1>2. CASE CommandRefused(h)
    <2>1. DataOK' /\ Grow
      BY <1>2, DataKept DEF CommandRefused
    <2> QED BY <1>2, <2>1, TypeReturns DEF CommandRefused
  <1>3. CASE CommandApplied(h)
    <2>1. PICK ends \in BOOLEAN, left \in SUBSET match[m].players :
            /\ match' = [match EXCEPT ![m].players = left, ![m].over = ends]
            /\ local' = [local EXCEPT ![h].wait = "applied", ![h].ends = ends]
      <3>1. \E ends \in BOOLEAN :
              /\ match' = [match EXCEPT ![m].players = match[m].players \ (IF local[h].quits THEN {local[h].me} ELSE {}),
                                      ![m].over = ends]
              /\ local' = [local EXCEPT ![h].wait = "applied", ![h].ends = ends]
        BY <1>3 DEF CommandApplied, m
      <3>2. match[m].players \ (IF local[h].quits THEN {local[h].me} ELSE {}) \in SUBSET match[m].players
        OBVIOUS
      <3> QED BY <3>1, <3>2
    <2>2. match[m] \in Matches /\ match \in Seq(Matches)
      BY <1>0, <1>1 DEF DataOK
    <2> DEFINE new == [players |-> left, over |-> ends, told |-> match[m].told]
    <2>3. match' = [match EXCEPT ![m] = new]
      <3>1. [match[m] EXCEPT !.players = left, !.over = ends] = new
        <4> DEFINE o == match[m]
        <4>1. o \in Matches
          BY <2>2
        <4>2. new = [players |-> left, over |-> ends, told |-> o.told]
          OBVIOUS
        <4> HIDE DEF o
        <4>3. [o EXCEPT !.players = left, !.over = ends] = [players |-> left, over |-> ends, told |-> o.told]
          <5> DEFINE p == [o EXCEPT !.players = left]
          <5>1. p = [players |-> left, over |-> o.over, told |-> o.told]
            BY <4>1 DEF Matches
          <5>2. [o EXCEPT !.players = left, !.over = ends] = [p EXCEPT !.over = ends]
            OBVIOUS
          <5> HIDE DEF p
          <5>3. [p EXCEPT !.over = ends] = [players |-> left, over |-> ends, told |-> o.told]
            BY <5>1
          <5> QED BY <5>2, <5>3
        <4> QED BY <4>2, <4>3 DEF o
      <3>2. match' = [match EXCEPT ![m] = [match[m] EXCEPT !.players = left, !.over = ends]]
        BY <1>1, <2>1, <2>2
      <3> QED BY <3>1, <3>2
    <2>4. new \in Matches
      BY <2>2 DEF Matches
    <2> HIDE DEF new
    <2>5. match' \in Seq(Matches) /\ Len(match') = Len(match)
      BY <1>1, <2>2, <2>3, <2>4
    <2>6. DataOK' /\ Grow
      BY <1>0, <1>3, <2>5 DEF CommandApplied, DataOK, Grow, roomVars
    <2>7. Moves(h) /\ local'[h] = [local[h] EXCEPT !.wait = "applied", !.ends = ends]
      BY <1>0, <2>1 DEF Moves
    <2>8. local'[h] \in Locals
      BY <1>0, <2>7 DEF Locals, Waits
    <2>9. Fits(local'[h], DOMAIN heap', DOMAIN match')
      BY <1>0, <1>1, <2>6, <2>7 DEF Fits, Locals, Grow, WithMatch, m
    <2> QED BY <2>6, <2>7, <2>8, <2>9, TypeMoves
  <1>4. CASE ResultTaken(h)
    <2>1. DataOK' /\ Grow
      BY <1>4, DataKept DEF ResultTaken
    <2>2. Goto(h, "persist") \/ Return(h)
      BY <1>4 DEF ResultTaken
    <2> QED BY <1>1, <2>1, <2>2, TypeGoes, TypeReturns DEF WithMatch
  <1>5. CASE HandPersisted(h)
    <2>1. DataOK' /\ Grow
      <3>1. \/ UNCHANGED matchRow
            \/ matchRow' = [matchRow EXCEPT ![m] = IF local[h].ends THEN "complete" ELSE @]
        BY <1>5 DEF HandPersisted, m
      <3>2. /\ matchRow' \in Seq({"none", "active", "complete", "void"})
            /\ Len(matchRow') = Len(matchRow)
        <4> DEFINE new == IF local[h].ends THEN "complete" ELSE matchRow[m]
        <4>1. matchRow \in Seq({"none", "active", "complete", "void"})
          BY <1>0 DEF DataOK
        <4>2. new \in {"none", "active", "complete", "void"}
          BY <1>1, <4>1
        <4>3. UNCHANGED matchRow \/ matchRow' = [matchRow EXCEPT ![m] = new]
          BY <3>1
        <4> HIDE DEF new
        <4> QED BY <1>1, <4>1, <4>2, <4>3
      <3>3. UNCHANGED troubles \/ Hits("database")
        BY <1>5 DEF HandPersisted
      <3>4. troubles' \subseteq Trouble \cup {"late"}
        BY <1>0, <3>3 DEF DataOK, Hits
      <3>5. UNCHANGED <<roomVars, byRoom, byId, match>>
        BY <1>5 DEF HandPersisted
      <3> QED BY <1>0, <3>2, <3>4, <3>5 DEF DataOK, Grow, roomVars
    <2>2. Goto(h, "settle") \/ local' = [local EXCEPT ![h].wait = "void", ![h].quits = FALSE]
      BY <1>5 DEF HandPersisted
    <2>3. CASE local' = [local EXCEPT ![h].wait = "void", ![h].quits = FALSE]
      <3>1. Moves(h) /\ local'[h] = [local[h] EXCEPT !.wait = "void", !.quits = FALSE]
        BY <1>0, <2>3 DEF Moves
      <3>2. local'[h] \in Locals
        BY <1>0, <3>1 DEF Locals, Waits
      <3>3. Fits(local'[h], DOMAIN heap', DOMAIN match')
        BY <1>0, <1>1, <2>1, <3>1 DEF Fits, Locals, Grow, WithMatch, m
      <3> QED BY <2>1, <3>1, <3>2, <3>3, TypeMoves
    <2> QED BY <1>1, <2>1, <2>2, <2>3, TypeGoes DEF WithMatch
  <1>6. CASE ResultVoids(h)
    <2>1. DataOK' /\ Grow
      BY <1>0, <1>1, <1>6 DEF ResultVoids, DataOK, Grow, roomVars, VoidsRow, Remove, Hits, m
    <2> QED BY <1>1, <1>6, <2>1, TypeGoes DEF ResultVoids, WithMatch
  <1>7. CASE ResultSettles(h)
    <2>1. DataOK' /\ Grow
      BY <1>0, <1>7 DEF ResultSettles, DataOK, Grow, roomVars, Remove
    <2>2. Goto(h, "closing") \/ Return(h) \/ (local[h].quits /\ Goto(h, "quit"))
      BY <1>7 DEF ResultSettles
    <2>3. CASE local[h].quits /\ Goto(h, "quit")
      BY <2>1, <2>3, TypeQuits
    <2> QED BY <1>1, <2>1, <2>2, <2>3, TypeGoes, TypeReturns DEF WithMatch
  <1>8. CASE ResultCloses(h)
    <2>1. DataOK' /\ Grow
      <3>1. CASE UNCHANGED heap
        BY <1>0, <1>8, <3>1 DEF ResultCloses, DataOK, Grow, matchVars
      <3>2. CASE Here /\ heap' = [heap EXCEPT ![current] = Reset(Runtime)]
        <4>1. Runtime \in Rooms /\ Distinct(Runtime) /\ current \in DOMAIN heap
          BY <1>0, <3>2 DEF DataOK, Here, Runtime
        <4>2. Reset(Runtime) \in Rooms /\ Reset(Runtime).members = Runtime.members
          BY <4>1 DEF Reset, Rooms
        <4>3. Distinct(Reset(Runtime))
          BY <4>1, <4>2 DEF Distinct, Members
        <4> QED BY <1>0, <1>8, <3>2, <4>1, <4>2, <4>3 DEF ResultCloses, DataOK, Grow, matchVars
      <3> QED BY <1>8, <3>1, <3>2 DEF ResultCloses, Update
    <2>2. Goto(h, "reopen") \/ Return(h)
      BY <1>8 DEF ResultCloses
    <2> QED BY <1>1, <2>1, <2>2, TypeGoes, TypeReturns DEF WithMatch
  <1>9. CASE ResultReopens(h)
    <2>1. DataOK' /\ Grow
      BY <1>0, <1>9 DEF ResultReopens, DataOK, Grow, matchVars, SetStatus, Rows, DatabaseFails, Hits
    <2>2. Return(h) \/ (local[h].quits /\ Goto(h, "quit"))
      BY <1>9 DEF ResultReopens, DatabaseFails
    <2>3. CASE local[h].quits /\ Goto(h, "quit")
      BY <2>1, <2>3, TypeQuits
    <2> QED BY <2>1, <2>2, <2>3, TypeReturns
  <1> QED BY <1>2, <1>3, <1>4, <1>5, <1>6, <1>7, <1>8, <1>9

LEMMA TypeStep ==
    ASSUME TypeInv, [Next]_vars
    PROVE  TypeInv'
  <1>0. DataOK /\ local \in [Handlers -> Locals]
    BY TypeParts
  <1>1. ASSUME NEW h \in Handlers, Requests(h) PROVE TypeInv'
    BY <1>1, TypeRequests
  <1>2. ASSUME NEW h \in Handlers, Continues(h) PROVE TypeInv'
    BY <1>2, TypeRoomSteps, TypeStartSteps, TypeResultSteps DEF Continues
  <1>3. ASSUME NEW a \in Accounts, NEW ready \in BOOLEAN, RoomReady(a, ready) PROVE TypeInv'
    <2> DEFINE o == [Runtime EXCEPT !.ready = IF ready THEN @ \cup {a} ELSE @ \ {a}]
    <2>1. current \in DOMAIN heap /\ Runtime \in Rooms /\ Distinct(Runtime)
      BY <1>0, <1>3 DEF RoomReady, IsMember, Here, Runtime, DataOK
    <2>2. o \in Rooms /\ o.members = Runtime.members
      BY <2>1 DEF Rooms
    <2>3. heap' = [heap EXCEPT ![current] = o]
      BY <1>3 DEF RoomReady, Update
    <2> HIDE DEF o
    <2>4. Distinct(o)
      BY <2>1, <2>2 DEF Distinct, Members
    <2>5. DataOK' /\ DOMAIN heap' = DOMAIN heap
      BY <1>0, <1>3, <2>1, <2>2, <2>3, <2>4 DEF RoomReady, DataOK, matchVars
    <2> QED BY <1>3, <2>5, TypeParts DEF RoomReady, matchVars, TypeInv, TypeOK, DataOK, Distinct
  <1>4. CASE Restart
    <2>1. DataOK' /\ local' = [h \in Handlers |-> Idle]
      <3>1. /\ matchRow' \in Seq({"none", "active", "complete", "void"})
            /\ Len(matchRow') = Len(matchRow)
        <4>1. matchRow \in Seq({"none", "active", "complete", "void"})
          BY <1>0 DEF DataOK
        <4>2. matchRow' = [m \in 1..Len(matchRow) |-> IF matchRow[m] = "active" THEN "void" ELSE matchRow[m]]
          BY <1>4, <4>1 DEF Restart
        <4>3. \A m \in 1..Len(matchRow) : matchRow'[m] \in {"none", "active", "complete", "void"}
          BY <4>1, <4>2
        <4> QED BY <4>1, <4>2, <4>3
      <3> QED BY <1>0, <1>4, <3>1 DEF Restart, DataOK, Hits
    <2> QED BY <2>1, IdleFits, TypeParts DEF TypeInv, TypeOK, DataOK, Distinct
  <1>5. CASE UNCHANGED vars
    BY <1>5 DEF TypeInv, TypeOK, vars, roomVars, matchVars, Distinct, Members
  <1> QED BY <1>1, <1>2, <1>3, <1>4, <1>5 DEF Next

\* The invariant of types.
LEMMA TypeInvariant == Spec => []TypeInv
  <1>1. Init => TypeInv
    <2> SUFFICES ASSUME Init PROVE TypeInv
      OBVIOUS
    <2>1. DataOK /\ local = [h \in Handlers |-> Idle]
      BY RoomAssumption DEF Init, DataOK, Rows
    <2> QED BY <2>1, IdleFits, TypeParts
  <1> QED BY <1>1, TypeStep, PTL DEF Spec

\* The types hold for every number of accounts, handlers, objects and matches:
\* above all, RoomRegistry.join and leave keep an account in a room object once,
\* and a handler that waited still holds an object and a match that exist.
THEOREM Types == Spec => []TypeOK
  <1>1. TypeInv => TypeOK
    BY DEF TypeInv
  <1> QED BY <1>1, TypeInvariant, PTL

-----------------------------------------------------------------------------
(* The host.                                                               *)

Alike(o, p) == p.host = o.host /\ p.members = o.members

\* Only the room's object changes: somebody joins it or leaves it, or only who
\* is ready does.
LEMMA ObjectSteps ==
    ASSUME TypeInv, [Next]_vars, NEW n \in DOMAIN heap
    PROVE  /\ n \in DOMAIN heap'
           /\ \/ Alike(heap[n], heap'[n])
              \/ n = current /\ \E a \in Accounts : heap'[n] = Joined(heap[n], a)
              \/ n = current /\ \E a \in Members(heap[n]) : heap'[n] = Left(heap[n], a)
  <1>0. DataOK /\ heap \in Seq(Rooms) /\ heap[n] \in Rooms /\ (Here => current \in DOMAIN heap)
    BY TypeParts DEF DataOK, Here
  <1> DEFINE Goal == /\ n \in DOMAIN heap'
                     /\ \/ Alike(heap[n], heap'[n])
                        \/ n = current /\ \E a \in Accounts : heap'[n] = Joined(heap[n], a)
                        \/ n = current /\ \E a \in Members(heap[n]) : heap'[n] = Left(heap[n], a)
  <1>1. UNCHANGED heap => Goal
    BY DEF Alike
  <1>2. ASSUME NEW h \in Handlers, RoomJoinEnters(h) PROVE Goal
    <2>1. local[h].me \in Accounts
      BY <1>2, TypeParts DEF RoomJoinEnters, At, Fits
    <2>2. \/ UNCHANGED heap
          \/ Here /\ heap' = [heap EXCEPT ![current] = Joined(heap[current], local[h].me)]
          \/ heap' = Append(heap, Joined(NewRoom(local[h].row.host), local[h].me))
      BY <1>2 DEF RoomJoinEnters
    <2>3. CASE heap' = Append(heap, Joined(NewRoom(local[h].row.host), local[h].me))
      <3> DEFINE o == Joined(NewRoom(local[h].row.host), local[h].me)
      <3> HIDE DEF o
      <3>1. heap' = Append(heap, o)
        BY <2>3 DEF o
      <3>2. n \in DOMAIN heap' /\ heap'[n] = heap[n]
        BY <1>0, <3>1
      <3> QED BY <3>2 DEF Alike
    <2> QED BY <1>0, <1>1, <2>1, <2>2, <2>3 DEF Alike
  <1>3. ASSUME NEW h \in Handlers, NEW a \in Accounts, RoomLeave(h, a) PROVE Goal
    <2>1. Here /\ a \in Members(heap[current]) /\ heap' = [heap EXCEPT ![current] = Left(heap[current], a)]
      BY <1>3 DEF RoomLeave, IsMember, Update, Runtime
    <2> QED BY <1>0, <2>1 DEF Alike
  <1>4. ASSUME NEW h \in Handlers, RoomKickLeaves(h) PROVE Goal
    <2>1. \/ UNCHANGED heap
          \/ /\ Here /\ local[h].me \in Members(heap[current])
             /\ heap' = [heap EXCEPT ![current] = Left(heap[current], local[h].me)]
      BY <1>4 DEF RoomKickLeaves, IsMember, Runtime
    <2> QED BY <1>0, <1>1, <2>1 DEF Alike
  <1>5. ASSUME NEW h \in Handlers, QuitLeaves(h) PROVE Goal
    <2>1. \/ UNCHANGED heap
          \/ /\ Here /\ local[h].me \in Members(heap[current])
             /\ heap' = [heap EXCEPT ![current] = Left(heap[current], local[h].me)]
      BY <1>5 DEF QuitLeaves, IsMember, Runtime
    <2> QED BY <1>0, <1>1, <2>1 DEF Alike
  <1>6. ASSUME NEW o \in Rooms, Here, Update(o), Alike(heap[current], o) PROVE Goal
    BY <1>0, <1>6 DEF Alike, Update
  <1>7. ASSUME NEW h \in Handlers, ResultCloses(h) PROVE Goal
    <2>1. UNCHANGED heap \/ (Here /\ Update(Reset(Runtime)))
      BY <1>7 DEF ResultCloses
    <2>2. Here => Reset(Runtime) \in Rooms /\ Alike(heap[current], Reset(Runtime))
      <3>1. Here => Runtime \in Rooms
        BY <1>0 DEF Runtime
      <3> QED BY <3>1 DEF Reset, Rooms, Alike, Runtime
    <2> QED BY <1>1, <1>6, <2>1, <2>2
  <1>8. ASSUME NEW a \in Accounts, NEW ready \in BOOLEAN, RoomReady(a, ready) PROVE Goal
    <2> DEFINE o == [Runtime EXCEPT !.ready = IF ready THEN @ \cup {a} ELSE @ \ {a}]
    <2>1. Here /\ Update(o) /\ Runtime \in Rooms
      BY <1>0, <1>8 DEF RoomReady, IsMember, Runtime
    <2>2. o \in Rooms /\ Alike(heap[current], o)
      BY <2>1 DEF Rooms, Alike, Runtime
    <2> QED BY <1>6, <2>1, <2>2
  <1>9. ASSUME NEW h \in Handlers, Requests(h) PROVE Goal
    BY <1>1, <1>3, <1>9 DEF Requests, RoomJoin, RoomStart, RoomKick, TimerCommand, GameCommand,
       AdminCloses, roomVars
  <1>10. ASSUME NEW h \in Handlers, Continues(h) PROVE Goal
    BY <1>1, <1>2, <1>4, <1>5, <1>7, <1>10
       DEF Continues, RoomLeaveCloses, RoomLeaveRemoves, SetRoomHost, RoomStartChecks, RoomStartAdds,
           RoomStartInserts, RoomStartActivates, RoomStartVoids, RoomStartAborted, CommandRefused,
           CommandApplied, ResultTaken, HandPersisted, ResultVoids, ResultSettles, ResultReopens,
           AdminRemoves, AdminClosed, roomVars
  <1>11. CASE Restart
    BY <1>1, <1>11 DEF Restart
  <1>12. CASE UNCHANGED vars
    BY <1>1, <1>12 DEF vars, roomVars
  <1> QED BY <1>8, <1>9, <1>10, <1>11, <1>12 DEF Next

\* RoomRegistry.leave: whoever joins, leaves, is kicked or quits, in whatever
\* order, a host who is a member is followed by a member as long as there is one.
THEOREM HostIsFollowed == Spec => HostStays
  <1>1. ASSUME TypeInv, [Next]_vars, Here, current' = current, Runtime.host \in Members(Runtime)
        PROVE  heap'[current].host \in Members(heap'[current]) \/ heap'[current].members = <<>>
    <2> DEFINE o == heap[current]
               p == heap'[current]
    <2>1. current \in DOMAIN heap /\ o \in Rooms /\ Distinct(o) /\ o.host \in Members(o)
      BY <1>1, TypeParts DEF DataOK, Here, Runtime
    <2>2. \/ Alike(o, p)
          \/ \E a \in Accounts : p = Joined(o, a)
          \/ \E a \in Members(o) : p = Left(o, a)
      BY <1>1, <2>1, ObjectSteps
    <2> SUFFICES p.host \in Members(p) \/ p.members = <<>>
      OBVIOUS
    <2> HIDE DEF o, p
    <2>3. CASE Alike(o, p)
      <3>1. Members(p) = Members(o) /\ p.host = o.host
        BY <2>3 DEF Alike, Members
      <3> QED BY <2>1, <3>1
    <2>4. ASSUME NEW a \in Accounts, p = Joined(o, a) PROVE p.host \in Members(p)
      BY <2>1, <2>4, JoinedFacts
    <2>5. ASSUME NEW a \in Members(o), p = Left(o, a) PROVE p.host \in Members(p) \/ p.members = <<>>
      BY <2>1, <2>5, LeftFacts
    <2> QED BY <2>2, <2>3, <2>4, <2>5
  <1>2. TypeInv /\ [Next]_vars =>
          [(Here /\ current' = current /\ Runtime.host \in Members(Runtime))
             => heap'[current].host \in Members(heap'[current]) \/ heap'[current].members = <<>>]_vars
    BY <1>1
  <1> QED BY <1>2, TypeInvariant, PTL DEF Spec, HostStays

-----------------------------------------------------------------------------
(* No circle of handlers that wait.                                        *)

\* The actor's own task never waits for itself, and who waits for an actor waits
\* for its task or for a command that can go on (MatchActor.close).
LEMMA NoCircle == SomebodyGoesOn
  <1> SUFFICES ASSUME NEW h \in Handlers, Blocked(h)
               PROVE  \E g \in Handlers : ~At(g, "idle") /\ ~Blocked(g)
    BY DEF SomebodyGoesOn
  <1>1. CASE \E g \in Handlers : Automatic(g) /\ local[g].wait \in Handling
    <2>1. PICK g \in Handlers : Automatic(g) /\ local[g].wait \in Handling
      BY <1>1
    <2>2. ~At(g, "idle") /\ ~At(g, "queued") /\ CloseReturns(g)
      BY <2>1 DEF At, Handling, CloseReturns
    <2> QED BY <2>2 DEF Blocked
  <1>2. CASE ~ \E g \in Handlers : Automatic(g) /\ local[g].wait \in Handling
    <2>1. \A m : ~ActorIsBusy(m)
      BY <1>2 DEF ActorIsBusy
    <2>2. PICK g \in Handlers : At(g, "queued")
      BY <2>1 DEF Blocked, CloseReturns
    <2>3. ~At(g, "idle") /\ local[g].wait \notin {"aborted", "closing", "adminclosing"}
      BY <2>2 DEF At
    <2> QED BY <2>1, <2>3 DEF Blocked
  <1> QED BY <1>1, <1>2

\* Handlers that wait for an actor and commands that wait behind a result never
\* all wait for each other, however many there are (MatchActor.close).
THEOREM NoCircleOfWaits == Spec => []SomebodyGoesOn
  BY NoCircle, PTL

-----------------------------------------------------------------------------
(* Matches.                                                                *)

\* What does not depend on the rooms.
MatchesInv == NoRescue /\ EnoughPlayers /\ Announced /\ Finishing /\ Settled

\* Steps that leave the matches and their rows alone: handlers come and go, but
\* who announces a match or handles its last result stays.
LEMMA MatchesKept ==
    ASSUME TypeInv, MatchesInv, UNCHANGED <<matchVars, troubles>>,
           \A g \in Handlers :
              \/ local'[g] = local[g]
              \/ /\ local'[g].wait \notin {"insert", "activate"} \cup Rescues
                 /\ local'[g].wait \in {"queued"} \cup Handling =>
                      /\ match[local'[g].match].told
                      /\ ~match[local'[g].match].over => local'[g].match \in byId
                 /\ \A m \in DOMAIN match : Finishes(g, m)' <=> Finishes(g, m)
                 /\ (\E m \in DOMAIN match : Finishes(g, m)) => ~At(g, "settle") /\ ~At(g, "settle")'
    PROVE  MatchesInv'
  <1> USE DEF MatchesInv
  <1>1. NoRescue'
    BY DEF NoRescue
  <1>2. EnoughPlayers' /\ Settled'
    BY DEF EnoughPlayers, Settled, matchVars
  <1>3. Announced'
    <2>1. ASSUME NEW h \in Handlers, local'[h].wait \in {"insert", "activate"} PROVE local'[h] = local[h]
      BY <2>1
    <2>2. ASSUME NEW h \in Handlers, local'[h].wait \in {"queued"} \cup Handling
          PROVE  /\ match[local'[h].match].told
                 /\ ~match[local'[h].match].over => local'[h].match \in byId
      BY <2>2 DEF Announced
    <2> QED BY <2>1, <2>2 DEF Announced, matchVars, At
  <1>4. Finishing'
    <2>1. \A g \in Handlers, m \in DOMAIN match : Finishes(g, m)' <=> Finishes(g, m)
      BY DEF Finishes
    <2>2. \A g \in Handlers, m \in DOMAIN match : Finishes(g, m) => (At(g, "settle")' <=> At(g, "settle"))
      BY DEF At
    <2>3. ASSUME NEW h \in Handlers, NEW m \in DOMAIN match', Finishes(h, m)'
          PROVE  m \in byId' /\ match'[m].over /\ matchRow'[m] = IF At(h, "settle")' THEN "complete" ELSE "active"
      <3>1. Finishes(h, m) /\ m \in DOMAIN match
        BY <2>1, <2>3 DEF matchVars
      <3> QED BY <2>2, <3>1 DEF Finishing, matchVars
    <2>4. ASSUME NEW g \in Handlers, NEW h \in Handlers, NEW m \in DOMAIN match', Finishes(g, m)', Finishes(h, m)'
          PROVE  g = h
      BY <2>1, <2>4 DEF Finishing, matchVars
    <2>5. ASSUME NEW m \in byId', match'[m].over, m \in DOMAIN match PROVE \E h \in Handlers : Finishes(h, m)'
      BY <2>1, <2>5 DEF Finishing, matchVars
    <2>6. byId' \subseteq DOMAIN match
      BY DEF TypeInv, TypeOK, matchVars
    <2> QED BY <2>3, <2>4, <2>5, <2>6 DEF Finishing
  <1> QED BY <1>1, <1>2, <1>3, <1>4

\* Where a handler waits that has no part in a match.
Plain == {"idle", "join", "close", "remove", "host", "kick", "start", "names", "quit"}

LEMMA MatchesPlain ==
    ASSUME TypeInv, MatchesInv, UNCHANGED <<matchVars, troubles>>, NEW h \in Handlers, Moves(h),
           local'[h].wait \in Plain, \A m \in DOMAIN match : ~Finishes(h, m)
    PROVE  MatchesInv'
  <1>1. \A g \in Handlers : g # h => local'[g] = local[g]
    BY DEF Moves, TypeInv, TypeOK
  <1>2. local'[h].wait \notin {"insert", "activate"} \cup Rescues \cup {"queued"} \cup Handling
    BY DEF Plain, Rescues, Handling
  <1>3. \A m \in DOMAIN match : ~Finishes(h, m)'
    BY DEF Plain, Finishes
  <1> QED BY <1>1, <1>2, <1>3, MatchesKept

LEMMA HereKept ==
    ASSUME MatchHere, UNCHANGED matchVars,
           byRoom # None => current' = current /\ match[byRoom].players \subseteq Members(heap'[current])
    PROVE  MatchHere'
  BY DEF MatchHere, matchVars, Here, Runtime

LEMMA NamesKept ==
    ASSUME TypeInv, [Next]_vars, NamesHeld,
           current' = current \/ current = None \/ heap'[current].members = <<>>,
           \A g \in Handlers : At(g, "names")' => local'[g] = local[g]
    PROVE  NamesHeld'
  <1> SUFFICES ASSUME NEW h \in Handlers, At(h, "names")'
               PROVE  /\ IsFiniteSet(local'[h].ids) /\ Cardinality(local'[h].ids) >= 2
                      /\ local'[h].room # current' => heap'[local'[h].room].members = <<>>
    BY DEF NamesHeld
  <1> DEFINE n == local[h].room
  <1>1. local'[h] = local[h] /\ At(h, "names")
    BY DEF At
  <1>2. /\ IsFiniteSet(local[h].ids) /\ Cardinality(local[h].ids) >= 2
        /\ n # current => heap[n].members = <<>>
    BY <1>1 DEF NamesHeld
  <1>3. n \in DOMAIN heap /\ n # None
    <2>1. n \in DOMAIN heap /\ DOMAIN heap \subseteq Nat
      BY <1>1, TypeParts DEF Fits, At, DataOK
    <2> QED BY <2>1, RoomAssumption
  <1> HIDE DEF n
  <1>4. n # current => heap'[n].members = heap[n].members
    BY <1>3, ObjectSteps DEF Alike
  <1>5. n # current' => heap'[n].members = <<>>
    BY <1>2, <1>3, <1>4
  <1> QED BY <1>1, <1>2, <1>5 DEF n

\* A call that raises, or a handler that is overtaken, is trouble.
LEMMA Untroubled ==
    ASSUME Calm'
    PROVE  /\ ~Hits("database") /\ ~Hits("early") /\ ~Hits("admin")
           /\ \A late \in BOOLEAN : Overtaken(late) => ~late /\ troubles' = troubles
  BY DEF Calm, Hits, Overtaken

LEMMA BegunAt ==
    ASSUME TypeInv, NEW h \in Handlers, NEW w, NEW fields, Begin(h, w, fields)
    PROVE  Moves(h) /\ local'[h].wait = w
  <1> DEFINE l == [wait |-> w,
                   me |-> IF "me" \in DOMAIN fields THEN fields.me ELSE None,
                   row |-> IF "row" \in DOMAIN fields THEN fields.row ELSE None,
                   room |-> IF "room" \in DOMAIN fields THEN fields.room ELSE None,
                   match |-> IF "match" \in DOMAIN fields THEN fields.match ELSE None,
                   ids |-> IF "ids" \in DOMAIN fields THEN fields.ids ELSE {},
                   quits |-> IF "quits" \in DOMAIN fields THEN fields.quits ELSE FALSE,
                   ends |-> IF "ends" \in DOMAIN fields THEN fields.ends ELSE FALSE]
  <1>1. Moves(h) /\ local'[h] = l
    BY Begun DEF TypeInv, TypeOK
  <1>2. l.wait = w
    OBVIOUS
  <1> HIDE DEF l
  <1> QED BY <1>1, <1>2

LEMMA GoneAt ==
    ASSUME TypeInv, NEW h \in Handlers, NEW w, Goto(h, w)
    PROVE  Moves(h) /\ local'[h].wait = w /\ \A m : Finishes(h, m)' <=>
             (w \in {"applied", "persist", "settle"} /\ local[h].ends /\ local[h].match = m)
  <1>1. Moves(h) /\ local'[h] = [local[h] EXCEPT !.wait = w] /\ local[h] \in Locals
    BY Gone DEF TypeInv, TypeOK
  <1>2. local'[h].wait = w /\ local'[h].ends = local[h].ends /\ local'[h].match = local[h].match
    BY <1>1 DEF Locals
  <1> QED BY <1>1, <1>2 DEF Finishes

LEMMA ReturnedAt ==
    ASSUME TypeInv, NEW h \in Handlers, Return(h)
    PROVE  Moves(h) /\ local'[h].wait = "idle"
  BY Returned DEF TypeInv, TypeOK, Idle

MatchInv == MatchesInv /\ MatchHere /\ NamesHeld

\* Requests that come in.
LEMMA CalmRequests ==
    ASSUME TypeInv, MatchInv, Calm', [Next]_vars, NEW h \in Handlers, Requests(h)
    PROVE  MatchInv'
  <1> USE DEF MatchInv
  <1>1. At(h, "idle")
    BY DEF Requests, RoomJoin, RoomLeave, RoomStart, RoomKick, TimerCommand, GameCommand, AdminCloses
  <1>2. \A m : ~Finishes(h, m)
    BY <1>1 DEF At, Finishes
  <1>3. \A g \in Handlers : Moves(h) /\ g # h => local'[g] = local[g]
    BY DEF Moves, TypeInv, TypeOK
  <1>5. ASSUME NEW a \in Accounts, NEW b \in Accounts, RoomJoin(h, a) \/ RoomStart(h, a) \/ RoomKick(h, a, b)
        PROVE  MatchInv'
    <2>1. Moves(h) /\ local'[h].wait \in {"join", "start", "kick"} /\ UNCHANGED <<roomVars, matchVars, troubles>>
      BY <1>5, BegunAt DEF RoomJoin, RoomStart, RoomKick
    <2>2. MatchesInv'
      BY <1>2, <2>1, MatchesPlain DEF Plain
    <2>3. MatchHere'
      BY <2>1, HereKept DEF roomVars, MatchHere, Runtime
    <2>4. NamesHeld'
      BY <1>3, <2>1, NamesKept DEF At, roomVars
    <2> QED BY <2>2, <2>3, <2>4
  <1>6. ASSUME NEW a \in Accounts, RoomLeave(h, a) PROVE MatchInv'
    <2>1. byRoom = None /\ current' = current /\ UNCHANGED <<matchVars, troubles>>
      BY <1>6 DEF RoomLeave
    <2>2. Moves(h) /\ local'[h].wait \in {"close", "host"}
      <3>1. Begin(h, "close", [me |-> a]) \/ Begin(h, "host", [me |-> Left(Runtime, a).host])
        BY <1>6 DEF RoomLeave
      <3> QED BY <3>1, BegunAt
    <2>3. MatchesInv'
      BY <1>2, <2>1, <2>2, MatchesPlain DEF Plain
    <2>4. MatchHere'
      BY <2>1, HereKept
    <2>5. NamesHeld'
      BY <1>3, <2>1, <2>2, NamesKept DEF At
    <2> QED BY <2>3, <2>4, <2>5
  <1>7. ASSUME NEW m \in DOMAIN match,
               \/ TimerCommand(h, m)
               \/ \E a \in Accounts, quits \in BOOLEAN : GameCommand(h, a, m, quits)
        PROVE  MatchInv'
    <2>1. UNCHANGED <<roomVars, matchVars, troubles>> /\ match[m].told /\ m \in byId
      BY <1>7, Untroubled DEF TimerCommand, GameCommand, Known
    <2>2. Moves(h) /\ local'[h].wait = "queued" /\ local'[h].match = m
      <3>1. local \in [Handlers -> Locals]
        BY DEF TypeInv, TypeOK
      <3>2. CASE TimerCommand(h, m)
        <4>1. Begin(h, "queued", [match |-> m])
          BY <3>2 DEF TimerCommand
        <4>2. Moves(h) /\ local'[h] = [wait |-> "queued", me |-> None, row |-> None, room |-> None,
                                      match |-> m, ids |-> {}, quits |-> FALSE, ends |-> FALSE]
          BY <3>1, <4>1, BegunWithMatch
        <4> QED BY <4>2
      <3>3. ASSUME NEW a \in Accounts, NEW quits \in BOOLEAN, GameCommand(h, a, m, quits)
            PROVE  Moves(h) /\ local'[h].wait = "queued" /\ local'[h].match = m
        <4> DEFINE room == IF quits THEN current ELSE None
        <4>1. Begin(h, "queued", [me |-> a, match |-> m, quits |-> quits, room |-> room])
          BY <3>3 DEF GameCommand
        <4> HIDE DEF room
        <4>2. Moves(h) /\ local'[h] = [wait |-> "queued", me |-> a, row |-> None, room |-> room,
                                      match |-> m, ids |-> {}, quits |-> quits, ends |-> FALSE]
          BY <3>1, <4>1, BegunWithCommand
        <4> QED BY <4>2
      <3> QED BY <1>7, <3>2, <3>3
    <2>3. MatchesInv'
      <3>1. \A k \in DOMAIN match : ~Finishes(h, k)'
        BY <2>2 DEF Finishes
      <3>2. local'[h].wait \notin {"insert", "activate"} \cup Rescues
        BY <2>2 DEF Rescues
      <3> QED BY <1>2, <1>3, <2>1, <2>2, <3>1, <3>2, MatchesKept
    <2>4. MatchHere'
      BY <2>1, HereKept DEF roomVars, MatchHere, Runtime
    <2>5. NamesHeld'
      BY <1>3, <2>1, <2>2, NamesKept DEF At, roomVars
    <2> QED BY <2>3, <2>4, <2>5
  <1>8. ~AdminCloses(h)
    BY Untroubled DEF AdminCloses
  <1>9. ASSUME NEW a \in Accounts, RoomJoin(h, a) \/ RoomStart(h, a) PROVE MatchInv'
    BY <1>5, <1>9
  <1>10. ASSUME NEW m \in DOMAIN match, NEW a \in Accounts, NEW quits \in BOOLEAN, GameCommand(h, a, m, quits)
         PROVE  MatchInv'
    BY <1>7, <1>10
  <1> HIDE DEF MatchInv
  <1> QED BY <1>5, <1>6, <1>7, <1>8, <1>9, <1>10 DEF Requests

\* The room of a match keeps its players: nobody leaves but who does not play.
LEMMA PlayersStay ==
    ASSUME TypeInv, MatchInv, UNCHANGED matchVars, current' = current,
           Here => \/ Alike(Runtime, heap'[current])
                   \/ \E a \in Accounts : heap'[current] = Joined(Runtime, a)
                   \/ \E a \in Members(Runtime) : heap'[current] = Left(Runtime, a) /\ ~Plays(a)
    PROVE  MatchHere'
  <1> SUFFICES ASSUME byRoom # None
               PROVE  match[byRoom].players \subseteq Members(heap'[current])
    BY HereKept DEF MatchInv
  <1>1. Here /\ match[byRoom].players \subseteq Members(Runtime)
    BY DEF MatchInv, MatchHere
  <1>2. Runtime \in Rooms /\ Distinct(Runtime)
    BY <1>1, TypeParts DEF DataOK, Here, Runtime
  <1>3. CASE Alike(Runtime, heap'[current])
    BY <1>1, <1>3 DEF Alike, Members
  <1>4. ASSUME NEW a \in Accounts, heap'[current] = Joined(Runtime, a)
        PROVE  match[byRoom].players \subseteq Members(heap'[current])
    BY <1>1, <1>2, <1>4, JoinedFacts
  <1>5. ASSUME NEW a \in Members(Runtime), heap'[current] = Left(Runtime, a), ~Plays(a)
        PROVE  match[byRoom].players \subseteq Members(heap'[current])
    <2>1. a \notin match[byRoom].players
      BY <1>1, <1>5 DEF Plays, IsMember
    <2>2. Members(heap'[current]) = Members(Runtime) \ {a}
      BY <1>2, <1>5, LeftFacts
    <2> QED BY <1>1, <2>1, <2>2
  <1> QED BY <1>1, <1>3, <1>4, <1>5

\* Handlers of the room that go on.
LEMMA CalmRoomSteps ==
    ASSUME TypeInv, MatchInv, Calm', [Next]_vars, NEW h \in Handlers,
           \/ RoomJoinEnters(h) \/ RoomLeaveCloses(h) \/ RoomLeaveRemoves(h) \/ SetRoomHost(h)
           \/ RoomKickLeaves(h) \/ QuitLeaves(h) \/ AdminRemoves(h) \/ AdminClosed(h)
    PROVE  MatchInv'
  <1>1. ~AdminRemoves(h) /\ ~AdminClosed(h)
    BY DEF MatchInv, MatchesInv, NoRescue, Rescues, AdminRemoves, AdminClosed, At
  <1>2. \A m : ~Finishes(h, m)
    BY <1>1 DEF Finishes, At, RoomJoinEnters, RoomLeaveCloses, RoomLeaveRemoves, SetRoomHost,
                RoomKickLeaves, QuitLeaves
  <1>3. UNCHANGED <<matchVars, troubles>>
    <2>1. ~DatabaseFails(h)
      BY Untroubled DEF DatabaseFails
    <2>2. \A late \in BOOLEAN : Overtaken(late) => UNCHANGED troubles
      BY Untroubled
    <2>3. Plays(local[h].me) \in BOOLEAN
      BY DEF Plays, IsMember, Here
    <2>4. RoomLeaveRemoves(h) => UNCHANGED <<matchVars, troubles>>
      <3>1. ((Here /\ Runtime.members = <<>>) /\ row.status # "closed") \in BOOLEAN
        BY DEF Here
      <3> QED BY <2>2, <3>1 DEF RoomLeaveRemoves
    <2>5. RoomKickLeaves(h) \/ QuitLeaves(h) => UNCHANGED <<matchVars, troubles>>
      BY <2>2, <2>3 DEF RoomKickLeaves, QuitLeaves
    <2> QED BY <1>1, <2>1, <2>4, <2>5 DEF RoomJoinEnters, RoomLeaveCloses, SetRoomHost
  <1>4. Moves(h) /\ local'[h].wait \in {"idle", "remove", "host"}
    <2>1. \/ Return(h) \/ Goto(h, "remove")
          \/ \E a : Begin(h, "host", [me |-> a])
      BY <1>1 DEF RoomJoinEnters, RoomLeaveCloses, RoomLeaveRemoves, SetRoomHost, RoomKickLeaves,
                  QuitLeaves, DatabaseFails
    <2> QED BY <2>1, BegunAt, GoneAt, ReturnedAt
  <1>5. MatchesInv'
    BY <1>2, <1>3, <1>4, MatchesPlain DEF MatchInv, Plain
  <1>6. \A g \in Handlers : At(g, "names")' => local'[g] = local[g]
    BY <1>4 DEF Moves, At, TypeInv, TypeOK
  <1>7. CASE current' = current
    <2>1. Here => \/ Alike(Runtime, heap'[current])
                  \/ \E a \in Accounts : heap'[current] = Joined(Runtime, a)
                  \/ \E a \in Members(Runtime) : heap'[current] = Left(Runtime, a) /\ ~Plays(a)
      <3>1. SUFFICES ASSUME Here
                     PROVE  \/ Alike(Runtime, heap'[current])
                            \/ \E a \in Accounts : heap'[current] = Joined(Runtime, a)
                            \/ \E a \in Members(Runtime) : heap'[current] = Left(Runtime, a) /\ ~Plays(a)
        OBVIOUS
      <3>2. current \in DOMAIN heap
        BY <3>1, TypeParts DEF DataOK, Here
      <3>3. UNCHANGED heap => Alike(Runtime, heap'[current])
        BY DEF Alike, Runtime
      <3>4. CASE RoomJoinEnters(h)
        <4>1. local[h].me \in Accounts
          BY <3>4, TypeParts DEF RoomJoinEnters, At, Fits
        <4>2. UNCHANGED heap \/ heap' = [heap EXCEPT ![current] = Joined(Runtime, local[h].me)]
          BY <3>1, <3>4 DEF RoomJoinEnters, Runtime
        <4> QED BY <3>2, <3>3, <4>1, <4>2
      <3>5. CASE RoomKickLeaves(h) \/ QuitLeaves(h)
        <4>1. \/ UNCHANGED heap
              \/ /\ local[h].me \in Members(Runtime)
                 /\ heap' = [heap EXCEPT ![current] = Left(Runtime, local[h].me)]
          BY <3>5 DEF RoomKickLeaves, QuitLeaves, IsMember, Runtime
        <4>2. ~Plays(local[h].me)
          <5>1. Plays(local[h].me) \in BOOLEAN
            BY DEF Plays, IsMember, Here
          <5> QED BY <3>5, <5>1, Untroubled DEF RoomKickLeaves, QuitLeaves
        <4> QED BY <3>2, <3>3, <4>1, <4>2
      <3>6. CASE RoomLeaveCloses(h) \/ RoomLeaveRemoves(h) \/ SetRoomHost(h)
        BY <3>3, <3>6 DEF RoomLeaveCloses, RoomLeaveRemoves, SetRoomHost
      <3> QED BY <1>1, <3>4, <3>5, <3>6
    <2>2. MatchHere'
      BY <1>3, <1>7, <2>1, PlayersStay
    <2>3. NamesHeld'
      BY <1>6, <1>7, NamesKept DEF MatchInv
    <2> QED BY <1>5, <2>2, <2>3 DEF MatchInv
  <1>8. CASE current' # current
    <2>1. \/ current = None
          \/ Here /\ Runtime.members = <<>> /\ UNCHANGED heap
      BY <1>1, <1>8 DEF RoomJoinEnters, RoomLeaveCloses, RoomLeaveRemoves, SetRoomHost,
                        RoomKickLeaves, QuitLeaves, Here
    <2>2. byRoom = None
      <3>1. SUFFICES ASSUME byRoom # None PROVE FALSE
        OBVIOUS
      <3>2. Here /\ match[byRoom].players \subseteq Members(Runtime) /\ byRoom \in DOMAIN match
        BY <3>1, TypeParts DEF MatchInv, MatchHere, DataOK
      <3>3. Members(Runtime) = {}
        BY <2>1, <3>2 DEF Here, Members
      <3>4. match[byRoom].players # {}
        BY <3>2 DEF MatchInv, MatchesInv, EnoughPlayers
      <3> QED BY <3>2, <3>3, <3>4
    <2>3. MatchHere'
      BY <1>3, <2>2, HereKept DEF MatchInv
    <2>4. NamesHeld'
      BY <1>6, <2>1, NamesKept DEF MatchInv, Runtime
    <2> QED BY <1>5, <2>3, <2>4 DEF MatchInv
  <1> QED BY <1>7, <1>8

\* room:ready
LEMMA CalmReady ==
    ASSUME TypeInv, MatchInv, [Next]_vars, NEW a \in Accounts, NEW ready \in BOOLEAN, RoomReady(a, ready)
    PROVE  MatchInv'
  <1>1. byRoom = None /\ UNCHANGED <<matchVars, troubles>> /\ local' = local /\ current' = current
    BY DEF RoomReady
  <1>2. MatchesInv'
    BY <1>1, MatchesKept DEF MatchInv
  <1>3. MatchHere'
    BY <1>1, HereKept DEF MatchInv
  <1>4. NamesHeld'
    BY <1>1, NamesKept DEF MatchInv
  <1> QED BY <1>2, <1>3, <1>4 DEF MatchInv

\* A handler that goes back to idle, or on without a part in a match, while the
\* registries, the rows and the matches stay.
LEMMA CalmIdle ==
    ASSUME TypeInv, MatchInv, [Next]_vars, UNCHANGED <<current, heap, matchVars, troubles>>,
           NEW h \in Handlers, Moves(h), local'[h].wait \in Plain \ {"names"},
           \A m \in DOMAIN match : ~Finishes(h, m)
    PROVE  MatchInv'
  <1>1. MatchesInv'
    BY MatchesPlain DEF MatchInv
  <1>2. MatchHere'
    BY HereKept DEF MatchInv, MatchHere, Runtime
  <1>3. \A g \in Handlers : At(g, "names")' => local'[g] = local[g]
    BY DEF Moves, At, TypeInv, TypeOK, Plain
  <1>4. NamesHeld'
    BY <1>3, NamesKept DEF MatchInv
  <1> QED BY <1>1, <1>2, <1>4 DEF MatchInv

\* room:start checks: the players it lists are members, two or more.
LEMMA CalmStartChecks ==
    ASSUME TypeInv, MatchInv, Calm', [Next]_vars, NEW h \in Handlers, RoomStartChecks(h)
    PROVE  MatchInv'
  <1>1. \A m : ~Finishes(h, m)
    BY DEF Finishes, At, RoomStartChecks
  <1>2. UNCHANGED <<roomVars, matchVars, troubles>>
    BY DEF RoomStartChecks
  <1>3. CASE Return(h)
    BY <1>1, <1>2, <1>3, ReturnedAt, CalmIdle DEF Plain, roomVars
  <1>4. CASE /\ Here /\ Len(Runtime.members) >= 2
             /\ Begin(h, "names", [room |-> current, ids |-> Members(Runtime)])
    <2>1. Moves(h) /\ local'[h] = [wait |-> "names", me |-> None, row |-> None, room |-> current,
                                  match |-> None, ids |-> Members(Runtime), quits |-> FALSE, ends |-> FALSE]
      BY <1>4, BegunWithNames DEF TypeInv, TypeOK
    <2>2. local'[h].wait = "names" /\ local'[h].room = current /\ local'[h].ids = Members(Runtime)
      BY <2>1
    <2>3. MatchesInv'
      BY <1>1, <1>2, <2>1, <2>2, MatchesPlain DEF MatchInv, Plain
    <2>4. MatchHere'
      BY <1>2, HereKept DEF MatchInv, MatchHere, Runtime, roomVars
    <2>5. IsFiniteSet(Members(Runtime)) /\ Cardinality(Members(Runtime)) >= 2
      <3>1. Runtime \in Rooms /\ Distinct(Runtime)
        BY <1>4, TypeParts DEF DataOK, Here, Runtime
      <3> QED BY <1>4, <3>1, MembersCounted DEF Distinct
    <2>6. ASSUME NEW g \in Handlers, At(g, "names")'
          PROVE  /\ IsFiniteSet(local'[g].ids) /\ Cardinality(local'[g].ids) >= 2
                 /\ local'[g].room # current' => heap'[local'[g].room].members = <<>>
      <3>1. CASE g = h
        BY <1>2, <2>2, <2>5, <3>1 DEF roomVars
      <3>2. CASE g # h
        <4>1. local'[g] = local[g]
          BY <2>1, <3>2 DEF Moves, TypeInv, TypeOK
        <4> QED BY <1>2, <2>6, <4>1 DEF MatchInv, NamesHeld, At, roomVars
      <3> QED BY <3>1, <3>2
    <2>7. NamesHeld'
      BY <2>6 DEF NamesHeld
    <2> QED BY <2>3, <2>4, <2>7 DEF MatchInv
  <1> QED BY <1>3, <1>4 DEF RoomStartChecks, IsMember

\* room:start registers its match: the object it holds is the room's, since one
\* that was dropped is empty, and the room has no other match.
LEMMA CalmStartAdds ==
    ASSUME TypeInv, MatchInv, Calm', [Next]_vars, NEW h \in Handlers, RoomStartAdds(h)
    PROVE  MatchInv'
  <1> DEFINE ids == local[h].ids
             m == Len(match) + 1
             new == [players |-> ids, over |-> FALSE, told |-> FALSE]
  <1>1. At(h, "names") /\ UNCHANGED <<roomVars, troubles>>
    BY DEF RoomStartAdds
  <1>2. \A k : ~Finishes(h, k)
    BY <1>1 DEF Finishes, At
  <1>3. CASE UNCHANGED matchVars /\ Return(h)
    BY <1>1, <1>2, <1>3, ReturnedAt, CalmIdle DEF Plain, roomVars
  <1>4. CASE /\ ids \subseteq Members(heap[local[h].room]) /\ byRoom = None
             /\ match' = Append(match, new) /\ matchRow' = Append(matchRow, "none")
             /\ byRoom' = m /\ byId' = byId \cup {m} /\ Begin(h, "insert", [match |-> m])
    <2>1. Moves(h) /\ local'[h].wait = "insert" /\ local'[h].match = m
      <3>1. Moves(h) /\ local'[h] = [wait |-> "insert", me |-> None, row |-> None, room |-> None,
                                    match |-> m, ids |-> {}, quits |-> FALSE, ends |-> FALSE]
        BY <1>4, BegunWithMatch DEF TypeInv, TypeOK
      <3> QED BY <3>1
    <2>2. \A g \in Handlers : g # h => local'[g] = local[g]
      BY <2>1 DEF Moves, TypeInv, TypeOK
    <2>3. IsFiniteSet(ids) /\ Cardinality(ids) >= 2 /\ ids # {}
      <3>1. IsFiniteSet(ids) /\ Cardinality(ids) >= 2
        BY <1>1 DEF MatchInv, NamesHeld
      <3> QED BY <3>1, FS_EmptySet
    <2>4. Here /\ ids \subseteq Members(Runtime)
      <3> DEFINE n == local[h].room
      <3>1. heap[n].members # <<>>
        BY <1>4, <2>3 DEF Members
      <3>2. n = current
        BY <1>1, <3>1 DEF MatchInv, NamesHeld
      <3>3. n \in Nat
        BY <1>1, TypeParts DEF Fits, At, DataOK
      <3> QED BY <1>4, <3>2, <3>3, RoomAssumption DEF Here, Runtime
    <2>5. byId = {} /\ byId' = {m}
      BY <1>4 DEF MatchInv, MatchHere
    <2>6. /\ match \in Seq(Matches) /\ matchRow \in Seq({"none", "active", "complete", "void"})
          /\ Len(match) \in Nat /\ Len(matchRow) = Len(match)
          /\ DOMAIN match = 1..Len(match) /\ m \notin DOMAIN match /\ m # None
      BY TypeParts, RoomAssumption DEF DataOK
    <2> HIDE DEF new
    <2>7. /\ DOMAIN match' = DOMAIN match \cup {m}
          /\ \A k \in DOMAIN match : match'[k] = match[k] /\ matchRow'[k] = matchRow[k]
          /\ match'[m] = new /\ matchRow'[m] = "none"
      <3>1. /\ DOMAIN match' = 1..(Len(match) + 1)
            /\ \A k \in 1..Len(match) : match'[k] = match[k]
            /\ match'[Len(match) + 1] = new
        BY <1>4, <2>6
      <3>2. /\ \A k \in 1..Len(match) : matchRow'[k] = matchRow[k]
            /\ matchRow'[Len(match) + 1] = "none"
        BY <1>4, <2>6
      <3>3. 1..(Len(match) + 1) = (1..Len(match)) \cup {Len(match) + 1}
        BY <2>6
      <3> QED BY <2>6, <3>1, <3>2, <3>3
    <2>8. new.players = ids /\ ~new.over /\ ~new.told
      BY DEF new
    <2> HIDE DEF m, ids
    <2>9. \A g \in Handlers : g # h =>
            /\ local'[g].wait \notin {"insert", "activate"}
            /\ local'[g].wait \in {"queued"} \cup Handling => local'[g].match \in DOMAIN match
      <3>1. ASSUME NEW g \in Handlers, g # h PROVE local[g].wait \notin {"insert", "activate"}
        BY <2>5 DEF MatchInv, MatchesInv, Announced
      <3>2. ASSUME NEW g \in Handlers, g # h, local[g].wait \in {"queued"} \cup Handling
            PROVE local[g].match \in DOMAIN match
        BY <3>2, TypeParts DEF Fits, WithMatch, Handling
      <3> QED BY <2>2, <3>1, <3>2
    <2>10. NoRescue'
      BY <2>1, <2>2 DEF MatchInv, MatchesInv, NoRescue, Rescues
    <2>11. EnoughPlayers'
      BY <2>3, <2>7, <2>8 DEF MatchInv, MatchesInv, EnoughPlayers
    <2>12. Announced'
      <3>1. ASSUME NEW g \in Handlers, local'[g].wait \in {"insert", "activate"}
            PROVE  g = h
        BY <2>9, <3>1
      <3>2. ASSUME NEW g \in Handlers, local'[g].wait \in {"insert", "activate"}
            PROVE  LET k == local'[g].match
                   IN  /\ k \in byId' /\ ~match'[k].told /\ ~match'[k].over
                       /\ matchRow'[k] = IF At(g, "insert")' THEN "none" ELSE "active"
        BY <2>1, <2>5, <2>7, <2>8, <3>1, <3>2 DEF At
      <3>3. ASSUME NEW k \in DOMAIN match'
            PROVE  /\ match'[k].over => match'[k].told
                   /\ match'[k].told => matchRow'[k] # "none"
                   /\ k \in byId' /\ match'[k].told /\ ~match'[k].over => matchRow'[k] = "active"
        BY <2>5, <2>6, <2>7, <2>8 DEF MatchInv, MatchesInv, Announced
      <3>4. ASSUME NEW g \in Handlers, local'[g].wait \in {"queued"} \cup Handling
            PROVE  /\ match'[local'[g].match].told
                   /\ ~match'[local'[g].match].over => local'[g].match \in byId'
        <4>1. g # h /\ local'[g] = local[g]
          BY <2>1, <2>2, <3>4 DEF Handling
        <4> QED BY <2>5, <2>7, <2>9, <3>4, <4>1 DEF MatchInv, MatchesInv, Announced
      <3> QED BY <3>1, <3>2, <3>3, <3>4 DEF Announced
    <2>13. \A g \in Handlers, k \in DOMAIN match' : ~Finishes(g, k)'
      <3> SUFFICES ASSUME NEW g \in Handlers, NEW k \in DOMAIN match', Finishes(g, k)' PROVE FALSE
        OBVIOUS
      <3>1. local'[g].wait \in {"applied", "persist", "settle"} /\ local'[g].ends /\ local'[g].match = k
        BY DEF Finishes
      <3>2. g # h /\ local'[g] = local[g]
        BY <2>1, <2>2, <3>1
      <3>3. k \in DOMAIN match /\ Finishes(g, k)
        BY <2>9, <3>1, <3>2 DEF Handling, Finishes
      <3> QED BY <2>5, <3>3 DEF MatchInv, MatchesInv, Finishing
    <2>14. Finishing'
      BY <2>5, <2>7, <2>8, <2>13 DEF Finishing
    <2>15. Settled'
      BY <1>1, <2>5, <2>6, <2>7, <2>8 DEF MatchInv, MatchesInv, Settled
    <2>16. MatchHere'
      <3>1. byRoom' = m /\ match'[m].players = ids /\ UNCHANGED <<heap, current>>
        BY <1>1, <1>4, <2>7, <2>8 DEF roomVars
      <3> QED BY <2>4, <2>5, <2>6, <3>1 DEF MatchHere, Here, Runtime
    <2>17. NamesHeld'
      <3>1. \A g \in Handlers : At(g, "names")' => local'[g] = local[g]
        BY <2>1, <2>2 DEF At
      <3> QED BY <1>1, <3>1, NamesKept DEF MatchInv, roomVars
    <2> QED BY <2>10, <2>11, <2>12, <2>14, <2>15, <2>16, <2>17 DEF MatchInv, MatchesInv
  <1> QED BY <1>3, <1>4 DEF RoomStartAdds

\* While a match is announced, no other handler has a part in a match that is in
\* the registry.
LEMMA Alone ==
    ASSUME TypeInv, MatchInv, NEW h \in Handlers, local[h].wait \in {"insert", "activate"}
    PROVE  /\ local[h].match \in DOMAIN match /\ byId = {local[h].match} /\ byRoom = local[h].match
           /\ ~match[local[h].match].told /\ ~match[local[h].match].over
           /\ matchRow[local[h].match] = IF At(h, "insert") THEN "none" ELSE "active"
           /\ \A g \in Handlers : g # h =>
                /\ local[g].wait \notin {"insert", "activate"}
                /\ local[g].wait \in {"queued"} \cup Handling => local[g].match # local[h].match
           /\ \A g \in Handlers, k \in DOMAIN match : ~Finishes(g, k)
  <1>1. local[h].match \in DOMAIN match
    BY TypeParts DEF Fits, WithMatch
  <1>2. /\ local[h].match \in byId
        /\ ~match[local[h].match].told /\ ~match[local[h].match].over
        /\ matchRow[local[h].match] = IF At(h, "insert") THEN "none" ELSE "active"
    BY DEF MatchInv, MatchesInv, Announced
  <1>3. byId = {local[h].match} /\ byRoom = local[h].match
    BY <1>2 DEF MatchInv, MatchHere
  <1>4. ASSUME NEW g \in Handlers, g # h
        PROVE  /\ local[g].wait \notin {"insert", "activate"}
               /\ local[g].wait \in {"queued"} \cup Handling => local[g].match # local[h].match
    BY <1>2, <1>4 DEF MatchInv, MatchesInv, Announced
  <1>5. ASSUME NEW g \in Handlers, NEW k \in DOMAIN match, Finishes(g, k) PROVE FALSE
    BY <1>2, <1>3, <1>5 DEF MatchInv, MatchesInv, Finishing
  <1> QED BY <1>1, <1>2, <1>3, <1>4, <1>5

\* The row of the match is written.
LEMMA CalmStartInserts ==
    ASSUME TypeInv, MatchInv, Calm', [Next]_vars, NEW h \in Handlers, RoomStartInserts(h)
    PROVE  MatchInv'
  <1> DEFINE m == local[h].match
  <1>1. /\ local[h].wait = "insert" /\ Goto(h, "activate")
        /\ matchRow' = [matchRow EXCEPT ![m] = "active"]
        /\ UNCHANGED <<roomVars, byRoom, byId, match, troubles>>
    BY Untroubled DEF RoomStartInserts, Aborts, At
  <1>2. Moves(h) /\ local'[h].wait = "activate" /\ local'[h].match = m
    <2>1. Moves(h) /\ local'[h] = [local[h] EXCEPT !.wait = "activate"] /\ local[h] \in Locals
      BY <1>1, Gone DEF TypeInv, TypeOK
    <2> QED BY <2>1 DEF Locals
  <1>3. \A g \in Handlers : g # h => local'[g] = local[g]
    BY <1>2 DEF Moves, TypeInv, TypeOK
  <1>4. /\ m \in DOMAIN match /\ byId = {m}
        /\ ~match[m].told /\ ~match[m].over
        /\ \A g \in Handlers : g # h => local[g].wait \notin {"insert", "activate"}
        /\ \A g \in Handlers, k \in DOMAIN match : ~Finishes(g, k)
    BY <1>1, Alone
  <1>5. DOMAIN matchRow = DOMAIN match
    BY TypeParts DEF DataOK
  <1> HIDE DEF m
  <1>6. matchRow'[m] = "active" /\ \A k \in DOMAIN match : k # m => matchRow'[k] = matchRow[k]
    BY <1>1, <1>4, <1>5
  <1>7. NoRescue'
    BY <1>2, <1>3 DEF MatchInv, MatchesInv, NoRescue, Rescues
  <1>8. EnoughPlayers'
    BY <1>1 DEF MatchInv, MatchesInv, EnoughPlayers
  <1>9. Announced'
    <2>1. ASSUME NEW g \in Handlers, local'[g].wait \in {"insert", "activate"} PROVE g = h
      BY <1>3, <1>4, <2>1
    <2>2. \A k \in DOMAIN match' :
            /\ match'[k].over => match'[k].told
            /\ match'[k].told => matchRow'[k] # "none"
            /\ k \in byId' /\ match'[k].told /\ ~match'[k].over => matchRow'[k] = "active"
      BY <1>1, <1>4, <1>6 DEF MatchInv, MatchesInv, Announced
    <2>3. ASSUME NEW g \in Handlers, local'[g].wait \in {"queued"} \cup Handling
          PROVE  /\ match'[local'[g].match].told
                 /\ ~match'[local'[g].match].over => local'[g].match \in byId'
      BY <1>1, <1>2, <1>3, <2>3 DEF MatchInv, MatchesInv, Announced, Handling
    <2> QED BY <1>1, <1>2, <1>4, <1>6, <2>1, <2>2, <2>3 DEF Announced, At
  <1>10. Finishing'
    <2>1. ASSUME NEW g \in Handlers, NEW k \in DOMAIN match' PROVE ~Finishes(g, k)'
      BY <1>1, <1>2, <1>3, <1>4 DEF Finishes
    <2> QED BY <1>1, <1>4, <2>1 DEF Finishing
  <1>11. Settled'
    BY <1>1, <1>4, <1>6 DEF MatchInv, MatchesInv, Settled
  <1>12. MatchHere'
    BY <1>1 DEF MatchInv, MatchHere, Here, Runtime, roomVars
  <1>13. NamesHeld'
    BY <1>1, <1>2, <1>3, NamesKept DEF MatchInv, At, roomVars
  <1> QED BY <1>7, <1>8, <1>9, <1>10, <1>11, <1>12, <1>13 DEF MatchInv, MatchesInv

\* The clients are told of the match.
LEMMA CalmStartActivates ==
    ASSUME TypeInv, MatchInv, Calm', [Next]_vars, NEW h \in Handlers, RoomStartActivates(h)
    PROVE  MatchInv'
  <1> DEFINE m == local[h].match
  <1>1. /\ local[h].wait = "activate" /\ Return(h)
        /\ match' = [match EXCEPT ![m].told = TRUE]
        /\ UNCHANGED <<heap, current, byRoom, byId, matchRow, troubles>>
    BY Untroubled DEF RoomStartActivates, Aborts, At
  <1>2. Moves(h) /\ local'[h].wait = "idle"
    BY <1>1, ReturnedAt
  <1>3. \A g \in Handlers : g # h => local'[g] = local[g]
    BY <1>2 DEF Moves, TypeInv, TypeOK
  <1>4. /\ m \in DOMAIN match /\ byId = {m} /\ ~match[m].over /\ matchRow[m] = "active"
        /\ \A g \in Handlers : g # h => local[g].wait \notin {"insert", "activate"}
        /\ \A g \in Handlers, k \in DOMAIN match : ~Finishes(g, k)
    BY <1>1, Alone DEF At
  <1> HIDE DEF m
  <1>5. /\ DOMAIN match' = DOMAIN match
        /\ \A k \in DOMAIN match :
             /\ match'[k].players = match[k].players /\ match'[k].over = match[k].over
             /\ match'[k].told = IF k = m THEN TRUE ELSE match[k].told
    <2>1. match \in Seq(Matches)
      BY TypeParts DEF DataOK
    <2>2. match' = [match EXCEPT ![m] = [match[m] EXCEPT !.told = TRUE]]
      BY <1>1
    <2>3. match[m] \in Matches
      BY <1>4, <2>1
    <2>4. /\ [match[m] EXCEPT !.told = TRUE].players = match[m].players
          /\ [match[m] EXCEPT !.told = TRUE].over = match[m].over
          /\ [match[m] EXCEPT !.told = TRUE].told = TRUE
      BY <2>3 DEF Matches
    <2> QED BY <1>4, <2>1, <2>2, <2>4
  <1>6. NoRescue'
    BY <1>2, <1>3 DEF MatchInv, MatchesInv, NoRescue, Rescues
  <1>7. EnoughPlayers'
    BY <1>5 DEF MatchInv, MatchesInv, EnoughPlayers
  <1>8. Announced'
    <2>1. \A g \in Handlers : local'[g].wait \notin {"insert", "activate"}
      BY <1>2, <1>3, <1>4
    <2>2. \A k \in DOMAIN match' :
            /\ match'[k].over => match'[k].told
            /\ match'[k].told => matchRow'[k] # "none"
            /\ k \in byId' /\ match'[k].told /\ ~match'[k].over => matchRow'[k] = "active"
      BY <1>1, <1>4, <1>5 DEF MatchInv, MatchesInv, Announced
    <2>3. ASSUME NEW g \in Handlers, local'[g].wait \in {"queued"} \cup Handling
          PROVE  /\ match'[local'[g].match].told
                 /\ ~match'[local'[g].match].over => local'[g].match \in byId'
      <3>1. g # h /\ local'[g] = local[g]
        BY <1>2, <1>3, <2>3 DEF Handling
      <3>2. local[g].match \in DOMAIN match
        BY <2>3, <3>1, TypeParts DEF Fits, WithMatch, Handling
      <3>3. /\ match[local[g].match].told
            /\ ~match[local[g].match].over => local[g].match \in byId
        BY <2>3, <3>1 DEF MatchInv, MatchesInv, Announced
      <3> QED BY <1>1, <1>5, <3>1, <3>2, <3>3
    <2> QED BY <2>1, <2>2, <2>3 DEF Announced
  <1>9. Finishing'
    <2>1. ASSUME NEW g \in Handlers, NEW k \in DOMAIN match' PROVE ~Finishes(g, k)'
      BY <1>2, <1>3, <1>4, <1>5 DEF Finishes
    <2> QED BY <1>1, <1>4, <1>5, <2>1 DEF Finishing
  <1>10. Settled'
    BY <1>1, <1>5 DEF MatchInv, MatchesInv, Settled
  <1>11. MatchHere'
    BY <1>1, <1>4, <1>5 DEF MatchInv, MatchHere, Here, Runtime
  <1>12. NamesHeld'
    BY <1>1, <1>2, <1>3, NamesKept DEF MatchInv, At
  <1> QED BY <1>6, <1>7, <1>8, <1>9, <1>10, <1>11, <1>12 DEF MatchInv, MatchesInv

\* The actor completes a hand: a command it takes is of the match in the registry.
LEMMA CalmApplied ==
    ASSUME TypeInv, MatchInv, Calm', [Next]_vars, NEW h \in Handlers, CommandApplied(h)
    PROVE  MatchInv'
  <1> DEFINE m == local[h].match
             left == match[m].players \ (IF local[h].quits THEN {local[h].me} ELSE {})
  <1>1. PICK ends \in BOOLEAN :
          /\ Cardinality(left) < 2 => ends
          /\ match' = [match EXCEPT ![m].players = left, ![m].over = ends]
          /\ local' = [local EXCEPT ![h].wait = "applied", ![h].ends = ends]
    BY DEF CommandApplied
  <1>2. /\ local[h].wait = "queued" /\ ~match[m].over
        /\ UNCHANGED <<roomVars, byRoom, byId, matchRow, troubles>>
    BY DEF CommandApplied, At
  <1>3. m \in DOMAIN match /\ local[h] \in Locals /\ match \in Seq(Matches)
    BY <1>2, TypeParts DEF Fits, WithMatch, DataOK
  <1>4. match[m].told /\ m \in byId
    BY <1>2 DEF MatchInv, MatchesInv, Announced
  <1>5. byId = {m} /\ byRoom = m /\ matchRow[m] = "active"
    BY <1>2, <1>3, <1>4 DEF MatchInv, MatchesInv, MatchHere, Announced
  <1>6. IsFiniteSet(left) /\ left \subseteq match[m].players /\ left # {} /\ (~ends => Cardinality(left) >= 2)
    <2> DEFINE all == match[m].players
    <2>1. IsFiniteSet(all) /\ Cardinality(all) >= 2 /\ left \subseteq all
      BY <1>2, <1>3 DEF MatchInv, MatchesInv, EnoughPlayers
    <2>2. left = all \/ left = all \ {local[h].me}
      OBVIOUS
    <2> HIDE DEF left, all
    <2>3. IsFiniteSet(left) /\ Cardinality(left) \in Nat
      BY <2>1, FS_Subset, FS_CardinalityType
    <2>4. left # {}
      <3>1. CASE left = all
        BY <2>1, <3>1, FS_EmptySet
      <3>2. CASE left = all \ {local[h].me}
        <4>1. all # {local[h].me} /\ all # {}
          BY <2>1, FS_Singleton, FS_EmptySet
        <4> QED BY <3>2, <4>1
      <3> QED BY <2>2, <3>1, <3>2
    <2> QED BY <1>1, <2>1, <2>3, <2>4 DEF all
  <1> HIDE DEF m, left
  <1>7. Moves(h) /\ local'[h].wait = "applied" /\ local'[h].match = m /\ local'[h].ends = ends
    <2>1. Moves(h) /\ local'[h] = [local[h] EXCEPT !.wait = "applied", !.ends = ends]
      BY <1>1 DEF Moves, TypeInv, TypeOK
    <2> QED BY <1>3, <2>1 DEF Locals, m
  <1>8. \A g \in Handlers : g # h => local'[g] = local[g]
    BY <1>7 DEF Moves, TypeInv, TypeOK
  <1>9. /\ DOMAIN match' = DOMAIN match
        /\ match'[m].players = left /\ match'[m].over = ends /\ match'[m].told
        /\ \A k \in DOMAIN match : k # m => match'[k] = match[k]
    <2> DEFINE o == match[m]
    <2>1. match' = [match EXCEPT ![m] = [o EXCEPT !.players = left, !.over = ends]]
      BY <1>1, <1>3
    <2>2. o \in Matches /\ o.told
      BY <1>3, <1>4
    <2> HIDE DEF o
    <2>3. /\ [o EXCEPT !.players = left, !.over = ends].players = left
          /\ [o EXCEPT !.players = left, !.over = ends].over = ends
          /\ [o EXCEPT !.players = left, !.over = ends].told = o.told
      BY <2>2 DEF Matches
    <2> QED BY <1>3, <2>1, <2>2, <2>3
  <1>10. \A g \in Handlers : local[g].wait \notin {"insert", "activate"}
    BY <1>4, <1>5 DEF MatchInv, MatchesInv, Announced
  <1>11. \A g \in Handlers, k \in DOMAIN match : ~Finishes(g, k)
    BY <1>2, <1>3, <1>5 DEF MatchInv, MatchesInv, Finishing
  <1>12. NoRescue'
    BY <1>7, <1>8 DEF MatchInv, MatchesInv, NoRescue, Rescues
  <1>13. EnoughPlayers'
    BY <1>6, <1>9 DEF MatchInv, MatchesInv, EnoughPlayers
  <1>14. Announced'
    <2>1. \A g \in Handlers : local'[g].wait \notin {"insert", "activate"}
      BY <1>7, <1>8, <1>10
    <2>2. \A k \in DOMAIN match' :
            /\ match'[k].over => match'[k].told
            /\ match'[k].told => matchRow'[k] # "none"
            /\ k \in byId' /\ match'[k].told /\ ~match'[k].over => matchRow'[k] = "active"
      BY <1>2, <1>5, <1>9 DEF MatchInv, MatchesInv, Announced
    <2>3. ASSUME NEW g \in Handlers, local'[g].wait \in {"queued"} \cup Handling
          PROVE  /\ match'[local'[g].match].told
                 /\ ~match'[local'[g].match].over => local'[g].match \in byId'
      <3>1. CASE g = h
        BY <1>2, <1>4, <1>7, <1>9, <3>1
      <3>2. CASE g # h
        <4>1. local'[g] = local[g] /\ local[g].match \in DOMAIN match
          BY <1>8, <2>3, <3>2, TypeParts DEF Fits, WithMatch, Handling
        <4>2. /\ match[local[g].match].told
              /\ ~match[local[g].match].over => local[g].match \in byId
          BY <2>3, <4>1 DEF MatchInv, MatchesInv, Announced
        <4> QED BY <1>2, <1>5, <1>9, <4>1, <4>2
      <3> QED BY <3>1, <3>2
    <2> QED BY <2>1, <2>2, <2>3 DEF Announced
  <1>15. Finishing'
    <2>1. ASSUME NEW g \in Handlers, NEW k \in DOMAIN match', Finishes(g, k)' PROVE g = h /\ k = m /\ ends
      BY <1>7, <1>8, <1>9, <1>11, <2>1 DEF Finishes
    <2>2. ends => \A k : k = m => Finishes(h, k)'
      BY <1>7 DEF Finishes
    <2>3. ~At(h, "settle")'
      BY <1>7 DEF At
    <2>4. m \in byId' /\ byId' = {m} /\ match'[m].over = ends /\ matchRow'[m] = "active"
      BY <1>2, <1>5, <1>9
    <2> HIDE DEF Finishes
    <2> QED BY <2>1, <2>2, <2>3, <2>4 DEF Finishing
  <1>16. Settled'
    BY <1>2, <1>5, <1>9 DEF MatchInv, MatchesInv, Settled
  <1>17. MatchHere'
    BY <1>2, <1>5, <1>6, <1>9 DEF MatchInv, MatchHere, Here, Runtime, roomVars
  <1>18. NamesHeld'
    BY <1>2, <1>7, <1>8, NamesKept DEF MatchInv, At, roomVars
  <1> QED BY <1>12, <1>13, <1>14, <1>15, <1>16, <1>17, <1>18 DEF MatchInv, MatchesInv

\* A handler that goes on with a result and changes no row or registry.
LEMMA CalmGoes ==
    ASSUME TypeInv, MatchInv, [Next]_vars, UNCHANGED <<current, matchVars, troubles>>,
           Here => Alike(Runtime, heap'[current]),
           NEW h \in Handlers, NEW w, Goto(h, w), w \in Handling \cup {"quit"}, local[h].wait \in Handling,
           (\E m \in DOMAIN match : Finishes(h, m)) =>
              w \in {"applied", "persist"} /\ local[h].wait # "settle",
           w \in {"applied", "persist", "settle"} => local[h].wait \in {"applied", "persist"},
           w = "settle" => ~local[h].ends, w \notin Rescues
    PROVE  MatchInv'
  <1>1. Moves(h) /\ local'[h].wait = w /\ local'[h].match = local[h].match /\ local'[h].ends = local[h].ends
    <2>1. Moves(h) /\ local'[h] = [local[h] EXCEPT !.wait = w] /\ local[h] \in Locals
      BY Gone DEF TypeInv, TypeOK
    <2> QED BY <2>1 DEF Locals
  <1>2. \A g \in Handlers : g # h => local'[g] = local[g]
    BY <1>1 DEF Moves, TypeInv, TypeOK
  <1>3. \A m \in DOMAIN match : Finishes(h, m)' <=> Finishes(h, m)
    BY <1>1 DEF Finishes
  <1>4. /\ match[local[h].match].told
        /\ ~match[local[h].match].over => local[h].match \in byId
    BY DEF MatchInv, MatchesInv, Announced
  <1>5. (\E m \in DOMAIN match : Finishes(h, m)) => ~At(h, "settle") /\ ~At(h, "settle")'
    BY <1>1 DEF At
  <1>6. local'[h].wait \notin {"insert", "activate"} \cup Rescues
    BY <1>1 DEF Handling
  <1>7. MatchesInv'
    BY <1>1, <1>2, <1>3, <1>4, <1>5, <1>6, MatchesKept DEF MatchInv
  <1>8. MatchHere'
    BY PlayersStay
  <1>9. NamesHeld'
    <2>1. w # "names"
      BY DEF Handling
    <2> QED BY <1>1, <1>2, <2>1, NamesKept DEF MatchInv, At
  <1> QED BY <1>7, <1>8, <1>9 DEF MatchInv

\* The last result of a match is handled by one handler, while its match is the
\* room's.
LEMMA LastResult ==
    ASSUME TypeInv, MatchInv, NEW h \in Handlers, local[h].wait \in {"applied", "persist", "settle"},
           local[h].ends
    PROVE  /\ local[h].match \in DOMAIN match /\ byId = {local[h].match} /\ byRoom = local[h].match
           /\ Here /\ match[local[h].match].over
           /\ matchRow[local[h].match] = IF At(h, "settle") THEN "complete" ELSE "active"
           /\ \A g \in Handlers, k \in DOMAIN match : Finishes(g, k) => g = h
           /\ \A g \in Handlers : local[g].wait \notin {"insert", "activate"}
  <1>1. local[h].match \in DOMAIN match
    BY TypeParts DEF Fits, WithMatch
  <1>2. Finishes(h, local[h].match)
    BY DEF Finishes
  <1>3. /\ local[h].match \in byId /\ match[local[h].match].over
        /\ matchRow[local[h].match] = IF At(h, "settle") THEN "complete" ELSE "active"
    BY <1>1, <1>2 DEF MatchInv, MatchesInv, Finishing
  <1>4. byId = {local[h].match} /\ byRoom = local[h].match /\ Here
    BY <1>3 DEF MatchInv, MatchHere
  <1>5. ASSUME NEW g \in Handlers, NEW k \in DOMAIN match, Finishes(g, k) PROVE g = h
    <2>1. k = local[h].match
      BY <1>4, <1>5 DEF MatchInv, MatchesInv, Finishing
    <2> QED BY <1>1, <1>2, <1>5, <2>1 DEF MatchInv, MatchesInv, Finishing
  <1>6. ASSUME NEW g \in Handlers PROVE local[g].wait \notin {"insert", "activate"}
    BY <1>3, <1>4 DEF MatchInv, MatchesInv, Announced
  <1> QED BY <1>1, <1>3, <1>4, <1>5, <1>6

\* _persist_completed_hand: the hand fits the row, and the last one completes it.
LEMMA CalmPersisted ==
    ASSUME TypeInv, MatchInv, Calm', [Next]_vars, NEW h \in Handlers, HandPersisted(h)
    PROVE  MatchInv'
  <1> DEFINE m == local[h].match
             fits == matchRow[m] # "none" /\ (local[h].ends => matchRow[m] = "active")
  <1>1. local[h].wait = "persist" /\ UNCHANGED <<roomVars, byRoom, byId, match>>
    BY DEF HandPersisted, At
  <1>2. m \in DOMAIN match /\ m \in DOMAIN matchRow /\ local[h] \in Locals
        /\ DOMAIN matchRow = DOMAIN match
    BY <1>1, TypeParts DEF Fits, WithMatch, DataOK
  <1>3. fits
    <2>1. matchRow[m] # "none"
      BY <1>1, <1>2 DEF MatchInv, MatchesInv, Announced, Handling
    <2>2. local[h].ends => matchRow[m] = "active"
      BY <1>1, LastResult DEF At
    <2> QED BY <2>1, <2>2
  <1>4. /\ matchRow' = [matchRow EXCEPT ![m] = IF local[h].ends THEN "complete" ELSE @]
        /\ Goto(h, "settle") /\ UNCHANGED troubles
    BY <1>3, Untroubled DEF HandPersisted
  <1>5. CASE ~local[h].ends
    <2>1. UNCHANGED matchRow
      <3>1. matchRow \in Seq({"none", "active", "complete", "void"})
        BY TypeParts DEF DataOK
      <3>2. matchRow' = [matchRow EXCEPT ![m] = matchRow[m]]
        BY <1>4, <1>5
      <3> HIDE DEF m
      <3> QED BY <1>2, <3>1, <3>2
    <2>2. UNCHANGED <<current, matchVars, troubles>> /\ Alike(Runtime, heap'[current])
      BY <1>1, <1>4, <2>1 DEF matchVars, roomVars, Alike, Runtime
    <2>3. \A k : ~Finishes(h, k)
      BY <1>5 DEF Finishes
    <2>4. "settle" \in Handling /\ "persist" \in Handling /\ "settle" \notin Rescues
      BY DEF Handling, Rescues
    <2> QED BY <1>1, <1>4, <1>5, <2>2, <2>3, <2>4, CalmGoes
  <1>6. CASE local[h].ends
    <2>1. /\ byId = {m} /\ Here /\ match[m].over
          /\ \A g \in Handlers, k \in DOMAIN match : Finishes(g, k) => g = h
          /\ \A g \in Handlers : local[g].wait \notin {"insert", "activate"}
      BY <1>1, <1>6, LastResult
    <2>2. matchRow'[m] = "complete" /\ \A k \in DOMAIN match : k # m => matchRow'[k] = matchRow[k]
      BY <1>2, <1>4, <1>6
    <2>3. Moves(h) /\ local'[h].wait = "settle" /\ local'[h].match = m /\ local'[h].ends
      <3>1. Moves(h) /\ local'[h] = [local[h] EXCEPT !.wait = "settle"]
        BY <1>4, Gone DEF TypeInv, TypeOK
      <3> QED BY <1>2, <1>6, <3>1 DEF Locals
    <2>4. \A g \in Handlers : g # h => local'[g] = local[g]
      BY <2>3 DEF Moves, TypeInv, TypeOK
    <2>5. match[m].told
      BY <1>1 DEF MatchInv, MatchesInv, Announced, Handling
    <2> HIDE DEF m, fits
    <2>6. NoRescue'
      BY <2>3, <2>4 DEF MatchInv, MatchesInv, NoRescue, Rescues
    <2>7. EnoughPlayers'
      BY <1>1 DEF MatchInv, MatchesInv, EnoughPlayers
    <2>8. Announced'
      <3>1. \A g \in Handlers : local'[g].wait \notin {"insert", "activate"}
        BY <2>1, <2>3, <2>4
      <3>2. \A k \in DOMAIN match' :
              /\ match'[k].over => match'[k].told
              /\ match'[k].told => matchRow'[k] # "none"
              /\ k \in byId' /\ match'[k].told /\ ~match'[k].over => matchRow'[k] = "active"
        BY <1>1, <2>1, <2>2 DEF MatchInv, MatchesInv, Announced
      <3>3. ASSUME NEW g \in Handlers, local'[g].wait \in {"queued"} \cup Handling
            PROVE  /\ match'[local'[g].match].told
                   /\ ~match'[local'[g].match].over => local'[g].match \in byId'
        BY <1>1, <2>1, <2>3, <2>4, <2>5, <3>3 DEF MatchInv, MatchesInv, Announced
      <3> QED BY <3>1, <3>2, <3>3 DEF Announced
    <2>9. Finishing'
      <3>1. ASSUME NEW g \in Handlers, NEW k \in DOMAIN match', Finishes(g, k)' PROVE g = h /\ k = m
        <4>1. g = h
          BY <1>1, <2>1, <2>4, <3>1 DEF Finishes
        <4> QED BY <2>3, <3>1, <4>1 DEF Finishes
      <3>2. \A k : k = m => Finishes(h, k)'
        BY <2>3 DEF Finishes
      <3>3. At(h, "settle")'
        BY <2>3 DEF At
      <3> HIDE DEF Finishes
      <3> QED BY <1>1, <2>1, <2>2, <3>1, <3>2, <3>3 DEF Finishing
    <2>10. Settled'
      BY <1>1, <1>4, <2>1, <2>2 DEF MatchInv, MatchesInv, Settled
    <2>11. MatchHere'
      BY <1>1 DEF MatchInv, MatchHere, Here, Runtime, roomVars
    <2>12. NamesHeld'
      BY <1>1, <2>3, <2>4, NamesKept DEF MatchInv, At, roomVars
    <2> QED BY <2>6, <2>7, <2>8, <2>9, <2>10, <2>11, <2>12 DEF MatchInv, MatchesInv
  <1> QED BY <1>5, <1>6

\* The last result removes the match from the registry.
LEMMA CalmSettles ==
    ASSUME TypeInv, MatchInv, Calm', [Next]_vars, NEW h \in Handlers, ResultSettles(h)
    PROVE  MatchInv'
  <1> DEFINE m == local[h].match
  <1>1. local[h].wait = "settle" /\ UNCHANGED <<roomVars, match, matchRow, troubles>> /\ local[h] \in Locals
    BY TypeParts DEF ResultSettles, At
  <1>2. CASE ~local[h].ends
    <2>1. UNCHANGED <<current, heap, matchVars, troubles>>
      BY <1>1, <1>2 DEF ResultSettles, roomVars, matchVars
    <2>2. Moves(h) /\ local'[h].wait \in Plain \ {"names"}
      <3>1. Goto(h, "quit") \/ Return(h)
        BY <1>2 DEF ResultSettles
      <3> QED BY <3>1, GoneAt, ReturnedAt DEF Plain
    <2>3. \A k : ~Finishes(h, k)
      BY <1>2 DEF Finishes
    <2> QED BY <2>1, <2>2, <2>3, CalmIdle
  <1>3. CASE local[h].ends
    <2>1. /\ byId = {m} /\ match[m].over /\ m \in DOMAIN match /\ matchRow[m] = "complete"
          /\ \A g \in Handlers, k \in DOMAIN match : Finishes(g, k) => g = h
          /\ \A g \in Handlers : local[g].wait \notin {"insert", "activate"}
      BY <1>1, <1>3, LastResult DEF At
    <2>2. byRoom' = None /\ byId' = {} /\ Goto(h, "closing")
      BY <1>3, <2>1 DEF ResultSettles, Remove
    <2>3. Moves(h) /\ local'[h].wait = "closing" /\ local'[h].match = m
      <3>1. Moves(h) /\ local'[h] = [local[h] EXCEPT !.wait = "closing"]
        BY <2>2, Gone DEF TypeInv, TypeOK
      <3> QED BY <1>1, <3>1 DEF Locals
    <2>4. \A g \in Handlers : g # h => local'[g] = local[g]
      BY <2>3 DEF Moves, TypeInv, TypeOK
    <2>5. match[m].told
      BY <1>1 DEF MatchInv, MatchesInv, Announced, Handling
    <2> HIDE DEF m
    <2>6. NoRescue'
      BY <2>3, <2>4 DEF MatchInv, MatchesInv, NoRescue, Rescues
    <2>7. EnoughPlayers'
      BY <1>1 DEF MatchInv, MatchesInv, EnoughPlayers
    <2>8. Announced'
      <3>1. \A g \in Handlers : local'[g].wait \notin {"insert", "activate"}
        BY <2>1, <2>3, <2>4
      <3>2. \A k \in DOMAIN match' :
              /\ match'[k].over => match'[k].told
              /\ match'[k].told => matchRow'[k] # "none"
              /\ k \in byId' /\ match'[k].told /\ ~match'[k].over => matchRow'[k] = "active"
        BY <1>1, <2>2 DEF MatchInv, MatchesInv, Announced
      <3>3. ASSUME NEW g \in Handlers, local'[g].wait \in {"queued"} \cup Handling
            PROVE  /\ match'[local'[g].match].told
                   /\ match'[local'[g].match].over
        BY <1>1, <2>1, <2>3, <2>4, <2>5, <3>3 DEF MatchInv, MatchesInv, Announced
      <3> QED BY <3>1, <3>2, <3>3 DEF Announced
    <2>9. Finishing'
      <3>1. ASSUME NEW g \in Handlers, NEW k \in DOMAIN match' PROVE ~Finishes(g, k)'
        <4>1. g # h => (Finishes(g, k)' <=> Finishes(g, k))
          BY <2>4 DEF Finishes
        <4>2. ~Finishes(h, k)'
          BY <2>3 DEF Finishes
        <4> QED BY <1>1, <2>1, <4>1, <4>2
      <3> QED BY <2>2, <3>1 DEF Finishing
    <2>10. Settled'
      BY <1>1, <2>1, <2>2 DEF MatchInv, MatchesInv, Settled
    <2>11. MatchHere'
      BY <2>2 DEF MatchHere
    <2>12. NamesHeld'
      BY <1>1, <2>3, <2>4, NamesKept DEF MatchInv, At, roomVars
    <2> QED BY <2>6, <2>7, <2>8, <2>9, <2>10, <2>11, <2>12 DEF MatchInv, MatchesInv
  <1> QED BY <1>2, <1>3

\* The other steps of a result.
LEMMA CalmResultSteps ==
    ASSUME TypeInv, MatchInv, Calm', [Next]_vars, NEW h \in Handlers,
           \/ CommandRefused(h) \/ ResultTaken(h) \/ ResultCloses(h) \/ ResultReopens(h)
    PROVE  MatchInv'
  <1>1. UNCHANGED <<matchVars, troubles>> /\ current' = current
    <2>1. ~DatabaseFails(h)
      BY Untroubled DEF DatabaseFails
    <2> QED BY <2>1 DEF CommandRefused, ResultTaken, ResultCloses, ResultReopens, roomVars
  <1>2. Here => Alike(Runtime, heap'[current])
    <2>1. SUFFICES ASSUME Here PROVE Alike(Runtime, heap'[current])
      OBVIOUS
    <2>2. current \in DOMAIN heap /\ Runtime \in Rooms
      BY <2>1, TypeParts DEF DataOK, Here, Runtime
    <2>3. heap' = heap \/ heap' = [heap EXCEPT ![current] = Reset(Runtime)]
      BY DEF CommandRefused, ResultTaken, ResultCloses, ResultReopens, roomVars, Update
    <2>4. Alike(Runtime, Reset(Runtime))
      BY <2>2 DEF Reset, Rooms, Alike
    <2> QED BY <2>2, <2>3, <2>4 DEF Alike, Runtime
  <1>3. CASE CommandRefused(h)
    <2>1. \A k : ~Finishes(h, k)
      BY <1>3 DEF CommandRefused, At, Finishes
    <2> QED BY <1>1, <1>3, <2>1, ReturnedAt, CalmIdle DEF CommandRefused, Plain, roomVars
  <1>4. CASE ResultTaken(h)
    <2>1. local[h].wait = "applied" /\ UNCHANGED heap
      BY <1>4 DEF ResultTaken, At, roomVars
    <2>2. CASE Goto(h, "persist")
      BY <1>1, <1>2, <2>1, <2>2, CalmGoes DEF Handling, Rescues
    <2>3. CASE ~Here /\ Return(h)
      <3>1. ~local[h].ends
        BY <2>1, <2>3, LastResult
      <3>2. \A k : ~Finishes(h, k)
        BY <3>1 DEF Finishes
      <3> QED BY <1>1, <2>1, <2>3, <3>2, ReturnedAt, CalmIdle DEF Plain
    <2> QED BY <1>4, <2>2, <2>3 DEF ResultTaken
  <1>5. CASE ResultCloses(h)
    <2>1. local[h].wait = "closing" /\ \A k : ~Finishes(h, k)
      BY <1>5 DEF ResultCloses, At, Finishes
    <2>2. CASE Goto(h, "reopen")
      BY <1>1, <1>2, <2>1, <2>2, CalmGoes DEF Handling, Rescues
    <2>3. CASE Return(h) /\ UNCHANGED heap
      BY <1>1, <2>1, <2>3, ReturnedAt, CalmIdle DEF Plain
    <2> QED BY <1>5, <2>2, <2>3 DEF ResultCloses
  <1>6. CASE ResultReopens(h)
    <2>1. \A k : ~Finishes(h, k)
      BY <1>6 DEF ResultReopens, At, Finishes
    <2>2. UNCHANGED heap /\ (Goto(h, "quit") \/ Return(h))
      BY <1>6 DEF ResultReopens, DatabaseFails
    <2> QED BY <1>1, <2>1, <2>2, GoneAt, ReturnedAt, CalmIdle DEF Plain
  <1> QED BY <1>3, <1>4, <1>5, <1>6

\* The process ends and starts again: nothing is under way, and no row is active.
LEMMA CalmRestart ==
    ASSUME TypeInv, MatchInv, Restart
    PROVE  MatchInv'
  <1>1. /\ byRoom' = None /\ byId' = {} /\ match' = match /\ "restart" \in troubles'
        /\ DOMAIN matchRow = DOMAIN match
        /\ \A m \in DOMAIN match : matchRow'[m] = IF matchRow[m] = "active" THEN "void" ELSE matchRow[m]
    BY TypeParts DEF Restart, Hits, DataOK
  <1>2. \A g \in Handlers : local'[g].wait = "idle"
    BY DEF Restart, Idle
  <1>3. NoRescue' /\ NamesHeld' /\ MatchHere'
    BY <1>1, <1>2 DEF NoRescue, Rescues, NamesHeld, At, MatchHere
  <1>4. EnoughPlayers'
    BY <1>1 DEF MatchInv, MatchesInv, EnoughPlayers
  <1>5. Announced'
    BY <1>1, <1>2 DEF MatchInv, MatchesInv, Announced, Handling
  <1>6. Finishing'
    BY <1>1, <1>2 DEF Finishing, Finishes
  <1>7. Settled'
    <2>1. ASSUME NEW m \in DOMAIN match, match[m].over PROVE matchRow[m] \in {"active", "complete", "void"}
      <3>1. CASE m \in byId
        BY <2>1, <3>1 DEF MatchInv, MatchesInv, Finishing
      <3>2. CASE m \notin byId
        BY <2>1, <3>2 DEF MatchInv, MatchesInv, Settled
      <3> QED BY <3>1, <3>2
    <2> QED BY <1>1, <2>1 DEF Settled
  <1> QED BY <1>3, <1>4, <1>5, <1>6, <1>7 DEF MatchInv, MatchesInv

\* What went wrong is not forgotten.
LEMMA TroublesGrow ==
    ASSUME [Next]_vars
    PROVE  troubles \subseteq troubles'
  <1>1. \A t : Hits(t) => troubles \subseteq troubles'
    BY DEF Hits
  <1>2. \A late : Overtaken(late) => troubles \subseteq troubles'
    BY DEF Overtaken
  <1>3. ASSUME NEW h \in Handlers, Requests(h) PROVE troubles \subseteq troubles'
    BY <1>1, <1>3 DEF Requests, RoomJoin, RoomLeave, RoomStart, RoomKick, TimerCommand, GameCommand,
       AdminCloses, Known
  <1>4. ASSUME NEW h \in Handlers, Continues(h) PROVE troubles \subseteq troubles'
    BY <1>1, <1>2, <1>4
       DEF Continues, RoomJoinEnters, RoomLeaveCloses, RoomLeaveRemoves, SetRoomHost, RoomKickLeaves,
           RoomStartChecks, RoomStartAdds, RoomStartInserts, RoomStartActivates, RoomStartVoids,
           RoomStartAborted, CommandRefused, CommandApplied, ResultTaken, HandPersisted, ResultVoids,
           ResultSettles, ResultCloses, ResultReopens, QuitLeaves, AdminRemoves, AdminClosed,
           Aborts, DatabaseFails, VoidsRow
  <1> QED BY <1>1, <1>3, <1>4 DEF Next, RoomReady, Restart, vars

LEMMA CalmStep ==
    ASSUME TypeInv, CalmInv, [Next]_vars
    PROVE  CalmInv'
  <1> SUFFICES ASSUME Calm' PROVE MatchInv'
    BY DEF CalmInv, MatchInv, MatchesInv
  <1>1. Calm
    <2>1. troubles \subseteq troubles'
      BY TroublesGrow
    <2> QED BY <2>1 DEF Calm
  <1>2. MatchInv
    BY <1>1 DEF CalmInv, MatchInv, MatchesInv
  <1>3. ASSUME NEW h \in Handlers, Continues(h) PROVE MatchInv'
    <2>1. ~RoomStartVoids(h) /\ ~RoomStartAborted(h) /\ ~ResultVoids(h)
      BY <1>2 DEF MatchInv, MatchesInv, NoRescue, Rescues, RoomStartVoids, RoomStartAborted, ResultVoids, At
    <2> QED BY <1>2, <1>3, <2>1, CalmRoomSteps, CalmStartChecks, CalmStartAdds, CalmStartInserts,
               CalmStartActivates, CalmApplied, CalmPersisted, CalmSettles, CalmResultSteps
            DEF Continues
  <1>4. CASE UNCHANGED vars
    BY <1>2, <1>4 DEF vars, roomVars, matchVars, MatchInv, MatchesInv, NoRescue, EnoughPlayers, Announced,
       Finishing, Finishes, Settled, MatchHere, NamesHeld, At, Here, Runtime, Members
  <1> QED BY <1>2, <1>3, <1>4, CalmRequests, CalmReady, CalmRestart DEF Next

-----------------------------------------------------------------------------
(* The room is opened again.                                               *)

LEMMA OneAtATime ==
    ASSUME TypeInv, NEW h \in Handlers, Requests(h) \/ Continues(h)
    PROVE  Moves(h)
  <1>1. \/ Return(h)
        \/ \E w \in Waits : Goto(h, w)
        \/ \E w, fields : Begin(h, w, fields)
        \/ \E ends \in BOOLEAN : local' = [local EXCEPT ![h].wait = "applied", ![h].ends = ends]
        \/ local' = [local EXCEPT ![h].wait = "void", ![h].quits = FALSE]
    <2> DEFINE Goal == \/ Return(h)
                       \/ \E w \in Waits : Goto(h, w)
                       \/ \E w, fields : Begin(h, w, fields)
                       \/ \E ends \in BOOLEAN : local' = [local EXCEPT ![h].wait = "applied", ![h].ends = ends]
                       \/ local' = [local EXCEPT ![h].wait = "void", ![h].quits = FALSE]
    <2>1. ASSUME NEW w \in Waits, Goto(h, w) PROVE Goal
      BY <2>1
    <2>2. ASSUME NEW w, NEW fields, Begin(h, w, fields) PROVE Goal
      BY <2>2
    <2>3. Return(h) => Goal
      OBVIOUS
    <2>4. CASE Requests(h)
      BY <2>2, <2>4 DEF Requests, RoomJoin, RoomLeave, RoomStart, RoomKick, TimerCommand, GameCommand,
         AdminCloses
    <2>5. CASE Continues(h)
      <3>1. \A w \in Waits : Goto(h, w) => Goal
        BY <2>1
      <3>2. \A w, fields : Begin(h, w, fields) => Goal
        BY <2>2
      <3>3. \A ends \in BOOLEAN : local' = [local EXCEPT ![h].wait = "applied", ![h].ends = ends] => Goal
        OBVIOUS
      <3>4. local' = [local EXCEPT ![h].wait = "void", ![h].quits = FALSE] => Goal
        OBVIOUS
      <3> HIDE DEF Goal
      <3>5. CASE \/ RoomJoinEnters(h) \/ RoomLeaveCloses(h) \/ RoomLeaveRemoves(h) \/ SetRoomHost(h)
                 \/ RoomKickLeaves(h) \/ QuitLeaves(h) \/ AdminRemoves(h) \/ AdminClosed(h)
        BY <2>3, <3>1, <3>2, <3>5
           DEF RoomJoinEnters, RoomLeaveCloses, RoomLeaveRemoves, SetRoomHost, RoomKickLeaves,
               QuitLeaves, AdminRemoves, AdminClosed, DatabaseFails, Waits
      <3>6. CASE \/ RoomStartChecks(h) \/ RoomStartAdds(h) \/ RoomStartInserts(h) \/ RoomStartActivates(h)
                 \/ RoomStartVoids(h) \/ RoomStartAborted(h)
        BY <2>3, <3>1, <3>2, <3>6
           DEF RoomStartChecks, RoomStartAdds, RoomStartInserts, RoomStartActivates, RoomStartVoids,
               RoomStartAborted, Aborts, Waits
      <3>7. CASE CommandApplied(h)
        BY <3>3, <3>7 DEF CommandApplied
      <3>8. CASE HandPersisted(h)
        BY <3>1, <3>4, <3>8 DEF HandPersisted, Waits
      <3>9. CASE \/ CommandRefused(h) \/ ResultTaken(h) \/ ResultVoids(h)
                 \/ ResultSettles(h) \/ ResultCloses(h) \/ ResultReopens(h)
        BY <2>3, <3>1, <3>9
           DEF CommandRefused, ResultTaken, ResultVoids, ResultSettles, ResultCloses, ResultReopens,
               DatabaseFails, Waits
      <3> QED BY <2>5, <3>5, <3>6, <3>7, <3>8, <3>9 DEF Continues
    <2> QED BY <2>4, <2>5
  <1>2. local \in [Handlers -> Locals]
    BY DEF TypeInv, TypeOK
  <1>3. ASSUME NEW ends \in BOOLEAN, local' = [local EXCEPT ![h].wait = "applied", ![h].ends = ends]
        PROVE  Moves(h)
    BY <1>2, <1>3 DEF Moves
  <1>4. ASSUME local' = [local EXCEPT ![h].wait = "void", ![h].quits = FALSE] PROVE Moves(h)
    BY <1>2, <1>4 DEF Moves
  <1> QED BY <1>1, <1>3, <1>4, BegunAt, GoneAt, ReturnedAt

\* Between the end of a match and the row's status "waiting", the handler of the
\* result is under way.
LEMMA ReopenStep ==
    ASSUME TypeInv, CalmInv, ReopenInv, [Next]_vars
    PROVE  ReopenInv'
  <1> DEFINE Goal == \/ byRoom' # None
                     \/ \E h \in Handlers : local'[h].wait = "reopen"
                     \/ Here' /\ \E h \in Handlers : local'[h].wait = "closing"
  <1> SUFFICES ASSUME troubles' = {}, row'.status = "active"
               PROVE  Goal
    BY DEF ReopenInv, At
  <1>1. /\ ~Hits("database") /\ ~Hits("admin") /\ ~Hits("restart")
        /\ \A late \in BOOLEAN : Overtaken(late) => ~late
    BY DEF Hits, Overtaken
  <1>2. troubles = {} /\ MatchInv
    BY TroublesGrow DEF CalmInv, Calm, MatchInv, MatchesInv
  <1>3. ASSUME row.status = "active", byRoom' = byRoom, Here => Here',
               \A g \in Handlers : local[g].wait \in {"reopen", "closing"} => local'[g].wait = local[g].wait
        PROVE  Goal
    BY <1>2, <1>3 DEF ReopenInv, At
  <1>4. ASSUME NEW h \in Handlers, Moves(h), local[h].wait \notin {"reopen", "closing"}
        PROVE  \A g \in Handlers : local[g].wait \in {"reopen", "closing"} => local'[g].wait = local[g].wait
    BY <1>4 DEF Moves, TypeInv, TypeOK
  <1>5. CASE UNCHANGED vars \/ \E a \in Accounts, ready \in BOOLEAN : RoomReady(a, ready)
    <2>1. UNCHANGED <<row, current, byRoom, local>>
      BY <1>5 DEF vars, roomVars, matchVars, RoomReady
    <2> QED BY <1>3, <2>1 DEF Here
  <1>6. ASSUME NEW h \in Handlers, Requests(h) PROVE Goal
    <2>1. UNCHANGED <<row, current, byRoom>> /\ local[h].wait = "idle"
      BY <1>1, <1>6 DEF Requests, RoomJoin, RoomLeave, RoomStart, RoomKick, TimerCommand, GameCommand,
         AdminCloses, roomVars, matchVars, At
    <2>2. Moves(h)
      BY <1>6, OneAtATime
    <2> QED BY <1>3, <1>4, <2>1, <2>2 DEF Here
  <1>7. ASSUME NEW h \in Handlers, Continues(h) PROVE Goal
    <2>1. Moves(h)
      BY <1>7, OneAtATime
    <2>2. /\ ~RoomStartVoids(h) /\ ~RoomStartAborted(h) /\ ~ResultVoids(h)
          /\ ~AdminRemoves(h) /\ ~AdminClosed(h)
      BY <1>2 DEF MatchInv, MatchesInv, NoRescue, Rescues, RoomStartVoids, RoomStartAborted, ResultVoids,
         AdminRemoves, AdminClosed, At
    <2>3. CASE RoomStartActivates(h)
      <3>1. byRoom = local[h].match /\ local[h].match \in Nat
        <4>1. local[h].wait = "activate"
          BY <2>3 DEF RoomStartActivates, At
        <4>2. byRoom = local[h].match /\ local[h].match \in DOMAIN match
          BY <1>2, <4>1, Alone
        <4> QED BY <4>2, TypeParts DEF DataOK
      <3> QED BY <2>3, <3>1, RoomAssumption DEF RoomStartActivates
    <2>4. CASE ResultReopens(h)
      BY <1>1, <2>4, TypeParts DEF ResultReopens, SetStatus, DatabaseFails, DataOK, Rows
    <2>5. CASE RoomLeaveRemoves(h)
      <3>1. row.status = "active" /\ local[h].wait = "remove" /\ UNCHANGED byRoom
        BY <2>5 DEF RoomLeaveRemoves, At, matchVars
      <3>2. current' = current
        <4> DEFINE late == (Here /\ Runtime.members = <<>>) /\ row.status # "closed"
        <4>1. late \in BOOLEAN /\ Overtaken(late)
          BY <2>5 DEF RoomLeaveRemoves, Here
        <4>2. ~late
          BY <1>1, <4>1
        <4> QED BY <2>5, <3>1, <4>2 DEF RoomLeaveRemoves
      <3> QED BY <1>3, <1>4, <2>1, <3>1, <3>2 DEF Here
    <2>6. CASE RoomLeaveCloses(h) \/ SetRoomHost(h)
      <3>1. UNCHANGED <<current, byRoom>> /\ local[h].wait \in {"close", "host"}
        BY <2>6 DEF RoomLeaveCloses, SetRoomHost, At, matchVars
      <3>2. row.status = "active"
        BY <1>1, <2>6, TypeParts DEF RoomLeaveCloses, SetRoomHost, SetStatus, DatabaseFails, DataOK, Rows
      <3> QED BY <1>3, <1>4, <2>1, <3>1, <3>2 DEF Here
    <2>7. CASE RoomJoinEnters(h)
      <3>1. row' = row /\ byRoom' = byRoom /\ local[h].wait = "join"
        BY <2>7 DEF RoomJoinEnters, At, matchVars
      <3>2. Here => Here'
        BY <2>7 DEF RoomJoinEnters, Here
      <3> QED BY <1>3, <1>4, <2>1, <3>1, <3>2
    <2>8. CASE RoomStartAdds(h)
      <3>1. CASE UNCHANGED matchVars
        <4>1. UNCHANGED <<row, current, byRoom>> /\ local[h].wait = "names"
          BY <2>8, <3>1 DEF RoomStartAdds, At, matchVars, roomVars
        <4> QED BY <1>3, <1>4, <2>1, <4>1 DEF Here
      <3>2. CASE byRoom' = Len(match) + 1
        BY <3>2, RoomAssumption, TypeParts DEF DataOK
      <3> QED BY <2>8, <3>1, <3>2 DEF RoomStartAdds
    <2>9. CASE ResultSettles(h)
      <3>1. UNCHANGED <<row, current>> /\ local[h].wait = "settle"
        BY <2>9 DEF ResultSettles, At, roomVars
      <3>2. CASE local[h].ends
        <4>1. Here'
          BY <1>2, <3>1, <3>2, LastResult DEF Here
        <4>2. Goto(h, "closing")
          BY <2>9, <3>2 DEF ResultSettles
        <4> QED BY <4>1, <4>2, GoneAt
      <3>3. CASE ~local[h].ends
        <4>1. UNCHANGED byRoom
          BY <2>9, <3>3 DEF ResultSettles
        <4> QED BY <1>3, <1>4, <2>1, <3>1, <4>1 DEF Here
      <3> QED BY <3>2, <3>3
    <2>10. CASE ResultCloses(h)
      <3>1. UNCHANGED <<row, current, byRoom>> /\ local[h].wait = "closing"
        BY <2>10 DEF ResultCloses, At, matchVars
      <3>2. CASE Here
        BY <2>10, <3>2, GoneAt DEF ResultCloses
      <3>3. CASE ~Here
        <4>1. byRoom # None \/ \E g \in Handlers : g # h /\ local[g].wait = "reopen"
          BY <1>2, <3>1, <3>3 DEF ReopenInv, At
        <4>2. \A g \in Handlers : g # h => local'[g] = local[g]
          BY <2>1 DEF Moves, TypeInv, TypeOK
        <4> QED BY <3>1, <4>1, <4>2
      <3> QED BY <3>2, <3>3
    <2>11. CASE \/ RoomKickLeaves(h) \/ QuitLeaves(h) \/ RoomStartChecks(h) \/ RoomStartInserts(h)
                \/ CommandRefused(h) \/ CommandApplied(h) \/ ResultTaken(h) \/ HandPersisted(h)
      <3>1. UNCHANGED <<row, current, byRoom>> /\ local[h].wait \notin {"reopen", "closing"}
        BY <2>11 DEF RoomKickLeaves, QuitLeaves, RoomStartChecks, RoomStartInserts, CommandRefused,
           CommandApplied, ResultTaken, HandPersisted, At, roomVars, matchVars
      <3> QED BY <1>3, <1>4, <2>1, <3>1 DEF Here
    <2> HIDE DEF Goal
    <2> QED BY <1>7, <2>2, <2>3, <2>4, <2>5, <2>6, <2>7, <2>8, <2>9, <2>10, <2>11 DEF Continues
  <1>8. ~Restart
    BY <1>1 DEF Restart
  <1> QED BY <1>5, <1>6, <1>7, <1>8 DEF Next

-----------------------------------------------------------------------------
(* Theorems.                                                               *)

AllInv == TypeInv /\ CalmInv /\ ReopenInv

LEMMA Invariant == Spec => []AllInv
  <1>1. Init => CalmInv /\ ReopenInv
    <2> SUFFICES ASSUME Init PROVE CalmInv /\ ReopenInv
      OBVIOUS
    <2>1. /\ match = <<>> /\ byId = {} /\ byRoom = None /\ row.status = "waiting"
          /\ \A h \in Handlers : local[h].wait = "idle"
      BY DEF Init, Idle
    <2>2. DOMAIN match = {}
      BY <2>1
    <2> QED BY <2>1, <2>2 DEF CalmInv, ReopenInv, NoRescue, Rescues, MatchHere, EnoughPlayers, NamesHeld,
               Announced, Handling, Finishing, Finishes, Settled, At
  <1>2. TypeInv /\ CalmInv /\ ReopenInv /\ [Next]_vars => CalmInv' /\ ReopenInv'
    BY CalmStep, ReopenStep
  <1> QED BY <1>1, <1>2, TypeInvariant, PTL DEF Spec, AllInv

\* MatchRegistry: however many room:start pass the checks together, and whatever
\* the handlers of results, the members and a restart do in between, a room has
\* one match at most, and both indexes know the same.
THEOREM RoomHasOneMatch == Spec => []OneMatch
  <1>1. AllInv => OneMatch
    BY DEF AllInv, CalmInv, Calm, MatchHere, OneMatch
  <1> QED BY <1>1, Invariant, PTL

\* The room of a match stays in the RoomRegistry as long as no kick and no quit
\* takes a player out of a match that began while it waited, nor a leave removes
\* a room that opened again meanwhile.
THEOREM MatchKeepsRoom == Spec => []MatchHasRoom
  <1>1. AllInv => MatchHasRoom
    BY DEF AllInv, CalmInv, Calm, MatchHere, MatchHasRoom
  <1> QED BY <1>1, Invariant, PTL

\* _persist_match_start, _persist_completed_hand, complete_match and the startup:
\* when no handler is under way the rows tell which matches run and how the
\* others ended, over any number of matches.
THEOREM RowsAreRight == Spec => []RowsTellOutcome
  <1>1. AllInv => RowsTellOutcome
    <2> SUFFICES ASSUME AllInv, Calm, Quiet, NEW m \in DOMAIN match
                 PROVE  /\ matchRow[m] = "active" => m \in byId
                        /\ match[m].over =>
                             matchRow[m] \in {"complete"} \cup (IF troubles = {} THEN {} ELSE {"void"})
      BY DEF RowsTellOutcome, Calm
    <2>1. Finishing /\ Settled
      BY DEF AllInv, CalmInv
    <2>2. \A h \in Handlers : ~Finishes(h, m)
      BY DEF Quiet, At, Finishes
    <2>3. match[m].over => m \notin byId
      BY <2>1, <2>2 DEF Finishing
    <2> QED BY <2>1, <2>3 DEF Settled
  <1> QED BY <1>1, Invariant, PTL

\* _set_room_status: when nothing went wrong and no handler is under way, a room
\* whose row is active has its match: no order of results, quits and requests
\* leaves it closed to its members for good.
THEOREM ActiveRoomPlays == Spec => []ActiveRoomHasMatch
  <1>1. AllInv => ActiveRoomHasMatch
    BY DEF AllInv, ReopenInv, ActiveRoomHasMatch, Quiet, At
  <1> QED BY <1>1, Invariant, PTL
=============================================================================

------------------------- MODULE MatchActorProofs -------------------------
(***************************************************************************)
(* Theorems about MatchActor, for every set of accounts, ids and calls,    *)
(* every length of a match and every kind of room.                         *)
(***************************************************************************)
EXTENDS MatchActor, TLAPS

\* A queue after put.
LEMMA PutFacts ==
    ASSUME NEW S, NEW q \in Seq(S), NEW e \in S
    PROVE  /\ Append(q, e) \in Seq(S)
           /\ DOMAIN Append(q, e) = 1..(Len(q) + 1)
           /\ DOMAIN q = 1..Len(q)
           /\ Len(q) \in Nat
           /\ \A n \in DOMAIN q: Append(q, e)[n] = q[n]
           /\ Append(q, e)[Len(q) + 1] = e
  OBVIOUS

\* A queue after get.
LEMMA GetFacts ==
    ASSUME NEW S, NEW q \in Seq(S), q # <<>>
    PROVE  /\ Tail(q) \in Seq(S)
           /\ Head(q) = q[1]
           /\ Head(q) \in S
           /\ 1 \in DOMAIN q
           /\ DOMAIN q \subseteq Nat
           /\ \A n \in DOMAIN Tail(q): n + 1 \in DOMAIN q /\ Tail(q)[n] = q[n + 1] /\ n # 0
  OBVIOUS

-----------------------------------------------------------------------------
(***************************************************************************)
(* Types.  TypeOK is inductive together with two facts: a hand is started  *)
(* by a command, so hands do not outnumber the commands, of which one is   *)
(* left while the match is active; and a queued player's command belongs   *)
(* to a call.                                                              *)
(***************************************************************************)

HandsFollowVersions ==
    /\ hand <= version + 1
    /\ status = "active" => version < MaxVersion

QueuedCall(q) == q.src = "player" => q.call \in Calls /\ request[q.call] # None

QueueTyped == \A n \in DOMAIN queue: QueuedCall(queue[n])

TypeInv == TypeOK /\ HandsFollowVersions /\ QueueTyped

LEMMA TypeInit == Init => TypeInv
  <1> SUFFICES ASSUME Init PROVE TypeInv
    OBVIOUS
  <1> USE ActorAssumption
  <1>1. /\ 0 \in Versions /\ 1 \in Hands
    BY DEF Versions, Hands
  <1>2. turn \in Turns \cup {None}
    BY DEF Init, FirstTurns, TurnsOf
  <1>3. timer \in Timers \cup {None}
    BY <1>1 DEF Init, Timers
  <1>4. QueueTyped /\ queue \in Seq(Entries)
    BY DEF Init, QueueTyped
  <1>5. HandsFollowVersions
    BY DEF Init, HandsFollowVersions
  <1>6. connected \subseteq Accounts
    BY DEF Init
  <1>. QED BY <1>1, <1>2, <1>3, <1>4, <1>5, <1>6 DEF Init, TypeInv, TypeOK, Replies

\* Putting an entry into the queue keeps it typed.
LEMMA PutTyped ==
    ASSUME TypeInv, NEW e \in Entries, queue' = Append(queue, e),
           e.src = "player" => e.call \in Calls /\ request'[e.call] # None,
           \A k \in Calls: request[k] # None => request'[k] # None
    PROVE  queue' \in Seq(Entries) /\ QueueTyped'
  <1>1. queue \in Seq(Entries)
    BY DEF TypeInv, TypeOK
  <1>2. /\ queue' \in Seq(Entries)
        /\ DOMAIN queue' = 1..(Len(queue) + 1)
        /\ DOMAIN queue = 1..Len(queue)
        /\ Len(queue) \in Nat
        /\ \A n \in DOMAIN queue: queue'[n] = queue[n]
        /\ queue'[Len(queue) + 1] = e
    BY <1>1, PutFacts, SMT
  <1>3. ASSUME NEW n \in DOMAIN queue' PROVE QueuedCall(queue[n])'
    <2>1. CASE n = Len(queue) + 1
      BY <2>1, <1>2 DEF QueuedCall
    <2>2. CASE n # Len(queue) + 1
      <3>1. n \in DOMAIN queue
        BY <2>2, <1>2
      <3>2. QueuedCall(queue[n])
        BY <3>1 DEF TypeInv, QueueTyped
      <3>. QED BY <3>1, <3>2, <1>2 DEF QueuedCall
    <2>. QED BY <2>1, <2>2
  <1>. QED BY <1>2, <1>3 DEF QueueTyped

\* Taking the head of the queue keeps the rest typed, and the head is typed.
LEMMA GetTyped ==
    ASSUME TypeInv, queue # <<>>, queue' = Tail(queue), UNCHANGED request
    PROVE  /\ queue' \in Seq(Entries) /\ QueueTyped'
           /\ Head(queue) \in Entries /\ QueuedCall(Head(queue))
  <1>1. queue \in Seq(Entries)
    BY DEF TypeInv, TypeOK
  <1>2. /\ queue' \in Seq(Entries)
        /\ Head(queue) = queue[1] /\ Head(queue) \in Entries
        /\ 1 \in DOMAIN queue
        /\ \A n \in DOMAIN queue': n + 1 \in DOMAIN queue /\ queue'[n] = queue[n + 1]
    BY <1>1, GetFacts, Zenon
  <1>3. QueuedCall(Head(queue))
    BY <1>2 DEF TypeInv, QueueTyped
  <1>4. ASSUME NEW n \in DOMAIN queue' PROVE QueuedCall(queue[n])'
    <2>1. QueuedCall(queue[n + 1])
      BY <1>2, <1>4 DEF TypeInv, QueueTyped
    <2>. QED BY <2>1, <1>2, <1>4 DEF QueuedCall
  <1>. QED BY <1>2, <1>3, <1>4 DEF QueueTyped

\* Steps that leave the queue and the requests alone keep the queue typed.
LEMMA SameTyped ==
    ASSUME TypeInv, UNCHANGED <<queue, request>>
    PROVE  queue' \in Seq(Entries) /\ QueueTyped'
  BY DEF TypeInv, TypeOK, QueueTyped, QueuedCall

\* A new timer is typed, and so is the deadline that goes with it.
LEMMA ScheduleTyped ==
    ASSUME TypeInv, NEW h \in Hands, NEW v \in Versions, NEW t,
           ScheduleActionTimer(h, v, t)
    PROVE  timer' \in Timers \cup {None} /\ dtimer' \in Timers \cup {None}
           /\ deadline' \in BOOLEAN
  BY ActorAssumption DEF ScheduleActionTimer, Timers

LEMMA DisconnectTimerTyped ==
    ASSUME TypeInv,
           \/ ScheduleDisconnected
           \/ \E a \in Accounts: ScheduleDisconnect(a) \/ CancelDisconnect(a)
           \/ UNCHANGED timerVars
    PROVE  timer' \in Timers \cup {None} /\ dtimer' \in Timers \cup {None}
           /\ deadline' \in BOOLEAN
  <1> USE DEF TypeInv, TypeOK, timerVars, Timers
  <1>1. ASSUME NEW a \in Accounts, ScheduleDisconnect(a)
        PROVE  timer' \in Timers \cup {None} /\ dtimer' \in Timers \cup {None}
               /\ deadline' \in BOOLEAN
    <2>1. CASE CanScheduleDisconnect(a)
      <3>1. dtimer' = [account |-> a, hand |-> hand, version |-> version, fired |-> FALSE]
            /\ deadline' = TRUE /\ timer' = timer
        BY <2>1, <1>1 DEF ScheduleDisconnect
      <3>. QED BY <3>1
    <2>2. CASE ~CanScheduleDisconnect(a)
      BY <2>2, <1>1 DEF ScheduleDisconnect
    <2>. QED BY <2>1, <2>2
  <1>2. CASE ScheduleDisconnected
    <2>1. CASE turn # None /\ turn.account \notin connected
      BY <2>1, <1>2, <1>1 DEF ScheduleDisconnected, Turns
    <2>2. CASE ~(turn # None /\ turn.account \notin connected)
      BY <2>2, <1>2 DEF ScheduleDisconnected
    <2>. QED BY <2>1, <2>2
  <1>3. ASSUME NEW a \in Accounts, CancelDisconnect(a)
        PROVE  timer' \in Timers \cup {None} /\ dtimer' \in Timers \cup {None}
               /\ deadline' \in BOOLEAN
    BY <1>3 DEF CancelDisconnect
  <1>4. CASE UNCHANGED timerVars
    BY <1>4
  <1>5. CASE \E a \in Accounts: ScheduleDisconnect(a) \/ CancelDisconnect(a)
    BY <1>5, <1>1, <1>3
  <1>. QED BY <1>2, <1>4, <1>5

LEMMA CloseTyped ==
    ASSUME TypeInv, Close, UNCHANGED request
    PROVE  /\ open' \in BOOLEAN /\ deadline' \in BOOLEAN
           /\ timer' \in Timers \cup {None} /\ dtimer' \in Timers \cup {None}
           /\ queue' \in Seq(Entries) /\ QueueTyped'
  <1>1. StopEntry \in Entries /\ ~(StopEntry.src = "player")
    BY DEF StopEntry, Entries, Sources, Kinds, TypeInv, TypeOK
  <1>2. CASE task = "none"
    BY <1>2, SameTyped DEF Close, TypeInv, TypeOK
  <1>3. CASE task # "none"
    <2>1. queue' = Append(queue, StopEntry)
      BY <1>3 DEF Close
    <2>2. \A k \in Calls: request[k] # None => request'[k] # None
      OBVIOUS
    <2>3. queue' \in Seq(Entries) /\ QueueTyped'
      BY <2>1, <2>2, <1>1, PutTyped
    <2>. QED BY <2>3, <1>3 DEF Close, TypeInv, TypeOK
  <1>. QED BY <1>2, <1>3

LEMMA SubmitTyped ==
    ASSUME TypeInv, NEW k \in Calls, Submit(k)
    PROVE  TypeInv'
  <1> USE DEF TypeInv, TypeOK, gameVars, timerVars, closeVars
  <1>1. PICK r \in Requests:
          /\ Sendable(r)
          /\ request' = [request EXCEPT ![k] = r]
          /\ SubmitProcessed(k, r) \/ SubmitInflight(k, r) \/ SubmitNew(k, r)
    BY DEF Submit
  <1>2. /\ r.id \in CommandIds /\ r.by \in Accounts /\ r.hand \in Hands
        /\ r.version \in Versions /\ r.kind \in Kinds
    BY DEF Requests, Kinds
  <1>3. /\ request' \in [Calls -> Requests \cup {None}]
        /\ request'[k] # None
        /\ \A c \in Calls: request[c] # None => request'[c] # None
    BY <1>1, NoneAssumption
  <1>4. queue' \in Seq(Entries) /\ QueueTyped'
    <2>1. CASE SubmitProcessed(k, r) \/ SubmitInflight(k, r)
      <3>1. queue' = queue
        BY <2>1 DEF SubmitProcessed, SubmitInflight
      <3>. QED BY <3>1, <1>3 DEF QueueTyped, QueuedCall
    <2>2. CASE SubmitNew(k, r)
      <3> DEFINE e == [src |-> "player", call |-> k, by |-> r.by, hand |-> r.hand,
                       version |-> r.version, kind |-> r.kind]
      <3>1. queue' = Append(queue, e)
        BY <2>2 DEF SubmitNew
      <3>2. e \in Entries /\ e.call = k
        BY <1>2 DEF Entries, Sources
      <3> HIDE DEF e
      <3>. QED BY <3>1, <3>2, <1>3, PutTyped
    <2>. QED BY <1>1, <2>1, <2>2
  <1>5. /\ inflight' \in [CommandIds -> Calls \cup {None}]
        /\ reply' \in [Calls -> Replies]
        /\ told' \in [Calls -> Versions]
    <2>1. CASE SubmitProcessed(k, r)
      <3>1. processed[r.id].version \in Versions
        BY <2>1, <1>2 DEF SubmitProcessed
      <3>. QED BY <2>1, <3>1, <1>2 DEF SubmitProcessed, Replies
    <2>2. CASE SubmitInflight(k, r)
      BY <2>2 DEF SubmitInflight, Replies
    <2>3. CASE SubmitNew(k, r)
      BY <2>3, <1>2 DEF SubmitNew, Replies
    <2>. QED BY <1>1, <2>1, <2>2, <2>3
  <1>. QED BY <1>3, <1>4, <1>5 DEF Submit, HandsFollowVersions

\* The command a timer queues.
LEMMA SubmitTimeoutTyped ==
    ASSUME TypeInv, NEW src \in {"timeout", "disconnect"}, NEW t \in Timers,
           SubmitTimeout(src, t), UNCHANGED request
    PROVE  queue' \in Seq(Entries) /\ QueueTyped'
  <1>1. CASE turn # None /\ task # "none"
    <2>1. queue' = Append(queue, AutoEntry(src, t))
      BY <1>1 DEF SubmitTimeout
    <2>2. AutoEntry(src, t) \in Entries /\ AutoEntry(src, t).src # "player"
      BY <1>1 DEF AutoEntry, Entries, Sources, Kinds, DefaultAction, Timers, Turns,
                  TypeInv, TypeOK
    <2>3. \A k \in Calls: request[k] # None => request'[k] # None
      OBVIOUS
    <2>. QED BY <2>1, <2>2, <2>3, PutTyped
  <1>2. CASE ~(turn # None /\ task # "none")
    BY <1>2, SameTyped DEF SubmitTimeout
  <1>. QED BY <1>1, <1>2

LEMMA ActionTimerTyped == TypeInv /\ ActionTimerFires => TypeInv'
  <1> SUFFICES ASSUME TypeInv, ActionTimerFires PROVE TypeInv'
    OBVIOUS
  <1> USE DEF gameVars, callVars, closeVars
  <1>1. timer \in Timers /\ timer' \in Timers
    BY DEF ActionTimerFires, Sleeping, TypeInv, TypeOK, Timers
  <1>2. queue' \in Seq(Entries) /\ QueueTyped'
    BY <1>1, SubmitTimeoutTyped DEF ActionTimerFires
  <1>. QED BY <1>1, <1>2 DEF ActionTimerFires, TypeInv, TypeOK, HandsFollowVersions

LEMMA DisconnectFiresTyped == TypeInv /\ DisconnectTimerFires => TypeInv'
  <1> SUFFICES ASSUME TypeInv, DisconnectTimerFires PROVE TypeInv'
    OBVIOUS
  <1> USE DEF gameVars, callVars, closeVars
  <1>1. dtimer \in Timers /\ dtimer' \in Timers
    BY DEF DisconnectTimerFires, Sleeping, TypeInv, TypeOK, Timers
  <1>2. queue' \in Seq(Entries) /\ QueueTyped'
    BY <1>1, SubmitTimeoutTyped, SameTyped DEF DisconnectTimerFires
  <1>. QED BY <1>1, <1>2 DEF DisconnectTimerFires, TypeInv, TypeOK, HandsFollowVersions

\* The next decision point is typed and within the bounds.
LEMMA OutcomeTyped ==
    ASSUME TypeInv, NEW q \in Entries, status = "active", version' = version + 1,
           HandGoesOn(q) \/ NextHand(q) \/ MatchEnds
    PROVE  /\ status' \in {"active", "complete"} /\ seated' \subseteq Accounts
           /\ hand' \in Hands /\ version' \in Versions /\ turn' \in Turns \cup {None}
           /\ HandsFollowVersions'
  <1> USE ActorAssumption DEF TypeInv, TypeOK, HandsFollowVersions, Hands, Versions
  <1>1. CASE HandGoesOn(q)
    BY <1>1 DEF HandGoesOn, TurnsOf
  <1>2. CASE NextHand(q)
    <2>1. seated' \subseteq Accounts
      BY <1>2 DEF NextHand
    <2>2. turn' \in Turns \cup {None}
      BY <1>2 DEF NextHand, FirstTurns, TurnsOf
    <2>. QED BY <1>2, <2>1, <2>2 DEF NextHand
  <1>3. CASE MatchEnds
    BY <1>3 DEF MatchEnds
  <1>. QED BY <1>1, <1>2, <1>3

LEMMA ApplyTyped == TypeInv /\ Apply => TypeInv'
  <1> SUFFICES ASSUME TypeInv, Apply PROVE TypeInv'
    OBVIOUS
  <1> DEFINE q == Head(queue)
  <1>1. /\ queue # <<>> /\ queue' = Tail(queue) /\ UNCHANGED request
        /\ status = "active" /\ version' = version + 1
        /\ UNCHANGED <<closeVars, connected>>
    BY DEF Apply, Acceptable
  <1>2. /\ queue' \in Seq(Entries) /\ QueueTyped' /\ q \in Entries
        /\ q.src = "player" => q.call \in Calls /\ request[q.call] # None
    BY <1>1, GetTyped DEF QueuedCall
  <1>3. PICK outcome \in Outcomes:
          /\ CASE outcome = "step" -> HandGoesOn(q)
               [] outcome = "hand" -> NextHand(q)
               [] outcome = "match" -> MatchEnds
          /\ IF q.src = "player"
               THEN Answer(request[q.call].id, q.call, outcome) /\ UNCHANGED busy
               ELSE busy' = outcome /\ UNCHANGED <<inflight, processed, reply, told>>
    BY DEF Apply
  <1> HIDE DEF q
  <1>4. HandGoesOn(q) \/ NextHand(q) \/ MatchEnds
    BY <1>3 DEF Outcomes
  <1>5. /\ status' \in {"active", "complete"} /\ seated' \subseteq Accounts
        /\ hand' \in Hands /\ version' \in Versions /\ turn' \in Turns \cup {None}
        /\ HandsFollowVersions'
    BY <1>1, <1>2, <1>4, OutcomeTyped
  <1>6. /\ inflight' \in [CommandIds -> Calls \cup {None}]
        /\ processed' \in [CommandIds -> [call: Calls, version: Versions] \cup {None}]
        /\ reply' \in [Calls -> Replies]
        /\ told' \in [Calls -> Versions]
        /\ busy' \in Outcomes \cup {None}
    <2>1. CASE q.src = "player"
      <3>1. /\ q.call \in Calls /\ request[q.call].id \in CommandIds
        BY <2>1, <1>2 DEF TypeInv, TypeOK, Requests
      <3>2. [call |-> q.call, version |-> version + 1] \in [call: Calls, version: Versions]
        BY <3>1, <1>1, <1>5
      <3>3. version + 1 \in Versions
        BY <1>1, <1>5
      <3> DEFINE i == request[q.call].id
                 k == q.call
      <3>4. Answer(i, k, outcome) /\ UNCHANGED busy
        BY <2>1, <1>3
      <3> HIDE DEF i, k
      <3>5. inflight' \in [CommandIds -> Calls \cup {None}]
        BY <3>4 DEF Answer, TypeInv, TypeOK
      <3>6. processed' \in [CommandIds -> [call: Calls, version: Versions] \cup {None}]
        <4>1. processed' = [processed EXCEPT ![i] = [call |-> k, version |-> version + 1]]
          BY <3>4 DEF Answer
        <4>2. [call |-> k, version |-> version + 1] \in [call: Calls, version: Versions]
          BY <3>2 DEF k
        <4>. QED BY <4>1, <4>2 DEF TypeInv, TypeOK
      <3>7. reply' \in [Calls -> Replies]
        BY <3>4 DEF Answer, TypeInv, TypeOK, Replies
      <3>8. told' \in [Calls -> Versions]
        BY <3>3, <3>4 DEF Answer, TypeInv, TypeOK
      <3>. QED BY <3>4, <3>5, <3>6, <3>7, <3>8 DEF TypeInv, TypeOK
    <2>2. CASE q.src # "player"
      BY <2>2, <1>3 DEF TypeInv, TypeOK
    <2>. QED BY <2>1, <2>2
  <1>7. timer' \in Timers \cup {None} /\ dtimer' \in Timers \cup {None} /\ deadline' \in BOOLEAN
    BY <1>5, ActorAssumption DEF Apply, ScheduleActionTimer, Timers
  <1>. QED BY <1>1, <1>2, <1>5, <1>6, <1>7 DEF TypeInv, TypeOK, closeVars

LEMMA RejectTyped == TypeInv /\ Reject => TypeInv'
  <1> SUFFICES ASSUME TypeInv, Reject PROVE TypeInv'
    OBVIOUS
  <1>1. queue' \in Seq(Entries) /\ QueueTyped' /\ QueuedCall(Head(queue))
    BY GetTyped DEF Reject
  <1>2. inflight' \in [CommandIds -> Calls \cup {None}] /\ reply' \in [Calls -> Replies]
    BY DEF Reject, Refuse, TypeInv, TypeOK, Replies
  <1>. QED BY <1>1, <1>2 DEF Reject, TypeInv, TypeOK, HandsFollowVersions, gameVars, timerVars,
                             closeVars

LEMMA StopTyped == TypeInv /\ Stop => TypeInv'
  <1> SUFFICES ASSUME TypeInv, Stop PROVE TypeInv'
    OBVIOUS
  <1> USE DEF gameVars, callVars, timerVars
  <1>1. queue' \in Seq(Entries) /\ QueueTyped'
    BY GetTyped DEF Stop
  <1>. QED BY <1>1 DEF Stop, TypeInv, TypeOK, HandsFollowVersions

\* The handlers of a result, and the closing of a room by an administrator.
LEMMA HandlersTyped == TypeInv /\ (Handlers \/ AdminCloses) => TypeInv'
  <1> SUFFICES ASSUME TypeInv, Handlers \/ AdminCloses PROVE TypeInv'
    OBVIOUS
  <1> USE DEF gameVars, callVars, closeVars, timerVars, HandsFollowVersions
  <1>1. ASSUME NEW k \in Calls, HandlerGoesOn(k) PROVE TypeInv'
    <2>1. ScheduleDisconnected /\ UNCHANGED <<queue, request>>
      BY <1>1 DEF HandlerGoesOn
    <2>2. reply' \in [Calls -> Replies]
      BY <1>1 DEF HandlerGoesOn, TypeInv, TypeOK, Replies
    <2>. QED BY <1>1, <2>1, <2>2, DisconnectTimerTyped, SameTyped DEF HandlerGoesOn, TypeInv, TypeOK
  <1>2. ASSUME NEW k \in Calls, HandlerCloses(k) PROVE TypeInv'
    <2>1. Close /\ UNCHANGED request
      BY <1>2 DEF HandlerCloses
    <2>2. reply' \in [Calls -> Replies]
      BY <1>2 DEF HandlerCloses, TypeInv, TypeOK, Replies
    <2>. QED BY <1>2, <2>1, <2>2, CloseTyped DEF HandlerCloses, TypeInv, TypeOK
  <1>3. ASSUME NEW k \in Calls, HandlerClosed(k) PROVE TypeInv'
    <2>1. reply' \in [Calls -> Replies]
      BY <1>3 DEF HandlerClosed, TypeInv, TypeOK, Replies
    <2>. QED BY <1>3, <2>1, SameTyped DEF HandlerClosed, TypeInv, TypeOK
  <1>8. ASSUME NEW k \in Calls, HandlerFindsNoRoom(k) PROVE TypeInv'
    <2>1. reply' \in [Calls -> Replies]
      BY <1>8 DEF HandlerFindsNoRoom, TypeInv, TypeOK, Replies
    <2>. QED BY <1>8, <2>1, SameTyped DEF HandlerFindsNoRoom, TypeInv, TypeOK
  <1>4. CASE AutoHandlerGoesOn
    <2>1. ScheduleDisconnected /\ UNCHANGED <<queue, request>>
      BY <1>4 DEF AutoHandlerGoesOn
    <2>. QED BY <1>4, <2>1, DisconnectTimerTyped, SameTyped DEF AutoHandlerGoesOn, TypeInv, TypeOK
  <1>5. CASE AutoHandlerCloses
    <2>1. Close /\ UNCHANGED request
      BY <1>5 DEF AutoHandlerCloses
    <2>. QED BY <1>5, <2>1, CloseTyped DEF AutoHandlerCloses, TypeInv, TypeOK
  <1>6. CASE AdminCloses
    <2>1. CASE open
      <3>1. Close /\ UNCHANGED request
        BY <1>6, <2>1 DEF AdminCloses
      <3>. QED BY <1>6, <2>1, <3>1, CloseTyped DEF AdminCloses, TypeInv, TypeOK
    <2>2. CASE ~open
      BY <1>6, <2>2, SameTyped DEF AdminCloses, TypeInv, TypeOK
    <2>. QED BY <2>1, <2>2
  <1>7. CASE AdminClosed
    BY <1>7, SameTyped DEF AdminClosed, TypeInv, TypeOK
  <1>. QED BY <1>1, <1>2, <1>3, <1>4, <1>5, <1>6, <1>7, <1>8 DEF Handlers

LEMMA ConnectionTyped ==
    ASSUME TypeInv, NEW a \in Accounts, Disconnect(a) \/ Reconnect(a)
    PROVE  TypeInv'
  <1>1. /\ UNCHANGED <<gameVars, queue, callVars, busy, closeVars>>
        /\ connected' \subseteq Accounts
    BY DEF Disconnect, Reconnect, TypeInv, TypeOK
  <1>2. ScheduleDisconnect(a) \/ CancelDisconnect(a) \/ UNCHANGED timerVars
    BY DEF Disconnect, Reconnect
  <1>3. timer' \in Timers \cup {None} /\ dtimer' \in Timers \cup {None} /\ deadline' \in BOOLEAN
    BY <1>2, DisconnectTimerTyped
  <1>. QED BY <1>1, <1>3, SameTyped DEF gameVars, callVars, closeVars, TypeInv, TypeOK,
                                        HandsFollowVersions

LEMMA TypeNext == TypeInv /\ [Next]_vars => TypeInv'
  <1> SUFFICES ASSUME TypeInv, [Next]_vars PROVE TypeInv'
    OBVIOUS
  <1>1. ASSUME NEW k \in Calls, Submit(k) PROVE TypeInv'
    BY <1>1, SubmitTyped
  <1>2. CASE ActionTimerFires
    BY <1>2, ActionTimerTyped
  <1>3. CASE DisconnectTimerFires
    BY <1>3, DisconnectFiresTyped
  <1>4. CASE Apply
    BY <1>4, ApplyTyped
  <1>5. CASE Reject
    BY <1>5, RejectTyped
  <1>6. CASE Stop
    BY <1>6, StopTyped
  <1>7. CASE Handlers \/ AdminCloses
    BY <1>7, HandlersTyped
  <1>8. ASSUME NEW a \in Accounts, Disconnect(a) \/ Reconnect(a) PROVE TypeInv'
    BY <1>8, ConnectionTyped
  <1>9. CASE UNCHANGED vars
    BY <1>9, SameTyped DEF vars, gameVars, callVars, timerVars, closeVars, TypeInv, TypeOK,
                           HandsFollowVersions
  <1>. QED BY <1>1, <1>2, <1>3, <1>4, <1>5, <1>6, <1>7, <1>8, <1>9 DEF Next

LEMMA TypeAlways == Spec => []TypeInv
  BY TypeInit, TypeNext, PTL DEF Spec

\* Every variable of the actor keeps its type: no command, timer, handler or
\* closing leaves the actor of actor.py in a state its other code cannot read,
\* whatever the number of accounts, ids and calls and the length of the match.
THEOREM TypeCorrect == Spec => []TypeOK
  <1>1. TypeInv => TypeOK
    BY DEF TypeInv
  <1>. QED BY <1>1, TypeAlways, PTL

-----------------------------------------------------------------------------
(***************************************************************************)
(* Timers.  TimersAreCurrent is inductive: only Apply moves the decision   *)
(* point, and it replaces both timers in the same step.                    *)
(***************************************************************************)

LEMMA TimersNext == TypeInv /\ TimersAreCurrent /\ [Next]_vars => TimersAreCurrent'
  <1> SUFFICES ASSUME TypeInv, TimersAreCurrent, [Next]_vars PROVE TimersAreCurrent'
    OBVIOUS
  <1> USE DEF TimersAreCurrent, Sleeping, gameVars, timerVars
  <1>1. ASSUME UNCHANGED gameVars, UNCHANGED timerVars PROVE TimersAreCurrent'
    BY <1>1
  <1>2. ASSUME NEW a \in Accounts, UNCHANGED gameVars,
               ScheduleDisconnect(a) \/ CancelDisconnect(a)
        PROVE  TimersAreCurrent'
    <2>1. CASE UNCHANGED timerVars
      BY <2>1, <1>2
    <2>2. CASE ScheduleDisconnect(a) /\ CanScheduleDisconnect(a)
      BY <2>2, <1>2 DEF ScheduleDisconnect, CanScheduleDisconnect
    <2>3. CASE CancelDisconnect(a) /\ ~(UNCHANGED timerVars)
      BY <2>3, <1>2 DEF CancelDisconnect
    <2>. QED BY <1>2, <2>1, <2>2, <2>3 DEF ScheduleDisconnect
  <1>3. ASSUME ScheduleDisconnected, UNCHANGED gameVars PROVE TimersAreCurrent'
    <2>1. turn # None => turn.account \in Accounts
      BY DEF TypeInv, TypeOK, Turns
    <2>. QED BY <1>1, <1>2, <1>3, <2>1 DEF ScheduleDisconnected
  <1>4. ASSUME Close, UNCHANGED gameVars PROVE TimersAreCurrent'
    BY <1>4 DEF Close
  <1>5. CASE Apply
    <2>1. ScheduleActionTimer(hand', version', turn')
      BY <1>5 DEF Apply
    <2>. QED BY <2>1 DEF ScheduleActionTimer
  <1>6. CASE ActionTimerFires
    <2>1. timer \in Timers
      BY <1>6 DEF ActionTimerFires, TypeInv, TypeOK
    <2>. QED BY <1>6, <2>1 DEF ActionTimerFires, Timers
  <1>7. CASE DisconnectTimerFires
    <2>1. dtimer \in Timers
      BY <1>7 DEF DisconnectTimerFires, TypeInv, TypeOK
    <2>. QED BY <1>7, <2>1 DEF DisconnectTimerFires, Timers
  <1>8. CASE Reject \/ Stop \/ AdminClosed
    BY <1>8, <1>1 DEF Reject, Stop, AdminClosed
  <1>9. ASSUME NEW k \in Calls,
               \/ Submit(k) \/ HandlerGoesOn(k) \/ HandlerCloses(k)
               \/ HandlerFindsNoRoom(k) \/ HandlerClosed(k)
        PROVE  TimersAreCurrent'
    BY <1>9, <1>1, <1>3, <1>4 DEF Submit, HandlerGoesOn, HandlerCloses, HandlerFindsNoRoom,
                                  HandlerClosed
  <1>10. CASE AutoHandlerGoesOn \/ AutoHandlerCloses \/ AdminCloses
    BY <1>10, <1>1, <1>3, <1>4 DEF AutoHandlerGoesOn, AutoHandlerCloses, AdminCloses
  <1>11. ASSUME NEW a \in Accounts, Disconnect(a) \/ Reconnect(a) PROVE TimersAreCurrent'
    BY <1>11, <1>1, <1>2 DEF Disconnect, Reconnect
  <1>12. CASE UNCHANGED vars
    BY <1>12, <1>1 DEF vars
  <1>. QED BY <1>5, <1>6, <1>7, <1>8, <1>9, <1>10, <1>11, <1>12 DEF Next, Handlers

\* A timer that can still fire belongs to the current decision point: whatever
\* races with the sleeping task, no stale timer of actor.py:487-547 can wake
\* later and decide for a player whose turn is another one.
THEOREM TimersCorrect == Spec => []TimersAreCurrent
  <1>1. Init => TimersAreCurrent
    BY DEF Init, TimersAreCurrent, Sleeping
  <1>. QED BY <1>1, TimersNext, TypeAlways, PTL DEF Spec

-----------------------------------------------------------------------------
(***************************************************************************)
(* The sentinel.  NothingBehindStop is inductive together with the fact    *)
(* that a match still in the registry has no sentinel in its queue: submit *)
(* is reached through the registry, close only after removing the match.   *)
(***************************************************************************)

StopMeansClosed == open => \A n \in DOMAIN queue: queue[n].src # "stop"

SentinelInv == StopMeansClosed /\ NothingBehindStop

\* What a timer's task puts into the queue, and what closing does.
LEMMA TimerPuts ==
    ASSUME TypeInv, NEW src \in {"timeout", "disconnect"}, NEW t \in Timers,
           SubmitTimeout(src, t)
    PROVE  UNCHANGED queue \/ \E e \in Entries: /\ queue' = Append(queue, e)
                                                /\ e.src # "player" /\ e.src # "stop"
  <1>1. CASE turn # None /\ task # "none"
    <2>1. /\ AutoEntry(src, t) \in Entries
          /\ AutoEntry(src, t).src # "player" /\ AutoEntry(src, t).src # "stop"
      BY <1>1 DEF AutoEntry, Entries, Sources, Kinds, DefaultAction, Timers, Turns,
                  TypeInv, TypeOK
    <2>. QED BY <1>1, <2>1 DEF SubmitTimeout
  <1>. QED BY <1>1 DEF SubmitTimeout

LEMMA ClosePuts ==
    ASSUME TypeInv, Close
    PROVE  UNCHANGED queue \/ \E e \in Entries: queue' = Append(queue, e) /\ e.src = "stop"
  <1>1. StopEntry \in Entries /\ StopEntry.src = "stop"
    BY DEF StopEntry, Entries, Sources, Kinds, TypeInv, TypeOK
  <1>. QED BY <1>1 DEF Close

\* What any step does to the queue.
QueueStep ==
    \/ queue' = queue
    \/ queue # <<>> /\ queue' = Tail(queue)
    \/ \E e \in Entries: /\ queue' = Append(queue, e)
                         /\ e.src = "player" => open
                         /\ e.src = "stop" => ~open'

LEMMA SentinelStep ==
    ASSUME TypeInv, SentinelInv, QueueStep, open' => open
    PROVE  SentinelInv'
  <1> USE DEF SentinelInv, StopMeansClosed, NothingBehindStop
  <1>1. queue \in Seq(Entries)
    BY DEF TypeInv, TypeOK
  <1>2. CASE queue' = queue
    BY <1>2
  <1>3. CASE queue # <<>> /\ queue' = Tail(queue)
    <2>1. /\ DOMAIN queue \subseteq Nat
          /\ \A n \in DOMAIN queue': n + 1 \in DOMAIN queue /\ queue'[n] = queue[n + 1] /\ n # 0
      BY <1>1, <1>3, GetFacts
    <2>2. DOMAIN queue' \subseteq Nat
      BY <1>1, <1>3
    <2>3. ASSUME NEW m \in DOMAIN queue', NEW n \in DOMAIN queue',
                 m < n, queue'[m].src = "stop", queue'[n].src = "player"
          PROVE  FALSE
      <3>1. m + 1 < n + 1
        BY <2>2, <2>3
      <3>. QED BY <3>1, <2>1, <2>3
    <2>. QED BY <2>1, <2>3
  <1>4. CASE \E e \in Entries: /\ queue' = Append(queue, e)
                               /\ e.src = "player" => open
                               /\ e.src = "stop" => ~open'
    <2>1. PICK e \in Entries: /\ queue' = Append(queue, e)
                              /\ e.src = "player" => open
                              /\ e.src = "stop" => ~open'
      BY <1>4
    <2>2. /\ DOMAIN queue' = 1..(Len(queue) + 1)
          /\ DOMAIN queue = 1..Len(queue)
          /\ Len(queue) \in Nat
          /\ \A n \in DOMAIN queue: queue'[n] = queue[n]
          /\ queue'[Len(queue) + 1] = e
      BY <1>1, <2>1, PutFacts
    <2>3. ASSUME NEW m \in DOMAIN queue', NEW n \in DOMAIN queue',
                 m < n, queue'[m].src = "stop", queue'[n].src = "player"
          PROVE  FALSE
      <3>1. m \in DOMAIN queue /\ queue[m].src = "stop"
        BY <2>2, <2>3
      <3>2. CASE n = Len(queue) + 1
        BY <3>1, <3>2, <2>1, <2>2, <2>3
      <3>3. CASE n # Len(queue) + 1
        BY <3>1, <3>3, <2>2, <2>3
      <3>. QED BY <3>2, <3>3
    <2>4. ASSUME open', NEW n \in DOMAIN queue' PROVE queue'[n].src # "stop"
      <3>1. CASE n = Len(queue) + 1
        BY <3>1, <2>1, <2>2, <2>4
      <3>2. CASE n # Len(queue) + 1
        BY <3>2, <2>2, <2>4
      <3>. QED BY <3>1, <3>2
    <2>. QED BY <2>3, <2>4
  <1>. QED BY <1>2, <1>3, <1>4 DEF QueueStep

\* Every step is a QueueStep, and a match once removed stays removed.
LEMMA EveryQueueStep == TypeInv /\ [Next]_vars => QueueStep /\ (open' => open)
  <1> SUFFICES ASSUME TypeInv, [Next]_vars PROVE QueueStep /\ (open' => open)
    OBVIOUS
  <1> USE DEF QueueStep, closeVars
  <1>1. ASSUME NEW k \in Calls, Submit(k) PROVE QueueStep /\ (open' => open)
    <2>1. open /\ UNCHANGED open
      BY <1>1 DEF Submit
    <2>2. PICK r \in Requests: SubmitProcessed(k, r) \/ SubmitInflight(k, r) \/ SubmitNew(k, r)
      BY <1>1 DEF Submit
    <2>3. CASE SubmitProcessed(k, r) \/ SubmitInflight(k, r)
      BY <2>1, <2>3 DEF SubmitProcessed, SubmitInflight
    <2>4. CASE SubmitNew(k, r)
      <3> DEFINE e == [src |-> "player", call |-> k, by |-> r.by, hand |-> r.hand,
                       version |-> r.version, kind |-> r.kind]
      <3>1. queue' = Append(queue, e)
        BY <2>4 DEF SubmitNew
      <3>2. e \in Entries /\ e.src = "player"
        BY DEF Entries, Sources, Requests, Kinds
      <3> HIDE DEF e
      <3>. QED BY <3>1, <3>2, <2>1
    <2>. QED BY <2>2, <2>3, <2>4
  <1>3. CASE ActionTimerFires
    <2>1. timer \in Timers /\ SubmitTimeout("timeout", timer) /\ UNCHANGED open
      BY <1>3 DEF ActionTimerFires, Sleeping, TypeInv, TypeOK
    <2>. QED BY <2>1, TimerPuts
  <1>4. CASE DisconnectTimerFires
    <2>1. /\ dtimer \in Timers /\ UNCHANGED open
          /\ SubmitTimeout("disconnect", dtimer) \/ UNCHANGED queue
      BY <1>4 DEF DisconnectTimerFires, Sleeping, TypeInv, TypeOK
    <2>. QED BY <2>1, TimerPuts
  <1>5. ASSUME Close PROVE QueueStep /\ (open' => open)
    BY <1>5, ClosePuts DEF Close
  <1>6. CASE Apply \/ Reject \/ Stop
    <2>1. queue # <<>> /\ queue' = Tail(queue) /\ UNCHANGED open
      BY <1>6 DEF Apply, Reject, Stop
    <2>. QED BY <2>1
  <1>7. CASE Handlers \/ AdminCloses
    BY <1>7, <1>5 DEF Handlers, HandlerGoesOn, HandlerCloses, HandlerFindsNoRoom,
                      HandlerClosed, AutoHandlerGoesOn, AutoHandlerCloses, AdminClosed, AdminCloses
  <1>8. ASSUME NEW a \in Accounts, Disconnect(a) \/ Reconnect(a)
        PROVE  QueueStep /\ (open' => open)
    BY <1>8 DEF Disconnect, Reconnect
  <1>9. CASE UNCHANGED vars
    BY <1>9 DEF vars
  <1>. QED BY <1>1, <1>3, <1>4, <1>6, <1>7, <1>8, <1>9 DEF Next

\* No player's command is ever queued behind the sentinel that ends the actor's
\* task (actor.py:247-257, registry.py:54-57), so none is left unanswered there,
\* however many handlers and administrators close the match at the same time.
THEOREM SentinelCorrect == Spec => []NothingBehindStop
  <1>1. Init => SentinelInv
    BY DEF Init, SentinelInv, StopMeansClosed, NothingBehindStop
  <1>2. TypeInv /\ SentinelInv /\ [Next]_vars => SentinelInv'
    BY EveryQueueStep, SentinelStep
  <1>3. SentinelInv => NothingBehindStop
    BY DEF SentinelInv
  <1>. QED BY <1>1, <1>2, <1>3, TypeAlways, PTL DEF Spec

-----------------------------------------------------------------------------
(***************************************************************************)
(* The deadline, and what the timers decide.  DeadlineIsHonest needs to    *)
(* know that a timer's command in the queue for the current version is the *)
(* default action of the current decision point, so that only Apply takes  *)
(* it; that an open match has its task; and that the action timer and the  *)
(* disconnect timer belong to different kinds of room.                     *)
(***************************************************************************)

\* The commands of timers in the queue.
QueuedDefaults ==
    \A n \in DOMAIN queue: queue[n].src \in {"timeout", "disconnect"} =>
      /\ queue[n].version <= version
      /\ queue[n].version = version =>
           /\ queue[n].hand = hand
           /\ turn # None
           /\ queue[n].by = turn.account
           /\ queue[n].kind = DefaultAction(turn)

ClockInv ==
    /\ task # "running" => ~open
    /\ turn # None => status = "active"
    /\ turn # None /\ turn.kind = "showdown" => ShowdownChoice
    /\ timer # None => Timed
    /\ dtimer # None => ~Timed
    /\ QueuedDefaults
    /\ DeadlineIsHonest

\* What a timer's task may put into the queue: the default action of the current
\* decision point.
TimersCommand(e) ==
    e.src \in {"timeout", "disconnect"} =>
      /\ e.version = version /\ e.hand = hand
      /\ turn # None /\ e.by = turn.account /\ e.kind = DefaultAction(turn)

\* What a step that is not Apply does to the queue.
WaitingStep ==
    \/ queue' = queue
    \/ queue # <<>> /\ queue' = Tail(queue)
    \/ \E e \in Entries: queue' = Append(queue, e) /\ TimersCommand(e)

\* The commands of timers stay defaults while the decision point stays.
LEMMA DefaultsStay ==
    ASSUME TypeInv, QueuedDefaults, UNCHANGED gameVars, WaitingStep
    PROVE  QueuedDefaults'
  <1>1. queue \in Seq(Entries) /\ version \in Nat
    BY DEF TypeInv, TypeOK, Versions
  <1>2. /\ hand' = hand /\ version' = version /\ turn' = turn
        /\ DefaultAction(turn)' = DefaultAction(turn)
    BY DEF gameVars
  <1>3. CASE queue' = queue
    BY <1>2, <1>3 DEF QueuedDefaults
  <1>4. CASE queue # <<>> /\ queue' = Tail(queue)
    <2>1. \A n \in DOMAIN queue': n + 1 \in DOMAIN queue /\ queue'[n] = queue[n + 1]
      BY <1>1, <1>4, GetFacts
    <2>. QED BY <1>2, <2>1 DEF QueuedDefaults
  <1>5. CASE \E e \in Entries: queue' = Append(queue, e) /\ TimersCommand(e)
    <2>1. PICK e \in Entries: queue' = Append(queue, e) /\ TimersCommand(e)
      BY <1>5
    <2>2. /\ DOMAIN queue' = 1..(Len(queue) + 1)
          /\ DOMAIN queue = 1..Len(queue)
          /\ Len(queue) \in Nat
          /\ \A n \in DOMAIN queue: queue'[n] = queue[n]
          /\ queue'[Len(queue) + 1] = e
      BY <1>1, <2>1, PutFacts
    <2>3. ASSUME NEW n \in DOMAIN queue', queue'[n].src \in {"timeout", "disconnect"}
          PROVE  /\ queue'[n].version <= version
                 /\ queue'[n].version = version =>
                      /\ queue'[n].hand = hand
                      /\ turn # None
                      /\ queue'[n].by = turn.account
                      /\ queue'[n].kind = DefaultAction(turn)
      <3>1. CASE n = Len(queue) + 1
        BY <1>1, <2>1, <2>2, <2>3, <3>1 DEF TimersCommand
      <3>2. CASE n # Len(queue) + 1
        <4>1. n \in DOMAIN queue /\ queue'[n] = queue[n]
          BY <2>2, <2>3, <3>2
        <4>. QED BY <2>3, <4>1 DEF QueuedDefaults
      <3>. QED BY <3>1, <3>2
    <2>. QED BY <1>2, <2>3 DEF QueuedDefaults
  <1>. QED BY <1>3, <1>4, <1>5 DEF WaitingStep

\* A queued command stays queued until it is taken.
LEMMA QueuedStays ==
    ASSUME TypeInv, NEW src, Queued(src), UNCHANGED gameVars,
           \/ queue' = queue
           \/ \E e \in Entries: queue' = Append(queue, e)
           \/ /\ queue # <<>> /\ queue' = Tail(queue)
              /\ ~(Head(queue).src = src /\ Current(Head(queue)))
    PROVE  Queued(src)'
  <1>1. PICK n \in DOMAIN queue: queue[n].src = src /\ Current(queue[n])
    BY DEF Queued
  <1>2. queue \in Seq(Entries)
    BY DEF TypeInv, TypeOK
  <1>3. ASSUME NEW m \in DOMAIN queue', queue'[m] = queue[n] PROVE Queued(src)'
    BY <1>1, <1>3 DEF Queued, Current, gameVars
  <1>4. CASE queue' = queue
    BY <1>3, <1>4
  <1>5. CASE \E e \in Entries: queue' = Append(queue, e)
    BY <1>2, <1>3, <1>5, PutFacts
  <1>6. CASE /\ queue # <<>> /\ queue' = Tail(queue)
             /\ ~(Head(queue).src = src /\ Current(Head(queue)))
    <2>1. n # 1 /\ n \in 1..Len(queue) /\ Len(queue) \in Nat
      BY <1>1, <1>2, <1>6
    <2>2. n - 1 \in DOMAIN queue' /\ queue'[n - 1] = queue[n]
      BY <1>2, <1>6, <2>1
    <2>. QED BY <1>3, <2>2
  <1>. QED BY <1>4, <1>5, <1>6

\* Steps that leave the timers and the decision point alone and take no timer's
\* command for it.
LEMMA HonestStays ==
    ASSUME TypeInv, DeadlineIsHonest, UNCHANGED <<gameVars, timerVars>>, open' => open,
           \/ queue' = queue
           \/ \E e \in Entries: queue' = Append(queue, e)
           \/ /\ queue # <<>> /\ queue' = Tail(queue)
              /\ open /\ ~ShowdownChoice =>
                   ~(Head(queue).src \in {"timeout", "disconnect"} /\ Current(Head(queue)))
    PROVE  DeadlineIsHonest'
  <1> SUFFICES ASSUME ~ShowdownChoice, open' PROVE
        /\ Sleeping(timer)' \/ Sleeping(dtimer)' => deadline'
        /\ deadline' => \/ Sleeping(timer)' \/ Queued("timeout")'
                        \/ Sleeping(dtimer)' \/ Queued("disconnect")'
    BY DEF DeadlineIsHonest
  <1>1. open /\ (Sleeping(timer)' <=> Sleeping(timer)) /\ (Sleeping(dtimer)' <=> Sleeping(dtimer))
        /\ deadline' = deadline
    BY DEF timerVars, Sleeping
  <1>2. Queued("timeout") => Queued("timeout")'
    BY <1>1, QueuedStays
  <1>3. Queued("disconnect") => Queued("disconnect")'
    BY <1>1, QueuedStays
  <1>. QED BY <1>1, <1>2, <1>3 DEF DeadlineIsHonest

\* A step that queues nothing of a timer, or takes something that is not the
\* default action of the current decision point.
LEMMA ClockStays ==
    ASSUME TypeInv, ClockInv, UNCHANGED <<gameVars, timerVars>>, open' => open,
           task' # "running" => ~open',
           \/ queue' = queue
           \/ \E e \in Entries: queue' = Append(queue, e) /\ TimersCommand(e)
           \/ /\ queue # <<>> /\ queue' = Tail(queue)
              /\ open /\ ~ShowdownChoice =>
                   ~(Head(queue).src \in {"timeout", "disconnect"} /\ Current(Head(queue)))
    PROVE  ClockInv'
  <1>1. DeadlineIsHonest'
    BY HonestStays DEF ClockInv
  <1>2. QueuedDefaults'
    BY DefaultsStay DEF ClockInv, WaitingStep
  <1>. QED BY <1>1, <1>2 DEF ClockInv, gameVars, timerVars

\* Closing, and whatever happens once the match is out of the registry.
LEMMA ClosedClock ==
    ASSUME TypeInv, ClockInv, UNCHANGED gameVars, ~open', WaitingStep,
           timer' # None => Timed, dtimer' # None => ~Timed
    PROVE  ClockInv'
  <1>1. QueuedDefaults'
    BY DefaultsStay DEF ClockInv
  <1>. QED BY <1>1 DEF ClockInv, DeadlineIsHonest, gameVars

\* GameActor.close keeps it: the timers are gone and the sentinel is all it queues.
LEMMA CloseClock ==
    ASSUME TypeInv, ClockInv, UNCHANGED gameVars, Close
    PROVE  ClockInv'
  <1>1. WaitingStep
    <2>1. StopEntry \in Entries /\ StopEntry.src = "stop"
      BY DEF StopEntry, Entries, Sources, Kinds, TypeInv, TypeOK
    <2>. QED BY <2>1 DEF Close, WaitingStep, TimersCommand
  <1>2. ~open' /\ (timer' # None => Timed) /\ (dtimer' # None => ~Timed)
    BY DEF Close, ClockInv
  <1>. QED BY <1>1, <1>2, ClosedClock

\* The disconnect timer of the current decision point is set or cancelled.
LEMMA DisconnectClock ==
    ASSUME TypeInv, ClockInv, UNCHANGED <<gameVars, queue, task, open>>,
           NEW a, ScheduleDisconnect(a) \/ CancelDisconnect(a)
    PROVE  ClockInv'
  <1>1. CASE UNCHANGED timerVars
    BY <1>1, ClockStays DEF ClockInv
  <1>2. QueuedDefaults'
    BY DefaultsStay DEF ClockInv, WaitingStep
  <1>3. CASE ScheduleDisconnect(a) /\ CanScheduleDisconnect(a)
    <2>1. /\ dtimer' = [account |-> a, hand |-> hand, version |-> version, fired |-> FALSE]
          /\ deadline' = TRUE /\ timer' = timer /\ ~Timed
      BY <1>3 DEF ScheduleDisconnect, CanScheduleDisconnect
    <2>2. dtimer' \in Timers \/ dtimer' = None
      BY <1>3, DisconnectTimerTyped DEF ScheduleDisconnect, CanScheduleDisconnect, TypeInv, TypeOK,
                                        Timers, Turns
    <2>3. hand \in Hands /\ version \in Versions /\ turn \in Turns /\ turn.account = a
      BY <1>3 DEF CanScheduleDisconnect, TypeInv, TypeOK
    <2>4. dtimer' \in Timers
      BY <2>1, <2>3 DEF Timers, Turns
    <2>5. Sleeping(dtimer)'
      BY <2>1, <2>4, NoneAssumption DEF Sleeping
    <2>6. DeadlineIsHonest'
      BY <2>1, <2>5 DEF DeadlineIsHonest
    <2>. QED BY <1>2, <2>1, <2>6 DEF ClockInv, gameVars
  <1>4. CASE CancelDisconnect(a) /\ ~UNCHANGED timerVars
    <2>1. dtimer # None /\ dtimer' = None /\ deadline' = FALSE /\ timer' = timer
      BY <1>4 DEF CancelDisconnect
    <2>2. timer' = None
      BY <2>1 DEF ClockInv
    <2>3. DeadlineIsHonest'
      BY <2>1, <2>2 DEF DeadlineIsHonest, Sleeping
    <2>. QED BY <1>2, <2>1, <2>2, <2>3 DEF ClockInv, gameVars
  <1>. QED BY <1>1, <1>3, <1>4 DEF ScheduleDisconnect

\* So does _schedule_disconnected_timeout, whose player may be connected.
LEMMA ScheduledClock ==
    ASSUME TypeInv, ClockInv, UNCHANGED <<gameVars, queue, task, open>>, ScheduleDisconnected
    PROVE  ClockInv'
  <1>1. CASE turn # None /\ turn.account \notin connected
    BY <1>1, DisconnectClock DEF ScheduleDisconnected
  <1>2. CASE ~(turn # None /\ turn.account \notin connected)
    <2>1. UNCHANGED timerVars
      BY <1>2 DEF ScheduleDisconnected
    <2>. QED BY <2>1, ClockStays DEF ClockInv
  <1>. QED BY <1>1, <1>2

\* A timer wakes: its command takes its place.
LEMMA FiringClock ==
    ASSUME TypeInv, ClockInv, TimersAreCurrent, ActionTimerFires \/ DisconnectTimerFires
    PROVE  ClockInv'
  <1>1. /\ UNCHANGED <<gameVars, task, open, deadline>>
        /\ (timer' # None => Timed) /\ (dtimer' # None => ~Timed)
    BY DEF ActionTimerFires, DisconnectTimerFires, Sleeping, closeVars, ClockInv
  <1>2. PICK src \in {"timeout", "disconnect"}, t \in Timers :
           /\ SubmitTimeout(src, t) /\ t.hand = hand /\ t.version = version /\ turn # None
           /\ (src = "timeout" /\ dtimer' = dtimer /\ Sleeping(timer))
              \/ (src = "disconnect" /\ timer' = timer /\ Sleeping(dtimer))
    <2>1. CASE ActionTimerFires
      BY <2>1 DEF ActionTimerFires, Sleeping, TimersAreCurrent, TypeInv, TypeOK
    <2>2. CASE DisconnectTimerFires
      BY <2>2 DEF DisconnectTimerFires, Sleeping, TimersAreCurrent, TypeInv, TypeOK
    <2>. QED BY <2>1, <2>2
  <1>3. AutoEntry(src, t) \in Entries
    BY <1>2 DEF AutoEntry, Entries, Sources, Kinds, DefaultAction, Timers, Turns, TypeInv, TypeOK
  <1> DEFINE e == AutoEntry(src, t)
  <1>4. e.src = src /\ e.hand = hand /\ e.version = version /\ TimersCommand(e)
    BY <1>2 DEF AutoEntry, TimersCommand
  <1> HIDE DEF e
  <1>5. queue' = Append(queue, e) \/ (task = "none" /\ queue' = queue)
    BY <1>2 DEF SubmitTimeout, e
  <1>6. QueuedDefaults'
    BY <1>1, <1>3, <1>4, <1>5, DefaultsStay DEF ClockInv, WaitingStep, e
  <1>7. DeadlineIsHonest'
    <2> SUFFICES ASSUME ~ShowdownChoice, open' PROVE
          /\ Sleeping(timer)' \/ Sleeping(dtimer)' => deadline'
          /\ deadline' => \/ Sleeping(timer)' \/ Queued("timeout")'
                          \/ Sleeping(dtimer)' \/ Queued("disconnect")'
      BY DEF DeadlineIsHonest
    <2>1. deadline /\ task = "running"
      BY <1>1, <1>2 DEF ClockInv, DeadlineIsHonest
    <2>2. queue' = Append(queue, e) /\ queue \in Seq(Entries)
      BY <1>5, <2>1 DEF TypeInv, TypeOK
    <2>3. Len(queue) + 1 \in DOMAIN queue' /\ queue'[Len(queue) + 1] = e
      BY <1>3, <2>2, PutFacts DEF e
    <2>4. Queued(src)'
      BY <1>1, <1>4, <2>3 DEF Queued, Current, gameVars
    <2>. QED BY <1>1, <1>2, <2>1, <2>4
  <1>. QED BY <1>1, <1>6, <1>7 DEF ClockInv, gameVars

\* A command is applied: whatever was queued for the old decision point is stale, and
\* the new one has its own timer and deadline, or none.
LEMMA ApplyClock ==
    ASSUME TypeInv, ClockInv, Apply
    PROVE  ClockInv'
  <1> DEFINE q == Head(queue)
  <1>1. /\ queue # <<>> /\ queue' = Tail(queue) /\ queue \in Seq(Entries)
        /\ version' = version + 1 /\ version \in Nat
        /\ UNCHANGED <<task, open>>
        /\ status = "active" /\ turn # None
        /\ ScheduleActionTimer(hand', version', turn')
    BY DEF Apply, Acceptable, Playable, closeVars, TypeInv, TypeOK, Versions
  <1>2. HandGoesOn(q) \/ NextHand(q) \/ MatchEnds
    BY DEF Apply, Outcomes
  <1> HIDE DEF q
  <1>3. /\ turn' # None => status' = "active"
        /\ turn' # None /\ turn'.kind = "showdown" => ShowdownChoice
    <2>1. CASE HandGoesOn(q)
      BY <1>1, <2>1 DEF HandGoesOn, TurnsOf
    <2>2. CASE NextHand(q)
      BY <1>1, <2>2 DEF NextHand, FirstTurns, TurnsOf
    <2>3. CASE MatchEnds
      BY <2>3 DEF MatchEnds
    <2>. QED BY <1>2, <2>1, <2>2, <2>3
  <1>4. QueuedDefaults'
    <2>1. \A n \in DOMAIN queue': n + 1 \in DOMAIN queue /\ queue'[n] = queue[n + 1]
      BY <1>1, GetFacts
    <2>2. \A n \in DOMAIN queue: queue[n].version \in Nat
      <3>1. \A n \in DOMAIN queue: queue[n] \in Entries
        BY <1>1
      <3>2. \A e \in Entries: e.version \in Versions
        BY DEF Entries
      <3>. QED BY <3>1, <3>2 DEF Versions
    <2>3. ASSUME NEW n \in DOMAIN queue', queue'[n].src \in {"timeout", "disconnect"}
          PROVE  queue'[n].version <= version' /\ queue'[n].version # version'
      <3>1. queue'[n].version <= version
        BY <2>1, <2>3 DEF ClockInv, QueuedDefaults
      <3>. QED BY <1>1, <2>1, <2>2, <3>1
    <2>. QED BY <2>3 DEF QueuedDefaults
  <1>5. /\ dtimer' = None
        /\ deadline' = (Timed /\ turn' # None)
        /\ timer' # None => Timed
        /\ Sleeping(timer)' <=> Timed /\ turn' # None
    <2>1. timer' = IF Timed /\ turn' # None
                     THEN [account |-> None, hand |-> hand', version |-> version', fired |-> FALSE]
                     ELSE None
      BY <1>1 DEF ScheduleActionTimer
    <2>2. Timed /\ turn' # None => timer' # None
      <3>1. TypeInv'
        BY ApplyTyped
      <3>2. [account |-> None, hand |-> hand', version |-> version', fired |-> FALSE] \in Timers
        BY <3>1 DEF TypeInv, TypeOK, Timers
      <3>. QED BY <2>1, <3>2, NoneAssumption
    <2>. QED BY <1>1, <2>1, <2>2 DEF ScheduleActionTimer, Sleeping
  <1>6. DeadlineIsHonest'
    BY <1>5 DEF DeadlineIsHonest, Sleeping
  <1>. QED BY <1>1, <1>3, <1>4, <1>5, <1>6 DEF ClockInv

\* A refused command is not the default action of the current decision point.
LEMMA RejectClock ==
    ASSUME TypeInv, ClockInv, Reject
    PROVE  ClockInv'
  <1> DEFINE q == Head(queue)
  <1>1. /\ queue # <<>> /\ queue' = Tail(queue) /\ UNCHANGED <<gameVars, timerVars, task, open>>
        /\ ~Acceptable(q)
    BY DEF Reject, closeVars
  <1>2. q = queue[1] /\ 1 \in DOMAIN queue
    BY <1>1, GetFacts DEF TypeInv, TypeOK
  <1> HIDE DEF q
  <1>3. ASSUME ~ShowdownChoice, q.src \in {"timeout", "disconnect"}, Current(q)
        PROVE  FALSE
    <2>1. turn # None /\ q.by = turn.account /\ q.kind = DefaultAction(turn) /\ status = "active"
      BY <1>2, <1>3 DEF Current, ClockInv, QueuedDefaults
    <2>2. turn.kind # "showdown"
      BY <1>3, <2>1 DEF ClockInv
    <2>. QED BY <1>1, <1>3, <2>1, <2>2 DEF Acceptable, Playable, DefaultAction
  <1>. QED BY <1>1, <1>3, ClockStays DEF ClockInv, q

\* Every step keeps it.
LEMMA ClockNext ==
    TypeInv /\ TimersAreCurrent /\ SentinelInv /\ ClockInv /\ [Next]_vars => ClockInv'
  <1> SUFFICES ASSUME TypeInv, TimersAreCurrent, SentinelInv, ClockInv, [Next]_vars
               PROVE  ClockInv'
    OBVIOUS
  <1>1. ASSUME NEW k \in Calls, Submit(k) PROVE ClockInv'
    <2>1. /\ UNCHANGED <<gameVars, timerVars, task, open>>
          /\ \E r \in Requests: SubmitProcessed(k, r) \/ SubmitInflight(k, r) \/ SubmitNew(k, r)
      BY <1>1 DEF Submit, closeVars
    <2>2. queue' = queue \/ \E e \in Entries: queue' = Append(queue, e) /\ TimersCommand(e)
      <3>1. PICK r \in Requests: SubmitProcessed(k, r) \/ SubmitInflight(k, r) \/ SubmitNew(k, r)
        BY <2>1
      <3> DEFINE e == [src |-> "player", call |-> k, by |-> r.by, hand |-> r.hand,
                       version |-> r.version, kind |-> r.kind]
      <3>2. e \in Entries /\ e.src = "player"
        BY DEF Entries, Sources, Requests, Kinds
      <3>3. SubmitNew(k, r) => queue' = Append(queue, e)
        BY DEF SubmitNew
      <3> HIDE DEF e
      <3>. QED BY <3>1, <3>2, <3>3 DEF SubmitProcessed, SubmitInflight, TimersCommand
    <2>. QED BY <2>1, <2>2, ClockStays DEF ClockInv
  <1>2. CASE ActionTimerFires \/ DisconnectTimerFires
    BY <1>2, FiringClock
  <1>3. CASE Apply
    BY <1>3, ApplyClock
  <1>4. CASE Reject
    BY <1>4, RejectClock
  <1>5. CASE Stop
    <2>1. /\ queue # <<>> /\ queue' = Tail(queue) /\ Head(queue).src = "stop"
          /\ UNCHANGED <<gameVars, timerVars, open>>
      BY <1>5 DEF Stop
    <2>2. ~open
      <3>1. Head(queue) = queue[1] /\ 1 \in DOMAIN queue
        BY <2>1, GetFacts DEF TypeInv, TypeOK
      <3>. QED BY <2>1, <3>1 DEF SentinelInv, StopMeansClosed
    <2>. QED BY <2>1, <2>2, ClosedClock DEF WaitingStep, ClockInv, timerVars
  <1>6. ASSUME NEW k \in Calls, HandlerGoesOn(k) PROVE ClockInv'
    BY <1>6, ScheduledClock DEF HandlerGoesOn, closeVars
  <1>7. ASSUME NEW k \in Calls, HandlerCloses(k) PROVE ClockInv'
    BY <1>7, CloseClock DEF HandlerCloses
  <1>8. ASSUME NEW k \in Calls, HandlerFindsNoRoom(k) PROVE ClockInv'
    BY <1>8, ClockStays DEF HandlerFindsNoRoom, closeVars, ClockInv
  <1>9. ASSUME NEW k \in Calls, HandlerClosed(k) PROVE ClockInv'
    BY <1>9, ClockStays DEF HandlerClosed, ClockInv
  <1>10. CASE AutoHandlerGoesOn
    BY <1>10, ScheduledClock DEF AutoHandlerGoesOn, closeVars
  <1>11. CASE AutoHandlerCloses
    BY <1>11, CloseClock DEF AutoHandlerCloses
  <1>12. CASE AdminClosed
    BY <1>12, ClockStays DEF AdminClosed, ClockInv
  <1>13. CASE AdminCloses
    BY <1>13, CloseClock, ClockStays DEF AdminCloses, ClockInv
  <1>14. ASSUME NEW a \in Accounts, Disconnect(a) \/ Reconnect(a) PROVE ClockInv'
    <2>1. UNCHANGED <<gameVars, queue, task, open>>
      BY <1>14 DEF Disconnect, Reconnect, closeVars
    <2>2. ScheduleDisconnect(a) \/ CancelDisconnect(a) \/ UNCHANGED timerVars
      BY <1>14 DEF Disconnect, Reconnect
    <2>. QED BY <2>1, <2>2, DisconnectClock, ClockStays DEF ClockInv
  <1>15. CASE UNCHANGED vars
    BY <1>15, ClockStays DEF vars, closeVars, ClockInv
  <1>. QED BY <1>1, <1>2, <1>3, <1>4, <1>5, <1>6, <1>7, <1>8, <1>9, <1>10, <1>11, <1>12, <1>13,
              <1>14, <1>15 DEF Next, Handlers

\* It holds from the start of the match on.
LEMMA ClockAlways == Spec => []ClockInv
  <1>1. Init => ClockInv
    <2> SUFFICES ASSUME Init PROVE ClockInv
      OBVIOUS
    <2>1. turn # None => turn \in Turns /\ turn.kind # "showdown"
      BY DEF Init, FirstTurns, TurnsOf
    <2>2. Timed /\ turn # None => Sleeping(timer)
      <3>1. [account |-> None, hand |-> 1, version |-> 0, fired |-> FALSE] \in Timers
        BY ActorAssumption DEF Timers, Hands, Versions
      <3>. QED BY <3>1, NoneAssumption DEF Init, Sleeping
    <2>3. DeadlineIsHonest
      BY <2>2 DEF Init, DeadlineIsHonest, Sleeping
    <2>4. QueuedDefaults
      BY DEF Init, QueuedDefaults
    <2>. QED BY <2>1, <2>3, <2>4 DEF Init, ClockInv
  <1>2. Init => TimersAreCurrent /\ SentinelInv
    BY DEF Init, TimersAreCurrent, Sleeping, SentinelInv, StopMeansClosed, NothingBehindStop
  <1>3. TypeInv /\ SentinelInv /\ [Next]_vars => SentinelInv'
    BY EveryQueueStep, SentinelStep
  <1>. QED BY <1>1, <1>2, <1>3, TimersNext, ClockNext, TypeAlways, PTL DEF Spec

\* The deadline in the players' snapshots (action_deadline_at) is a real one whatever
\* races with the timers of actor.py: while it is announced somebody is asleep until
\* then or that timer's command is queued, and no timer runs unannounced.  (With the
\* showdown choice the timer's fold is refused and the deadline stays.)
THEOREM DeadlineCorrect == Spec => []DeadlineIsHonest
  <1>1. ClockInv => DeadlineIsHonest
    BY DEF ClockInv
  <1>. QED BY <1>1, ClockAlways, PTL

\* _automatic_action: between a timer's put and the actor's get the decision point may
\* pass, but then the command is refused; one that is applied is the check or fold that
\* is due from the very player whose turn it is.
THEOREM AutomaticCorrect == Spec => AutomaticIsDefault
  <1> DEFINE Default == version' # version /\ Head(queue).src \in {"timeout", "disconnect"} =>
                          /\ turn.kind # "showdown"
                          /\ Head(queue).by = turn.account
                          /\ Head(queue).kind = DefaultAction(turn)
  <1>1. TypeInv /\ ClockInv /\ [Next]_vars => [Default]_vars
    <2> SUFFICES ASSUME TypeInv, ClockInv, Next, version' # version,
                        Head(queue).src \in {"timeout", "disconnect"}
                 PROVE  /\ turn.kind # "showdown"
                        /\ Head(queue).by = turn.account
                        /\ Head(queue).kind = DefaultAction(turn)
      OBVIOUS
    <2>1. Apply
      BY DEF Next, Handlers, Submit, ActionTimerFires, DisconnectTimerFires, Reject, Stop,
             HandlerGoesOn, HandlerCloses, HandlerFindsNoRoom, HandlerClosed, AutoHandlerGoesOn,
             AutoHandlerCloses, AdminClosed, AdminCloses, Disconnect, Reconnect, gameVars
    <2>2. queue # <<>> /\ Acceptable(Head(queue))
      BY <2>1 DEF Apply
    <2>3. Head(queue) = queue[1] /\ 1 \in DOMAIN queue
      BY <2>2, GetFacts DEF TypeInv, TypeOK
    <2>4. Head(queue).by = turn.account /\ Head(queue).kind = DefaultAction(turn)
      BY <2>2, <2>3 DEF ClockInv, QueuedDefaults, Acceptable, Current
    <2>. QED BY <2>2, <2>4 DEF Acceptable, Playable, DefaultAction
  <1>2. AutomaticIsDefault <=> [][Default]_vars
    BY DEF AutomaticIsDefault
  <1> HIDE DEF Default
  <1>. QED BY <1>1, <1>2, TypeAlways, ClockAlways, PTL DEF Spec
=============================================================================

----------------------------- MODULE MatchActor -----------------------------
(***************************************************************************)
(* The MatchActor of backend/app/game_engine/actor.py: one asyncio task    *)
(* that drains a queue of commands, deduplicates them by command id,       *)
(* checks them against the current hand and state version, applies them to *)
(* the hand, and keeps the action timer and the disconnect timer of the    *)
(* current decision point.  With it, what its callers in                   *)
(* realtime/room_handlers.py do before and after the queue.                *)
(*                                                                         *)
(* asyncio runs one task at a time and switches tasks only at an await     *)
(* that suspends, so an action here is the code between two such awaits.   *)
(*                                                                         *)
(* The cards and chips of the hand are abstracted to the current decision  *)
(* point: who must act and whether a check is free, a bet is faced, or the *)
(* cards are to be shown or mucked.  Which decision point follows a        *)
(* command is chosen freely.                                               *)
(***************************************************************************)
EXTENDS Naturals, Sequences, FiniteSets

CONSTANTS
    Accounts,        \* the accounts seated at the start of the match
    CommandIds,      \* the command ids clients use
    Calls,           \* invocations of game:action and game:quit
    Timed,           \* decision_timeout_seconds is not None
    ShowdownChoice,  \* the rule winner_may_show_hand
    DealtOver,       \* a hand may be over as soon as it is dealt
    StartsConnected, \* every player is connected when the match starts
    MaxVersion,      \* bound: the match is over by its MaxVersion-th command
    Lag,             \* bound: how many versions a client's view may be behind
    MaxLate,         \* bound: nobody disconnects while so many disconnect
                     \* timeouts are queued (reconnecting does not remove them)
    None             \* Python's None

ASSUME ActorAssumption ==
    /\ Timed \in BOOLEAN
    /\ ShowdownChoice \in BOOLEAN
    /\ DealtOver \in BOOLEAN
    /\ StartsConnected \in BOOLEAN
    /\ MaxVersion \in Nat \ {0}
    /\ Lag \in Nat
    /\ MaxLate \in Nat
    /\ None \notin Accounts \cup CommandIds \cup Calls

VARIABLES
    status,     \* coordinator.status: "active" or "complete"
    seated,     \* coordinator.hand_player_ids
    hand,       \* _hand_id; hands are numbered in the order they start
    version,    \* _state_version
    turn,       \* the current decision point; None once the match is over,
                \* and in a hand that was over when it was dealt
    queue,      \* _queue
    inflight,   \* _inflight: the call whose command holds the id
    processed,  \* _processed: the call whose command was applied, and its result
    request,    \* the command each call carries
    reply,      \* how far each call has got
    told,       \* the state version each accepted call was answered with
    busy,       \* outcome the _automatic_result_handler is working on
    timer,      \* _timer_task
    dtimer,     \* _disconnect_timer_task and _disconnect_timer_account_id
    deadline,   \* _action_deadline_at is not None
    task,       \* _task: "running", "ended" (done, not awaited), "none"
    open,       \* the MatchRegistry still holds the match
    admin,      \* close_room_admin: "idle", "closing", "done"
    connected   \* accounts whose room member is connected

gameVars == <<status, seated, hand, version, turn>>
callVars == <<inflight, processed, request, reply, told>>
timerVars == <<timer, dtimer, deadline>>
closeVars == <<task, open, admin>>
vars == <<gameVars, queue, callVars, busy, timerVars, closeVars, connected>>

Versions == 0..MaxVersion
Hands == 1..MaxVersion

(***************************************************************************)
(* "act" is any fold, check, call, bet or raise a player sends; "check"    *)
(* and "fold" are the two commands a timer sends.                          *)
(***************************************************************************)
Kinds == {"act", "show", "quit", "check", "fold"}
Sources == {"player", "timeout", "disconnect", "stop"}
Turns == [account: Accounts, kind: {"free", "facing", "showdown"}]
Requests == [id: CommandIds, by: Accounts, hand: Hands, version: Versions,
             kind: {"act", "show", "quit"}]
Outcomes == {"step", "hand", "match"}
Replies == {"idle", "waiting", "rejected", "conflict", "replayed", "closing", "done"}
             \cup Outcomes
Entries == [src: Sources, call: Calls \cup {None}, by: Accounts \cup {None},
            hand: Hands, version: Versions, kind: Kinds]
Timers == [account: Accounts \cup {None}, hand: Hands, version: Versions,
           fired: BOOLEAN]

\* None is no other value.
ASSUME NoneAssumption ==
    /\ None \notin Turns
    /\ None \notin Requests
    /\ None \notin Timers
    /\ None \notin Outcomes
    /\ None \notin [call: Calls, version: Versions]

TypeOK ==
    /\ status \in {"active", "complete"}
    /\ seated \subseteq Accounts
    /\ hand \in Hands
    /\ version \in Versions
    /\ turn \in Turns \cup {None}
    /\ queue \in Seq(Entries)
    /\ inflight \in [CommandIds -> Calls \cup {None}]
    /\ processed \in [CommandIds -> [call: Calls, version: Versions] \cup {None}]
    /\ request \in [Calls -> Requests \cup {None}]
    /\ reply \in [Calls -> Replies]
    /\ told \in [Calls -> Versions]
    /\ busy \in Outcomes \cup {None}
    /\ timer \in Timers \cup {None}
    /\ dtimer \in Timers \cup {None}
    /\ deadline \in BOOLEAN
    /\ task \in {"running", "ended", "none"}
    /\ open \in BOOLEAN
    /\ admin \in {"idle", "closing", "done"}
    /\ connected \subseteq Accounts

-----------------------------------------------------------------------------
(***************************************************************************)
(* Timers.  The scheduling operators run inside the steps below.           *)
(*                                                                         *)
(* Definitions marked "Fault" are not part of the specification: each is   *)
(* the definition after it with one mistake, and is used to see that the   *)
(* properties notice the mistake.                                          *)
(***************************************************************************)

Sleeping(t) == t # None /\ ~t.fired

\* Fault: the timer is started for a new hand only.
ScheduleActionTimerByHand(h, v, t) ==
    /\ timer' = IF Timed /\ t # None /\ h # hand
                  THEN [account |-> None, hand |-> h, version |-> v, fired |-> FALSE]
                  ELSE None
    /\ dtimer' = None
    /\ deadline' = (Timed /\ t # None)

\* Fault: the disconnect timer of the last decision is not cancelled.
ScheduleActionTimerOnly(h, v, t) ==
    /\ timer' = IF Timed /\ t # None
                  THEN [account |-> None, hand |-> h, version |-> v, fired |-> FALSE]
                  ELSE None
    /\ deadline' = (Timed /\ t # None)
    /\ UNCHANGED dtimer

\* _schedule_action_timer: both old tasks are cancelled first.
ScheduleActionTimer(h, v, t) ==
    /\ timer' = IF Timed /\ t # None
                  THEN [account |-> None, hand |-> h, version |-> v, fired |-> FALSE]
                  ELSE None
    /\ dtimer' = None
    /\ deadline' = (Timed /\ t # None)

\* schedule_disconnect_timeout
CanScheduleDisconnect(a) == ~Timed /\ turn # None /\ turn.account = a

ScheduleDisconnect(a) ==
    IF CanScheduleDisconnect(a)
      THEN /\ dtimer' = [account |-> a, hand |-> hand, version |-> version,
                         fired |-> FALSE]
           /\ deadline' = TRUE
           /\ UNCHANGED timer
      ELSE UNCHANGED timerVars

\* Fault: the deadline stays announced.
CancelDisconnectTask(a) ==
    /\ dtimer' = IF dtimer # None /\ dtimer.account = a THEN None ELSE dtimer
    /\ UNCHANGED <<timer, deadline>>

\* cancel_disconnect_timeout: a command the task has already queued stays queued.
CancelDisconnect(a) ==
    IF dtimer # None /\ dtimer.account = a
      THEN dtimer' = None /\ deadline' = FALSE /\ UNCHANGED timer
      ELSE UNCHANGED timerVars

\* Fault: the handler forgets players who were away before their turn.
ScheduleNobody == UNCHANGED timerVars

\* _schedule_disconnected_timeout, which every result handler calls.
ScheduleDisconnected ==
    IF turn # None /\ turn.account \notin connected
      THEN ScheduleDisconnect(turn.account)
      ELSE UNCHANGED timerVars

\* _automatic_action
DefaultAction(t) == IF t.kind = "free" THEN "check" ELSE "fold"

StopEntry == [src |-> "stop", call |-> None, by |-> None, hand |-> hand,
              version |-> version, kind |-> "quit"]

\* Fault: the decision is sent in place of an action.
AutoEntryRaw(src, t) == [src |-> src, call |-> None, by |-> turn.account,
                         hand |-> t.hand, version |-> t.version, kind |-> turn.kind]

AutoEntry(src, t) == [src |-> src, call |-> None, by |-> turn.account,
                      hand |-> t.hand, version |-> t.version,
                      kind |-> DefaultAction(turn)]

\* submit_timeout, called by a timer task that has woken.  The actor's task
\* being None is the "has not started" error, a missing turn the other one.
SubmitTimeout(src, t) ==
    queue' = IF turn # None /\ task # "none"
               THEN Append(queue, AutoEntry(src, t)) ELSE queue

\* _run_action_timer after its sleep
ActionTimerFires ==
    /\ Sleeping(timer)
    /\ timer' = [timer EXCEPT !.fired = TRUE]
    /\ SubmitTimeout("timeout", timer)
    /\ UNCHANGED <<gameVars, callVars, busy, dtimer, deadline, closeVars, connected>>

\* _run_disconnect_timeout after its sleep
DisconnectTimerFires ==
    /\ Sleeping(dtimer)
    /\ dtimer' = [dtimer EXCEPT !.fired = TRUE]
    /\ IF turn # None /\ turn.account = dtimer.account
         THEN SubmitTimeout("disconnect", dtimer)
         ELSE UNCHANGED queue
    /\ UNCHANGED <<gameVars, callVars, busy, timer, deadline, closeVars, connected>>

-----------------------------------------------------------------------------
(***************************************************************************)
(* Calls: game:action and game:quit look the match up and submit, with no  *)
(* suspension in between (the queue is unbounded, so put never waits).     *)
(***************************************************************************)

\* Fault: the id alone decides.
SameId(k, r) == request[k].id = r.id

SameCommand(k, r) == request[k] = r

\* submit, the id was applied before: the first result, or a conflict
SubmitProcessed(k, r) ==
    /\ processed[r.id] # None
    /\ LET same == SameCommand(processed[r.id].call, r)
       IN  /\ reply' = [reply EXCEPT ![k] = IF same THEN "replayed" ELSE "conflict"]
           /\ told' = IF same THEN [told EXCEPT ![k] = processed[r.id].version] ELSE told
    /\ UNCHANGED <<queue, inflight>>

\* submit, the id is queued: wait for the same future, or a conflict
SubmitInflight(k, r) ==
    /\ processed[r.id] = None
    /\ inflight[r.id] # None
    /\ reply' = [reply EXCEPT ![k] =
                   IF SameCommand(inflight[r.id], r) THEN "waiting" ELSE "conflict"]
    /\ UNCHANGED <<queue, inflight, told>>

\* Fault: an id is queued again while it waits.
SubmitWaitingAgain(k, r) ==
    /\ processed[r.id] = None
    /\ inflight' = [inflight EXCEPT ![r.id] = k]
    /\ queue' = Append(queue, [src |-> "player", call |-> k, by |-> r.by, hand |-> r.hand,
                               version |-> r.version, kind |-> r.kind])
    /\ reply' = [reply EXCEPT ![k] = "waiting"]
    /\ UNCHANGED told

\* Fault: an id is queued again after it was applied.
SubmitAppliedAgain(k, r) ==
    /\ inflight[r.id] = None
    /\ inflight' = [inflight EXCEPT ![r.id] = k]
    /\ queue' = Append(queue, [src |-> "player", call |-> k, by |-> r.by, hand |-> r.hand,
                               version |-> r.version, kind |-> r.kind])
    /\ reply' = [reply EXCEPT ![k] = "waiting"]
    /\ UNCHANGED told

\* submit, a new id
SubmitNew(k, r) ==
    /\ processed[r.id] = None
    /\ inflight[r.id] = None
    /\ inflight' = [inflight EXCEPT ![r.id] = k]
    /\ queue' = Append(queue, [src |-> "player", call |-> k, by |-> r.by, hand |-> r.hand,
                               version |-> r.version, kind |-> r.kind])
    /\ reply' = [reply EXCEPT ![k] = "waiting"]
    /\ UNCHANGED told

\* What a client may send: hand and version it was shown, not too long ago.
Sendable(r) == r.hand <= hand /\ r.version <= version /\ version <= r.version + Lag

\* Fault: the caller kept the actor instead of asking the registry.
SubmitToKeptActor(k) ==
    /\ reply[k] = "idle"
    /\ \E r \in Requests:
         /\ Sendable(r)
         /\ request' = [request EXCEPT ![k] = r]
         /\ SubmitProcessed(k, r) \/ SubmitInflight(k, r) \/ SubmitNew(k, r)
    /\ UNCHANGED <<gameVars, processed, busy, timerVars, closeVars, connected>>

Submit(k) ==
    /\ open
    /\ reply[k] = "idle"
    /\ \E r \in Requests:
         /\ Sendable(r)
         /\ request' = [request EXCEPT ![k] = r]
         /\ SubmitProcessed(k, r) \/ SubmitInflight(k, r) \/ SubmitNew(k, r)
    /\ UNCHANGED <<gameVars, processed, busy, timerVars, closeVars, connected>>

-----------------------------------------------------------------------------
(***************************************************************************)
(* The actor's task: _run and _apply.                                      *)
(***************************************************************************)

\* Fault: the version is not compared.
CurrentHand(q) == q.hand = hand

\* _validate_current_command
Current(q) == q.hand = hand /\ q.version = version

\* What the coordinator and the adapter accept at this decision point.
Playable(q) ==
    /\ turn # None
    /\ IF q.kind = "quit" THEN q.by \in seated
       ELSE /\ q.by = turn.account
            /\ (q.kind = "show") <=> (turn.kind = "showdown")

Acceptable(q) == status = "active" /\ Current(q) /\ Playable(q)

TurnsOf(S) == {t \in Turns: t.account \in S /\ (t.kind = "showdown" => ShowdownChoice)}

\* What a new hand begins with.
FirstTurns(S) ==
    {t \in TurnsOf(S): t.kind # "showdown"} \cup (IF DealtOver THEN {None} ELSE {})

\* The hand goes on.  After the first showdown choice only showdown choices follow.
HandGoesOn(q) ==
    /\ q.kind # "quit"
    /\ version + 1 < MaxVersion
    /\ turn' \in TurnsOf(seated)
    /\ turn.kind = "showdown" => turn'.kind = "showdown"
    /\ UNCHANGED <<status, seated, hand>>

\* The hand is settled and the coordinator deals the next one to the
\* survivors; a player who quit has no chips left and is not among them.
NextHand(q) ==
    /\ version + 1 < MaxVersion
    /\ seated' \in SUBSET (IF q.kind = "quit" THEN seated \ {q.by} ELSE seated)
    /\ Cardinality(seated') >= 2
    /\ hand' = hand + 1
    /\ turn' \in FirstTurns(seated')
    /\ UNCHANGED status

\* The hand is settled and the match is complete.
MatchEnds ==
    /\ status' = "complete"
    /\ seated' = {}
    /\ turn' = None
    /\ UNCHANGED hand

\* Fault: every waiting call handles the result.
AnswerAll(i, k, outcome) ==
    /\ inflight' = [inflight EXCEPT ![i] = None]
    /\ processed' = [processed EXCEPT ![i] = [call |-> k, version |-> version + 1]]
    /\ reply' = [c \in Calls |-> IF reply[c] = "waiting" /\ request[c].id = i
                                  THEN outcome ELSE reply[c]]
    /\ told' = [c \in Calls |-> IF reply[c] = "waiting" /\ request[c].id = i
                                 THEN version + 1 ELSE told[c]]

\* Everybody waiting for id i gets its result; the call that queued it goes
\* on to handle the result, the others only report it.
Answer(i, k, outcome) ==
    /\ inflight' = [inflight EXCEPT ![i] = None]
    /\ processed' = [processed EXCEPT ![i] = [call |-> k, version |-> version + 1]]
    /\ reply' = [c \in Calls |->
                   IF c = k THEN outcome
                   ELSE IF reply[c] = "waiting" /\ request[c].id = i THEN "replayed"
                   ELSE reply[c]]
    /\ told' = [c \in Calls |->
                  IF c = k \/ (reply[c] = "waiting" /\ request[c].id = i)
                    THEN version + 1 ELSE told[c]]

Apply ==
    /\ task = "running" /\ busy = None
    /\ queue # <<>>
    /\ LET q == Head(queue)
       IN  /\ q.src # "stop"
           /\ Acceptable(q)
           /\ version' = version + 1
           /\ \E outcome \in Outcomes:
                /\ CASE outcome = "step" -> HandGoesOn(q)
                     [] outcome = "hand" -> NextHand(q)
                     [] outcome = "match" -> MatchEnds
                /\ IF q.src = "player"
                     THEN Answer(request[q.call].id, q.call, outcome) /\ UNCHANGED busy
                     ELSE busy' = outcome /\ UNCHANGED <<inflight, processed, reply, told>>
           /\ ScheduleActionTimer(hand', version', turn')
           /\ queue' = Tail(queue)
    /\ UNCHANGED <<request, closeVars, connected>>

\* Fault: the error reaches nobody.
RefuseSilently(i) == inflight' = [inflight EXCEPT ![i] = None] /\ UNCHANGED reply

\* _apply raised: the id is forgotten and everybody waiting for it gets the error.
Refuse(i) ==
    /\ inflight' = [inflight EXCEPT ![i] = None]
    /\ reply' = [c \in Calls |->
                   IF reply[c] = "waiting" /\ request[c].id = i THEN "rejected" ELSE reply[c]]

Reject ==
    /\ task = "running" /\ busy = None
    /\ queue # <<>>
    /\ LET q == Head(queue)
       IN  /\ q.src # "stop"
           /\ ~Acceptable(q)
           /\ IF q.src = "player" THEN Refuse(request[q.call].id)
                                  ELSE UNCHANGED <<inflight, reply>>
           /\ queue' = Tail(queue)
    /\ UNCHANGED <<gameVars, processed, request, told, busy, timerVars, closeVars, connected>>

\* _run takes None from the queue and returns.
Stop ==
    /\ task = "running" /\ busy = None
    /\ queue # <<>>
    /\ Head(queue).src = "stop"
    /\ queue' = Tail(queue)
    /\ task' = "ended"
    /\ UNCHANGED <<gameVars, callVars, busy, timerVars, open, admin, connected>>

-----------------------------------------------------------------------------
(***************************************************************************)
(* _handle_match_result after an accepted command.  It runs in the caller  *)
(* for a player's command, in the actor's own task for a timer's.          *)
(***************************************************************************)

\* Fault: the task is not told to end.
CloseWithoutStop ==
    /\ open' = FALSE
    /\ timer' = None
    /\ dtimer' = None
    /\ UNCHANGED <<queue, deadline>>

\* MatchRegistry.remove and MatchActor.close up to its first suspension.
Close ==
    /\ open' = FALSE
    /\ IF task = "none" THEN UNCHANGED <<queue, timer, dtimer>>
                        ELSE /\ queue' = Append(queue, StopEntry)
                             /\ timer' = None
                             /\ dtimer' = None
    /\ UNCHANGED deadline

\* The match goes on: the disconnect fallback of the new decision point is set.
HandlerGoesOn(k) ==
    /\ reply[k] \in {"step", "hand"}
    /\ reply' = [reply EXCEPT ![k] = "done"]
    /\ ScheduleDisconnected
    /\ UNCHANGED <<gameVars, queue, inflight, processed, request, told, busy, closeVars,
                   connected>>

\* The match is complete, or persisting the completed hand failed.
HandlerCloses(k) ==
    /\ reply[k] \in {"hand", "match"}
    /\ reply' = [reply EXCEPT ![k] = IF task = "none" THEN "done" ELSE "closing"]
    /\ Close
    /\ UNCHANGED <<gameVars, inflight, processed, request, told, busy, task, admin, connected>>

\* close_room_admin has removed the room itself: nothing is left to do.
HandlerFindsNoRoom(k) ==
    /\ reply[k] \in Outcomes
    /\ admin = "done"
    /\ reply' = [reply EXCEPT ![k] = "done"]
    /\ UNCHANGED <<gameVars, queue, inflight, processed, request, told, busy, timerVars,
                   closeVars, connected>>

\* close resumes once the actor's task has returned.
HandlerClosed(k) ==
    /\ reply[k] = "closing"
    /\ task # "running"
    /\ task' = "none"
    /\ reply' = [reply EXCEPT ![k] = "done"]
    /\ UNCHANGED <<gameVars, queue, inflight, processed, request, told, busy, timerVars,
                   open, admin, connected>>

AutoHandlerGoesOn ==
    /\ busy \in {"step", "hand"}
    /\ busy' = None
    /\ ScheduleDisconnected
    /\ UNCHANGED <<gameVars, queue, callVars, closeVars, connected>>

\* close called by the actor's own task does not wait for it.
AutoHandlerCloses ==
    /\ busy \in {"hand", "match"}
    /\ busy' = None
    /\ Close
    /\ UNCHANGED <<gameVars, callVars, task, admin, connected>>

\* close_room_admin removes the match of the room, if it has one.
AdminCloses ==
    /\ admin = "idle"
    /\ IF open
         THEN Close /\ admin' = IF task = "none" THEN "done" ELSE "closing"
         ELSE admin' = "done" /\ UNCHANGED <<queue, timerVars, open>>
    /\ UNCHANGED <<gameVars, callVars, busy, task, connected>>

AdminClosed ==
    /\ admin = "closing"
    /\ task # "running"
    /\ task' = "none"
    /\ admin' = "done"
    /\ UNCHANGED <<gameVars, queue, callVars, busy, timerVars, open, connected>>

-----------------------------------------------------------------------------
(***************************************************************************)
(* Connections: mark_account_disconnected and restore_account_connection   *)
(* reach the actor only while the registry holds the match.                *)
(***************************************************************************)

Disconnect(a) ==
    /\ a \in connected
    /\ task = "running" => Cardinality({n \in DOMAIN queue: queue[n].src = "disconnect"}) < MaxLate
    /\ connected' = connected \ {a}
    /\ IF open THEN ScheduleDisconnect(a) ELSE UNCHANGED timerVars
    /\ UNCHANGED <<gameVars, queue, callVars, busy, closeVars>>

Reconnect(a) ==
    /\ a \notin connected
    /\ connected' = connected \cup {a}
    /\ IF open THEN CancelDisconnect(a) ELSE UNCHANGED timerVars
    /\ UNCHANGED <<gameVars, queue, callVars, busy, closeVars>>

-----------------------------------------------------------------------------

\* MatchActor.__init__ and start; room:start adds the match to the registry
\* and starts the actor without suspending.
Init ==
    /\ status = "active"
    /\ seated = Accounts
    /\ hand = 1
    /\ version = 0
    /\ turn \in FirstTurns(Accounts)
    /\ queue = <<>>
    /\ inflight = [i \in CommandIds |-> None]
    /\ processed = [i \in CommandIds |-> None]
    /\ request = [k \in Calls |-> None]
    /\ reply = [k \in Calls |-> "idle"]
    /\ told = [k \in Calls |-> 0]
    /\ busy = None
    /\ timer = IF Timed /\ turn # None THEN [account |-> None, hand |-> 1, version |-> 0, fired |-> FALSE]
                        ELSE None
    /\ dtimer = None
    /\ deadline = (Timed /\ turn # None)
    /\ task = "running"
    /\ open = TRUE
    /\ admin = "idle"
    /\ connected \in SUBSET Accounts
    /\ connected # {}
    /\ StartsConnected => connected = Accounts

Handlers ==
    \/ \E k \in Calls: HandlerGoesOn(k) \/ HandlerCloses(k) \/ HandlerFindsNoRoom(k)
                            \/ HandlerClosed(k)
    \/ AutoHandlerGoesOn
    \/ AutoHandlerCloses
    \/ AdminClosed

Next ==
    \/ \E k \in Calls: Submit(k)
    \/ ActionTimerFires
    \/ DisconnectTimerFires
    \/ Apply
    \/ Reject
    \/ Stop
    \/ Handlers
    \/ AdminCloses
    \/ \E a \in Accounts: Disconnect(a) \/ Reconnect(a)

\* The event loop runs every ready task, a database call returns or raises,
\* and a sleep ends.  Nothing makes a player or an administrator act.
Fairness ==
    /\ WF_vars(Apply \/ Reject \/ Stop)
    /\ WF_vars(ActionTimerFires)
    /\ WF_vars(DisconnectTimerFires)
    /\ \A k \in Calls: WF_vars(HandlerGoesOn(k) \/ HandlerCloses(k)
                              \/ HandlerFindsNoRoom(k) \/ HandlerClosed(k))
    /\ WF_vars(AutoHandlerGoesOn \/ AutoHandlerCloses)
    /\ WF_vars(AdminClosed)

Spec == Init /\ [][Next]_vars

FairSpec == Spec /\ Fairness
-----------------------------------------------------------------------------
(***************************************************************************)
(* Safety.                                                                 *)
(***************************************************************************)

Accepted == {"replayed", "closing", "done"} \cup Outcomes

\* Exactly once: an id that waits in _inflight has exactly its own command in
\* the queue, and an id that was applied has none (submit 166-183, _run).
CommandQueuedOnce ==
    /\ \A i \in CommandIds: processed[i] # None => inflight[i] = None
    /\ \A n \in DOMAIN queue: queue[n].src = "player" =>
         inflight[request[queue[n].call].id] = queue[n].call
    /\ \A m, n \in DOMAIN queue: queue[m].src = "player" /\ queue[n].src = "player"
         /\ queue[m].call = queue[n].call => m = n

\* All callers that were told a command was applied agree: same command, same
\* resulting version, and that version follows the one the caller acted on, so
\* a command never resolves a decision point its sender had not seen.
CallersAgree ==
    \A k \in Calls: reply[k] \in Accepted =>
      LET p == processed[request[k].id]
      IN  /\ p # None
          /\ request[p.call] = request[k]
          /\ told[k] = p.version
          /\ p.version = request[k].version + 1

\* The result of an id is handled (persisted, broadcast) by one call only.
HandledOnce ==
    \A k, c \in Calls:
      /\ reply[k] \in Accepted \ {"replayed"}
      /\ reply[c] \in Accepted \ {"replayed"}
      /\ request[k].id = request[c].id
      => k = c

\* A timer that can still fire belongs to the current decision point.
TimersAreCurrent ==
    /\ Sleeping(timer) =>
         timer.hand = hand /\ timer.version = version /\ turn # None
    /\ Sleeping(dtimer) =>
         /\ dtimer.hand = hand /\ dtimer.version = version
         /\ turn # None /\ turn.account = dtimer.account

\* A timer's command for the current decision point is in the queue.
Queued(src) ==
    \E n \in DOMAIN queue: queue[n].src = src /\ Current(queue[n])

\* The deadline shown to the players is a real one: somebody is asleep until
\* then, or the command of that timer is queued; and no timer runs unannounced.
DeadlineIsHonest ==
    ~ShowdownChoice /\ open =>
      /\ Sleeping(timer) \/ Sleeping(dtimer) => deadline
      /\ deadline => \/ Sleeping(timer) \/ Queued("timeout")
                     \/ Sleeping(dtimer) \/ Queued("disconnect")

\* No player's command is behind the sentinel that ends the task, where it
\* would never be answered, although submit does not know of the closing.
NothingBehindStop ==
    \A m, n \in DOMAIN queue: m < n /\ queue[m].src = "stop" => queue[n].src # "player"

\* The action a timer chose before its command was queued is still the default
\* action, of the same player, when the command is applied.
AutomaticIsDefault ==
    [][version' # version /\ Head(queue).src \in {"timeout", "disconnect"} =>
         /\ turn.kind # "showdown"
         /\ Head(queue).by = turn.account
         /\ Head(queue).kind = DefaultAction(turn)]_vars

(***************************************************************************)
(* The abstract specification this module implements.                      *)
(***************************************************************************)

Serial == INSTANCE SerialMatch WITH
            over <- status = "complete",
            asked <- [k \in Calls |-> IF request[k] = None THEN None ELSE request[k].id],
            resolved <- [i \in CommandIds |->
                           IF processed[i] = None THEN 0 ELSE processed[i].version]

\* The queue, the deduplication and the timers implement one match that is
\* decided by one command at a time, each id at most once.
ImplementsSerialMatch == Serial!Spec

(***************************************************************************)
(* Liveness, under Fairness.                                               *)
(***************************************************************************)

Answered == {"rejected", "conflict", "replayed", "done"}

\* Every call is answered, whether its command was applied, refused, queued
\* while another call closed the match, or was the one that closed it.
CallsAnswered == \A k \in Calls: reply[k] # "idle" ~> reply[k] \in Answered

\* In a timed room no state of a running match lasts, whoever is silent.  It holds
\* without the showdown choice: there the timer queues a fold, which is refused,
\* and a refusal sets no new timer.
TimedDecisionsEnd ==
    \A v \in Versions:
      Timed /\ open /\ status = "active" /\ version = v ~> version # v \/ ~open

\* A player who is away does not hold the table up for ever: the decision is
\* taken, or the player comes back.
AbsentDecisionsEnd ==
    \A v \in Versions:
      open /\ version = v /\ turn # None /\ turn.account \notin connected
        ~> version # v \/ ~open \/ (turn # None /\ turn.account \in connected)

\* The actor of a finished match is removed and its task returns.
FinishedActorStops == status = "complete" ~> task # "running" /\ ~open
=============================================================================
